------------------------------ MODULE LogProofs ------------------------------
(***************************************************************************)
(* What is on disk after a crash: the write-ahead log (Wal) and its        *)
(* refinement of DurableLog.                                               *)
(***************************************************************************)
EXTENDS Wal, SequenceTheorems, NaturalsInduction, WellFoundedInduction, TLAPS

(* Most leaves need no arithmetic and are quick for Zenon; SMT takes the others. *)
USE ZenonT(1), SMTT(30), Zenon

(* A set of numbers that is not empty has a smallest one. *)
LEMMA LeastNumber ==
  ASSUME NEW S \in SUBSET Nat, S # {}
  PROVE  \E x \in S : \A y \in S : x <= y
<1>1. PICK x \in S : \A y \in S : ~ (<<y, x>> \in OpToRel(<, Nat))
  BY NatLessThanWellFounded, WFMin
<1>2. ASSUME NEW y \in S PROVE x <= y
  <2>1. y < x => <<y, x>> \in OpToRel(<, Nat)
    BY DEF OpToRel
  <2>2. ~ (y < x)
    BY <1>1, <2>1, Zenon
  <2>3. x \in Nat /\ y \in Nat
    OBVIOUS
  <2> QED
    BY <2>2, <2>3
<1> QED
  BY <1>2, Zenon

-----------------------------------------------------------------------------
(* The scan of a file.  A chain is the way of a scan from the offset s: it *)
(* goes from one whole record to the next, and is complete when it can go  *)
(* no further.                                                             *)

Cells ==
  {Magic, Zero, Junk} \cup ({"record"} \X Nat \X Nat) \cup ({"payload"} \X Nat \X Nat)

Jump(f, p) == p + 1 + RecordLen(f, p)

Chain(f, s, c) ==
  /\ c \in Seq(Nat) /\ Len(c) > 0 /\ c[1] = s
  /\ \A i \in 1..Len(c) : c[i] <= Len(f)
  /\ \A i, j \in 1..Len(c) : i < j => c[i] < c[j]
  /\ \A i \in 1..(Len(c) - 1) : Whole(f, c[i]) /\ c[i + 1] = Jump(f, c[i])

Complete(f, s, c) == Chain(f, s, c) /\ ~Whole(f, c[Len(c)])

(* A header has a number and a length, and a record cell has those it was  *)
(* written with.                                                           *)
LEMMA HeaderIs ==
  ASSUME NEW f \in Seq(Cells), NEW p \in Nat, IsHeader(f, p)
  PROVE  /\ RecordNo(f, p) \in Nat /\ RecordLen(f, p) \in Nat
         /\ \/ f[p + 1] = Zero /\ RecordNo(f, p) = 0 /\ RecordLen(f, p) = 0
            \/ f[p + 1] = RecordCell(RecordNo(f, p), RecordLen(f, p))
<1>1. p + 1 \in 1..Len(f)
  BY LenProperties, SMT DEF IsHeader
<1>2. f[p + 1] \in Cells
  BY <1>1, ElementOfSeq
<1>3. CASE f[p + 1] = Zero
  BY <1>3 DEF RecordNo, RecordLen
<1>4. CASE f[p + 1] # Zero
  <2>1. f[p + 1][1] = "record"
    BY <1>4, <1>2 DEF IsHeader, Cells, Magic, Junk, Zero
  <2>2. f[p + 1] \in {"record"} \X Nat \X Nat
    BY <1>2, <1>4, <2>1, SMT DEF Cells, Magic, Junk, Zero
  <2> QED
    BY <1>4, <2>2 DEF RecordNo, RecordLen, RecordCell
<1> QED
  BY <1>3, <1>4

(* A whole record ends in the file, behind its header. *)
LEMMA WholeIs ==
  ASSUME NEW f \in Seq(Cells), NEW p \in Nat
  PROVE  Whole(f, p) <=>
           /\ IsHeader(f, p) /\ RecordLen(f, p) <= MaxPayload /\ Jump(f, p) <= Len(f)
           /\ \A k \in 1..RecordLen(f, p) :
                f[p + 1 + k] = <<"payload", RecordNo(f, p), k>>
<1> DEFINE l == RecordLen(f, p)
           n == RecordNo(f, p)
           q == SubSeq(f, p + 2, p + 1 + l)
<1>1. CASE ~IsHeader(f, p)
  BY <1>1 DEF Whole
<1>2. CASE ~(Jump(f, p) <= Len(f))
  BY <1>2 DEF Whole, Jump
<1>3. CASE IsHeader(f, p) /\ Jump(f, p) <= Len(f)
  <2>1. l \in Nat /\ Len(f) \in Nat /\ p + 1 + l <= Len(f)
    BY <1>3, HeaderIs, LenProperties DEF Jump
  <2> HIDE DEF l, n
  <2>2. p + 2 \in 1..(Len(f) + 1) /\ p + 1 + l \in (p + 1)..Len(f)
    BY <2>1
  <2>3. /\ q \in Seq(Cells) /\ Len(q) = l
        /\ \A k \in 1..l : q[k] = f[p + 1 + k]
    <3>1. /\ Len(q) = IF p + 2 <= p + 1 + l THEN (p + 1 + l) - (p + 2) + 1 ELSE 0
          /\ q \in Seq(Cells)
          /\ \A k \in 1..((p + 1 + l) - (p + 2) + 1) : q[k] = f[p + 2 + k - 1]
      BY <2>1, <2>2, SubSeqProperties, SMTT(30)
    <3> QED
      BY <2>1, <3>1
  <2>4. /\ PayloadCells(n, l) = [k \in 1..l |-> <<"payload", n, k>>]
        /\ q = [k \in 1..l |-> q[k]]
    BY <2>3, LenProperties DEF PayloadCells
  <2> QED
    BY <1>3, <2>3, <2>4, Zenon DEF Whole, l, n, Jump
<1> QED
  BY <1>1, <1>2, <1>3

(* A whole record takes the scan forward, within the file. *)
LEMMA JumpIs ==
  ASSUME NEW f \in Seq(Cells), NEW p \in Nat, Whole(f, p)
  PROVE  Jump(f, p) \in Nat /\ p < Jump(f, p) /\ Jump(f, p) <= Len(f) /\ p < Len(f)
BY HeaderIs, WholeIs, LenProperties, SMT DEF Jump

(* A chain that ends before a whole record can go on. *)
LEMMA ChainGoesOn ==
  ASSUME NEW f \in Seq(Cells), NEW s \in Nat, NEW c, Chain(f, s, c), Whole(f, c[Len(c)])
  PROVE  /\ Chain(f, s, Append(c, Jump(f, c[Len(c)])))
         /\ Len(Append(c, Jump(f, c[Len(c)]))) = Len(c) + 1
         /\ Append(c, Jump(f, c[Len(c)]))[Len(c) + 1] = Jump(f, c[Len(c)])
         /\ \A i \in 1..Len(c) : Append(c, Jump(f, c[Len(c)]))[i] = c[i]
<1> DEFINE n == Len(c)
           j == Jump(f, c[n])
           d == Append(c, j)
<1>1. c \in Seq(Nat) /\ n \in Nat \ {0} /\ c[n] \in Nat /\ Len(f) \in Nat
  BY LenProperties, ElementOfSeq, SMT DEF Chain
<1>2. j \in Nat /\ c[n] < j /\ j <= Len(f)
  BY <1>1, JumpIs
<1> HIDE DEF j
<1>3. /\ d \in Seq(Nat) /\ Len(d) = n + 1 /\ d[n + 1] = j
      /\ \A i \in 1..n : d[i] = c[i]
  BY <1>1, <1>2, AppendProperties, SMT
<1> HIDE DEF d, n
<1>4. \A i \in 1..n : c[i] \in Nat /\ c[i] <= c[n]
  BY <1>1, ElementOfSeq, SMT DEF Chain, n
<1>5. \A i \in 1..(n + 1) : i \in 1..n \/ i = n + 1
  BY <1>1
<1>6. \A i \in 1..(n + 1) : d[i] <= Len(f)
  BY <1>2, <1>3, <1>5, Zenon DEF Chain, n
<1>7. \A i, k \in 1..(n + 1) : i < k => d[i] < d[k]
  <2> SUFFICES ASSUME NEW i \in 1..(n + 1), NEW k \in 1..(n + 1), i < k
               PROVE  d[i] < d[k]
    OBVIOUS
  <2>1. i \in 1..n
    BY <1>1
  <2>2. CASE k \in 1..n
    BY <1>3, <2>1, <2>2 DEF Chain, n
  <2>3. CASE k = n + 1
    BY <1>1, <1>2, <1>3, <1>4, <2>1, <2>3
  <2> QED
    BY <1>5, <2>2, <2>3
<1>8. \A i \in 1..n : Whole(f, d[i]) /\ d[i + 1] = Jump(f, d[i])
  <2> SUFFICES ASSUME NEW i \in 1..n
               PROVE  Whole(f, d[i]) /\ d[i + 1] = Jump(f, d[i])
    OBVIOUS
  <2>1. CASE i = n
    BY <1>3, <2>1 DEF j, n
  <2>2. CASE i # n
    <3>1. i \in 1..(n - 1) /\ i + 1 \in 1..n
      BY <1>1, <2>2
    <3> QED
      BY <1>3, <3>1 DEF Chain, n
  <2> QED
    BY <2>1, <2>2
<1>9. d[1] = s /\ n + 1 > 0 /\ (n + 1) - 1 = n
  BY <1>1, <1>3, SMT DEF Chain
<1> QED
  BY <1>3, <1>6, <1>7, <1>8, <1>9 DEF Chain, d, n, j

(* Every scan comes to an end. *)
LEMMA ChainEnds ==
  ASSUME NEW f \in Seq(Cells), NEW s \in 0..Len(f)
  PROVE  \E c : Complete(f, s, c)
<1> DEFINE T == {n \in 0..Len(f) : \E c : Chain(f, s, c) /\ n = Len(f) - c[Len(c)]}
<1>0. Len(f) \in Nat /\ s \in Nat
  BY LenProperties, SMT
<1>1. Chain(f, s, <<s>>) /\ <<s>>[Len(<<s>>)] = s
  BY <1>0 DEF Chain
<1>2. Len(f) - s \in T
  <2>1. Len(f) - s \in 0..Len(f) /\ Len(f) - s = Len(f) - <<s>>[Len(<<s>>)]
    BY <1>0, <1>1
  <2> QED
    BY <1>1, <2>1, Zenon
<1>3. PICK x \in T : \A y \in T : x <= y
  <2>1. T \in SUBSET Nat
    BY <1>0, SMT
  <2> HIDE DEF T
  <2> QED
    BY <1>2, <2>1, LeastNumber, Zenon
<1>4. PICK c : Chain(f, s, c) /\ x = Len(f) - c[Len(c)]
  BY <1>3
<1>5. ~Whole(f, c[Len(c)])
  <2> SUFFICES ASSUME Whole(f, c[Len(c)]) PROVE FALSE
    OBVIOUS
  <2> DEFINE j == Jump(f, c[Len(c)])
             d == Append(c, j)
  <2>1. c[Len(c)] \in Nat
    BY <1>4, LenProperties, ElementOfSeq, SMTT(30) DEF Chain
  <2>2. j \in Nat /\ c[Len(c)] < j /\ j <= Len(f)
    BY <2>1, JumpIs
  <2>3. Chain(f, s, d) /\ d[Len(d)] = j
    BY <1>0, <1>4, ChainGoesOn
  <2> HIDE DEF j, d
  <2>4. Len(f) - j \in T
    BY <1>0, <2>2, <2>3
  <2> QED
    BY <1>0, <1>3, <1>4, <2>1, <2>2, <2>4, SMTT(30)
<1> QED
  BY <1>4, <1>5 DEF Complete

(* A chain goes the way of the complete one. *)
LEMMA ChainIsPrefix ==
  ASSUME NEW f \in Seq(Cells), NEW s \in Nat, NEW c, Chain(f, s, c),
         NEW d, Complete(f, s, d)
  PROVE  Len(c) <= Len(d) /\ \A i \in 1..Len(c) : c[i] = d[i]
<1>0. Len(c) \in Nat /\ Len(d) \in Nat /\ c[1] = s /\ d[1] = s /\ Len(d) > 0 /\ Len(c) > 0
  BY LenProperties DEF Complete, Chain
<1> DEFINE T == {i \in 1..Len(c) : ~(i <= Len(d) /\ c[i] = d[i])}
<1>1. T = {}
  <2> SUFFICES ASSUME T # {} PROVE FALSE
    OBVIOUS
  <2>1. PICK x \in T : \A y \in T : x <= y
    <3>1. T \in SUBSET Nat
      BY <1>0, SMT
    <3> HIDE DEF T
    <3> QED
      BY <3>1, LeastNumber, Zenon
  <2>2. x # 1
    BY <1>0, <2>1
  <2>3. x - 1 \in 1..(Len(c) - 1) /\ x - 1 \in 1..Len(c) /\ ~(x <= x - 1)
    BY <1>0, <2>1, <2>2
  <2>4. x - 1 <= Len(d) /\ c[x - 1] = d[x - 1]
    BY <2>1, <2>3
  <2>5. Whole(f, c[x - 1]) /\ c[(x - 1) + 1] = Jump(f, c[x - 1])
    BY <2>3 DEF Chain
  <2>6. x - 1 # Len(d)
    BY <2>4, <2>5 DEF Complete
  <2>7. x - 1 \in 1..(Len(d) - 1) /\ (x - 1) + 1 = x /\ x <= Len(d)
    BY <1>0, <2>3, <2>4, <2>6
  <2>8. d[(x - 1) + 1] = Jump(f, d[x - 1])
    BY <2>7 DEF Complete, Chain
  <2> QED
    BY <2>1, <2>4, <2>5, <2>7, <2>8
<1> QED
  BY <1>0, <1>1

(* Behind a whole record the complete chain goes on as the one from there. *)
LEMMA ChainRest ==
  ASSUME NEW f \in Seq(Cells), NEW s \in Nat, NEW c, Complete(f, s, c), Whole(f, s)
  PROVE  /\ Len(c) > 1 /\ Complete(f, Jump(f, s), Tail(c))
         /\ Len(Tail(c)) = Len(c) - 1
         /\ \A i \in 1..(Len(c) - 1) : Tail(c)[i] = c[i + 1]
<1>1. c \in Seq(Nat) /\ Len(c) \in Nat /\ Len(c) > 0 /\ c[1] = s
  BY LenProperties DEF Complete, Chain
<1>2. Len(c) # 1
  BY <1>1 DEF Complete
<1>3. /\ Tail(c) \in Seq(Nat) /\ Len(Tail(c)) = Len(c) - 1
      /\ \A i \in 1..(Len(c) - 1) : Tail(c)[i] = c[i + 1]
  BY <1>1, HeadTailProperties, SMT
<1>4. 1 \in 1..(Len(c) - 1) /\ Len(c) > 1 /\ Len(c) - 1 \in Nat
  <2>1. \A n \in Nat : n > 0 /\ n # 1 => 1 \in 1..(n - 1) /\ n > 1 /\ n - 1 \in Nat
    OBVIOUS
  <2> QED
    BY <1>1, <1>2, <2>1, Zenon
<1>5. c[1 + 1] = Jump(f, s)
  BY <1>1, <1>4 DEF Complete, Chain
<1> DEFINE m == Len(c) - 1
           t == Tail(c)
<1> HIDE DEF t
<1>6. \A i \in 1..m : i + 1 \in 1..Len(c)
  BY <1>1
<1>7. \A i \in 1..m : t[i] <= Len(f)
  BY <1>3, <1>6 DEF Complete, Chain, t
<1>8. \A i, j \in 1..m : i < j => t[i] < t[j]
  <2>1. \A i, j \in 1..m : i < j => i + 1 < j + 1
    BY <1>1
  <2> QED
    BY <1>3, <1>6, <2>1 DEF Complete, Chain, t
<1>9. \A i \in 1..(m - 1) : Whole(f, t[i]) /\ t[i + 1] = Jump(f, t[i])
  <2>1. \A i \in 1..(m - 1) : i \in 1..m /\ i + 1 \in 1..m /\ i + 1 \in 1..(Len(c) - 1)
    BY <1>1
  <2> QED
    BY <1>3, <2>1 DEF Complete, Chain, t
<1>10. ~Whole(f, t[m])
  <2>1. m \in 1..m /\ m + 1 = Len(c)
    BY <1>4
  <2> QED
    BY <1>3, <2>1 DEF Complete, t
<1> QED
  BY <1>3, <1>4, <1>5, <1>7, <1>8, <1>9, <1>10, SMT DEF Complete, Chain, t

(* Two complete chains are one. *)
LEMMA ChainUnique ==
  ASSUME NEW f \in Seq(Cells), NEW s \in Nat, NEW c, Complete(f, s, c),
         NEW d, Complete(f, s, d)
  PROVE  c = d
<1>1. c \in Seq(Nat) /\ d \in Seq(Nat) /\ Len(c) \in Nat /\ Len(d) \in Nat
  BY LenProperties DEF Complete, Chain
<1>2. Chain(f, s, c) /\ Chain(f, s, d)
  BY DEF Complete
<1>3. Len(c) <= Len(d) /\ Len(d) <= Len(c) /\ \A i \in 1..Len(c) : c[i] = d[i]
  BY <1>2, ChainIsPrefix, SMT
<1> QED
  BY <1>1, <1>3, SeqEqual, SMT

-----------------------------------------------------------------------------
(* The two recursive functions of the scan have a value: where the chain   *)
(* ends, and what it passes.                                               *)
ChainOf(f, p) == CHOOSE c : Complete(f, p, c)
Records(f, c) == [i \in 1..(Len(c) - 1) |-> [n |-> RecordNo(f, c[i]), off |-> c[i] + 1]]

(* Every offset has a complete chain. *)
LEMMA ChainOfIs ==
  ASSUME NEW f \in Seq(Cells), NEW p \in 0..Len(f)
  PROVE  Complete(f, p, ChainOf(f, p))
BY ChainEnds, Zenon DEF ChainOf

(* The chain of the next record is the rest of the chain. *)
LEMMA ChainOfStep ==
  ASSUME NEW f \in Seq(Cells), NEW p \in 0..Len(f)
  PROVE  /\ ChainOf(f, p) \in Seq(Nat) /\ Len(ChainOf(f, p)) \in Nat \ {0}
         /\ Whole(f, p) => /\ Jump(f, p) \in 0..Len(f)
                           /\ ChainOf(f, Jump(f, p)) = Tail(ChainOf(f, p))
                           /\ Len(ChainOf(f, p)) > 1
         /\ ~Whole(f, p) => Len(ChainOf(f, p)) = 1
         /\ ChainOf(f, p)[1] = p
<1> DEFINE c == ChainOf(f, p)
<1>0. p \in Nat /\ Len(f) \in Nat
  BY LenProperties, SMT
<1>1. Complete(f, p, c)
  BY ChainOfIs
<1> HIDE DEF c
<1>2. c \in Seq(Nat) /\ Len(c) \in Nat \ {0} /\ c[1] = p
  BY <1>1, LenProperties, SMT DEF Complete, Chain
<1>3. ASSUME Whole(f, p)
      PROVE  Jump(f, p) \in 0..Len(f) /\ ChainOf(f, Jump(f, p)) = Tail(c) /\ Len(c) > 1
  <2>1. Jump(f, p) \in 0..Len(f) /\ Jump(f, p) \in Nat
    BY <1>0, <1>3, JumpIs, SMT
  <2>2. Complete(f, Jump(f, p), Tail(c)) /\ Len(c) > 1
    BY <1>0, <1>1, <1>3, ChainRest
  <2>3. Complete(f, Jump(f, p), ChainOf(f, Jump(f, p)))
    BY <2>1, ChainOfIs
  <2> QED
    BY <2>1, <2>2, <2>3, ChainUnique, Zenon
<1>4. ASSUME ~Whole(f, p) PROVE Len(c) = 1
  <2>1. 1 \in 1..(Len(c) - 1) => Whole(f, c[1])
    BY <1>1 DEF Complete, Chain
  <2>2. \A n \in Nat \ {0} : 1 \in 1..(n - 1) \/ n = 1
    OBVIOUS
  <2> QED
    BY <1>2, <1>4, <2>1, <2>2, Zenon
<1> QED
  BY <1>2, <1>3, <1>4 DEF c

(* Induction along the scan: from the place behind a record to the record. *)
LEMMA ScanInduction ==
  ASSUME NEW f \in Seq(Cells), NEW S,
         \A p \in 0..Len(f) : Whole(f, p) /\ Jump(f, p) \in S => p \in S,
         \A p \in 0..Len(f) : ~Whole(f, p) => p \in S
  PROVE  0..Len(f) \subseteq S
<1>0. Len(f) \in Nat
  BY LenProperties
<1> DEFINE T == {n \in 0..Len(f) : Len(f) - n \notin S}
<1>1. SUFFICES T = {}
  <2> SUFFICES ASSUME NEW p \in 0..Len(f) PROVE p \in S
    BY <1>1
  <2>1. Len(f) - p \in 0..Len(f) /\ Len(f) - (Len(f) - p) = p
    BY <1>0
  <2>2. Len(f) - p \notin T
    BY <1>1, Zenon
  <2> QED
    BY <2>1, <2>2
<1>2. SUFFICES ASSUME T # {} PROVE FALSE
  OBVIOUS
<1>3. PICK x \in T : \A y \in T : x <= y
  <2>1. T \in SUBSET Nat
    BY <1>0, SMT
  <2> HIDE DEF T
  <2> QED
    BY <1>2, <2>1, LeastNumber, Zenon
<1> DEFINE p == Len(f) - x
<1>4. p \in 0..Len(f) /\ p \in Nat /\ p \notin S /\ x = Len(f) - p
  BY <1>0, <1>3, SMT
<1> HIDE DEF p
<1>5. Whole(f, p)
  BY <1>4
<1>6. Jump(f, p) \in Nat /\ p < Jump(f, p) /\ Jump(f, p) <= Len(f) /\ Jump(f, p) \notin S
  BY <1>4, <1>5, JumpIs
<1> DEFINE j == Jump(f, p)
<1> HIDE DEF j
<1>7. Len(f) - j \in T /\ ~(x <= Len(f) - j)
  <2>1. Len(f) - j \in 0..Len(f) /\ Len(f) - (Len(f) - j) = j /\ ~(x <= Len(f) - j)
    BY <1>0, <1>4, <1>6, SMT DEF j
  <2> QED
    BY <1>6, <2>1 DEF j
<1> QED
  BY <1>3, <1>7, Zenon

ScanFcn(f) ==
  CHOOSE g : g = [p \in 0..Len(f) |-> IF Whole(f, p) THEN g[p + 1 + RecordLen(f, p)] ELSE p]
ReadFcn(f) ==
  CHOOSE g : g = [p \in 0..Len(f) |->
                    IF Whole(f, p)
                      THEN <<[n |-> RecordNo(f, p), off |-> p + 1]>>
                             \o g[p + 1 + RecordLen(f, p)]
                      ELSE <<>>]

(* Where open truncates is what the scan function says of the header. *)
LEMMA ScanEndIs ==
  ASSUME NEW f PROVE ScanEnd(f) = ScanFcn(f)[HEADER_LEN]
BY DEF ScanEnd, ScanFcn

(* So is what read_all returns. *)
LEMMA ReadAllIs ==
  ASSUME NEW f
  PROVE  ReadAll(f) = IF Len(f) < HEADER_LEN THEN <<>> ELSE ReadFcn(f)[HEADER_LEN]
BY DEF ReadAll, ReadFcn

(* The scan function gives the last offset of the chain. *)
LEMMA ScanFcnIs ==
  ASSUME NEW f \in Seq(Cells), NEW p \in 0..Len(f)
  PROVE  ScanFcn(f)[p] = ChainOf(f, p)[Len(ChainOf(f, p))]
<1> DEFINE V(q) == ChainOf(f, q)[Len(ChainOf(f, q))]
           W == [q \in 0..Len(f) |-> V(q)]
           g == ScanFcn(f)
           S == {q \in 0..Len(f) : g[q] = V(q)}
<1>1. \A q \in 0..Len(f) :
        V(q) = IF Whole(f, q) THEN V(Jump(f, q)) ELSE q
  <2> SUFFICES ASSUME NEW q \in 0..Len(f)
               PROVE  V(q) = IF Whole(f, q) THEN V(Jump(f, q)) ELSE q
    OBVIOUS
  <2> DEFINE c == ChainOf(f, q)
  <2>1. c \in Seq(Nat) /\ Len(c) \in Nat \ {0} /\ c[1] = q
    BY ChainOfStep
  <2>2. CASE Whole(f, q)
    <3>1. ChainOf(f, Jump(f, q)) = Tail(c) /\ Len(c) > 1
      BY <2>2, ChainOfStep
    <3> HIDE DEF c
    <3>2. Len(Tail(c)) = Len(c) - 1 /\ Tail(c)[Len(c) - 1] = c[Len(c)]
      BY <2>1, <3>1, HeadTailProperties, SMT
    <3> QED
      BY <2>2, <3>1, <3>2 DEF c
  <2>3. CASE ~Whole(f, q)
    BY <2>1, <2>3, ChainOfStep
  <2> QED
    BY <2>2, <2>3
<1>2. \A q \in 0..Len(f) : Whole(f, q) => Jump(f, q) \in 0..Len(f)
  BY ChainOfStep
<1> HIDE DEF V
<1>3. W = [q \in 0..Len(f) |-> IF Whole(f, q) THEN W[q + 1 + RecordLen(f, q)] ELSE q]
  BY <1>1, <1>2 DEF Jump
<1> HIDE DEF W
<1>4. g = [q \in 0..Len(f) |-> IF Whole(f, q) THEN g[q + 1 + RecordLen(f, q)] ELSE q]
  BY <1>3, Zenon DEF ScanFcn
<1> HIDE DEF g
<1>5. 0..Len(f) \subseteq S
  <2>1. \A q \in 0..Len(f) : Whole(f, q) /\ Jump(f, q) \in S => q \in S
    BY <1>1, <1>4 DEF Jump
  <2>2. \A q \in 0..Len(f) : ~Whole(f, q) => q \in S
    BY <1>1, <1>4
  <2> HIDE DEF S
  <2> QED
    BY <2>1, <2>2, ScanInduction
<1> QED
  BY <1>5 DEF V, g

(* The read function gives the records of the chain. *)
LEMMA ReadFcnIs ==
  ASSUME NEW f \in Seq(Cells), NEW p \in 0..Len(f)
  PROVE  ReadFcn(f)[p] = Records(f, ChainOf(f, p))
<1> DEFINE R(q) == [n |-> RecordNo(f, q), off |-> q + 1]
           V(q) == Records(f, ChainOf(f, q))
           W == [q \in 0..Len(f) |-> V(q)]
           g == ReadFcn(f)
           S == {q \in 0..Len(f) : g[q] = V(q)}
<1>1. \A q \in 0..Len(f) :
        V(q) = IF Whole(f, q) THEN <<R(q)>> \o V(Jump(f, q)) ELSE <<>>
  <2> SUFFICES ASSUME NEW q \in 0..Len(f)
               PROVE  V(q) = IF Whole(f, q) THEN <<R(q)>> \o V(Jump(f, q)) ELSE <<>>
    OBVIOUS
  <2> DEFINE c == ChainOf(f, q)
  <2>1. c \in Seq(Nat) /\ Len(c) \in Nat \ {0} /\ c[1] = q
    BY ChainOfStep
  <2>2. CASE Whole(f, q)
    <3>1. ChainOf(f, Jump(f, q)) = Tail(c) /\ Len(c) > 1
      BY <2>2, ChainOfStep
    <3> HIDE DEF c
    <3> DEFINE m == Len(c) - 1
    <3>2. m \in Nat \ {0} /\ Len(Tail(c)) = m /\ \A i \in 1..m : Tail(c)[i] = c[i + 1]
      BY <2>1, <3>1, HeadTailProperties, SMT
    <3> DEFINE T == {R(c[i]) : i \in 1..m}
               v == [i \in 1..m |-> R(c[i])]
               w == [i \in 1..(m - 1) |-> R(c[i + 1])]
               u == <<R(q)>> \o w
    <3>3. V(q) = v
      BY DEF Records, c
    <3>4. V(Jump(f, q)) = w
      <4>1. \A i \in 1..(m - 1) : i \in 1..m
        BY <3>2
      <4> QED
        BY <3>1, <3>2, <4>1 DEF Records
    <3> HIDE DEF R
    <3>5. v \in Seq(T) /\ Len(v) = m /\ \A i \in 1..m : v[i] = R(c[i])
      BY <3>2
    <3>6. w \in Seq(T) /\ Len(w) = m - 1 /\ \A i \in 1..(m - 1) : w[i] = R(c[i + 1])
      <4>1. \A i \in 1..(m - 1) : R(c[i + 1]) \in T
        BY <3>2, SMT
      <4> HIDE DEF T, m
      <4>2. m - 1 \in Nat
        BY <3>2
      <4> QED
        BY <4>1, <4>2
    <3>7. R(q) \in T
      BY <2>1, <3>2, SMT
    <3> HIDE DEF T, v, w, m
    <3>8. <<R(q)>> \in Seq(T) /\ Len(<<R(q)>>) = 1 /\ <<R(q)>>[1] = R(q)
      BY <3>7
    <3>9. /\ u \in Seq(T) /\ Len(u) = m
          /\ \A i \in 1..m : u[i] = IF i <= 1 THEN <<R(q)>>[i] ELSE w[i - 1]
      BY <3>2, <3>6, <3>8, ConcatProperties, SMT
    <3>10. \A i \in 1..m : u[i] = v[i]
      <4> SUFFICES ASSUME NEW i \in 1..m PROVE u[i] = v[i]
        BY Zenon
      <4>1. CASE i = 1
        BY <2>1, <3>5, <3>8, <3>9, <4>1, SMT
      <4>2. CASE i # 1
        <5>1. i - 1 \in 1..(m - 1) /\ ~(i <= 1) /\ (i - 1) + 1 = i
          BY <3>2, <4>2
        <5> QED
          BY <3>5, <3>6, <3>9, <5>1
      <4> QED
        BY <4>1, <4>2, Zenon
    <3> HIDE DEF u
    <3>11. u = v
      BY <3>5, <3>9, <3>10, SeqEqual
    <3> QED
      BY <2>2, <3>3, <3>4, <3>11 DEF u
  <2>3. CASE ~Whole(f, q)
    <3>1. Len(c) = 1
      BY <2>3, ChainOfStep
    <3> QED
      BY <2>3, <3>1 DEF Records
  <2> QED
    BY <2>2, <2>3
<1>2. \A q \in 0..Len(f) : Whole(f, q) => Jump(f, q) \in 0..Len(f)
  BY ChainOfStep
<1> HIDE DEF V
<1>3. W = [q \in 0..Len(f) |->
             IF Whole(f, q) THEN <<R(q)>> \o W[q + 1 + RecordLen(f, q)] ELSE <<>>]
  <2> HIDE DEF R
  <2> QED
    BY <1>1, <1>2 DEF Jump
<1> HIDE DEF W
<1>4. g = [q \in 0..Len(f) |->
             IF Whole(f, q) THEN <<R(q)>> \o g[q + 1 + RecordLen(f, q)] ELSE <<>>]
  BY <1>3, Zenon DEF ReadFcn
<1> HIDE DEF g, R
<1>5. 0..Len(f) \subseteq S
  <2>1. \A q \in 0..Len(f) : Whole(f, q) /\ Jump(f, q) \in S => q \in S
    BY <1>1, <1>4, Zenon DEF Jump
  <2>2. \A q \in 0..Len(f) : ~Whole(f, q) => q \in S
    BY <1>1, <1>4, Zenon
  <2> HIDE DEF S
  <2> QED
    BY <2>1, <2>2, ScanInduction
<1> QED
  BY <1>5 DEF V, g

(* So a scan finds the records of the complete chain from the header on    *)
(* (WalReader::read_all) and stops at its end (scan_valid_end).            *)
LEMMA ScanFinds ==
  ASSUME NEW f \in Seq(Cells), Len(f) > 0, NEW c, Complete(f, HEADER_LEN, c)
  PROVE  ScanEnd(f) = c[Len(c)] /\ ReadAll(f) = Records(f, c)
<1>1. HEADER_LEN \in 0..Len(f) /\ HEADER_LEN \in Nat /\ ~(Len(f) < HEADER_LEN)
  BY LenProperties DEF HEADER_LEN
<1>2. c = ChainOf(f, HEADER_LEN)
  BY <1>1, ChainOfIs, ChainUnique, Zenon
<1> QED
  BY <1>1, <1>2, ScanEndIs, ReadAllIs, ScanFcnIs, ReadFcnIs

-----------------------------------------------------------------------------
(* What a scan finds in a file that grows, is cut, or is another one from  *)
(* some place on.                                                          *)
Nums(f) == Numbers(ReadAll(f))
StartsWith(g, f) == Len(f) <= Len(g) /\ \A i \in 1..Len(f) : g[i] = f[i]

(* A record that ends in the common part of two files is in both. *)
LEMMA SharedRecord ==
  ASSUME NEW f \in Seq(Cells), NEW g \in Seq(Cells), NEW m \in Nat,
         m <= Len(f), m <= Len(g), \A i \in 1..m : g[i] = f[i],
         NEW p \in Nat, Whole(f, p), Jump(f, p) <= m
  PROVE  /\ Whole(g, p) /\ Jump(g, p) = Jump(f, p)
         /\ RecordNo(g, p) = RecordNo(f, p)
<1>0. Len(f) \in Nat /\ Len(g) \in Nat
  BY LenProperties
<1>1. /\ IsHeader(f, p) /\ RecordLen(f, p) <= MaxPayload
      /\ \A k \in 1..RecordLen(f, p) : f[p + 1 + k] = <<"payload", RecordNo(f, p), k>>
  BY WholeIs
<1>2. RecordLen(f, p) \in Nat /\ RecordNo(f, p) \in Nat
  BY <1>1, HeaderIs
<1>3. p + 1 \in 1..m /\ p < Len(g) /\ g[p + 1] = f[p + 1]
  BY <1>0, <1>2 DEF Jump
<1>4. /\ RecordLen(g, p) = RecordLen(f, p) /\ RecordNo(g, p) = RecordNo(f, p)
      /\ IsHeader(g, p)
  BY <1>1, <1>3 DEF RecordLen, RecordNo, IsHeader
<1>5. \A k \in 1..RecordLen(f, p) : p + 1 + k \in 1..m
  BY <1>0, <1>2 DEF Jump
<1>6. \A k \in 1..RecordLen(f, p) : g[p + 1 + k] = <<"payload", RecordNo(f, p), k>>
  BY <1>1, <1>5
<1>7. Jump(g, p) = Jump(f, p) /\ Jump(g, p) <= Len(g)
  BY <1>0, <1>2, <1>4 DEF Jump
<1> QED
  BY <1>1, <1>4, <1>6, <1>7, WholeIs

(* A chain within a part that two files share is a chain of both. *)
LEMMA SharedChain ==
  ASSUME NEW f \in Seq(Cells), NEW g \in Seq(Cells), NEW s \in Nat,
         NEW c, Chain(f, s, c), NEW m \in Nat,
         m <= Len(f), m <= Len(g), \A i \in 1..m : g[i] = f[i], c[Len(c)] <= m
  PROVE  Chain(g, s, c) /\ \A i \in 1..(Len(c) - 1) : RecordNo(g, c[i]) = RecordNo(f, c[i])
<1>0. c \in Seq(Nat) /\ Len(c) \in Nat \ {0} /\ Len(f) \in Nat /\ Len(g) \in Nat
  BY LenProperties, SMT DEF Chain
<1>1. \A i \in 1..Len(c) : c[i] \in Nat /\ c[i] <= c[Len(c)]
  <2> DEFINE n == Len(c)
  <2>1. \A i \in 1..n : c[i] \in Nat
    BY <1>0, ElementOfSeq
  <2>2. \A i \in 1..n : n \in 1..n /\ (i = n \/ i < n)
    BY <1>0
  <2>3. \A i, j \in 1..n : i < j => c[i] < c[j]
    BY DEF Chain
  <2> HIDE DEF n
  <2> QED
    BY <2>1, <2>2, <2>3 DEF n
<1>2. \A i \in 1..(Len(c) - 1) : i \in 1..Len(c) /\ i + 1 \in 1..Len(c)
  BY <1>0
<1>3. \A i \in 1..(Len(c) - 1) :
        /\ Whole(g, c[i]) /\ c[i + 1] = Jump(g, c[i])
        /\ RecordNo(g, c[i]) = RecordNo(f, c[i])
  <2> SUFFICES ASSUME NEW i \in 1..(Len(c) - 1)
               PROVE  /\ Whole(g, c[i]) /\ c[i + 1] = Jump(g, c[i])
                      /\ RecordNo(g, c[i]) = RecordNo(f, c[i])
    OBVIOUS
  <2>1. c[i] \in Nat /\ c[i + 1] \in Nat /\ c[i + 1] <= c[Len(c)]
    BY <1>1, <1>2
  <2>2. Whole(f, c[i]) /\ c[i + 1] = Jump(f, c[i])
    BY DEF Chain
  <2>3. c[Len(c)] \in Nat /\ Jump(f, c[i]) <= m
    BY <1>0, <1>1, <2>1, <2>2, SMT
  <2> QED
    BY <2>1, <2>2, <2>3, SharedRecord, SMTT(30)
<1>4. \A i \in 1..Len(c) : c[i] <= Len(g)
  BY <1>0, <1>1
<1> QED
  BY <1>3, <1>4 DEF Chain

(* The records of a scan, by the offsets of their headers. *)
LEMMA ScanOf ==
  ASSUME NEW f \in Seq(Cells), Len(f) > 0
  PROVE  \E c : /\ Complete(f, HEADER_LEN, c) /\ c \in Seq(Nat) /\ Len(c) \in Nat \ {0}
                /\ ScanEnd(f) = c[Len(c)] /\ ScanEnd(f) \in 1..Len(f)
                /\ Len(Nums(f)) = Len(c) - 1
                /\ Nums(f) = [i \in 1..(Len(c) - 1) |-> RecordNo(f, c[i])]
                /\ Nums(f) \in Seq(Nat)
                /\ \A i \in 1..(Len(c) - 1) :
                     c[i] \in Nat /\ Whole(f, c[i]) /\ c[i] < ScanEnd(f)
<1>0. HEADER_LEN \in 0..Len(f) /\ HEADER_LEN = 1 /\ Len(f) \in Nat
  BY LenProperties, SMT DEF HEADER_LEN
<1>1. PICK c : Complete(f, HEADER_LEN, c)
  BY <1>0, ChainEnds
<1>2. c \in Seq(Nat) /\ Len(c) \in Nat \ {0} /\ c[1] = 1
  BY <1>0, <1>1, LenProperties, SMT DEF Complete, Chain
<1>3. ScanEnd(f) = c[Len(c)] /\ ReadAll(f) = Records(f, c)
  BY <1>1, ScanFinds
<1> DEFINE k == Len(c) - 1
<1>4. k \in Nat
  BY <1>2
<1>5. \A i \in 1..k : c[i] \in Nat /\ Whole(f, c[i]) /\ c[i] < c[Len(c)]
  <2>1. \A i \in 1..k : i \in 1..Len(c) /\ Len(c) \in 1..Len(c) /\ i < Len(c)
    BY <1>2
  <2> QED
    BY <1>1, <1>2, <2>1, ElementOfSeq DEF Complete, Chain
<1>6. c[Len(c)] \in 1..Len(f)
  <2>1. c[Len(c)] \in Nat /\ c[Len(c)] <= Len(f) /\ Len(c) \in 1..Len(c)
    BY <1>1, <1>2, ElementOfSeq, SMT DEF Complete, Chain
  <2>2. c[Len(c)] = 1 \/ 1 < c[Len(c)]
    <3>1. \A n \in Nat \ {0} : n = 1 \/ (1 < n /\ 1 \in 1..n)
      OBVIOUS
    <3>2. Len(c) = 1 \/ (1 < Len(c) /\ 1 \in 1..Len(c))
      BY <1>2, <3>1, Zenon
    <3> QED
      BY <1>1, <1>2, <2>1, <3>2 DEF Complete, Chain
  <2> QED
    BY <2>1, <2>2
<1>7. Nums(f) = [i \in 1..k |-> RecordNo(f, c[i])]
  BY <1>3, SMT DEF Nums, Numbers, Records
<1>8. \A i \in 1..k : RecordNo(f, c[i]) \in Nat
  BY <1>5, WholeIs, HeaderIs
<1> HIDE DEF k
<1>9. Nums(f) \in Seq(Nat) /\ Len(Nums(f)) = k
  BY <1>4, <1>7, <1>8
<1> QED
  BY <1>1, <1>2, <1>3, <1>5, <1>6, <1>7, <1>9, Zenon DEF k

(* Nothing can be found in a file without a header. *)
LEMMA ScanOfNothing ==
  ASSUME NEW f \in Seq(Cells), Len(f) = 0
  PROVE  Nums(f) = <<>>
BY SMT DEF Nums, Numbers, ReadAll, HEADER_LEN

(* A longer file has what the shorter one has, in the same places. *)
LEMMA ScanOfLonger ==
  ASSUME NEW f \in Seq(Cells), NEW g \in Seq(Cells), StartsWith(g, f)
  PROVE  /\ Nums(f) \in Seq(Nat) /\ Nums(g) \in Seq(Nat)
         /\ Len(Nums(f)) <= Len(Nums(g))
         /\ \A i \in 1..Len(Nums(f)) : Nums(g)[i] = Nums(f)[i]
         /\ Len(f) > 0 => ScanEnd(f) <= ScanEnd(g)
<1>0. Len(f) \in Nat /\ Len(g) \in Nat /\ HEADER_LEN \in Nat
  BY LenProperties DEF HEADER_LEN
<1>1. CASE Len(f) = 0
  <2>1. Nums(f) = <<>>
    BY <1>1, ScanOfNothing, Zenon
  <2>2. Nums(g) \in Seq(Nat)
    <3>0. <<>> \in Seq(Nat)
      OBVIOUS
    <3>1. CASE Len(g) = 0
      BY <3>0, <3>1, ScanOfNothing, Zenon
    <3>2. CASE Len(g) > 0
      BY <3>2, ScanOf
    <3> QED
      BY <1>0, <3>1, <3>2
  <2> QED
    BY <1>1, <2>1, <2>2
<1>2. CASE Len(f) > 0
  <2>0. Len(g) > 0
    BY <1>0, <1>2 DEF StartsWith
  <2>1. PICK c : /\ Complete(f, HEADER_LEN, c) /\ c \in Seq(Nat) /\ Len(c) \in Nat \ {0}
                 /\ ScanEnd(f) = c[Len(c)] /\ ScanEnd(f) \in 1..Len(f)
                 /\ Len(Nums(f)) = Len(c) - 1
                 /\ Nums(f) = [i \in 1..(Len(c) - 1) |-> RecordNo(f, c[i])]
                 /\ Nums(f) \in Seq(Nat)
    BY <1>2, ScanOf
  <2>2. PICK d : /\ Complete(g, HEADER_LEN, d) /\ d \in Seq(Nat) /\ Len(d) \in Nat \ {0}
                 /\ ScanEnd(g) = d[Len(d)]
                 /\ Len(Nums(g)) = Len(d) - 1
                 /\ Nums(g) = [i \in 1..(Len(d) - 1) |-> RecordNo(g, d[i])]
                 /\ Nums(g) \in Seq(Nat)
    BY <2>0, ScanOf
  <2>3. /\ Chain(g, HEADER_LEN, c)
        /\ \A i \in 1..(Len(c) - 1) : RecordNo(g, c[i]) = RecordNo(f, c[i])
    <3>1. Len(f) <= Len(f) /\ Len(f) <= Len(g) /\ \A i \in 1..Len(f) : g[i] = f[i]
      BY <1>0 DEF StartsWith
    <3>2. Chain(f, HEADER_LEN, c) /\ c[Len(c)] <= Len(f)
      BY <1>0, <2>1 DEF Complete
    <3> QED
      BY <1>0, <3>1, <3>2, SharedChain, SMT
  <2>4. Len(c) <= Len(d) /\ \A i \in 1..Len(c) : c[i] = d[i]
    BY <1>0, <2>2, <2>3, ChainIsPrefix, SMT
  <2> DEFINE n == Len(c)
             m == Len(d)
  <2>5. n \in Nat \ {0} /\ m \in Nat \ {0} /\ n <= m
    BY <2>1, <2>2, <2>4
  <2>6. \A i \in 1..(n - 1) : i \in 1..n /\ i \in 1..(m - 1)
    <3> HIDE DEF n, m
    <3> QED
      BY <2>5
  <2>7. \A i \in 1..(n - 1) : Nums(g)[i] = Nums(f)[i]
    BY <2>1, <2>2, <2>3, <2>4, <2>6
  <2>8. c[n] <= d[m]
    <3>1. \A k \in 1..m : d[k] \in Nat
      BY <2>2, ElementOfSeq
    <3>2. n \in 1..m /\ m \in 1..m /\ n \in 1..n /\ (n = m \/ n < m)
      <4> HIDE DEF n, m
      <4> QED
        BY <2>5
    <3>3. d[n] = d[m] \/ d[n] < d[m]
      BY <2>2, <3>2 DEF Complete, Chain
    <3> QED
      BY <2>4, <3>1, <3>2, <3>3, SMT
  <2>9. n - 1 <= m - 1
    <3> HIDE DEF n, m
    <3> QED
      BY <2>5
  <2> QED
    BY <2>1, <2>2, <2>7, <2>8, <2>9, Zenon
<1> QED
  BY <1>0, <1>1, <1>2

(* A file that is cut behind the valid prefix keeps what a scan finds. *)
LEMMA ScanOfCut ==
  ASSUME NEW f \in Seq(Cells), Len(f) > 0, NEW m \in ScanEnd(f)..Len(f)
  PROVE  LET g == SubSeq(f, 1, m)
         IN  /\ g \in Seq(Cells) /\ Len(g) = m /\ StartsWith(f, g)
             /\ Nums(g) = Nums(f) /\ ScanEnd(g) = ScanEnd(f)
<1> DEFINE g == SubSeq(f, 1, m)
<1>0. Len(f) \in Nat /\ HEADER_LEN \in Nat
  BY LenProperties DEF HEADER_LEN
<1>1. PICK c : /\ Complete(f, HEADER_LEN, c) /\ c \in Seq(Nat) /\ Len(c) \in Nat \ {0}
               /\ ScanEnd(f) = c[Len(c)] /\ ScanEnd(f) \in 1..Len(f)
               /\ Len(Nums(f)) = Len(c) - 1
               /\ Nums(f) = [i \in 1..(Len(c) - 1) |-> RecordNo(f, c[i])]
  BY ScanOf
<1>2. m \in 1..Len(f) /\ m \in Nat /\ m > 0 /\ c[Len(c)] <= m /\ m <= Len(f)
  BY <1>0, <1>1
<1>3. g \in Seq(Cells) /\ Len(g) = m /\ \A i \in 1..m : g[i] = f[i]
  BY <1>0, <1>2, SubSeqProperties, ElementOfSeq, SMT
<1> HIDE DEF g
<1>4. /\ Chain(g, HEADER_LEN, c)
      /\ \A i \in 1..(Len(c) - 1) : RecordNo(g, c[i]) = RecordNo(f, c[i])
  <2>1. Chain(f, HEADER_LEN, c) /\ m <= Len(g)
    BY <1>1, <1>2, <1>3, SMT DEF Complete
  <2> QED
    BY <1>0, <1>2, <1>3, <2>1, SharedChain, SMT
<1>5. ~Whole(g, c[Len(c)])
  <2> SUFFICES ASSUME Whole(g, c[Len(c)]) PROVE FALSE
    OBVIOUS
  <2>1. c[Len(c)] \in Nat
    BY <1>0, <1>1, SMT
  <2>2. Jump(g, c[Len(c)]) <= m
    BY <1>3, <2>1, JumpIs
  <2>3. m <= Len(g) /\ \A i \in 1..m : f[i] = g[i]
    BY <1>2, <1>3
  <2>4. Whole(f, c[Len(c)])
    BY <1>2, <1>3, <2>1, <2>2, <2>3, SharedRecord
  <2> QED
    BY <1>1, <2>4 DEF Complete
<1>6. Complete(g, HEADER_LEN, c)
  BY <1>4, <1>5 DEF Complete
<1>7. ScanEnd(g) = c[Len(c)] /\ ReadAll(g) = Records(g, c)
  BY <1>2, <1>3, <1>6, ScanFinds
<1>8. Nums(g) = [i \in 1..(Len(c) - 1) |-> RecordNo(g, c[i])]
  BY <1>7, SMT DEF Nums, Numbers, Records
<1>9. Nums(g) = Nums(f)
  BY <1>1, <1>4, <1>8, Zenon
<1> QED
  BY <1>1, <1>2, <1>3, <1>7, <1>9 DEF g, StartsWith

(* What is appended to a file is found if it makes the record at the end   *)
(* of the valid prefix whole; then it ends behind the old file.            *)
LEMMA ScanOfGrown ==
  ASSUME NEW f \in Seq(Cells), NEW g \in Seq(Cells), StartsWith(g, f), Len(f) > 0
  PROVE  LET e == ScanEnd(f)
         IN  /\ e \in 1..Len(f)
             /\ ~Whole(g, e) => Nums(g) = Nums(f) /\ ScanEnd(g) = e
             /\ Whole(g, e) => Jump(g, e) > Len(f)
             /\ Whole(g, e) /\ Jump(g, e) = Len(g)
                  => Nums(g) = Append(Nums(f), RecordNo(g, e)) /\ ScanEnd(g) = Len(g)
<1> DEFINE e == ScanEnd(f)
<1>0. Len(f) \in Nat /\ Len(g) \in Nat /\ HEADER_LEN \in Nat /\ Len(g) > 0
  BY LenProperties DEF HEADER_LEN, StartsWith
<1>1. PICK c : /\ Complete(f, HEADER_LEN, c) /\ c \in Seq(Nat) /\ Len(c) \in Nat \ {0}
               /\ ScanEnd(f) = c[Len(c)] /\ ScanEnd(f) \in 1..Len(f)
               /\ Len(Nums(f)) = Len(c) - 1
               /\ Nums(f) = [i \in 1..(Len(c) - 1) |-> RecordNo(f, c[i])]
               /\ Nums(f) \in Seq(Nat)
  BY ScanOf
<1>2. e \in Nat /\ e \in 1..Len(f) /\ e <= Len(f) /\ e = c[Len(c)]
  BY <1>0, <1>1, SMT
<1> HIDE DEF e
<1>3. Len(f) <= Len(f) /\ Len(f) <= Len(g) /\ \A i \in 1..Len(f) : g[i] = f[i]
  BY <1>0 DEF StartsWith
<1>4. /\ Chain(g, HEADER_LEN, c)
      /\ \A i \in 1..(Len(c) - 1) : RecordNo(g, c[i]) = RecordNo(f, c[i])
  <2>1. Chain(f, HEADER_LEN, c) /\ c[Len(c)] <= Len(f)
    BY <1>1, <1>2 DEF Complete
  <2> QED
    BY <1>0, <1>3, <2>1, SharedChain, SMT
<1>5. ASSUME ~Whole(g, e)
      PROVE  Nums(g) = Nums(f) /\ ScanEnd(g) = e
  <2>1. Complete(g, HEADER_LEN, c)
    BY <1>2, <1>4, <1>5 DEF Complete
  <2>2. ScanEnd(g) = c[Len(c)] /\ ReadAll(g) = Records(g, c)
    BY <1>0, <2>1, ScanFinds
  <2>3. Nums(g) = [i \in 1..(Len(c) - 1) |-> RecordNo(g, c[i])]
    BY <2>2, SMT DEF Nums, Numbers, Records
  <2> QED
    BY <1>1, <1>2, <1>4, <2>2, <2>3, Zenon
<1>6. ASSUME Whole(g, e)
      PROVE  Jump(g, e) > Len(f)
  <2>1. Jump(g, e) \in Nat
    BY <1>2, <1>6, JumpIs
  <2>2. ASSUME Jump(g, e) <= Len(f) PROVE FALSE
    <3>1. \A i \in 1..Len(f) : f[i] = g[i]
      BY <1>3
    <3>2. Whole(f, e)
      BY <1>0, <1>2, <1>3, <1>6, <2>2, <3>1, SharedRecord
    <3> QED
      BY <1>1, <1>2, <3>2 DEF Complete
  <2> QED
    BY <1>0, <2>1, <2>2
<1>7. ASSUME Whole(g, e), Jump(g, e) = Len(g)
      PROVE  Nums(g) = Append(Nums(f), RecordNo(g, e)) /\ ScanEnd(g) = Len(g)
  <2> DEFINE n == Len(c)
             d == Append(c, Jump(g, c[n]))
  <2>1. /\ Chain(g, HEADER_LEN, d) /\ Len(d) = n + 1 /\ d[n + 1] = Len(g)
        /\ \A i \in 1..n : d[i] = c[i]
    BY <1>0, <1>2, <1>4, <1>7, ChainGoesOn, SMT
  <2>2. n \in Nat \ {0} /\ d[Len(d)] = Len(g)
    BY <1>1, <2>1
  <2> HIDE DEF d, n
  <2>3. ~Whole(g, Len(g))
    BY <1>0 DEF Whole, IsHeader
  <2>4. Complete(g, HEADER_LEN, d)
    BY <2>1, <2>2, <2>3 DEF Complete
  <2>5. ScanEnd(g) = Len(g) /\ ReadAll(g) = Records(g, d)
    BY <1>0, <2>2, <2>4, ScanFinds
  <2>6. Nums(g) = [i \in 1..n |-> RecordNo(g, d[i])]
    <3>1. (n + 1) - 1 = n
      BY <2>2
    <3> QED
      BY <2>1, <2>5, <3>1, SMT DEF Nums, Numbers, Records
  <2>7. \A i \in 1..n : i \in 1..(n - 1) \/ i = n
    BY <2>2
  <2>8. Nums(g) = [i \in 1..n |-> IF i = n THEN RecordNo(g, e) ELSE Nums(f)[i]]
    <3>1. \A i \in 1..(n - 1) : i # n /\ RecordNo(g, c[i]) = Nums(f)[i]
      BY <1>1, <1>4, <2>2, SMT DEF n
    <3>2. c[n] = e
      BY <1>2 DEF n
    <3>3. \A i \in 1..n :
            RecordNo(g, d[i]) = IF i = n THEN RecordNo(g, e) ELSE Nums(f)[i]
      BY <2>1, <2>7, <3>1, <3>2
    <3> QED
      BY <2>6, <3>3
  <2>9. Append(Nums(f), RecordNo(g, e))
          = [i \in 1..n |-> IF i = n THEN RecordNo(g, e) ELSE Nums(f)[i]]
    <3>1. RecordNo(g, e) \in Nat
      BY <1>2, <1>7, WholeIs, HeaderIs
    <3>2. Len(Nums(f)) = n - 1 /\ Nums(f) \in Seq(Nat)
      BY <1>1 DEF n
    <3> DEFINE a == Append(Nums(f), RecordNo(g, e))
    <3>3. /\ a \in Seq(Nat) /\ Len(a) = n /\ a[n] = RecordNo(g, e)
          /\ \A i \in 1..(n - 1) : a[i] = Nums(f)[i]
      BY <2>2, <3>1, <3>2, AppendProperties, SMT
    <3> HIDE DEF a
    <3>4. a = [i \in 1..n |-> a[i]]
      BY <3>3, LenProperties
    <3>5. \A i \in 1..n : a[i] = IF i = n THEN RecordNo(g, e) ELSE Nums(f)[i]
      BY <2>7, <3>3
    <3> QED
      BY <3>4, <3>5, Zenon DEF a
  <2> QED
    BY <2>5, <2>8, <2>9
<1> QED
  BY <1>2, <1>5, <1>6, <1>7 DEF e

(* A file with only a header has no record. *)
LEMMA ScanOfHeader ==
  ASSUME NEW f \in Seq(Cells), Len(f) = 1
  PROVE  Nums(f) = <<>> /\ ScanEnd(f) = 1
<1> DEFINE c == <<1>>
<1>1. ~Whole(f, 1)
  BY DEF Whole, IsHeader
<1>2. Complete(f, HEADER_LEN, c)
  BY <1>1 DEF Complete, Chain, HEADER_LEN
<1>3. ScanEnd(f) = c[Len(c)] /\ ReadAll(f) = Records(f, c)
  BY <1>2, ScanFinds
<1>4. ReadAll(f) = <<>>
  BY <1>3, SMT DEF Records
<1> QED
  BY <1>3, <1>4 DEF Nums, Numbers

-----------------------------------------------------------------------------
(* The inductive invariant of the log.                                     *)

(* How long a log of n records can be. *)
Room(n) == HEADER_LEN + n * (1 + MaxPayload)

LogTypes ==
  /\ disk \in Disks /\ file \in Seq(Cells) /\ synced \in Seq(Cells)
  /\ pc \in {"closed", "header", "open", "payload"}
  /\ next \in 0..MaxAppends /\ crashes \in 0..MaxCrashes
  /\ cur.n \in 0..next /\ cur.len \in 0..MaxPayload
  /\ acked \subseteq 0..next /\ held \subseteq 0..next
  /\ offs \in Seq(Int) /\ Len(offs) = next
  /\ end \in Nat /\ rooted \in BOOLEAN

(* The file and the writer's end stay within the room of the appends. *)
LogBounded ==
  /\ Len(file) <= Room(next) /\ Len(synced) <= Room(next) /\ end <= Room(next)
  /\ pc = "open" => 1 <= end /\ end <= Len(file)
  /\ pc = "payload" =>
       1 <= end /\ end < Len(file) /\ Len(file) + cur.len <= Room(next)

(* What the cells of f can be: records and payloads of earlier appends. *)
CellsKnown(f) ==
  \A i \in 1..Len(f) :
    /\ f[i][1] = "record" => f[i][2] \in 1..next
    /\ f[i][1] = "payload" => f[i][2] \in 1..next

(* While append writes a payload its header is the last cell of the file,  *)
(* and the only cell of that record.                                       *)
Writing(f) ==
  \A i \in 1..Len(f) : f[i][1] \in {"record", "payload"} => f[i][2] # cur.n

LogPhases ==
  /\ CellsKnown(file) /\ CellsKnown(synced)
  /\ pc = "header" => file = <<Magic>>
  /\ pc \in {"open", "payload"} => Len(file) > 0
  /\ pc = "payload" =>
       /\ cur.n = next /\ next > 0 /\ offs[cur.n] = Pending
       /\ file[Len(file)] = RecordCell(cur.n, cur.len)
       /\ \A i \in 1..(Len(file) - 1) :
            file[i][1] \in {"record", "payload"} => file[i][2] # cur.n
       /\ Writing(synced)

(* The header of record n is where append said. *)
OffsetsHold(f) ==
  \A i \in 1..Len(f) : f[i][1] = "record" /\ offs[f[i][2]] >= 0 => offs[f[i][2]] = i

(* n is in the part of the file that a crash cannot touch. *)
Settled(n) ==
  \E m \in 0..Len(file) :
    /\ m <= Len(synced) /\ \A i \in 1..m : file[i] = synced[i]
    /\ n \in Range(Nums(SubSeq(file, 1, m)))

(* On a disk where no write fails half way. *)
LogWhole ==
  disk # "full" =>
    /\ pc = "open" => end = Len(file) /\ end = ScanEnd(file)
    /\ pc = "payload" => Len(file) = end + 1 /\ ScanEnd(SubSeq(file, 1, end)) = end
    /\ OffsetsHold(file) /\ OffsetsHold(synced)
    /\ held \subseteq Range(Nums(file))
    /\ \A n \in acked : Settled(n)

(* The records of f are in the order of the appends, and one whose append  *)
(* failed has no last payload cell.                                        *)
CellsOrdered(f) ==
  /\ \A i \in 1..Len(f) : f[i] # Zero
  /\ \A i, j \in 1..Len(f) :
       i < j /\ f[i][1] = "record" /\ f[j][1] = "record" => f[i][2] < f[j][2]
  /\ \A i, j \in 1..Len(f) :
       f[i][1] = "record" /\ offs[f[i][2]] = Failed
         => f[i][3] > 0 /\ f[j] # <<"payload", f[i][2], f[i][3]>>

(* On a disk that keeps writes in order. *)
LogOrdered ==
  disk # "weak" => StartsWith(file, synced) /\ CellsOrdered(file)

(* The header of the file, and that of the last sync once there was one.   *)
LogRooted ==
  /\ pc # "closed" => file[1] = Magic
  /\ rooted => /\ Len(file) > 0 /\ Len(synced) > 0
               /\ file[1] = Magic /\ synced[1] = Magic

LogInv ==
  /\ LogTypes /\ LogBounded /\ LogPhases /\ LogWhole /\ LogOrdered /\ LogRooted

-----------------------------------------------------------------------------
(* What the steps do to the file.                                          *)

(* A record header or junk goes behind the last cell. *)
LEMMA FilePushed ==
  ASSUME NEW f \in Seq(Cells), NEW x \in Cells
  PROVE  LET g == Append(f, x)
         IN  /\ g \in Seq(Cells) /\ Len(g) = Len(f) + 1 /\ g[Len(g)] = x
             /\ \A i \in 1..Len(f) : g[i] = f[i]
             /\ StartsWith(g, f)
<1> DEFINE g == Append(f, x)
<1>1. Len(f) \in Nat
  BY LenProperties
<1>2. /\ g \in Seq(Cells) /\ Len(g) = Len(f) + 1 /\ g[Len(f) + 1] = x
      /\ \A i \in 1..Len(f) : g[i] = f[i]
  BY AppendProperties, SMT
<1> HIDE DEF g
<1> QED
  BY <1>1, <1>2 DEF g, StartsWith

(* So does the payload, or the first part of it. *)
LEMMA FileExtended ==
  ASSUME NEW f \in Seq(Cells), NEW n \in Nat, NEW k \in Nat
  PROVE  LET g == f \o PayloadCells(n, k)
         IN  /\ g \in Seq(Cells) /\ Len(g) = Len(f) + k
             /\ \A i \in 1..Len(f) : g[i] = f[i]
             /\ \A i \in 1..k : g[Len(f) + i] = <<"payload", n, i>>
             /\ StartsWith(g, f)
<1> DEFINE t == PayloadCells(n, k)
           g == f \o t
<1>1. Len(f) \in Nat
  BY LenProperties
<1>2. t \in Seq(Cells) /\ Len(t) = k /\ \A i \in 1..k : t[i] = <<"payload", n, i>>
  BY DEF PayloadCells, Cells
<1> HIDE DEF t
<1>3. /\ g \in Seq(Cells) /\ Len(g) = Len(f) + k
      /\ \A i \in 1..(Len(f) + k) : g[i] = IF i <= Len(f) THEN f[i] ELSE t[i - Len(f)]
  BY <1>2, ConcatProperties, Zenon
<1> HIDE DEF g
<1>4. \A i \in 1..Len(f) : g[i] = f[i]
  BY <1>1, <1>3
<1>5. \A i \in 1..k : g[Len(f) + i] = t[i]
  <2> SUFFICES ASSUME NEW i \in 1..k PROVE g[Len(f) + i] = t[i]
    OBVIOUS
  <2>1. Len(f) + i \in 1..(Len(f) + k) /\ ~(Len(f) + i <= Len(f)) /\ (Len(f) + i) - Len(f) = i
    BY <1>1
  <2> QED
    BY <1>3, <2>1
<1>6. Len(f) <= Len(g)
  BY <1>1, <1>3
<1> QED
  BY <1>2, <1>3, <1>4, <1>5, <1>6 DEF g, t, StartsWith

(* set_len leaves the cells before the new end. *)
LEMMA FileCut ==
  ASSUME NEW f \in Seq(Cells), NEW m \in Nat
  PROVE  LET g == SetLen(f, m)
         IN  /\ g \in Seq(Cells) /\ Len(g) = IF m < Len(f) THEN m ELSE Len(f)
             /\ \A i \in 1..Len(g) : g[i] = f[i]
             /\ StartsWith(f, g) /\ g = SubSeq(f, 1, Len(g))
<1> DEFINE g == SetLen(f, m)
<1>1. Len(f) \in Nat
  BY LenProperties
<1>2. CASE m < Len(f)
  <2>1. g = SubSeq(f, 1, m)
    BY <1>2 DEF SetLen
  <2>2. m \in 0..Len(f) /\ 1 \in 1..(Len(f) + 1)
    BY <1>1, <1>2
  <2>3. g \in Seq(Cells) /\ Len(g) = m /\ \A i \in 1..m : g[i] = f[i]
    BY <1>1, <1>2, <2>1, <2>2, SubSeqProperties, ElementOfSeq, SMT
  <2> QED
    BY <1>1, <1>2, <2>1, <2>3 DEF StartsWith
<1>3. CASE ~(m < Len(f))
  <2>1. g = f
    BY <1>3 DEF SetLen
  <2>2. SubSeq(f, 1, Len(f)) = f
    OBVIOUS
  <2> QED
    BY <1>1, <1>3, <2>1, <2>2 DEF StartsWith
<1> QED
  BY <1>2, <1>3

(* After a power loss every cell is the one that was written or the one    *)
(* that was synced, at the same place; on a disk that keeps writes in      *)
(* order the file is cut, and not below what was synced.                   *)
LEMMA FileLost ==
  ASSUME file \in Seq(Cells), synced \in Seq(Cells), file' \in Images
  PROVE  /\ file' \in Seq(Cells)
         /\ Len(file') <= Len(file) \/ Len(file') <= Len(synced)
         /\ Len(file) <= Len(file') \/ Len(synced) <= Len(file')
         /\ \A i \in 1..Len(file') :
              \/ i <= Len(file) /\ file'[i] = file[i]
              \/ i <= Len(synced) /\ file'[i] = synced[i]
              \/ disk = "weak" /\ file'[i] = Zero
         /\ \A i \in 1..Len(file') :
              i <= Len(file) /\ i <= Len(synced) /\ file[i] = synced[i]
                => file'[i] = file[i]
         /\ disk # "weak" /\ StartsWith(file, synced)
              => /\ Len(synced) <= Len(file') /\ Len(file') <= Len(file)
                 /\ \A i \in 1..Len(file') : file'[i] = file[i]
<1>0. Len(file) \in Nat /\ Len(synced) \in Nat
  BY LenProperties
<1> DEFINE After(l) ==
             {[i \in 1..l |-> IF i \in lost THEN Before(i) ELSE Written(i)] :
                lost \in SUBSET {i \in 1..l : Unsettled(i)}}
<1>1. PICK l \in LossLengths : file' \in After(l)
  <2>1. file' \in UNION {After(l) : l \in LossLengths}
    BY Zenon DEF Images
  <2> HIDE DEF After
  <2> QED
    BY <2>1
<1>2. PICK lost \in SUBSET {i \in 1..l : Unsettled(i)} :
        file' = [i \in 1..l |-> IF i \in lost THEN Before(i) ELSE Written(i)]
  BY <1>1
<1> HIDE DEF After
<1>3. /\ l \in Nat /\ (l <= Len(file) \/ l <= Len(synced))
      /\ (Len(file) <= l \/ Len(synced) <= l)
  BY <1>0, <1>1 DEF LossLengths
<1>4. /\ \A i \in 1..Len(file) : file[i] \in Cells
      /\ \A i \in 1..Len(synced) : synced[i] \in Cells
      /\ Zero \in Cells
  BY ElementOfSeq, SMT DEF Cells
<1>5. ASSUME NEW i \in 1..l
      PROVE  /\ \/ i <= Len(file) /\ file'[i] = file[i]
                \/ i <= Len(synced) /\ file'[i] = synced[i]
                \/ disk = "weak" /\ file'[i] = Zero
             /\ i <= Len(file) /\ i <= Len(synced) /\ file[i] = synced[i]
                  => file'[i] = file[i]
             /\ file'[i] \in Cells
  <2>0. i <= Len(file) => i \in 1..Len(file)
    BY <1>0
  <2>01. i <= Len(synced) => i \in 1..Len(synced)
    BY <1>0
  <2>1. CASE i \in lost
    BY <1>0, <1>2, <1>3, <1>4, <2>0, <2>01, <2>1 DEF Unsettled, Before, Written
  <2>2. CASE i \notin lost
    BY <1>0, <1>2, <1>3, <1>4, <2>0, <2>01, <2>2 DEF Written
  <2> QED
    BY <2>1, <2>2
<1>6. file' \in Seq(Cells) /\ Len(file') = l
  BY <1>2, <1>3, <1>5
<1>7. ASSUME disk # "weak", StartsWith(file, synced)
      PROVE  /\ Len(synced) <= l /\ l <= Len(file)
             /\ \A i \in 1..l : file'[i] = file[i]
  <2>1. Len(synced) <= l /\ l <= Len(file)
    BY <1>0, <1>3, <1>7 DEF StartsWith
  <2>2. ASSUME NEW i \in 1..l PROVE file'[i] = file[i]
    <3>1. i <= Len(synced) => i \in 1..Len(synced)
      BY <1>0
    <3> QED
      BY <1>5, <1>7, <3>1 DEF StartsWith
  <2> QED
    BY <2>1, <2>2
<1> QED
  BY <1>3, <1>5, <1>6, <1>7

(* A number that a scan finds is that of a whole record before its end. *)
LEMMA NumIs ==
  ASSUME NEW f \in Seq(Cells), NEW n \in Range(Nums(f))
  PROVE  /\ Len(f) > 0
         /\ \E p \in Nat : /\ Whole(f, p) /\ p < ScanEnd(f) /\ p + 1 \in 1..Len(f)
                           /\ RecordNo(f, p) = n
                           /\ \/ f[p + 1] = Zero /\ n = 0
                              \/ f[p + 1] = RecordCell(n, RecordLen(f, p))
<1>1. Len(f) > 0
  <2>1. Len(f) \in Nat
    BY LenProperties
  <2>2. CASE Len(f) = 0
    <3>1. Range(<<>>) = {}
      BY DEF Range
    <3> QED
      BY <2>2, <3>1, ScanOfNothing, Zenon
  <2> QED
    BY <2>1, <2>2
<1>2. PICK c : /\ Nums(f) = [i \in 1..(Len(c) - 1) |-> RecordNo(f, c[i])]
               /\ \A i \in 1..(Len(c) - 1) :
                    c[i] \in Nat /\ Whole(f, c[i]) /\ c[i] < ScanEnd(f)
  BY <1>1, ScanOf
<1>3. PICK i \in 1..(Len(c) - 1) : RecordNo(f, c[i]) = n
  BY <1>2 DEF Range
<1>4. c[i] \in Nat /\ Whole(f, c[i]) /\ c[i] < ScanEnd(f)
  BY <1>2, <1>3
<1>5. c[i] + 1 \in 1..Len(f)
  BY <1>4, JumpIs, LenProperties, SMTT(30)
<1>6. \/ f[c[i] + 1] = Zero /\ n = 0
      \/ f[c[i] + 1] = RecordCell(n, RecordLen(f, c[i]))
  BY <1>3, <1>4, WholeIs, HeaderIs
<1> QED
  BY <1>1, <1>3, <1>4, <1>5, <1>6

(* So it is the number of an append, or the 0 of a cell of zeros. *)
LEMMA NumsKnown ==
  ASSUME NEW f \in Seq(Cells), CellsKnown(f), next \in Nat
  PROVE  /\ Range(Nums(f)) \subseteq 0..next
         /\ (\A i \in 1..Len(f) : f[i] # Zero) => Range(Nums(f)) \subseteq 1..next
<1> SUFFICES ASSUME NEW n \in Range(Nums(f))
             PROVE  /\ n \in 0..next
                    /\ (\A i \in 1..Len(f) : f[i] # Zero) => n \in 1..next
  OBVIOUS
<1>1. PICK p \in Nat : /\ p + 1 \in 1..Len(f)
                       /\ \/ f[p + 1] = Zero /\ n = 0
                          \/ f[p + 1] = RecordCell(n, RecordLen(f, p))
  BY NumIs, Zenon
<1>2. CASE f[p + 1] = Zero /\ n = 0
  BY <1>1, <1>2
<1>3. CASE f[p + 1] = RecordCell(n, RecordLen(f, p))
  <2>1. f[p + 1][1] = "record" /\ f[p + 1][2] = n
    BY <1>3 DEF RecordCell
  <2>2. n \in 1..next
    BY <1>1, <2>1 DEF CellsKnown
  <2> QED
    BY <2>2
<1> QED
  BY <1>1, <1>2, <1>3

(* Cells of different kinds differ. *)
LEMMA CellKinds ==
  /\ Magic \in Cells /\ Junk \in Cells /\ Zero \in Cells
  /\ \A n, l \in Nat : RecordCell(n, l) \in Cells /\ <<"payload", n, l>> \in Cells
  /\ \A n, l \in Nat : /\ RecordCell(n, l)[1] = "record" /\ RecordCell(n, l)[2] = n
                       /\ RecordCell(n, l)[3] = l
  /\ Magic[1] = "magic" /\ Junk[1] = "junk" /\ Zero[1] = "zero"
BY DEF Cells, Magic, Junk, Zero, RecordCell

(* Every step keeps the types. *)
LEMMA TypesStep ==
  ASSUME LogInv, [Next]_vars
  PROVE  LogTypes'
<1> USE DEF LogTypes
<1>0. LogTypes /\ LogPhases
  BY DEF LogInv
<1>1. CASE OpenFresh
  BY <1>0, <1>1, CellKinds, SMTT(30) DEF OpenFresh
<1>2. CASE OpenFreshFails
  <2>1. <<Junk>> \in Seq(Cells)
    BY CellKinds, SMT
  <2> QED
    BY <1>0, <1>2, <2>1, Zenon DEF OpenFreshFails
<1>3. CASE SyncHeader
  BY <1>0, <1>3 DEF SyncHeader, HEADER_LEN
<1>4. CASE OpenExisting
  <2>1. Len(file) > 0 /\ ScanEnd(file) \in 1..Len(file)
    <3>1. Len(file) > 0
      BY <1>0, <1>4, EmptySeq, LenProperties, SMT DEF OpenExisting
    <3> QED
      BY <1>0, <3>1, ScanOf
  <2>2. ScanEnd(file) \in Nat
    BY <1>0, <2>1, LenProperties, SMT
  <2>3. SetLen(file, ScanEnd(file)) \in Seq(Cells) /\ SetLen(synced, ScanEnd(file)) \in Seq(Cells)
    BY <1>0, <2>2, FileCut
  <2>4. Range(Nums(file)) \subseteq 0..next
    BY <1>0, NumsKnown, SMT DEF LogPhases
  <2> QED
    BY <1>0, <1>4, <2>2, <2>3, <2>4 DEF OpenExisting, Nums
<1>5. CASE \E len \in Lens : AppendHeader(len)
  <2>1. PICK len \in Lens : AppendHeader(len)
    BY <1>5
  <2>2. len \in Nat /\ next + 1 \in Nat
    BY <1>0, WalAssumption, SMT
  <2>3. file' \in Seq(Cells)
    BY <1>0, <2>1, <2>2, CellKinds, FilePushed, Zenon DEF AppendHeader
  <2>4. offs' \in Seq(Int) /\ Len(offs') = next + 1
    BY <1>0, <2>1, AppendProperties, SMTT(30) DEF AppendHeader, Pending
  <2> QED
    BY <1>0, <2>1, <2>2, <2>3, <2>4, WalAssumption, SMTT(30) DEF AppendHeader
<1>6. CASE AppendPayload
  <2>0. cur.n \in Nat /\ cur.len \in Nat /\ cur.n \in 1..Len(offs)
    BY <1>0, <1>6, SMT DEF AppendPayload, LogPhases
  <2>1. file' \in Seq(Cells)
    BY <1>0, <1>6, <2>0, FileExtended, Zenon DEF AppendPayload
  <2>2. offs' \in Seq(Int) /\ Len(offs') = next
    <3>1. end + 1 \in Int
      BY <1>0
    <3> QED
      BY <1>0, <1>6, <2>0, <3>1, ExceptSeq, SMT DEF AppendPayload
  <2>3. end + 1 + cur.len \in Nat
    BY <1>0, <2>0
  <2>4. held \cup {cur.n} \subseteq 0..next
    BY <1>0, Zenon
  <2> QED
    BY <1>0, <1>6, <2>1, <2>2, <2>3, <2>4 DEF AppendPayload
<1>7. CASE HeaderFails
  <2>1. file' \in Seq(Cells)
    <3>1. Append(file, Junk) \in Seq(Cells)
      BY <1>0, CellKinds, FilePushed
    <3> QED
      BY <1>0, <1>7, <3>1, Zenon DEF HeaderFails
  <2>2. offs' \in Seq(Int) /\ Len(offs') = next + 1
    BY <1>0, <1>7, AppendProperties, SMTT(30) DEF HeaderFails, Failed
  <2> QED
    BY <1>0, <1>7, <2>1, <2>2, WalAssumption, SMTT(30) DEF HeaderFails
<1>8. CASE PayloadFails
  <2>0. cur.n \in Nat /\ cur.len \in Nat /\ cur.n \in 1..Len(offs)
    BY <1>0, <1>8 DEF PayloadFails, LogPhases
  <2>1. file' \in Seq(Cells)
    <3>1. PICK k \in 0..(cur.len - 1) : file' = file \o PayloadCells(cur.n, k)
      BY <1>8, Zenon DEF PayloadFails
    <3>2. k \in Nat
      BY <2>0
    <3> QED
      BY <1>0, <2>0, <3>1, <3>2, FileExtended, Zenon
  <2>2. offs' \in Seq(Int) /\ Len(offs') = next
    <3>1. Failed \in Int
      BY DEF Failed
    <3> QED
      BY <1>0, <1>8, <2>0, <3>1, ExceptSeq, SMT DEF PayloadFails
  <2> QED
    BY <1>0, <1>8, <2>1, <2>2 DEF PayloadFails
<1>9. CASE Sync
  BY <1>0, <1>9 DEF Sync
<1>10. CASE Kill
  BY <1>0, <1>10, WalAssumption, SMT DEF Kill
<1>11. CASE PowerLoss
  <2>1. file' \in Seq(Cells)
    BY <1>0, <1>11, FileLost DEF PowerLoss
  <2> QED
    BY <1>0, <1>11, <2>1, WalAssumption, SMT DEF PowerLoss
<1>12. CASE PowerLossTears
  <2>1. <<Junk>> \in Seq(Cells)
    BY CellKinds, SMT
  <2> QED
    BY <1>0, <1>12, <2>1, WalAssumption, SMT DEF PowerLossTears
<1>13. CASE UNCHANGED vars
  BY <1>0, <1>13 DEF vars
<1> QED
  BY <1>1, <1>2, <1>3, <1>4, <1>5, <1>6, <1>7, <1>8, <1>9, <1>10, <1>11, <1>12, <1>13 DEF Next

(* Every step keeps the log within its bounds. *)
LEMMA BoundsStep ==
  ASSUME LogInv, [Next]_vars
  PROVE  LogBounded'
<1>0. LogTypes /\ LogBounded /\ LogPhases
  BY DEF LogInv
<1>01. /\ next \in Nat /\ end \in Nat /\ Len(file) \in Nat /\ Len(synced) \in Nat
       /\ cur.n \in Nat /\ cur.len \in Nat /\ cur.len <= MaxPayload /\ MaxPayload \in Nat
  BY <1>0, LenProperties, WalAssumption, SMT DEF LogTypes
<1>02. /\ Room(next) \in Nat /\ Room(next) >= 1
       /\ Room(next + 1) = Room(next) + 1 + MaxPayload
  <2>1. \A a, b \in Nat : a * (1 + b) \in Nat /\ (a + 1) * (1 + b) = a * (1 + b) + 1 + b
    OBVIOUS
  <2> DEFINE a == next * (1 + MaxPayload)
             b == (next + 1) * (1 + MaxPayload)
  <2>2. a \in Nat /\ b = a + 1 + MaxPayload
    BY <1>01, <2>1
  <2> HIDE DEF a, b
  <2>3. HEADER_LEN + b = HEADER_LEN + a + 1 + MaxPayload /\ HEADER_LEN + a >= 1
    BY <1>01, <2>2 DEF HEADER_LEN
  <2> QED
    BY <1>01, <2>2, <2>3 DEF Room, a, b, HEADER_LEN
<1>03. LogTypes'
  BY TypesStep
<1>1. CASE OpenFresh
  <2>1. Len(<<Magic>>) = 1
    OBVIOUS
  <2> QED
    BY <1>0, <1>01, <1>02, <1>1, <2>1 DEF OpenFresh, LogBounded
<1>2. CASE OpenFreshFails
  <2>1. Len(<<Junk>>) = 1
    OBVIOUS
  <2> QED
    BY <1>0, <1>01, <1>02, <1>2, <2>1 DEF OpenFreshFails, LogBounded
<1>3. CASE SyncHeader
  <2>1. Len(file) = 1
    BY <1>0, <1>3 DEF SyncHeader, LogPhases
  <2> QED
    BY <1>0, <1>01, <1>02, <1>3, <2>1 DEF SyncHeader, LogBounded, HEADER_LEN
<1>4. CASE OpenExisting
  <2>1. Len(file) > 0 /\ ScanEnd(file) \in 1..Len(file)
    <3>1. Len(file) > 0
      BY <1>0, <1>4, EmptySeq, LenProperties, SMT DEF OpenExisting, LogTypes
    <3> QED
      BY <1>0, <3>1, ScanOf DEF LogTypes
  <2>2. /\ Len(file') = ScanEnd(file) /\ Len(synced') <= Len(synced)
        /\ next' = next /\ pc' = "open" /\ end' = ScanEnd(file) /\ Len(synced') \in Nat
    <3>0. file \in Seq(Cells) /\ synced \in Seq(Cells) /\ ScanEnd(file) \in Nat
      BY <1>0, <2>1 DEF LogTypes
    <3>1. Len(SetLen(file, ScanEnd(file))) = IF ScanEnd(file) < Len(file) THEN ScanEnd(file) ELSE Len(file)
      BY <3>0, FileCut, Zenon
    <3>2. Len(SetLen(synced, ScanEnd(file))) = IF ScanEnd(file) < Len(synced) THEN ScanEnd(file) ELSE Len(synced)
      BY <3>0, FileCut, Zenon
    <3> QED
      BY <1>01, <1>4, <2>1, <3>1, <3>2 DEF OpenExisting
  <2> QED
    BY <1>0, <1>01, <1>02, <2>1, <2>2 DEF LogBounded
<1>5. CASE \E len \in Lens : AppendHeader(len)
  <2>1. PICK len \in Lens : AppendHeader(len)
    BY <1>5
  <2>2. len \in Nat /\ next + 1 \in Nat /\ len <= MaxPayload
    BY <1>01, <2>1, WalAssumption DEF AppendHeader
  <2>3. /\ Len(file') = Len(file) + 1 /\ next' = next + 1 /\ pc' = "payload"
        /\ end' = end /\ synced' = synced /\ cur'.len = len /\ pc = "open"
    BY <1>0, <2>1, <2>2, CellKinds, FilePushed DEF AppendHeader, LogTypes
  <2> QED
    BY <1>0, <1>01, <1>02, <2>2, <2>3, SMT DEF LogBounded
<1>6. CASE AppendPayload
  <2>1. /\ Len(file') = Len(file) + cur.len /\ next' = next /\ pc' = "open"
        /\ end' = end + 1 + cur.len /\ synced' = synced /\ pc = "payload"
    BY <1>0, <1>01, <1>6, FileExtended, Zenon DEF AppendPayload, LogTypes
  <2> QED
    BY <1>0, <1>01, <1>02, <2>1, SMTT(30) DEF LogBounded
<1>7. CASE HeaderFails
  <2>1. /\ Len(file') = Len(file) \/ Len(file') = Len(file) + 1
        /\ next' = next + 1 /\ pc' = "open" /\ pc = "open" /\ end' = end /\ synced' = synced
    <3>1. Len(Append(file, Junk)) = Len(file) + 1
      BY <1>0, CellKinds, FilePushed DEF LogTypes
    <3> QED
      BY <1>7, <3>1 DEF HeaderFails
  <2> QED
    BY <1>0, <1>01, <1>02, <2>1, SMT DEF LogBounded
<1>8. CASE PayloadFails
  <2>1. PICK k \in 0..(cur.len - 1) : file' = file \o PayloadCells(cur.n, k)
    BY <1>8 DEF PayloadFails
  <2>2. k \in Nat /\ k < cur.len
    BY <1>01
  <2>3. /\ Len(file') = Len(file) + k /\ next' = next /\ pc' = "open"
        /\ end' = end /\ synced' = synced /\ pc = "payload"
    BY <1>0, <1>01, <1>8, <2>1, <2>2, FileExtended, Zenon DEF PayloadFails, LogTypes
  <2> QED
    BY <1>0, <1>01, <1>02, <2>2, <2>3, SMT DEF LogBounded
<1>9. CASE Sync
  BY <1>0, <1>9 DEF Sync, LogBounded
<1>10. CASE Kill
  BY <1>0, <1>10 DEF Kill, LogBounded
<1>11. CASE PowerLoss
  <2>1. Len(file') <= Len(file) \/ Len(file') <= Len(synced)
    BY <1>0, <1>11, FileLost DEF PowerLoss, LogTypes
  <2>2. Len(file') \in Nat /\ synced' = file' /\ end' = end /\ next' = next /\ pc' = "closed"
    BY <1>03, <1>11, LenProperties DEF PowerLoss, LogTypes
  <2> QED
    BY <1>0, <1>01, <1>02, <2>1, <2>2 DEF LogBounded
<1>12. CASE PowerLossTears
  <2>1. Len(<<Junk>>) = 1
    OBVIOUS
  <2>2. file' = <<Junk>> /\ synced' = file' /\ end' = end /\ next' = next /\ pc' = "closed"
    BY <1>12 DEF PowerLossTears
  <2> QED
    BY <1>0, <1>01, <1>02, <2>1, <2>2 DEF LogBounded
<1>13. CASE UNCHANGED vars
  BY <1>0, <1>13 DEF vars, LogBounded, Room
<1> QED
  BY <1>1, <1>2, <1>3, <1>4, <1>5, <1>6, <1>7, <1>8, <1>9, <1>10, <1>11, <1>12, <1>13 DEF Next

(* The state after append wrote a record header. *)
LEMMA HeaderWritten ==
  ASSUME LogInv, NEW len \in Lens, AppendHeader(len)
  PROVE  /\ len \in Nat /\ next + 1 \in Nat /\ file' \in Seq(Cells)
         /\ Len(file') = Len(file) + 1 /\ file'[Len(file) + 1] = RecordCell(next + 1, len)
         /\ \A i \in 1..Len(file) : file'[i] = file[i]
         /\ StartsWith(file', file)
         /\ Len(offs') = next + 1 /\ offs'[next + 1] = Pending
         /\ \A n \in 1..next : offs'[n] = offs[n]
         /\ next' = next + 1 /\ cur'.n = next + 1 /\ cur'.len = len
         /\ pc = "open" /\ pc' = "payload"
         /\ disk' = disk /\ synced' = synced /\ end' = end /\ held' = held /\ acked' = acked
<1>1. LogTypes
  BY DEF LogInv
<1>2. len \in Nat /\ next + 1 \in Nat
  BY <1>1, WalAssumption, SMT DEF LogTypes
<1>3. RecordCell(next + 1, len) \in Cells
  BY <1>2, CellKinds, Zenon
<1>4. file' = Append(file, RecordCell(next + 1, len)) /\ offs' = Append(offs, Pending)
  BY DEF AppendHeader
<1>5. /\ file' \in Seq(Cells) /\ Len(file') = Len(file) + 1
      /\ file'[Len(file')] = RecordCell(next + 1, len)
      /\ \A i \in 1..Len(file) : file'[i] = file[i]
      /\ StartsWith(file', file)
  BY <1>1, <1>3, <1>4, FilePushed DEF LogTypes
<1>6. /\ Len(offs') = next + 1 /\ offs'[next + 1] = Pending
      /\ \A n \in 1..next : offs'[n] = offs[n]
  BY <1>1, <1>4, AppendProperties, SMTT(30) DEF LogTypes, Pending
<1> QED
  BY <1>2, <1>5, <1>6, Zenon DEF AppendHeader

(* The state after append wrote the first k cells of a payload. *)
LEMMA PayloadWritten ==
  ASSUME LogInv, pc = "payload", NEW k \in Nat, NEW v \in Int,
         file' = file \o PayloadCells(cur.n, k), offs' = [offs EXCEPT ![cur.n] = v]
  PROVE  /\ file' \in Seq(Cells) /\ Len(file') = Len(file) + k
         /\ \A i \in 1..Len(file) : file'[i] = file[i]
         /\ \A i \in 1..Len(file') :
              i \in 1..Len(file) \/ (i - Len(file) \in 1..k
                                       /\ file'[i] = <<"payload", cur.n, i - Len(file)>>)
         /\ StartsWith(file', file)
         /\ cur.n \in 1..next /\ cur.n = next
         /\ Len(offs') = next /\ offs'[cur.n] = v
         /\ \A n \in 1..next : n # cur.n => offs'[n] = offs[n]
<1>1. LogTypes /\ LogPhases
  BY DEF LogInv
<1>2. cur.n \in 1..next /\ cur.n = next /\ cur.n \in Nat /\ Len(file) \in Nat
  BY <1>1, LenProperties, SMT DEF LogTypes, LogPhases
<1>3. /\ file' \in Seq(Cells) /\ Len(file') = Len(file) + k
      /\ \A i \in 1..Len(file) : file'[i] = file[i]
      /\ \A i \in 1..k : file'[Len(file) + i] = <<"payload", cur.n, i>>
      /\ StartsWith(file', file)
  <2>1. PICK n \in Nat, f \in Seq(Cells) : n = cur.n /\ f = file
    BY <1>1, <1>2 DEF LogTypes
  <2>2. PICK g : g = f \o PayloadCells(n, k)
    OBVIOUS
  <2>3. /\ g \in Seq(Cells) /\ Len(g) = Len(f) + k
        /\ \A i \in 1..Len(f) : g[i] = f[i]
        /\ \A i \in 1..k : g[Len(f) + i] = <<"payload", n, i>>
        /\ StartsWith(g, f)
    BY <2>2, FileExtended
  <2>4. file' = g
    BY <2>1, <2>2
  <2> QED
    BY <2>1, <2>3, <2>4
<1>4. ASSUME NEW i \in 1..Len(file'), i \notin 1..Len(file)
      PROVE  i - Len(file) \in 1..k /\ file'[i] = <<"payload", cur.n, i - Len(file)>>
  <2>1. i - Len(file) \in 1..k /\ Len(file) + (i - Len(file)) = i
    BY <1>2, <1>3, <1>4
  <2> QED
    BY <1>3, <2>1
<1>5. /\ Len(offs') = next /\ offs'[cur.n] = v
      /\ \A n \in 1..next : n # cur.n => offs'[n] = offs[n]
  <2>1. offs \in Seq(Int) /\ Len(offs) = next
    BY <1>1 DEF LogTypes
  <2> QED
    BY <1>2, <2>1, ExceptSeq, SMT
<1> QED
  BY <1>2, <1>3, <1>4, <1>5

(* The state after append could not write a record header. *)
LEMMA JunkWritten ==
  ASSUME LogInv, HeaderFails
  PROVE  /\ file' \in Seq(Cells) /\ Len(file') \in Nat /\ Len(file) <= Len(file')
         /\ Len(file') <= Len(file) + 1
         /\ \A i \in 1..Len(file') : (i \in 1..Len(file) /\ file'[i] = file[i]) \/ file'[i] = Junk
         /\ \A i \in 1..Len(file) : file'[i] = file[i]
         /\ StartsWith(file', file)
         /\ Len(offs') = next + 1 /\ offs'[next + 1] = Failed
         /\ \A n \in 1..next : offs'[n] = offs[n]
<1>0. LogTypes
  BY DEF LogInv
<1>01. Len(file) \in Nat
  BY <1>0, LenProperties DEF LogTypes
<1> DEFINE g == Append(file, Junk)
<1>1. /\ g \in Seq(Cells) /\ Len(g) = Len(file) + 1 /\ g[Len(g)] = Junk
      /\ \A i \in 1..Len(file) : g[i] = file[i]
  BY <1>0, CellKinds, FilePushed, SMT DEF LogTypes
<1>2. file' = file \/ file' = g
  BY DEF HeaderFails
<1> HIDE DEF g
<1>3. \A i \in 1..(Len(file) + 1) : i \in 1..Len(file) \/ i = Len(file) + 1
  BY <1>01
<1>4. /\ file' \in Seq(Cells) /\ Len(file') \in Nat /\ Len(file) <= Len(file')
      /\ Len(file') <= Len(file) + 1
      /\ \A i \in 1..Len(file') : (i \in 1..Len(file) /\ file'[i] = file[i]) \/ file'[i] = Junk
      /\ \A i \in 1..Len(file) : file'[i] = file[i]
  BY <1>0, <1>01, <1>1, <1>2, <1>3 DEF LogTypes
<1>5. /\ Len(offs') = next + 1 /\ offs'[next + 1] = Failed
      /\ \A n \in 1..next : offs'[n] = offs[n]
  <2>1. offs \in Seq(Int) /\ Len(offs) = next /\ offs' = Append(offs, Failed) /\ Failed \in Int
    BY <1>0 DEF HeaderFails, LogTypes, Failed
  <2> QED
    BY <2>1, AppendProperties, SMTT(30)
<1> QED
  BY <1>4, <1>5 DEF StartsWith

(* The state after open cut the torn tail off. *)
LEMMA TailCut ==
  ASSUME LogInv, OpenExisting
  PROVE  /\ ScanEnd(file) \in 1..Len(file) /\ Len(file) > 0
         /\ file' \in Seq(Cells) /\ Len(file') = ScanEnd(file) /\ end' = ScanEnd(file)
         /\ \A i \in 1..Len(file') : file'[i] = file[i]
         /\ StartsWith(file, file')
         /\ Nums(file') = Nums(file) /\ ScanEnd(file') = ScanEnd(file)
         /\ synced' \in Seq(Cells) /\ Len(synced') \in Nat /\ Len(synced') <= Len(synced)
         /\ Len(synced') = Len(synced) \/ Len(synced') = ScanEnd(file)
         /\ disk # "weak" => Len(synced') <= ScanEnd(file)
         /\ \A i \in 1..Len(synced') : synced'[i] = synced[i]
         /\ StartsWith(synced, synced')
         /\ held' = Range(Nums(file)) /\ pc' = "open"
         /\ disk' = disk /\ next' = next /\ offs' = offs /\ acked' = acked /\ cur' = cur
<1>1. LogTypes
  BY DEF LogInv
<1>2. Len(file) \in Nat /\ Len(synced) \in Nat
  BY <1>1, LenProperties DEF LogTypes
<1>3. Len(file) > 0
  BY <1>1, <1>2, EmptySeq DEF OpenExisting, LogTypes
<1> DEFINE e == ScanEnd(file)
<1>4. e \in 1..Len(file)
  BY <1>1, <1>3, ScanOf DEF LogTypes
<1>5. e \in Nat /\ e \in e..Len(file)
  BY <1>2, <1>4
<1>6. /\ file' \in Seq(Cells) /\ Len(file') = IF e < Len(file) THEN e ELSE Len(file)
      /\ \A i \in 1..Len(file') : file'[i] = file[i]
      /\ StartsWith(file, file') /\ file' = SubSeq(file, 1, Len(file'))
  <2> HIDE DEF e
  <2> QED
    BY <1>1, <1>5, FileCut DEF OpenExisting, LogTypes, e
<1>7. Len(file') = e
  BY <1>2, <1>4, <1>6
<1>8. Nums(file') = Nums(file) /\ ScanEnd(file') = ScanEnd(file)
  BY <1>1, <1>3, <1>5, <1>6, <1>7, ScanOfCut, Zenon DEF LogTypes
<1> HIDE DEF e
<1>9. /\ synced' \in Seq(Cells) /\ Len(synced') \in Nat /\ Len(synced') <= Len(synced)
      /\ Len(synced') = Len(synced) \/ Len(synced') = e
      /\ disk # "weak" => Len(synced') <= e
      /\ \A i \in 1..Len(synced') : synced'[i] = synced[i]
      /\ StartsWith(synced, synced')
  <2>1. CASE disk = "weak"
    <3>1. synced' = synced
      BY <2>1 DEF OpenExisting
    <3> QED
      BY <1>1, <1>2, <2>1, <3>1 DEF LogTypes, StartsWith
  <2>2. CASE disk # "weak"
    <3>1. synced' = SetLen(synced, e)
      BY <2>2 DEF OpenExisting, e
    <3>2. /\ synced' \in Seq(Cells) /\ Len(synced') = IF e < Len(synced) THEN e ELSE Len(synced)
          /\ \A i \in 1..Len(synced') : synced'[i] = synced[i]
          /\ StartsWith(synced, synced')
      BY <1>1, <1>5, <3>1, FileCut DEF LogTypes
    <3> QED
      BY <1>2, <1>5, <3>2
  <2> QED
    BY <2>1, <2>2
<1> QED
  BY <1>3, <1>4, <1>6, <1>7, <1>8, <1>9 DEF e, OpenExisting, Nums

(* Every step keeps what is known of the cells and of the writer's phase. *)
LEMMA PhasesStep ==
  ASSUME LogInv, [Next]_vars
  PROVE  LogPhases'
<1>0. LogTypes /\ LogPhases
  BY DEF LogInv
<1>01. next \in Nat /\ Len(file) \in Nat /\ Len(synced) \in Nat /\ cur.n \in Nat /\ cur.len \in Nat
  BY <1>0, LenProperties, SMT DEF LogTypes
<1>1. CASE OpenFresh
  BY <1>0, <1>1, CellKinds, SMT DEF OpenFresh, LogPhases, CellsKnown
<1>2. CASE OpenFreshFails
  <2>1. CellsKnown(<<Junk>>)
    BY CellKinds, SMT DEF CellsKnown
  <2> QED
    BY <1>0, <1>2, <2>1 DEF OpenFreshFails, LogPhases, CellsKnown
<1>3. CASE SyncHeader
  <2>1. Len(<<Magic>>) > 0
    OBVIOUS
  <2> QED
    BY <1>0, <1>3, <2>1 DEF SyncHeader, LogPhases, CellsKnown
<1>4. CASE OpenExisting
  <2>1. /\ Len(file') \in 1..Len(file) /\ \A i \in 1..Len(file') : file'[i] = file[i]
        /\ Len(synced') \in Nat /\ Len(synced') <= Len(synced)
        /\ \A i \in 1..Len(synced') : synced'[i] = synced[i]
        /\ pc' = "open" /\ next' = next
    BY <1>4, TailCut
  <2>2. CellsKnown(file)' /\ CellsKnown(synced)'
    <3>1. \A i \in 1..Len(file') : i \in 1..Len(file)
      BY <1>01, <2>1
    <3>2. \A i \in 1..Len(synced') : i \in 1..Len(synced)
      BY <1>01, <2>1
    <3> QED
      BY <1>0, <2>1, <3>1, <3>2 DEF LogPhases, CellsKnown
  <2> QED
    BY <1>01, <2>1, <2>2 DEF LogPhases
<1>5. CASE \E len \in Lens : AppendHeader(len)
  <2>1. PICK len \in Lens : AppendHeader(len)
    BY <1>5
  <2>2. /\ len \in Nat /\ next + 1 \in Nat
        /\ Len(file') = Len(file) + 1 /\ file'[Len(file) + 1] = RecordCell(next + 1, len)
        /\ \A i \in 1..Len(file) : file'[i] = file[i]
        /\ offs'[next + 1] = Pending
        /\ next' = next + 1 /\ cur'.n = next + 1 /\ cur'.len = len
        /\ pc' = "payload" /\ synced' = synced
    BY <2>1, HeaderWritten
  <2>3. file'[Len(file) + 1][1] = "record" /\ file'[Len(file) + 1][2] = next + 1
    BY <2>2, CellKinds, SMT
  <2>4. \A i \in 1..(Len(file) + 1) : i \in 1..Len(file) \/ i = Len(file) + 1
    BY <1>01
  <2>5. CellsKnown(file)' /\ CellsKnown(synced)'
    <3>1. next + 1 \in 1..(next + 1) /\ \A n \in 1..next : n \in 1..(next + 1)
      BY <1>01
    <3>2. CellsKnown(synced)'
      BY <1>0, <2>2, <3>1 DEF LogPhases, CellsKnown
    <3>3. CellsKnown(file)'
      BY <1>0, <2>2, <2>3, <2>4, <3>1 DEF LogPhases, CellsKnown
    <3> QED
      BY <3>2, <3>3
  <2>6. \A i \in 1..(Len(file') - 1) :
          file'[i][1] \in {"record", "payload"} => file'[i][2] # next + 1
    BY <1>0, <1>01, <2>2, SMTT(30) DEF LogPhases, CellsKnown
  <2>7. Writing(synced)'
    BY <1>0, <1>01, <2>2, SMTT(30) DEF LogPhases, CellsKnown, Writing
  <2> QED
    BY <1>01, <2>2, <2>5, <2>6, <2>7, SMT DEF LogPhases
<1>6. CASE AppendPayload
  <2>1. /\ Len(file') = Len(file) + cur.len
        /\ \A i \in 1..Len(file) : file'[i] = file[i]
        /\ \A i \in 1..Len(file') :
             i \in 1..Len(file) \/ (i - Len(file) \in 1..cur.len
                                     /\ file'[i] = <<"payload", cur.n, i - Len(file)>>)
        /\ cur.n \in 1..next
    <3>1. end + 1 \in Int
      BY <1>0 DEF LogTypes
    <3> QED
      BY <1>01, <1>6, <3>1, PayloadWritten, Zenon DEF AppendPayload
  <2>2. next' = next /\ pc' = "open" /\ synced' = synced /\ pc = "payload"
    BY <1>6 DEF AppendPayload
  <2>3. CellsKnown(file)' /\ CellsKnown(synced)'
    <3>1. CellsKnown(synced)'
      BY <1>0, <2>2 DEF LogPhases, CellsKnown
    <3>2. ASSUME NEW i \in 1..Len(file')
          PROVE  file'[i][1] \in {"record", "payload"} => file'[i][2] \in 1..next
      <4>1. CASE i \in 1..Len(file)
        BY <1>0, <2>1, <4>1 DEF LogPhases, CellsKnown
      <4>2. CASE i \notin 1..Len(file)
        BY <2>1, <4>2, SMTT(30)
      <4> QED
        BY <4>1, <4>2
    <3>3. CellsKnown(file)'
      BY <2>2, <3>2 DEF CellsKnown
    <3> QED
      BY <3>1, <3>3
  <2> QED
    BY <1>0, <1>01, <2>1, <2>2, <2>3, SMTT(30) DEF LogPhases
<1>7. CASE HeaderFails
  <2>1. /\ Len(file') \in Nat /\ Len(file) <= Len(file')
        /\ \A i \in 1..Len(file') : (i \in 1..Len(file) /\ file'[i] = file[i]) \/ file'[i] = Junk
    BY <1>7, JunkWritten
  <2>2. next' = next + 1 /\ pc' = "open" /\ pc = "open" /\ synced' = synced
    BY <1>7 DEF HeaderFails
  <2>3. CellsKnown(file)' /\ CellsKnown(synced)'
    <3>1. \A n \in 1..next : n \in 1..(next + 1)
      BY <1>01
    <3>2. CellsKnown(synced)'
      BY <1>0, <2>2, <3>1 DEF LogPhases, CellsKnown
    <3>3. CellsKnown(file)'
      BY <1>0, <2>1, <2>2, <3>1, CellKinds DEF LogPhases, CellsKnown
    <3> QED
      BY <3>2, <3>3
  <2> QED
    BY <1>0, <1>01, <2>1, <2>2, <2>3, SMT DEF LogPhases
<1>8. CASE PayloadFails
  <2>1. PICK k \in 0..(cur.len - 1) : file' = file \o PayloadCells(cur.n, k)
    BY <1>8 DEF PayloadFails
  <2>2. k \in Nat /\ Failed \in Int
    BY <1>01 DEF Failed
  <2>3. next' = next /\ pc' = "open" /\ synced' = synced /\ pc = "payload"
    BY <1>8 DEF PayloadFails
  <2>4. /\ Len(file') = Len(file) + k
        /\ \A i \in 1..Len(file) : file'[i] = file[i]
        /\ \A i \in 1..Len(file') :
             i \in 1..Len(file) \/ (i - Len(file) \in 1..k
                                     /\ file'[i] = <<"payload", cur.n, i - Len(file)>>)
        /\ cur.n \in 1..next
    BY <1>8, <2>1, <2>2, <2>3, PayloadWritten, Zenon DEF PayloadFails
  <2>5. CellsKnown(file)' /\ CellsKnown(synced)'
    <3>1. CellsKnown(synced)'
      BY <1>0, <2>3 DEF LogPhases, CellsKnown
    <3>2. ASSUME NEW i \in 1..Len(file')
          PROVE  file'[i][1] \in {"record", "payload"} => file'[i][2] \in 1..next
      <4>1. CASE i \in 1..Len(file)
        BY <1>0, <2>4, <4>1 DEF LogPhases, CellsKnown
      <4>2. CASE i \notin 1..Len(file)
        BY <2>4, <4>2, SMT
      <4> QED
        BY <4>1, <4>2
    <3>3. CellsKnown(file)'
      BY <2>3, <3>2 DEF CellsKnown
    <3> QED
      BY <3>1, <3>3
  <2> QED
    BY <1>0, <1>01, <2>2, <2>3, <2>4, <2>5, SMTT(30) DEF LogPhases
<1>9. CASE Sync
  BY <1>0, <1>9 DEF Sync, LogPhases, CellsKnown
<1>10. CASE Kill
  BY <1>0, <1>10 DEF Kill, LogPhases, CellsKnown
<1>11. CASE PowerLoss
  <2>1. \A i \in 1..Len(file') :
          \/ i <= Len(file) /\ file'[i] = file[i]
          \/ i <= Len(synced) /\ file'[i] = synced[i]
          \/ file'[i] = Zero
    BY <1>0, <1>11, FileLost DEF PowerLoss, LogTypes
  <2>2. synced' = file' /\ next' = next /\ pc' = "closed"
    BY <1>11 DEF PowerLoss
  <2>3. CellsKnown(file)'
    <3> SUFFICES ASSUME NEW i \in 1..Len(file')
                 PROVE  /\ file'[i][1] = "record" => file'[i][2] \in 1..next
                        /\ file'[i][1] = "payload" => file'[i][2] \in 1..next
      BY <2>2 DEF CellsKnown
    <3>1. (i <= Len(file) => i \in 1..Len(file)) /\ (i <= Len(synced) => i \in 1..Len(synced))
      BY <1>01
    <3> QED
      BY <1>0, <2>1, <3>1, CellKinds, SMTT(30) DEF LogPhases, CellsKnown
  <2> QED
    BY <2>2, <2>3 DEF LogPhases, CellsKnown
<1>12. CASE PowerLossTears
  <2>1. CellsKnown(<<Junk>>)
    BY CellKinds, SMT DEF CellsKnown
  <2> QED
    BY <1>12, <2>1 DEF PowerLossTears, LogPhases, CellsKnown
<1>13. CASE UNCHANGED vars
  BY <1>0, <1>13 DEF vars, LogPhases, CellsKnown, Writing
<1> QED
  BY <1>1, <1>2, <1>3, <1>4, <1>5, <1>6, <1>7, <1>8, <1>9, <1>10, <1>11, <1>12, <1>13 DEF Next

(* A part of an ordered file is ordered. *)
LEMMA OrderedPart ==
  ASSUME NEW f, NEW g, CellsOrdered(f), Len(f) \in Nat, Len(g) \in Nat, Len(g) <= Len(f),
         \A i \in 1..Len(g) : g[i] = f[i]
  PROVE  CellsOrdered(g)
<1>1. \A i \in 1..Len(g) : i \in 1..Len(f)
  OBVIOUS
<1> QED
  BY <1>1 DEF CellsOrdered

(* On a disk that keeps writes in order, every step keeps the order. *)
LEMMA OrderStep ==
  ASSUME LogInv, [Next]_vars
  PROVE  LogOrdered'
<1>0. LogTypes /\ LogPhases /\ LogOrdered
  BY DEF LogInv
<1>01. next \in Nat /\ Len(file) \in Nat /\ Len(synced) \in Nat /\ cur.n \in Nat /\ cur.len \in Nat
  BY <1>0, LenProperties, SMT DEF LogTypes
<1>02. disk' = disk
  BY DEF Next, OpenFresh, OpenFreshFails, SyncHeader, OpenExisting, AppendHeader,
         AppendPayload, HeaderFails, PayloadFails, Sync, Kill, PowerLoss, PowerLossTears, vars
<1> SUFFICES ASSUME disk # "weak"
             PROVE  StartsWith(file', synced') /\ CellsOrdered(file)'
  BY <1>02 DEF LogOrdered
<1>03. StartsWith(file, synced) /\ CellsOrdered(file) /\ CellsKnown(file)
  BY <1>0 DEF LogOrdered, LogPhases
<1>1. CASE OpenFresh
  <2>1. Len(synced) = 0 /\ file' = <<Magic>> /\ synced' = synced
    BY <1>01, <1>03, <1>1 DEF OpenFresh, StartsWith
  <2>2. Magic # Zero /\ Magic[1] # "record"
    BY DEF Magic, Zero
  <2> QED
    BY <2>1, <2>2, SMT DEF StartsWith, CellsOrdered
<1>2. CASE OpenFreshFails
  <2>1. Len(synced) = 0 /\ (file' = file \/ file' = <<Junk>>) /\ synced' = synced /\ offs' = offs
    BY <1>01, <1>03, <1>2 DEF OpenFreshFails, StartsWith
  <2>2. Junk # Zero /\ Junk[1] # "record"
    BY DEF Junk, Zero
  <2> QED
    BY <1>03, <2>1, <2>2, SMT DEF StartsWith, CellsOrdered
<1>3. CASE SyncHeader
  BY <1>01, <1>03, <1>3 DEF SyncHeader, StartsWith, CellsOrdered
<1>4. CASE OpenExisting
  <2>1. /\ Len(file') \in 1..Len(file) /\ \A i \in 1..Len(file') : file'[i] = file[i]
        /\ Len(synced') \in Nat /\ Len(synced') <= Len(synced) /\ Len(synced') <= Len(file')
        /\ \A i \in 1..Len(synced') : synced'[i] = synced[i]
        /\ offs' = offs
    BY <1>4, TailCut
  <2>2. StartsWith(file', synced')
    <3>1. \A i \in 1..Len(synced') : i \in 1..Len(synced) /\ i \in 1..Len(file')
      BY <1>01, <2>1
    <3> QED
      BY <1>03, <2>1, <3>1 DEF StartsWith
  <2>3. CellsOrdered(file')
    BY <1>01, <1>03, <2>1, OrderedPart, SMTT(30)
  <2> QED
    BY <2>1, <2>2, <2>3 DEF CellsOrdered
<1>5. CASE \E len \in Lens : AppendHeader(len)
  <2>1. PICK len \in Lens : AppendHeader(len)
    BY <1>5
  <2>2. /\ len \in Nat /\ next + 1 \in Nat
        /\ Len(file') = Len(file) + 1 /\ file'[Len(file) + 1] = RecordCell(next + 1, len)
        /\ \A i \in 1..Len(file) : file'[i] = file[i]
        /\ offs'[next + 1] = Pending /\ \A n \in 1..next : offs'[n] = offs[n]
        /\ synced' = synced
    BY <2>1, HeaderWritten
  <2> DEFINE x == file'[Len(file) + 1]
  <2>3. x[1] = "record" /\ x[2] = next + 1 /\ x # Zero /\ \A n, l : x # <<"payload", n, l>>
    BY <2>2 DEF RecordCell, Zero
  <2>4. \A i \in 1..(Len(file) + 1) : i \in 1..Len(file) \/ i = Len(file) + 1
    BY <1>01
  <2>5. \A i \in 1..Len(file) : file'[i][1] = "record" => file'[i][2] \in 1..next
    BY <1>03, <2>2 DEF CellsKnown
  <2> HIDE DEF x
  <2>6. StartsWith(file', synced')
    BY <1>01, <1>03, <2>2, SMTT(30) DEF StartsWith
  <2>7. \A i \in 1..Len(file') : file'[i] # Zero
    BY <1>03, <2>2, <2>3, <2>4 DEF CellsOrdered, x
  <2>8. \A i, j \in 1..Len(file') :
          i < j /\ file'[i][1] = "record" /\ file'[j][1] = "record" => file'[i][2] < file'[j][2]
    <3> SUFFICES ASSUME NEW i \in 1..Len(file'), NEW j \in 1..Len(file'), i < j,
                        file'[i][1] = "record", file'[j][1] = "record"
                 PROVE  file'[i][2] < file'[j][2]
      OBVIOUS
    <3>1. i \in 1..Len(file)
      BY <1>01, <2>2, SMT
    <3>2. CASE j \in 1..Len(file)
      BY <1>03, <2>2, <3>1, <3>2 DEF CellsOrdered
    <3>3. CASE j = Len(file) + 1
      BY <1>01, <2>3, <2>5, <3>1, <3>3, SMT DEF x
    <3> QED
      BY <2>2, <2>4, <3>2, <3>3
  <2>9. \A i, j \in 1..Len(file') :
          file'[i][1] = "record" /\ offs'[file'[i][2]] = Failed
            => file'[i][3] > 0 /\ file'[j] # <<"payload", file'[i][2], file'[i][3]>>
    <3> SUFFICES ASSUME NEW i \in 1..Len(file'), NEW j \in 1..Len(file'),
                        file'[i][1] = "record", offs'[file'[i][2]] = Failed
                 PROVE  file'[i][3] > 0 /\ file'[j] # <<"payload", file'[i][2], file'[i][3]>>
      OBVIOUS
    <3>1. i \in 1..Len(file)
      <4>1. Pending # Failed
        BY DEF Pending, Failed
      <4>2. i # Len(file) + 1
        BY <2>2, <2>3, <4>1 DEF x
      <4> QED
        BY <2>2, <2>4, <4>2
    <3>2. file'[i] = file[i] /\ offs[file[i][2]] = Failed
      BY <2>2, <2>5, <3>1
    <3>3. CASE j \in 1..Len(file)
      BY <1>03, <2>2, <3>1, <3>2, <3>3 DEF CellsOrdered
    <3>4. CASE j = Len(file) + 1
      BY <1>03, <2>3, <3>1, <3>2, <3>4 DEF CellsOrdered, x
    <3> QED
      BY <2>2, <2>4, <3>3, <3>4
  <2> QED
    BY <2>6, <2>7, <2>8, <2>9 DEF CellsOrdered
<1>6. ASSUME pc = "payload", NEW k \in Nat, NEW v \in Int,
             file' = file \o PayloadCells(cur.n, k), offs' = [offs EXCEPT ![cur.n] = v],
             v = Failed => k < cur.len, synced' = synced
      PROVE  StartsWith(file', synced') /\ CellsOrdered(file)'
  <2>1. /\ Len(file') = Len(file) + k
        /\ \A i \in 1..Len(file) : file'[i] = file[i]
        /\ \A i \in 1..Len(file') :
             i \in 1..Len(file) \/ (i - Len(file) \in 1..k
                                     /\ file'[i] = <<"payload", cur.n, i - Len(file)>>)
        /\ cur.n \in 1..next
        /\ offs'[cur.n] = v /\ \A n \in 1..next : n # cur.n => offs'[n] = offs[n]
    BY <1>6, PayloadWritten, Zenon
  <2>2. StartsWith(file', synced')
    BY <1>01, <1>03, <1>6, <2>1, SMTT(30) DEF StartsWith
  <2>3. ASSUME NEW i \in 1..Len(file'), i \notin 1..Len(file)
        PROVE  file'[i] # Zero /\ file'[i][1] # "record"
    <3>1. file'[i] = <<"payload", cur.n, i - Len(file)>>
      BY <2>1, <2>3
    <3> QED
      BY <3>1 DEF Zero
  <2>4. \A i \in 1..Len(file') : file'[i] # Zero
    BY <1>03, <2>1, <2>3 DEF CellsOrdered
  <2>5. \A i, j \in 1..Len(file') :
          i < j /\ file'[i][1] = "record" /\ file'[j][1] = "record" => file'[i][2] < file'[j][2]
    BY <1>03, <2>1, <2>3 DEF CellsOrdered
  <2>6. ASSUME NEW i \in 1..Len(file'), NEW j \in 1..Len(file'),
               file'[i][1] = "record", offs'[file'[i][2]] = Failed
        PROVE  file'[i][3] > 0 /\ file'[j] # <<"payload", file'[i][2], file'[i][3]>>
    <3>1. i \in 1..Len(file) /\ file'[i] = file[i] /\ file[i][2] \in 1..next
      BY <1>03, <2>1, <2>3, <2>6 DEF CellsKnown
    <3>2. CASE file[i][2] = cur.n
      <4>1. i = Len(file) /\ file[i] = RecordCell(cur.n, cur.len)
        <5>1. \A h \in 1..(Len(file) - 1) :
                file[h][1] \in {"record", "payload"} => file[h][2] # cur.n
          BY <1>0, <1>6 DEF LogPhases
        <5>2. i \notin 1..(Len(file) - 1)
          BY <2>6, <3>1, <3>2, <5>1
        <5>3. i = Len(file)
          BY <1>01, <3>1, <5>2
        <5> QED
          BY <1>0, <1>6, <5>3 DEF LogPhases
      <4>2. file'[i][3] = cur.len /\ file'[i][2] = cur.n
        BY <3>1, <3>2, <4>1 DEF RecordCell
      <4>3. k < cur.len
        BY <1>6, <2>1, <2>6, <3>1, <3>2
      <4>4. file'[j] # <<"payload", cur.n, cur.len>>
        <5>1. CASE j \in 1..Len(file)
          <6>1. CASE j = Len(file)
            BY <2>1, <4>1, <5>1, <6>1 DEF RecordCell
          <6>2. CASE j # Len(file)
            <7>1. j \in 1..(Len(file) - 1)
              BY <1>01, <5>1, <6>2
            <7>2. file[j][1] \in {"record", "payload"} => file[j][2] # cur.n
              BY <1>0, <1>6, <7>1 DEF LogPhases
            <7>3. <<"payload", cur.n, cur.len>>[1] = "payload" /\ <<"payload", cur.n, cur.len>>[2] = cur.n
              OBVIOUS
            <7> QED
              BY <2>1, <5>1, <7>2, <7>3
          <6> QED
            BY <6>1, <6>2
        <5>2. CASE j \notin 1..Len(file)
          <6>1. j - Len(file) \in 1..k /\ file'[j] = <<"payload", cur.n, j - Len(file)>>
            BY <2>1, <5>2
          <6>2. j - Len(file) # cur.len
            BY <1>01, <4>3, <6>1
          <6> QED
            BY <6>1, <6>2
        <5> QED
          BY <5>1, <5>2
      <4> QED
        BY <1>01, <4>2, <4>3, <4>4
    <3>3. CASE file[i][2] # cur.n
      <4>1. offs[file[i][2]] = Failed
        BY <2>1, <2>6, <3>1, <3>3
      <4>2. CASE j \in 1..Len(file)
        BY <1>03, <2>1, <2>6, <3>1, <4>1, <4>2 DEF CellsOrdered
      <4>3. CASE j \notin 1..Len(file)
        <5>1. file'[j][2] = cur.n
          BY <2>1, <4>3, SMTT(30)
        <5>2. <<"payload", file[i][2], file[i][3]>>[2] = file[i][2]
          OBVIOUS
        <5>3. file[i][3] > 0
          BY <1>03, <2>6, <3>1, <4>1 DEF CellsOrdered
        <5> QED
          BY <3>1, <3>3, <5>1, <5>2, <5>3
      <4> QED
        BY <4>2, <4>3
    <3> QED
      BY <3>2, <3>3
  <2> QED
    BY <2>2, <2>4, <2>5, <2>6 DEF CellsOrdered
<1>7. CASE AppendPayload
  <2>1. end + 1 \in Int /\ end + 1 # Failed
    BY <1>0 DEF LogTypes, Failed
  <2> QED
    BY <1>01, <1>6, <1>7, <2>1, Zenon DEF AppendPayload
<1>8. CASE PayloadFails
  <2>1. PICK k \in 0..(cur.len - 1) : file' = file \o PayloadCells(cur.n, k)
    BY <1>8, Zenon DEF PayloadFails
  <2>2. k \in Nat /\ k < cur.len /\ Failed \in Int
    BY <1>01 DEF Failed
  <2> QED
    BY <1>6, <1>8, <2>1, <2>2, Zenon DEF PayloadFails
<1>9. CASE HeaderFails
  <2>1. /\ Len(file') \in Nat /\ Len(file) <= Len(file')
        /\ \A i \in 1..Len(file') : (i \in 1..Len(file) /\ file'[i] = file[i]) \/ file'[i] = Junk
        /\ \A i \in 1..Len(file) : file'[i] = file[i]
        /\ \A n \in 1..next : offs'[n] = offs[n]
    BY <1>9, JunkWritten
  <2>2. synced' = synced
    BY <1>9 DEF HeaderFails
  <2>3. Junk # Zero /\ Junk[1] # "record" /\ \A n, l : Junk # <<"payload", n, l>>
    BY DEF Junk, Zero
  <2>4. StartsWith(file', synced')
    BY <1>01, <1>03, <2>1, <2>2, SMTT(30) DEF StartsWith
  <2>5. ASSUME NEW i \in 1..Len(file'), file'[i][1] = "record"
        PROVE  /\ i \in 1..Len(file) /\ file'[i] = file[i]
               /\ offs'[file[i][2]] = offs[file[i][2]]
    BY <1>03, <2>1, <2>3, <2>5 DEF CellsKnown
  <2>6. \A i \in 1..Len(file') : file'[i] # Zero
    BY <1>03, <2>1, <2>3 DEF CellsOrdered
  <2>7. \A i, j \in 1..Len(file') :
          i < j /\ file'[i][1] = "record" /\ file'[j][1] = "record" => file'[i][2] < file'[j][2]
    BY <1>03, <2>5 DEF CellsOrdered
  <2>8. ASSUME NEW i \in 1..Len(file'), NEW j \in 1..Len(file'),
               file'[i][1] = "record", offs'[file'[i][2]] = Failed
        PROVE  file'[i][3] > 0 /\ file'[j] # <<"payload", file'[i][2], file'[i][3]>>
    <3>1. i \in 1..Len(file) /\ file'[i] = file[i] /\ offs[file[i][2]] = Failed
      BY <2>5, <2>8
    <3>2. CASE file'[j] = Junk
      BY <1>03, <2>3, <2>8, <3>1, <3>2 DEF CellsOrdered
    <3>3. CASE j \in 1..Len(file) /\ file'[j] = file[j]
      BY <1>03, <2>8, <3>1, <3>3 DEF CellsOrdered
    <3> QED
      BY <2>1, <3>2, <3>3
  <2> QED
    BY <2>4, <2>6, <2>7, <2>8 DEF CellsOrdered
<1>10. CASE Sync
  BY <1>01, <1>03, <1>10, SMT DEF Sync, StartsWith, CellsOrdered
<1>11. CASE Kill
  BY <1>03, <1>11 DEF Kill, StartsWith, CellsOrdered
<1>12. CASE PowerLoss
  <2>1. /\ file' \in Seq(Cells) /\ Len(file') <= Len(file)
        /\ \A i \in 1..Len(file') : file'[i] = file[i]
    BY <1>0, <1>03, <1>12, FileLost DEF PowerLoss, LogTypes
  <2>2. Len(file') \in Nat
    BY <2>1, LenProperties
  <2>3. CellsOrdered(file')
    BY <1>01, <1>03, <2>1, <2>2, OrderedPart
  <2>4. synced' = file' /\ offs' = offs
    BY <1>12 DEF PowerLoss
  <2> QED
    BY <2>2, <2>3, <2>4 DEF StartsWith, CellsOrdered
<1>13. CASE PowerLossTears
  <2>1. file' = <<Junk>> /\ synced' = <<Junk>>
    BY <1>13 DEF PowerLossTears
  <2>2. Junk # Zero /\ Junk[1] # "record"
    BY DEF Junk, Zero
  <2> QED
    BY <2>1, <2>2, SMT DEF StartsWith, CellsOrdered
<1>14. CASE UNCHANGED vars
  BY <1>03, <1>14 DEF vars, StartsWith, CellsOrdered
<1> QED
  BY <1>1, <1>2, <1>3, <1>4, <1>5, <1>7, <1>8, <1>9, <1>10, <1>11, <1>12, <1>13, <1>14 DEF Next

(* Every step keeps the header of the file, and of what was synced once a   *)
(* sync succeeded.                                                         *)
LEMMA RootedStep ==
  ASSUME LogInv, [Next]_vars
  PROVE  LogRooted'
<1>0. LogTypes /\ LogPhases /\ LogRooted
  BY DEF LogInv
<1>01. /\ Len(file) \in Nat /\ Len(synced) \in Nat /\ Len(file') \in Nat /\ Len(synced') \in Nat
       /\ file \in Seq(Cells) /\ synced \in Seq(Cells)
  BY <1>0, TypesStep, LenProperties DEF LogTypes
<1>02. pc # "closed" => Len(file) > 0 /\ file[1] = Magic
  <2>1. Len(<<Magic>>) = 1
    OBVIOUS
  <2> QED
    BY <1>0, <2>1 DEF LogTypes, LogPhases, LogRooted
<1>03. ASSUME pc # "closed", Len(file) <= Len(file'), \A i \in 1..Len(file) : file'[i] = file[i]
       PROVE  Len(file') > 0 /\ file'[1] = Magic
  <2>1. 1 \in 1..Len(file)
    BY <1>01, <1>02, <1>03
  <2> QED
    BY <1>01, <1>02, <1>03, <2>1
<1>1. CASE OpenFresh \/ OpenFreshFails
  <2>1. Len(file) = 0
    BY <1>1 DEF OpenFresh, OpenFreshFails
  <2>2. ~rooted /\ rooted' = rooted /\ (pc' # "closed" => file'[1] = Magic)
    BY <1>0, <1>1, <2>1 DEF OpenFresh, OpenFreshFails, LogRooted
  <2> QED
    BY <2>2 DEF LogRooted
<1>2. CASE SyncHeader \/ Sync
  <2>1. pc # "closed" /\ file' = file /\ synced' = file
    BY <1>2 DEF SyncHeader, Sync
  <2> QED
    BY <1>02, <2>1 DEF LogRooted
<1>3. CASE OpenExisting
  <2>1. /\ Len(file') > 0 /\ \A i \in 1..Len(file') : file'[i] = file[i]
        /\ \A i \in 1..Len(synced') : synced'[i] = synced[i]
        /\ Len(synced) > 0 => Len(synced') > 0
    BY <1>01, <1>3, TailCut
  <2>2. 1 \in 1..Len(file') /\ (Len(synced') > 0 => 1 \in 1..Len(synced'))
    BY <1>01, <2>1
  <2>3. file[1] = Magic /\ rooted' = rooted
    BY <1>3 DEF OpenExisting
  <2> QED
    BY <1>0, <2>1, <2>2, <2>3 DEF LogRooted
<1>4. CASE \E len \in Lens : AppendHeader(len)
  <2>1. PICK len \in Lens : AppendHeader(len)
    BY <1>4
  <2>2. /\ pc = "open" /\ synced' = synced /\ rooted' = rooted
        /\ Len(file') = Len(file) + 1 /\ \A i \in 1..Len(file) : file'[i] = file[i]
    BY <2>1, HeaderWritten DEF AppendHeader
  <2> QED
    BY <1>0, <1>01, <1>03, <2>2 DEF LogRooted
<1>5. CASE AppendPayload \/ PayloadFails
  <2>1. pc = "payload" /\ synced' = synced /\ rooted' = rooted
    BY <1>5 DEF AppendPayload, PayloadFails
  <2>2. PICK k \in Nat, v \in Int : /\ file' = file \o PayloadCells(cur.n, k)
                                    /\ offs' = [offs EXCEPT ![cur.n] = v]
    <3>1. end + 1 \in Int /\ cur.len \in Nat /\ Failed \in Int /\ 0..(cur.len - 1) \subseteq Nat
      BY <1>0 DEF LogTypes, Failed
    <3> QED
      BY <1>5, <3>1 DEF AppendPayload, PayloadFails
  <2>3. Len(file') = Len(file) + k /\ \A i \in 1..Len(file) : file'[i] = file[i]
    BY <2>1, <2>2, PayloadWritten
  <2> QED
    BY <1>0, <1>01, <1>03, <2>1, <2>3 DEF LogRooted
<1>6. CASE HeaderFails
  <2>1. /\ pc = "open" /\ synced' = synced /\ rooted' = rooted
        /\ Len(file) <= Len(file') /\ \A i \in 1..Len(file) : file'[i] = file[i]
    BY <1>6, JunkWritten DEF HeaderFails
  <2> QED
    BY <1>0, <1>03, <2>1 DEF LogRooted
<1>7. CASE Kill \/ PowerLossTears
  <2>1. Len(<<>>) = 0
    OBVIOUS
  <2> QED
    BY <1>0, <1>7, <2>1 DEF Kill, PowerLossTears, LogRooted
<1>8. CASE PowerLoss
  <2>1. pc' = "closed" /\ rooted' = rooted /\ synced' = file'
    BY <1>8 DEF PowerLoss
  <2>2. ASSUME rooted PROVE Len(file') > 0 /\ file'[1] = Magic
    <3>1. /\ Len(file) <= Len(file') \/ Len(synced) <= Len(file')
          /\ \A i \in 1..Len(file') :
               i <= Len(file) /\ i <= Len(synced) /\ file[i] = synced[i] => file'[i] = file[i]
      BY <1>01, <1>8, FileLost DEF PowerLoss
    <3>2. /\ Len(file) > 0 /\ Len(synced) > 0 /\ file[1] = Magic /\ synced[1] = Magic
      BY <1>0, <2>2 DEF LogRooted
    <3>3. 1 \in 1..Len(file')
      BY <1>01, <3>1, <3>2
    <3> QED
      BY <1>01, <3>1, <3>2, <3>3
  <2> QED
    BY <2>1, <2>2 DEF LogRooted
<1>9. CASE UNCHANGED vars
  BY <1>0, <1>9 DEF vars, LogRooted
<1> QED
  BY <1>1, <1>2, <1>3, <1>4, <1>5, <1>6, <1>7, <1>8, <1>9 DEF Next

(* Files that agree up to m have the same beginning. *)
LEMMA SameBeginning ==
  ASSUME NEW f \in Seq(Cells), NEW g \in Seq(Cells), NEW m \in Nat,
         m <= Len(f), m <= Len(g), \A i \in 1..m : f[i] = g[i]
  PROVE  /\ SubSeq(f, 1, m) = SubSeq(g, 1, m) /\ SubSeq(f, 1, m) \in Seq(Cells)
         /\ Len(SubSeq(f, 1, m)) = m /\ StartsWith(f, SubSeq(f, 1, m))
<1> DEFINE a == SubSeq(f, 1, m)
           b == SubSeq(g, 1, m)
<1>0. Len(f) \in Nat /\ Len(g) \in Nat
  BY LenProperties
<1>1. m \in 0..Len(f) /\ 1 \in 1..(Len(f) + 1) /\ m \in 0..Len(g) /\ 1 \in 1..(Len(g) + 1)
  BY <1>0
<1>2. a \in Seq(Cells) /\ Len(a) = m /\ \A i \in 1..m : a[i] = f[i]
  BY <1>0, <1>1, SubSeqProperties, SMT
<1>3. b \in Seq(Cells) /\ Len(b) = m /\ \A i \in 1..m : b[i] = g[i]
  BY <1>0, <1>1, SubSeqProperties, SMT
<1> HIDE DEF a, b
<1>4. a = b
  BY <1>2, <1>3, SeqEqual
<1> QED
  BY <1>2, <1>4 DEF a, b, StartsWith

(* A file that goes on twice goes on. *)
LEMMA StartsOn ==
  ASSUME NEW f \in Seq(Cells), NEW g \in Seq(Cells), NEW h \in Seq(Cells),
         StartsWith(h, g), StartsWith(g, f)
  PROVE  StartsWith(h, f)
<1>1. Len(f) \in Nat /\ Len(g) \in Nat /\ Len(h) \in Nat
  BY LenProperties
<1>2. \A i \in 1..Len(f) : i \in 1..Len(g)
  BY <1>1 DEF StartsWith
<1> QED
  BY <1>1, <1>2 DEF StartsWith

(* A longer file still has every record. *)
LEMMA LongerFinds ==
  ASSUME NEW f \in Seq(Cells), NEW g \in Seq(Cells), StartsWith(g, f)
  PROVE  Range(Nums(f)) \subseteq Range(Nums(g))
<1>1. /\ Nums(f) \in Seq(Nat) /\ Nums(g) \in Seq(Nat)
      /\ Len(Nums(f)) <= Len(Nums(g))
      /\ \A i \in 1..Len(Nums(f)) : Nums(g)[i] = Nums(f)[i]
  BY ScanOfLonger
<1>2. /\ Range(Nums(f)) = {Nums(f)[i] : i \in 1..Len(Nums(f))}
      /\ Range(Nums(g)) = {Nums(g)[i] : i \in 1..Len(Nums(g))}
  BY <1>1, LenProperties DEF Range
<1>3. \A i \in 1..Len(Nums(f)) : i \in 1..Len(Nums(g))
  BY <1>1, LenProperties, SMT
<1> QED
  BY <1>1, <1>2, <1>3, Zenon

(* What is settled is found. *)
LEMMA SettledFound ==
  ASSUME file \in Seq(Cells), synced \in Seq(Cells), NEW n, Settled(n)
  PROVE  n \in Range(Nums(file))
<1>1. PICK m \in 0..Len(file) : n \in Range(Nums(SubSeq(file, 1, m)))
  BY DEF Settled
<1>2. m \in Nat /\ m <= Len(file)
  BY LenProperties
<1>3. SubSeq(file, 1, m) \in Seq(Cells) /\ StartsWith(file, SubSeq(file, 1, m))
  BY <1>2, SameBeginning
<1> QED
  BY <1>1, <1>3, LongerFinds, Zenon

(* It stays settled when the common part of the two files is kept. *)
LEMMA SettledStays ==
  ASSUME file \in Seq(Cells), synced \in Seq(Cells), file' \in Seq(Cells), synced' \in Seq(Cells),
         NEW n, Settled(n),
         \A m \in Nat : m <= Len(file) /\ m <= Len(synced) /\ (\A i \in 1..m : file[i] = synced[i])
           => /\ m <= Len(file') /\ m <= Len(synced')
              /\ \A i \in 1..m : file'[i] = file[i] /\ synced'[i] = file[i]
  PROVE  Settled(n)'
<1>1. PICK m \in 0..Len(file) : /\ m <= Len(synced) /\ \A i \in 1..m : file[i] = synced[i]
                                /\ n \in Range(Nums(SubSeq(file, 1, m)))
  BY DEF Settled
<1>2. m \in Nat /\ m <= Len(file)
  BY LenProperties
<1>3. /\ m <= Len(file') /\ m <= Len(synced')
      /\ \A i \in 1..m : file'[i] = file[i] /\ synced'[i] = file[i]
  BY <1>1, <1>2
<1>4. SubSeq(file', 1, m) = SubSeq(file, 1, m)
  BY <1>2, <1>3, SameBeginning, SMT
<1>5. m \in 0..Len(file')
  BY <1>2, <1>3, LenProperties, SMT
<1>6. /\ m <= Len(synced') /\ \A i \in 1..m : file'[i] = synced'[i]
      /\ n \in Range(Nums(SubSeq(file', 1, m)))
  BY <1>1, <1>3, <1>4, Zenon
<1> QED
  BY <1>5, <1>6 DEF Settled

(* A record whose payload is written behind its header at the end of the   *)
(* valid prefix is found.                                                  *)
LEMMA RecordCompleted ==
  ASSUME LogInv, disk # "full", AppendPayload
  PROVE  /\ Len(file') = end + 1 + cur.len /\ ScanEnd(file') = Len(file')
         /\ cur.n \in Range(Nums(file'))
<1>0. LogTypes /\ LogBounded /\ LogPhases /\ LogWhole /\ pc = "payload"
  BY DEF LogInv, AppendPayload
<1>01. /\ file \in Seq(Cells) /\ Len(file) \in Nat /\ end \in Nat /\ cur.n \in Nat
       /\ cur.len \in Nat /\ cur.len <= MaxPayload /\ next \in Nat
  BY <1>0, LenProperties DEF LogTypes
<1>1. /\ Len(file) = end + 1 /\ ScanEnd(SubSeq(file, 1, end)) = end
      /\ file[end + 1] = RecordCell(cur.n, cur.len) /\ cur.n > 0 /\ end >= 1
  BY <1>0 DEF LogWhole, LogPhases, LogBounded
<1>2. /\ file' \in Seq(Cells) /\ Len(file') = Len(file) + cur.len
      /\ \A i \in 1..Len(file) : file'[i] = file[i]
      /\ \A k \in 1..cur.len : file'[Len(file) + k] = <<"payload", cur.n, k>>
      /\ StartsWith(file', file)
  <2>1. PICK n \in Nat, f \in Seq(Cells), m \in Nat : n = cur.n /\ f = file /\ m = cur.len
    BY <1>01
  <2>2. file' = f \o PayloadCells(n, m)
    BY <2>1 DEF AppendPayload
  <2>3. /\ file' \in Seq(Cells) /\ Len(file') = Len(f) + m
        /\ \A i \in 1..Len(f) : file'[i] = f[i]
        /\ \A i \in 1..m : file'[Len(f) + i] = <<"payload", n, i>>
        /\ StartsWith(file', f)
    BY <2>2, FileExtended
  <2> QED
    BY <2>1, <2>3
<1> DEFINE f == SubSeq(file, 1, end)
<1>3. f \in Seq(Cells) /\ Len(f) = end /\ StartsWith(file, f)
  BY <1>01, <1>1, SameBeginning, SMTT(30)
<1>4. ScanEnd(f) = end /\ Len(f) > 0
  BY <1>1, <1>3
<1> HIDE DEF f
<1>5. StartsWith(file', f)
  BY <1>01, <1>2, <1>3, StartsOn
<1>6. /\ file'[end + 1] = RecordCell(cur.n, cur.len) /\ end < Len(file')
      /\ file'[end + 1] # Zero
  BY <1>01, <1>1, <1>2 DEF RecordCell, Zero
<1>7. IsHeader(file', end) /\ RecordNo(file', end) = cur.n /\ RecordLen(file', end) = cur.len
  BY <1>6 DEF IsHeader, RecordNo, RecordLen, RecordCell
<1>8. Jump(file', end) = Len(file')
  BY <1>01, <1>1, <1>2, <1>7 DEF Jump
<1>9. Whole(file', end)
  <2>1. \A k \in 1..cur.len : file'[end + 1 + k] = <<"payload", cur.n, k>>
    BY <1>1, <1>2
  <2>2. Jump(file', end) <= Len(file')
    BY <1>01, <1>2, <1>8
  <2> QED
    BY <1>01, <1>2, <1>7, <2>1, <2>2, WholeIs, Zenon
<1>10. Nums(file') = Append(Nums(f), cur.n) /\ ScanEnd(file') = Len(file')
  BY <1>2, <1>3, <1>4, <1>5, <1>7, <1>8, <1>9, ScanOfGrown
<1>11. cur.n \in Range(Append(Nums(f), cur.n))
  <2>1. Nums(f) \in Seq(Nat)
    BY <1>2, <1>3, <1>5, ScanOfLonger
  <2> DEFINE a == Append(Nums(f), cur.n)
             l == Len(Nums(f)) + 1
  <2>2. a \in Seq(Nat) /\ Len(a) = l /\ a[l] = cur.n /\ l \in 1..l
    BY <1>01, <2>1, AppendProperties, LenProperties, SMTT(30)
  <2>3. l \in DOMAIN a
    BY <2>2, LenProperties
  <2> HIDE DEF a, l
  <2> QED
    BY <2>2, <2>3 DEF Range, a
<1> QED
  BY <1>01, <1>1, <1>2, <1>10, <1>11

(* On a disk where no write fails half way, every step keeps the writer at *)
(* the end of the valid prefix, its offsets true, and what it holds and    *)
(* what was synced in the file.                                            *)
LEMMA WholeStep ==
  ASSUME LogInv, [Next]_vars
  PROVE  LogWhole'
<1>0. LogTypes /\ LogBounded /\ LogPhases /\ LogWhole
  BY DEF LogInv
<1>01. /\ next \in Nat /\ Len(file) \in Nat /\ Len(synced) \in Nat /\ cur.n \in Nat
       /\ cur.len \in Nat /\ file \in Seq(Cells) /\ synced \in Seq(Cells) /\ end \in Nat
  BY <1>0, LenProperties, SMT DEF LogTypes
<1>02. disk' = disk
  BY DEF Next, OpenFresh, OpenFreshFails, SyncHeader, OpenExisting, AppendHeader,
         AppendPayload, HeaderFails, PayloadFails, Sync, Kill, PowerLoss, PowerLossTears, vars
<1>03. file' \in Seq(Cells) /\ synced' \in Seq(Cells)
  BY TypesStep DEF LogTypes
<1> DEFINE Ends == /\ pc = "open" => end = Len(file) /\ end = ScanEnd(file)
                   /\ pc = "payload" => Len(file) = end + 1 /\ ScanEnd(SubSeq(file, 1, end)) = end
           Holds == held \subseteq Range(Nums(file)) /\ \A n \in acked : Settled(n)
<1> SUFFICES ASSUME disk # "full"
             PROVE  Ends' /\ OffsetsHold(file)' /\ OffsetsHold(synced)' /\ Holds'
  BY <1>02 DEF LogWhole
<1>04. Ends /\ OffsetsHold(file) /\ OffsetsHold(synced) /\ Holds
  BY <1>0 DEF LogWhole
<1>05. ASSUME NEW n, n \in acked
       PROVE  Settled(n) /\ n \in Range(Nums(file))
  BY <1>01, <1>04, <1>05, SettledFound
<1>1. CASE OpenFresh
  <2>1. acked = {}
    <3>1. Nums(file) = <<>>
      BY <1>1, <1>01, ScanOfNothing, Zenon DEF OpenFresh
    <3>2. Range(<<>>) = {}
      BY DEF Range
    <3> QED
      BY <1>05, <3>1, <3>2
  <2>2. file' = <<Magic>> /\ pc' = "header" /\ synced' = synced /\ offs' = offs /\ acked' = acked
        /\ held' = held /\ held = {}
    <3>1. held \subseteq Range(Nums(file)) /\ Nums(file) = <<>>
      BY <1>04, <1>01, <1>1, ScanOfNothing, Zenon DEF OpenFresh
    <3>2. Range(<<>>) = {}
      BY DEF Range
    <3> QED
      BY <1>1, <3>1, <3>2 DEF OpenFresh
  <2>3. OffsetsHold(file)' /\ OffsetsHold(synced)'
    BY <1>04, <2>2, CellKinds, SMTT(30) DEF OffsetsHold
  <2> QED
    BY <2>1, <2>2, <2>3
<1>2. CASE SyncHeader
  <2>1. /\ file = <<Magic>> /\ file' = file /\ synced' = file /\ end' = 1 /\ pc' = "open"
        /\ offs' = offs /\ held' = held /\ acked' = acked
    BY <1>0, <1>2 DEF SyncHeader, LogPhases, HEADER_LEN
  <2>2. Nums(file) = <<>> /\ ScanEnd(file) = 1 /\ Len(file) = 1 /\ Range(<<>>) = {}
    <3>1. Len(file) = 1
      BY <2>1
    <3>2. Range(<<>>) = {}
      BY DEF Range
    <3> QED
      BY <1>01, <3>1, <3>2, ScanOfHeader
  <2>3. held = {} /\ acked = {}
    BY <1>04, <1>05, <2>2
  <2>4. OffsetsHold(file)' /\ OffsetsHold(synced)'
    BY <1>04, <2>1 DEF OffsetsHold
  <2>5. Ends'
    BY <2>1, <2>2
  <2> QED
    BY <2>1, <2>3, <2>4, <2>5
<1>3. CASE OpenExisting
  <2>1. /\ ScanEnd(file) \in 1..Len(file) /\ Len(file') = ScanEnd(file) /\ end' = ScanEnd(file)
        /\ \A i \in 1..Len(file') : file'[i] = file[i]
        /\ Nums(file') = Nums(file) /\ ScanEnd(file') = ScanEnd(file)
        /\ Len(synced') \in Nat /\ Len(synced') <= Len(synced)
        /\ Len(synced') = Len(synced) \/ Len(synced') = ScanEnd(file)
        /\ \A i \in 1..Len(synced') : synced'[i] = synced[i]
        /\ held' = Range(Nums(file)) /\ pc' = "open" /\ offs' = offs /\ acked' = acked
    BY <1>3, TailCut
  <2>2. Ends'
    BY <2>1
  <2>3. OffsetsHold(file)' /\ OffsetsHold(synced)'
    <3>1. \A i \in 1..Len(file') : i \in 1..Len(file)
      BY <1>01, <2>1
    <3>2. \A i \in 1..Len(synced') : i \in 1..Len(synced)
      BY <1>01, <2>1
    <3>3. OffsetsHold(file)'
      BY <1>04, <2>1, <3>1 DEF OffsetsHold
    <3>4. OffsetsHold(synced)'
      BY <1>04, <2>1, <3>2, SMTT(30) DEF OffsetsHold
    <3> QED
      BY <3>3, <3>4
  <2>4. ASSUME NEW n, n \in acked
        PROVE  Settled(n)'
    <3> DEFINE e == ScanEnd(file)
    <3>1. PICK m \in 0..Len(file) : /\ m <= Len(synced) /\ \A i \in 1..m : file[i] = synced[i]
                                    /\ n \in Range(Nums(SubSeq(file, 1, m)))
      BY <1>05, <2>4 DEF Settled
    <3>2. e \in Nat /\ e \in 1..Len(file) /\ Len(file') = e
      BY <1>01, <2>1
    <3> HIDE DEF e
    <3>3. CASE m <= e
      <4>1. m \in Nat /\ m <= Len(file) /\ m <= Len(file') /\ m <= Len(synced')
        BY <1>01, <2>1, <3>1, <3>2, <3>3 DEF e
      <4>2. \A i \in 1..m : i \in 1..Len(file') /\ i \in 1..Len(synced')
        BY <2>1, <3>2, <4>1
      <4>3. \A i \in 1..m : file'[i] = file[i] /\ synced'[i] = file[i]
        BY <2>1, <3>1, <4>2
      <4>4. SubSeq(file', 1, m) = SubSeq(file, 1, m)
        BY <1>01, <1>03, <4>1, <4>3, SameBeginning, SMTT(30)
      <4>5. m \in 0..Len(file') /\ \A i \in 1..m : file'[i] = synced'[i]
        BY <3>2, <4>1, <4>3
      <4> QED
        BY <3>1, <4>1, <4>4, <4>5, Zenon DEF Settled
    <3>4. CASE ~(m <= e)
      <4>1. e <= Len(synced') /\ e \in 0..Len(file') /\ e <= Len(file')
        BY <1>01, <2>1, <3>1, <3>2, <3>4 DEF e
      <4>2. \A i \in 1..e : i \in 1..m /\ i \in 1..Len(file') /\ i \in 1..Len(synced')
        BY <1>01, <2>1, <3>1, <3>2, <3>4, <4>1
      <4>3. \A i \in 1..e : file'[i] = synced'[i]
        BY <2>1, <3>1, <4>2
      <4>4. SubSeq(file', 1, e) = file'
        BY <1>03, <3>2
      <4>5. n \in Range(Nums(SubSeq(file', 1, e)))
        BY <1>05, <2>1, <2>4, <4>4, Zenon
      <4> QED
        BY <4>1, <4>3, <4>5 DEF Settled
    <3> QED
      BY <3>3, <3>4
  <2> QED
    BY <2>1, <2>2, <2>3, <2>4
<1>4. CASE \E len \in Lens : AppendHeader(len)
  <2>1. PICK len \in Lens : AppendHeader(len)
    BY <1>4
  <2>2. /\ len \in Nat /\ next + 1 \in Nat
        /\ Len(file') = Len(file) + 1 /\ file'[Len(file) + 1] = RecordCell(next + 1, len)
        /\ \A i \in 1..Len(file) : file'[i] = file[i]
        /\ StartsWith(file', file)
        /\ offs'[next + 1] = Pending /\ \A n \in 1..next : offs'[n] = offs[n]
        /\ pc = "open" /\ pc' = "payload"
        /\ synced' = synced /\ end' = end /\ held' = held /\ acked' = acked
    BY <2>1, HeaderWritten
  <2>3. Ends'
    <3>1. end = Len(file) /\ end = ScanEnd(file)
      BY <1>04, <2>2
    <3>2. SubSeq(file', 1, end) = SubSeq(file, 1, Len(file)) /\ SubSeq(file, 1, Len(file)) = file
      <4>1. Len(file) <= Len(file) /\ Len(file) <= Len(file')
        BY <1>01, <2>2
      <4>2. SubSeq(file', 1, Len(file)) = SubSeq(file, 1, Len(file))
        BY <1>01, <1>03, <2>2, <4>1, SameBeginning, SMTT(30)
      <4>3. SubSeq(file, 1, Len(file)) = file
        BY <1>01
      <4> QED
        BY <3>1, <4>2, <4>3, Zenon
    <3> QED
      BY <2>2, <3>1, <3>2, Zenon
  <2>4. OffsetsHold(file)'
    <3> SUFFICES ASSUME NEW i \in 1..Len(file'), file'[i][1] = "record", offs'[file'[i][2]] >= 0
                 PROVE  offs'[file'[i][2]] = i
      BY DEF OffsetsHold
    <3>1. CASE i \in 1..Len(file)
      <4>1. file[i][2] \in 1..next /\ file'[i] = file[i]
        BY <1>0, <2>2, <3>1 DEF LogPhases, CellsKnown
      <4> QED
        BY <1>04, <2>2, <3>1, <4>1 DEF OffsetsHold
    <3>2. CASE i = Len(file) + 1
      <4>1. offs'[file'[i][2]] = -1
        BY <2>2, <3>2, CellKinds, SMTT(30) DEF Pending
      <4> QED
        BY <4>1
    <3> QED
      BY <1>01, <2>2, <3>1, <3>2, SMTT(30)
  <2>5. OffsetsHold(synced)'
    BY <1>0, <1>04, <2>2 DEF OffsetsHold, LogPhases, CellsKnown
  <2>6. held \subseteq Range(Nums(file'))
    BY <1>01, <1>03, <1>04, <2>2, LongerFinds, Zenon
  <2>7. ASSUME NEW n, n \in acked PROVE Settled(n)'
    <3>1. \A m \in Nat : m <= Len(file) => m <= Len(file') /\ \A i \in 1..m : i \in 1..Len(file)
      BY <1>01, <2>2, SMT
    <3> QED
      BY <1>01, <1>03, <1>05, <2>2, <2>7, <3>1, SettledStays
  <2> QED
    BY <2>2, <2>3, <2>4, <2>5, <2>6, <2>7
<1>5. CASE AppendPayload
  <2>1. end + 1 \in Int /\ end + 1 # Pending
    BY <1>01 DEF Pending
  <2>2. /\ Len(file') = Len(file) + cur.len
        /\ \A i \in 1..Len(file) : file'[i] = file[i]
        /\ \A i \in 1..Len(file') :
             i \in 1..Len(file) \/ (i - Len(file) \in 1..cur.len
                                     /\ file'[i] = <<"payload", cur.n, i - Len(file)>>)
        /\ StartsWith(file', file) /\ cur.n \in 1..next
        /\ offs'[cur.n] = end + 1 /\ \A n \in 1..next : n # cur.n => offs'[n] = offs[n]
    BY <1>01, <1>5, <2>1, PayloadWritten, Zenon DEF AppendPayload
  <2>3. /\ pc = "payload" /\ pc' = "open" /\ synced' = synced /\ end' = end + 1 + cur.len
        /\ held' = held \cup {cur.n} /\ acked' = acked
    BY <1>5 DEF AppendPayload
  <2>4. /\ Len(file') = end + 1 + cur.len /\ ScanEnd(file') = Len(file')
        /\ cur.n \in Range(Nums(file'))
    BY <1>5, RecordCompleted
  <2>5. Ends'
    BY <2>3, <2>4
  <2>6. OffsetsHold(file)'
    <3> SUFFICES ASSUME NEW i \in 1..Len(file'), file'[i][1] = "record", offs'[file'[i][2]] >= 0
                 PROVE  offs'[file'[i][2]] = i
      BY DEF OffsetsHold
    <3>1. i \in 1..Len(file)
      <4>1. \A n, l : <<"payload", n, l>>[1] # "record"
        OBVIOUS
      <4>2. ASSUME i \notin 1..Len(file) PROVE FALSE
        BY <2>2, <4>1, <4>2, SMT
      <4> QED
        BY <4>2
    <3>2. file'[i] = file[i] /\ file[i][2] \in 1..next
      BY <1>0, <2>2, <3>1 DEF LogPhases, CellsKnown
    <3>3. CASE file[i][2] = cur.n
      <4>1. i \notin 1..(Len(file) - 1)
        BY <1>0, <2>3, <3>2, <3>3 DEF LogPhases
      <4>2. i = Len(file) /\ Len(file) = end + 1
        BY <1>01, <1>04, <2>3, <3>1, <4>1
      <4> QED
        BY <2>2, <3>2, <3>3, <4>2
    <3>4. CASE file[i][2] # cur.n
      BY <1>04, <2>2, <3>1, <3>2, <3>4 DEF OffsetsHold
    <3> QED
      BY <3>3, <3>4
  <2>7. OffsetsHold(synced)'
    BY <1>0, <1>04, <2>2, <2>3 DEF OffsetsHold, LogPhases, CellsKnown, Writing
  <2>8. held' \subseteq Range(Nums(file'))
    <3>1. Range(Nums(file)) \subseteq Range(Nums(file'))
      BY <1>01, <1>03, <2>2, LongerFinds
    <3> QED
      BY <1>04, <2>3, <2>4, <3>1
  <2>9. ASSUME NEW n, n \in acked PROVE Settled(n)'
    <3>1. \A m \in Nat : m <= Len(file) => m <= Len(file') /\ \A i \in 1..m : i \in 1..Len(file)
      BY <1>01, <2>2, SMTT(30)
    <3> QED
      BY <1>01, <1>03, <1>05, <2>2, <2>3, <2>9, <3>1, SettledStays
  <2> QED
    BY <2>3, <2>5, <2>6, <2>7, <2>8, <2>9
<1>6. CASE Sync
  <2>1. /\ file' = file /\ synced' = file /\ acked' = acked \cup held /\ held' = held
        /\ end' = end /\ pc' = pc /\ offs' = offs
    BY <1>6 DEF Sync
  <2>2. Ends' /\ OffsetsHold(file)' /\ OffsetsHold(synced)'
    BY <1>04, <2>1 DEF OffsetsHold
  <2>3. ASSUME NEW n, n \in acked' PROVE Settled(n)'
    <3>1. n \in Range(Nums(file))
      BY <1>04, <1>05, <2>1, <2>3
    <3>2. SubSeq(file', 1, Len(file)) = file
      BY <1>01, <2>1
    <3>3. Len(file) \in 0..Len(file') /\ Len(file) <= Len(synced')
      BY <1>01, <2>1
    <3>4. \A i \in 1..Len(file) : file'[i] = synced'[i]
      BY <2>1
    <3>5. n \in Range(Nums(SubSeq(file', 1, Len(file))))
      BY <3>1, <3>2, Zenon
    <3> QED
      BY <3>3, <3>4, <3>5 DEF Settled
  <2> QED
    BY <1>04, <2>1, <2>2, <2>3
<1>7. CASE Kill
  <2>1. /\ file' = file /\ synced' = synced /\ acked' = acked /\ held' = {}
        /\ pc' = "closed" /\ offs' = offs
    BY <1>7 DEF Kill
  <2>2. Ends' /\ OffsetsHold(file)' /\ OffsetsHold(synced)'
    BY <1>04, <2>1 DEF OffsetsHold
  <2>3. \A n \in acked : Settled(n)'
    BY <1>04, <2>1 DEF Settled
  <2> QED
    BY <2>1, <2>2, <2>3
<1>8. CASE PowerLoss
  <2>1. /\ Len(file) <= Len(file') \/ Len(synced) <= Len(file')
        /\ \A i \in 1..Len(file') :
             \/ i <= Len(file) /\ file'[i] = file[i]
             \/ i <= Len(synced) /\ file'[i] = synced[i]
             \/ disk = "weak" /\ file'[i] = Zero
        /\ \A i \in 1..Len(file') :
             i <= Len(file) /\ i <= Len(synced) /\ file[i] = synced[i] => file'[i] = file[i]
    BY <1>01, <1>8, FileLost DEF PowerLoss
  <2>2. /\ synced' = file' /\ acked' = acked /\ held' = {}
        /\ pc' = "closed" /\ offs' = offs /\ Len(file') \in Nat
    BY <1>03, <1>8, LenProperties DEF PowerLoss
  <2>3. OffsetsHold(file)'
    <3> SUFFICES ASSUME NEW i \in 1..Len(file'), file'[i][1] = "record", offs[file'[i][2]] >= 0
                 PROVE  offs[file'[i][2]] = i
      BY <2>2 DEF OffsetsHold
    <3>1. (i <= Len(file) => i \in 1..Len(file)) /\ (i <= Len(synced) => i \in 1..Len(synced))
      BY <1>01
    <3>2. file'[i] # Zero
      BY CellKinds
    <3> QED
      BY <1>04, <2>1, <3>1, <3>2 DEF OffsetsHold
  <2>4. ASSUME NEW n, n \in acked PROVE Settled(n)'
    <3>1. ASSUME NEW m \in Nat, m <= Len(file), m <= Len(synced), \A i \in 1..m : file[i] = synced[i]
          PROVE  /\ m <= Len(file') /\ m <= Len(synced')
                 /\ \A i \in 1..m : file'[i] = file[i] /\ synced'[i] = file[i]
      <4>1. m <= Len(file')
        BY <1>01, <2>1, <2>2, <3>1
      <4>2. \A i \in 1..m : i \in 1..Len(file') /\ i <= Len(file) /\ i <= Len(synced)
        BY <1>01, <2>2, <3>1, <4>1
      <4> QED
        BY <2>1, <2>2, <3>1, <4>1, <4>2
    <3> QED
      BY <1>01, <1>03, <1>05, <2>4, <3>1, SettledStays
  <2>5. OffsetsHold(synced)'
    BY <2>2, <2>3 DEF OffsetsHold
  <2> QED
    BY <2>2, <2>3, <2>4, <2>5
<1>9. CASE PowerLossTears
  <2>1. /\ file' = <<Junk>> /\ synced' = <<Junk>> /\ Len(synced) = 0
        /\ acked' = acked /\ held' = {} /\ pc' = "closed"
    BY <1>9 DEF PowerLossTears
  <2>2. OffsetsHold(file)' /\ OffsetsHold(synced)'
    BY <2>1, CellKinds, SMTT(30) DEF OffsetsHold
  <2>3. Len(file') = 1
    BY <2>1
  <2>4. ASSUME NEW n, n \in acked PROVE Settled(n)'
    <3>1. ASSUME NEW m \in Nat, m <= Len(synced)
          PROVE  m = 0 /\ m <= Len(file') /\ m <= Len(synced')
      BY <2>1, <2>3, <3>1
    <3> QED
      BY <1>01, <1>03, <1>05, <2>4, <3>1, SettledStays
  <2> QED
    BY <2>1, <2>2, <2>4
<1>10. CASE UNCHANGED vars
  BY <1>04, <1>10 DEF vars, OffsetsHold, Settled
<1> QED
  BY <1>1, <1>2, <1>3, <1>4, <1>5, <1>6, <1>7, <1>8, <1>9, <1>10
  DEF Next, OpenFreshFails, HeaderFails, PayloadFails

(* The invariant holds in the first state and after every step. *)
THEOREM LogInvariant == Spec => []LogInv
<1>1. Init => LogInv
  <2> SUFFICES ASSUME Init PROVE LogInv
    OBVIOUS
  <2>1. LogTypes
    <3>1. rooted \in BOOLEAN
      BY DEF Init
    <3> QED
      BY <3>1, WalAssumption, SMT DEF Init, LogTypes
  <2>2. LogBounded /\ LogPhases /\ LogRooted /\ LogOrdered
    <3>1. \A a, b \in Nat : HEADER_LEN + a * (1 + b) \in Nat
      BY DEF HEADER_LEN
    <3>2. Room(0) \in Nat
      BY <3>1, WalAssumption DEF Room
    <3> QED
      BY <3>2 DEF Init, LogBounded, LogPhases, CellsKnown, LogRooted, LogOrdered, StartsWith, CellsOrdered
  <2>3. LogWhole
    BY DEF Init, LogWhole, OffsetsHold
  <2> QED
    BY <2>1, <2>2, <2>3 DEF LogInv
<1>2. LogInv /\ [Next]_vars => LogInv'
  BY TypesStep, BoundsStep, PhasesStep, WholeStep, OrderStep, RootedStep DEF LogInv
<1> QED
  BY <1>1, <1>2, PTL DEF Spec

(* What a scan finds are the records of appends that did not fail, each    *)
(* once and in their order.                                                *)
LEMMA FoundAreAppended ==
  ASSUME LogInv, disk # "weak"
  PROVE  /\ Nums(file) \in Seq(Nat)
         /\ \A i \in 1..Len(Nums(file)) :
              Nums(file)[i] \in 1..next /\ offs[Nums(file)[i]] # Failed
         /\ \A i, j \in 1..Len(Nums(file)) : i < j => Nums(file)[i] < Nums(file)[j]
<1>0. file \in Seq(Cells) /\ next \in Nat /\ CellsKnown(file) /\ CellsOrdered(file)
  BY DEF LogInv, LogTypes, LogPhases, LogOrdered
<1>01. Len(file) \in Nat
  BY <1>0, LenProperties
<1>1. CASE Len(file) = 0
  <2>0. <<>> \in Seq(Nat) /\ Len(<<>>) = 0
    OBVIOUS
  <2>1. Nums(file) = <<>> /\ <<>> \in Seq(Nat)
    BY <1>0, <1>1, <2>0, ScanOfNothing, Zenon
  <2> QED
    BY <2>1
<1>2. CASE Len(file) > 0
  <2>1. PICK c : /\ Complete(file, HEADER_LEN, c) /\ Len(c) \in Nat \ {0}
                 /\ Len(Nums(file)) = Len(c) - 1
                 /\ Nums(file) = [i \in 1..(Len(c) - 1) |-> RecordNo(file, c[i])]
                 /\ Nums(file) \in Seq(Nat)
                 /\ \A i \in 1..(Len(c) - 1) : c[i] \in Nat /\ Whole(file, c[i])
    BY <1>0, <1>2, ScanOf, Zenon
  <2>2. ASSUME NEW i \in 1..(Len(c) - 1)
        PROVE  /\ c[i] \in Nat /\ c[i] + 1 \in 1..Len(file)
               /\ file[c[i] + 1][1] = "record" /\ file[c[i] + 1][2] = Nums(file)[i]
               /\ Nums(file)[i] \in 1..next /\ offs[Nums(file)[i]] # Failed
    <3> DEFINE p == c[i]
               n == RecordNo(file, p)
               l == RecordLen(file, p)
    <3>1. p \in Nat /\ Whole(file, p) /\ Nums(file)[i] = n
      BY <2>1
    <3> HIDE DEF p
    <3>2. /\ IsHeader(file, p) /\ Jump(file, p) <= Len(file) /\ n \in Nat /\ l \in Nat
          /\ \A k \in 1..l : file[p + 1 + k] = <<"payload", n, k>>
      BY <1>0, <3>1, WholeIs, HeaderIs
    <3>3. p + 1 \in 1..Len(file)
      BY <1>01, <3>1, <3>2 DEF IsHeader
    <3>4. file[p + 1] # Zero
      BY <1>0, <3>3 DEF CellsOrdered
    <3>5. file[p + 1] = RecordCell(n, l)
      BY <1>0, <3>1, <3>2, <3>4, HeaderIs
    <3>6. file[p + 1][1] = "record" /\ file[p + 1][2] = n /\ file[p + 1][3] = l
      BY <3>5 DEF RecordCell
    <3>7. n \in 1..next
      BY <1>0, <3>3, <3>6 DEF CellsKnown
    <3>8. ASSUME offs[n] = Failed PROVE FALSE
      <4>1. l > 0 /\ \A j \in 1..Len(file) : file[j] # <<"payload", n, l>>
        BY <1>0, <3>3, <3>6, <3>8 DEF CellsOrdered
      <4>2. l \in 1..l /\ p + 1 + l \in 1..Len(file)
        BY <1>01, <3>1, <3>2, <4>1, SMT DEF Jump
      <4> QED
        BY <3>2, <4>1, <4>2
    <3> HIDE DEF n, l
    <3> QED
      BY <3>1, <3>3, <3>6, <3>7, <3>8 DEF p
  <2>3. ASSUME NEW i \in 1..(Len(c) - 1), NEW j \in 1..(Len(c) - 1), i < j
        PROVE  Nums(file)[i] < Nums(file)[j]
    <3>1. c[i] < c[j]
      <4>1. i \in 1..Len(c) /\ j \in 1..Len(c)
        BY <2>1
      <4> QED
        BY <2>1, <2>3, <4>1 DEF Complete, Chain
    <3>2. c[i] + 1 < c[j] + 1
      BY <2>2, <3>1, SMTT(30)
    <3> QED
      BY <1>0, <2>2, <3>2, Zenon DEF CellsOrdered
  <2> QED
    BY <2>1, <2>2, <2>3
<1> QED
  BY <1>01, <1>1, <1>2

(* The write-ahead log is sound (wal.rs): after any sequence of appends,   *)
(* syncs, kills, power losses and reopenings a scan finds everything that  *)
(* was synced and nothing whose append failed, in order; append returns    *)
(* true offsets and writes where a scan will look; once a sync succeeded   *)
(* the file can be opened.                                                 *)
THEOREM LogIsSound == Spec => []LogSound
<1>1. LogInv => LogSound
  <2> SUFFICES ASSUME LogInv PROVE LogSound
    OBVIOUS
  <2>0. LogTypes /\ LogBounded /\ LogWhole /\ LogRooted
    BY DEF LogInv
  <2>1. TypeOK
    <3>1. end \in 0..(HEADER_LEN + MaxAppends * (1 + MaxPayload))
      <4>1. \A a, b, d \in Nat : a <= b => a * (1 + d) <= b * (1 + d) /\ a * (1 + d) \in Nat
                                            /\ b * (1 + d) \in Nat
        OBVIOUS
      <4> DEFINE x == next * (1 + MaxPayload)
                 y == MaxAppends * (1 + MaxPayload)
      <4>2. x <= y /\ x \in Nat /\ y \in Nat
        <5>1. next \in Nat /\ MaxAppends \in Nat /\ MaxPayload \in Nat /\ next <= MaxAppends
          BY <2>0, WalAssumption, SMT DEF LogTypes
        <5> QED
          BY <4>1, <5>1, Zenon
      <4>3. end \in Nat /\ end <= HEADER_LEN + x
        BY <2>0 DEF LogTypes, LogBounded, Room
      <4> HIDE DEF x, y
      <4>4. end \in 0..(HEADER_LEN + y)
        BY <4>2, <4>3 DEF HEADER_LEN
      <4> QED
        BY <4>4 DEF y
    <3> QED
      BY <2>0, <3>1 DEF LogTypes, TypeOK
  <2>2. SyncedSurvives
    BY <2>0, SettledFound DEF SyncedSurvives, LogWhole, LogTypes, Nums
  <2>3. RecoveredWereAppended
    <3> SUFFICES ASSUME disk # "weak"
                 PROVE  /\ \A i \in DOMAIN Nums(file) :
                             Nums(file)[i] \in 1..next /\ offs[Nums(file)[i]] # Failed
                        /\ \A i, j \in DOMAIN Nums(file) : i < j => Nums(file)[i] < Nums(file)[j]
      BY DEF RecoveredWereAppended, Nums
    <3>1. DOMAIN Nums(file) = 1..Len(Nums(file))
      BY FoundAreAppended, LenProperties
    <3> QED
      BY <3>1, FoundAreAppended
  <2>4. OffsetsAreTrue
    <3> SUFFICES ASSUME disk # "full", NEW n \in held \cap 1..next, offs[n] >= 0
                 PROVE  offs[n] <= Len(file) /\ file[offs[n]][1] = "record" /\ file[offs[n]][2] = n
      BY DEF OffsetsAreTrue
    <3>1. n \in Range(Nums(file)) /\ OffsetsHold(file) /\ file \in Seq(Cells) /\ n # 0
      BY <2>0 DEF LogWhole, LogTypes
    <3>2. PICK p \in Nat : /\ p + 1 \in 1..Len(file)
                           /\ \/ file[p + 1] = Zero /\ n = 0
                              \/ file[p + 1] = RecordCell(n, RecordLen(file, p))
      BY <3>1, NumIs, Zenon
    <3>3. file[p + 1][1] = "record" /\ file[p + 1][2] = n
      BY <3>1, <3>2 DEF RecordCell
    <3>4. offs[n] = p + 1
      BY <3>1, <3>2, <3>3 DEF OffsetsHold
    <3> QED
      BY <3>2, <3>3, <3>4
  <2>5. WriterAtEnd
    BY <2>0 DEF LogWhole, WriterAtEnd
  <2>6. Reopens
    <3>1. Len(<<>>) = 0
      OBVIOUS
    <3> QED
      BY <2>0, <3>1 DEF LogRooted, Reopens
  <2> QED
    BY <2>1, <2>2, <2>3, <2>4, <2>5, <2>6 DEF LogSound
<1> QED
  BY <1>1, LogInvariant, PTL

-----------------------------------------------------------------------------
(* The log of wal.rs implements DurableLog.                                *)

(* A record that is written behind the file is found next, or nothing new  *)
(* is.                                                                     *)
LEMMA AppendHeaderRefines ==
  ASSUME LogInv, disk # "weak", NEW len \in Lens, AppendHeader(len)
  PROVE  \/ Nums(file') = Nums(file)
         \/ /\ Nums(file') = Append(Nums(file), next + 1)
            /\ next + 1 \in 1..MaxAppends /\ next + 1 \notin Range(Nums(file))
<1>0. LogTypes /\ LogPhases
  BY DEF LogInv
<1>1. /\ len \in Nat /\ next + 1 \in Nat /\ file' \in Seq(Cells)
      /\ Len(file') = Len(file) + 1 /\ file'[Len(file) + 1] = RecordCell(next + 1, len)
      /\ StartsWith(file', file) /\ pc = "open"
  BY HeaderWritten
<1>2. file \in Seq(Cells) /\ Len(file) > 0 /\ Len(file) \in Nat /\ next \in Nat
  BY <1>0, <1>1, LenProperties DEF LogTypes, LogPhases
<1> DEFINE e == ScanEnd(file)
<1>3. /\ e \in 1..Len(file)
      /\ ~Whole(file', e) => Nums(file') = Nums(file)
      /\ Whole(file', e) => Jump(file', e) > Len(file)
      /\ Whole(file', e) /\ Jump(file', e) = Len(file')
           => Nums(file') = Append(Nums(file), RecordNo(file', e))
  BY <1>1, <1>2, ScanOfGrown
<1> HIDE DEF e
<1>4. CASE Whole(file', e)
  <2>0. e \in Nat
    BY <1>2, <1>3
  <2>1. /\ RecordLen(file', e) \in Nat /\ Jump(file', e) \in Nat /\ Jump(file', e) <= Len(file')
        /\ \A k \in 1..RecordLen(file', e) : file'[e + 1 + k] = <<"payload", RecordNo(file', e), k>>
    BY <1>1, <1>4, <2>0, WholeIs, HeaderIs, JumpIs
  <2>2. Jump(file', e) = Len(file')
    BY <1>1, <1>2, <1>3, <1>4, <2>1, SMT
  <2>3. e = Len(file)
    <3>1. ASSUME RecordLen(file', e) > 0 PROVE FALSE
      <4>1. RecordLen(file', e) \in 1..RecordLen(file', e)
        BY <2>1, <3>1
      <4>2. e + 1 + RecordLen(file', e) = Len(file) + 1
        BY <1>1, <2>2 DEF Jump
      <4>3. file'[Len(file) + 1] = <<"payload", RecordNo(file', e), RecordLen(file', e)>>
        BY <2>1, <4>1, <4>2
      <4> QED
        BY <1>1, <4>3 DEF RecordCell
    <3> QED
      BY <1>1, <1>2, <2>0, <2>1, <2>2, <3>1 DEF Jump
  <2>4. RecordNo(file', e) = next + 1
    BY <1>1, <2>3 DEF RecordNo, RecordCell, Zero
  <2>5. next + 1 \in 1..MaxAppends
    BY <1>2, WalAssumption DEF AppendHeader
  <2>6. next + 1 \notin Range(Nums(file))
    <3>1. Range(Nums(file)) \subseteq 0..next
      BY <1>0, <1>2, NumsKnown DEF LogPhases
    <3> QED
      BY <1>2, <3>1
  <2> QED
    BY <1>3, <1>4, <2>2, <2>4, <2>5, <2>6
<1> QED
  BY <1>3, <1>4

(* A payload makes the record before it whole, or nothing. *)
LEMMA PayloadRefines ==
  ASSUME LogInv, disk # "weak", pc = "payload", NEW k \in Nat, NEW v \in Int, k <= cur.len,
         file' = file \o PayloadCells(cur.n, k), offs' = [offs EXCEPT ![cur.n] = v]
  PROVE  \/ Nums(file') = Nums(file)
         \/ /\ Nums(file') = Append(Nums(file), cur.n)
            /\ cur.n \in 1..MaxAppends /\ cur.n \notin Range(Nums(file))
<1>0. LogTypes /\ LogPhases /\ CellsOrdered(file)
  BY DEF LogInv, LogOrdered
<1>1. /\ file' \in Seq(Cells) /\ Len(file') = Len(file) + k
      /\ \A i \in 1..Len(file) : file'[i] = file[i]
      /\ \A i \in 1..Len(file') :
           i \in 1..Len(file) \/ (i - Len(file) \in 1..k
                                   /\ file'[i] = <<"payload", cur.n, i - Len(file)>>)
      /\ StartsWith(file', file) /\ cur.n \in 1..next
  BY PayloadWritten, Zenon
<1>2. /\ file \in Seq(Cells) /\ Len(file) > 0 /\ Len(file) \in Nat /\ next \in Nat
      /\ cur.n \in Nat /\ cur.len \in Nat
      /\ file[Len(file)] = RecordCell(cur.n, cur.len)
  BY <1>0, LenProperties, SMTT(30) DEF LogTypes, LogPhases
<1> DEFINE e == ScanEnd(file)
<1>3. /\ e \in 1..Len(file)
      /\ ~Whole(file', e) => Nums(file') = Nums(file)
      /\ Whole(file', e) => Jump(file', e) > Len(file)
      /\ Whole(file', e) /\ Jump(file', e) = Len(file')
           => Nums(file') = Append(Nums(file), RecordNo(file', e))
  BY <1>1, <1>2, ScanOfGrown, Zenon
<1>4. CASE Whole(file', e)
  <2>0. e \in Nat
    BY <1>2, <1>3
  <2> HIDE DEF e
  <2>1. /\ RecordLen(file', e) \in Nat /\ Jump(file', e) \in Nat /\ Jump(file', e) <= Len(file')
        /\ IsHeader(file', e)
        /\ \A h \in 1..RecordLen(file', e) : file'[e + 1 + h] = <<"payload", RecordNo(file', e), h>>
    BY <1>1, <1>4, <2>0, WholeIs, HeaderIs, JumpIs, Zenon
  <2>2. e + 1 = Len(file)
    <3>1. ASSUME e = Len(file) PROVE FALSE
      <4> DEFINE i == e + 1
      <4>1. i \in 1..Len(file') /\ i \notin 1..Len(file)
        BY <1>1, <1>2, <2>1, <3>1, SMTT(30) DEF IsHeader
      <4>2. file'[i][1] \in {"record", "zero"}
        BY <2>1, Zenon DEF IsHeader
      <4> HIDE DEF i
      <4>3. file'[i] = <<"payload", cur.n, i - Len(file)>>
        BY <1>1, <4>1, Zenon
      <4> QED
        BY <4>2, <4>3
    <3>2. ASSUME e + 1 < Len(file) PROVE FALSE
      <4> DEFINE h == Len(file) - (e + 1)
      <4>1. h \in 1..RecordLen(file', e) /\ e + 1 + h = Len(file) /\ Len(file) \in 1..Len(file)
        BY <1>2, <1>3, <1>4, <2>0, <2>1, <3>2, SMT DEF Jump
      <4>2. file'[Len(file)] = <<"payload", RecordNo(file', e), h>>
        BY <2>1, <4>1
      <4>3. file'[Len(file)] = RecordCell(cur.n, cur.len)
        BY <1>1, <1>2, <4>1
      <4> HIDE DEF h
      <4>4. file'[Len(file)][1] = "payload"
        BY <4>2
      <4>5. file'[Len(file)][1] = "record"
        BY <4>3 DEF RecordCell
      <4> QED
        BY <4>4, <4>5, Zenon
    <3> QED
      BY <1>2, <1>3, <2>0, <3>1, <3>2
  <2>3. file'[e + 1] = RecordCell(cur.n, cur.len)
    BY <1>1, <1>2, <2>2
  <2>4. RecordNo(file', e) = cur.n /\ RecordLen(file', e) = cur.len
    BY <2>3 DEF RecordNo, RecordLen, RecordCell, Zero
  <2>5. Jump(file', e) = Len(file')
    <3>1. Jump(file', e) = Len(file) + cur.len
      BY <1>2, <2>0, <2>2, <2>4 DEF Jump
    <3> QED
      BY <1>1, <1>2, <2>1, <3>1, SMTT(30)
  <2>6. cur.n \in 1..MaxAppends
    BY <1>0, <1>1, WalAssumption, SMTT(30) DEF LogTypes
  <2>7. cur.n \notin Range(Nums(file))
    <3> SUFFICES ASSUME cur.n \in Range(Nums(file)) PROVE FALSE
      OBVIOUS
    <3>1. PICK p \in Nat : /\ p < e /\ p + 1 \in 1..Len(file)
                           /\ \/ file[p + 1] = Zero /\ cur.n = 0
                              \/ file[p + 1] = RecordCell(cur.n, RecordLen(file, p))
      BY <1>2, NumIs, Zenon DEF e
    <3>2. file[p + 1][1] = "record" /\ file[p + 1][2] = cur.n
      BY <1>0, <3>1 DEF RecordCell, CellsOrdered
    <3>3. p + 1 \in 1..(Len(file) - 1)
      BY <1>2, <2>0, <2>2, <3>1
    <3> QED
      BY <1>0, <3>2, <3>3 DEF LogPhases
  <2> QED
    BY <1>3, <1>4, <2>4, <2>5, <2>6, <2>7
<1> QED
  BY <1>3, <1>4

(* Every step of the log is one of DurableLog, or none. *)
LEMMA LogRefines ==
  ASSUME LogInv, [Next]_vars
  PROVE  [Promise!Next]_<<View(file), Len(View(synced))>>
<1>0. LogTypes /\ LogPhases /\ LogOrdered
  BY DEF LogInv
<1>01. /\ file \in Seq(Cells) /\ synced \in Seq(Cells) /\ file' \in Seq(Cells)
       /\ synced' \in Seq(Cells) /\ Len(file) \in Nat /\ Len(synced) \in Nat
  BY <1>0, TypesStep, LenProperties DEF LogTypes
<1>02. disk' = disk
  BY DEF Next, OpenFresh, OpenFreshFails, SyncHeader, OpenExisting, AppendHeader,
         AppendPayload, HeaderFails, PayloadFails, Sync, Kill, PowerLoss, PowerLossTears, vars
<1>1. CASE disk = "weak"
  BY <1>02, <1>1 DEF View
<1>2. CASE disk # "weak"
  <2>0. /\ View(file) = Nums(file) /\ View(file)' = Nums(file')
        /\ Len(View(synced)) = Len(Nums(synced)) /\ Len(View(synced))' = Len(Nums(synced'))
    BY <1>02, <1>2 DEF View, Nums
  <2>01. StartsWith(file, synced)
    BY <1>0, <1>2 DEF LogOrdered
  <2>02. /\ Nums(file) \in Seq(Nat) /\ Nums(synced) \in Seq(Nat)
         /\ Len(Nums(file)) \in Nat /\ Len(Nums(synced)) \in Nat
         /\ Len(Nums(synced)) <= Len(Nums(file))
    BY <1>01, <2>01, ScanOfLonger, LenProperties
  <2>1. ASSUME NEW n \in 1..MaxAppends, n \notin Range(Nums(file)),
               Nums(file') = Append(Nums(file), n), synced' = synced
        PROVE  Promise!AppendRecord
    BY <2>0, <2>1 DEF Promise!AppendRecord, Promise!Range, Range
  <2>2. ASSUME Nums(file') = Nums(file), Len(Nums(synced')) = Len(Nums(synced))
        PROVE  UNCHANGED <<View(file), Len(View(synced))>>
    BY <2>0, <2>2
  <2>3. CASE OpenFresh
    <3>1. Nums(file) = <<>> /\ Nums(file') = <<>> /\ synced' = synced
      <4>1. file' = <<Magic>> /\ Len(<<Magic>>) = 1 /\ file = <<>> /\ synced' = synced
        BY <2>3 DEF OpenFresh
      <4> QED
        BY <1>01, <4>1, ScanOfNothing, ScanOfHeader, Zenon
    <3> QED
      BY <2>2, <3>1
  <2>4. CASE OpenFreshFails
    <3>1. Nums(file) = <<>> /\ Nums(file') = <<>> /\ synced' = synced
      <4>1. file = <<>> /\ (file' = <<>> \/ file' = <<Junk>>) /\ synced' = synced
        BY <2>4 DEF OpenFreshFails
      <4>2. Len(<<Junk>>) = 1 /\ Len(<<>>) = 0
        OBVIOUS
      <4> QED
        BY <1>01, <4>1, <4>2, ScanOfNothing, ScanOfHeader, Zenon
    <3> QED
      BY <2>2, <3>1
  <2>5. CASE SyncHeader
    <3>1. file' = file /\ synced' = file /\ Len(file) = 1
      BY <1>0, <2>5 DEF SyncHeader, LogPhases
    <3>2. Nums(file) = <<>> /\ Len(<<>>) = 0
      BY <1>01, <3>1, ScanOfHeader
    <3>3. Len(Nums(synced)) = 0
      BY <2>02, <3>2
    <3> QED
      BY <2>2, <3>1, <3>2, <3>3
  <2>6. CASE OpenExisting
    <3>1. /\ ScanEnd(file) \in 1..Len(file) /\ Len(file') = ScanEnd(file)
          /\ \A i \in 1..Len(file') : file'[i] = file[i]
          /\ Nums(file') = Nums(file) /\ Len(synced') \in Nat
          /\ Len(synced') = Len(synced) \/ Len(synced') = ScanEnd(file)
          /\ \A i \in 1..Len(synced') : synced'[i] = synced[i]
          /\ StartsWith(synced, synced')
      BY <2>6, TailCut
    <3>2. CASE Len(synced') = Len(synced)
      <4>1. synced' = synced
        BY <1>01, <3>1, <3>2, SeqEqual
      <4> QED
        BY <2>2, <3>1, <4>1
    <3>3. CASE Len(synced') = ScanEnd(file)
      <4>1. synced' = file'
        <5>1. \A i \in 1..Len(synced') : i \in 1..Len(synced) /\ i \in 1..Len(file')
          BY <1>01, <3>1, <3>3 DEF StartsWith
        <5>2. \A i \in 1..Len(synced') : synced'[i] = file'[i]
          BY <2>01, <3>1, <5>1 DEF StartsWith
        <5> QED
          BY <1>01, <3>1, <3>3, <5>2, SeqEqual
      <4>2. Len(Nums(synced')) <= Len(Nums(synced))
        BY <1>01, <3>1, ScanOfLonger
      <4>3. Len(Nums(synced')) = Len(Nums(file))
        BY <3>1, <4>1
      <4> QED
        BY <2>02, <2>2, <3>1, <4>2, <4>3
    <3> QED
      BY <3>1, <3>2, <3>3
  <2>7. CASE \E len \in Lens : AppendHeader(len)
    <3>1. PICK len \in Lens : AppendHeader(len)
      BY <2>7
    <3>2. synced' = synced
      BY <3>1 DEF AppendHeader
    <3>3. \/ Nums(file') = Nums(file)
          \/ /\ Nums(file') = Append(Nums(file), next + 1)
             /\ next + 1 \in 1..MaxAppends /\ next + 1 \notin Range(Nums(file))
      BY <1>2, <3>1, AppendHeaderRefines
    <3> QED
      BY <2>1, <2>2, <3>2, <3>3 DEF Promise!Next
  <2>8. CASE AppendPayload \/ PayloadFails
    <3>1. /\ pc = "payload" /\ synced' = synced /\ cur.len \in Nat /\ end + 1 \in Int /\ Failed \in Int
          /\ cur.len <= cur.len /\ \A k \in 0..(cur.len - 1) : k \in Nat /\ k <= cur.len
      BY <1>0, <2>8, SMTT(30) DEF LogTypes, AppendPayload, PayloadFails, Failed
    <3>2. PICK k \in Nat, v \in Int :
            /\ k <= cur.len /\ file' = file \o PayloadCells(cur.n, k)
            /\ offs' = [offs EXCEPT ![cur.n] = v]
      BY <2>8, <3>1, Zenon DEF AppendPayload, PayloadFails
    <3>3. \/ Nums(file') = Nums(file)
          \/ /\ Nums(file') = Append(Nums(file), cur.n)
             /\ cur.n \in 1..MaxAppends /\ cur.n \notin Range(Nums(file))
      BY <1>2, <3>1, <3>2, PayloadRefines, Zenon
    <3> QED
      BY <2>1, <2>2, <3>1, <3>3 DEF Promise!Next
  <2>9. CASE HeaderFails
    <3>1. /\ StartsWith(file', file) /\ Len(file') <= Len(file) + 1 /\ Len(file') \in Nat
          /\ \A i \in 1..Len(file') : (i \in 1..Len(file) /\ file'[i] = file[i]) \/ file'[i] = Junk
      BY <2>9, JunkWritten
    <3>2. Len(file) > 0 /\ synced' = synced
      BY <1>0, <2>9 DEF HeaderFails, LogPhases
    <3> DEFINE e == ScanEnd(file)
    <3>3. /\ e \in 1..Len(file)
          /\ ~Whole(file', e) => Nums(file') = Nums(file)
          /\ Whole(file', e) => Jump(file', e) > Len(file)
      BY <1>01, <3>1, <3>2, ScanOfGrown
    <3> HIDE DEF e
    <3>4. ASSUME Whole(file', e) PROVE FALSE
      <4>0. e \in Nat
        BY <1>01, <3>3
      <4>1. /\ RecordLen(file', e) \in Nat /\ Jump(file', e) \in Nat /\ Jump(file', e) <= Len(file')
            /\ IsHeader(file', e)
            /\ \A h \in 1..RecordLen(file', e) : file'[e + 1 + h] = <<"payload", RecordNo(file', e), h>>
        BY <1>01, <3>4, <4>0, WholeIs, HeaderIs, JumpIs
      <4>2. Jump(file', e) = Len(file) + 1 /\ Len(file') = Len(file) + 1
        BY <1>01, <3>1, <3>3, <3>4, <4>1, SMT
      <4>3. Len(file) + 1 \in 1..Len(file') /\ Len(file) + 1 \notin 1..Len(file)
        BY <1>01, <4>2
      <4>4. file'[Len(file) + 1] = Junk
        BY <3>1, <4>3
      <4>5. CASE RecordLen(file', e) = 0
        <5>1. e + 1 = Len(file) + 1
          BY <1>01, <4>0, <4>2, <4>5 DEF Jump
        <5>2. file'[e + 1] = Junk
          BY <4>4, <5>1
        <5> QED
          BY <4>1, <5>2 DEF IsHeader, Junk
      <4>6. CASE RecordLen(file', e) > 0
        <5>1. RecordLen(file', e) \in 1..RecordLen(file', e) /\ e + 1 + RecordLen(file', e) = Len(file) + 1
          BY <4>1, <4>2, <4>6 DEF Jump
        <5>2. file'[Len(file) + 1] = <<"payload", RecordNo(file', e), RecordLen(file', e)>>
          BY <4>1, <5>1
        <5> QED
          BY <4>4, <5>2 DEF Junk
      <4> QED
        BY <4>1, <4>5, <4>6
    <3> QED
      BY <2>2, <3>2, <3>3, <3>4
  <2>10. CASE Sync
    <3>1. file' = file /\ synced' = file
      BY <2>10 DEF Sync
    <3> QED
      BY <2>0, <3>1 DEF Promise!Next, Promise!Sync
  <2>11. CASE Kill
    BY <2>2, <2>11 DEF Kill
  <2>12. CASE PowerLoss
    <3>1. /\ Len(synced) <= Len(file') /\ Len(file') <= Len(file)
          /\ \A i \in 1..Len(file') : file'[i] = file[i]
          /\ synced' = file'
      BY <1>01, <1>2, <2>01, <2>12, FileLost DEF PowerLoss
    <3>2. StartsWith(file, file') /\ StartsWith(file', synced)
      <4>1. \A i \in 1..Len(synced) : i \in 1..Len(file')
        BY <1>01, <3>1, LenProperties, SMT
      <4> QED
        BY <2>01, <3>1, <4>1 DEF StartsWith
    <3> DEFINE k == Len(Nums(file'))
    <3>3. /\ Nums(file') \in Seq(Nat) /\ k <= Len(Nums(file)) /\ Len(Nums(synced)) <= k
          /\ \A i \in 1..k : Nums(file)[i] = Nums(file')[i]
      BY <1>01, <3>2, ScanOfLonger
    <3>4. k \in Nat
      BY <3>3, LenProperties
    <3> HIDE DEF k
    <3>5. k \in Len(Nums(synced))..Len(Nums(file))
      BY <2>02, <3>3, <3>4
    <3>6. Nums(file') = SubSeq(Nums(file), 1, k)
      <4> DEFINE t == SubSeq(Nums(file), 1, k)
      <4>1. k \in 0..Len(Nums(file)) /\ 1 \in 1..(Len(Nums(file)) + 1)
        BY <2>02, <3>3, <3>4
      <4>2. t \in Seq(Nat) /\ Len(t) = k /\ \A i \in 1..k : t[i] = Nums(file)[i]
        BY <2>02, <3>4, <4>1, SubSeqProperties, SMTT(30)
      <4> HIDE DEF t
      <4> QED
        BY <3>3, <4>2, SeqEqual DEF t, k
    <3> QED
      BY <2>0, <3>1, <3>5, <3>6, Zenon DEF Promise!Next, Promise!Crash, k
  <2>13. CASE PowerLossTears
    <3>1. /\ file' = <<Junk>> /\ synced' = <<Junk>> /\ Len(<<Junk>>) = 1
          /\ synced = <<>> /\ Len(<<>>) = 0
      BY <2>13 DEF PowerLossTears
    <3>2. Nums(file') = <<>> /\ Nums(synced') = <<>> /\ Nums(synced) = <<>>
      BY <1>01, <3>1, ScanOfNothing, ScanOfHeader, Zenon
    <3>3. SubSeq(Nums(file), 1, 0) = <<>> /\ 0 \in 0..Len(Nums(file))
      BY <2>02, EmptySeq
    <3> QED
      BY <2>0, <3>1, <3>2, <3>3 DEF Promise!Next, Promise!Crash
  <2>14. CASE UNCHANGED vars
    BY <2>2, <2>14 DEF vars
  <2> QED
    BY <2>3, <2>4, <2>5, <2>6, <2>7, <2>8, <2>9, <2>10, <2>11, <2>12, <2>13, <2>14 DEF Next
<1> QED
  BY <1>1, <1>2

(* The write-ahead log implements DurableLog: what a reader sees grows by  *)
(* whole records, a sync makes all of it durable, and a crash takes only   *)
(* from the end of what was not.                                           *)
THEOREM LogImplementsDurableLog == Spec => ImplementsDurableLog
<1>1. Init => Promise!Init
  <2> SUFFICES ASSUME Init PROVE Promise!Init
    OBVIOUS
  <2>1. file = <<>> /\ synced = <<>> /\ <<>> \in Seq(Cells) /\ Len(<<>>) = 0
    BY DEF Init
  <2>2. Nums(<<>>) = <<>>
    BY <2>1, ScanOfNothing, Zenon
  <2> QED
    BY <2>1, <2>2 DEF Promise!Init, View, Nums
<1>2. LogInv /\ [Next]_vars => [Promise!Next]_<<View(file), Len(View(synced))>>
  BY LogRefines
<1> QED
  BY <1>1, <1>2, LogInvariant, PTL DEF Spec, ImplementsDurableLog, Promise!Spec

=============================================================================
