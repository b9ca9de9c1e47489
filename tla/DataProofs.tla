----------------------------- MODULE DataProofs -----------------------------
(***************************************************************************)
(* What is recorded and what is listed, for lists of any length: the files *)
(* of a recording, for any lengths of the frames and any capacity of the   *)
(* buffers, with kills anywhere, and the notifications of the web UI with  *)
(* their history, for any limits and times.                                *)
(***************************************************************************)
EXTENDS Recording, Toasts, SequenceTheorems, NaturalsInduction, WellFoundedInduction, TLAPS

(* Most leaves need no arithmetic and are quick for Zenon; SMT takes the others. *)
USE ZenonT(1), SMTT(30), Zenon

(* A set that has 0 and, with a number, the next, has them all. *)
LEMMA CountingUp ==
  ASSUME NEW S, 0 \in S, \A n \in Nat : n \in S => n + 1 \in S
  PROVE  Nat \subseteq S
<1> DEFINE T == Nat \ S
<1>1. SUFFICES ASSUME T # {} PROVE FALSE
  BY <1>1
<1>2. T \in SUBSET Nat
  OBVIOUS
<1> HIDE DEF T
<1>3. PICK x \in T : \A y \in T : ~ (<<y, x>> \in OpToRel(<, Nat))
  BY <1>1, <1>2, NatLessThanWellFounded, WFMin
<1>4. x \in Nat /\ x \notin S /\ x # 0
  BY <1>3 DEF T
<1>5. x - 1 \in Nat /\ x - 1 < x /\ (x - 1) + 1 = x
  BY <1>4
<1>6. x - 1 \in T
  BY <1>4, <1>5 DEF T
<1>7. <<x - 1, x>> \in OpToRel(<, Nat)
  BY <1>4, <1>5 DEF OpToRel
<1> QED
  BY <1>3, <1>6, <1>7

(* A set of numbers that is not empty has a least one. *)
LEMMA LeastNumber ==
  ASSUME NEW T \in SUBSET Nat, T # {}
  PROVE  \E x \in T : \A y \in T : x <= y
<1>1. PICK x \in T : \A y \in T : ~ (<<y, x>> \in OpToRel(<, Nat))
  BY NatLessThanWellFounded, WFMin
<1>2. \A y \in T : ~(y < x) \/ <<y, x>> \in OpToRel(<, Nat)
  BY DEF OpToRel
<1>3. \A y \in T : ~(y < x)
  BY <1>1, <1>2, Zenon
<1>4. \A y \in T : y \in Nat /\ x \in Nat
  OBVIOUS
<1> QED
  BY <1>3, <1>4, SMT

(* FirstOf finds a position when there is one. *)
LEMMA FirstOfIs ==
  ASSUME NEW K \in SUBSET (Nat \ {0})
  PROVE  /\ FirstOf(K) = 0 <=> K = {}
         /\ K # {} => FirstOf(K) \in K /\ \A j \in K : FirstOf(K) <= j
<1>1. CASE K = {}
  BY <1>1 DEF FirstOf
<1>2. CASE K # {}
  <2>1. \E i \in K : \A j \in K : i <= j
    BY <1>2, LeastNumber
  <2>2. FirstOf(K) \in K /\ \A j \in K : FirstOf(K) <= j
    BY <1>2, <2>1, Zenon DEF FirstOf
  <2> QED
    BY <1>2, <2>2, Zenon
<1> QED
  BY <1>1, <1>2

-----------------------------------------------------------------------------
(* The recursion of Keep has a solution: the lists for the first positions *)
(* extend to the next.                                                     *)
Keeps(s, K, m, f) ==
  f = [n \in 0..m |-> IF n = 0 THEN <<>>
                      ELSE IF n \in K THEN Append(f[n - 1], s[n]) ELSE f[n - 1]]

(* The recursion of Keep has a solution, by induction over the length. *)
LEMMA KeepsExist ==
  ASSUME NEW s, NEW K, NEW m \in Nat
  PROVE  \E f : Keeps(s, K, m, f)
<1> DEFINE S == {n \in Nat : \E f : Keeps(s, K, n, f)}
<1>1. 0 \in S
  <2> DEFINE g == [n \in 0..0 |-> <<>>]
  <2>1. Keeps(s, K, 0, g)
    BY DEF Keeps
  <2> QED
    BY <2>1
<1>2. ASSUME NEW n \in Nat, n \in S PROVE n + 1 \in S
  <2>1. PICK f : Keeps(s, K, n, f)
    BY <1>2
  <2> DEFINE x == IF n + 1 \in K THEN Append(f[n], s[n + 1]) ELSE f[n]
             g == [k \in 0..(n + 1) |-> IF k = n + 1 THEN x ELSE f[k]]
  <2>2. \A k \in 0..n : g[k] = f[k]
    OBVIOUS
  <2>3. \A k \in 0..(n + 1) :
          k # 0 => k - 1 \in 0..n /\ g[k - 1] = f[k - 1]
    BY <2>2
  <2>4. \A k \in 0..n : f[k] = IF k = 0 THEN <<>>
                               ELSE IF k \in K THEN Append(f[k - 1], s[k]) ELSE f[k - 1]
    BY <2>1, Zenon DEF Keeps
  <2>5. g[n + 1] = x /\ n + 1 # 0 /\ n + 1 - 1 = n
    OBVIOUS
  <2> HIDE DEF g
  <2>6. \A k \in 0..(n + 1) :
          g[k] = IF k = 0 THEN <<>>
                 ELSE IF k \in K THEN Append(g[k - 1], s[k]) ELSE g[k - 1]
    <3> TAKE k \in 0..(n + 1)
    <3>1. CASE k = n + 1
      BY <3>1, <2>3, <2>5
    <3>2. CASE k # n + 1
      <4>1. k \in 0..n
        BY <3>2
      <4> QED
        BY <4>1, <2>2, <2>3, <2>4
    <3> QED
      BY <3>1, <3>2
  <2>7. Keeps(s, K, n + 1, g)
    BY <2>6 DEF Keeps, g
  <2> QED
    BY <2>7
<1> HIDE DEF S
<1>3. m \in S
  BY <1>1, <1>2, CountingUp
<1> QED
  BY <1>3 DEF S

(* What is kept: the items at the positions in K, in order and all.        *)
Drawn(s, K, m, out, e) ==
  /\ e \in [1..Len(out) -> K \cap (1..m)]
  /\ \A i \in 1..Len(out) : out[i] = s[e[i]]
  /\ \A i, j \in 1..Len(out) : i < j => e[i] < e[j]
  /\ \A k \in K \cap (1..m) : \E i \in 1..Len(out) : e[i] = k

(* What a filter returns: the items at the kept positions, in their order. *)
LEMMA KeepIs ==
  ASSUME NEW D, NEW s \in Seq(D), NEW K
  PROVE  /\ Keep(s, K) \in Seq(D)
         /\ \E e : Drawn(s, K, Len(s), Keep(s, K), e)
<1> DEFINE m == Len(s)
           f == CHOOSE g : Keeps(s, K, m, g)
<1>0. m \in Nat
  BY LenProperties
<1>1. Keeps(s, K, m, f)
  BY <1>0, KeepsExist
<1>2. Keep(s, K) = f[m]
  BY DEF Keep, Keeps
<1> HIDE DEF m, f
<1>3. \A n \in 0..m : f[n] = IF n = 0 THEN <<>>
                      ELSE IF n \in K THEN Append(f[n - 1], s[n]) ELSE f[n - 1]
  BY <1>1, Zenon DEF Keeps
<1> DEFINE S == {n \in Nat : n <= m => f[n] \in Seq(D) /\ \E e : Drawn(s, K, n, f[n], e)}
<1>4. 0 \in S
  <2>1. 0 \in 0..m /\ f[0] = <<>>
    BY <1>0, <1>3
  <2>2. Drawn(s, K, 0, <<>>, <<>>)
    BY DEF Drawn
  <2>3. <<>> \in Seq(D)
    OBVIOUS
  <2> QED
    BY <2>1, <2>2, <2>3, Zenon
<1>5. ASSUME NEW n \in Nat, n \in S PROVE n + 1 \in S
  <2> SUFFICES ASSUME n + 1 <= m
               PROVE  f[n + 1] \in Seq(D) /\ \E e : Drawn(s, K, n + 1, f[n + 1], e)
    OBVIOUS
  <2>1. n <= m /\ n + 1 \in 0..m /\ n + 1 # 0 /\ n + 1 - 1 = n /\ n + 1 \in 1..m
    BY <1>0
  <2>2. f[n] \in Seq(D) /\ \E e : Drawn(s, K, n, f[n], e)
    BY <1>5, <2>1
  <2>3. PICK e : Drawn(s, K, n, f[n], e)
    BY <2>2
  <2> DEFINE out == f[n]
  <2>4. Len(out) \in Nat
    BY <2>2, LenProperties
  <2>5. s[n + 1] \in D
    BY <2>1, ElementOfSeq DEF m
  <2>6. CASE n + 1 \in K
    <3>1. f[n + 1] = Append(out, s[n + 1])
      <4>1. \A k \in 0..m, j \in Nat : k = j + 1 /\ k \in K => f[k] = Append(f[j], s[k])
        <5> TAKE k \in 0..m, j \in Nat
        <5>1. k = j + 1 => k # 0 /\ k - 1 = j
          OBVIOUS
        <5> QED
          BY <5>1, <1>3, Zenon
      <4> QED
        BY <2>1, <2>6, <4>1
    <3> DEFINE new == Append(out, s[n + 1])
               d == [i \in 1..(Len(out) + 1) |-> IF i = Len(out) + 1 THEN n + 1 ELSE e[i]]
    <3>2. /\ new \in Seq(D) /\ Len(new) = Len(out) + 1
          /\ \A i \in 1..Len(out) : new[i] = out[i]
          /\ new[Len(out) + 1] = s[n + 1]
      BY <2>2, <2>5, AppendProperties, SMT
    <3> HIDE DEF out, new
    <3>3. \A i \in 1..(Len(out) + 1) : i = Len(out) + 1 \/ i \in 1..Len(out)
      BY <2>4
    <3>4. \A i \in 1..Len(out) : /\ i # Len(out) + 1 /\ i \in 1..(Len(out) + 1)
                                 /\ d[i] = e[i]
      BY <2>4
    <3>5. d[Len(out) + 1] = n + 1 /\ Len(out) + 1 \in 1..(Len(out) + 1)
      BY <2>4
    <3>6. \A i \in 1..Len(out) : e[i] \in K /\ e[i] \in 1..n /\ e[i] < n + 1 /\ e[i] \in 1..(n + 1)
      BY <2>3, SMTT(30) DEF Drawn, out
    <3>7. d \in [1..Len(new) -> K \cap (1..(n + 1))]
      BY <3>2, <3>3, <3>6, <2>6, SMT
    <3> HIDE DEF d
    <3>8. \A i \in 1..Len(new) : new[i] = s[d[i]]
      BY <3>2, <3>3, <3>4, <3>5, <2>3 DEF Drawn, out
    <3>9. \A i, j \in 1..Len(new) : i < j => d[i] < d[j]
      <4> SUFFICES ASSUME NEW i \in 1..Len(new), NEW j \in 1..Len(new), i < j
                   PROVE  d[i] < d[j]
        OBVIOUS
      <4>1. i \in 1..Len(out)
        BY <3>2, <2>4
      <4>2. CASE j = Len(out) + 1
        BY <4>1, <4>2, <3>4, <3>5, <3>6
      <4>3. CASE j \in 1..Len(out)
        BY <4>1, <4>3, <3>4, <2>3 DEF Drawn, out
      <4> QED
        BY <4>2, <4>3, <3>2, <3>3
    <3>10. \A k \in K \cap (1..(n + 1)) : \E i \in 1..Len(new) : d[i] = k
      <4> TAKE k \in K \cap (1..(n + 1))
      <4>1. CASE k = n + 1
        BY <4>1, <3>2, <3>5
      <4>2. CASE k # n + 1
        <5>1. k \in K \cap (1..n)
          BY <4>2
        <5>2. PICK i \in 1..Len(out) : e[i] = k
          BY <5>1, <2>3 DEF Drawn, out
        <5> QED
          BY <5>2, <3>2, <3>4
      <4> QED
        BY <4>1, <4>2
    <3>11. Drawn(s, K, n + 1, new, d)
      BY <3>7, <3>8, <3>9, <3>10 DEF Drawn
    <3> QED
      BY <3>1, <3>2, <3>11 DEF out, new
  <2>7. CASE n + 1 \notin K
    <3>1. f[n + 1] = f[n]
      BY <2>1, <2>7, <1>3, SMT
    <3>2. K \cap (1..(n + 1)) = K \cap (1..n)
      BY <2>7
    <3>3. Drawn(s, K, n + 1, f[n], e)
      BY <2>3, <3>2 DEF Drawn
    <3> QED
      BY <2>2, <3>1, <3>3
  <2> QED
    BY <2>6, <2>7
<1> HIDE DEF S
<1>6. m \in S
  BY <1>0, <1>4, <1>5, CountingUp
<1>7. f[m] \in Seq(D) /\ \E e : Drawn(s, K, m, f[m], e)
  BY <1>0, <1>6 DEF S
<1> QED
  BY <1>2, <1>7 DEF m

(* What is drawn is no longer than what it is drawn from. *)
LEMMA DrawnShorter ==
  ASSUME NEW s, NEW K, NEW m \in Nat, NEW out, NEW e, Len(out) \in Nat, Drawn(s, K, m, out, e)
  PROVE  Len(out) <= m
<1>1. /\ \A i \in 1..Len(out) : e[i] \in 1..m
      /\ \A i, j \in 1..Len(out) : i < j => e[i] < e[j]
  BY DEF Drawn
<1> DEFINE S == {n \in Nat : n \in 1..Len(out) => n <= e[n]}
<1>2. 0 \in S
  OBVIOUS
<1>3. ASSUME NEW n \in Nat, n \in S PROVE n + 1 \in S
  <2>1. SUFFICES ASSUME n + 1 \in 1..Len(out) PROVE n + 1 <= e[n + 1]
    OBVIOUS
  <2>2. e[n + 1] \in 1..m
    BY <2>1, <1>1
  <2>3. CASE n = 0
    BY <2>2, <2>3
  <2>4. CASE n # 0
    <3>1. n \in 1..Len(out) /\ n < n + 1
      BY <2>1, <2>4
    <3>2. e[n] < e[n + 1] /\ n <= e[n] /\ e[n] \in 1..m
      BY <3>1, <2>1, <1>1, <1>3
    <3> QED
      BY <3>2, <2>2
  <2> QED
    BY <2>3, <2>4
<1>4. \A n \in Nat : n \in S
  <2> HIDE DEF S
  <2> QED
    BY <1>2, <1>3, CountingUp
<1>5. CASE Len(out) = 0
  BY <1>5
<1>6. CASE Len(out) # 0
  <2>1. Len(out) \in 1..Len(out)
    BY <1>6
  <2>2. Len(out) <= e[Len(out)] /\ e[Len(out)] \in 1..m
    BY <2>1, <1>1, <1>4
  <2> QED
    BY <2>2
<1> QED
  BY <1>5, <1>6

-----------------------------------------------------------------------------
(* The sums of the first items of a list. *)
Sums(v, m, f) == f = [n \in 0..m |-> IF n = 0 THEN 0 ELSE f[n - 1] + v[n]]

(* The recursion of Total has a solution. *)
LEMMA SumsExist ==
  ASSUME NEW v, NEW m \in Nat
  PROVE  \E f : Sums(v, m, f)
<1> DEFINE S == {n \in Nat : \E f : Sums(v, n, f)}
<1>1. 0 \in S
  <2> DEFINE g == [n \in 0..0 |-> 0]
  <2>1. Sums(v, 0, g)
    BY DEF Sums
  <2> QED
    BY <2>1
<1>2. ASSUME NEW n \in Nat, n \in S PROVE n + 1 \in S
  <2>1. PICK f : Sums(v, n, f)
    BY <1>2
  <2> DEFINE x == f[n] + v[n + 1]
             g == [k \in 0..(n + 1) |-> IF k = n + 1 THEN x ELSE f[k]]
  <2>2. \A k \in 0..n : g[k] = f[k]
    OBVIOUS
  <2>3. \A k \in 0..(n + 1) :
          k # 0 => k - 1 \in 0..n /\ g[k - 1] = f[k - 1]
    BY <2>2
  <2>4. \A k \in 0..n : f[k] = IF k = 0 THEN 0 ELSE f[k - 1] + v[k]
    BY <2>1 DEF Sums
  <2>5. g[n + 1] = x /\ n + 1 # 0 /\ n + 1 - 1 = n
    OBVIOUS
  <2> HIDE DEF g
  <2>6. \A k \in 0..(n + 1) : g[k] = IF k = 0 THEN 0 ELSE g[k - 1] + v[k]
    <3> TAKE k \in 0..(n + 1)
    <3>1. CASE k = n + 1
      BY <3>1, <2>3, <2>5
    <3>2. CASE k # n + 1
      <4>1. k \in 0..n
        BY <3>2
      <4> QED
        BY <4>1, <2>2, <2>3, <2>4
    <3> QED
      BY <3>1, <3>2
  <2>7. Sums(v, n + 1, g)
    BY <2>6 DEF Sums, g
  <2> QED
    BY <2>7
<1> HIDE DEF S
<1>3. m \in S
  BY <1>1, <1>2, CountingUp
<1> QED
  BY <1>3 DEF S

(* The total is the last of the sums. *)
SumsOf(v, f) ==
  /\ f \in [0..Len(v) -> Int] /\ f[0] = 0
  /\ \A n \in 1..Len(v) : f[n] = f[n - 1] + v[n]

(* A total is the last of the partial sums. *)
LEMMA TotalIs ==
  ASSUME NEW v \in Seq(Int)
  PROVE  \E f : SumsOf(v, f) /\ Total(v) = f[Len(v)]
<1> DEFINE m == Len(v)
           f == CHOOSE g : Sums(v, m, g)
<1>0. m \in Nat
  BY LenProperties
<1>1. Sums(v, m, f)
  BY <1>0, SumsExist
<1>2. Total(v) = f[m]
  BY DEF Total, Sums
<1>3. \A n \in 1..m : v[n] \in Int
  BY ElementOfSeq
<1> HIDE DEF m, f
<1>4. /\ f = [n \in 0..m |-> f[n]]
      /\ \A n \in 0..m : f[n] = IF n = 0 THEN 0 ELSE f[n - 1] + v[n]
  BY <1>1, Zenon DEF Sums
<1>5. f[0] = 0 /\ \A n \in 1..m : f[n] = f[n - 1] + v[n]
  BY <1>0, <1>4, SMT
<1> DEFINE S == {n \in Nat : n <= m => f[n] \in Int}
<1>6. 0 \in S
  BY <1>5
<1>7. ASSUME NEW n \in Nat, n \in S PROVE n + 1 \in S
  <2> SUFFICES ASSUME n + 1 <= m PROVE f[n + 1] \in Int
    OBVIOUS
  <2>1. n <= m /\ n + 1 \in 1..m /\ n + 1 - 1 = n
    BY <1>0
  <2>2. f[n + 1] = f[n] + v[n + 1] /\ f[n] \in Int /\ v[n + 1] \in Int
    BY <2>1, <1>3, <1>5, <1>7, SMT
  <2> QED
    BY <2>2
<1> HIDE DEF S
<1>8. \A n \in Nat : n \in S
  BY <1>6, <1>7, CountingUp
<1>9. \A n \in 0..m : f[n] \in Int
  BY <1>0, <1>8 DEF S
<1> QED
  BY <1>2, <1>4, <1>5, <1>9, Zenon DEF m, SumsOf

(* Two lists that differ, in the first m numbers, in the d-th by x. *)
Apart(v, w, f, g, m, d, x) ==
  /\ v \in Seq(Int) /\ w \in Seq(Int) /\ SumsOf(v, f) /\ SumsOf(w, g)
  /\ m \in Nat /\ m <= Len(v) /\ m <= Len(w) /\ d \in Nat \ {0} /\ x \in Int
  /\ \A n \in 1..m : w[n] = IF n = d THEN v[n] + x ELSE v[n]

(* So do their sums, from the d-th on. *)
LEMMA SumsDiffer ==
  ASSUME NEW v, NEW w, NEW f, NEW g, NEW m, NEW d, NEW x, Apart(v, w, f, g, m, d, x)
  PROVE  g[m] = IF d <= m THEN f[m] + x ELSE f[m]
<1> USE DEF Apart
<1>0. Len(v) \in Nat /\ Len(w) \in Nat
  BY LenProperties
<1>1. \A n \in 1..m : v[n] \in Int
  BY <1>0, ElementOfSeq, SMT
<1>2. /\ \A n \in 0..m : f[n] \in Int /\ g[n] \in Int
      /\ f[0] = 0 /\ g[0] = 0
      /\ \A n \in 1..m : f[n] = f[n - 1] + v[n] /\ g[n] = g[n - 1] + w[n]
  <2>1. m \in Nat /\ m <= Len(v) /\ m <= Len(w)
    OBVIOUS
  <2>2. \A n \in 0..m : n \in 0..Len(v) /\ n \in 0..Len(w)
    BY <1>0, <2>1
  <2>3. \A n \in 1..m : n \in 1..Len(v) /\ n \in 1..Len(w)
    BY <1>0, <2>1
  <2> QED
    BY <2>2, <2>3, Zenon DEF SumsOf
<1> DEFINE S == {n \in Nat : n <= m => g[n] = IF d <= n THEN f[n] + x ELSE f[n]}
<1>3. 0 \in S
  BY <1>2, SMT
<1>4. ASSUME NEW n \in Nat, n \in S PROVE n + 1 \in S
  <2> SUFFICES ASSUME n + 1 <= m
               PROVE  g[n + 1] = IF d <= n + 1 THEN f[n + 1] + x ELSE f[n + 1]
    BY SMT
  <2>1. n <= m /\ n + 1 \in 1..m /\ n + 1 - 1 = n /\ n \in 0..m
    OBVIOUS
  <2>2. /\ f[n + 1] = f[n] + v[n + 1] /\ g[n + 1] = g[n] + w[n + 1]
        /\ f[n] \in Int /\ g[n] \in Int /\ v[n + 1] \in Int
    BY <2>1, <1>1, <1>2, SMT
  <2>3. w[n + 1] = IF n + 1 = d THEN v[n + 1] + x ELSE v[n + 1]
    BY <2>1
  <2>4. g[n] = IF d <= n THEN f[n] + x ELSE f[n]
    BY <2>1, <1>4
  <2>5. d \in Nat /\ x \in Int
    OBVIOUS
  <2>6. \A a, b, c \in Int : a = b + x => a + c = (b + c) + x
    BY <2>5
  <2>7. CASE d <= n
    <3>1. g[n] = f[n] + x /\ w[n + 1] = v[n + 1] /\ d <= n + 1
      BY <2>3, <2>4, <2>5, <2>7
    <3>2. g[n] + v[n + 1] = (f[n] + v[n + 1]) + x
      BY <2>2, <2>6, <3>1
    <3> QED
      BY <2>2, <3>1, <3>2
  <2>8. CASE d = n + 1
    BY <2>2, <2>3, <2>4, <2>5, <2>8, SMT
  <2>9. CASE d > n + 1
    BY <2>2, <2>3, <2>4, <2>5, <2>9
  <2> QED
    BY <2>5, <2>7, <2>8, <2>9
<1> HIDE DEF S
<1>5. m \in S
  BY <1>3, <1>4, CountingUp, Zenon
<1> QED
  BY <1>5 DEF S

(* A total is a number; it grows by what is appended, and by what one item *)
(* grows.                                                                  *)
LEMMA TotalInt ==
  ASSUME NEW v \in Seq(Int)
  PROVE  Total(v) \in Int
<1>1. PICK f : SumsOf(v, f) /\ Total(v) = f[Len(v)]
  BY TotalIs
<1>2. Len(v) \in 0..Len(v)
  BY LenProperties, SMT
<1> QED
  BY <1>1, <1>2 DEF SumsOf

(* One more number adds itself to the total. *)
LEMMA TotalAppend ==
  ASSUME NEW v \in Seq(Int), NEW x \in Int
  PROVE  Total(Append(v, x)) = Total(v) + x
<1> DEFINE w == Append(v, x)
<1>0. Len(v) \in Nat
  BY LenProperties
<1>1. /\ w \in Seq(Int) /\ Len(w) = Len(v) + 1 /\ w[Len(v) + 1] = x
      /\ \A n \in 1..Len(v) : w[n] = v[n]
  BY AppendProperties, SMT
<1> HIDE DEF w
<1>2. PICK f : SumsOf(v, f) /\ Total(v) = f[Len(v)]
  BY TotalIs
<1>3. PICK g : SumsOf(w, g) /\ Total(w) = g[Len(w)]
  BY <1>1, TotalIs
<1>4. \A n \in 1..Len(v) : w[n] = IF n = Len(v) + 1 THEN v[n] + 0 ELSE v[n]
  BY <1>0, <1>1
<1>5. Len(v) <= Len(v) /\ Len(v) <= Len(w) /\ Len(v) + 1 \in Nat /\ Len(v) + 1 # 0
      /\ ~(Len(v) + 1 <= Len(v)) /\ 0 \in Int
  BY <1>0, <1>1
<1>6. g[Len(v)] = IF Len(v) + 1 <= Len(v) THEN f[Len(v)] + 0 ELSE f[Len(v)]
  <2>1. Apart(v, w, f, g, Len(v), Len(v) + 1, 0)
    BY <1>0, <1>1, <1>2, <1>3, <1>4, <1>5 DEF Apart
  <2> QED
    BY <2>1, SumsDiffer, SMT
<1>7. Len(v) + 1 \in 1..Len(w) /\ Len(v) + 1 - 1 = Len(v)
  BY <1>0, <1>1
<1>8. \A n \in 1..Len(w), k \in Nat : n = k + 1 => g[n] = g[k] + w[n]
  BY <1>1, <1>3, SMTT(30) DEF SumsOf
<1>9. g[Len(v) + 1] = g[Len(v)] + x
  BY <1>0, <1>1, <1>7, <1>8, Zenon
<1> QED
  BY <1>1, <1>2, <1>3, <1>5, <1>6, <1>9 DEF w

(* A list that differs at one place by x has a total that differs by x. *)
LEMMA TotalOneMore ==
  ASSUME NEW v \in Seq(Int), NEW w \in Seq(Int), Len(w) = Len(v), NEW d \in 1..Len(v),
         NEW x \in Int, \A n \in 1..Len(v) : w[n] = IF n = d THEN v[n] + x ELSE v[n]
  PROVE  Total(w) = Total(v) + x
<1>0. Len(v) \in Nat
  BY LenProperties
<1>1. Len(v) <= Len(v) /\ d \in Nat /\ d # 0 /\ d <= Len(v)
  BY <1>0
<1>2. PICK f : SumsOf(v, f) /\ Total(v) = f[Len(v)]
  BY TotalIs
<1>3. PICK g : SumsOf(w, g) /\ Total(w) = g[Len(v)]
  BY TotalIs
<1>4. g[Len(v)] = IF d <= Len(v) THEN f[Len(v)] + x ELSE f[Len(v)]
  <2>1. Apart(v, w, f, g, Len(v), d, x)
    BY <1>0, <1>1, <1>2, <1>3 DEF Apart
  <2> QED
    BY <2>1, SumsDiffer, SMT
<1> QED
  BY <1>1, <1>2, <1>3, <1>4

-----------------------------------------------------------------------------
(* The notifications (Toasts).  Items of the history and toasts on screen: *)
Items == [id : Nat, sig : Signatures, lastTs : Nat, count : Nat]
OnScreen == [id : Nat, sig : Signatures, lastTs : Nat, count : Nat, expiresAt : Nat]

ToastTypes ==
  /\ time \in Nat /\ toastSeq \in Nat /\ toasted \in Nat /\ forgotten \in Int
  /\ toasts \in Seq(OnScreen) /\ history \in Seq(Items)
  /\ Len(toasts) <= MAX_TOASTS

(* An id names one item, and is one that toastSeq has given. *)
OwnIds(items) ==
  /\ \A i \in 1..Len(items) : items[i].id < toastSeq
  /\ \A i, j \in 1..Len(items) : items[i].id = items[j].id => i = j

(* Of the items with one signature only the last can be repeated: an item  *)
(* is appended when none is recent, and only the recent one is renewed.    *)
OneRecent ==
  \A i, j \in 1..Len(history) :
    i < j /\ history[i].sig = history[j].sig => time - history[i].lastTs > DuplicateWindow

Past == \A i \in 1..Len(history) : history[i].lastTs <= time

(* A toast and a history item of the same id have the same signature, and  *)
(* the item is not older: a toast that repeats finds its item, if it is    *)
(* still there, recent.                                                    *)
Behind ==
  \A i \in 1..Len(history), k \in 1..Len(toasts) :
    history[i].id = toasts[k].id =>
      history[i].sig = toasts[k].sig /\ history[i].lastTs >= toasts[k].lastTs

(* toastTimers and the timeouts of the browser are those of the screen. *)
Timed ==
  /\ DOMAIN toastTimers = {toasts[i].id : i \in 1..Len(toasts)}
  /\ \A i \in 1..Len(toasts) : toastTimers[toasts[i].id] = toasts[i].expiresAt
  /\ timeouts = {<<i, toastTimers[i]>> : i \in DOMAIN toastTimers}

ToastInv ==
  /\ ToastTypes /\ OwnIds(toasts) /\ OwnIds(history) /\ OneRecent /\ Past
  /\ Behind /\ Timed /\ NotificationsCounted

(* What an item of the history has. *)
LEMMA ItemHas ==
  ASSUME NEW s \in Seq(Items), NEW i \in 1..Len(s)
  PROVE  s[i] \in Items /\ s[i].id \in Nat /\ s[i].lastTs \in Nat
<1>1. s[i] \in Items
  BY ElementOfSeq
<1> QED
  BY <1>1 DEF Items

(* The last items of a list, by position. *)
LEMMA LastNIs ==
  ASSUME NEW D, NEW s \in Seq(D), NEW n \in Nat \ {0}
  PROVE  /\ LastN(s, n) \in Seq(D) /\ Len(LastN(s, n)) <= n
         /\ \E k \in Nat :
              /\ Len(LastN(s, n)) + k = Len(s)
              /\ \A i \in 1..Len(LastN(s, n)) :
                   i + k \in 1..Len(s) /\ LastN(s, n)[i] = s[i + k]
              /\ Len(s) # 0 => k < Len(s)
<1>0. Len(s) \in Nat
  BY LenProperties
<1>1. CASE Len(s) <= n
  <2>1. LastN(s, n) = s
    BY <1>1 DEF LastN
  <2>2. \A i \in 1..Len(s) : i + 0 = i
    BY <1>0
  <2>3. Len(s) + 0 = Len(s) /\ (Len(s) # 0 => 0 < Len(s)) /\ 0 \in Nat
    BY <1>0
  <2> QED
    BY <2>1, <2>2, <2>3, <1>1, Zenon
<1>2. CASE ~(Len(s) <= n)
  <2> DEFINE a == Len(s) - n + 1
             k == Len(s) - n
  <2>1. /\ LastN(s, n) = SubSeq(s, a, Len(s)) /\ a \in 1..Len(s) /\ k \in Nat
        /\ Len(s) - a + 1 = n /\ n + k = Len(s) /\ k < Len(s) /\ a <= Len(s)
    BY <1>0, <1>2 DEF LastN
  <2>2. \A i \in 1..n : i + k \in 1..Len(s) /\ i + k = a + i - 1
    BY <1>0, <1>2
  <2>3. \A i \in 1..Len(s) : s[i] \in D
    BY ElementOfSeq
  <2>4. /\ SubSeq(s, a, Len(s)) \in Seq(D) /\ Len(SubSeq(s, a, Len(s))) = n
        /\ \A i \in 1..n : SubSeq(s, a, Len(s))[i] = s[i + k]
    <3>1. SubSeq(s, a, Len(s)) = [i \in 1..n |-> s[i + k]]
      BY <1>0, <1>2
    <3>2. [i \in 1..n |-> s[i + k]] \in Seq(D)
      BY <2>2, <2>3, SMT
    <3>3. Len([i \in 1..n |-> s[i + k]]) = n
      OBVIOUS
    <3> QED
      BY <3>1, <3>2, <3>3, Zenon
  <2>5. n <= n
    OBVIOUS
  <2> HIDE DEF a, k
  <2> QED
    BY <2>1, <2>2, <2>4, <2>5, Zenon
<1> QED
  BY <1>1, <1>2

(* The counts of a list of items, as a list of numbers. *)
CountsOf(items) == [i \in DOMAIN items |-> items[i].count]

(* The counts of the history are a list of numbers, and Counts is their total. *)
LEMMA CountsAre ==
  ASSUME NEW s \in Seq(Items)
  PROVE  /\ CountsOf(s) \in Seq(Int) /\ Len(CountsOf(s)) = Len(s)
         /\ \A i \in 1..Len(s) : CountsOf(s)[i] = s[i].count
         /\ Counts(s) = Total(CountsOf(s)) /\ Counts(s) \in Int
<1>1. Len(s) \in Nat /\ DOMAIN s = 1..Len(s)
  BY LenProperties
<1>2. \A i \in 1..Len(s) : s[i].count \in Int
  <2>1. \A i \in 1..Len(s) : s[i] \in Items
    BY ElementOfSeq
  <2> QED
    BY <2>1 DEF Items
<1>3. /\ CountsOf(s) \in Seq(Int) /\ Len(CountsOf(s)) = Len(s)
      /\ \A i \in 1..Len(s) : CountsOf(s)[i] = s[i].count
  BY <1>1, <1>2 DEF CountsOf
<1>4. Counts(s) = Total(CountsOf(s))
  BY DEF Counts, CountsOf
<1> QED
  BY <1>3, <1>4, TotalInt

(* A new item of the history adds its count. *)
LEMMA CountsAppend ==
  ASSUME NEW s \in Seq(Items), NEW it \in Items
  PROVE  Counts(Append(s, it)) = Counts(s) + it.count
<1> DEFINE t == Append(s, it)
<1>1. /\ t \in Seq(Items) /\ Len(t) = Len(s) + 1 /\ t[Len(s) + 1] = it
      /\ \A i \in 1..Len(s) : t[i] = s[i]
  BY AppendProperties, SMT
<1>2. Len(s) \in Nat /\ it.count \in Int
  BY LenProperties, SMT DEF Items
<1> HIDE DEF t
<1>3. /\ CountsOf(s) \in Seq(Int) /\ Len(CountsOf(s)) = Len(s)
      /\ \A i \in 1..Len(s) : CountsOf(s)[i] = s[i].count
      /\ Counts(s) = Total(CountsOf(s))
  BY CountsAre
<1>4. /\ CountsOf(t) \in Seq(Int) /\ Len(CountsOf(t)) = Len(t)
      /\ \A i \in 1..Len(t) : CountsOf(t)[i] = t[i].count
      /\ Counts(t) = Total(CountsOf(t))
  BY <1>1, CountsAre
<1> DEFINE u == Append(CountsOf(s), it.count)
<1>5. /\ u \in Seq(Int) /\ Len(u) = Len(s) + 1 /\ u[Len(s) + 1] = it.count
      /\ \A i \in 1..Len(s) : u[i] = CountsOf(s)[i]
  BY <1>2, <1>3, AppendProperties, SMT
<1> HIDE DEF u
<1>6. \A i \in 1..(Len(s) + 1) : CountsOf(t)[i] = u[i]
  <2>1. \A i \in 1..(Len(s) + 1) : i = Len(s) + 1 \/ i \in 1..Len(s)
    BY <1>2
  <2> QED
    BY <2>1, <1>1, <1>3, <1>4, <1>5, Zenon
<1>7. CountsOf(t) = u
  BY <1>1, <1>4, <1>5, <1>6, SeqEqual
<1> QED
  BY <1>2, <1>3, <1>4, <1>7, TotalAppend DEF t, u

(* A repeated item, counted once more, adds one. *)
LEMMA CountsOneMore ==
  ASSUME NEW s \in Seq(Items), NEW t \in Seq(Items), Len(t) = Len(s), NEW d \in 1..Len(s),
         \A i \in 1..Len(s) : t[i].count = IF i = d THEN s[i].count + 1 ELSE s[i].count
  PROVE  Counts(t) = Counts(s) + 1
<1>1. /\ CountsOf(s) \in Seq(Int) /\ Len(CountsOf(s)) = Len(s)
      /\ \A i \in 1..Len(s) : CountsOf(s)[i] = s[i].count
      /\ Counts(s) = Total(CountsOf(s))
  BY CountsAre
<1>2. /\ CountsOf(t) \in Seq(Int) /\ Len(CountsOf(t)) = Len(t)
      /\ \A i \in 1..Len(t) : CountsOf(t)[i] = t[i].count
      /\ Counts(t) = Total(CountsOf(t))
  BY CountsAre
<1>3. \A i \in 1..Len(s) :
        CountsOf(t)[i] = IF i = d THEN CountsOf(s)[i] + 1 ELSE CountsOf(s)[i]
  BY <1>1, <1>2
<1>4. Total(CountsOf(t)) = Total(CountsOf(s)) + 1
  BY <1>1, <1>2, <1>3, TotalOneMore, SMT
<1> QED
  BY <1>1, <1>2, <1>4

(* An item repeats when it has the signature and is recent. *)
Repeats(it, sig) == it.sig = sig /\ time - it.lastTs <= DuplicateWindow

(* The duplicate that pushToast finds repeats, and 0 means that no item does. *)
LEMMA DuplicateIs ==
  ASSUME NEW D, NEW s \in Seq(D), NEW sig
  PROVE  /\ Duplicate(s, sig) \in Nat
         /\ Duplicate(s, sig) = 0 => \A i \in 1..Len(s) : ~Repeats(s[i], sig)
         /\ Duplicate(s, sig) > 0 => /\ Duplicate(s, sig) \in 1..Len(s)
                                     /\ Repeats(s[Duplicate(s, sig)], sig)
<1> DEFINE K == {i \in DOMAIN s : s[i].sig = sig /\ time - s[i].lastTs <= DuplicateWindow}
<1>1. Len(s) \in Nat /\ DOMAIN s = 1..Len(s)
  BY LenProperties
<1>2. K \in SUBSET (Nat \ {0})
  BY <1>1, SMT
<1>3. Duplicate(s, sig) = FirstOf(K)
  BY DEF Duplicate
<1>4. \A i : i \in K <=> i \in 1..Len(s) /\ Repeats(s[i], sig)
  BY <1>1 DEF Repeats
<1> HIDE DEF K
<1>5. /\ FirstOf(K) = 0 <=> K = {}
      /\ K # {} => FirstOf(K) \in K
  BY <1>2, FirstOfIs
<1>6. CASE K = {}
  BY <1>3, <1>4, <1>5, <1>6
<1>7. CASE K # {}
  BY <1>2, <1>3, <1>4, <1>5, <1>7
<1> QED
  BY <1>6, <1>7

(* An item renewed: only its time and its count change. *)
LEMMA Renewed ==
  ASSUME NEW h \in Items, NEW n \in Nat
  PROVE  LET u == [h EXCEPT !.lastTs = n, !.count = @ + 1] IN
           /\ u \in Items /\ u.id = h.id /\ u.sig = h.sig
           /\ u.lastTs = n /\ u.count = h.count + 1
<1>1. [h EXCEPT !.lastTs = n, !.count = @ + 1] \in Items
  <2>1. h.count + 1 \in Nat
    BY DEF Items
  <2>2. \A c \in Nat : [h EXCEPT !.lastTs = n, !.count = c] \in Items
    BY Zenon DEF Items
  <2> QED
    BY <2>1, <2>2, Zenon
<1>2. /\ [h EXCEPT !.lastTs = n, !.count = @ + 1].lastTs = n
      /\ [h EXCEPT !.lastTs = n, !.count = @ + 1].count = h.count + 1
  BY DEF Items
<1>3. /\ [h EXCEPT !.lastTs = n, !.count = @ + 1].id = h.id
      /\ [h EXCEPT !.lastTs = n, !.count = @ + 1].sig = h.sig
  BY DEF Items
<1> QED
  BY <1>1, <1>2, <1>3

(* upsertNotificationHistory: what stands under the id of the push, if     *)
(* anything does, repeats; the push counts once, and its item is recent.   *)
LEMMA UpsertStep ==
  ASSUME ToastInv, NEW id \in Nat, NEW sig \in Signatures, upsertNotificationHistory(id, sig),
         time' = time, toastSeq' \in Nat, toastSeq <= toastSeq', id < toastSeq',
         toasted' = toasted + 1,
         \A i \in 1..Len(history) : history[i].id = id => Repeats(history[i], sig)
  PROVE  /\ history' \in Seq(Items) /\ forgotten' \in Int
         /\ OwnIds(history)' /\ OneRecent' /\ Past' /\ NotificationsCounted'
         /\ \A i \in 1..Len(history') :
              IF history'[i].id = id
              THEN history'[i].sig = sig /\ history'[i].lastTs = time
              ELSE \E j \in 1..Len(history) :
                     /\ history[j].id = history'[i].id /\ history[j].sig = history'[i].sig
                     /\ history[j].lastTs <= history'[i].lastTs
<1> DEFINE d == Duplicate(history, sig)
<1>0. /\ time \in Nat /\ toastSeq \in Nat /\ forgotten \in Int /\ toasted \in Nat
      /\ history \in Seq(Items) /\ Len(history) \in Nat /\ DOMAIN history = 1..Len(history)
  BY LenProperties DEF ToastInv, ToastTypes
<1>1. \A i \in 1..Len(history) : history[i] \in Items
  BY <1>0, ElementOfSeq
<1>2. /\ d \in Nat
      /\ d = 0 => \A i \in 1..Len(history) : ~Repeats(history[i], sig)
      /\ d > 0 => d \in 1..Len(history) /\ Repeats(history[d], sig)
  BY <1>0, DuplicateIs
<1>3. /\ Counts(history) \in Int /\ Counts(history) + forgotten = toasted
  BY <1>0, CountsAre DEF ToastInv, NotificationsCounted
<1>4. DuplicateWindow \in Nat /\ MAX_NOTIFICATION_HISTORY \in Nat \ {0} /\ Signatures \subseteq Nat
  BY ToastAssumption
<1> DEFINE Up(i) == [history[i] EXCEPT !.lastTs = time, !.count = @ + 1]
           it == [id |-> id, sig |-> sig, lastTs |-> time, count |-> 1]
<1>5. CASE d > 0
  <2>1. /\ history' = [i \in 1..Len(history) |->
                        IF history[i].id = history[d].id THEN Up(i) ELSE history[i]]
        /\ forgotten' = forgotten /\ d \in 1..Len(history)
    BY <1>0, <1>2, <1>5, Zenon DEF upsertNotificationHistory
  <2>2. \A i \in 1..Len(history) : history[i].id = history[d].id <=> i = d
    BY <2>1, Zenon DEF ToastInv, OwnIds
  <2>3. history' = [i \in 1..Len(history) |-> IF i = d THEN Up(i) ELSE history[i]]
    BY <2>1, <2>2, Zenon
  <2>4. \A i \in 1..Len(history) :
          /\ Up(i) \in Items /\ Up(i).id = history[i].id /\ Up(i).sig = history[i].sig
          /\ Up(i).lastTs = time /\ Up(i).count = history[i].count + 1
    BY <1>0, <1>1, Renewed, Zenon
  <2> HIDE DEF Up
  <2>5. /\ history' \in Seq(Items) /\ Len(history') = Len(history)
        /\ \A i \in 1..Len(history) : history'[i] = IF i = d THEN Up(i) ELSE history[i]
    BY <1>0, <1>1, <2>3, <2>4, SMT
  <2>6. \A i \in 1..Len(history) :
          /\ history'[i].id = history[i].id /\ history'[i].sig = history[i].sig
          /\ history'[i].lastTs = IF i = d THEN time ELSE history[i].lastTs
          /\ history'[i].count = IF i = d THEN history[i].count + 1 ELSE history[i].count
    BY <2>4, <2>5
  <2>7. \A i \in 1..Len(history) : history[i].id \in Nat /\ history[i].lastTs \in Nat
    BY <1>1 DEF Items
  <2>8. OwnIds(history)'
    <3>1. \A i \in 1..Len(history) : history[i].id < toastSeq'
      BY <1>0, <2>7, SMT DEF ToastInv, OwnIds
    <3>2. \A i, j \in 1..Len(history) : history[i].id = history[j].id => i = j
      BY DEF ToastInv, OwnIds
    <3> QED
      BY <2>5, <2>6, <3>1, <3>2 DEF OwnIds
  <2>9. history[d].sig = sig /\ time - history[d].lastTs <= DuplicateWindow
    BY <1>2, <1>5 DEF Repeats
  <2>10. ASSUME NEW i \in 1..Len(history), NEW j \in 1..Len(history),
                i < j, history[i].sig = history[j].sig
         PROVE  time - history'[i].lastTs > DuplicateWindow
    <3>1. time - history[i].lastTs > DuplicateWindow
      BY <2>10 DEF ToastInv, OneRecent
    <3>2. i # d
      BY <3>1, <2>9, <2>7, <1>0, <1>4, SMT
    <3> QED
      BY <3>1, <3>2, <2>6
  <2>11. OneRecent'
    BY <2>5, <2>6, <2>10 DEF OneRecent
  <2>12. Counts(history') = Counts(history) + 1
    BY <1>0, <2>1, <2>5, <2>6, CountsOneMore, Zenon
  <2>13. NotificationsCounted'
    BY <2>1, <2>12, <1>0, <1>3 DEF NotificationsCounted
  <2>14. ASSUME NEW i \in 1..Len(history), history[i].id = id
         PROVE  i = d
    <3>1. history[i].sig = sig /\ time - history[i].lastTs <= DuplicateWindow
      BY <2>14 DEF Repeats
    <3>2. CASE i < d
      BY <3>1, <3>2, <2>1, <2>9, <2>7, <1>0, <1>4, SMT DEF ToastInv, OneRecent
    <3>3. CASE d < i
      BY <3>1, <3>3, <2>1, <2>9, <2>7, <1>0, <1>4, SMT DEF ToastInv, OneRecent
    <3> QED
      BY <3>2, <3>3, <2>1
  <2>15. ASSUME NEW i \in 1..Len(history), history[i].id # id
         PROVE  history[i].lastTs <= history'[i].lastTs
    <3>1. CASE i = d
      <4>1. history[d].lastTs <= time
        BY <2>1 DEF ToastInv, Past
      <4> QED
        BY <3>1, <4>1, <2>6
    <3>2. CASE i # d
      BY <3>2, <2>6, <2>7, SMT
    <3> QED
      BY <3>1, <3>2
  <2>16. Past'
    BY <2>5, <2>6, <1>0, SMTT(30) DEF ToastInv, Past
  <2> QED
    BY <1>0, <2>1, <2>5, <2>6, <2>8, <2>9, <2>11, <2>13, <2>14, <2>15, <2>16, SMT
<1>6. CASE d = 0
  <2> DEFINE all == Append(history, it)
             kept == LastN(all, MAX_NOTIFICATION_HISTORY)
  <2>1. history' = kept /\ forgotten' = forgotten + Counts(all) - Counts(kept)
    BY <1>6, SMT DEF upsertNotificationHistory
  <2>2. it \in Items /\ it.count = 1 /\ it.id = id /\ it.sig = sig /\ it.lastTs = time
    BY <1>0 DEF Items
  <2> HIDE DEF it
  <2>3. /\ all \in Seq(Items) /\ Len(all) = Len(history) + 1 /\ all[Len(history) + 1] = it
        /\ \A i \in 1..Len(history) : all[i] = history[i]
    BY <1>0, <2>2, AppendProperties, SMT
  <2>4. Counts(all) = Counts(history) + 1
    BY <1>0, <2>2, CountsAppend
  <2> HIDE DEF all
  <2>5. /\ kept \in Seq(Items)
        /\ \E k \in Nat : /\ Len(kept) + k = Len(all)
                           /\ \A i \in 1..Len(kept) : i + k \in 1..Len(all) /\ kept[i] = all[i + k]
    BY <1>4, <2>3, LastNIs, Zenon
  <2> HIDE DEF kept
  <2>6. PICK k \in Nat : /\ Len(kept) + k = Len(all)
                         /\ \A i \in 1..Len(kept) : i + k \in 1..Len(all) /\ kept[i] = all[i + k]
    BY <2>5
  <2>7. Counts(kept) \in Int /\ Len(kept) \in Nat
    BY <2>5, CountsAre, LenProperties
  <2>8. forgotten' \in Int /\ NotificationsCounted'
    BY <1>0, <1>3, <2>1, <2>4, <2>7, SMT DEF NotificationsCounted
  <2>9. \A i \in 1..(Len(history) + 1) : i = Len(history) + 1 \/ i \in 1..Len(history)
    BY <1>0
  <2>10. \A i \in 1..Len(history) : /\ history[i].id \in Nat /\ history[i].lastTs \in Nat
                                    /\ history[i].id # id
    BY <1>1, <1>2, <1>6 DEF Items
  <2>11. \A i \in 1..Len(all) : all[i].id < toastSeq'
    <3>1. \A i \in 1..Len(history) : history[i].id < toastSeq'
      BY <1>0, <2>10, SMT DEF ToastInv, OwnIds
    <3> QED
      BY <2>2, <2>3, <2>9, <3>1
  <2>12. \A i, j \in 1..Len(all) : all[i].id = all[j].id => i = j
    <3>1. \A i, j \in 1..Len(history) : history[i].id = history[j].id => i = j
      BY DEF ToastInv, OwnIds
    <3> QED
      BY <2>2, <2>3, <2>9, <2>10, <3>1
  <2>13. ASSUME NEW i \in 1..Len(all), NEW j \in 1..Len(all), i < j, all[i].sig = all[j].sig
         PROVE  time - all[i].lastTs > DuplicateWindow
    <3>1. i \in 1..Len(history)
      BY <2>13, <2>3, <1>0
    <3>2. CASE j = Len(history) + 1
      <4>1. ~Repeats(history[i], sig) /\ history[i].sig = sig
        BY <3>1, <3>2, <2>13, <2>2, <2>3, <1>2, <1>6
      <4>2. ~(time - history[i].lastTs <= DuplicateWindow)
        BY <4>1 DEF Repeats
      <4> QED
        BY <4>2, <3>1, <2>3, <2>10, <1>0, <1>4
    <3>3. CASE j \in 1..Len(history)
      BY <3>1, <3>3, <2>13, <2>3 DEF ToastInv, OneRecent
    <3> QED
      BY <3>2, <3>3, <2>3, <2>9
  <2>14. \A i, j \in 1..Len(kept) : (i < j <=> i + k < j + k) /\ (i + k = j + k => i = j)
    BY <2>7
  <2>15. OwnIds(history)'
    <3>1. \A i \in 1..Len(kept) : kept[i].id < toastSeq'
      BY <2>6, <2>11
    <3>2. \A i, j \in 1..Len(kept) : kept[i].id = kept[j].id => i = j
      BY <2>6, <2>12, <2>14, Zenon
    <3> QED
      BY <2>1, <3>1, <3>2 DEF OwnIds
  <2>16. OneRecent'
    <3>1. ASSUME NEW i \in 1..Len(kept), NEW j \in 1..Len(kept),
                 i < j, kept[i].sig = kept[j].sig
          PROVE  time - kept[i].lastTs > DuplicateWindow
      <4>1. /\ i + k \in 1..Len(all) /\ kept[i] = all[i + k]
            /\ j + k \in 1..Len(all) /\ kept[j] = all[j + k]
        BY <2>6
      <4>2. i + k < j + k
        BY <3>1, <2>14
      <4> QED
        BY <3>1, <4>1, <4>2, <2>13
    <3> QED
      BY <2>1, <3>1 DEF OneRecent
  <2>17. \A i \in 1..Len(all) : all[i].lastTs <= time
    BY <2>2, <2>3, <2>9, <1>0 DEF ToastInv, Past
  <2>18. Past'
    BY <2>1, <2>6, <2>17 DEF Past
  <2>19. \A i \in 1..Len(all) :
           IF all[i].id = id
           THEN all[i].sig = sig /\ all[i].lastTs = time
           ELSE \E j \in 1..Len(history) :
                  /\ history[j].id = all[i].id /\ history[j].sig = all[i].sig
                  /\ history[j].lastTs <= all[i].lastTs
    <3> TAKE i \in 1..Len(all)
    <3>1. CASE i = Len(history) + 1
      BY <3>1, <2>2, <2>3
    <3>2. CASE i \in 1..Len(history)
      <4>1. all[i] = history[i] /\ history[i].lastTs <= history[i].lastTs /\ history[i].id # id
        BY <3>2, <2>3, <2>10
      <4> QED
        BY <4>1, <3>2
    <3> QED
      BY <3>1, <3>2, <2>3, <2>9
  <2>20. \A i \in 1..Len(kept) :
           IF kept[i].id = id
           THEN kept[i].sig = sig /\ kept[i].lastTs = time
           ELSE \E j \in 1..Len(history) :
                  /\ history[j].id = kept[i].id /\ history[j].sig = kept[i].sig
                  /\ history[j].lastTs <= kept[i].lastTs
    <3> TAKE i \in 1..Len(kept)
    <3>1. i + k \in 1..Len(all) /\ kept[i] = all[i + k]
      BY <2>6
    <3> QED
      BY <2>19, <3>1
  <2> QED
    BY <2>1, <2>5, <2>8, <2>15, <2>16, <2>18, <2>20
<1>7. d = 0 \/ d > 0
  BY <1>2
<1> QED
  BY <1>5, <1>6, <1>7

(* scheduleToastExpiry: the timeouts are again those of the timers. *)
LEMMA ScheduleIs ==
  ASSUME Timed, NEW id, NEW at, NEW cleared, scheduleToastExpiry(id, at, cleared)
  PROVE  /\ DOMAIN toastTimers' = (DOMAIN toastTimers \ cleared) \cup {id}
         /\ toastTimers'[id] = at
         /\ \A i \in DOMAIN toastTimers \ (cleared \cup {id}) : toastTimers'[i] = toastTimers[i]
         /\ timeouts' = {<<i, toastTimers'[i]>> : i \in DOMAIN toastTimers'}
<1> DEFINE rest == Without(cleared \cup {id}, toastTimers)
           gone == Timeouts(cleared \cup {id}, toastTimers)
<1>1. /\ DOMAIN rest = DOMAIN toastTimers \ (cleared \cup {id})
      /\ \A i \in DOMAIN rest : rest[i] = toastTimers[i]
  BY DEF Without
<1>2. \A p : p \in gone <=> \E i \in (cleared \cup {id}) \cap DOMAIN toastTimers : p = <<i, toastTimers[i]>>
  BY DEF Timeouts
<1>3. /\ toastTimers' = [i \in DOMAIN rest \cup {id} |-> IF i = id THEN at ELSE rest[i]]
      /\ timeouts' = (timeouts \ gone) \cup {<<id, at>>}
  BY DEF scheduleToastExpiry
<1> HIDE DEF rest, gone
<1>4. DOMAIN toastTimers' = (DOMAIN toastTimers \ cleared) \cup {id}
  BY <1>1, <1>3
<1>5. toastTimers'[id] = at
  BY <1>3
<1>6. \A i \in DOMAIN toastTimers \ (cleared \cup {id}) : toastTimers'[i] = toastTimers[i]
  BY <1>1, <1>3
<1>7. \A p : p \in timeouts <=> \E i \in DOMAIN toastTimers : p = <<i, toastTimers[i]>>
  BY DEF Timed
<1>8. \A p : p \in timeouts' <=> \E i \in DOMAIN toastTimers' : p = <<i, toastTimers'[i]>>
  <2>1. ASSUME NEW p, p \in timeouts'
        PROVE  \E i \in DOMAIN toastTimers' : p = <<i, toastTimers'[i]>>
    <3>1. CASE p = <<id, at>>
      BY <3>1, <1>4, <1>5
    <3>2. CASE p # <<id, at>>
      <4>1. p \in timeouts /\ p \notin gone
        BY <2>1, <3>2, <1>3
      <4>2. PICK i \in DOMAIN toastTimers : p = <<i, toastTimers[i]>>
        BY <4>1, <1>7
      <4>3. i \notin cleared \cup {id}
        BY <4>1, <4>2, <1>2
      <4> QED
        BY <4>2, <4>3, <1>4, <1>6
    <3> QED
      BY <3>1, <3>2
  <2>2. ASSUME NEW i \in DOMAIN toastTimers'
        PROVE  <<i, toastTimers'[i]>> \in timeouts'
    <3>1. CASE i = id
      BY <3>1, <1>3, <1>5
    <3>2. CASE i # id
      <4>1. i \in DOMAIN toastTimers \ (cleared \cup {id}) /\ toastTimers'[i] = toastTimers[i]
        BY <2>2, <3>2, <1>4, <1>6
      <4>2. <<i, toastTimers[i]>> \in timeouts
        BY <4>1, <1>7
      <4>3. <<i, toastTimers[i]>> \notin gone
        BY <4>1, <1>2, SMT
      <4> QED
        BY <4>1, <4>2, <4>3, <1>3
    <3> QED
      BY <3>1, <3>2
  <2> QED
    BY <2>1, <2>2
<1>9. timeouts' = {<<i, toastTimers'[i]>> : i \in DOMAIN toastTimers'}
  BY <1>8
<1> QED
  BY <1>4, <1>5, <1>6, <1>9

(* A toast renewed. *)
Prolong(t, n, e) == [t EXCEPT !.lastTs = n, !.count = @ + 1, !.expiresAt = e]

(* A renewed toast keeps its id and signature and has the new times. *)
LEMMA Prolonged ==
  ASSUME NEW t \in OnScreen, NEW n \in Nat, NEW e \in Nat
  PROVE  /\ Prolong(t, n, e) \in OnScreen
         /\ Prolong(t, n, e).id = t.id /\ Prolong(t, n, e).sig = t.sig
         /\ Prolong(t, n, e).lastTs = n /\ Prolong(t, n, e).expiresAt = e
<1>1. Prolong(t, n, e) \in OnScreen
  <2>1. t.count + 1 \in Nat
    BY DEF OnScreen
  <2>2. \A c \in Nat : [t EXCEPT !.lastTs = n, !.count = c, !.expiresAt = e] \in OnScreen
    BY Zenon DEF OnScreen
  <2> QED
    BY <2>1, <2>2, Zenon DEF Prolong
<1>2. Prolong(t, n, e).lastTs = n /\ Prolong(t, n, e).expiresAt = e
  BY DEF OnScreen, Prolong
<1>3. Prolong(t, n, e).id = t.id /\ Prolong(t, n, e).sig = t.sig
  BY DEF OnScreen, Prolong
<1> QED
  BY <1>1, <1>2, <1>3

(* pushToast of one that is on screen: that toast is prolonged. *)
LEMMA DuplicateStep ==
  ASSUME ToastInv, NEW sig \in Signatures, NEW d \in 1..Len(toasts), Repeats(toasts[d], sig),
         pushDuplicate(sig, d), time' = time, toasted' = toasted + 1
  PROVE  ToastInv'
<1> DEFINE id == toasts[d].id
           end == time + sig
           Up(i) == Prolong(toasts[i], time, end)
<1>0. /\ time \in Nat /\ toastSeq \in Nat /\ toasted \in Nat
      /\ toasts \in Seq(OnScreen) /\ Len(toasts) \in Nat /\ DOMAIN toasts = 1..Len(toasts)
      /\ history \in Seq(Items)
  BY LenProperties DEF ToastInv, ToastTypes
<1>1. \A i \in 1..Len(toasts) : toasts[i] \in OnScreen
  BY <1>0, ElementOfSeq
<1>2. end \in Nat /\ DuplicateWindow \in Nat
  BY <1>0, ToastAssumption, SMT
<1>3. /\ scheduleToastExpiry(id, end, {}) /\ upsertNotificationHistory(id, sig)
      /\ toastSeq' = toastSeq
      /\ toasts' = [i \in 1..Len(toasts) |-> IF toasts[i].id # id THEN toasts[i] ELSE Up(i)]
  BY <1>0, Zenon DEF pushDuplicate, Prolong
<1> HIDE DEF end
<1>4. \A i \in 1..Len(toasts) : toasts[i].id = id <=> i = d
  BY DEF ToastInv, OwnIds
<1>5. \A i \in 1..Len(toasts) :
        /\ Up(i) \in OnScreen /\ Up(i).id = toasts[i].id /\ Up(i).sig = toasts[i].sig
        /\ Up(i).lastTs = time /\ Up(i).expiresAt = end
  <2> TAKE i \in 1..Len(toasts)
  <2>1. PICK t \in OnScreen : t = toasts[i]
    BY <1>1
  <2>2. PICK n \in Nat : n = time
    BY <1>0
  <2>3. PICK e \in Nat : e = end
    BY <1>2
  <2>4. /\ Prolong(t, n, e) \in OnScreen
        /\ Prolong(t, n, e).id = t.id /\ Prolong(t, n, e).sig = t.sig
        /\ Prolong(t, n, e).lastTs = n /\ Prolong(t, n, e).expiresAt = e
    BY Prolonged, Zenon
  <2> QED
    BY <2>1, <2>2, <2>3, <2>4
<1> HIDE DEF Up
<1>6. /\ toasts' \in Seq(OnScreen) /\ Len(toasts') = Len(toasts)
      /\ \A i \in 1..Len(toasts) : toasts'[i] = IF i = d THEN Up(i) ELSE toasts[i]
  BY <1>0, <1>1, <1>3, <1>4, <1>5, SMT
<1>7. \A i \in 1..Len(toasts) :
        /\ toasts'[i].id = toasts[i].id /\ toasts'[i].sig = toasts[i].sig
        /\ i = d => toasts'[i].lastTs = time /\ toasts'[i].expiresAt = end
        /\ i # d => /\ toasts'[i].lastTs = toasts[i].lastTs
                    /\ toasts'[i].expiresAt = toasts[i].expiresAt
  BY <1>5, <1>6
<1>8. /\ id \in Nat /\ id < toastSeq /\ toasts[d].sig = sig
      /\ time - toasts[d].lastTs <= DuplicateWindow /\ toasts[d].lastTs \in Nat
  BY <1>1 DEF OnScreen, ToastInv, OwnIds, Repeats
<1> HIDE DEF id
<1>9. \A i \in 1..Len(history) : history[i].id = id => Repeats(history[i], sig)
  <2> SUFFICES ASSUME NEW i \in 1..Len(history), history[i].id = id
               PROVE  Repeats(history[i], sig)
    OBVIOUS
  <2>1. history[i].sig = sig /\ history[i].lastTs >= toasts[d].lastTs
    BY <1>8 DEF ToastInv, Behind, id
  <2>2. history[i].lastTs \in Nat
    BY <1>0, ItemHas
  <2> QED
    BY <2>1, <2>2, <1>0, <1>2, <1>8, SMT DEF Repeats
<1>10. toastSeq' \in Nat /\ toastSeq <= toastSeq' /\ id < toastSeq'
  BY <1>0, <1>3, <1>8
<1>11. /\ history' \in Seq(Items) /\ forgotten' \in Int
       /\ OwnIds(history)' /\ OneRecent' /\ Past' /\ NotificationsCounted'
       /\ \A i \in 1..Len(history') :
            IF history'[i].id = id
            THEN history'[i].sig = sig /\ history'[i].lastTs = time
            ELSE \E j \in 1..Len(history) :
                   /\ history[j].id = history'[i].id /\ history[j].sig = history'[i].sig
                   /\ history[j].lastTs <= history'[i].lastTs
  BY <1>3, <1>8, <1>9, <1>10, UpsertStep
<1>12. ToastTypes'
  BY <1>0, <1>3, <1>6, <1>11, SMTT(30) DEF ToastInv, ToastTypes
<1>13. OwnIds(toasts)'
  BY <1>3, <1>6, <1>7, SMTT(30) DEF ToastInv, OwnIds
<1>14. Behind'
  <2> SUFFICES ASSUME NEW i \in 1..Len(history'), NEW k \in 1..Len(toasts),
                      history'[i].id = toasts[k].id
               PROVE  /\ history'[i].sig = toasts[k].sig
                      /\ history'[i].lastTs >= toasts'[k].lastTs
    BY <1>6, <1>7 DEF Behind
  <2>1. history'[i].lastTs \in Nat /\ toasts[k].lastTs \in Nat
    <3>1. history'[i].lastTs \in Nat
      BY <1>11, ItemHas
    <3> QED
      BY <3>1, <1>1 DEF OnScreen
  <2>2. CASE k = d
    BY <2>2, <1>0, <1>7, <1>8, <1>11, SMTT(30) DEF id
  <2>3. CASE k # d
    <3>1. history'[i].id # id
      BY <2>3, <1>4
    <3>2. PICK j \in 1..Len(history) :
            /\ history[j].id = history'[i].id /\ history[j].sig = history'[i].sig
            /\ history[j].lastTs <= history'[i].lastTs
      BY <3>1, <1>11
    <3>3. history[j].sig = toasts[k].sig /\ history[j].lastTs >= toasts[k].lastTs
      BY <3>2 DEF ToastInv, Behind
    <3>4. history[j].lastTs \in Nat
      BY <1>0, ItemHas
    <3> QED
      BY <2>1, <2>3, <3>2, <3>3, <3>4, <1>7, SMTT(30)
  <2> QED
    BY <2>2, <2>3
<1>15. Timed'
  <2>1. /\ DOMAIN toastTimers' = (DOMAIN toastTimers \ {}) \cup {id}
        /\ toastTimers'[id] = end
        /\ \A i \in DOMAIN toastTimers \ ({} \cup {id}) : toastTimers'[i] = toastTimers[i]
        /\ timeouts' = {<<i, toastTimers'[i]>> : i \in DOMAIN toastTimers'}
    BY <1>3, ScheduleIs, Zenon DEF ToastInv
  <2>2. DOMAIN toastTimers = {toasts[i].id : i \in 1..Len(toasts)}
    BY DEF ToastInv, Timed
  <2>3. DOMAIN toastTimers' = {toasts'[i].id : i \in 1..Len(toasts')}
    BY <2>1, <2>2, <1>6, <1>7, SMTT(30) DEF id
  <2>4. \A i \in 1..Len(toasts) : toastTimers'[toasts'[i].id] = toasts'[i].expiresAt
    <3> TAKE i \in 1..Len(toasts)
    <3>1. CASE i = d
      BY <3>1, <2>1, <1>7 DEF id
    <3>2. CASE i # d
      <4>1. toasts[i].id # id /\ toasts[i].id \in DOMAIN toastTimers
        BY <3>2, <1>4, <2>2
      <4>2. toastTimers'[toasts[i].id] = toastTimers[toasts[i].id]
        BY <4>1, <2>1
      <4> QED
        BY <3>2, <4>2, <1>7 DEF ToastInv, Timed
    <3> QED
      BY <3>1, <3>2
  <2> QED
    BY <2>1, <2>3, <2>4, <1>6 DEF Timed
<1> QED
  BY <1>11, <1>12, <1>13, <1>14, <1>15 DEF ToastInv

(* pushToast of a new one: the oldest make room, and their timers go. *)
LEMMA NewStep ==
  ASSUME ToastInv, NEW sig \in Signatures, pushNew(sig), time' = time, toasted' = toasted + 1
  PROVE  ToastInv'
<1> DEFINE end == time + sig
           t == [id |-> toastSeq, sig |-> sig, lastTs |-> time, count |-> 1, expiresAt |-> end]
           all == Append(toasts, t)
           kept == LastN(all, MAX_TOASTS)
<1>0. /\ time \in Nat /\ toastSeq \in Nat /\ toasted \in Nat
      /\ toasts \in Seq(OnScreen) /\ Len(toasts) \in Nat /\ history \in Seq(Items)
      /\ end \in Nat /\ MAX_TOASTS \in Nat \ {0}
  BY LenProperties, ToastAssumption, SMT DEF ToastInv, ToastTypes
<1>1. /\ toasts' = kept /\ scheduleToastExpiry(toastSeq, end, Ids_(all) \ Ids_(kept))
      /\ upsertNotificationHistory(toastSeq, sig) /\ toastSeq' = toastSeq + 1
  BY DEF pushNew
<1>2. /\ t \in OnScreen /\ t.id = toastSeq /\ t.sig = sig /\ t.lastTs = time
      /\ t.expiresAt = end
  BY <1>0 DEF OnScreen
<1> HIDE DEF end, t
<1>3. /\ all \in Seq(OnScreen) /\ Len(all) = Len(toasts) + 1 /\ all[Len(toasts) + 1] = t
      /\ \A i \in 1..Len(toasts) : all[i] = toasts[i]
  BY <1>0, <1>2, AppendProperties, SMT
<1> HIDE DEF all
<1>4. kept \in Seq(OnScreen) /\ Len(kept) <= MAX_TOASTS
  BY <1>0, <1>3, LastNIs
<1>5. PICK k \in Nat :
        /\ Len(kept) + k = Len(all)
        /\ \A i \in 1..Len(kept) : i + k \in 1..Len(all) /\ kept[i] = all[i + k]
        /\ Len(all) # 0 => k < Len(all)
  BY <1>0, <1>3, LastNIs, Zenon
<1> HIDE DEF kept
<1>6. \A i \in 1..(Len(toasts) + 1) : i = Len(toasts) + 1 \/ i \in 1..Len(toasts)
  BY <1>0
<1>7. \A i \in 1..Len(toasts) : /\ toasts[i] \in OnScreen /\ toasts[i].id \in Nat
                                /\ toasts[i].id < toastSeq /\ toasts[i].id # toastSeq
  <2>1. \A i \in 1..Len(toasts) : toasts[i] \in OnScreen
    BY <1>0, ElementOfSeq
  <2> QED
    BY <2>1, <1>0, SMTT(30) DEF OnScreen, ToastInv, OwnIds
<1>8. /\ \A i \in 1..Len(all) : all[i].id < toastSeq + 1
      /\ \A i, j \in 1..Len(all) : all[i].id = all[j].id => i = j
  <2>1. \A i \in 1..Len(all) : all[i].id < toastSeq + 1
    <3>1. \A i \in 1..Len(toasts) : all[i].id < toastSeq + 1
      BY <1>0, <1>3, <1>7
    <3>2. all[Len(toasts) + 1].id < toastSeq + 1
      BY <1>0, <1>2, <1>3
    <3> QED
      BY <3>1, <3>2, <1>3, <1>6
  <2>2. \A i, j \in 1..Len(toasts) : toasts[i].id = toasts[j].id => i = j
    BY DEF ToastInv, OwnIds
  <2>3. \A i, j \in 1..Len(all) : all[i].id = all[j].id => i = j
    BY <1>2, <1>3, <1>6, <1>7, <2>2
  <2> QED
    BY <2>1, <2>3
<1>9. Len(kept) \in Nat
  BY <1>4, LenProperties
<1>10. /\ \A i, j \in 1..Len(kept) : i + k = j + k => i = j
       /\ \A j \in 1..Len(all) : j > k => j - k \in 1..Len(kept) /\ (j - k) + k = j
  BY <1>3, <1>5, <1>9, <1>0
<1>11. OwnIds(toasts)'
  <2>1. \A i \in 1..Len(kept) : kept[i].id < toastSeq + 1
    BY <1>5, <1>8
  <2>2. \A i, j \in 1..Len(kept) : kept[i].id = kept[j].id => i = j
    BY <1>5, <1>8, <1>10, SMTT(30)
  <2> QED
    BY <1>1, <2>1, <2>2 DEF OwnIds
<1>12. \A i \in 1..Len(history) : history[i].id = toastSeq => Repeats(history[i], sig)
  <2>1. \A i \in 1..Len(history) : history[i].id < toastSeq /\ history[i].id \in Nat
    BY <1>0, ItemHas DEF ToastInv, OwnIds
  <2> QED
    BY <2>1, <1>0
<1>13. toastSeq' \in Nat /\ toastSeq <= toastSeq' /\ toastSeq < toastSeq'
  BY <1>0, <1>1
<1>14. /\ history' \in Seq(Items) /\ forgotten' \in Int
       /\ OwnIds(history)' /\ OneRecent' /\ Past' /\ NotificationsCounted'
       /\ \A i \in 1..Len(history') :
            IF history'[i].id = toastSeq
            THEN history'[i].sig = sig /\ history'[i].lastTs = time
            ELSE \E j \in 1..Len(history) :
                   /\ history[j].id = history'[i].id /\ history[j].sig = history'[i].sig
                   /\ history[j].lastTs <= history'[i].lastTs
  BY <1>0, <1>1, <1>12, <1>13, UpsertStep
<1>15. ToastTypes'
  BY <1>0, <1>1, <1>4, <1>13, <1>14 DEF ToastTypes
<1>16. Behind'
  <2>1. ASSUME NEW i \in 1..Len(history'), NEW j \in 1..Len(all), history'[i].id = all[j].id
        PROVE  history'[i].sig = all[j].sig /\ history'[i].lastTs >= all[j].lastTs
    <3>1. CASE j = Len(toasts) + 1
      BY <3>1, <2>1, <1>0, <1>2, <1>3, <1>14, SMTT(30)
    <3>2. CASE j \in 1..Len(toasts)
      <4>1. history'[i].id = toasts[j].id /\ history'[i].id # toastSeq
        BY <3>2, <2>1, <1>3, <1>7
      <4>2. PICK g \in 1..Len(history) :
              /\ history[g].id = history'[i].id /\ history[g].sig = history'[i].sig
              /\ history[g].lastTs <= history'[i].lastTs
        BY <4>1, <1>14
      <4>3. history[g].sig = toasts[j].sig /\ history[g].lastTs >= toasts[j].lastTs
        BY <3>2, <4>1, <4>2 DEF ToastInv, Behind
      <4>4. history[g].lastTs \in Nat /\ history'[i].lastTs \in Nat
        BY <1>0, <1>14, ItemHas
      <4>5. toasts[j].lastTs \in Nat
        BY <3>2, <1>7 DEF OnScreen
      <4> QED
        BY <3>2, <4>2, <4>3, <4>4, <4>5, <1>3, SMTT(30)
    <3> QED
      BY <3>1, <3>2, <1>3, <1>6
  <2>2. ASSUME NEW i \in 1..Len(history'), NEW j \in 1..Len(kept), history'[i].id = kept[j].id
        PROVE  history'[i].sig = kept[j].sig /\ history'[i].lastTs >= kept[j].lastTs
    <3>1. j + k \in 1..Len(all) /\ kept[j] = all[j + k]
      BY <1>5
    <3> QED
      BY <2>1, <2>2, <3>1, Zenon
  <2> QED
    BY <2>2, <1>1 DEF Behind
<1>17. Timed'
  <2> DEFINE cleared == Ids_(all) \ Ids_(kept)
  <2>1. /\ DOMAIN toastTimers' = (DOMAIN toastTimers \ cleared) \cup {toastSeq}
        /\ toastTimers'[toastSeq] = end
        /\ \A i \in DOMAIN toastTimers \ (cleared \cup {toastSeq}) : toastTimers'[i] = toastTimers[i]
        /\ timeouts' = {<<i, toastTimers'[i]>> : i \in DOMAIN toastTimers'}
    BY <1>1, ScheduleIs, Zenon DEF ToastInv
  <2>2. /\ Ids_(all) = {all[i].id : i \in 1..Len(all)}
        /\ Ids_(kept) = {kept[i].id : i \in 1..Len(kept)}
    BY <1>3, <1>4, LenProperties DEF Ids_
  <2>3. DOMAIN toastTimers = {toasts[i].id : i \in 1..Len(toasts)}
    BY DEF ToastInv, Timed
  <2>4. Ids_(all) = DOMAIN toastTimers \cup {toastSeq}
    <3>1. \A i \in 1..Len(toasts) : i \in 1..Len(all) /\ all[i].id = toasts[i].id
      BY <1>0, <1>3
    <3>2. Len(toasts) + 1 \in 1..Len(all) /\ all[Len(toasts) + 1].id = toastSeq
      BY <1>0, <1>2, <1>3
    <3> QED
      BY <2>2, <2>3, <3>1, <3>2, <1>3, <1>6
  <2>5. Ids_(kept) \subseteq Ids_(all)
    BY <2>2, <1>5
  <2>6. toastSeq \in Ids_(kept)
    <3>1. Len(all) - k \in 1..Len(kept) /\ (Len(all) - k) + k = Len(all)
      BY <1>0, <1>3, <1>5, <1>9, SMT
    <3>2. kept[Len(all) - k] = all[Len(all)]
      BY <3>1, <1>5
    <3>3. all[Len(all)].id = toastSeq
      BY <1>2, <1>3
    <3> QED
      BY <3>1, <3>2, <3>3, <2>2
  <2>7. DOMAIN toastTimers' = Ids_(kept)
    BY <2>1, <2>4, <2>5, <2>6
  <2>8. ASSUME NEW i \in 1..Len(kept)
        PROVE  toastTimers'[kept[i].id] = kept[i].expiresAt
    <3>1. i + k \in 1..Len(all) /\ kept[i] = all[i + k] /\ kept[i].id \in Ids_(kept)
      BY <1>5, <2>2
    <3>2. CASE i + k = Len(toasts) + 1
      BY <3>1, <3>2, <2>1, <1>2, <1>3
    <3>3. CASE i + k \in 1..Len(toasts)
      <4>1. kept[i] = toasts[i + k]
        BY <3>1, <3>3, <1>3
      <4>2. kept[i].id \in DOMAIN toastTimers /\ kept[i].id # toastSeq
        BY <3>3, <4>1, <2>3, <1>7
      <4>3. toastTimers'[kept[i].id] = toastTimers[kept[i].id]
        BY <4>2, <3>1, <2>1
      <4> QED
        BY <3>3, <4>1, <4>3, Zenon DEF ToastInv, Timed
    <3> QED
      BY <3>1, <3>2, <3>3, <1>3, <1>6
  <2>9. DOMAIN toastTimers' = {kept[i].id : i \in 1..Len(kept)}
    BY <2>2, <2>7
  <2>10. timeouts' = {<<i, toastTimers'[i]>> : i \in DOMAIN toastTimers'}
    BY <2>1
  <2> QED
    BY <2>8, <2>9, <2>10, <1>1 DEF Timed
<1> QED
  BY <1>11, <1>14, <1>15, <1>16, <1>17 DEF ToastInv

(* pushToast, of one that is on screen or not. *)
LEMMA PushStep ==
  ASSUME ToastInv, NEW sig \in Signatures, pushToast(sig)
  PROVE  ToastInv'
<1> DEFINE d == Duplicate(toasts, sig)
<1>1. /\ IF d > 0 THEN pushDuplicate(sig, d) ELSE pushNew(sig)
      /\ toasted' = toasted + 1 /\ time' = time
  BY DEF pushToast
<1>2. toasts \in Seq(OnScreen)
  BY DEF ToastInv, ToastTypes
<1>3. d > 0 => d \in 1..Len(toasts) /\ Repeats(toasts[d], sig)
  BY <1>2, DuplicateIs
<1> HIDE DEF d
<1>4. CASE d > 0
  BY <1>1, <1>3, <1>4, DuplicateStep
<1>5. CASE ~(d > 0)
  BY <1>1, <1>5, NewStep
<1> QED
  BY <1>4, <1>5

(* expireToast and dismissToast: a toast that leaves takes its timer along. *)
LEMMA TakeOffStep ==
  ASSUME ToastInv, NEW ids, NEW gone, TakeOff(ids),
         timeouts' = (timeouts \ gone) \ Timeouts(ids, toastTimers),
         gone \subseteq {t \in timeouts : t[1] \in ids}
  PROVE  ToastInv'
<1> DEFINE K == {i \in DOMAIN toasts : toasts[i].id \notin ids}
           kept == Keep(toasts, K)
<1>1. /\ toasts' = kept /\ toastTimers' = Without(ids, toastTimers)
      /\ time' = time /\ history' = history /\ toastSeq' = toastSeq
      /\ toasted' = toasted /\ forgotten' = forgotten
  BY DEF TakeOff
<1>2. /\ toasts \in Seq(OnScreen) /\ Len(toasts) <= MAX_TOASTS /\ Len(toasts) \in Nat
      /\ DOMAIN toasts = 1..Len(toasts)
  BY LenProperties DEF ToastInv, ToastTypes
<1>3. kept \in Seq(OnScreen) /\ \E e : Drawn(toasts, K, Len(toasts), kept, e)
  BY <1>2, KeepIs, Zenon
<1>4. Len(kept) \in Nat
  BY <1>3, LenProperties
<1> HIDE DEF kept
<1>5. PICK e : Drawn(toasts, K, Len(toasts), kept, e)
  BY <1>3, Zenon
<1>6. \A i \in 1..Len(kept) : /\ e[i] \in 1..Len(toasts) /\ toasts[e[i]].id \notin ids
                              /\ kept[i] = toasts[e[i]]
  BY <1>5 DEF Drawn
<1>7. \A i \in 1..Len(toasts) : toasts[i].id \notin ids =>
        \E j \in 1..Len(kept) : kept[j] = toasts[i]
  <2> TAKE i \in 1..Len(toasts)
  <2> HAVE toasts[i].id \notin ids
  <2>1. i \in K \cap (1..Len(toasts))
    BY <1>2
  <2>2. PICK j \in 1..Len(kept) : e[j] = i
    BY <1>5, <2>1 DEF Drawn
  <2> QED
    BY <1>6, <2>2
<1>8. \A i, j \in 1..Len(kept) : e[i] = e[j] => i = j
  <2>1. \A i, j \in 1..Len(kept) : i < j => e[i] < e[j]
    BY <1>5 DEF Drawn
  <2>2. \A i \in 1..Len(kept) : e[i] \in Nat
    BY <1>2, <1>6, SMT
  <2>3. \A i, j \in 1..Len(kept) : i < j \/ j < i \/ i = j
    BY <1>4
  <2>4. \A i, j \in 1..Len(kept) : i < j => e[i] # e[j]
    BY <2>1, <2>2
  <2> QED
    BY <2>3, <2>4
<1>9. Len(kept) <= Len(toasts)
  BY <1>2, <1>4, <1>5, DrawnShorter
<1>10. OwnIds(toasts)'
  <2>1. \A i \in 1..Len(kept) : kept[i].id < toastSeq
    BY <1>6 DEF ToastInv, OwnIds
  <2>2. \A i, j \in 1..Len(kept) : kept[i].id = kept[j].id => i = j
    <3>1. \A i, j \in 1..Len(toasts) : toasts[i].id = toasts[j].id => i = j
      BY DEF ToastInv, OwnIds
    <3> QED
      BY <3>1, <1>6, <1>8, SMTT(30)
  <2> QED
    BY <1>1, <2>1, <2>2 DEF OwnIds
<1>11. ToastTypes'
  BY <1>1, <1>2, <1>3, <1>4, <1>9, ToastAssumption DEF ToastInv, ToastTypes
<1>12. Behind'
  <2>1. ASSUME NEW i \in 1..Len(history), NEW j \in 1..Len(kept), history[i].id = kept[j].id
        PROVE  history[i].sig = kept[j].sig /\ history[i].lastTs >= kept[j].lastTs
    <3>1. PICK n \in 1..Len(toasts) : kept[j] = toasts[n]
      BY <1>6
    <3> QED
      BY <2>1, <3>1 DEF ToastInv, Behind
  <2> QED
    BY <2>1, <1>1 DEF Behind
<1>13. Timed'
  <2>1. /\ DOMAIN toastTimers' = DOMAIN toastTimers \ ids
        /\ \A i \in DOMAIN toastTimers \ ids : toastTimers'[i] = toastTimers[i]
    BY <1>1 DEF Without
  <2>2. /\ DOMAIN toastTimers = {toasts[i].id : i \in 1..Len(toasts)}
        /\ \A i \in 1..Len(toasts) : toastTimers[toasts[i].id] = toasts[i].expiresAt
        /\ timeouts = {<<i, toastTimers[i]>> : i \in DOMAIN toastTimers}
    BY DEF ToastInv, Timed
  <2>3. DOMAIN toastTimers' = {kept[i].id : i \in 1..Len(kept)}
    <3>1. \A x \in DOMAIN toastTimers' : \E i \in 1..Len(kept) : x = kept[i].id
      BY <2>1, <2>2, <1>7, SMT
    <3>2. \A i \in 1..Len(kept) : kept[i].id \in DOMAIN toastTimers'
      BY <2>1, <2>2, <1>6, SMTT(30)
    <3> QED
      BY <3>1, <3>2, Zenon
  <2>4. ASSUME NEW i \in 1..Len(kept) PROVE toastTimers'[kept[i].id] = kept[i].expiresAt
    <3>1. PICK n \in 1..Len(toasts) : kept[i] = toasts[n] /\ kept[i].id \notin ids
      BY <1>6
    <3> QED
      BY <2>1, <2>2, <3>1
  <2>5. timeouts' = {<<i, toastTimers'[i]>> : i \in DOMAIN toastTimers'}
    <3>1. Timeouts(ids, toastTimers) = {<<i, toastTimers[i]>> : i \in ids \cap DOMAIN toastTimers}
      BY DEF Timeouts
    <3>2. \A i \in DOMAIN toastTimers : <<i, toastTimers[i]>>[1] = i
      OBVIOUS
    <3>3. \A x \in timeouts' : \E i \in DOMAIN toastTimers' : x = <<i, toastTimers'[i]>>
      BY <2>1, <2>2, <3>1, SMT
    <3>4. \A i \in DOMAIN toastTimers' : <<i, toastTimers'[i]>> \in timeouts'
      BY <2>1, <2>2, <3>1, <3>2, SMT
    <3> QED
      BY <3>3, <3>4
  <2> QED
    BY <2>3, <2>4, <2>5, <1>1 DEF Timed
<1>14. OwnIds(history)' /\ OneRecent' /\ Past' /\ NotificationsCounted'
  BY <1>1 DEF ToastInv, OwnIds, OneRecent, Past, NotificationsCounted, Counts
<1> QED
  BY <1>10, <1>11, <1>12, <1>13, <1>14 DEF ToastInv

(* clearNotificationHistory leaves nothing to count. *)
LEMMA CountsNone == ASSUME NEW h, h = <<>> PROVE Counts(h) = 0
<1>1. Len(h) = 0 /\ h \in Seq(Items)
  OBVIOUS
<1>2. CountsOf(h) \in Seq(Int) /\ Len(CountsOf(h)) = 0 /\ Counts(h) = Total(CountsOf(h))
  BY <1>1, CountsAre, Zenon
<1>3. PICK f : SumsOf(CountsOf(h), f) /\ Total(CountsOf(h)) = f[Len(CountsOf(h))]
  BY <1>2, TotalIs
<1> QED
  BY <1>2, <1>3 DEF SumsOf

(* A step of something else. *)
LEMMA SameScreen ==
  ASSUME ToastInv, UNCHANGED <<time, toasts, history, toastTimers, timeouts, toastSeq,
                               toasted, forgotten>>
  PROVE  ToastInv'
<1>1. ToastTypes' /\ NotificationsCounted' /\ Timed'
  BY DEF ToastInv, ToastTypes, NotificationsCounted, Counts, Timed
<1>2. OwnIds(toasts)' /\ OwnIds(history)' /\ OneRecent' /\ Past' /\ Behind'
  BY SMTT(30) DEF ToastInv, OwnIds, OneRecent, Past, Behind
<1> QED
  BY <1>1, <1>2 DEF ToastInv

(* PassTime: what was recent may now be over, never the other way round. *)
LEMMA LaterStep == ASSUME ToastInv, PassTime PROVE ToastInv'
<1>1. /\ time \in Nat /\ time' = time + 1 /\ history \in Seq(Items)
      /\ UNCHANGED <<toasts, history, toastTimers, timeouts, toastSeq, toasted, forgotten>>
  BY DEF PassTime, ToastInv, ToastTypes
<1>2. DuplicateWindow \in Nat
  BY ToastAssumption
<1>3. \A i \in 1..Len(history) : history[i].lastTs \in Nat
  BY <1>1, ItemHas
<1>4. OneRecent'
  <2> SUFFICES ASSUME NEW i \in 1..Len(history), NEW j \in 1..Len(history),
                      i < j, history[i].sig = history[j].sig
               PROVE  (time + 1) - history[i].lastTs > DuplicateWindow
    BY <1>1 DEF OneRecent
  <2>1. time - history[i].lastTs > DuplicateWindow
    BY DEF ToastInv, OneRecent
  <2> QED
    BY <2>1, <1>1, <1>2, <1>3
<1>5. Past'
  <2>1. \A i \in 1..Len(history) : history[i].lastTs <= time
    BY DEF ToastInv, Past
  <2>2. \A i \in 1..Len(history) : history[i].lastTs <= time + 1
    BY <2>1, <1>1, <1>3
  <2> QED
    BY <2>2, <1>1 DEF Past
<1>6. ToastTypes' /\ NotificationsCounted'
  BY <1>1 DEF ToastInv, ToastTypes, NotificationsCounted, Counts
<1>7. OwnIds(toasts)' /\ OwnIds(history)' /\ Behind' /\ Timed'
  BY <1>1, SMT DEF ToastInv, OwnIds, Behind, Timed
<1> QED
  BY <1>4, <1>5, <1>6, <1>7 DEF ToastInv

(* The invariant of the notifications: it holds at first, and every push,  *)
(* timeout, dismissal, clearing and moment that passes keeps it.           *)
THEOREM ToastInvariant == ToastSpec => []ToastInv
<1>1. ToastInit => ToastInv
  <2> SUFFICES ASSUME ToastInit PROVE ToastInv
    OBVIOUS
  <2>1. /\ time = 0 /\ toasts = <<>> /\ history = <<>> /\ DOMAIN toastTimers = {}
        /\ timeouts = {} /\ toastSeq \in Nat /\ toasted = 0 /\ forgotten = 0
    BY DEF ToastInit
  <2>2. /\ toasts \in Seq(OnScreen) /\ history \in Seq(Items)
        /\ Len(toasts) = 0 /\ Len(history) = 0
    BY <2>1
  <2>3. \A i \in 1..0 : FALSE
    OBVIOUS
  <2>4. Counts(history) = 0
    BY <2>1, <2>2, CountsNone
  <2>5. ToastTypes /\ NotificationsCounted
    BY <2>1, <2>2, <2>4, ToastAssumption DEF ToastTypes, NotificationsCounted
  <2>6. OwnIds(toasts) /\ OwnIds(history) /\ OneRecent /\ Past /\ Behind
    BY <2>2, <2>3 DEF OwnIds, OneRecent, Past, Behind
  <2>7. Timed
    BY <2>1, <2>2, <2>3 DEF Timed
  <2> QED
    BY <2>5, <2>6, <2>7 DEF ToastInv
<1>2. ToastInv /\ [ToastNext]_toast_vars => ToastInv'
  <2> SUFFICES ASSUME ToastInv, [ToastNext]_toast_vars PROVE ToastInv'
    OBVIOUS
  <2>1. CASE \E sig \in Signatures : Push(sig)
    BY <2>1, PushStep DEF Push
  <2>2. CASE \E sig \in Signatures : handleWireClientError(sig)
    <3>1. PICK sig \in Signatures : handleWireClientError(sig)
      BY <2>2
    <3>2. CASE pushToast(sig)
      BY <3>2, PushStep
    <3>3. CASE UNCHANGED <<time, toasts, history, toastTimers, timeouts, toastSeq,
                           toasted, forgotten>>
      BY <3>3, SameScreen
    <3> QED
      BY <3>1, <3>2, <3>3 DEF handleWireClientError
  <2>3. CASE \E timeout \in timeouts : expireToast(timeout)
    <3>1. PICK t \in timeouts : expireToast(t)
      BY <2>3
    <3>2. {t} \subseteq {x \in timeouts : x[1] \in {t[1]}}
      OBVIOUS
    <3> QED
      BY <3>1, <3>2, TakeOffStep, Zenon DEF expireToast
  <2>4. ASSUME NEW ids, dismiss(ids) PROVE ToastInv'
    <3>1. timeouts' = (timeouts \ {}) \ Timeouts(ids, toastTimers)
      BY <2>4 DEF dismiss
    <3>2. {} \subseteq {x \in timeouts : x[1] \in ids}
      OBVIOUS
    <3>3. TakeOff(ids)
      BY <2>4 DEF dismiss
    <3>4. PICK none : none = {}
      BY Zenon
    <3> QED
      BY <3>1, <3>2, <3>3, <3>4, TakeOffStep, SMT
  <2>5. CASE dismissToast \/ dismissAllToasts
    BY <2>4, <2>5, Zenon DEF dismissToast, dismissAllToasts
  <2>6. CASE clearNotificationHistory
    <3>1. /\ history' = <<>> /\ forgotten' = forgotten + Counts(history)
          /\ UNCHANGED <<time, toasts, toastTimers, timeouts, toastSeq, toasted>>
      BY <2>6 DEF clearNotificationHistory
    <3>2. history' \in Seq(Items) /\ Len(history') = 0 /\ \A i \in 1..0 : FALSE
      BY <3>1
    <3>3. Counts(history)' = 0
      BY <3>1, <3>2, CountsNone, Zenon DEF Counts
    <3>4. Counts(history) \in Int
      BY CountsAre DEF ToastInv, ToastTypes
    <3>5. ToastTypes' /\ NotificationsCounted'
      BY <3>1, <3>2, <3>3, <3>4 DEF ToastInv, ToastTypes, NotificationsCounted
    <3>6. OwnIds(toasts)' /\ OwnIds(history)' /\ OneRecent' /\ Past' /\ Behind' /\ Timed'
      BY <3>1, <3>2, SMTT(30) DEF ToastInv, OwnIds, OneRecent, Past, Behind, Timed
    <3> QED
      BY <3>5, <3>6 DEF ToastInv
  <2>7. CASE PassTime
    BY <2>7, LaterStep
  <2>8. CASE UNCHANGED toast_vars
    BY <2>8, SameScreen DEF toast_vars
  <2> QED
    BY <2>1, <2>2, <2>3, <2>5, <2>6, <2>7, <2>8 DEF ToastNext
<1> QED
  BY <1>1, <1>2, PTL DEF ToastSpec

(* Every toast on screen has one timeout, at the end of its time there, no *)
(* other timeout is left, there are never more than MAX_TOASTS, and the    *)
(* history counts every notification once (pushToast, expireToast,         *)
(* dismissToast, upsertNotificationHistory), whatever the limits, the      *)
(* window and the times on screen.                                         *)
THEOREM ToastsAlwaysAccount == ToastSpec => []ToastsAccount
<1>1. ToastInv => ToastsAccount
  <2> SUFFICES ASSUME ToastInv PROVE ToastsAccount
    OBVIOUS
  <2>1. DOMAIN toasts = 1..Len(toasts) /\ Len(toasts) <= MAX_TOASTS
    BY LenProperties DEF ToastInv, ToastTypes
  <2>2. timeouts = {<<toasts[i].id, toasts[i].expiresAt>> : i \in 1..Len(toasts)}
    BY SMT DEF ToastInv, Timed
  <2>3. NotificationsCounted
    BY DEF ToastInv
  <2> QED
    BY <2>1, <2>2, <2>3 DEF ToastsAccount, ToastsExpire
<1> QED
  BY <1>1, ToastInvariant, PTL

-----------------------------------------------------------------------------
(* The files of a recording. *)

(* What a BufWriter was given: what it wrote out and what it still has. *)
Given(f) == f.disk \o f.buf
BufferOf(S) == [disk : Seq(S), buf : Seq(S)]

(* A concatenation, cell by cell. *)
LEMMA Joined ==
  ASSUME NEW S, NEW s \in Seq(S), NEW t \in Seq(S)
  PROVE  /\ s \o t \in Seq(S) /\ Len(s \o t) = Len(s) + Len(t)
         /\ \A i \in 1..Len(s) : (s \o t)[i] = s[i]
         /\ \A i \in 1..Len(t) : (s \o t)[Len(s) + i] = t[i]
<1>1. Len(s) \in Nat /\ Len(t) \in Nat
  BY LenProperties
<1>2. /\ s \o t \in Seq(S) /\ Len(s \o t) = Len(s) + Len(t)
      /\ \A i \in 1..(Len(s) + Len(t)) :
           (s \o t)[i] = IF i <= Len(s) THEN s[i] ELSE t[i - Len(s)]
  BY ConcatProperties
<1>3. \A i \in 1..Len(s) : i \in 1..(Len(s) + Len(t)) /\ i <= Len(s)
  BY <1>1
<1>4. \A i \in 1..Len(t) : /\ Len(s) + i \in 1..(Len(s) + Len(t))
                           /\ ~(Len(s) + i <= Len(s)) /\ (Len(s) + i) - Len(s) = i
  BY <1>1
<1> QED
  BY <1>2, <1>3, <1>4

(* A flush writes out the rest; what is on disk is the first part. *)
LEMMA FlushedIs ==
  ASSUME NEW S, NEW f \in BufferOf(S)
  PROVE  /\ Flushed(f) \in BufferOf(S) /\ Given(Flushed(f)) = Given(f)
         /\ Flushed(f).buf = <<>> /\ Given(f) \in Seq(S)
         /\ Begins(f.disk, Given(f)) /\ (f.buf = <<>> => f.disk = Given(f))
<1> DEFINE d == f.disk
           b == f.buf
           a == Given(f)
<1>1. d \in Seq(S) /\ b \in Seq(S) /\ a = d \o b
  BY DEF BufferOf, Given
<1> HIDE DEF d, b, a
<1>2. a \in Seq(S) /\ Len(a) = Len(d) + Len(b) /\ \A i \in 1..Len(d) : a[i] = d[i]
  BY <1>1, Joined
<1>3. Begins(d, a)
  BY <1>1, <1>2, LenProperties DEF Begins
<1>4. Flushed(f) = [disk |-> a, buf |-> <<>>] /\ <<>> \in Seq(S)
  BY <1>1 DEF Flushed, d, b
<1>5. \A s \in Seq(S) : s \o <<>> = s
  OBVIOUS
<1>6. Flushed(f) \in BufferOf(S) /\ Flushed(f).buf = <<>> /\ Flushed(f).disk = a
  BY <1>2, <1>4 DEF BufferOf
<1>7. Given(Flushed(f)) = a
  BY <1>2, <1>5, <1>6 DEF Given
<1>8. b = <<>> => d = a
  BY <1>1, <1>5
<1> QED
  BY <1>2, <1>3, <1>6, <1>7, <1>8 DEF a, b, d

(* write_all hands the data over, behind what was given before. *)
LEMMA PutIs ==
  ASSUME NEW S, NEW f \in BufferOf(S), NEW data \in Seq(S)
  PROVE  Put(f, data) \in BufferOf(S) /\ Given(Put(f, data)) = Given(f) \o data
<1> DEFINE g == IF Len(f.buf) + Len(data) > RecBuffer THEN Flushed(f) ELSE f
<1>1. g \in BufferOf(S) /\ Given(g) = Given(f)
  BY FlushedIs
<1>2. Len(f.buf) \in Nat /\ Len(data) \in Nat /\ RecBuffer \in Nat
  BY LenProperties, RecordingAssumption DEF BufferOf
<1>3. Len(data) >= RecBuffer => g.buf = <<>>
  <2>1. CASE Len(f.buf) + Len(data) > RecBuffer
    BY <2>1, FlushedIs
  <2>2. CASE ~(Len(f.buf) + Len(data) > RecBuffer)
    <3>1. Len(data) >= RecBuffer => Len(f.buf) = 0
      BY <1>2, <2>2
    <3>2. f.buf \in Seq(S)
      BY DEF BufferOf
    <3>3. Len(f.buf) = 0 => f.buf = <<>>
      BY <3>2, EmptySeq
    <3> QED
      BY <2>2, <3>1, <3>3
  <2> QED
    BY <2>1, <2>2
<1>4. Put(f, data) = IF Len(data) >= RecBuffer
                     THEN [g EXCEPT !.disk = g.disk \o data] ELSE [g EXCEPT !.buf = g.buf \o data]
  BY DEF Put
<1> HIDE DEF g
<1>5. g.disk \in Seq(S) /\ g.buf \in Seq(S) /\ g = [disk |-> g.disk, buf |-> g.buf]
  BY <1>1 DEF BufferOf
<1>6. CASE Len(data) >= RecBuffer
  <2>1. g.buf = <<>> /\ Put(f, data) = [disk |-> g.disk \o data, buf |-> <<>>]
    BY <1>3, <1>4, <1>5, <1>6
  <2>2. \A s \in Seq(S) : s \o <<>> = s
    OBVIOUS
  <2>3. g.disk \o data \in Seq(S)
    BY <1>5, Joined
  <2>4. Given(f) = g.disk
    BY <1>1, <1>5, <2>1, <2>2 DEF Given
  <2>5. Given(Put(f, data)) = g.disk \o data
    BY <2>1, <2>2, <2>3, SMT DEF Given
  <2> QED
    <3>1. <<>> \in Seq(S)
      OBVIOUS
    <3>2. Put(f, data) \in BufferOf(S)
      BY <2>1, <2>3, <3>1, SMT DEF BufferOf
    <3> QED
      BY <2>4, <2>5, <3>2
<1>7. CASE ~(Len(data) >= RecBuffer)
  <2>1. Put(f, data) = [disk |-> g.disk, buf |-> g.buf \o data]
    BY <1>4, <1>5, <1>7
  <2>2. g.buf \o data \in Seq(S)
    BY <1>5, Joined
  <2>3. g.disk \o (g.buf \o data) = (g.disk \o g.buf) \o data
    BY <1>5, ConcatAssociative, SMTT(30)
  <2> QED
    <3>1. Put(f, data) \in BufferOf(S)
      BY <1>5, <2>1, <2>2, SMT DEF BufferOf
    <3>2. Given(Put(f, data)) = g.disk \o (g.buf \o data)
      <4>1. \A x, y : Given([disk |-> x, buf |-> y]) = x \o y
        BY DEF Given
      <4> QED
        BY <2>1, <4>1, Zenon
    <3>3. Given(f) = g.disk \o g.buf
      BY <1>1 DEF Given
    <3> QED
      BY <2>3, <3>1, <3>2, <3>3
<1> QED
  BY <1>6, <1>7

-----------------------------------------------------------------------------
(* The inductive invariant of a session-dir.                               *)
RecFiles == {"raw", "index", "lines"}
IndexPiece == [part : 1..3, off : Nat, len : Nat]
LinePiece == [line : Nat, part : 1..2]

RecTypes ==
  /\ writer \in [kind : Writers, phase : {"none", "recv", "row", "end"},
                 count : Nat, todo : Seq(RecFiles)]
  /\ on_disk = [n \in RecFiles |-> on_disk[n]]
  /\ on_disk["raw"] \in BufferOf(Nat) /\ on_disk["index"] \in BufferOf(IndexPiece)
  /\ on_disk["lines"] \in BufferOf(LinePiece)
  /\ raw_pos \in Nat /\ frames \in Seq(Nat) /\ recordings \in Nat
  /\ killed \in BOOLEAN /\ reused \in BOOLEAN

(* A buffer is empty when nobody writes, and an ending recording still has *)
(* to flush the ones that are not.                                         *)
RecPhases ==
  /\ killed /\ writer.phase # "none" => reused
  /\ writer.phase = "none" => \A n \in RecFiles : on_disk[n].buf = <<>>
  /\ writer.phase = "end" =>
       /\ writer.todo # <<>>
       /\ \A n \in RecFiles :
            on_disk[n].buf = <<>> \/ \E i \in 1..Len(writer.todo) : writer.todo[i] = n
  /\ writer.phase # "none" /\ ~writer.kind.lines => on_disk["lines"].buf = <<>>
  /\ recordings = 0 => /\ frames = <<>> /\ writer.phase = "none"
                       /\ \A n \in RecFiles : on_disk[n] = NewFile
  /\ writer.phase = "row" => Len(frames) > 0 /\ frames[Len(frames)] <= raw_pos

(* The frames that have their row. *)
Rows == IF writer.phase = "row" THEN Len(frames) - 1 ELSE Len(frames)

(* Frame k was put at offset o[k] of raw.bin, and its row says so.  What a *)
(* kill left of a file is the first part of it.                            *)
Laid(o) ==
  LET r == Given(on_disk["raw"])
      x == Given(on_disk["index"])
      N == Len(frames)
  IN  /\ o \in Seq(Nat) /\ Len(o) = N + 1 /\ o[1] = 0
      /\ \A k \in 1..N : o[k + 1] = o[k] + frames[k]
      /\ Len(r) <= o[N + 1] /\ Len(x) <= 3 * N
      /\ \A k \in 1..N : \A i \in 1..frames[k] : o[k] + i <= Len(r) => r[o[k] + i] = k
      /\ \A k \in 1..N, p \in 1..3 :
           3 * k - 3 + p <= Len(x)
             => x[3 * k - 3 + p] = [part |-> p, off |-> o[k], len |-> frames[k]]
      /\ ~killed => Len(r) = o[N + 1] /\ Len(x) = 3 * Rows
      /\ writer.phase # "none" => raw_pos = o[N + 1]

(* lines.jsonl has the lines of the first frames. *)
LinesLaid ==
  LET l == Given(on_disk["lines"])
  IN  /\ Len(l) <= 2 * Len(frames)
      /\ \A i \in 1..Len(l) : l[i] = [line |-> (i + 1) \div 2, part |-> 2 - (i % 2)]
      /\ writer.phase # "none" /\ writer.kind.lines => Len(l) = 2 * Rows

RecInv == RecTypes /\ RecPhases /\ (~reused => LinesLaid /\ \E o : Laid(o))

(* A row adds its three pieces. *)
LEMMA RowPut ==
  ASSUME NEW f \in BufferOf(IndexPiece), NEW off \in Nat, NEW len \in Nat
  PROVE  LET g == PutRow(f, off, len)
         IN  /\ g \in BufferOf(IndexPiece) /\ Given(g) \in Seq(IndexPiece)
             /\ Len(Given(g)) = Len(Given(f)) + 3
             /\ \A i \in 1..Len(Given(f)) : Given(g)[i] = Given(f)[i]
             /\ \A p \in 1..3 :
                  Given(g)[Len(Given(f)) + p] = [part |-> p, off |-> off, len |-> len]
<1> DEFINE P(p) == [part |-> p, off |-> off, len |-> len]
           g1 == Put(f, <<P(1)>>)
           g2 == Put(g1, <<P(2)>>)
           g3 == Put(g2, <<P(3)>>)
<1>1. PutRow(f, off, len) = g3
  BY DEF PutRow
<1>2. /\ <<P(1)>> \in Seq(IndexPiece) /\ <<P(2)>> \in Seq(IndexPiece)
      /\ <<P(3)>> \in Seq(IndexPiece)
  BY DEF IndexPiece
<1> HIDE DEF P
<1>3. Given(f) \in Seq(IndexPiece)
  BY FlushedIs
<1>4. g1 \in BufferOf(IndexPiece) /\ Given(g1) = Given(f) \o <<P(1)>>
  BY <1>2, PutIs, Zenon
<1> HIDE DEF g1
<1>5. g2 \in BufferOf(IndexPiece) /\ Given(g2) = Given(g1) \o <<P(2)>>
  BY <1>2, <1>4, PutIs, Zenon
<1> HIDE DEF g2
<1>6. g3 \in BufferOf(IndexPiece) /\ Given(g3) = Given(g2) \o <<P(3)>>
  BY <1>2, <1>5, PutIs, Zenon
<1> HIDE DEF g3
<1> DEFINE s == Given(f)
           t == ((s \o <<P(1)>>) \o <<P(2)>>) \o <<P(3)>>
<1>7. /\ t \in Seq(IndexPiece) /\ Len(t) = Len(s) + 3 /\ \A i \in 1..Len(s) : t[i] = s[i]
      /\ t[Len(s) + 1] = P(1) /\ t[Len(s) + 2] = P(2) /\ t[Len(s) + 3] = P(3)
  <2>0. s \in Seq(IndexPiece) /\ Len(s) \in Nat
    BY <1>3, LenProperties
  <2> HIDE DEF s
  <2> DEFINE a == s \o <<P(1)>>
             b == a \o <<P(2)>>
  <2>1. a \in Seq(IndexPiece) /\ Len(a) = Len(s) + 1 /\ a[Len(s) + 1] = P(1)
        /\ \A i \in 1..Len(s) : a[i] = s[i]
    BY <1>2, <2>0, Joined, SMT
  <2> HIDE DEF a
  <2>2. b \in Seq(IndexPiece) /\ Len(b) = Len(a) + 1 /\ b[Len(a) + 1] = P(2)
        /\ \A i \in 1..Len(a) : b[i] = a[i]
    BY <1>2, <2>1, Joined, SMT
  <2> HIDE DEF b
  <2>3. b \o <<P(3)>> \in Seq(IndexPiece) /\ Len(b \o <<P(3)>>) = Len(b) + 1
        /\ (b \o <<P(3)>>)[Len(b) + 1] = P(3) /\ \A i \in 1..Len(b) : (b \o <<P(3)>>)[i] = b[i]
    BY <1>2, <2>2, Joined, SMT
  <2>4. t = b \o <<P(3)>>
    BY DEF a, b
  <2> HIDE DEF t
  <2> QED
    BY <2>0, <2>1, <2>2, <2>3, <2>4, SMTT(30)
<1>8. Given(g3) = t
  BY <1>4, <1>5, <1>6
<1> HIDE DEF t
<1>9. \A p \in 1..3 : t[Len(s) + p] = P(p)
  BY <1>7, SMT
<1> QED
  BY <1>1, <1>6, <1>7, <1>8, <1>9 DEF P

(* A line adds its text and its newline. *)
LEMMA LinePut ==
  ASSUME NEW f \in BufferOf(LinePiece), NEW n \in Nat
  PROVE  LET g == PutLine(f, n)
         IN  /\ g \in BufferOf(LinePiece) /\ Given(g) \in Seq(LinePiece)
             /\ Len(Given(g)) = Len(Given(f)) + 2
             /\ \A i \in 1..Len(Given(f)) : Given(g)[i] = Given(f)[i]
             /\ \A p \in 1..2 : Given(g)[Len(Given(f)) + p] = [line |-> n, part |-> p]
<1> DEFINE P(p) == [line |-> n, part |-> p]
           g1 == Put(f, <<P(1)>>)
           g2 == Put(g1, <<P(2)>>)
<1>1. PutLine(f, n) = g2
  BY DEF PutLine
<1>2. <<P(1)>> \in Seq(LinePiece) /\ <<P(2)>> \in Seq(LinePiece)
  BY DEF LinePiece
<1> HIDE DEF P
<1>3. Given(f) \in Seq(LinePiece)
  BY FlushedIs
<1>4. g1 \in BufferOf(LinePiece) /\ Given(g1) = Given(f) \o <<P(1)>>
  BY <1>2, PutIs, Zenon
<1> HIDE DEF g1
<1>5. g2 \in BufferOf(LinePiece) /\ Given(g2) = Given(g1) \o <<P(2)>>
  BY <1>2, <1>4, PutIs, Zenon
<1> HIDE DEF g2
<1> DEFINE s == Given(f)
           t == (s \o <<P(1)>>) \o <<P(2)>>
<1>7. /\ t \in Seq(LinePiece) /\ Len(t) = Len(s) + 2 /\ \A i \in 1..Len(s) : t[i] = s[i]
      /\ t[Len(s) + 1] = P(1) /\ t[Len(s) + 2] = P(2)
  <2>0. s \in Seq(LinePiece) /\ Len(s) \in Nat
    BY <1>3, LenProperties
  <2> HIDE DEF s
  <2> DEFINE a == s \o <<P(1)>>
  <2>1. a \in Seq(LinePiece) /\ Len(a) = Len(s) + 1 /\ a[Len(s) + 1] = P(1)
        /\ \A i \in 1..Len(s) : a[i] = s[i]
    BY <1>2, <2>0, Joined, SMT
  <2> HIDE DEF a
  <2>2. a \o <<P(2)>> \in Seq(LinePiece) /\ Len(a \o <<P(2)>>) = Len(a) + 1
        /\ (a \o <<P(2)>>)[Len(a) + 1] = P(2) /\ \A i \in 1..Len(a) : (a \o <<P(2)>>)[i] = a[i]
    BY <1>2, <2>1, Joined, SMT
  <2>3. t = a \o <<P(2)>>
    BY DEF a
  <2> HIDE DEF t
  <2> QED
    BY <2>0, <2>1, <2>2, <2>3, SMT
<1>8. Given(g2) = t
  BY <1>4, <1>5
<1> HIDE DEF t
<1>9. \A p \in 1..2 : t[Len(s) + p] = P(p)
  BY <1>7, SMT
<1> QED
  BY <1>1, <1>5, <1>7, <1>8, <1>9 DEF P

(* The writers: who writes lines insists on an empty directory, and an     *)
(* error drops every buffer that is in use.                                *)
LEMMA WritersAre ==
  \A k \in Writers :
    /\ k.lines \in BOOLEAN /\ k.fresh \in BOOLEAN /\ (k.lines => k.fresh)
    /\ k.dropped \in Seq(RecFiles) /\ k.dropped # <<>>
    /\ \A n \in RecFiles :
         (n = "lines" /\ ~k.lines) \/ \E i \in 1..Len(k.dropped) : k.dropped[i] = n
<1> DEFINE Has(s, n) == \E i \in 1..Len(s) : s[i] = n
           ir == <<"index", "raw">>
           ri == <<"raw", "index">>
           lir == <<"lines", "index", "raw">>
<1>1. ir \in Seq(RecFiles) /\ ir # <<>> /\ Has(ir, "raw") /\ Has(ir, "index")
  <2>1. Len(ir) = 2 /\ ir[1] = "index" /\ ir[2] = "raw"
    OBVIOUS
  <2>2. ir \in Seq(RecFiles)
    BY DEF RecFiles
  <2> QED
    BY <2>1, <2>2
<1>2. ri \in Seq(RecFiles) /\ ri # <<>> /\ Has(ri, "raw") /\ Has(ri, "index")
  <2>1. Len(ri) = 2 /\ ri[2] = "index" /\ ri[1] = "raw"
    OBVIOUS
  <2>2. ri \in Seq(RecFiles)
    BY DEF RecFiles
  <2> QED
    BY <2>1, <2>2
<1>3. lir \in Seq(RecFiles) /\ lir # <<>> /\ Has(lir, "raw") /\ Has(lir, "index")
      /\ Has(lir, "lines")
  <2>1. Len(lir) = 3 /\ lir[1] = "lines" /\ lir[2] = "index" /\ lir[3] = "raw"
    OBVIOUS
  <2>2. lir \in Seq(RecFiles)
    BY DEF RecFiles
  <2> QED
    BY <2>1, <2>2
<1> HIDE DEF ir, ri, lir, Has
<1>4. \A k \in Writers :
        /\ k.lines \in BOOLEAN /\ k.fresh \in BOOLEAN /\ (k.lines => k.fresh)
        /\ (k.dropped \in {ir, ri} /\ ~k.lines) \/ k.dropped = lir
  <2>1. \A k \in {LogRun, TextImport, PcapngImport} :
          k.lines = FALSE /\ k.fresh \in BOOLEAN /\ k.dropped = ir
    <3>1. LogRun.lines = FALSE /\ LogRun.fresh \in BOOLEAN /\ LogRun.dropped = ir
      BY DEF LogRun, ir
    <3>2. TextImport.lines = FALSE /\ TextImport.fresh \in BOOLEAN /\ TextImport.dropped = ir
      BY DEF TextImport, ir
    <3>3. /\ PcapngImport.lines = FALSE /\ PcapngImport.fresh \in BOOLEAN
          /\ PcapngImport.dropped = ir
      BY DEF PcapngImport, ir
    <3> QED
      BY <3>1, <3>2, <3>3, Zenon
  <2>2. ConnectRecorder.lines = FALSE /\ ConnectRecorder.fresh \in BOOLEAN
        /\ ConnectRecorder.dropped = ri
    BY DEF ConnectRecorder, ri
  <2>3. \A k \in {CsvImport(TRUE), CsvImport(FALSE), TeraTermImport} :
          k.lines \in BOOLEAN /\ k.fresh = TRUE /\ k.dropped = lir
    <3>1. /\ TeraTermImport.lines \in BOOLEAN /\ TeraTermImport.fresh = TRUE
          /\ TeraTermImport.dropped = lir
      BY DEF TeraTermImport, lir
    <3>2. \A b \in BOOLEAN : /\ CsvImport(b).lines \in BOOLEAN /\ CsvImport(b).fresh = TRUE
                              /\ CsvImport(b).dropped = lir
      BY DEF CsvImport, lir
    <3> QED
      BY <3>1, <3>2, Zenon
  <2> QED
    BY <2>1, <2>2, <2>3 DEF Writers
<1>5. \A k \in Writers : k.dropped \in Seq(RecFiles) /\ k.dropped # <<>>
  BY <1>1, <1>2, <1>3, <1>4, Zenon
<1>6. \A k \in Writers : \A n \in RecFiles : (n = "lines" /\ ~k.lines) \/ Has(k.dropped, n)
  BY <1>1, <1>2, <1>3, <1>4, Zenon DEF RecFiles
<1> QED
  BY <1>4, <1>5, <1>6, Zenon DEF Has

-----------------------------------------------------------------------------
(* What the steps do to what the three files were given.                   *)

(* raw.append gives raw.bin the bytes of the frame. *)
LEMMA RawEffect ==
  ASSUME RecTypes, NEW len \in FrameLens, RecordRaw(len)
  PROVE  LET r == Given(on_disk["raw"])
             q == Given(on_disk'["raw"])
         IN  /\ len \in Nat /\ on_disk'["raw"] \in BufferOf(Nat) /\ q \in Seq(Nat)
             /\ Len(q) = Len(r) + len /\ \A i \in 1..Len(r) : q[i] = r[i]
             /\ \A i \in 1..len : q[Len(r) + i] = Len(frames) + 1
             /\ on_disk'["index"] = on_disk["index"] /\ on_disk'["lines"] = on_disk["lines"]
             /\ on_disk' = [n \in RecFiles |-> on_disk'[n]]
<1> DEFINE f == on_disk["raw"]
           data == [i \in 1..len |-> Len(frames) + 1]
<1>1. len \in Nat /\ f \in BufferOf(Nat) /\ Len(frames) + 1 \in Nat
  BY RecordingAssumption, LenProperties, SMT DEF RecTypes
<1>2. data \in Seq(Nat) /\ Len(data) = len /\ \A i \in 1..len : data[i] = Len(frames) + 1
  BY <1>1
<1>3. /\ on_disk'["raw"] = Put(f, data) /\ on_disk'["index"] = on_disk["index"]
      /\ on_disk'["lines"] = on_disk["lines"] /\ on_disk' = [n \in RecFiles |-> on_disk'[n]]
  BY DEF RecordRaw, RecTypes, RecFiles
<1> HIDE DEF data, f
<1>4. Put(f, data) \in BufferOf(Nat) /\ Given(Put(f, data)) = Given(f) \o data
  BY <1>1, <1>2, PutIs, Zenon
<1>5. Given(f) \in Seq(Nat)
  BY <1>1, FlushedIs, Zenon
<1> DEFINE r == Given(f)
<1> HIDE DEF r
<1>6. /\ r \o data \in Seq(Nat) /\ Len(r \o data) = Len(r) + Len(data)
      /\ \A i \in 1..Len(r) : (r \o data)[i] = r[i]
      /\ \A i \in 1..Len(data) : (r \o data)[Len(r) + i] = data[i]
  <2>1. r \in Seq(Nat)
    BY <1>5 DEF r
  <2>2. data \in Seq(Nat)
    BY <1>2
  <2> QED
    BY <2>1, <2>2, Joined, SMT
<1>7. \A i \in 1..len : (r \o data)[Len(r) + i] = Len(frames) + 1
  BY <1>2, <1>6
<1> QED
  BY <1>1, <1>2, <1>3, <1>4, <1>6, <1>7, Zenon DEF r, f

(* The row, and for some importers the line. *)
LEMMA RowEffect ==
  ASSUME RecTypes, RecPhases, RecordRow
  PROVE  LET x == Given(on_disk["index"])
             y == Given(on_disk'["index"])
             l == Given(on_disk["lines"])
             m == Given(on_disk'["lines"])
             N == Len(frames)
         IN  /\ on_disk'["index"] \in BufferOf(IndexPiece) /\ Len(y) = Len(x) + 3
             /\ \A i \in 1..Len(x) : y[i] = x[i]
             /\ \A p \in 1..3 : y[Len(x) + p] =
                  [part |-> p, off |-> raw_pos - frames[N], len |-> frames[N]]
             /\ on_disk'["lines"] \in BufferOf(LinePiece)
             /\ IF writer.kind.lines
                THEN /\ Len(m) = Len(l) + 2 /\ \A i \in 1..Len(l) : m[i] = l[i]
                     /\ \A p \in 1..2 : m[Len(l) + p] = [line |-> N, part |-> p]
                ELSE on_disk'["lines"] = on_disk["lines"]
             /\ on_disk'["raw"] = on_disk["raw"] /\ on_disk' = [n \in RecFiles |-> on_disk'[n]]
<1> DEFINE N == Len(frames)
           len == frames[N]
           f == on_disk["index"]
           g == on_disk["lines"]
<1>1. N \in Nat /\ len \in Nat /\ raw_pos - len \in Nat
  <2>1. frames \in Seq(Nat) /\ N \in Nat /\ raw_pos \in Nat /\ N > 0 /\ len <= raw_pos
    BY LenProperties DEF RecTypes, RecPhases, RecordRow
  <2>2. N \in 1..N
    BY <2>1
  <2>3. len \in Nat
    BY <2>1, <2>2, ElementOfSeq
  <2> QED
    BY <2>1, <2>3
<1>2. f \in BufferOf(IndexPiece) /\ g \in BufferOf(LinePiece)
  BY DEF RecTypes
<1>3. /\ on_disk'["index"] = PutRow(f, raw_pos - len, len)
      /\ on_disk'["lines"] = IF writer.kind.lines THEN PutLine(g, N) ELSE g
      /\ on_disk'["raw"] = on_disk["raw"] /\ on_disk' = [n \in RecFiles |-> on_disk'[n]]
  BY DEF RecordRow, RecTypes, RecFiles
<1> HIDE DEF N, len, f, g
<1> DEFINE y == Given(PutRow(f, raw_pos - len, len))
<1>4. /\ PutRow(f, raw_pos - len, len) \in BufferOf(IndexPiece)
      /\ Len(y) = Len(Given(f)) + 3 /\ \A i \in 1..Len(Given(f)) : y[i] = Given(f)[i]
      /\ \A p \in 1..3 :
           y[Len(Given(f)) + p] = [part |-> p, off |-> raw_pos - len, len |-> len]
  BY <1>1, <1>2, RowPut, Zenon
<1> DEFINE m == Given(PutLine(g, N))
<1>5. /\ PutLine(g, N) \in BufferOf(LinePiece)
      /\ Len(m) = Len(Given(g)) + 2 /\ \A i \in 1..Len(Given(g)) : m[i] = Given(g)[i]
      /\ \A p \in 1..2 : m[Len(Given(g)) + p] = [line |-> N, part |-> p]
  BY <1>1, <1>2, LinePut, Zenon
<1>6. CASE writer.kind.lines
  <2>1. on_disk'["lines"] = PutLine(g, N)
    BY <1>3, <1>6
  <2> QED
    BY <1>3, <1>4, <1>5, <1>6, <2>1, Zenon DEF N, len, f, g
<1>7. CASE ~writer.kind.lines
  <2>1. on_disk'["lines"] = g
    BY <1>3, <1>7
  <2> QED
    BY <1>2, <1>3, <1>4, <1>7, <2>1, Zenon DEF N, len, f, g
<1> QED
  BY <1>6, <1>7

(* A flush moves bytes to the disk. *)
LEMMA FlushEffect ==
  ASSUME RecTypes, FlushNext
  PROVE  /\ Head(writer.todo) \in RecFiles /\ on_disk'[Head(writer.todo)].buf = <<>>
         /\ \A n \in RecFiles : Given(on_disk'[n]) = Given(on_disk[n])
         /\ \A n \in RecFiles \ {Head(writer.todo)} : on_disk'[n] = on_disk[n]
         /\ on_disk'["raw"] \in BufferOf(Nat) /\ on_disk'["index"] \in BufferOf(IndexPiece)
         /\ on_disk'["lines"] \in BufferOf(LinePiece)
         /\ on_disk' = [n \in RecFiles |-> on_disk'[n]]
<1> DEFINE h == Head(writer.todo)
<1>1. h \in RecFiles
  <2>1. writer.todo \in Seq(RecFiles) /\ writer.todo # <<>>
    BY DEF RecTypes, FlushNext
  <2> QED
    BY <2>1, HeadTailProperties
<1>2. /\ on_disk' = [n \in RecFiles |-> on_disk'[n]]
      /\ \A n \in RecFiles : on_disk'[n] = IF n = h THEN Flushed(on_disk[n]) ELSE on_disk[n]
  BY DEF FlushNext, RecTypes
<1> HIDE DEF h
<1>3. \A n \in RecFiles : \E S : on_disk[n] \in BufferOf(S)
  BY Zenon DEF RecTypes, RecFiles
<1>4. \A n \in RecFiles : Given(on_disk'[n]) = Given(on_disk[n])
  BY <1>2, <1>3, FlushedIs, Zenon
<1>5. on_disk'[h].buf = <<>>
  <2>1. PICK S : on_disk[h] \in BufferOf(S)
    BY <1>1, <1>3
  <2>2. on_disk'[h] = Flushed(on_disk[h])
    BY <1>1, <1>2
  <2> QED
    BY <2>1, <2>2, FlushedIs, Zenon
<1>6. ASSUME NEW S, NEW n \in RecFiles, on_disk[n] \in BufferOf(S)
      PROVE  on_disk'[n] \in BufferOf(S)
  BY <1>2, <1>6, FlushedIs, Zenon
<1>7. /\ on_disk'["raw"] \in BufferOf(Nat) /\ on_disk'["index"] \in BufferOf(IndexPiece)
      /\ on_disk'["lines"] \in BufferOf(LinePiece)
  BY <1>6, Zenon DEF RecTypes, RecFiles
<1> QED
  BY <1>1, <1>2, <1>4, <1>5, <1>7, Zenon DEF h

(* A kill leaves what is on disk. *)
LEMMA KillEffect ==
  ASSUME RecTypes, RecordKilled
  PROVE  /\ \A n \in RecFiles : /\ on_disk'[n].buf = <<>>
                             /\ Begins(Given(on_disk'[n]), Given(on_disk[n]))
         /\ on_disk'["raw"] \in BufferOf(Nat) /\ on_disk'["index"] \in BufferOf(IndexPiece)
         /\ on_disk'["lines"] \in BufferOf(LinePiece)
         /\ on_disk' = [n \in RecFiles |-> on_disk'[n]]
<1>1. /\ on_disk' = [n \in RecFiles |-> on_disk'[n]]
      /\ \A n \in RecFiles : on_disk'[n] = [on_disk[n] EXCEPT !.buf = <<>>]
  BY DEF RecordKilled, RecTypes
<1>2. ASSUME NEW S, NEW f \in BufferOf(S)
      PROVE  LET g == [f EXCEPT !.buf = <<>>]
             IN  g \in BufferOf(S) /\ g.buf = <<>> /\ Begins(Given(g), Given(f))
  <2> DEFINE g == [f EXCEPT !.buf = <<>>]
             d == f.disk
  <2>1. d \in Seq(S) /\ <<>> \in Seq(S) /\ g = [disk |-> d, buf |-> <<>>]
    BY DEF BufferOf
  <2>2. Begins(d, Given(f))
    BY FlushedIs
  <2> HIDE DEF d
  <2>3. d \o <<>> = d
    BY <2>1
  <2>4. Given(g) = d
    BY <2>1, <2>3 DEF Given
  <2>5. g \in BufferOf(S) /\ g.buf = <<>>
    BY <2>1 DEF BufferOf
  <2> QED
    BY <2>2, <2>4, <2>5
<1>3. \A n \in RecFiles : \E S : on_disk[n] \in BufferOf(S)
  BY Zenon DEF RecTypes, RecFiles
<1>4. \A n \in RecFiles : /\ on_disk'[n].buf = <<>>
                       /\ Begins(Given(on_disk'[n]), Given(on_disk[n]))
  <2>1. TAKE n \in RecFiles
  <2>2. PICK S : on_disk[n] \in BufferOf(S)
    BY <1>3
  <2> DEFINE f == on_disk[n]
             g == [f EXCEPT !.buf = <<>>]
  <2>3. g.buf = <<>> /\ Begins(Given(g), Given(f))
    BY <1>2, <2>2
  <2>4. on_disk'[n] = g
    BY <1>1
  <2> HIDE DEF g
  <2> QED
    BY <2>3, <2>4
<1>5. ASSUME NEW S, NEW n \in RecFiles, on_disk[n] \in BufferOf(S)
      PROVE  on_disk'[n] \in BufferOf(S)
  <2> DEFINE f == on_disk[n]
             g == [f EXCEPT !.buf = <<>>]
  <2>1. g \in BufferOf(S)
    BY <1>2, <1>5
  <2> QED
    BY <1>1, <2>1
<1>6. /\ on_disk'["raw"] \in BufferOf(Nat) /\ on_disk'["index"] \in BufferOf(IndexPiece)
      /\ on_disk'["lines"] \in BufferOf(LinePiece)
  BY <1>5, Zenon DEF RecTypes, RecFiles
<1> QED
  BY <1>1, <1>4, <1>6

-----------------------------------------------------------------------------
(* Every step keeps the types. *)
LEMMA RecTypesStep ==
  ASSUME RecTypes, RecPhases, [RecNext]_rec_vars
  PROVE  RecTypes'
<1> DEFINE W == [kind : Writers, phase : {"none", "recv", "row", "end"},
                 count : Nat, todo : Seq(RecFiles)]
<1>0. /\ writer \in W /\ frames \in Seq(Nat) /\ Len(frames) \in Nat /\ raw_pos \in Nat
      /\ <<>> \in Seq(RecFiles) /\ Nobody \in W
  <2>1. <<>> \in Seq(RecFiles)
    OBVIOUS
  <2>2. Nobody \in W
    BY <2>1 DEF Nobody, Writers
  <2> QED
    BY <2>1, <2>2, LenProperties DEF RecTypes
<1>1. ASSUME NEW k \in Writers, CreateSession(k)
      PROVE  RecTypes'
  <2>1. on_disk["raw"].disk \in Seq(Nat)
    BY DEF RecTypes, BufferOf
  <2>2. CreateRaw \in Nat
    BY <2>1, LenProperties DEF CreateRaw
  <2>3. writer' \in W /\ reused' \in BOOLEAN /\ recordings' \in Nat
    BY <1>0, <1>1, SMTT(30) DEF CreateSession, RecTypes
  <2> QED
    BY <1>1, <2>2, <2>3 DEF CreateSession, RecTypes
<1>2. ASSUME NEW len \in FrameLens, RecordRaw(len)
      PROVE  RecTypes'
  <2>1. /\ len \in Nat /\ on_disk'["raw"] \in BufferOf(Nat)
        /\ on_disk'["index"] = on_disk["index"] /\ on_disk'["lines"] = on_disk["lines"]
        /\ on_disk' = [n \in RecFiles |-> on_disk'[n]]
    BY <1>2, RawEffect, Zenon
  <2>2. writer' \in W
    BY <1>0, <1>2 DEF RecordRaw
  <2>3. frames' \in Seq(Nat) /\ raw_pos' \in Nat
    BY <1>0, <1>2, <2>1, AppendProperties, SMT DEF RecordRaw
  <2> QED
    BY <1>2, <2>1, <2>2, <2>3 DEF RecordRaw, RecTypes
<1>3. CASE RecordRow
  <2>1. /\ on_disk'["index"] \in BufferOf(IndexPiece) /\ on_disk'["lines"] \in BufferOf(LinePiece)
        /\ on_disk'["raw"] = on_disk["raw"] /\ on_disk' = [n \in RecFiles |-> on_disk'[n]]
    BY <1>3, RowEffect, Zenon
  <2>2. <<"raw", "index">> \in Seq(RecFiles)
    BY DEF RecFiles
  <2>3. writer' \in W
    <3>1. PICK q \in Seq(RecFiles) :
            writer' = [writer EXCEPT !.phase = "recv", !.count = writer.count + 1, !.todo = q]
      BY <1>0, <1>3, <2>2 DEF RecordRow
    <3>2. writer.count + 1 \in Nat
      BY <1>0, SMT
    <3> QED
      BY <1>0, <3>1, <3>2
  <2> QED
    BY <1>3, <2>1, <2>3 DEF RecordRow, RecTypes
<1>4. CASE FlushNext
  <2>1. /\ on_disk'["raw"] \in BufferOf(Nat) /\ on_disk'["index"] \in BufferOf(IndexPiece)
        /\ on_disk'["lines"] \in BufferOf(LinePiece)
        /\ on_disk' = [n \in RecFiles |-> on_disk'[n]]
    BY <1>4, FlushEffect, Zenon
  <2>2. Tail(writer.todo) \in Seq(RecFiles)
    BY <1>0, <1>4, HeadTailProperties DEF FlushNext
  <2>3. writer' \in W
    BY <1>0, <1>4, <2>2 DEF FlushNext
  <2> QED
    BY <1>4, <2>1, <2>3 DEF FlushNext, RecTypes
<1>5. ASSUME NEW q \in Seq(RecFiles), EndWith(q)
      PROVE  RecTypes'
  <2>1. writer' \in W
    BY <1>0, <1>5 DEF EndWith
  <2> QED
    BY <1>5, <2>1 DEF EndWith, RecTypes
<1>6. CASE RecordEnd
  <2>1. <<"raw", "index", "lines">> \in Seq(RecFiles) /\ <<"raw", "index">> \in Seq(RecFiles)
    BY DEF RecFiles
  <2> QED
    BY <1>5, <1>6, <2>1 DEF RecordEnd
<1>7. CASE RecordError
  BY <1>0, <1>5, <1>7, WritersAre DEF RecordError
<1>8. CASE RecordKilled
  <2>1. /\ on_disk'["raw"] \in BufferOf(Nat) /\ on_disk'["index"] \in BufferOf(IndexPiece)
        /\ on_disk'["lines"] \in BufferOf(LinePiece)
        /\ on_disk' = [n \in RecFiles |-> on_disk'[n]]
    BY <1>8, KillEffect, Zenon
  <2> QED
    BY <1>0, <1>8, <2>1 DEF RecordKilled, RecTypes
<1>9. CASE UNCHANGED rec_vars
  BY <1>9 DEF rec_vars, RecTypes
<1> QED
  BY <1>1, <1>2, <1>3, <1>4, <1>6, <1>7, <1>8, <1>9 DEF RecNext

(* Buffers are flushed before a recording is over. *)
LEMMA RecPhasesStep ==
  ASSUME RecTypes, RecPhases, [RecNext]_rec_vars
  PROVE  RecPhases'
<1>0. /\ writer \in [kind : Writers, phase : {"none", "recv", "row", "end"},
                     count : Nat, todo : Seq(RecFiles)]
      /\ killed \in BOOLEAN /\ reused \in BOOLEAN /\ recordings \in Nat
      /\ frames \in Seq(Nat) /\ Len(frames) \in Nat /\ raw_pos \in Nat
  BY LenProperties DEF RecTypes
<1>1. ASSUME NEW k \in Writers, CreateSession(k)
      PROVE  RecPhases'
  <2>1. writer' = [kind |-> k, phase |-> "recv", count |-> 0, todo |-> <<>>]
        /\ recordings' # 0 /\ on_disk' = on_disk /\ reused' = (reused \/ killed)
        /\ killed' = killed
    BY <1>0, <1>1, SMT DEF CreateSession
  <2>2. writer.phase = "none" /\ "lines" \in RecFiles
    BY <1>1 DEF CreateSession, RecFiles
  <2> QED
    BY <1>0, <2>1, <2>2 DEF RecPhases
<1>2. ASSUME NEW len \in FrameLens, RecordRaw(len)
      PROVE  RecPhases'
  <2>1. /\ writer' = [writer EXCEPT !.phase = "row"] /\ writer.phase = "recv"
        /\ recordings' = recordings /\ killed' = killed /\ reused' = reused
        /\ frames' = Append(frames, len) /\ raw_pos' = raw_pos + len
    BY <1>2 DEF RecordRaw
  <2>2. len \in Nat /\ on_disk'["lines"] = on_disk["lines"]
    BY <1>2, RawEffect, Zenon
  <2>3. Len(frames') = Len(frames) + 1 /\ frames'[Len(frames) + 1] = len
    BY <1>0, <2>1, <2>2, AppendProperties, SMT
  <2>4. recordings # 0
    BY <2>1 DEF RecPhases
  <2>5. Len(frames') > 0 /\ frames'[Len(frames')] <= raw_pos'
    BY <1>0, <2>1, <2>2, <2>3, SMT
  <2>6. writer'.phase = "row" /\ writer'.kind = writer.kind
    BY <1>0, <2>1
  <2> QED
    BY <1>0, <2>1, <2>2, <2>4, <2>5, <2>6 DEF RecPhases
<1>3. CASE RecordRow
  <2>1. /\ writer'.phase = "recv" /\ writer'.kind = writer.kind /\ writer.phase = "row"
        /\ recordings' = recordings /\ killed' = killed /\ reused' = reused
    BY <1>0, <1>3 DEF RecordRow
  <2>2. ~writer.kind.lines => on_disk'["lines"] = on_disk["lines"]
    BY <1>3, RowEffect, Zenon
  <2>3. recordings # 0
    BY <2>1 DEF RecPhases
  <2> QED
    BY <1>0, <2>1, <2>2, <2>3 DEF RecPhases
<1>4. CASE FlushNext
  <2> DEFINE h == Head(writer.todo)
             t == Tail(writer.todo)
  <2>1. /\ h \in RecFiles /\ on_disk'[h].buf = <<>>
        /\ \A n \in RecFiles \ {h} : on_disk'[n] = on_disk[n]
    BY <1>4, FlushEffect, Zenon
  <2>2. \A n \in RecFiles : on_disk[n].buf = <<>> => on_disk'[n].buf = <<>>
    BY <2>1
  <2>3. /\ writer.todo # <<>> /\ recordings' = recordings /\ killed' = killed /\ reused' = reused
        /\ frames' = frames /\ raw_pos' = raw_pos
        /\ writer' = IF writer.phase = "end" /\ Len(writer.todo) = 1
                     THEN Nobody ELSE [writer EXCEPT !.todo = t]
    BY <1>4 DEF FlushNext
  <2>4. /\ Len(writer.todo) \in Nat /\ Len(writer.todo) > 0 /\ h = writer.todo[1]
        /\ t \in Seq(RecFiles) /\ Len(t) = Len(writer.todo) - 1
        /\ \A i \in 1..Len(t) : t[i] = writer.todo[i + 1]
    BY <1>0, <2>3, HeadTailProperties, EmptySeq, LenProperties, SMT
  <2> HIDE DEF h, t
  <2>5. recordings = 0 => writer.phase = "none" /\ \A n \in RecFiles : on_disk[n] = NewFile
    BY DEF RecPhases
  <2>6. CASE writer.phase = "none"
    <3>1. writer' = [writer EXCEPT !.todo = t]
      BY <2>3, <2>6
    <3>2. writer'.phase = "none" /\ writer'.kind = writer.kind
      BY <1>0, <2>6, <3>1
    <3>3. \A n \in RecFiles : on_disk'[n].buf = <<>>
      BY <2>2, <2>6 DEF RecPhases
    <3>4. recordings = 0 => \A n \in RecFiles : on_disk'[n] = NewFile
      <4>0. SUFFICES ASSUME recordings = 0 PROVE \A n \in RecFiles : on_disk'[n] = NewFile
        OBVIOUS
      <4>1. on_disk[h] = NewFile
        BY <2>1, <2>5, <4>0
      <4>2. on_disk'[h] = Flushed(on_disk[h])
        BY <1>4, <2>1 DEF FlushNext, RecTypes, h
      <4>3. Flushed(NewFile) = NewFile
        BY DEF Flushed, NewFile
      <4> QED
        BY <2>1, <2>5, <4>0, <4>1, <4>2, <4>3
    <3> QED
      BY <2>3, <2>6, <3>2, <3>3, <3>4 DEF RecPhases
  <2>7. CASE writer.phase = "end" /\ Len(writer.todo) = 1
    <3>1. writer'.phase = "none"
      BY <2>3, <2>7 DEF Nobody
    <3>2. \A n \in RecFiles : on_disk'[n].buf = <<>>
      <4>1. TAKE n \in RecFiles
      <4>2. on_disk[n].buf = <<>> \/ \E i \in 1..Len(writer.todo) : writer.todo[i] = n
        BY <2>7 DEF RecPhases
      <4>3. ASSUME NEW i \in 1..Len(writer.todo), writer.todo[i] = n
            PROVE  n = h
        BY <2>4, <2>7, <4>3, SMT
      <4> QED
        BY <2>1, <2>2, <4>2, <4>3
    <3>3. recordings # 0
      BY <2>7 DEF RecPhases
    <3> QED
      BY <2>3, <3>1, <3>2, <3>3 DEF RecPhases
  <2>8. CASE writer.phase # "none" /\ ~(writer.phase = "end" /\ Len(writer.todo) = 1)
    <3>1. writer' = [writer EXCEPT !.todo = t]
      BY <2>3, <2>8
    <3>2. writer'.phase = writer.phase /\ writer'.kind = writer.kind /\ writer'.todo = t
      BY <1>0, <3>1
    <3>3. recordings # 0 /\ "lines" \in RecFiles
      BY <2>8 DEF RecPhases, RecFiles
    <3>4. ASSUME writer.phase = "end"
          PROVE  /\ t # <<>>
                 /\ \A n \in RecFiles : on_disk'[n].buf = <<>> \/ \E i \in 1..Len(t) : t[i] = n
      <4>1. Len(t) > 0
        <5>1. Len(writer.todo) # 1
          BY <2>8, <3>4
        <5>2. \A n \in Nat : n > 0 /\ n # 1 => n - 1 > 0
          OBVIOUS
        <5> QED
          BY <2>4, <5>1, <5>2, Zenon
      <4>2. t # <<>>
        BY <2>4, <4>1, EmptySeq
      <4>3. ASSUME NEW n \in RecFiles
            PROVE  on_disk'[n].buf = <<>> \/ \E i \in 1..Len(t) : t[i] = n
        <5>1. on_disk[n].buf = <<>> \/ \E i \in 1..Len(writer.todo) : writer.todo[i] = n
          BY <3>4 DEF RecPhases
        <5>2. ASSUME NEW i \in 1..Len(writer.todo), writer.todo[i] = n
              PROVE  n = h \/ \E j \in 1..Len(t) : t[j] = n
          <6>1. CASE i = 1
            BY <2>4, <5>2, <6>1
          <6>2. CASE i # 1
            <7>1. i - 1 \in 1..Len(t) /\ (i - 1) + 1 = i
              BY <2>4, <6>2
            <7>2. t[i - 1] = writer.todo[i]
              BY <2>4, <7>1
            <7> QED
              BY <5>2, <7>1, <7>2
          <6> QED
            BY <6>1, <6>2
        <5> QED
          BY <2>1, <2>2, <5>1, <5>2
      <4> QED
        BY <4>2, <4>3
    <3> QED
      BY <2>2, <2>3, <2>8, <3>2, <3>3, <3>4, SMT DEF RecPhases
  <2> QED
    BY <2>6, <2>7, <2>8
<1>5. ASSUME NEW q \in Seq(RecFiles), q # <<>>, EndWith(q), writer.phase = "recv",
             \A n \in RecFiles :
               (n = "lines" /\ ~writer.kind.lines) \/ \E i \in 1..Len(q) : q[i] = n
      PROVE  RecPhases'
  <2>1. /\ writer'.phase = "end" /\ writer'.todo = q /\ writer'.kind = writer.kind
        /\ on_disk' = on_disk /\ recordings' = recordings /\ killed' = killed
        /\ reused' = reused
    BY <1>0, <1>5 DEF EndWith
  <2>2. recordings # 0
    BY <1>5 DEF RecPhases
  <2>3. \A n \in RecFiles : on_disk[n].buf = <<>> \/ \E i \in 1..Len(q) : q[i] = n
    BY <1>5 DEF RecPhases
  <2> QED
    BY <1>5, <2>1, <2>2, <2>3 DEF RecPhases
<1>6. CASE RecordEnd
  <2> DEFINE ri == <<"raw", "index">>
             ril == <<"raw", "index", "lines">>
  <2>1. ri \in Seq(RecFiles) /\ ri # <<>> /\ Len(ri) = 2 /\ ri[1] = "raw" /\ ri[2] = "index"
    BY DEF RecFiles
  <2>2. /\ ril \in Seq(RecFiles) /\ ril # <<>> /\ Len(ril) = 3
        /\ ril[1] = "raw" /\ ril[2] = "index" /\ ril[3] = "lines"
    BY DEF RecFiles
  <2>3. writer.phase = "recv" /\ EndWith(IF writer.kind.lines THEN ril ELSE ri)
    BY <1>6 DEF RecordEnd
  <2> HIDE DEF ri, ril
  <2>4. \A n \in RecFiles : n # "lines" => \E i \in 1..Len(ri) : ri[i] = n
    BY <2>1, SMT DEF RecFiles
  <2>5. \A n \in RecFiles : \E i \in 1..Len(ril) : ril[i] = n
    BY <2>2 DEF RecFiles
  <2> QED
    BY <1>5, <2>1, <2>2, <2>3, <2>4, <2>5
<1>7. CASE RecordError
  <2>1. writer.phase = "recv" /\ EndWith(writer.kind.dropped) /\ writer.kind \in Writers
    BY <1>0, <1>7 DEF RecordError
  <2> QED
    BY <1>5, <2>1, WritersAre, Zenon
<1>8. CASE RecordKilled
  <2>1. \A n \in RecFiles : on_disk'[n].buf = <<>>
    BY <1>8, KillEffect, Zenon
  <2>2. writer'.phase = "none" /\ writer.phase # "none" /\ recordings' = recordings
    BY <1>8 DEF RecordKilled, Nobody
  <2>3. recordings # 0
    BY <2>2 DEF RecPhases
  <2> QED
    BY <2>1, <2>2, <2>3 DEF RecPhases
<1>9. CASE UNCHANGED rec_vars
  BY <1>9 DEF rec_vars, RecPhases
<1> QED
  BY <1>1, <1>2, <1>3, <1>4, <1>6, <1>7, <1>8, <1>9 DEF RecNext

-----------------------------------------------------------------------------
(* Every step keeps the lines in place. *)
LEMMA LinesStep ==
  ASSUME RecTypes, RecPhases, LinesLaid, [RecNext]_rec_vars, ~reused'
  PROVE  LinesLaid'
<1> DEFINE l == Given(on_disk["lines"])
           m == Given(on_disk'["lines"])
           N == Len(frames)
           Right(s) == \A i \in 1..Len(s) : s[i] = [line |-> (i + 1) \div 2, part |-> 2 - (i % 2)]
<1>0. /\ writer \in [kind : Writers, phase : {"none", "recv", "row", "end"},
                     count : Nat, todo : Seq(RecFiles)]
      /\ frames \in Seq(Nat) /\ N \in Nat /\ l \in Seq(LinePiece) /\ Len(l) \in Nat
      /\ "lines" \in RecFiles
  <2>1. on_disk["lines"] \in BufferOf(LinePiece)
    BY DEF RecTypes
  <2>2. l \in Seq(LinePiece)
    BY <2>1, FlushedIs, Zenon
  <2> HIDE DEF l
  <2> QED
    BY <2>2, LenProperties DEF RecTypes, RecFiles
<1>L. /\ Len(l) <= 2 * N /\ Right(l)
      /\ writer.phase # "none" /\ writer.kind.lines => Len(l) = 2 * Rows
  BY DEF LinesLaid
<1>R. /\ writer.phase = "row" => Rows = N - 1
      /\ writer.phase # "row" => Rows = N
      /\ writer'.phase = "row" => Rows' = Len(frames') - 1
      /\ writer'.phase # "row" => Rows' = Len(frames')
  BY DEF Rows
<1>G. ASSUME Len(m) <= 2 * Len(frames'), Right(m),
             writer'.phase # "none" /\ writer'.kind.lines => Len(m) = 2 * Rows'
      PROVE  LinesLaid'
  BY <1>G DEF LinesLaid
<1>1. ASSUME NEW k \in Writers, CreateSession(k)
      PROVE  LinesLaid'
  <2>1. /\ writer'.kind = k /\ writer'.phase = "recv" /\ writer.phase = "none"
        /\ m = l /\ frames' = frames /\ (k.fresh => recordings = 0)
    BY <1>1 DEF CreateSession
  <2>2. ASSUME k.lines PROVE Len(m) = 2 * Rows'
    <3>1. recordings = 0
      BY <2>1, <2>2, WritersAre
    <3>2. frames = <<>> /\ on_disk["lines"] = NewFile
      BY <1>0, <3>1 DEF RecPhases
    <3>3. Given(NewFile) = <<>>
      BY DEF Given, NewFile
    <3>4. Len(l) = 0 /\ N = 0
      BY <3>2, <3>3
    <3> HIDE DEF l, m, N
    <3>5. Len(m) = 0 /\ Rows' = 0
      BY <1>R, <2>1, <3>4 DEF N
    <3> QED
      BY <3>5
  <2> HIDE DEF l, m
  <2> QED
    BY <1>G, <1>L, <2>1, <2>2
<1>2. ASSUME NEW len \in FrameLens, RecordRaw(len)
      PROVE  LinesLaid'
  <2>1. m = l /\ len \in Nat
    BY <1>2, RawEffect, Zenon
  <2>2. /\ writer'.kind = writer.kind /\ writer'.phase = "row" /\ writer.phase = "recv"
        /\ frames' = Append(frames, len)
    BY <1>0, <1>2 DEF RecordRaw
  <2>3. Len(frames') = N + 1
    BY <1>0, <2>1, <2>2, AppendProperties, SMT
  <2> HIDE DEF l, m, N
  <2>4. Rows' = Rows /\ Len(l) <= 2 * (N + 1)
    BY <1>0, <1>L, <1>R, <2>2, <2>3, SMTT(30)
  <2> QED
    BY <1>G, <1>L, <2>1, <2>2, <2>3, <2>4
<1>3. CASE RecordRow
  <2>1. /\ IF writer.kind.lines
           THEN /\ Len(m) = Len(l) + 2 /\ \A i \in 1..Len(l) : m[i] = l[i]
                /\ \A p \in 1..2 : m[Len(l) + p] = [line |-> N, part |-> p]
           ELSE m = l
    BY <1>3, RowEffect, Zenon
  <2>2. /\ writer'.kind = writer.kind /\ writer'.phase = "recv" /\ writer.phase = "row"
        /\ frames' = frames
    BY <1>0, <1>3 DEF RecordRow
  <2>3. Rows = N - 1 /\ Rows' = N /\ Len(frames') = N
    BY <1>R, <2>2
  <2> HIDE DEF l, m, N
  <2>4. CASE writer.kind.lines
    <3>1. Len(l) = 2 * (N - 1) /\ Len(m) = 2 * N
      <4>1. Len(l) = 2 * Rows /\ Len(m) = Len(l) + 2
        BY <1>L, <2>1, <2>2, <2>4
      <4> QED
        BY <1>0, <2>3, <4>1, SMTT(30)
    <3>2. ASSUME NEW i \in 1..Len(m)
          PROVE  m[i] = [line |-> (i + 1) \div 2, part |-> 2 - (i % 2)]
      <4>1. CASE i <= Len(l)
        <5>1. i \in 1..Len(l)
          BY <1>0, <3>1, <4>1, SMTT(30)
        <5> QED
          BY <1>L, <2>1, <2>4, <5>1, Zenon
      <4>2. CASE ~(i <= Len(l))
        <5>1. i = Len(l) + 1 \/ i = Len(l) + 2
          BY <1>0, <3>1, <4>2, SMT
        <5>2. m[Len(l) + 1] = [line |-> N, part |-> 1] /\ m[Len(l) + 2] = [line |-> N, part |-> 2]
          BY <2>1, <2>4, SMTT(30)
        <5>3. i = Len(l) + 1 => (i + 1) \div 2 = N /\ 2 - (i % 2) = 1
          BY <1>0, <3>1, SMT
        <5>4. i = Len(l) + 2 => (i + 1) \div 2 = N /\ 2 - (i % 2) = 2
          BY <1>0, <3>1, SMT
        <5> QED
          BY <5>1, <5>2, <5>3, <5>4
      <4> QED
        BY <4>1, <4>2
    <3> QED
      BY <1>0, <1>G, <2>2, <2>3, <3>1, <3>2, SMT
  <2>5. CASE ~writer.kind.lines
    BY <1>G, <1>L, <2>1, <2>2, <2>3, <2>5
  <2> QED
    BY <2>4, <2>5
<1>4. CASE FlushNext
  <2>1. m = l
    BY <1>0, <1>4, FlushEffect, Zenon
  <2>2. /\ frames' = frames
        /\ \/ writer'.phase = "none"
           \/ writer'.phase = writer.phase /\ writer'.kind = writer.kind
    <3>1. frames' = frames /\ writer' \in {Nobody, [writer EXCEPT !.todo = Tail(writer.todo)]}
      BY <1>4 DEF FlushNext
    <3>2. Nobody.phase = "none"
      BY DEF Nobody
    <3>3. CASE writer' = [writer EXCEPT !.todo = Tail(writer.todo)]
      BY <1>0, <3>1, <3>3
    <3>4. CASE writer' = Nobody
      BY <3>1, <3>2, <3>4
    <3> QED
      BY <3>1, <3>3, <3>4, Zenon
  <2> HIDE DEF l, m
  <2> QED
    BY <1>G, <1>L, <1>R, <2>1, <2>2
<1>5. CASE RecordEnd \/ RecordError
  <2>1. PICK q : EndWith(q)
    BY <1>5 DEF RecordEnd, RecordError
  <2>2. /\ m = l /\ frames' = frames /\ writer.phase = "recv"
        /\ writer'.phase = "end" /\ writer'.kind = writer.kind
    BY <1>0, <1>5, <2>1 DEF EndWith, RecordEnd, RecordError
  <2> HIDE DEF l, m
  <2> QED
    BY <1>G, <1>L, <1>R, <2>2
<1>6. CASE RecordKilled
  <2>1. Begins(m, l) /\ frames' = frames /\ writer'.phase = "none"
    BY <1>0, <1>6, KillEffect DEF RecordKilled, Nobody
  <2>2. on_disk'["lines"] \in BufferOf(LinePiece)
    BY <1>6, KillEffect, Zenon
  <2>3. m \in Seq(LinePiece)
    BY <2>2, FlushedIs, Zenon
  <2> HIDE DEF l, m
  <2>4. Len(m) \in Nat /\ Len(m) <= Len(l) /\ \A i \in 1..Len(m) : m[i] = l[i]
    BY <2>1, <2>3, LenProperties DEF Begins
  <2>5. Right(m) /\ Len(m) <= 2 * N
    <3>1. \A i \in 1..Len(m) : i \in 1..Len(l)
      BY <1>0, <2>4, SMTT(30)
    <3>2. Right(m)
      BY <1>L, <2>4, <3>1, Zenon
    <3> HIDE DEF Right, N
    <3> QED
      BY <1>0, <1>L, <2>4, <3>2, SMT
  <2> QED
    BY <1>G, <2>1, <2>5
<1>7. CASE UNCHANGED rec_vars
  BY <1>7 DEF rec_vars, LinesLaid, Rows
<1> QED
  BY <1>1, <1>2, <1>3, <1>4, <1>5, <1>6, <1>7 DEF RecNext

(* Frames follow each other: one ends before the end of the last. *)
LEMMA OffsetsGrow ==
  ASSUME NEW N \in Nat, NEW fs \in Seq(Nat), Len(fs) = N,
         NEW o \in Seq(Nat), Len(o) = N + 1, \A k \in 1..N : o[k + 1] = o[k] + fs[k]
  PROVE  \A k \in 1..N : o[k] + fs[k] <= o[N + 1]
<1>1. \A k \in 1..N : fs[k] \in Nat
  BY ElementOfSeq
<1>2. \A k \in 1..(N + 1) : o[k] \in Nat
  BY ElementOfSeq
<1> DEFINE P(j) == \A k \in 1..(N + 1) : k + j = N + 1 => o[k] <= o[N + 1]
<1>3. P(0)
  BY <1>2
<1>4. ASSUME NEW j \in Nat, P(j) PROVE P(j + 1)
  <2>1. SUFFICES ASSUME NEW k \in 1..(N + 1), k + (j + 1) = N + 1 PROVE o[k] <= o[N + 1]
    OBVIOUS
  <2>2. k \in 1..N /\ k + 1 \in 1..(N + 1) /\ (k + 1) + j = N + 1 /\ N + 1 \in 1..(N + 1)
    BY <2>1
  <2>3. o[k + 1] <= o[N + 1] /\ o[k + 1] = o[k] + fs[k]
    BY <1>4, <2>2
  <2> QED
    BY <1>1, <1>2, <2>2, <2>3, SMT
<1> HIDE DEF P
<1>5. \A j \in Nat : P(j)
  <2> DEFINE S == {j \in Nat : P(j)}
  <2>1. 0 \in S /\ \A j \in Nat : j \in S => j + 1 \in S
    BY <1>3, <1>4
  <2> HIDE DEF S
  <2>2. Nat \subseteq S
    BY <2>1, CountingUp
  <2> QED
    BY <2>2 DEF S
<1>6. ASSUME NEW k \in 1..N
      PROVE  o[k] + fs[k] <= o[N + 1]
  <2>1. k + 1 \in 1..(N + 1) /\ N - k \in Nat /\ (k + 1) + (N - k) = N + 1
    OBVIOUS
  <2>2. o[k + 1] <= o[N + 1]
    BY <1>5, <2>1 DEF P
  <2> QED
    BY <2>2
<1> QED
  BY <1>6

(* Every step keeps the frames and their rows in place. *)
LEMMA LaidStep ==
  ASSUME RecTypes, RecPhases, NEW o, Laid(o), [RecNext]_rec_vars, ~reused, ~reused'
  PROVE  (\E u : Laid(u))'
<1> DEFINE r == Given(on_disk["raw"])
           q == Given(on_disk'["raw"])
           x == Given(on_disk["index"])
           y == Given(on_disk'["index"])
           N == Len(frames)
           InRawOf(b, n) == \A k \in 1..n : \A i \in 1..frames[k] :
                              o[k] + i <= Len(b) => b[o[k] + i] = k
           RowsOf(b, n) == \A k \in 1..n, p \in 1..3 : 3 * k - 3 + p <= Len(b)
                             => b[3 * k - 3 + p] = [part |-> p, off |-> o[k], len |-> frames[k]]
<1>0. /\ writer \in [kind : Writers, phase : {"none", "recv", "row", "end"},
                     count : Nat, todo : Seq(RecFiles)]
      /\ frames \in Seq(Nat) /\ N \in Nat /\ raw_pos \in Nat
      /\ r \in Seq(Nat) /\ Len(r) \in Nat /\ x \in Seq(IndexPiece) /\ Len(x) \in Nat
      /\ killed \in BOOLEAN
  <2>1. on_disk["raw"] \in BufferOf(Nat) /\ on_disk["index"] \in BufferOf(IndexPiece)
    BY DEF RecTypes
  <2>2. r \in Seq(Nat) /\ x \in Seq(IndexPiece)
    BY <2>1, FlushedIs, Zenon
  <2> HIDE DEF r, x
  <2> QED
    BY <2>2, LenProperties DEF RecTypes
<1>L. /\ o \in Seq(Nat) /\ Len(o) = N + 1 /\ o[1] = 0
      /\ \A k \in 1..N : o[k + 1] = o[k] + frames[k]
      /\ Len(r) <= o[N + 1] /\ Len(x) <= 3 * N
      /\ InRawOf(r, N) /\ RowsOf(x, N)
      /\ ~killed => Len(r) = o[N + 1] /\ Len(x) = 3 * Rows
      /\ writer.phase # "none" => raw_pos = o[N + 1]
  BY DEF Laid
<1>O. \A k \in 1..(N + 1) : o[k] \in Nat
  BY <1>L, ElementOfSeq
<1>R. /\ writer.phase = "row" => Rows = N - 1
      /\ writer.phase # "row" => Rows = N
      /\ writer'.phase = "row" => Rows' = Len(frames') - 1
      /\ writer'.phase # "row" => Rows' = Len(frames')
  BY DEF Rows
(* A step that receives no frame keeps the offsets. *)
<1>G. ASSUME frames' = frames, Len(q) <= o[N + 1], Len(y) <= 3 * N,
             InRawOf(q, N), RowsOf(y, N),
             ~killed' => Len(q) = o[N + 1] /\ Len(y) = 3 * Rows',
             writer'.phase # "none" => raw_pos' = o[N + 1]
      PROVE  Laid(o)'
  BY <1>G, <1>L DEF Laid
<1>K. writer.phase # "none" => ~killed
  BY <1>0 DEF RecPhases
<1>1. ASSUME NEW k \in Writers, CreateSession(k)
      PROVE  Laid(o)'
  <2>1. /\ q = r /\ y = x /\ writer.phase = "none" /\ writer'.phase = "recv"
        /\ frames' = frames /\ raw_pos' = CreateRaw /\ killed' = killed /\ ~killed
    BY <1>1 DEF CreateSession
  <2>2. on_disk["raw"].disk = r
    <3>1. on_disk["raw"].buf = <<>> /\ on_disk["raw"] \in BufferOf(Nat)
      BY <2>1 DEF RecPhases, RecTypes, RecFiles
    <3> QED
      BY <3>1, FlushedIs, Zenon
  <2>3. raw_pos' = Len(r)
    BY <2>1, <2>2 DEF CreateRaw
  <2> HIDE DEF r, q, x, y, N, InRawOf, RowsOf
  <2>4. Rows' = Rows
    BY <1>R, <2>1 DEF N
  <2> QED
    BY <1>G, <1>L, <2>1, <2>3, <2>4
<1>2. ASSUME NEW len \in FrameLens, RecordRaw(len)
      PROVE  (\E u : Laid(u))'
  <2>0. PICK u : u = Append(o, o[N + 1] + len)
    OBVIOUS
  <2>1. /\ len \in Nat /\ Len(q) = Len(r) + len /\ \A i \in 1..Len(r) : q[i] = r[i]
        /\ \A i \in 1..len : q[Len(r) + i] = N + 1
        /\ y = x
    BY <1>2, RawEffect, Zenon
  <2>2. /\ writer.phase = "recv" /\ writer'.phase = "row" /\ frames' = Append(frames, len)
        /\ raw_pos' = raw_pos + len /\ killed' = killed /\ ~killed
    BY <1>0, <1>2, <1>K DEF RecordRaw
  <2>3. /\ frames' \in Seq(Nat) /\ Len(frames') = N + 1 /\ frames'[N + 1] = len
        /\ \A k \in 1..N : frames'[k] = frames[k]
    BY <1>0, <2>1, <2>2, AppendProperties, SMTT(30)
  <2>4. N + 1 \in 1..(N + 1)
    BY <1>0, SMT
  <2>5. o[N + 1] + len \in Nat
    BY <1>O, <2>1, <2>4, SMT
  <2> HIDE DEF r, q, x, y, N
  <2>6. /\ u \in Seq(Nat) /\ Len(u) = N + 2 /\ u[N + 2] = o[N + 1] + len
        /\ \A k \in 1..(N + 1) : u[k] = o[k]
    <3>1. /\ u \in Seq(Nat) /\ Len(u) = Len(o) + 1
          /\ \A i \in 1..Len(o) : u[i] = o[i] /\ u[Len(o) + 1] = o[N + 1] + len
      BY <1>L, <2>0, <2>5, AppendProperties, SMTT(30)
    <3>2. (N + 1) + 1 = N + 2
      BY <1>0, SMT
    <3>3. u[Len(o) + 1] = o[N + 1] + len
      BY <1>L, <2>0, <2>5, AppendProperties, SMTT(30)
    <3> QED
      BY <1>L, <3>1, <3>2, <3>3
  <2>7. Len(r) = o[N + 1] /\ Len(x) = 3 * N /\ raw_pos = o[N + 1]
    BY <1>L, <1>R, <2>2
  <2>8. u[1] = 0 /\ \A k \in 1..(N + 1) : u[k + 1] = u[k] + frames'[k]
    <3>1. 1 \in 1..(N + 1)
      BY <1>0, SMT
    <3>2. ASSUME NEW k \in 1..(N + 1)
          PROVE  u[k + 1] = u[k] + frames'[k]
      <4>1. CASE k = N + 1
        BY <1>0, <2>3, <2>4, <2>6, <4>1, SMTT(30)
      <4>2. CASE k # N + 1
        <5>1. k \in 1..N /\ k + 1 \in 1..(N + 1)
          BY <1>0, <4>2, SMTT(30)
        <5> QED
          BY <1>L, <2>3, <2>6, <5>1
      <4> QED
        BY <4>1, <4>2
    <3> QED
      BY <1>L, <2>6, <3>1, <3>2
  <2>9. \A k \in 1..(N + 1) : \A i \in 1..frames'[k] : u[k] + i <= Len(q) => q[u[k] + i] = k
    <3>0. SUFFICES ASSUME NEW k \in 1..(N + 1), NEW i \in 1..frames'[k]
                   PROVE  q[u[k] + i] = k
      OBVIOUS
    <3>1. CASE k = N + 1
      BY <2>1, <2>3, <2>4, <2>6, <2>7, <3>1, SMTT(30)
    <3>2. CASE k # N + 1
      <4>1. k \in 1..N /\ k + 1 \in 1..(N + 1)
        BY <1>0, <3>2, SMT
      <4>2. frames'[k] = frames[k] /\ u[k] = o[k] /\ frames[k] \in Nat /\ o[k] \in Nat
        BY <1>0, <1>O, <2>3, <2>6, <4>1, ElementOfSeq
      <4>3. o[k] + i <= Len(r)
        <5>1. o[k] + frames[k] <= o[N + 1]
          <6>1. Len(frames) = N
            BY DEF N
          <6> QED
            BY <1>0, <1>L, <4>1, <6>1, OffsetsGrow
        <5>2. i <= frames[k] /\ i \in Nat
          BY <4>2
        <5>3. o[N + 1] \in Nat
          BY <1>O, <2>4
        <5> QED
          BY <2>7, <4>2, <5>1, <5>2, <5>3
      <4>4. r[o[k] + i] = k
        BY <1>L, <4>1, <4>2, <4>3
      <4>5. o[k] + i \in 1..Len(r)
        BY <1>0, <4>2, <4>3, SMTT(30)
      <4> QED
        BY <2>1, <4>2, <4>4, <4>5
    <3> QED
      BY <3>1, <3>2
  <2>10. \A k \in 1..(N + 1), p \in 1..3 : 3 * k - 3 + p <= Len(y)
           => y[3 * k - 3 + p] = [part |-> p, off |-> u[k], len |-> frames'[k]]
    <3>0. SUFFICES ASSUME NEW k \in 1..(N + 1), NEW p \in 1..3, 3 * k - 3 + p <= Len(y)
                   PROVE  y[3 * k - 3 + p] = [part |-> p, off |-> u[k], len |-> frames'[k]]
      OBVIOUS
    <3>1. k \in 1..N
      BY <1>0, <2>1, <2>7, <3>0, SMTT(30)
    <3>2. u[k] = o[k] /\ frames'[k] = frames[k]
      BY <1>0, <2>3, <2>6, <3>1
    <3> QED
      BY <1>L, <2>1, <3>0, <3>1, <3>2
  <2>11. Len(q) = u[N + 2] /\ Len(y) = 3 * Rows' /\ raw_pos' = u[N + 2] /\ Rows' = N
    BY <1>0, <1>R, <2>1, <2>2, <2>3, <2>6, <2>7, SMTT(30)
  <2>12. Len(frames') = N + 1 /\ (N + 1) + 1 = N + 2 /\ Len(q) <= u[N + 2] /\ Len(y) <= 3 * (N + 1)
    BY <1>0, <2>1, <2>3, <2>5, <2>6, <2>7, <2>11, SMTT(30)
  <2>13. Laid(u)'
    <3>1. Len(frames') + 1 = N + 2
      BY <1>0, <2>12
    <3>2. u \in Seq(Nat) /\ Len(u) = Len(frames') + 1 /\ u[1] = 0
      BY <2>6, <2>8, <3>1
    <3>3. \A k \in 1..Len(frames') : u[k + 1] = u[k] + frames'[k]
      BY <2>8, <2>12
    <3>4. Len(q) <= u[Len(frames') + 1] /\ Len(y) <= 3 * Len(frames')
      BY <2>12, <3>1
    <3>5. \A k \in 1..Len(frames') : \A i \in 1..frames'[k] :
            u[k] + i <= Len(q) => q[u[k] + i] = k
      BY <2>9, <2>12
    <3>6. \A k \in 1..Len(frames'), p \in 1..3 : 3 * k - 3 + p <= Len(y)
            => y[3 * k - 3 + p] = [part |-> p, off |-> u[k], len |-> frames'[k]]
      BY <2>10, <2>12
    <3>7. Len(q) = u[Len(frames') + 1] /\ Len(y) = 3 * Rows' /\ raw_pos' = u[Len(frames') + 1]
      BY <2>11, <3>1
    <3> QED
      BY <3>2, <3>3, <3>4, <3>5, <3>6, <3>7, Zenon DEF Laid, q, y
  <2> QED
    BY <2>13
<1>3. CASE RecordRow
  <2>1. /\ Len(y) = Len(x) + 3 /\ \A i \in 1..Len(x) : y[i] = x[i]
        /\ \A p \in 1..3 : y[Len(x) + p] =
             [part |-> p, off |-> raw_pos - frames[N], len |-> frames[N]]
        /\ q = r
    BY <1>3, RowEffect, Zenon
  <2>2. /\ writer.phase = "row" /\ writer'.phase = "recv" /\ frames' = frames
        /\ raw_pos' = raw_pos /\ killed' = killed /\ ~killed
    BY <1>0, <1>3, <1>K DEF RecordRow
  <2>3. N > 0 /\ N \in 1..N
    BY <1>0, <2>2, SMTT(30) DEF RecPhases
  <2>4. Rows = N - 1 /\ Rows' = N
    BY <1>R, <2>2
  <2>5. frames[N] \in Nat /\ o[N] \in Nat /\ o[N + 1] = o[N] + frames[N]
    <3>1. N \in 1..(N + 1)
      BY <1>0, <2>3, SMTT(30)
    <3>2. frames[N] \in Nat
      BY <1>0, <2>3, ElementOfSeq
    <3> QED
      BY <1>L, <1>O, <2>3, <3>1, <3>2
  <2> HIDE DEF r, q, x, y, N
  <2>6. Len(r) = o[N + 1] /\ Len(x) = 3 * (N - 1) /\ raw_pos = o[N + 1]
    BY <1>L, <2>2, <2>4
  <2>7. raw_pos - frames[N] = o[N]
    BY <2>5, <2>6
  <2>8. Len(y) = 3 * N
    BY <1>0, <2>1, <2>6, SMTT(30)
  <2>9. RowsOf(y, N)
    <3>0. SUFFICES ASSUME NEW k \in 1..N, NEW p \in 1..3
                   PROVE  y[3 * k - 3 + p] = [part |-> p, off |-> o[k], len |-> frames[k]]
      OBVIOUS
    <3>1. CASE k = N
      <4>1. 3 * k - 3 + p = Len(x) + p
        BY <1>0, <2>6, <3>1, SMT
      <4> QED
        BY <2>1, <2>7, <3>1, <4>1
    <3>2. CASE k # N
      <4>1. 3 * k - 3 + p \in 1..Len(x) /\ 3 * k - 3 + p <= Len(x)
        BY <1>0, <2>6, <3>2, SMTT(30)
      <4> QED
        BY <1>L, <2>1, <4>1, Zenon
    <3> QED
      BY <3>1, <3>2
  <2> HIDE DEF InRawOf, RowsOf
  <2>10. Len(q) <= o[N + 1] /\ Len(y) <= 3 * N
    BY <1>0, <1>L, <2>1, <2>8, SMTT(30)
  <2>11. Len(q) = o[N + 1] /\ Len(y) = 3 * Rows' /\ raw_pos' = o[N + 1] /\ InRawOf(q, N)
    BY <1>L, <2>1, <2>2, <2>4, <2>6, <2>8
  <2> QED
    BY <1>G, <2>2, <2>9, <2>10, <2>11
<1>4. CASE FlushNext
  <2>1. q = r /\ y = x
    BY <1>4, FlushEffect, Zenon DEF RecFiles
  <2>2. /\ frames' = frames /\ raw_pos' = raw_pos /\ killed' = killed
        /\ writer'.phase \in {"none", writer.phase} /\ (writer'.phase # writer.phase => writer.phase = "end")
    <3>1. /\ frames' = frames /\ raw_pos' = raw_pos /\ killed' = killed
          /\ \/ writer' = Nobody /\ writer.phase = "end"
             \/ writer' = [writer EXCEPT !.todo = Tail(writer.todo)]
      BY <1>4 DEF FlushNext
    <3>2. Nobody.phase = "none"
      BY DEF Nobody
    <3>3. writer' = [writer EXCEPT !.todo = Tail(writer.todo)] => writer'.phase = writer.phase
      BY <1>0
    <3> QED
      BY <3>1, <3>2, <3>3, Zenon
  <2> HIDE DEF r, q, x, y, N, InRawOf, RowsOf
  <2>3. Rows' = Rows
    BY <1>R, <2>2 DEF N
  <2> QED
    BY <1>G, <1>L, <2>1, <2>2, <2>3
<1>5. CASE RecordEnd \/ RecordError
  <2>1. PICK order : EndWith(order)
    BY <1>5 DEF RecordEnd, RecordError
  <2>2. /\ q = r /\ y = x /\ frames' = frames /\ raw_pos' = raw_pos /\ killed' = killed
        /\ writer.phase = "recv" /\ writer'.phase = "end"
    BY <1>0, <1>5, <2>1 DEF EndWith, RecordEnd, RecordError
  <2> HIDE DEF r, q, x, y, N, InRawOf, RowsOf
  <2>3. Rows' = Rows
    BY <1>R, <2>2 DEF N
  <2> QED
    BY <1>G, <1>L, <2>2, <2>3
<1>6. CASE RecordKilled
  <2>1. Begins(q, r) /\ Begins(y, x)
    BY <1>6, KillEffect, Zenon DEF RecFiles
  <2>2. frames' = frames /\ killed' = TRUE /\ writer'.phase = "none"
    BY <1>6 DEF RecordKilled, Nobody
  <2>3. on_disk'["raw"] \in BufferOf(Nat) /\ on_disk'["index"] \in BufferOf(IndexPiece)
    BY <1>6, KillEffect, Zenon
  <2>4. q \in Seq(Nat) /\ y \in Seq(IndexPiece)
    BY <2>3, FlushedIs, Zenon
  <2> HIDE DEF r, q, x, y, N
  <2>5. Len(q) \in Nat /\ Len(y) \in Nat
    BY <2>4, LenProperties
  <2>6. /\ Len(q) <= Len(r) /\ \A i \in 1..Len(q) : q[i] = r[i]
        /\ Len(y) <= Len(x) /\ \A i \in 1..Len(y) : y[i] = x[i]
    BY <2>1 DEF Begins
  <2>7. o[N + 1] \in Nat /\ N + 1 \in 1..(N + 1)
    BY <1>0, <1>O, SMT
  <2>8. Len(q) <= o[N + 1] /\ Len(y) <= 3 * N
    BY <1>0, <1>L, <2>5, <2>6, <2>7, SMTT(30)
  <2>9. InRawOf(q, N)
    <3>0. SUFFICES ASSUME NEW k \in 1..N, NEW i \in 1..frames[k], o[k] + i <= Len(q)
                   PROVE  q[o[k] + i] = k
      OBVIOUS
    <3>1. frames[k] \in Nat /\ k \in 1..(N + 1)
      BY <1>0, ElementOfSeq, SMT DEF N
    <3>2. o[k] \in Nat
      BY <1>O, <3>1
    <3>3. o[k] + i \in 1..Len(q) /\ o[k] + i <= Len(r)
      <4>1. i \in Nat /\ i > 0
        BY <3>1
      <4>2. \A a, b, c, d \in Nat : b > 0 /\ a + b <= c /\ c <= d => a + b \in 1..c /\ a + b <= d
        BY SMT
      <4> QED
        BY <1>0, <2>5, <2>6, <3>0, <3>2, <4>1, <4>2, Zenon
    <3> QED
      BY <1>L, <2>6, <3>3
  <2>10. RowsOf(y, N)
    <3>0. SUFFICES ASSUME NEW k \in 1..N, NEW p \in 1..3, 3 * k - 3 + p <= Len(y)
                   PROVE  y[3 * k - 3 + p] = [part |-> p, off |-> o[k], len |-> frames[k]]
      OBVIOUS
    <3>1. 3 * k - 3 + p \in 1..Len(y) /\ 3 * k - 3 + p <= Len(x)
      BY <1>0, <2>5, <2>6, <3>0, SMTT(30)
    <3> QED
      BY <1>L, <2>6, <3>1, Zenon
  <2> HIDE DEF InRawOf, RowsOf
  <2> QED
    BY <1>G, <2>2, <2>8, <2>9, <2>10
<1>7. CASE UNCHANGED rec_vars
  BY <1>7 DEF rec_vars, Laid, Rows
<1> QED
  BY <1>1, <1>2, <1>3, <1>4, <1>5, <1>6, <1>7 DEF RecNext

-----------------------------------------------------------------------------
(* A bounded set of numbers has a greatest one. *)
LEMMA GreatestNumber ==
  ASSUME NEW M \in Nat, NEW S \in SUBSET (0..M), 0 \in S
  PROVE  \E n \in S : \A m \in S : m <= n
<1>0. SUFFICES ASSUME ~\E n \in S : \A m \in S : m <= n PROVE FALSE
  OBVIOUS
<1> DEFINE T == {j \in Nat : \A m \in S : m + j <= M}
<1>1. 0 \in T
  OBVIOUS
<1>2. ASSUME NEW j \in Nat, j \in T PROVE j + 1 \in T
  <2>1. ASSUME NEW n \in S PROVE n + j # M
    <3>1. CASE n + j = M
      <4>1. \A m \in S : m <= n
        BY <1>2, <3>1
      <4> QED
        BY <1>0, <4>1
    <3> QED
      BY <3>1
  <2>2. \A m \in S : m + j <= M /\ m \in Nat
    BY <1>2
  <2>3. \A m \in S : m + (j + 1) <= M
    BY <2>1, <2>2
  <2> QED
    BY <2>3
<1> HIDE DEF T
<1>3. Nat \subseteq T
  BY <1>1, <1>2, CountingUp
<1>4. M + 1 \in T
  BY <1>3
<1>5. 0 + (M + 1) <= M
  BY <1>4 DEF T
<1> QED
  BY <1>5

(* How far a reader gets that stops at the first of L lines that is not    *)
(* good.                                                                   *)
Farthest(L, P) ==
  LET good == {n \in 0..L : \A k \in 1..n : k \in P}
  IN  CHOOSE n \in good : \A m \in good : m <= n

(* It gets to the end of the lines when all are good. *)
LEMMA FarthestIs ==
  ASSUME NEW L \in Nat, NEW P
  PROVE  /\ Farthest(L, P) \in 0..L /\ \A k \in 1..Farthest(L, P) : k \in P
         /\ 1..L \subseteq P => Farthest(L, P) = L
<1> DEFINE good == {n \in 0..L : \A k \in 1..n : k \in P}
           g == Farthest(L, P)
<1>1. good \in SUBSET (0..L) /\ 0 \in good
  BY SMT
<1>2. 1..L \subseteq P => L \in good
  BY SMT
<1>3. \A n \in good : n \in 0..L /\ \A k \in 1..n : k \in P
  OBVIOUS
<1> HIDE DEF good
<1>4. \E n \in good : \A m \in good : m <= n
  BY <1>1, GreatestNumber
<1>5. g \in good /\ \A m \in good : m <= g
  BY <1>4, Zenon DEF Farthest, good
<1> HIDE DEF g
<1>6. 1..L \subseteq P => L <= g
  BY <1>2, <1>5
<1> QED
  BY <1>3, <1>5, <1>6 DEF good, g

(* A line of index.jsonl that parses is the row of its frame; all of them  *)
(* parse once everything was flushed.                                      *)
LEMMA LinesOfIndex ==
  ASSUME RecTypes, RecPhases, NEW o, Laid(o)
  PROVE  LET N == Len(frames)
         IN  /\ LinesInIndex \in Nat
             /\ \A k \in Nat \ {0} : LineParses(k) =>
                  k \in 1..N /\ Row(k) = [part |-> 1, off |-> o[k], len |-> frames[k]]
             /\ writer.phase = "none" /\ ~killed =>
                  /\ LinesInIndex = N
                  /\ \A k \in 1..N : LineParses(k)
<1> DEFINE N == Len(frames)
           d == on_disk["index"].disk
           x == Given(on_disk["index"])
<1>1. N \in Nat /\ on_disk["index"] \in BufferOf(IndexPiece) /\ d \in Seq(IndexPiece)
  BY LenProperties DEF RecTypes, BufferOf
<1>2. Begins(d, x) /\ x \in Seq(IndexPiece) /\ (on_disk["index"].buf = <<>> => d = x)
  BY <1>1, FlushedIs, Zenon
<1>3. /\ Len(x) <= 3 * N /\ (~killed => Len(x) = 3 * Rows)
      /\ \A k \in 1..N, p \in 1..3 : 3 * k - 3 + p <= Len(x)
           => x[3 * k - 3 + p] = [part |-> p, off |-> o[k], len |-> frames[k]]
  BY DEF Laid
<1>4. writer.phase = "none" => on_disk["index"].buf = <<>> /\ Rows = N
  BY DEF RecPhases, RecFiles, Rows
<1>5. LinesInIndex = (Len(d) + 2) \div 3
  BY DEF LinesInIndex
<1>6. \A k : Row(k) = d[3 * k - 2]
  BY DEF Row
<1>7. \A k : LineParses(k) <=>
        /\ 3 * k - 1 <= Len(d)
        /\ d[3 * k - 2].part = 1 /\ d[3 * k - 1].part = 2
        /\ 3 * k <= Len(d) => d[3 * k].part = 3
        /\ d[3 * k - 1] = [d[3 * k - 2] EXCEPT !.part = 2]
  BY DEF LineParses
<1> HIDE DEF d, x, N
<1>8. Len(d) \in Nat /\ Len(x) \in Nat /\ Len(d) <= Len(x) /\ \A i \in 1..Len(d) : d[i] = x[i]
  BY <1>1, <1>2, LenProperties DEF Begins
<1>9. LinesInIndex \in Nat
  BY <1>5, <1>8
<1>10. ASSUME NEW k \in Nat \ {0}, LineParses(k)
       PROVE  k \in 1..N /\ Row(k) = [part |-> 1, off |-> o[k], len |-> frames[k]]
  <2>1. 3 * k - 1 <= Len(d)
    BY <1>7, <1>10
  <2>2. k \in 1..N /\ 3 * k - 2 \in 1..Len(d) /\ 3 * k - 3 + 1 = 3 * k - 2 /\ 3 * k - 2 <= Len(x)
    BY <1>1, <1>3, <1>8, <2>1
  <2>3. x[3 * k - 2] = [part |-> 1, off |-> o[k], len |-> frames[k]]
    <3>1. 3 * k - 3 + 1 <= Len(x)
            => x[3 * k - 3 + 1] = [part |-> 1, off |-> o[k], len |-> frames[k]]
      <4>1. 1 \in 1..3
        OBVIOUS
      <4> QED
        BY <1>3, <2>2, <4>1, Zenon
    <3> QED
      BY <2>2, <3>1, Zenon
  <2> QED
    BY <1>6, <1>8, <2>2, <2>3
<1>11. ASSUME writer.phase = "none", ~killed
       PROVE  LinesInIndex = N /\ \A k \in 1..N : LineParses(k)
  <2>1. d = x /\ Len(x) = 3 * N
    BY <1>2, <1>3, <1>4, <1>11
  <2>2. LinesInIndex = N
    BY <1>1, <1>5, <2>1
  <2>3. ASSUME NEW k \in 1..N PROVE LineParses(k)
    <3>1. /\ 3 * k - 3 + 1 = 3 * k - 2 /\ 3 * k - 3 + 2 = 3 * k - 1 /\ 3 * k - 3 + 3 = 3 * k
          /\ 3 * k - 2 <= Len(x) /\ 3 * k - 1 <= Len(x) /\ 3 * k <= Len(x)
      BY <1>1, <2>1
    <3>2. /\ x[3 * k - 2] = [part |-> 1, off |-> o[k], len |-> frames[k]]
          /\ x[3 * k - 1] = [part |-> 2, off |-> o[k], len |-> frames[k]]
          /\ x[3 * k] = [part |-> 3, off |-> o[k], len |-> frames[k]]
      BY <1>3, <3>1, SMTT(30)
    <3>3. /\ d[3 * k - 2].part = 1 /\ d[3 * k - 1].part = 2 /\ d[3 * k].part = 3
          /\ d[3 * k - 1] = [d[3 * k - 2] EXCEPT !.part = 2]
      BY <2>1, <3>2, SMT
    <3> QED
      BY <1>7, <2>1, <3>1, <3>3, Zenon
  <2> QED
    BY <2>2, <2>3
<1> QED
  BY <1>9, <1>10, <1>11 DEF N

(* The range of a row that is on disk holds the bytes of its frame; all of *)
(* them are on disk once everything was flushed.                           *)
LEMMA RangesOfRaw ==
  ASSUME RecTypes, RecPhases, NEW o, Laid(o), NEW k \in 1..Len(frames),
         Row(k) = [part |-> 1, off |-> o[k], len |-> frames[k]]
  PROVE  /\ InRaw(Row(k)) => read_at(Row(k)) = FrameBytes(k)
         /\ writer.phase = "none" /\ ~killed => InRaw(Row(k))
<1> DEFINE N == Len(frames)
           d == on_disk["raw"].disk
           r == Given(on_disk["raw"])
           F == frames[k]
           a == o[k]
<1>1. N \in Nat /\ on_disk["raw"] \in BufferOf(Nat) /\ d \in Seq(Nat) /\ frames \in Seq(Nat)
  BY LenProperties DEF RecTypes, BufferOf
<1>2. Begins(d, r) /\ r \in Seq(Nat) /\ (on_disk["raw"].buf = <<>> => d = r)
  BY <1>1, FlushedIs, Zenon
<1>3. /\ o \in Seq(Nat) /\ Len(o) = N + 1 /\ \A j \in 1..N : o[j + 1] = o[j] + frames[j]
      /\ ~killed => Len(r) = o[N + 1]
      /\ \A i \in 1..F : a + i <= Len(r) => r[a + i] = k
  BY DEF Laid
<1>4. F \in Nat /\ k \in 1..(N + 1)
  BY <1>1, ElementOfSeq
<1>5. a \in Nat
  BY <1>3, <1>4, ElementOfSeq
<1>6. a + F <= o[N + 1]
  BY <1>1, <1>3, OffsetsGrow
<1>7. writer.phase = "none" => on_disk["raw"].buf = <<>>
  BY DEF RecPhases, RecFiles
<1>8. InRaw(Row(k)) <=> a + F <= Len(d)
  BY DEF InRaw
<1>9. read_at(Row(k)) = SubSeq(d, a + 1, a + F)
  <2>1. Row(k).off = a /\ Row(k).len = F
    OBVIOUS
  <2> HIDE DEF a, F
  <2> QED
    BY <2>1, Zenon DEF read_at
<1>10. FrameBytes(k) = [i \in 1..F |-> k]
  BY DEF FrameBytes
<1> HIDE DEF N, d, r, F, a
<1>11. Len(d) \in Nat /\ Len(r) \in Nat /\ Len(d) <= Len(r) /\ \A i \in 1..Len(d) : d[i] = r[i]
  BY <1>1, <1>2, LenProperties DEF Begins
<1>12. ASSUME a + F <= Len(d)
       PROVE  SubSeq(d, a + 1, a + F) = [i \in 1..F |-> k]
  <2>1. /\ a + 1 \in 1..(Len(d) + 1) /\ a + F \in a..Len(d)
        /\ (a + F) - (a + 1) + 1 = F
    BY <1>4, <1>5, <1>11, <1>12
  <2>2. SubSeq(d, a + 1, a + F) = [i \in 1..((a + F) - (a + 1) + 1) |-> d[i + (a + 1) - 1]]
    BY <1>5, <1>4 DEF SubSeq
  <2>3. ASSUME NEW i \in 1..F PROVE d[i + (a + 1) - 1] = k
    <3>1. i + (a + 1) - 1 = a + i /\ a + i \in 1..Len(d) /\ a + i <= Len(r)
      BY <1>4, <1>5, <1>11, <1>12
    <3> QED
      BY <1>3, <1>11, <3>1
  <2> QED
    BY <2>1, <2>2, <2>3
<1> QED
  BY <1>2, <1>3, <1>6, <1>7, <1>8, <1>9, <1>10, <1>12

(* What the readers give, when the frames and their rows are in place. *)
LEMMA ReadBack ==
  ASSUME RecTypes, RecPhases, LinesLaid, NEW o, Laid(o)
  PROVE  ReadBackIsRecorded
<1> DEFINE N == Len(frames)
           L == LinesInIndex
           P1 == {k \in Nat \ {0} : LineParses(k)}
           P2 == {k \in Nat \ {0} : LineParses(k) /\ InRaw(Row(k))}
           g1 == Farthest(L, P1)
           g2 == Farthest(L, P2)
           rows == [k \in 1..g2 |-> Row(k)]
           out == [k \in 1..g2 |-> read_at(Row(k))]
           done == writer.phase = "none" /\ ~killed
<1>1. /\ L \in Nat
      /\ \A k \in P1 : k \in 1..N /\ Row(k) = [part |-> 1, off |-> o[k], len |-> frames[k]]
      /\ done => L = N /\ \A k \in 1..N : LineParses(k)
  BY LinesOfIndex, Zenon
<1>2. N \in Nat
  BY LenProperties DEF RecTypes
<1>3. \A k \in P2 : k \in 1..N /\ read_at(Row(k)) = FrameBytes(k) /\ Row(k).len = frames[k]
  <2>1. SUFFICES ASSUME NEW k \in P2
                 PROVE  /\ k \in 1..N /\ read_at(Row(k)) = FrameBytes(k)
                        /\ Row(k).len = frames[k]
    OBVIOUS
  <2>2. k \in P1 /\ InRaw(Row(k))
    OBVIOUS
  <2>3. k \in 1..N /\ Row(k) = [part |-> 1, off |-> o[k], len |-> frames[k]]
    BY <1>1, <2>2, Zenon
  <2>4. read_at(Row(k)) = FrameBytes(k)
    BY <2>2, <2>3, RangesOfRaw, Zenon
  <2>5. Row(k).len = frames[k]
    BY <2>3
  <2> QED
    BY <2>3, <2>4, <2>5
<1>4. done => 1..N \subseteq P1 /\ 1..N \subseteq P2
  <2>1. SUFFICES ASSUME done, NEW k \in 1..N PROVE k \in P1 /\ k \in P2
    OBVIOUS
  <2>2. k \in Nat \ {0} /\ LineParses(k)
    BY <1>1, <1>2, <2>1
  <2>3. k \in P1
    BY <2>2
  <2>4. InRaw(Row(k))
    BY <1>1, <2>1, <2>3, RangesOfRaw, Zenon
  <2> QED
    BY <2>2, <2>4
<1>5. /\ UpToError(LineParses) = [k \in 1..g1 |-> Row(k)]
      /\ UpToError(LAMBDA k : LineParses(k) /\ InRaw(Row(k))) = rows
  <2>1. \A n \in 0..L : \A k \in 1..n : /\ LineParses(k) <=> k \in P1
                                        /\ LineParses(k) /\ InRaw(Row(k)) <=> k \in P2
    BY <1>1, SMT
  <2> DEFINE good1 == {n \in 0..L : \A k \in 1..n : k \in P1}
             good2 == {n \in 0..L : \A k \in 1..n : k \in P2}
  <2>2. good1 = {n \in 0..L : \A k \in 1..n : LineParses(k)}
    BY <2>1, Zenon
  <2>3. good2 = {n \in 0..L : \A k \in 1..n : LineParses(k) /\ InRaw(Row(k))}
    BY <2>1, Zenon
  <2>6. /\ g1 = CHOOSE n \in good1 : \A m \in good1 : m <= n
        /\ g2 = CHOOSE n \in good2 : \A m \in good2 : m <= n
    BY Zenon DEF Farthest
  <2> HIDE DEF P1, P2, good1, good2, L, g1, g2
  <2>4. UpToError(LineParses) = [k \in 1..g1 |-> Row(k)]
    BY <2>2, <2>6, Zenon DEF UpToError, L
  <2>5. UpToError(LAMBDA k : LineParses(k) /\ InRaw(Row(k))) = rows
    BY <2>3, <2>6, Zenon DEF UpToError, L
  <2> QED
    BY <2>4, <2>5
<1> HIDE DEF P1, P2, L, N, done
<1>6. g1 \in 0..L /\ (1..L \subseteq P1 => g1 = L)
  BY <1>1, FarthestIs, Zenon
<1>7. g2 \in 0..L /\ (\A k \in 1..g2 : k \in P2) /\ (1..L \subseteq P2 => g2 = L)
  BY <1>1, FarthestIs, Zenon
<1> HIDE DEF g1, g2
<1>8. done => g1 = L /\ g2 = N
  BY <1>1, <1>4, <1>6, <1>7
<1>9. g2 \in Nat /\ g2 <= N /\ \A k \in 1..g2 : out[k] = FrameBytes(k)
  <2>1. \A k \in 1..g2 : k \in 1..N /\ read_at(Row(k)) = FrameBytes(k)
    BY <1>3, <1>7, Zenon
  <2>2. g2 \in Nat
    BY <1>1, <1>7
  <2>3. g2 <= N
    <3>1. CASE g2 = 0
      BY <1>2, <3>1
    <3>2. CASE g2 # 0
      <4>1. g2 \in 1..g2
        BY <2>2, <3>2
      <4> QED
        BY <1>2, <2>1, <2>2, <4>1
    <3> QED
      BY <3>1, <3>2
  <2> QED
    BY <2>1, <2>2, <2>3
<1>10. Begins(out, Recorded) /\ (done => out = Recorded) /\ Begins(<<>>, Recorded)
  <2>1. Recorded = [n \in 1..N |-> FrameBytes(n)]
    <3>1. DOMAIN frames = 1..N
      BY LenProperties DEF RecTypes, N
    <3> QED
      BY <3>1, Zenon DEF Recorded
  <2> DEFINE R == [n \in 1..N |-> FrameBytes(n)]
  <2>2. Len(R) = N /\ Len(out) = g2
    BY <1>2, <1>9
  <2>3. \A k \in 1..g2 : k \in 1..N
    BY <1>2, <1>9
  <2>4. \A k \in 1..g2 : out[k] = R[k]
    BY <1>9, <2>3
  <2>5. done => out = R
    BY <1>8, <1>9
  <2> HIDE DEF out, R
  <2>6. Begins(out, R)
    BY <1>9, <2>2, <2>4 DEF Begins
  <2>7. Begins(<<>>, R)
    BY <1>2, <2>2 DEF Begins
  <2> QED
    BY <2>1, <2>5, <2>6, <2>7 DEF R
<1>11. ExportedRows = rows /\ DOMAIN rows = 1..g2 /\ \A k \in 1..g2 : rows[k] = Row(k)
  BY <1>5, Zenon DEF ExportedRows
<1>12. text_run = out
  BY <1>11, Zenon DEF text_run
<1>13. /\ csv_run = [k \in 1..g2 |-> [len |-> Row(k).len, text |-> read_at(Row(k))]]
       /\ jsonl_run = [k \in 1..g2 |-> [row |-> Row(k), text |-> read_at(Row(k))]]
  BY <1>11, Zenon DEF csv_run, jsonl_run
<1>14. Texts_(csv_run) = out /\ Texts_(jsonl_run) = out
  BY <1>13 DEF Texts_
<1>15. \A k \in DOMAIN csv_run : csv_run[k].len = frames[k]
  <2>1. DOMAIN csv_run = 1..g2 /\ \A k \in 1..g2 : csv_run[k].len = Row(k).len
    BY <1>13
  <2> QED
    BY <1>3, <1>7, <2>1, Zenon
<1>16. ReplayEmitted \in {out, <<>>} /\ (done => ReplayEmitted = out)
  <2>1. replay_run = g1
    <3>1. replay_run = Len([k \in 1..g1 |-> Row(k)])
      BY <1>5, Zenon DEF replay_run
    <3>2. g1 \in Nat
      BY <1>1, <1>6
    <3> QED
      BY <3>1, <3>2
  <2>2. done => ReplayOpens
    BY <1>8, <2>1 DEF ReplayOpens, L
  <2>3. ReplayOpens => ReplayEmitted = out
    BY <1>5, <1>11, Zenon DEF ReplayEmitted
  <2>4. ~ReplayOpens => ReplayEmitted = <<>>
    BY DEF ReplayEmitted
  <2> QED
    BY <2>2, <2>3, <2>4
<1>17. Begins(on_disk["lines"].disk, AllLines)
  <2> DEFINE d == on_disk["lines"].disk
             l == Given(on_disk["lines"])
             Cell(i) == [line |-> (i + 1) \div 2, part |-> 2 - (i % 2)]
  <2>1. on_disk["lines"] \in BufferOf(LinePiece) /\ d \in Seq(LinePiece)
    BY DEF RecTypes, BufferOf
  <2>2. Begins(d, l) /\ l \in Seq(LinePiece)
    BY <2>1, FlushedIs, Zenon
  <2>3. Len(l) <= 2 * N /\ \A i \in 1..Len(l) : l[i] = Cell(i)
    BY DEF LinesLaid, N
  <2>4. AllLines = [i \in 1..(2 * N) |-> Cell(i)]
    BY DEF AllLines, N
  <2> HIDE DEF d, l, Cell
  <2>5. Len(d) \in Nat /\ Len(l) \in Nat /\ Len(d) <= Len(l) /\ \A i \in 1..Len(d) : d[i] = l[i]
    BY <2>1, <2>2, LenProperties DEF Begins
  <2>6. Len(AllLines) = 2 * N /\ \A i \in 1..(2 * N) : AllLines[i] = Cell(i)
    BY <1>2, <2>4
  <2>7. Len(d) <= 2 * N /\ \A i \in 1..Len(d) : i \in 1..Len(l) /\ i \in 1..(2 * N)
    BY <1>2, <2>3, <2>5
  <2>8. \A i \in 1..Len(d) : d[i] = AllLines[i]
    BY <2>3, <2>5, <2>6, <2>7, Zenon
  <2> QED
    BY <2>6, <2>7, <2>8 DEF Begins, d
<1>18. \A s \in {ReplayEmitted, text_run, Texts_(csv_run), Texts_(jsonl_run)} :
         Begins(s, Recorded) /\ (writer.phase = "none" /\ ~killed => s = Recorded)
  <2> HIDE DEF out
  <2> QED
    BY <1>10, <1>12, <1>14, <1>16, Zenon DEF done
<1> QED
  BY <1>15, <1>17, <1>18, Zenon DEF ReadBackIsRecorded

(* RecInv is an invariant: frames and rows stay in place through flushes,  *)
(* errors, kills and further recordings.                                   *)
THEOREM RecordingInvariant == RecSpec => []RecInv
<1>1. RecInit => RecInv
  <2>0. SUFFICES ASSUME RecInit PROVE RecInv
    OBVIOUS
  <2> DEFINE f == NewFile
  <2>1. /\ on_disk = [n \in RecFiles |-> f] /\ raw_pos = 0 /\ frames = <<>> /\ recordings = 0
        /\ killed = FALSE /\ reused = FALSE /\ writer = Nobody
    BY <2>0 DEF RecInit, RecFiles
  <2>2. \A S : f \in BufferOf(S)
    <3>1. \A S : <<>> \in Seq(S)
      OBVIOUS
    <3> QED
      BY <3>1 DEF NewFile, BufferOf
  <2>3. Given(f) = <<>> /\ f.buf = <<>>
    BY DEF NewFile, Given
  <2> HIDE DEF f
  <2>4. \A n \in RecFiles : on_disk[n] = f
    BY <2>1
  <2>5. on_disk["raw"] = f /\ on_disk["index"] = f /\ on_disk["lines"] = f
    BY <2>4 DEF RecFiles
  <2>6. RecTypes
    <3>1. Nobody \in [kind : Writers, phase : {"none", "recv", "row", "end"},
                      count : Nat, todo : Seq(RecFiles)]
      <4>1. <<>> \in Seq(RecFiles)
        OBVIOUS
      <4> QED
        BY <4>1 DEF Nobody, Writers
    <3>2. frames \in Seq(Nat)
      BY <2>1
    <3> QED
      BY <2>1, <2>2, <2>5, <3>1, <3>2 DEF RecTypes
  <2>7. writer.phase = "none"
    BY <2>1 DEF Nobody
  <2>8. RecPhases
    BY <2>1, <2>3, <2>4, <2>7 DEF RecPhases, f
  <2>9. LinesLaid
    BY <2>1, <2>3, <2>5, <2>7 DEF LinesLaid
  <2>10. Laid(<<0>>)
    BY <2>1, <2>3, <2>5, <2>7 DEF Laid, Rows
  <2> QED
    BY <2>6, <2>8, <2>9, <2>10 DEF RecInv
<1>2. RecInv /\ [RecNext]_rec_vars => RecInv'
  <2>0. SUFFICES ASSUME RecInv, [RecNext]_rec_vars PROVE RecInv'
    OBVIOUS
  <2>1. RecTypes /\ RecPhases
    BY <2>0 DEF RecInv
  <2>2. RecTypes'
    BY <2>0, <2>1, RecTypesStep
  <2>3. RecPhases'
    BY <2>0, <2>1, RecPhasesStep
  <2>4. ~reused' => ~reused
    BY <2>0, <2>1 DEF RecNext, rec_vars, CreateSession, RecordRaw, RecordRow, FlushNext,
                      RecordEnd, RecordError, EndWith, RecordKilled, RecTypes
  <2>5. ASSUME ~reused' PROVE LinesLaid' /\ (\E u : Laid(u))'
    <3>1. ~reused
      BY <2>4, <2>5
    <3>2. PICK o : Laid(o)
      BY <2>0, <3>1 DEF RecInv
    <3>3. LinesLaid
      BY <2>0, <3>1 DEF RecInv
    <3>4. LinesLaid'
      BY <2>0, <2>1, <2>5, <3>3, LinesStep
    <3>5. (\E u : Laid(u))'
      BY <2>0, <2>1, <2>5, <3>1, <3>2, LaidStep
    <3> QED
      BY <3>4, <3>5
  <2> QED
    BY <2>2, <2>3, <2>5 DEF RecInv
<1> QED
  BY <1>1, <1>2, PTL DEF RecSpec

(* Replay and the exporters read back what was recorded (RawReader,        *)
(* ReplaySource and the export commands against BufWriter's flushes), for  *)
(* every capacity of the buffers and every number of frames.               *)
THEOREM RecordingsReadBack == RecSpec => []ReadBackIsRecorded
<1>1. RecInv => ReadBackIsRecorded
  <2>0. SUFFICES ASSUME RecInv, ~reused PROVE ReadBackIsRecorded
    BY DEF ReadBackIsRecorded
  <2>1. PICK o : Laid(o)
    BY <2>0 DEF RecInv
  <2>2. RecTypes /\ RecPhases /\ LinesLaid
    BY <2>0 DEF RecInv
  <2> QED
    BY <2>1, <2>2, ReadBack
<1> QED
  BY <1>1, RecordingInvariant, PTL
=============================================================================
