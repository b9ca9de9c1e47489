-------------------------------- MODULE Lists --------------------------------
(***************************************************************************)
(* Array.filter, Array.find and the sum of a list of numbers, as recursive *)
(* functions over its positions, so that proofs can unfold them.           *)
(***************************************************************************)
EXTENDS Naturals, Sequences

(* The items at the positions in K, in their order. *)
Keep(s, K) ==
  LET kept[n \in 0..Len(s)] ==
        IF n = 0 THEN <<>>
        ELSE IF n \in K THEN Append(kept[n - 1], s[n]) ELSE kept[n - 1]
  IN kept[Len(s)]

(* The sum of a list of numbers. *)
Total(v) ==
  LET sum[n \in 0..Len(v)] == IF n = 0 THEN 0 ELSE sum[n - 1] + v[n]
  IN sum[Len(v)]

(* The first of a set of positions, 0 when there is none. *)
FirstOf(K) == IF K = {} THEN 0 ELSE CHOOSE i \in K : \A j \in K : i <= j
=============================================================================
