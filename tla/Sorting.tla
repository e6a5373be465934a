------------------------------- MODULE Sorting -------------------------------
(***************************************************************************)
(* The keys objects are listed by (crates/sorting): strings of bytes, of   *)
(* which there is room for another between, before or after any two - or   *)
(* so the callers assume.                                                  *)
(***************************************************************************)
EXTENDS Integers, Sequences

CONSTANTS
    MaxByte     \* u8::MAX

ASSUME SortingAssumption == MaxByte \in Nat /\ MaxByte >= 3

Byte == 0..MaxByte

Sort == Seq(Byte)

(* The order of slices: at the first byte that differs, or by length. *)
Less(s, t) ==
    \E k \in 1..Len(t) :
        /\ k <= Len(s) + 1
        /\ \A j \in 1..k-1 : s[j] = t[j]
        /\ k <= Len(s) => s[k] < t[k]

Low(s, i) == IF i <= Len(s) THEN s[i] ELSE 0

High(s, i) == IF i <= Len(s) THEN s[i] ELSE MaxByte

(* The positions where a byte fits between the two. *)
Gaps(len, lo, hi) == {i \in 1..len : Low(lo, i) + 1 < High(hi, i)}

(* What is kept of the lower key around the byte that changes: all of it, or
   zeros where it does not reach so far. *)
Around(lo, i, j) == IF i <= Len(lo) + 1 THEN lo[j] ELSE 0

(* midpoint_impl. An iterator that never ends gives what the empty key does. *)
Middle(len, lo, hi) ==
    IF Gaps(len, lo, hi) = {} THEN Append(lo, MaxByte \div 2)
    ELSE LET i == CHOOSE i \in Gaps(len, lo, hi) : \A j \in Gaps(len, lo, hi) : i <= j
             size == IF i < Len(lo) THEN Len(lo) ELSE i
         IN  [j \in 1..size |->
                IF j = i THEN (Low(lo, i) + High(hi, i)) \div 2 ELSE Around(lo, i, j)]

Longer(s, t) == IF Len(s) < Len(t) THEN Len(t) ELSE Len(s)

Midpoint(s, t) ==
    IF s = t THEN s
    ELSE IF Less(s, t) THEN Middle(Longer(s, t), s, t)
    ELSE Middle(Longer(s, t), t, s)

Before(s) == Middle(Len(s), <<>>, s)

After(s) == Middle(Len(s), s, <<>>)
=============================================================================
