----------------------------- MODULE RingIndex -----------------------------
(* Index arithmetic of cores/arduino/RingBuffer.cpp, for a ring of Size     *)
(* cells of which Size - 1 can hold a byte.                                *)
EXTENDS Integers

CONSTANT Size   (* `size`: one more than the capacity the constructor is given. *)

ASSUME SizeAssumption == Size \in Nat /\ Size > 1

Index == 0 .. Size - 1

AfterUnwrapped(i) == i + 1                                \* wrong: no wrap

(* The cell after i.                                                       *)
After(i) == (i + 1) % Size

(* use() and available() when both indices are read in one go.             *)
Used(w, r) == IF w < r THEN Size - (r - w) ELSE w - r
Free(w, r) == IF w < r THEN r - w - 1 ELSE (Size - w) + r - 1
=============================================================================
