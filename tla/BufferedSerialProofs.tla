------------------------ MODULE BufferedSerialProofs ------------------------
(***************************************************************************)
(* Proofs about BufferedSerial, for rings of every size, any number of     *)
(* bytes and any number of flushes.                                        *)
(***************************************************************************)
EXTENDS BufferedSerial, SequenceTheorems, TLAPS

-----------------------------------------------------------------------------
(* A ring of n cells b with the indices w and r; both rings are one.       *)
Succ(n, i) == (i + 1) % n
Count(n, w, r) == IF w < r THEN n - (r - w) ELSE w - r
Put(b, w, x) == [b EXCEPT ![w] = x]
Row(n, b, w, r) == [i \in 1 .. Count(n, w, r) |-> b[(r + i - 1) % n]]

(* The remainder of a number less than twice the divisor.                  *)
LEMMA Remainder ==
  ASSUME NEW n \in Nat, n > 1, NEW i \in Nat, i < 2 * n
  PROVE  i % n = IF i < n THEN i ELSE i - n
OBVIOUS

(* The successor of an index is an index, one more or back at 0.           *)
LEMMA SuccIsNext ==
  ASSUME NEW n \in Nat, n > 1, NEW i \in 0 .. n - 1
  PROVE  Succ(n, i) \in 0 .. n - 1 /\ Succ(n, i) = IF i + 1 = n THEN 0 ELSE i + 1
<1> DEFINE j == i + 1
<1>1. j \in Nat /\ j < 2 * n
  OBVIOUS
<1>2. j % n = IF j < n THEN j ELSE j - n
  <2> HIDE DEF j
  <2> QED BY <1>1, Remainder
<1> QED BY <1>1, <1>2 DEF Succ

(* Which cells lie between the indices.                                    *)
LEMMA CountRange ==
  ASSUME NEW n \in Nat, n > 1, NEW w \in 0 .. n - 1, NEW r \in 0 .. n - 1
  PROVE  /\ Count(n, w, r) \in 0 .. n - 1
         /\ Count(n, w, r) = 0 <=> w = r
BY DEF Count

(* The i-th byte that waits is in the i-th cell from the read index.       *)
LEMMA RowCell ==
  ASSUME NEW n \in Nat, n > 1, NEW w \in 0 .. n - 1, NEW r \in 0 .. n - 1, NEW b,
         NEW i \in 1 .. Count(n, w, r)
  PROVE  /\ Row(n, b, w, r)[i] = b[(r + i - 1) % n]
         /\ (r + i - 1) % n = IF r + i - 1 < n THEN r + i - 1 ELSE r + i - 1 - n
         /\ (r + i - 1) % n \in 0 .. n - 1
<1> DEFINE j == r + i - 1
<1>1. j \in Nat /\ j < 2 * n
  BY CountRange
<1>2. j % n = IF j < n THEN j ELSE j - n
  <2> HIDE DEF j
  <2> QED BY <1>1, Remainder
<1> QED BY <1>1, <1>2 DEF Row

(* Two indices have two successors.                                        *)
LEMMA SuccInjective ==
  ASSUME NEW n \in Nat, n > 1, NEW i \in 0 .. n - 1, NEW j \in 0 .. n - 1, i # j
  PROVE  Succ(n, i) # Succ(n, j)
BY SuccIsNext

(* What is between the indices is a sequence of fewer than n bytes.        *)
LEMMA RowIsSeq ==
  ASSUME NEW n \in Nat, n > 1, NEW w \in 0 .. n - 1, NEW r \in 0 .. n - 1,
         NEW V, NEW b \in [0 .. n - 1 -> V]
  PROVE  Row(n, b, w, r) \in Seq(V) /\ Len(Row(n, b, w, r)) = Count(n, w, r)
<1> DEFINE f(i) == b[(r + i - 1) % n]
           m == Count(n, w, r)
<1>1. m \in Nat /\ \A i \in 1 .. m : f(i) \in V
  BY CountRange, RowCell, SMTT(30)
<1>2. [i \in 1 .. m |-> f(i)] \in Seq(V)
  <2> HIDE DEF f, m
  <2> QED BY <1>1, IsASeq
<1>3. Row(n, b, w, r) = [i \in 1 .. m |-> f(i)]
  BY DEF Row
<1> QED BY <1>1, <1>2, <1>3

(* A byte put in a ring that is not full comes last.                       *)
LEMMA RowPut ==
  ASSUME NEW n \in Nat, n > 1, NEW w \in 0 .. n - 1, NEW r \in 0 .. n - 1,
         NEW b \in [0 .. n - 1 -> Int], NEW x \in Int, Succ(n, w) # r
  PROVE  Row(n, Put(b, w, x), Succ(n, w), r) = Append(Row(n, b, w, r), x)
<1> DEFINE c == Put(b, w, x)
           v == Succ(n, w)
           m == Count(n, w, r)
           s == Row(n, b, w, r)
<1>1. v \in 0 .. n - 1 /\ v = IF w + 1 = n THEN 0 ELSE w + 1
  BY SuccIsNext
<1>2. m \in 0 .. n - 1 /\ Count(n, v, r) = m + 1
  BY <1>1 DEF Count
<1>3. c \in [0 .. n - 1 -> Int] /\ c[w] = x /\ \A k \in 0 .. n - 1 : k # w => c[k] = b[k]
  BY DEF Put
<1>4. s \in Seq(Int) /\ Len(s) = m
  BY RowIsSeq
<1>5. Row(n, c, v, r) \in Seq(Int) /\ Len(Row(n, c, v, r)) = m + 1
  <2> HIDE DEF c, v
  <2> QED BY <1>1, <1>2, <1>3, RowIsSeq
<1>6. /\ Append(s, x) \in Seq(Int) /\ Len(Append(s, x)) = m + 1
      /\ Append(s, x)[m + 1] = x /\ \A i \in 1 .. m : Append(s, x)[i] = s[i]
  <2> HIDE DEF s, m
  <2> QED BY <1>4, AppendProperties
<1>7. ASSUME NEW i \in 1 .. m + 1
      PROVE  Row(n, c, v, r)[i] = Append(s, x)[i]
  <2> DEFINE k == (r + i - 1) % n
  <2>1. Row(n, c, v, r)[i] = c[k] /\ k = IF r + i - 1 < n THEN r + i - 1 ELSE r + i - 1 - n
    <3>1. i \in 1 .. Count(n, v, r)
      BY <1>2
    <3> HIDE DEF c, v
    <3> QED BY <1>1, <3>1, RowCell, SMTT(30)
  <2>2. k = IF r + i - 1 < n THEN r + i - 1 ELSE r + i - 1 - n
    BY <2>1
  <2> HIDE DEF k, c, v, s
  <2>3. CASE i = m + 1
    <3>1. k = w
      BY <2>2, <2>3 DEF Count
    <3> QED BY <1>3, <1>6, <2>1, <2>3, <3>1
  <2>4. CASE i \in 1 .. m
    <3>1. s[i] = b[k]
      BY <2>4, RowCell DEF s, k
    <3>2. k # w /\ k \in 0 .. n - 1
      BY <1>2, <2>2, <2>4 DEF Count
    <3> QED BY <1>3, <1>6, <2>1, <2>4, <3>1, <3>2
  <2>5. i = m + 1 \/ i \in 1 .. m
    <3> HIDE DEF m
    <3> QED BY <1>2
  <2> QED BY <2>3, <2>4, <2>5
<1> HIDE DEF c, v, m, s
<1>8. Row(n, c, v, r) = Append(s, x)
  BY <1>5, <1>6, <1>7, SeqEqual
<1> QED BY <1>8 DEF c, v, s

(* A byte taken from a ring that is not empty is the first.                *)
LEMMA RowTake ==
  ASSUME NEW n \in Nat, n > 1, NEW w \in 0 .. n - 1, NEW r \in 0 .. n - 1,
         NEW V, NEW b \in [0 .. n - 1 -> V], w # r
  PROVE  /\ Row(n, b, w, r) = <<b[r]>> \o Row(n, b, w, Succ(n, r))
         /\ Count(n, w, Succ(n, r)) = Count(n, w, r) - 1
<1> DEFINE s == Succ(n, r)
           m == Count(n, w, r)
<1>1. s \in 0 .. n - 1 /\ s = IF r + 1 = n THEN 0 ELSE r + 1
  BY SuccIsNext
<1>2. m \in 1 .. n - 1 /\ Count(n, w, s) = m - 1
  BY <1>1 DEF Count
<1>3. Row(n, b, w, r) \in Seq(V) /\ Len(Row(n, b, w, r)) = m
  BY RowIsSeq
<1>4. Row(n, b, w, s) \in Seq(V) /\ Len(Row(n, b, w, s)) = m - 1
  <2> HIDE DEF s, m
  <2> QED BY <1>1, <1>2, RowIsSeq
<1>5. b[r] \in V /\ <<b[r]>> \in Seq(V)
  OBVIOUS
<1>6. ASSUME NEW i \in 1 .. m
      PROVE  Row(n, b, w, r)[i] = (<<b[r]>> \o Row(n, b, w, s))[i]
  <2>1. /\ Row(n, b, w, r)[i] = b[(r + i - 1) % n]
        /\ (r + i - 1) % n = IF r + i - 1 < n THEN r + i - 1 ELSE r + i - 1 - n
    BY RowCell
  <2>2. CASE i = 1
    BY <1>4, <1>5, <2>1, <2>2
  <2>3. CASE i \in 2 .. m
    <3>1. i - 1 \in 1 .. Count(n, w, s)
      BY <1>2, <2>3
    <3>2. /\ Row(n, b, w, s)[i - 1] = b[(s + (i - 1) - 1) % n]
          /\ (s + (i - 1) - 1) % n = IF s + (i - 1) - 1 < n THEN s + (i - 1) - 1 ELSE s + (i - 1) - 1 - n
      <4> DEFINE k == i - 1
      <4> HIDE DEF s, k
      <4>1. k \in 1 .. Count(n, w, s) /\ s \in 0 .. n - 1
        BY <1>1, <3>1 DEF k
      <4>2. /\ Row(n, b, w, s)[k] = b[(s + k - 1) % n]
            /\ (s + k - 1) % n = IF s + k - 1 < n THEN s + k - 1 ELSE s + k - 1 - n
        BY <4>1, RowCell
      <4> QED BY <4>2 DEF k
    <3>3. (s + (i - 1) - 1) % n = (r + i - 1) % n
      BY <1>1, <1>2, <2>1, <2>3, <3>2
    <3>4. (<<b[r]>> \o Row(n, b, w, s))[i] = Row(n, b, w, s)[i - 1]
      BY <1>4, <1>5, <2>3, ConcatProperties
    <3> QED BY <2>1, <3>2, <3>3, <3>4
  <2>4. i = 1 \/ i \in 2 .. m
    <3> HIDE DEF m
    <3> QED BY <1>2
  <2> QED BY <2>2, <2>3, <2>4
<1>7. <<b[r]>> \o Row(n, b, w, s) \in Seq(V) /\ Len(<<b[r]>> \o Row(n, b, w, s)) = m
  BY <1>2, <1>4, <1>5, ConcatProperties
<1>8. Row(n, b, w, r) = <<b[r]>> \o Row(n, b, w, s)
  <2> HIDE DEF s, m
  <2> QED BY <1>3, <1>6, <1>7, SeqEqual
<1> QED BY <1>2, <1>8

(* Nothing waits where the indices meet.                                   *)
LEMMA RowEmpty ==
  ASSUME NEW n \in Nat, n > 1, NEW b, NEW r \in 0 .. n - 1
  PROVE  Row(n, b, r, r) = <<>> /\ Count(n, r, r) = 0
BY DEF Row, Count

(* The model's own names for all this.                                     *)
LEMMA TxNames ==
  /\ TxContents = Row(TxSize, tx.buf, tx.w, tx.r) /\ TxUsed = Count(TxSize, tx.w, tx.r)
  /\ TxContents' = Row(TxSize, tx'.buf, tx'.w, tx'.r) /\ TxUsed' = Count(TxSize, tx'.w, tx'.r)
  /\ \A i : Tx!After(i) = Succ(TxSize, i)
BY DEF TxContents, TxUsed, Tx!Used, Tx!After, Row, Count, Succ

(* The same for the receive ring.                                          *)
LEMMA RxNames ==
  /\ RxContents = Row(RxSize, rx.buf, rx.w, rx.r)
  /\ RxContents' = Row(RxSize, rx'.buf, rx'.w, rx'.r)
  /\ \A i : Rx!After(i) = Succ(RxSize, i)
BY DEF RxContents, RxUsed, Rx!Used, Rx!After, Row, Count, Succ

-----------------------------------------------------------------------------
(* Sequences.                                                              *)

Ascending(s) == \A i, j \in 1 .. Len(s) : i < j => s[i] < s[j]

(* Sequences of one length with the same elements are equal.              *)
LEMMA SameSequence ==
  ASSUME NEW a \in Seq(Int), NEW b \in Seq(Int), Len(a) = Len(b),
         \A i \in 1 .. Len(a) : a[i] = b[i]
  PROVE  a = b
BY SMTT(30)

(* Concatenation is associative.                                           *)
LEMMA Associative ==
  \A s, t, u \in Seq(Int) : s \o (t \o u) = (s \o t) \o u
<1> TAKE s, t, u \in Seq(Int)
<1>1. s \o t \in Seq(Int) /\ t \o u \in Seq(Int)
  OBVIOUS
<1>2. Len(s \o (t \o u)) = Len((s \o t) \o u)
  BY <1>1
<1>3. \A i \in 1 .. Len(s \o (t \o u)) : (s \o (t \o u))[i] = ((s \o t) \o u)[i]
  BY <1>1
<1>4. s \o (t \o u) \in Seq(Int) /\ (s \o t) \o u \in Seq(Int)
  BY <1>1
<1> QED BY <1>2, <1>3, <1>4, SameSequence

(* A last element is taken along by a concatenation.                       *)
LEMMA LastTaken ==
  ASSUME NEW s \in Seq(Int), NEW t \in Seq(Int), NEW x \in Int
  PROVE  s \o Append(t, x) = Append(s \o t, x)
<1> DEFINE y == <<x>>
<1>1. y \in Seq(Int)
  OBVIOUS
<1>2. Append(t, x) = t \o y /\ Append(s \o t, x) = (s \o t) \o y
  BY AppendIsConcat, ConcatProperties
<1> HIDE DEF y
<1> QED BY <1>1, <1>2, Associative

(* A sequence of numbers from an interval is one of integers.              *)
LEMMA IntSeq ==
  ASSUME NEW m, NEW n
  PROVE  Seq(m .. n) \subseteq Seq(Int)
<1>1. (m .. n) \subseteq Int
  OBVIOUS
<1> QED BY <1>1, SeqMonotonic

(* An element in the middle of a sequence is one of its elements.          *)
LEMMA Between ==
  ASSUME NEW V, NEW W, NEW s \in Seq(V), NEW x \in V, NEW t \in Seq(V), s \o (<<x>> \o t) \in Seq(W)
  PROVE  x \in W
<1>1. <<x>> \in Seq(V) /\ Len(<<x>>) = 1 /\ <<x>>[1] = x
  OBVIOUS
<1>2. <<x>> \o t \in Seq(V) /\ Len(<<x>> \o t) = 1 + Len(t) /\ (<<x>> \o t)[1] = x
  BY <1>1, ConcatProperties
<1> DEFINE u == <<x>> \o t
<1> HIDE DEF u
<1>3. u \in Seq(V) /\ Len(u) = 1 + Len(t) /\ u[1] = x
  BY <1>2 DEF u
<1>4. /\ Len(s \o u) = Len(s) + Len(u)
      /\ (s \o u)[Len(s) + 1] = u[1]
  <2>1. Len(s) \in Nat /\ Len(u) \in Nat /\ Len(t) \in Nat
    BY <1>3, LenProperties
  <2>2. Len(s) + 1 \in 1 .. Len(s) + Len(u) /\ ~(Len(s) + 1 <= Len(s)) /\ Len(s) + 1 - Len(s) = 1
    BY <1>3, <2>1
  <2>3. /\ Len(s \o u) = Len(s) + Len(u)
        /\ \A i \in 1 .. Len(s) + Len(u) : (s \o u)[i] = IF i <= Len(s) THEN s[i] ELSE u[i - Len(s)]
    <3>1. u \in Seq(V)
      BY <1>3
    <3> QED BY <3>1, ConcatProperties
  <2> QED BY <2>2, <2>3
<1>5. s \o u \in Seq(W)
  BY DEF u
<1>6. Len(s) + 1 \in 1 .. Len(s \o u)
  BY <1>3, <1>4, LenProperties
<1>7. (s \o u)[Len(s) + 1] \in W
  BY <1>5, <1>6, ElementOfSeq
<1> QED BY <1>3, <1>4, <1>7

(* What is appended to an ascending sequence is above the rest of it.      *)
LEMMA AscendingAppend ==
  ASSUME NEW n \in Nat, NEW s \in Seq(1 .. n), Ascending(s)
  PROVE  Append(s, n + 1) \in Seq(1 .. n + 1) /\ Ascending(Append(s, n + 1))
<1>1. /\ Len(Append(s, n + 1)) = Len(s) + 1
      /\ \A i \in 1 .. Len(s) : Append(s, n + 1)[i] = s[i] /\ s[i] \in 1 .. n
      /\ Append(s, n + 1)[Len(s) + 1] = n + 1
  BY AppendProperties, ElementOfSeq
<1>2. Len(s) \in Nat
  BY LenProperties
<1>3. s \in Seq(1 .. n + 1)
  BY SeqMonotonic, (1 .. n) \subseteq (1 .. n + 1)
<1> DEFINE a == Append(s, n + 1)
<1>4. a \in Seq(1 .. n + 1)
  BY <1>3, AppendProperties
<1> HIDE DEF a
<1>5. Ascending(a)
  BY <1>1, <1>2 DEF Ascending, a
<1> QED BY <1>4, <1>5 DEF a

(* A sequence stays ascending when a piece of it is taken out.             *)
LEMMA AscendingWithout ==
  ASSUME NEW s \in Seq(Int), NEW t \in Seq(Int), NEW u \in Seq(Int), NEW n \in Nat,
         s \o t \o u \in Seq(1 .. n), Ascending(s \o t \o u)
  PROVE  s \o u \in Seq(1 .. n) /\ Ascending(s \o u)
<1> DEFINE a == s \o t \o u
           b == s \o u
           k(i) == IF i <= Len(s) THEN i ELSE i + Len(t)
<1>1. Len(s) \in Nat /\ Len(t) \in Nat /\ Len(u) \in Nat
  BY LenProperties
<1>2. /\ s \o t \in Seq(Int) /\ Len(s \o t) = Len(s) + Len(t)
      /\ \A i \in 1 .. Len(s) + Len(t) : (s \o t)[i] = IF i <= Len(s) THEN s[i] ELSE t[i - Len(s)]
  BY ConcatProperties
<1>3. /\ Len(a) = Len(s) + Len(t) + Len(u)
      /\ \A i \in 1 .. Len(s) + Len(t) + Len(u) :
           a[i] = IF i <= Len(s) + Len(t) THEN (s \o t)[i] ELSE u[i - (Len(s) + Len(t))]
  <2> DEFINE v == s \o t
  <2>1. /\ Len(v \o u) = Len(v) + Len(u)
        /\ \A i \in 1 .. Len(v) + Len(u) : (v \o u)[i] = IF i <= Len(v) THEN v[i] ELSE u[i - Len(v)]
    <3>1. v \in Seq(Int)
      BY <1>2
    <3> HIDE DEF v
    <3> QED BY <3>1, ConcatProperties
  <2> QED BY <1>2, <2>1
<1>4. /\ Len(b) = Len(s) + Len(u)
      /\ \A i \in 1 .. Len(s) + Len(u) : b[i] = IF i <= Len(s) THEN s[i] ELSE u[i - Len(s)]
  BY ConcatProperties
<1>5. ASSUME NEW i \in 1 .. Len(b) PROVE k(i) \in 1 .. Len(a) /\ b[i] = a[k(i)]
  <2>1. CASE i <= Len(s)
    BY <1>1, <1>2, <1>3, <1>4, <2>1
  <2>2. CASE i > Len(s)
    <3>1. /\ b[i] = u[i - Len(s)] /\ k(i) = i + Len(t) /\ k(i) \in 1 .. Len(a)
          /\ ~(k(i) <= Len(s) + Len(t)) /\ k(i) - (Len(s) + Len(t)) = i - Len(s)
      BY <1>1, <1>3, <1>4, <2>2
    <3> QED BY <1>3, <3>1
  <2> QED BY <1>1, <1>4, <2>1, <2>2, SMTT(30)
<1>6. \A i, j \in 1 .. Len(b) : i < j => k(i) < k(j)
  BY <1>1, <1>4
<1> HIDE DEF a, b, k
<1>7. Ascending(a)
  BY DEF a
<1>8. Ascending(b)
  BY <1>5, <1>6, <1>7 DEF Ascending
<1>9. b \in Seq(Int) /\ \A i \in 1 .. Len(b) : b[i] \in 1 .. n
  <2>1. a \in Seq(1 .. n) /\ b \in Seq(Int)
    BY ConcatProperties DEF a, b
  <2>2. \A i \in 1 .. Len(a) : a[i] \in 1 .. n
    BY <2>1, ElementOfSeq
  <2> QED BY <1>5, <2>1, <2>2
<1>10. b \in Seq(1 .. n)
  <2>1. Len(b) \in Nat /\ b = [i \in 1 .. Len(b) |-> b[i]]
    BY <1>9, LenProperties
  <2> DEFINE g(i) == b[i]
             m == Len(b)
  <2>2. m \in Nat /\ \A i \in 1 .. m : g(i) \in 1 .. n
    BY <1>9, <2>1
  <2>3. [i \in 1 .. m |-> g(i)] \in Seq(1 .. n)
    <3> HIDE DEF g, m
    <3> QED BY <2>2, IsASeq
  <2> QED BY <2>1, <2>3
<1> QED BY <1>8, <1>10 DEF b
-----------------------------------------------------------------------------
(* The inductive invariant.                                                *)

(* The transmit side.  A slot found free stays free until it is filled;    *)
(* flush leaves the ring empty; and whoever leaves a byte in the UART      *)
(* leaves the handler attached, but for prime between detach and attach.   *)
TxInv ==
  /\ stored \in Seq(1 .. MaxTx)
  /\ pc = "publish" => todo # <<>> /\ Succ(TxSize, tx.w) # tx.r
  /\ pc = "flush_tx" => tx.w = 0
  /\ pc \in {"flush_rx_w", "flush_rx_r"} => tx.w = tx.r
  /\ pc \in {"flush_tx", "flush_rx_w", "flush_rx_r"} => flushes # 0
  /\ pc \notin {"send", "attach"} /\ tdr # 0 => txIrqOn
  /\ NoLostWakeup
  /\ TxInOrder

(* What getc may still return.  Between the two stores of clear it is what *)
(* the handler has put in the ring since the first: the cells before addr_w. *)
Pending ==
  Row(RxSize, rx.buf, rx.w, IF pc = "flush_rx_r" THEN 0 ELSE rx.r)
InRdr == IF rdr = 0 THEN <<>> ELSE <<rdr>>

(* The receive side.  Bytes are returned in the order of arrival since all *)
(* that is on its way, from the UART to the sketch, is in that order.      *)
RxInv ==
  /\ delivered \o Pending \o InRdr \in Seq(1 .. arrived)
  /\ Ascending(delivered \o Pending \o InRdr)
  /\ pc = "take" => rx.w # rx.r
  /\ pc = "wrapped" => rx.w < rx.r
  /\ pc = "flush_rx_r" => rx.r = 0 \/ rx.w < rx.r
  /\ RxInOrder

IInv == TypeOK /\ TxInv /\ RxInv

(* The fields of the transmit ring.                                        *)
LEMMA TxFields ==
  ASSUME TypeOK
  PROVE  /\ TxSize \in Nat /\ TxSize > 1
         /\ tx.w \in 0 .. TxSize - 1 /\ tx.r \in 0 .. TxSize - 1
         /\ tx.buf \in [0 .. TxSize - 1 -> 0 .. MaxTx]
         /\ tx = [buf |-> tx.buf, w |-> tx.w, r |-> tx.r]
BY SizesAssumption DEF TypeOK, Ring

(* The fields of the receive ring.                                         *)
LEMMA RxFields ==
  ASSUME TypeOK
  PROVE  /\ RxSize \in Nat /\ RxSize > 1
         /\ rx.w \in 0 .. RxSize - 1 /\ rx.r \in 0 .. RxSize - 1
         /\ rx.buf \in [0 .. RxSize - 1 -> 0 .. MaxRx]
         /\ rx = [buf |-> rx.buf, w |-> rx.w, r |-> rx.r]
BY SizesAssumption DEF TypeOK, Ring

(* The invariant holds where the program starts.                           *)
LEMMA InitHolds == Init => IInv
<1> SUFFICES ASSUME Init PROVE IInv
  OBVIOUS
<1> USE SizesAssumption, BoundsAssumption
<1>1. /\ tx = EmptyRing(TxSize) /\ rx = EmptyRing(RxSize)
      /\ tx \in Ring(TxSize, MaxTx) /\ rx \in Ring(RxSize, MaxRx)
  BY DEF Init, EmptyRing, Ring
<1>2. TypeOK
  <2>1. <<>> \in Seq(1 .. MaxTx) /\ <<>> \in Seq(0 .. MaxTx) /\ <<>> \in Seq(1 .. MaxRx)
    OBVIOUS
  <2>2. 0 \in 0 .. MaxTx /\ 0 \in 0 .. MaxRx /\ 0 \in -RxSize .. RxSize /\ 0 \in 0 .. MaxFlush
    OBVIOUS
  <2> QED BY <1>1, <2>1, <2>2 DEF Init, TypeOK
<1>3. /\ Row(TxSize, tx.buf, tx.w, tx.r) = <<>> /\ Count(TxSize, tx.w, tx.r) = 0
      /\ Row(RxSize, rx.buf, rx.w, rx.r) = <<>>
  BY <1>1, RowEmpty DEF EmptyRing
<1>4. TxInv
  BY <1>3, TxNames DEF Init, TxInv, NoLostWakeup, TxInOrder, InRegister
<1>5. RxInv
  <2>1. Pending = <<>> /\ RxContents = <<>> /\ InRdr = <<>> /\ delivered = <<>> /\ pc = "idle"
    BY <1>3, RxNames DEF Init, Pending, InRdr
  <2>2. <<>> \o <<>> = <<>>
    BY EmptySeq, ConcatEmptySeq
  <2>3. Ascending(<<>>) /\ <<>> \in Seq(1 .. arrived) /\ captured = <<>>
    BY DEF Ascending, Init
  <2> QED BY <2>1, <2>2, <2>3 DEF RxInv, RxInOrder
<1> QED BY <1>2, <1>4, <1>5 DEF IInv

-----------------------------------------------------------------------------
(* The transmit side, step by step.                                        *)

(* One turn of the loop of txIrq.                                          *)
LEMMA TurnKeeps ==
  ASSUME TypeOK, stored \in Seq(1 .. MaxTx), TxTurn, UNCHANGED flushes
  PROVE  /\ tx' \in Ring(TxSize, MaxTx) /\ tdr' \in 0 .. MaxTx /\ txIrqOn' \in BOOLEAN
         /\ tx'.w = tx.w
         /\ TxUsed > 0 => txIrqOn' = txIrqOn
         /\ TxUsed = 0 => ~txIrqOn' /\ UNCHANGED <<tx, tdr>>
         /\ TxUsed > 0 <=> tx.w # tx.r
         /\ TxUsed = 0 <=> tx.w = tx.r
         /\ Succ(TxSize, tx.w) # tx.r => Succ(TxSize, tx'.w) # tx'.r
         /\ TxInOrder => TxInOrder'
<1>0. /\ TxSize \in Nat /\ TxSize > 1
      /\ tx.w \in 0 .. TxSize - 1 /\ tx.r \in 0 .. TxSize - 1
      /\ tx.buf \in [0 .. TxSize - 1 -> 0 .. MaxTx]
  BY TxFields
<1>1. /\ TxUsed > 0 <=> tx.w # tx.r
      /\ TxUsed = 0 <=> tx.w = tx.r
  BY <1>0, TxNames, CountRange
<1>2. CASE TxUsed = 0
  <2>1. txIrqOn' = FALSE /\ UNCHANGED <<tx, tdr, stored, wire>>
    BY <1>2 DEF TxTurn
  <2>2. TxInOrder => TxInOrder'
    BY <2>1 DEF TxInOrder, InRegister, TxContents, TxUsed
  <2>3. tx' \in Ring(TxSize, MaxTx) /\ tdr' \in 0 .. MaxTx /\ tx'.w = tx.w
    BY <2>1 DEF TypeOK
  <2>4. txIrqOn' \in BOOLEAN /\ ~(TxUsed > 0) /\ tx'.r = tx.r
    <3>1. txIrqOn' \in BOOLEAN
      BY <2>1
    <3>2. ~(TxUsed > 0)
      BY <1>2
    <3>3. tx'.r = tx.r
      BY <2>1
    <3> QED BY <3>1, <3>2, <3>3
  <2>5. Succ(TxSize, tx.w) # tx.r => Succ(TxSize, tx'.w) # tx'.r
    BY <2>3, <2>4
  <2> QED BY <1>1, <1>2, <2>1, <2>2, <2>3, <2>4, <2>5
<1>3. CASE TxUsed > 0
  <2> DEFINE q == Succ(TxSize, tx.r)
             x == tx.buf[tx.r]
             c == Row(TxSize, tx.buf, tx.w, q)
  <2>1. /\ tdr = 0 /\ tdr' = x /\ tx' = [tx EXCEPT !.r = q]
        /\ UNCHANGED <<txIrqOn, stored, wire>>
    BY <1>3, TxNames DEF TxTurn
  <2>2. q \in 0 .. TxSize - 1 /\ q = IF tx.r + 1 = TxSize THEN 0 ELSE tx.r + 1
    BY <1>0, SuccIsNext
  <2>3. x \in 0 .. MaxTx
    BY <1>0
  <2>4. tx'.w = tx.w /\ tx'.r = q /\ tx'.buf = tx.buf /\ tx' \in Ring(TxSize, MaxTx)
    BY <2>1, <2>2 DEF Ring, TypeOK
  <2>5. Succ(TxSize, tx.w) # q
    BY <1>0, <1>1, <1>3, SuccInjective
  <2>6. ASSUME flushes = 0, TxInOrder
        PROVE  TxInOrder'
    <3>1. c \in Seq(0 .. MaxTx)
      <4> HIDE DEF q
      <4> QED BY <1>0, <2>2, RowIsSeq
    <3>2. Row(TxSize, tx.buf, tx.w, tx.r) = <<x>> \o c
      BY <1>0, <1>1, <1>3, RowTake
    <3>7. wire \in Seq(0 .. MaxTx) /\ <<x>> \in Seq(0 .. MaxTx)
      <4> HIDE DEF x
      <4> QED BY <2>3 DEF TypeOK
    <3> HIDE DEF c, x
    <3>3. stored = wire \o (<<x>> \o c)
      BY <2>1, <2>6, <3>2, <3>7, TxNames, ConcatEmptySeq DEF TxInOrder, InRegister
    <3>4. x \in 1 .. MaxTx
      BY <2>3, <3>1, <3>3, <3>7, Between
    <3>5. InRegister' = <<x>> /\ TxContents' = c
      BY <2>1, <2>4, <3>4, TxNames DEF InRegister, c
    <3>6. wire \o (<<x>> \o c) = (wire \o <<x>>) \o c
      <4> DEFINE y == <<x>>
      <4>1. wire \in Seq(Int) /\ y \in Seq(Int) /\ c \in Seq(Int)
        BY <3>1, <3>7, IntSeq
      <4> HIDE DEF y
      <4>2. wire \o (y \o c) = (wire \o y) \o c
        BY <4>1, Associative
      <4> QED BY <4>2 DEF y
    <3> QED BY <2>1, <3>3, <3>5, <3>6 DEF TxInOrder
  <2> QED BY <1>1, <1>3, <2>1, <2>3, <2>4, <2>5, <2>6 DEF TypeOK, TxInOrder
<1> QED BY <1>1, <1>2, <1>3

(* A byte goes into the ring.                                              *)
LEMMA PublishKeeps ==
  ASSUME IInv, WritePublish
  PROVE  TxInv' /\ tx' \in Ring(TxSize, MaxTx) /\ stored' \in Seq(0 .. MaxTx)
<1>0. /\ TxSize \in Nat /\ TxSize > 1
      /\ tx.w \in 0 .. TxSize - 1 /\ tx.r \in 0 .. TxSize - 1
      /\ tx.buf \in [0 .. TxSize - 1 -> 0 .. MaxTx]
  BY TxFields DEF IInv
<1> DEFINE x == Head(todo)
           v == Succ(TxSize, tx.w)
<1>1. x \in 1 .. MaxTx /\ v # tx.r
  <2>1. todo \in Seq(1 .. MaxTx) /\ todo # <<>> /\ v # tx.r
    BY DEF IInv, WritePublish, TxInv, TypeOK
  <2> QED BY <2>1, HeadTailProperties
<1>2. v \in 0 .. TxSize - 1
  BY <1>0, SuccIsNext
<1>3. tx' = [buf |-> [tx.buf EXCEPT ![tx.w] = x], w |-> v, r |-> tx.r]
  <2>1. tx' = [tx EXCEPT !.buf[tx.w] = x, !.w = v]
    BY TxNames DEF WritePublish
  <2>2. tx = [buf |-> tx.buf, w |-> tx.w, r |-> tx.r]
    BY TxFields DEF IInv
  <2> HIDE DEF x, v
  <2> QED BY <1>0, <2>1, <2>2
<1>4. tx' \in Ring(TxSize, MaxTx)
  BY <1>0, <1>1, <1>2, <1>3 DEF Ring
<1>5. stored' = Append(stored, x) /\ stored' \in Seq(1 .. MaxTx) /\ stored' \in Seq(0 .. MaxTx)
  BY <1>1 DEF IInv, WritePublish, TxInv, TypeOK
<1>6. ASSUME flushes = 0
      PROVE  wire \o InRegister \o TxContents' = Append(stored, x)
  <2> DEFINE c == Row(TxSize, tx.buf, tx.w, tx.r)
             a == wire \o InRegister
  <2>1. c \in Seq(0 .. MaxTx) /\ a \in Seq(0 .. MaxTx)
    <3>1. c \in Seq(0 .. MaxTx)
      BY <1>0, RowIsSeq
    <3>2. wire \in Seq(0 .. MaxTx) /\ InRegister \in Seq(0 .. MaxTx)
      <4>1. wire \in Seq(0 .. MaxTx) /\ tdr \in 0 .. MaxTx
        BY DEF IInv, TypeOK
      <4>2. <<>> \in Seq(0 .. MaxTx) /\ <<tdr>> \in Seq(0 .. MaxTx)
        BY <4>1
      <4>3. InRegister = <<>> \/ InRegister = <<tdr>>
        BY DEF InRegister
      <4> QED BY <4>1, <4>2, <4>3
    <3> QED BY <3>1, <3>2, ConcatProperties
  <2>2. TxContents' = Append(c, x)
    <3>1. x \in 0 .. MaxTx
      BY <1>1
    <3>2. Row(TxSize, [tx.buf EXCEPT ![tx.w] = x], v, tx.r) = Append(c, x)
      <4>1. Succ(TxSize, tx.w) # tx.r
        BY <1>1
      <4>2. Row(TxSize, [tx.buf EXCEPT ![tx.w] = x], Succ(TxSize, tx.w), tx.r)
              = Append(Row(TxSize, tx.buf, tx.w, tx.r), x)
        <5>1. Row(TxSize, Put(tx.buf, tx.w, x), Succ(TxSize, tx.w), tx.r)
                = Append(Row(TxSize, tx.buf, tx.w, tx.r), x)
          <6>1. tx.buf \in [0 .. TxSize - 1 -> Int] /\ x \in Int
            BY <1>0, <3>1
          <6> HIDE DEF x
          <6> QED BY <1>0, <6>1, <4>1, RowPut
        <5> QED BY <5>1 DEF Put
      <4> QED BY <4>2
    <3> HIDE DEF x, v, c
    <3> QED BY <1>3, <3>2, TxNames
  <2>3. a \o c = stored
    BY <1>6, TxNames DEF IInv, TxInv, TxInOrder
  <2>4. a \o Append(c, x) = Append(a \o c, x)
    <3>1. a \in Seq(Int) /\ c \in Seq(Int) /\ x \in Int
      BY <1>1, <2>1, IntSeq
    <3> HIDE DEF a, c, x
    <3> QED BY <3>1, LastTaken
  <2> QED BY <2>2, <2>3, <2>4
<1>7. TxInOrder'
  BY <1>5, <1>6 DEF TxInOrder, WritePublish, InRegister
<1> QED BY <1>4, <1>5, <1>7 DEF IInv, TxInv, WritePublish, NoLostWakeup

(* A step that leaves the ring, the UART and the histories alone.          *)
LEMMA TxKept ==
  ASSUME TxInOrder, UNCHANGED <<tx, tdr, stored, wire, flushes>>
  PROVE  TxInOrder' /\ TxUsed' = TxUsed
BY DEF TxInOrder, InRegister, TxContents, TxUsed

(* Whether bytes wait is whether the indices differ.                       *)
LEMMA TxEmpty ==
  ASSUME TypeOK
  PROVE  (TxUsed > 0 <=> tx.w # tx.r) /\ (TxUsed = 0 <=> tx.w = tx.r)
<1>1. /\ TxSize \in Nat /\ TxSize > 1
      /\ tx.w \in 0 .. TxSize - 1 /\ tx.r \in 0 .. TxSize - 1
  BY TxFields
<1> QED BY <1>1, TxNames, CountRange

(* Every step keeps the transmit side of the invariant.                    *)
LEMMA TxStep ==
  ASSUME IInv, [Next]_vars
  PROVE  TxInv'
<1> USE DEF IInv, TxInv
<1>1. CASE UNCHANGED <<txVars, pc, flushes>>
  BY <1>1, TxKept DEF txVars, NoLostWakeup
<1>2. ASSUME NEW n \in 1 .. MaxWrite, WriteBegin(n) PROVE TxInv'
  BY <1>2, TxKept DEF WriteBegin, NoLostWakeup
<1>3. CASE WriteDrop
  BY <1>3, TxKept DEF WriteDrop, NoLostWakeup
<1>4. CASE WriteCheck
  BY <1>4, TxKept, TxNames DEF WriteCheck, txVars, NoLostWakeup
<1>5. CASE WritePublish
  BY <1>5, PublishKeeps
<1>6. CASE PrimeTest
  BY <1>6, TxKept DEF PrimeTest, txVars, NoLostWakeup
<1>7. CASE PrimeDetach
  BY <1>7, TxKept DEF PrimeDetach, NoLostWakeup
<1>8. CASE PrimeSend
  <2>1. CASE TxTurn /\ pc' = IF TxUsed > 0 THEN "send" ELSE "attach"
    BY <1>8, <2>1, TurnKeeps DEF PrimeSend, TxTurn, NoLostWakeup
  <2>2. CASE pc' = "attach" /\ UNCHANGED txVars
    BY <1>8, <2>2, TxKept DEF PrimeSend, txVars, NoLostWakeup
  <2> QED BY <1>8, <2>1, <2>2 DEF PrimeSend
<1>9. CASE PrimeAttach
  BY <1>9, TxKept DEF PrimeAttach, NoLostWakeup
<1>10. CASE ReadableCompare
  BY <1>10, TxKept DEF ReadableCompare, txVars, NoLostWakeup
<1>11. CASE ReadableSubtract
  BY <1>11, TxKept DEF ReadableSubtract, txVars, NoLostWakeup
<1>12. CASE GetcCheck
  BY <1>12, TxKept DEF GetcCheck, txVars, NoLostWakeup
<1>13. CASE GetcTake
  BY <1>13, TxKept DEF GetcTake, txVars, NoLostWakeup
<1>14. CASE FlushTxWrite
  <2>1. tx'.w = 0 /\ flushes' # 0
    BY <1>14 DEF FlushTxWrite, TypeOK, Ring
  <2> QED BY <1>14, <2>1 DEF FlushTxWrite, NoLostWakeup, TxInOrder
<1>15. CASE FlushTxRead
  <2>1. tx'.w = tx'.r /\ flushes' # 0
    BY <1>15 DEF FlushTxRead, TypeOK, Ring
  <2> QED BY <1>15, <2>1 DEF FlushTxRead, NoLostWakeup, TxInOrder
<1>16. CASE FlushRxWrite
  BY <1>16, TxKept DEF FlushRxWrite, txVars, NoLostWakeup
<1>17. CASE FlushRxRead
  <2>1. ~(TxUsed > 0)
    BY <1>17, TxEmpty DEF FlushRxRead
  <2> QED BY <1>17, <2>1, TxKept DEF FlushRxRead, txVars, NoLostWakeup
<1>18. CASE TxIrq
  <2>1. TxTurn /\ txIrqOn /\ tdr = 0 /\ UNCHANGED <<pc, flushes, todo, stored>>
    BY <1>18 DEF TxIrq, TxTurn
  <2>2. /\ tx'.w = tx.w /\ TxInOrder'
        /\ TxUsed > 0 => txIrqOn' = txIrqOn
        /\ TxUsed = 0 => ~txIrqOn' /\ UNCHANGED <<tx, tdr>>
        /\ TxUsed > 0 <=> tx.w # tx.r
        /\ TxUsed = 0 <=> tx.w = tx.r
        /\ Succ(TxSize, tx.w) # tx.r => Succ(TxSize, tx'.w) # tx'.r
    BY <2>1, TurnKeeps
  <2>3. CASE TxUsed > 0
    <3>1. pc \in {"flush_rx_w", "flush_rx_r"} => tx.w = tx.r
      OBVIOUS
    <3> QED BY <2>1, <2>2, <2>3, <3>1 DEF NoLostWakeup
  <2>4. CASE TxUsed = 0
    <3>1. TxUsed' = TxUsed /\ ~(TxUsed > 0)
      BY <2>2, <2>4 DEF TxUsed
    <3> QED BY <2>1, <2>2, <2>4, <3>1 DEF NoLostWakeup
  <2> QED BY <2>2, <2>3, <2>4
<1>19. CASE Transmit
  <2>1. TxInOrder'
    <3>1. tdr \in 0 .. MaxTx /\ tdr # 0 /\ wire \in Seq(0 .. MaxTx)
      BY <1>19 DEF Transmit, TypeOK
    <3>2. wire' = wire \o <<tdr>> /\ InRegister = <<tdr>> /\ InRegister' = <<>>
      BY <1>19, <3>1 DEF Transmit, InRegister
    <3>3. wire' \in Seq(0 .. MaxTx)
      BY <1>19, <3>1 DEF Transmit
    <3>4. wire' \o InRegister' = wire \o InRegister
      BY <3>2, <3>3, ConcatEmptySeq
    <3> QED BY <1>19, <3>4 DEF Transmit, TxInOrder, TxContents, TxUsed
  <2>2. TxUsed' = TxUsed
    BY <1>19 DEF Transmit, TxUsed
  <2> QED BY <1>19, <2>1, <2>2 DEF Transmit, NoLostWakeup
<1> QED BY <1>1, <1>2, <1>3, <1>4, <1>5, <1>6, <1>7, <1>8, <1>9, <1>10, <1>11, <1>12, <1>13,
           <1>14, <1>15, <1>16, <1>17, <1>18, <1>19
           DEF Next, NewCall, InCall, RxIrq, Receive, vars

-----------------------------------------------------------------------------
(* The receive side, step by step.                                         *)

(* All that is on its way to the sketch.                                   *)
Coming == delivered \o Pending \o InRdr

(* The receive side is made of sequences of integers.                      *)
LEMMA RxSeqs ==
  ASSUME TypeOK
  PROVE  /\ delivered \in Seq(Int) /\ Pending \in Seq(Int) /\ InRdr \in Seq(Int)
         /\ RxContents \in Seq(Int) /\ captured \in Seq(Int)
         /\ arrived \in Nat /\ rdr \in Int
<1>0. /\ RxSize \in Nat /\ RxSize > 1
      /\ rx.w \in 0 .. RxSize - 1 /\ rx.r \in 0 .. RxSize - 1
      /\ rx.buf \in [0 .. RxSize - 1 -> 0 .. MaxRx]
  BY RxFields
<1>1. delivered \in Seq(1 .. MaxRx) /\ captured \in Seq(1 .. MaxRx)
      /\ arrived \in 0 .. MaxRx /\ rdr \in 0 .. MaxRx
  BY DEF TypeOK
<1> DEFINE a == IF pc = "flush_rx_r" THEN 0 ELSE rx.r
<1>2. a \in 0 .. RxSize - 1
  BY <1>0
<1>3. Row(RxSize, rx.buf, rx.w, rx.r) \in Seq(0 .. MaxRx)
  BY <1>0, RowIsSeq
<1>4. Row(RxSize, rx.buf, rx.w, a) \in Seq(0 .. MaxRx)
  <2> HIDE DEF a
  <2> QED BY <1>0, <1>2, RowIsSeq
<1>5. RxContents \in Seq(0 .. MaxRx) /\ Pending \in Seq(0 .. MaxRx)
  BY <1>3, <1>4, RxNames DEF Pending
<1>6. InRdr \in Seq(Int)
  <2>1. <<>> \in Seq(Int) /\ <<rdr>> \in Seq(Int)
    BY <1>1
  <2>2. InRdr = <<>> \/ InRdr = <<rdr>>
    BY DEF InRdr
  <2> QED BY <2>1, <2>2
<1> QED BY <1>1, <1>5, <1>6, IntSeq

(* A step that leaves the ring, the UART and the histories alone.          *)
LEMMA RxKept ==
  ASSUME IInv, UNCHANGED <<rx, rdr, arrived, captured, delivered>>,
         pc' = "flush_rx_r" <=> pc = "flush_rx_r",
         flushes' # 0 \/ UNCHANGED flushes,
         pc' = "take" => rx.w # rx.r,
         pc' = "wrapped" => rx.w < rx.r
  PROVE  RxInv'
<1>1. Pending' = Pending /\ InRdr' = InRdr
  BY DEF Pending, InRdr
<1>2. RxInOrder'
  BY DEF IInv, RxInv, RxInOrder, RxContents, RxUsed
<1> QED BY <1>1, <1>2 DEF IInv, RxInv

(* A byte arrives.                                                         *)
LEMMA ReceiveKeeps ==
  ASSUME IInv, Receive
  PROVE  RxInv'
<1>1. /\ delivered \in Seq(Int) /\ Pending \in Seq(Int) /\ arrived \in Nat
      /\ delivered \o Pending \in Seq(Int)
  BY RxSeqs, ConcatProperties DEF IInv
<1>2. Coming \in Seq(1 .. arrived) /\ Ascending(Coming)
  BY DEF IInv, RxInv, Coming
<1>3. /\ arrived' = arrived + 1 /\ rdr' = IF rdr = 0 THEN arrived + 1 ELSE rdr
      /\ UNCHANGED <<rx, captured, delivered, pc, flushes>>
  BY DEF Receive
<1>4. Pending' = Pending /\ RxInOrder'
  BY <1>3 DEF Pending, IInv, RxInv, RxInOrder, RxContents, RxUsed
<1> DEFINE s == delivered \o Pending
<1>5. CASE rdr = 0
  <2>1. InRdr = <<>> /\ InRdr' = <<arrived + 1>>
    BY <1>1, <1>3, <1>5 DEF InRdr
  <2>2. Coming = s /\ Coming' = Append(s, arrived + 1)
    <3>1. Coming = s \o InRdr /\ Coming' = s \o InRdr'
      BY <1>3, <1>4 DEF Coming
    <3> HIDE DEF s
    <3>2. s \in Seq(Int)
      BY <1>1 DEF s
    <3>3. s \o <<>> = s /\ s \o <<arrived + 1>> = Append(s, arrived + 1)
      BY <1>1, <3>2, ConcatEmptySeq, AppendIsConcat
    <3> QED BY <2>1, <3>1, <3>3
  <2>3. Coming' \in Seq(1 .. arrived + 1) /\ Ascending(Coming')
    <3> HIDE DEF s
    <3> QED BY <1>1, <1>2, <2>2, AscendingAppend
  <2> QED BY <1>3, <1>4, <2>3 DEF IInv, RxInv, Coming
<1>6. CASE rdr # 0
  <2>1. Coming' = Coming
    BY <1>3, <1>4, <1>6 DEF Coming, InRdr
  <2>2. Coming \in Seq(1 .. arrived + 1)
    <3>1. (1 .. arrived) \subseteq (1 .. arrived + 1)
      BY <1>1
    <3> QED BY <1>2, <3>1, SeqMonotonic
  <2> QED BY <1>2, <1>3, <1>4, <2>1, <2>2 DEF IInv, RxInv, Coming
<1> QED BY <1>5, <1>6

(* The handler takes the byte in the UART: into the ring, or away.         *)
LEMMA RxIrqKeeps ==
  ASSUME IInv, RxIrq
  PROVE  RxInv' /\ rx' \in Ring(RxSize, MaxRx) /\ captured' \in Seq(1 .. MaxRx)
<1>0. /\ RxSize \in Nat /\ RxSize > 1
      /\ rx.w \in 0 .. RxSize - 1 /\ rx.r \in 0 .. RxSize - 1
      /\ rx.buf \in [0 .. RxSize - 1 -> 0 .. MaxRx]
  BY RxFields DEF IInv
<1> DEFINE a == IF pc = "flush_rx_r" THEN 0 ELSE rx.r
           v == Succ(RxSize, rx.w)
           P == Row(RxSize, rx.buf, rx.w, a)
<1>1. /\ delivered \in Seq(Int) /\ P \in Seq(Int) /\ arrived \in Nat
      /\ captured \in Seq(1 .. MaxRx) /\ captured \in Seq(Int)
      /\ RxContents \in Seq(Int) /\ rdr \in 1 .. MaxRx /\ a \in 0 .. RxSize - 1
      /\ Pending = P /\ InRdr = <<rdr>>
  <2>1. /\ delivered \in Seq(Int) /\ Pending \in Seq(Int) /\ arrived \in Nat
        /\ captured \in Seq(Int) /\ RxContents \in Seq(Int)
    BY RxSeqs DEF IInv
  <2>2. captured \in Seq(1 .. MaxRx) /\ rdr \in 1 .. MaxRx
    <3>1. captured \in Seq(1 .. MaxRx) /\ rdr \in 0 .. MaxRx /\ rdr # 0
      BY DEF IInv, TypeOK, RxIrq
    <3> QED BY <3>1
  <2>3. a \in 0 .. RxSize - 1
    BY <1>0
  <2>4. Pending = P /\ InRdr = <<rdr>>
    BY <2>2 DEF Pending, InRdr
  <2> QED BY <2>1, <2>2, <2>3, <2>4
<1>2. (delivered \o P) \o <<rdr>> \in Seq(1 .. arrived) /\ Ascending((delivered \o P) \o <<rdr>>)
  BY <1>1 DEF IInv, RxInv
<1>3. /\ rdr' = 0 /\ InRdr' = <<>>
      /\ UNCHANGED <<arrived, delivered, pc, flushes>>
  BY DEF RxIrq, InRdr
<1>4. delivered \o P \in Seq(Int) /\ <<rdr>> \in Seq(Int) /\ <<>> \in Seq(Int) /\ rdr \in Int
  <2> HIDE DEF P
  <2> QED BY <1>1, ConcatProperties
<1>5. CASE v = rx.r
  <2>1. UNCHANGED <<rx, captured>>
    BY <1>5, RxNames DEF RxIrq
  <2>2. (delivered \o P) \o <<>> \in Seq(1 .. arrived) /\ Ascending((delivered \o P) \o <<>>)
    <3> DEFINE s == delivered \o P
               y == <<rdr>>
    <3>1. (s \o y) \o <<>> = s \o y /\ s \o <<>> = s
      BY <1>4, ConcatProperties, ConcatEmptySeq
    <3> HIDE DEF s, y
    <3>2. s \in Seq(Int) /\ y \in Seq(Int) /\ <<>> \in Seq(Int)
      BY <1>4 DEF s, y
    <3>3. (s \o y) \o <<>> \in Seq(1 .. arrived) /\ Ascending((s \o y) \o <<>>)
      BY <1>2, <3>1 DEF s, y
    <3>4. s \o <<>> \in Seq(1 .. arrived) /\ Ascending(s \o <<>>)
      BY <1>1, <3>2, <3>3, AscendingWithout
    <3> QED BY <3>4 DEF s
  <2>3. Pending' = P
    BY <1>3, <2>1 DEF Pending
  <2>4. RxInOrder'
    BY <1>3, <2>1 DEF IInv, RxInv, RxInOrder, RxContents, RxUsed
  <2>5. /\ pc' = "take" => rx'.w # rx'.r
        /\ pc' = "wrapped" => rx'.w < rx'.r
        /\ pc' = "flush_rx_r" => rx'.r = 0 \/ rx'.w < rx'.r
    BY <1>3, <2>1 DEF IInv, RxInv
  <2>6. delivered' \o Pending' \o InRdr' = (delivered \o P) \o <<>>
    BY <1>3, <2>3
  <2> QED BY <1>1, <1>3, <2>1, <2>2, <2>4, <2>5, <2>6 DEF RxInv, IInv, TypeOK
<1>6. CASE v # rx.r
  <2>1. /\ rx' = [rx EXCEPT !.buf[rx.w] = rdr, !.w = v]
        /\ captured' = Append(captured, rdr)
    BY <1>6, RxNames DEF RxIrq
  <2>2. v \in 0 .. RxSize - 1 /\ v = IF rx.w + 1 = RxSize THEN 0 ELSE rx.w + 1
    BY <1>0, SuccIsNext
  <2>3. /\ rx'.w = v /\ rx'.r = rx.r /\ rx'.buf = Put(rx.buf, rx.w, rdr)
        /\ rx' \in Ring(RxSize, MaxRx)
    <3>1. rx = [buf |-> rx.buf, w |-> rx.w, r |-> rx.r]
      BY RxFields DEF IInv
    <3> HIDE DEF v
    <3>2. rx' = [buf |-> [rx.buf EXCEPT ![rx.w] = rdr], w |-> v, r |-> rx.r]
      BY <2>1, <3>1
    <3>3. [rx.buf EXCEPT ![rx.w] = rdr] \in [0 .. RxSize - 1 -> 0 .. MaxRx]
      BY <1>0, <1>1
    <3> QED BY <1>0, <2>2, <3>2, <3>3 DEF Put, Ring
  <2>4. v # a
    BY <1>0, <1>6, <2>2 DEF IInv, RxInv
  <2>5. rx.buf \in [0 .. RxSize - 1 -> Int]
    BY <1>0
  <2>6. Pending' = Append(P, rdr)
    <3>1. Row(RxSize, Put(rx.buf, rx.w, rdr), v, a) = Append(P, rdr)
      <4>1. Succ(RxSize, rx.w) # a
        BY <2>4
      <4> HIDE DEF a
      <4> QED BY <1>0, <1>1, <1>4, <2>5, <4>1, RowPut
    <3>2. Pending' = Row(RxSize, rx'.buf, rx'.w, a)
      BY <1>3, <2>3 DEF Pending
    <3> QED BY <2>3, <3>1, <3>2
  <2>7. delivered' \o Pending' \o InRdr' = (delivered \o P) \o <<rdr>>
    <3> DEFINE s == delivered \o P
    <3>1. delivered \o Append(P, rdr) = Append(s, rdr)
      <4> HIDE DEF P
      <4> QED BY <1>1, <1>4, LastTaken
    <3>2. Append(s, rdr) = s \o <<rdr>> /\ Append(s, rdr) \o <<>> = Append(s, rdr)
      <4>1. s \in Seq(Int)
        BY <1>4
      <4> HIDE DEF s
      <4>2. Append(s, rdr) \in Seq(Int)
        BY <1>4, <4>1
      <4> QED BY <1>4, <4>1, <4>2, AppendIsConcat, ConcatEmptySeq
    <3> HIDE DEF P, s
    <3>3. delivered' \o Pending' \o InRdr' = (delivered \o Append(P, rdr)) \o <<>>
      BY <1>3, <2>6
    <3> QED BY <3>1, <3>2, <3>3 DEF s
  <2>8. RxInOrder'
    <3>1. RxContents' = Append(RxContents, rdr)
      <4>1. Succ(RxSize, rx.w) # rx.r
        BY <1>6
      <4>2. Row(RxSize, Put(rx.buf, rx.w, rdr), Succ(RxSize, rx.w), rx.r)
              = Append(Row(RxSize, rx.buf, rx.w, rx.r), rdr)
        BY <1>0, <1>4, <2>5, <4>1, RowPut
      <4> HIDE DEF P
      <4> QED BY <2>3, <4>2, RxNames
    <3>2. delivered \o Append(RxContents, rdr) = Append(delivered \o RxContents, rdr)
      BY <1>1, <1>4, LastTaken
    <3> QED BY <1>3, <2>1, <3>1, <3>2 DEF IInv, RxInv, RxInOrder
  <2>9. /\ pc' = "take" => rx'.w # rx'.r
        /\ pc' = "wrapped" => rx'.w < rx'.r
        /\ pc' = "flush_rx_r" => rx'.r = 0 \/ rx'.w < rx'.r
    <3>1. /\ pc = "flush_rx_r" => rx.r = 0 \/ rx.w < rx.r
          /\ pc = "wrapped" => rx.w < rx.r
      BY DEF IInv, RxInv
    <3> QED BY <1>0, <1>3, <1>6, <2>2, <2>3, <3>1
  <2>10. captured' \in Seq(1 .. MaxRx)
    BY <1>1, <2>1
  <2> QED BY <1>2, <1>3, <2>3, <2>7, <2>8, <2>9, <2>10 DEF RxInv
<1> QED BY <1>5, <1>6

(* getc takes the first byte of the ring.                                  *)
LEMMA TakeKeeps ==
  ASSUME IInv, GetcTake
  PROVE  RxInv' /\ rx' \in Ring(RxSize, MaxRx) /\ delivered' \in Seq(1 .. MaxRx)
<1>0. /\ RxSize \in Nat /\ RxSize > 1
      /\ rx.w \in 0 .. RxSize - 1 /\ rx.r \in 0 .. RxSize - 1
      /\ rx.buf \in [0 .. RxSize - 1 -> 0 .. MaxRx]
  BY RxFields DEF IInv
<1> DEFINE x == rx.buf[rx.r]
           q == Succ(RxSize, rx.r)
           P == Row(RxSize, rx.buf, rx.w, q)
<1>1. /\ pc = "take" /\ pc' = "idle" /\ rx.w # rx.r
      /\ delivered' = Append(delivered, x)
      /\ rx' = [rx EXCEPT !.r = q]
      /\ UNCHANGED <<rdr, arrived, captured, flushes>>
  BY RxNames DEF GetcTake, IInv, RxInv
<1>2. q \in 0 .. RxSize - 1 /\ x \in Int /\ arrived \in 0 .. MaxRx
  <2>1. q \in 0 .. RxSize - 1
    BY <1>0, SuccIsNext
  <2>2. x \in Int
    BY <1>0
  <2>3. arrived \in 0 .. MaxRx
    BY DEF IInv, TypeOK
  <2> QED BY <2>1, <2>2, <2>3
<1>3. rx'.w = rx.w /\ rx'.r = q /\ rx'.buf = rx.buf /\ rx' \in Ring(RxSize, MaxRx)
  BY <1>1, <1>2 DEF Ring, IInv, TypeOK
<1>4. Row(RxSize, rx.buf, rx.w, rx.r) = <<x>> \o P
  BY <1>0, <1>1, RowTake
<1>5. /\ Pending = <<x>> \o P /\ RxContents = <<x>> \o P
      /\ Pending' = P /\ RxContents' = P /\ InRdr' = InRdr
  BY <1>1, <1>3, <1>4, RxNames DEF Pending, InRdr
<1> DEFINE D == delivered
           y == <<x>>
           R == InRdr
<1>6. /\ D \in Seq(Int) /\ y \in Seq(Int) /\ P \in Seq(Int) /\ R \in Seq(Int)
      /\ delivered' = D \o y
  <2>1. P \in Seq(0 .. MaxRx)
    <3> HIDE DEF q
    <3> QED BY <1>0, <1>2, RowIsSeq
  <2>2. P \in Seq(Int)
    <3> HIDE DEF P
    <3> QED BY <2>1, IntSeq
  <2>3. D \in Seq(Int) /\ R \in Seq(Int)
    BY RxSeqs DEF IInv
  <2> HIDE DEF P, x, R
  <2> QED BY <1>1, <1>2, <2>2, <2>3, AppendIsConcat
<1>7. (D \o (y \o P)) \o R \in Seq(1 .. arrived) /\ Ascending((D \o (y \o P)) \o R)
  BY <1>5 DEF IInv, RxInv
<1> HIDE DEF D, y, P, R, x
<1>8. D \o (y \o P) = (D \o y) \o P
  BY <1>6, Associative
<1>9. x \in 1 .. MaxRx
  <2>1. y \o P \in Seq(Int) /\ P \o R \in Seq(Int)
    BY <1>6, ConcatProperties
  <2>2. (D \o (y \o P)) \o R = D \o (y \o (P \o R))
    <3> DEFINE u == y \o P
    <3>1. u \o R = y \o (P \o R)
      BY <1>6, Associative
    <3>2. u \in Seq(Int)
      BY <2>1
    <3> HIDE DEF u
    <3>3. (D \o u) \o R = D \o (u \o R)
      BY <1>6, <3>2, Associative
    <3> QED BY <3>1, <3>3 DEF u
  <2>3. D \o (<<x>> \o (P \o R)) \in Seq(1 .. arrived)
    BY <1>7, <2>2 DEF y
  <2>4. x \in 1 .. arrived
    BY <1>2, <1>6, <2>1, <2>3, Between
  <2>5. arrived \in Nat /\ MaxRx \in Nat /\ arrived <= MaxRx
    BY <1>2, BoundsAssumption
  <2> QED BY <2>4, <2>5
<1>10. delivered' \in Seq(1 .. MaxRx)
  BY <1>1, <1>9 DEF IInv, TypeOK
<1>11. RxInOrder'
  BY <1>1, <1>5, <1>6, <1>8 DEF IInv, RxInv, RxInOrder, D, y
<1> QED BY <1>1, <1>3, <1>5, <1>6, <1>7, <1>8, <1>10, <1>11 DEF RxInv, R

(* clear, its first store: what was in the ring is lost.                   *)
LEMMA ClearKeeps ==
  ASSUME IInv, FlushRxWrite
  PROVE  RxInv' /\ rx' \in Ring(RxSize, MaxRx)
<1>0. /\ RxSize \in Nat /\ RxSize > 1
      /\ rx.w \in 0 .. RxSize - 1 /\ rx.r \in 0 .. RxSize - 1
  BY RxFields DEF IInv
<1>1. /\ rx' = [rx EXCEPT !.w = 0] /\ pc' = "flush_rx_r" /\ pc = "flush_rx_w"
      /\ UNCHANGED <<rdr, arrived, captured, delivered, flushes>> /\ flushes # 0
  BY DEF FlushRxWrite, IInv, TxInv
<1>2. rx'.w = 0 /\ rx'.r = rx.r /\ rx' \in Ring(RxSize, MaxRx)
  <2>1. rx \in Ring(RxSize, MaxRx) /\ 0 \in 0 .. RxSize - 1
    BY <1>0 DEF IInv, TypeOK
  <2> QED BY <1>1, <2>1 DEF Ring
<1>3. Pending' = <<>>
  BY <1>0, <1>1, <1>2, RowEmpty DEF Pending
<1>4. /\ delivered \in Seq(Int) /\ Pending \in Seq(Int) /\ InRdr \in Seq(Int) /\ arrived \in Nat
      /\ InRdr' = InRdr /\ delivered \o <<>> = delivered
  BY <1>1, RxSeqs, ConcatEmptySeq DEF IInv, InRdr
<1>5. delivered \o InRdr \in Seq(1 .. arrived) /\ Ascending(delivered \o InRdr)
  BY <1>4, AscendingWithout DEF IInv, RxInv
<1>6. delivered' \o Pending' \o InRdr' = delivered \o InRdr
  BY <1>1, <1>3, <1>4
<1> QED BY <1>0, <1>1, <1>2, <1>5, <1>6 DEF RxInv, RxInOrder

(* clear, its second store: what has come since the first stays.           *)
LEMMA ClearedKeeps ==
  ASSUME IInv, FlushRxRead
  PROVE  RxInv' /\ rx' \in Ring(RxSize, MaxRx)
<1>0. /\ RxSize \in Nat /\ RxSize > 1
      /\ rx.w \in 0 .. RxSize - 1 /\ rx.r \in 0 .. RxSize - 1
  BY RxFields DEF IInv
<1>1. /\ rx' = [rx EXCEPT !.r = 0] /\ pc' = "idle" /\ pc = "flush_rx_r"
      /\ UNCHANGED <<rdr, arrived, captured, delivered, flushes>> /\ flushes # 0
  BY DEF FlushRxRead, IInv, TxInv
<1>2. rx'.w = rx.w /\ rx'.r = 0 /\ rx'.buf = rx.buf /\ rx' \in Ring(RxSize, MaxRx)
  <2>1. rx \in Ring(RxSize, MaxRx) /\ 0 \in 0 .. RxSize - 1
    BY <1>0 DEF IInv, TypeOK
  <2> QED BY <1>1, <2>1 DEF Ring
<1>3. Pending' = Pending /\ InRdr' = InRdr
  BY <1>1, <1>2 DEF Pending, InRdr
<1> QED BY <1>1, <1>2, <1>3 DEF IInv, RxInv, RxInOrder

(* Every step keeps the receive side of the invariant.                     *)
LEMMA RxStep ==
  ASSUME IInv, [Next]_vars
  PROVE  RxInv'
<1> USE DEF IInv
<1>1. CASE UNCHANGED <<rx, rdr, arrived, captured, delivered, pc, flushes>>
  BY <1>1, RxKept DEF RxInv
<1>2. ASSUME NEW n \in 1 .. MaxWrite, WriteBegin(n) PROVE RxInv'
  BY <1>2, RxKept DEF WriteBegin, rxVars
<1>3. CASE WriteDrop
  BY <1>1, <1>3 DEF WriteDrop, rxVars
<1>4. CASE WriteCheck \/ PrimeTest \/ PrimeDetach \/ PrimeSend \/ PrimeAttach
  BY <1>4, RxKept DEF WriteCheck, PrimeTest, PrimeDetach, PrimeSend, PrimeAttach, rxVars
<1>5. CASE WritePublish
  BY <1>5, RxKept DEF WritePublish, rxVars
<1>6. CASE ReadableCompare
  BY <1>6, RxKept DEF ReadableCompare, rxVars
<1>7. CASE ReadableSubtract
  BY <1>7, RxKept DEF ReadableSubtract
<1>8. CASE GetcCheck
  BY <1>8, RxKept DEF GetcCheck, rxVars
<1>9. CASE GetcTake
  BY <1>9, TakeKeeps
<1>10. CASE FlushTxWrite
  <2>1. flushes' # 0
    BY <1>10 DEF FlushTxWrite, TypeOK
  <2> QED BY <1>10, <2>1, RxKept DEF FlushTxWrite, rxVars
<1>11. CASE FlushTxRead
  BY <1>11, RxKept DEF FlushTxRead, rxVars
<1>12. CASE FlushRxWrite
  BY <1>12, ClearKeeps
<1>13. CASE FlushRxRead
  BY <1>13, ClearedKeeps
<1>14. CASE TxIrq
  BY <1>1, <1>14 DEF TxIrq, rxVars
<1>15. CASE RxIrq
  BY <1>15, RxIrqKeeps
<1>16. CASE Transmit
  BY <1>1, <1>16 DEF Transmit, rxVars
<1>17. CASE Receive
  BY <1>17, ReceiveKeeps
<1> QED BY <1>1, <1>2, <1>3, <1>4, <1>5, <1>6, <1>7, <1>8, <1>9, <1>10, <1>11, <1>12, <1>13,
           <1>14, <1>15, <1>16, <1>17
           DEF Next, NewCall, InCall, vars, rxVars

-----------------------------------------------------------------------------
(* The types.                                                              *)

(* Every step keeps the types.                                             *)
LEMMA TypeStep ==
  ASSUME IInv, [Next]_vars
  PROVE  TypeOK'
<1>0. /\ MaxWrite \in Nat /\ MaxTx \in Nat /\ MaxRx \in Nat /\ MaxFlush \in Nat
      /\ RxSize \in Nat /\ RxSize > 1 /\ TxSize \in Nat /\ TxSize > 1
  BY SizesAssumption, BoundsAssumption
<1>1. TypeOK
  BY DEF IInv
<1>a. FlushTxWrite => flushes' \in 0 .. MaxFlush
  <2>1. flushes \in 0 .. MaxFlush
    BY <1>1 DEF TypeOK
  <2> QED BY <1>0, <2>1 DEF FlushTxWrite
<1> USE <1>0, <1>1 DEF TypeOK
<1>2. CASE UNCHANGED vars
  BY <1>2 DEF vars, txVars, rxVars
<1>3. ASSUME NEW n \in 1 .. MaxWrite, WriteBegin(n) PROVE TypeOK'
  <2>1. n \in Nat /\ offered' \in 0 .. MaxTx
    BY <1>3 DEF WriteBegin
  <2> DEFINE f(i) == offered + i
  <2>2. \A i \in 1 .. n : f(i) \in 1 .. MaxTx
    BY <1>3 DEF WriteBegin
  <2>3. [i \in 1 .. n |-> f(i)] \in Seq(1 .. MaxTx)
    <3> HIDE DEF f
    <3> QED BY <2>1, <2>2, IsASeq
  <2>4. todo' \in Seq(1 .. MaxTx)
    BY <1>3, <2>3 DEF WriteBegin
  <2> QED BY <1>3, <2>1, <2>4 DEF WriteBegin, rxVars
<1>4. CASE WriteDrop
  BY <1>4 DEF WriteDrop, rxVars
<1>5. CASE WriteCheck \/ PrimeTest \/ ReadableCompare \/ GetcCheck
  BY <1>5 DEF WriteCheck, PrimeTest, ReadableCompare, GetcCheck, txVars, rxVars
<1>6. CASE WritePublish
  <2>1. tx' \in Ring(TxSize, MaxTx) /\ stored' \in Seq(0 .. MaxTx)
    BY <1>6, PublishKeeps
  <2>2. todo' \in Seq(1 .. MaxTx)
    BY <1>6 DEF WritePublish, IInv, TxInv
  <2> QED BY <1>6, <2>1, <2>2 DEF WritePublish, rxVars
<1>7. CASE PrimeDetach \/ PrimeAttach
  BY <1>7 DEF PrimeDetach, PrimeAttach, rxVars
<1>8. ASSUME TxTurn, UNCHANGED <<rxVars, flushes>>, pc' \in {pc, "send", "attach"}
      PROVE  TypeOK'
  <2>1. tx' \in Ring(TxSize, MaxTx) /\ tdr' \in 0 .. MaxTx /\ txIrqOn' \in BOOLEAN
    BY <1>8, TurnKeeps DEF IInv, TxInv
  <2> QED BY <1>8, <2>1 DEF TxTurn, rxVars
<1>9. CASE PrimeSend
  BY <1>8, <1>9 DEF PrimeSend, txVars, rxVars
<1>10. CASE TxIrq
  BY <1>8, <1>10 DEF TxIrq
<1>11. CASE ReadableSubtract
  <2>1. rx.w \in 0 .. RxSize - 1 /\ rx.r \in 0 .. RxSize - 1
    BY RxFields
  <2>2. pc = "wrapped" => rx.w < rx.r
    BY DEF IInv, RxInv
  <2>3. \/ count' = RxSize - (rx.r - rx.w) /\ rx.w < rx.r
        \/ count' = rx.w - rx.r
    BY <1>11, <2>2 DEF ReadableSubtract
  <2> DEFINE w == rx.w
             r == rx.r
  <2> HIDE DEF w, r
  <2>4. w \in 0 .. RxSize - 1 /\ r \in 0 .. RxSize - 1
    BY <2>1 DEF w, r
  <2>5. w < r => RxSize - (r - w) \in -RxSize .. RxSize
    BY <2>4
  <2>6. w - r \in -RxSize .. RxSize
    BY <2>4
  <2>7. count' \in -RxSize .. RxSize
    BY <2>3, <2>5, <2>6 DEF w, r
  <2> QED BY <1>11, <2>7 DEF ReadableSubtract, txVars
<1>12. CASE GetcTake
  BY <1>12, TakeKeeps DEF GetcTake, txVars
<1>13. CASE FlushTxWrite
  <2>1. tx' \in Ring(TxSize, MaxTx)
    <3>1. tx \in Ring(TxSize, MaxTx) /\ 0 \in 0 .. TxSize - 1
      OBVIOUS
    <3> QED BY <1>13, <3>1 DEF FlushTxWrite, Ring
  <2>2. flushes' \in 0 .. MaxFlush
    BY <1>13, <1>a
  <2> QED BY <1>13, <2>1, <2>2 DEF FlushTxWrite, rxVars
<1>14. CASE FlushTxRead
  <2>1. tx' \in Ring(TxSize, MaxTx)
    <3>1. tx \in Ring(TxSize, MaxTx) /\ 0 \in 0 .. TxSize - 1
      OBVIOUS
    <3> QED BY <1>14, <3>1 DEF FlushTxRead, Ring
  <2> QED BY <1>14, <2>1 DEF FlushTxRead, rxVars
<1>15. CASE FlushRxWrite
  BY <1>15, ClearKeeps DEF FlushRxWrite, txVars
<1>16. CASE FlushRxRead
  BY <1>16, ClearedKeeps DEF FlushRxRead, txVars
<1>17. CASE RxIrq
  BY <1>17, RxIrqKeeps, SMTT(30) DEF RxIrq, txVars
<1>18. CASE Transmit
  <2>1. wire' \in Seq(0 .. MaxTx)
    BY <1>18 DEF Transmit
  <2> QED BY <1>18, <2>1 DEF Transmit, rxVars
<1>19. CASE Receive
  <2>1. arrived' \in 0 .. MaxRx /\ rdr' \in 0 .. MaxRx
    BY <1>19 DEF Receive
  <2> QED BY <1>19, <2>1 DEF Receive, txVars
<1> QED BY <1>2, <1>3, <1>4, <1>5, <1>6, <1>7, <1>9, <1>10, <1>11, <1>12, <1>13, <1>14,
           <1>15, <1>16, <1>17, <1>18, <1>19, SMTT(30)
           DEF Next, NewCall, InCall

-----------------------------------------------------------------------------
(* The theorems.                                                           *)

(* Every state of every execution satisfies the inductive invariant.       *)
THEOREM InvariantHolds == Spec => []IInv
<1>1. IInv /\ [Next]_vars => IInv'
  BY TypeStep, TxStep, RxStep DEF IInv
<1> QED BY InitHolds, <1>1, PTL DEF Spec

(* The variables keep their types; readable() returns at most RxSize and   *)
(* at least minus it.                                                      *)
THEOREM TypeCorrect == Spec => []TypeOK
<1>1. IInv => TypeOK
  BY DEF IInv
<1> QED BY InvariantHolds, <1>1, PTL

(* What was sent, what the UART holds and what waits are the bytes stored. *)
THEOREM TxStaysInOrder == Spec => []TxInOrder
<1>1. IInv => TxInOrder
  BY DEF IInv, TxInv
<1> QED BY InvariantHolds, <1>1, PTL

(* What getc returned and what waits are the bytes the handler captured.   *)
THEOREM RxStaysInOrder == Spec => []RxInOrder
<1>1. IInv => RxInOrder
  BY DEF IInv, RxInv
<1> QED BY InvariantHolds, <1>1, PTL

(* getc never returns a byte twice or out of order, flush or no flush.     *)
THEOREM NeverRepeats == Spec => []RxNeverRepeats
<1>1. IInv => RxNeverRepeats
  <2> SUFFICES ASSUME IInv PROVE RxNeverRepeats
    OBVIOUS
  <2>1. /\ delivered \in Seq(Int) /\ Pending \in Seq(Int) /\ InRdr \in Seq(Int) /\ arrived \in Nat
    BY RxSeqs DEF IInv
  <2> DEFINE u == Pending \o InRdr
  <2>2. u \in Seq(Int) /\ Len(delivered) \in Nat /\ Len(u) \in Nat
    BY <2>1, ConcatProperties, LenProperties
  <2>3. delivered \o Pending \o InRdr = delivered \o u
    BY <2>1, Associative
  <2> HIDE DEF u
  <2>4. /\ Len(delivered \o u) = Len(delivered) + Len(u)
        /\ \A i \in 1 .. Len(delivered) : (delivered \o u)[i] = delivered[i]
    BY <2>1, <2>2, ConcatProperties
  <2>5. Ascending(delivered \o u)
    BY <2>3 DEF IInv, RxInv
  <2>6. DOMAIN delivered = 1 .. Len(delivered)
    BY <2>1, LenProperties
  <2> QED BY <2>2, <2>4, <2>5, <2>6 DEF Ascending, RxNeverRepeats
<1> QED BY InvariantHolds, <1>1, PTL

(* Outside write and flush no byte waits without the handler that sends it. *)
THEOREM NoWakeupLost == Spec => []NoLostWakeup
<1>1. IInv => NoLostWakeup
  BY DEF IInv, TxInv
<1> QED BY InvariantHolds, <1>1, PTL
=============================================================================
