-------------------------- MODULE ConfigFileProofs --------------------------
(***************************************************************************)
(* Theorems about ConfigFile, for every set of settings and values and     *)
(* files of any length.                                                    *)
(***************************************************************************)
EXTENDS ConfigFile, FiniteSetTheorems, SequenceTheorems, WellFoundedInduction, TLAPS

-----------------------------------------------------------------------------
(* Finding a line.                                                         *)

(* A set of naturals has a least element.                                  *)
LEMMA Least ==
  ASSUME NEW T \in SUBSET Nat, T # {}
  PROVE  \E x \in T : \A y \in T : x <= y
<1>1. PICK x \in T : \A y \in T : ~(<<y, x>> \in OpToRel(<, Nat))
  BY NatLessThanWellFounded, WFMin
<1>2. \A y \in T : ~(y < x)
  BY <1>1 DEF OpToRel
<1>3. \A y \in T : x <= y
  <2> TAKE y \in T
  <2> QED BY <1>2
<1> QED BY <1>3

(* LineOf is the first line of a key that has one.                         *)
LEMMA LineOfFound ==
  ASSUME NEW f \in Seq(Line), NEW k, LinesOf(f, k) # {}
  PROVE  /\ LineOf(f, k) \in 1 .. Len(f)
         /\ f[LineOf(f, k)].key = k
         /\ \A j \in 1 .. LineOf(f, k) - 1 : f[j].key # k
<1>1. DOMAIN f = 1 .. Len(f) /\ Len(f) \in Nat
  BY LenProperties
<1>2. LinesOf(f, k) \in SUBSET Nat
  BY <1>1 DEF LinesOf
<1>3. PICK i \in LinesOf(f, k) : \A j \in LinesOf(f, k) : i <= j
  BY <1>2, Least
<1> DEFINE First(n) == n \in DOMAIN f /\ f[n].key = k /\ \A j \in 1 .. n - 1 : f[j].key # k
<1>4. First(i)
  <2>1. i \in DOMAIN f /\ f[i].key = k /\ i \in 1 .. Len(f)
    BY <1>1 DEF LinesOf
  <2>2. ASSUME NEW j \in 1 .. i - 1 PROVE f[j].key # k
    <3>1. j \in DOMAIN f /\ ~(i <= j)
      BY <1>1, <2>1
    <3> QED BY <1>3, <3>1 DEF LinesOf
  <2> QED BY <2>1, <2>2
<1>5. \E n \in DOMAIN f : f[n].key = k
  BY <1>4
<1>6. LineOf(f, k) = CHOOSE n \in DOMAIN f : f[n].key = k /\ \A j \in 1 .. n - 1 : f[j].key # k
  BY <1>5 DEF LineOf
<1>7. \E n \in DOMAIN f : f[n].key = k /\ \A j \in 1 .. n - 1 : f[j].key # k
  BY <1>4
<1> QED BY <1>1, <1>6, <1>7

(* LineOf is 0 for a key without a line.                                   *)
LEMMA LineOfNone ==
  ASSUME NEW f, NEW k, LinesOf(f, k) = {}
  PROVE  LineOf(f, k) = 0
BY DEF LineOf, LinesOf

(* And only for such a key.                                                *)
LEMMA LineOfZero ==
  ASSUME NEW f \in Seq(Line), NEW k, LineOf(f, k) = 0
  PROVE  LinesOf(f, k) = {}
BY LineOfFound

(* A line, and the only one, is where a key is found.                      *)
LEMMA ReadsFirst ==
  ASSUME NEW f \in Seq(Line), NEW k, NEW n \in 1 .. Len(f), f[n].key = k,
         \A j \in 1 .. n - 1 : f[j].key # k
  PROVE  Reads(f, k) = f[n].val
<1>1. DOMAIN f = 1 .. Len(f) /\ Len(f) \in Nat
  BY LenProperties
<1>2. LinesOf(f, k) # {}
  BY <1>1 DEF LinesOf
<1>3. LineOf(f, k) = n
  BY <1>1, <1>2, LineOfFound
<1> QED BY <1>3 DEF Reads

-----------------------------------------------------------------------------
(* What an update makes of a file.                                         *)

(* An entry is a line.                                                     *)
LEMMA EntryIsLine ==
  ASSUME NEW k \in Key \cup {Comment, Junk}, NEW v \in Val \cup {Spoiled}
  PROVE  Entry(k, v) \in Line /\ Entry(k, v).key = k /\ Entry(k, v).val = v
BY DEF Entry, Line

(* A key that has a line keeps its place, and its new value is read.       *)
LEMMA UpdatedReplaces ==
  ASSUME NEW f \in Seq(Line), NEW k \in Key, NEW v \in Val, LineOf(f, k) # 0
  PROVE  /\ Updated(f, k, v) \in Seq(Line)
         /\ \A q \in Key : LinesOf(Updated(f, k, v), q) = LinesOf(f, q)
         /\ Reads(Updated(f, k, v), k) = v
<1> DEFINE n == LineOf(f, k)
           u == [f EXCEPT ![n] = Entry(k, v)]
<1>1. n \in 1 .. Len(f) /\ f[n].key = k /\ \A j \in 1 .. n - 1 : f[j].key # k
  BY LineOfFound, LineOfNone
<1>2. Updated(f, k, v) = u
  BY DEF Updated
<1>3. Entry(k, v) \in Line /\ Entry(k, v).key = k /\ Entry(k, v).val = v
  BY EntryIsLine
<1>4. u \in Seq(Line) /\ Len(u) = Len(f) /\ \A j \in 1 .. Len(f) : u[j] = IF j = n THEN Entry(k, v) ELSE f[j]
  BY <1>1, <1>3, ExceptSeq
<1>5. DOMAIN u = 1 .. Len(f) /\ DOMAIN f = 1 .. Len(f) /\ Len(f) \in Nat
  BY <1>4, LenProperties
<1> HIDE DEF u, n
<1>6. \A j \in 1 .. Len(f) : u[j].key = f[j].key
  BY <1>1, <1>3, <1>4
<1>7. \A q \in Key : LinesOf(u, q) = LinesOf(f, q)
  BY <1>5, <1>6 DEF LinesOf
<1>8. u[n].key = k /\ u[n].val = v /\ \A j \in 1 .. n - 1 : u[j].key # k
  BY <1>1, <1>3, <1>4, <1>5, <1>6
<1>9. Reads(u, k) = v
  BY <1>1, <1>4, <1>8, ReadsFirst
<1> QED BY <1>2, <1>4, <1>7, <1>9

(* A key that has none gets one, at the end, and is read there.            *)
LEMMA UpdatedAppends ==
  ASSUME NEW f \in Seq(Line), NEW k \in Key, NEW v \in Val, LineOf(f, k) = 0, Terminated(f)
  PROVE  /\ Updated(f, k, v) \in Seq(Line)
         /\ \A q \in Key \ {k} : LinesOf(Updated(f, k, v), q) = LinesOf(f, q)
         /\ LinesOf(Updated(f, k, v), k) = {Len(f) + 1}
         /\ Reads(Updated(f, k, v), k) = v
<1> DEFINE u == Append(f, Entry(k, v))
<1>1. LinesOf(f, k) = {}
  BY LineOfZero
<1>2. Updated(f, k, v) = u
  BY DEF Updated
<1>3. Entry(k, v) \in Line /\ Entry(k, v).key = k /\ Entry(k, v).val = v
  BY EntryIsLine
<1>4. /\ u \in Seq(Line) /\ Len(u) = Len(f) + 1
      /\ \A i \in 1 .. Len(f) : u[i] = f[i]
      /\ u[Len(f) + 1] = Entry(k, v)
  BY <1>3, AppendProperties
<1>5. DOMAIN u = 1 .. Len(f) + 1 /\ DOMAIN f = 1 .. Len(f) /\ Len(f) \in Nat
  BY <1>4, LenProperties
<1> HIDE DEF u
<1>6. \A q \in Key \ {k} : LinesOf(u, q) = LinesOf(f, q)
  BY <1>3, <1>4, <1>5 DEF LinesOf
<1>7. \A j \in 1 .. Len(f) : u[j].key # k
  BY <1>1, <1>4, <1>5 DEF LinesOf
<1>8. LinesOf(u, k) = {Len(f) + 1}
  BY <1>3, <1>4, <1>5, <1>7 DEF LinesOf
<1>9. Reads(u, k) = v
  BY <1>3, <1>4, <1>5, <1>7, ReadsFirst
<1> QED BY <1>2, <1>4, <1>6, <1>8, <1>9

(* The entry runs into the last line; no key is found elsewhere for that.  *)
LEMMA UpdatedJoins ==
  ASSUME NEW f \in Seq(Line), NEW k \in Key, NEW v \in Val, LineOf(f, k) = 0, ~Terminated(f)
  PROVE  /\ Updated(f, k, v) \in Seq(Line)
         /\ \A q \in Key : LinesOf(Updated(f, k, v), q) = LinesOf(f, q)
<1> DEFINE n == Len(f)
           e == Entry(f[n].key, Spoiled)
           u == [f EXCEPT ![n] = e]
<1>1. Updated(f, k, v) = u
  BY DEF Updated
<1>2. n \in 1 .. Len(f)
  BY LenProperties, EmptySeq, SeqEqual DEF Terminated
<1>3. f[n] \in Line
  BY <1>2, ElementOfSeq
<1>4. e \in Line /\ e.key = f[n].key
  BY <1>3, EntryIsLine DEF Line
<1>5. u \in Seq(Line) /\ Len(u) = Len(f) /\ \A j \in 1 .. Len(f) : u[j] = IF j = n THEN e ELSE f[j]
  BY <1>2, <1>4, ExceptSeq
<1>6. DOMAIN u = 1 .. Len(f) /\ DOMAIN f = 1 .. Len(f)
  BY <1>5, LenProperties
<1> HIDE DEF u, e
<1>7. \A j \in 1 .. Len(f) : u[j].key = f[j].key
  BY <1>4, <1>5
<1>8. \A q \in Key : LinesOf(u, q) = LinesOf(f, q)
  BY <1>6, <1>7 DEF LinesOf
<1> QED BY <1>1, <1>5, <1>8

(* An update adds a line for its own key only, and only if there is none.  *)
(* A key that has come to the file.                                        *)
AtMostOne(S) == \E n : S \subseteq {n}

(* Every key keeps the lines it had, or has one now.                       *)
LEMMA UpdatedLines ==
  ASSUME NEW f \in Seq(Line), NEW k \in Key, NEW v \in Val, NEW q \in Key
  PROVE  /\ Updated(f, k, v) \in Seq(Line)
         /\ LinesOf(Updated(f, k, v), q) = LinesOf(f, q) \/ AtMostOne(LinesOf(Updated(f, k, v), q))
<1>1. CASE LineOf(f, k) # 0
  BY <1>1, UpdatedReplaces
<1>2. CASE LineOf(f, k) = 0 /\ Terminated(f)
  <2>1. CASE q = k
    BY <1>2, <2>1, UpdatedAppends, SMTT(30) DEF AtMostOne
  <2>2. CASE q # k
    BY <1>2, <2>2, UpdatedAppends
  <2> QED BY <2>1, <2>2
<1>3. CASE LineOf(f, k) = 0 /\ ~Terminated(f)
  BY <1>3, UpdatedJoins
<1> QED BY <1>1, <1>2, <1>3

(* The setting is read back, unless its line has run into an unended one.  *)
LEMMA UpdatedIsRead ==
  ASSUME NEW f \in Seq(Line), NEW k \in Key, NEW v \in Val, Terminated(f) \/ LineOf(f, k) # 0
  PROVE  Reads(Updated(f, k, v), k) = v
BY UpdatedReplaces, UpdatedAppends

-----------------------------------------------------------------------------
(* What a write that stops early leaves.                                   *)

(* A prefix has the lines of the file that lie within it.                  *)
LEMMA PrefixLines ==
  ASSUME NEW f \in Seq(Line), NEW n \in 0 .. Len(f)
  PROVE  /\ SubSeq(f, 1, n) \in Seq(Line) /\ Len(SubSeq(f, 1, n)) = n
         /\ \A i \in 1 .. n : SubSeq(f, 1, n)[i] = f[i]
<1>1. Len(f) \in Nat
  BY LenProperties
<1>2. \A i \in 1 .. n : f[i] \in Line
  BY <1>1, ElementOfSeq
<1> DEFINE s == SubSeq(f, 1, n)
<1>3. /\ s \in Seq(Line)
      /\ Len(s) = IF 1 <= n THEN n - 1 + 1 ELSE 0
      /\ \A i \in 1 .. n - 1 + 1 : s[i] = f[1 + i - 1]
  BY <1>1, <1>2, SubSeqProperties
<1> HIDE DEF s
<1>4. Len(s) = n
  BY <1>1, <1>3
<1>5. \A i \in 1 .. n : s[i] = f[i]
  BY <1>1, <1>3
<1> QED BY <1>3, <1>4, <1>5 DEF s

(* What is left of a line is a line, of the same key or of none.           *)
LEMMA PieceIsLine ==
  ASSUME NEW l \in Line, NEW p \in Pieces(l)
  PROVE  p \in Line /\ \A q \in Key : p.key = q => l.key = q
<1>1. l.key \in Key \cup {Comment, Junk} /\ l.val \in Val \cup {Spoiled}
  BY DEF Line
<1>2. l = [key |-> l.key, val |-> l.val, ended |-> l.ended]
  BY DEF Line
<1>3. CASE p = [l EXCEPT !.ended = FALSE]
  <2>1. p = [key |-> l.key, val |-> l.val, ended |-> FALSE]
    BY <1>2, <1>3
  <2> QED BY <1>1, <2>1 DEF Line
<1>4. CASE p = [l EXCEPT !.ended = FALSE, !.val = Spoiled]
  <2>1. p = [key |-> l.key, val |-> Spoiled, ended |-> FALSE]
    BY <1>2, <1>4
  <2> QED BY <1>1, <2>1 DEF Line
<1>5. CASE p = [key |-> IF l.key = Comment THEN Comment ELSE Junk, val |-> Spoiled, ended |-> FALSE]
  BY <1>5, KeyAssumption DEF Line
<1> QED BY <1>3, <1>4, <1>5 DEF Pieces

(* No line of a setting is where there was none of it.                     *)
LEMMA StumpLines ==
  ASSUME NEW f \in Seq(Line), NEW s \in Stumps(f)
  PROVE  s \in Seq(Line) /\ \A q \in Key : LinesOf(s, q) \subseteq LinesOf(f, q)
<1>1. DOMAIN f = 1 .. Len(f) /\ Len(f) \in Nat
  BY LenProperties
<1>2. ASSUME NEW n \in 0 .. Len(f), s = SubSeq(f, 1, n)
      PROVE  s \in Seq(Line) /\ \A q \in Key : LinesOf(s, q) \subseteq LinesOf(f, q)
  <2>1. s \in Seq(Line) /\ Len(s) = n /\ \A i \in 1 .. n : s[i] = f[i]
    BY <1>2, PrefixLines
  <2>2. DOMAIN s = 1 .. n
    BY <2>1, LenProperties
  <2> QED BY <1>1, <2>1, <2>2 DEF LinesOf
<1>3. ASSUME NEW n \in DOMAIN f, NEW p \in Pieces(f[n]), s = Append(SubSeq(f, 1, n - 1), p)
      PROVE  s \in Seq(Line) /\ \A q \in Key : LinesOf(s, q) \subseteq LinesOf(f, q)
  <2> DEFINE h == SubSeq(f, 1, n - 1)
  <2>1. n \in 1 .. Len(f) /\ n - 1 \in 0 .. Len(f)
    BY <1>1
  <2>2. h \in Seq(Line) /\ Len(h) = n - 1 /\ \A i \in 1 .. n - 1 : h[i] = f[i]
    BY <2>1, PrefixLines
  <2>3. f[n] \in Line
    BY <2>1, ElementOfSeq
  <2>4. p \in Line /\ \A q \in Key : p.key = q => f[n].key = q
    BY <2>3, PieceIsLine
  <2> HIDE DEF h
  <2>5. /\ s \in Seq(Line) /\ Len(s) = Len(h) + 1
        /\ \A i \in 1 .. Len(h) : s[i] = h[i]
        /\ s[Len(h) + 1] = p
    BY <1>3, <2>2, <2>4, AppendProperties DEF h
  <2>6. DOMAIN s = 1 .. n
    BY <2>1, <2>2, <2>5, LenProperties
  <2>7. ASSUME NEW q \in Key, NEW i \in LinesOf(s, q) PROVE i \in LinesOf(f, q)
    <3>1. i \in 1 .. n /\ s[i].key = q
      BY <2>6 DEF LinesOf
    <3>2. CASE i = n
      BY <1>1, <2>1, <2>2, <2>4, <2>5, <3>1, <3>2 DEF LinesOf
    <3>3. CASE i # n
      <4>1. i \in 1 .. n - 1
        BY <2>1, <3>1, <3>3
      <4>2. s[i] = f[i]
        BY <2>2, <2>5, <4>1
      <4> QED BY <1>1, <2>1, <3>1, <4>1, <4>2 DEF LinesOf
    <3> QED BY <3>2, <3>3
  <2> QED BY <2>5, <2>7
<1> QED BY <1>2, <1>3 DEF Stumps

-----------------------------------------------------------------------------
(* Files: every line but the last has its newline.                         *)
Ended(f) == \A i \in 1 .. Len(f) - 1 : f[i].ended

(* A file is such a sequence of no more than MaxLines lines.               *)
LEMMA FileIs ==
  ASSUME NEW f
  PROVE  f \in File <=> f \in Seq(Line) /\ Len(f) <= MaxLines /\ Ended(f)
<1>1. ASSUME f \in File
      PROVE  f \in Seq(Line) /\ Len(f) <= MaxLines /\ Ended(f)
  <2>1. PICK n \in 0 .. MaxLines : f \in [1 .. n -> Line]
    BY <1>1 DEF File
  <2>2. n \in Nat /\ n <= MaxLines
    BY <2>1, LinesAssumption
  <2>3. f \in Seq(Line) /\ Len(f) = n
    BY <2>1, <2>2
  <2> QED BY <1>1, <2>2, <2>3 DEF File, Ended
<1>2. ASSUME f \in Seq(Line), Len(f) <= MaxLines, Ended(f)
      PROVE  f \in File
  <2>1. Len(f) \in 0 .. MaxLines /\ f \in [1 .. Len(f) -> Line]
    BY <1>2, LenProperties, LinesAssumption
  <2> QED BY <1>2, <2>1 DEF File, Ended
<1> QED BY <1>1, <1>2

(* An update has at least one line, and ends all but the last if the file  *)
(* does.                                                                   *)
LEMMA UpdatedEnds ==
  ASSUME NEW f \in Seq(Line), NEW k \in Key, NEW v \in Val, Ended(f)
  PROVE  /\ Updated(f, k, v) \in Seq(Line) /\ Ended(Updated(f, k, v))
         /\ Len(Updated(f, k, v)) >= 1
<1> DEFINE e(l, w) == Entry(l, w)
<1>1. /\ \A w : e(k, w).ended
      /\ e(k, v) \in Line
  BY EntryIsLine DEF Entry
<1>2. Len(f) \in Nat /\ DOMAIN f = 1 .. Len(f)
  BY LenProperties
<1>3. CASE LineOf(f, k) # 0
  <2> DEFINE n == LineOf(f, k)
             u == [f EXCEPT ![n] = e(k, v)]
  <2>1. n \in 1 .. Len(f)
    BY <1>3, LineOfFound, LineOfNone
  <2>2. u \in Seq(Line) /\ Len(u) = Len(f)
        /\ \A j \in 1 .. Len(f) : u[j] = IF j = n THEN e(k, v) ELSE f[j]
    BY <1>1, <2>1, ExceptSeq
  <2>3. Updated(f, k, v) = u
    BY <1>3 DEF Updated
  <2> HIDE DEF u, n, e
  <2>4. Ended(u)
    BY <1>1, <1>2, <2>2 DEF Ended
  <2>5. Len(u) >= 1
    BY <1>2, <2>1, <2>2
  <2> QED BY <2>2, <2>3, <2>4, <2>5
<1>4. CASE LineOf(f, k) = 0 /\ Terminated(f)
  <2> DEFINE u == Append(f, e(k, v))
  <2>1. /\ u \in Seq(Line) /\ Len(u) = Len(f) + 1
        /\ \A i \in 1 .. Len(f) : u[i] = f[i]
    BY <1>1, AppendProperties
  <2>2. Updated(f, k, v) = u
    BY <1>4 DEF Updated
  <2>3. \A i \in 1 .. Len(f) : f[i].ended
    <3> TAKE i \in 1 .. Len(f)
    <3>1. f # <<>>
      BY <1>2, EmptySeq
    <3>2. f[Len(f)].ended
      BY <1>4, <3>1 DEF Terminated
    <3>3. i = Len(f) \/ i \in 1 .. Len(f) - 1
      <4> DEFINE m == Len(f)
      <4>1. m \in Nat /\ i \in 1 .. m
        BY <1>2
      <4> HIDE DEF m
      <4>2. i = m \/ i \in 1 .. m - 1
        BY <4>1
      <4> QED BY <4>2 DEF m
    <3> QED BY <3>2, <3>3 DEF Ended
  <2> HIDE DEF u
  <2>4. Ended(u) /\ Len(u) >= 1
    BY <1>2, <2>1, <2>3 DEF Ended
  <2> QED BY <2>1, <2>2, <2>4
<1>5. CASE LineOf(f, k) = 0 /\ ~Terminated(f)
  <2> DEFINE n == Len(f)
             l == e(f[n].key, Spoiled)
             u == [f EXCEPT ![n] = l]
  <2>1. n \in 1 .. Len(f)
    BY <1>5, LenProperties, EmptySeq, SeqEqual DEF Terminated
  <2>2. f[n] \in Line
    BY <2>1, ElementOfSeq
  <2>3. l \in Line
    BY <2>2, EntryIsLine DEF Line
  <2>4. u \in Seq(Line) /\ Len(u) = Len(f) /\ \A j \in 1 .. Len(f) : u[j] = IF j = n THEN l ELSE f[j]
    BY <2>1, <2>3, ExceptSeq
  <2>5. Updated(f, k, v) = u
    BY <1>5 DEF Updated
  <2> HIDE DEF u, l
  <2>6. Ended(u)
    <3> SUFFICES ASSUME NEW i \in 1 .. n - 1 PROVE u[i].ended
      BY <2>4 DEF Ended
    <3> HIDE DEF n
    <3>1. i \in 1 .. n /\ i # n
      BY <2>1
    <3>2. u[i] = f[i]
      BY <2>4, <3>1 DEF n
    <3> QED BY <3>2 DEF Ended, n
  <2>7. Len(u) >= 1
    BY <1>2, <2>1, <2>4
  <2> QED BY <2>4, <2>5, <2>6, <2>7
<1> QED BY <1>3, <1>4, <1>5

(* What a write leaves of a file is a file.                                *)
LEMMA StumpIsFile ==
  ASSUME NEW f \in File, NEW s \in Stumps(f)
  PROVE  s \in File
<1>1. f \in Seq(Line) /\ Len(f) <= MaxLines /\ Ended(f) /\ Len(f) \in Nat /\ DOMAIN f = 1 .. Len(f)
  BY FileIs, LenProperties
<1>2. ASSUME NEW n \in 0 .. Len(f), s = SubSeq(f, 1, n)
      PROVE  s \in File
  <2>1. s \in Seq(Line) /\ Len(s) = n /\ \A i \in 1 .. n : s[i] = f[i]
    BY <1>1, <1>2, PrefixLines
  <2>2. Len(s) <= MaxLines
    BY <1>1, <2>1, LinesAssumption
  <2>3. Ended(s)
    BY <1>1, <2>1 DEF Ended
  <2> QED BY <2>1, <2>2, <2>3, FileIs
<1>3. ASSUME NEW n \in DOMAIN f, NEW p \in Pieces(f[n]), s = Append(SubSeq(f, 1, n - 1), p)
      PROVE  s \in File
  <2> DEFINE h == SubSeq(f, 1, n - 1)
  <2>1. n \in 1 .. Len(f) /\ n - 1 \in 0 .. Len(f)
    BY <1>1
  <2>2. h \in Seq(Line) /\ Len(h) = n - 1 /\ \A i \in 1 .. n - 1 : h[i] = f[i]
    BY <1>1, <2>1, PrefixLines
  <2>3. f[n] \in Line
    BY <1>1, <2>1, ElementOfSeq
  <2>4. p \in Line
    BY <2>3, PieceIsLine
  <2> HIDE DEF h
  <2>5. /\ s \in Seq(Line) /\ Len(s) = Len(h) + 1
        /\ \A i \in 1 .. Len(h) : s[i] = h[i]
    BY <1>3, <2>2, <2>4, AppendProperties DEF h
  <2>6. Len(s) = n /\ Len(s) <= MaxLines
    BY <1>1, <2>1, <2>2, <2>5, LinesAssumption
  <2>7. Ended(s)
    BY <1>1, <2>1, <2>2, <2>5, <2>6 DEF Ended
  <2> QED BY <2>5, <2>6, <2>7, FileIs
<1> QED BY <1>2, <1>3 DEF Stumps

(* The empty file.                                                         *)
LEMMA EmptyFile ==
  /\ <<>> \in Seq(Line) /\ Terminated(<<>>)
  /\ \A q : LinesOf(<<>>, q) = {}
BY EmptySeq DEF Terminated, LinesOf

(* No line at all is a file.                                               *)
LEMMA EmptyIsFile == <<>> \in File
<1>1. Ended(<<>>) /\ Len(<<>>) = 0
  BY EmptySeq DEF Ended
<1>2. Len(<<>>) <= MaxLines /\ <<>> \in Seq(Line)
  BY <1>1, EmptySeq, LinesAssumption
<1>3. <<>> \in File <=> <<>> \in Seq(Line) /\ Len(<<>>) <= MaxLines /\ Ended(<<>>)
  BY FileIs, Zenon
<1> QED BY <1>1, <1>2, <1>3

-----------------------------------------------------------------------------
(* The inductive invariant.  No property is inductive: what a file holds   *)
(* after a save follows from what newContent was made of when the file     *)
(* was read, two steps before, and that from what the save took for it.    *)
NoneAdded(f) ==
  \A q \in Key : LinesOf(f, q) \subseteq LinesOf(before, q) \/ AtMostOne(LinesOf(f, q))

IInv ==
  /\ TypeOK
  /\ phase = "read" => file = before
  /\ phase \in {"idle", "read"} => new = <<>>
  /\ phase \in {"truncate", "write"} => new = Updated(taken, key, value)
  /\ phase # "idle" => flushed
  /\ ReadSome => NoneAdded(new)
  /\ ReadSome /\ flushed => NoneAdded(file)
  /\ Saved => file = Updated(taken, key, value)

(* No line at all is none too many.                                        *)
LEMMA EmptyAddsNone ==
  ASSUME NEW f, f = <<>>
  PROVE  f \in File /\ NoneAdded(f)
BY EmptyIsFile, EmptyFile DEF NoneAdded

(* A file from the drive is its own history.                               *)
LEMMA InitHolds == Init => IInv
<1> SUFFICES ASSUME Init PROVE IInv
  OBVIOUS
<1>1. <<>> \in File /\ NoneAdded(<<>>)
  BY EmptyAddsNone
<1>2. TypeOK
  BY <1>1 DEF Init, TypeOK
<1>3. NoneAdded(file)
  BY DEF Init, NoneAdded
<1> QED BY <1>1, <1>2, <1>3 DEF Init, IInv, Saved

(* newContent adds at most one line for any key to those of the file, if   *)
(* it is made of the file or of a part of it.                              *)
LEMMA UpdateOfPart ==
  ASSUME NEW f \in File, NEW t \in Stumps(f), NEW k \in Key, NEW v \in Val, NEW q \in Key
  PROVE  \/ LinesOf(Updated(t, k, v), q) \subseteq LinesOf(f, q)
         \/ AtMostOne(LinesOf(Updated(t, k, v), q))
<1>1. f \in Seq(Line)
  BY FileIs
<1>2. t \in Seq(Line) /\ LinesOf(t, q) \subseteq LinesOf(f, q)
  BY <1>1, StumpLines
<1>3. LinesOf(Updated(t, k, v), q) = LinesOf(t, q) \/ AtMostOne(LinesOf(Updated(t, k, v), q))
  BY <1>2, UpdatedLines
<1> QED BY <1>2, <1>3

(* Nor does what a write of it leaves.                                     *)
LEMMA StumpAddsNone ==
  ASSUME NEW f \in File, NEW s \in Stumps(f)
  PROVE  s \in File /\ (NoneAdded(f) => NoneAdded(s))
<1>1. f \in Seq(Line)
  BY FileIs
<1> QED BY <1>1, StumpLines, StumpIsFile DEF NoneAdded, AtMostOne

(* What ends up in the flash is a file, and is what was written where the  *)
(* flash has taken it.                                                     *)
LEMMA StoredIsFile ==
  ASSUME TypeOK, NEW w \in Stumps(new), Stores(w)
  PROVE  /\ file' \in File /\ flushed' \in BOOLEAN
         /\ flushed' => file' = w /\ (NoneAdded(new) => NoneAdded(w))
<1>1. new \in File /\ before \in File
  BY DEF TypeOK
<1>2. w \in File /\ (NoneAdded(new) => NoneAdded(w))
  BY <1>1, StumpAddsNone
<1>3. \A g \in Stumps(new) \cup Stumps(before) \cup Remains : g \in File
  BY <1>1, StumpAddsNone, RemainsAssumption
<1> QED BY <1>2, <1>3 DEF Stores

(* Every step keeps the invariant.                                         *)
LEMMA StepKeeps == IInv /\ [Next]_vars => IInv'
<1> SUFFICES ASSUME IInv, [Next]_vars PROVE IInv'
  OBVIOUS
<1> USE DEF IInv, ReadSome, Saved
<1>0. TypeOK /\ <<>> \in File /\ \A f : f = <<>> => NoneAdded(f)
  BY EmptyAddsNone
<1>1. CASE UNCHANGED vars
  BY <1>1 DEF TypeOK, NoneAdded, vars
<1>2. ASSUME NEW k \in Key, NEW v \in Val, SaveBegin(k, v) PROVE IInv'
  <2>1. /\ phase = "idle" /\ phase' = "read" /\ key' = k /\ value' = v
        /\ before' = file /\ taken' = <<>> /\ flushed' = TRUE /\ new = <<>>
        /\ UNCHANGED <<file, new, outcome>>
    BY <1>2 DEF SaveBegin
  <2>2. TypeOK'
    BY <1>0, <2>1 DEF TypeOK
  <2>3. NoneAdded(file)' /\ NoneAdded(new)'
    BY <2>1, EmptyFile DEF NoneAdded
  <2> QED BY <2>1, <2>2, <2>3
<1>3. CASE SaveRead
  <2>1. phase = "read" /\ file = before /\ flushed /\ UNCHANGED <<file, key, value, before, flushed>>
    BY <1>3 DEF SaveRead
  <2>2. ASSUME NEW f \in Readings, Len(Updated(f, key, value)) <= MaxLines,
               taken' = f, new' = Updated(f, key, value), phase' = "truncate", UNCHANGED outcome
        PROVE  IInv'
    <3>1. before \in File /\ key \in Key /\ value \in Val
      BY <1>0 DEF TypeOK
    <3>2. f \in File
      BY <2>1, <2>2, <3>1, StumpIsFile, RemainsAssumption DEF Readings
    <3>3. new' \in File
      <4>1. f \in Seq(Line) /\ Ended(f)
        BY <3>2, FileIs
      <4> QED BY <2>2, <3>1, <4>1, UpdatedEnds, FileIs
    <3>4. TypeOK'
      BY <1>0, <2>1, <2>2, <3>2, <3>3 DEF TypeOK
    <3>5. ReadSome' => NoneAdded(new)'
      BY <2>1, <2>2, <3>1, UpdateOfPart DEF NoneAdded
    <3>6. NoneAdded(file)'
      BY <2>1 DEF NoneAdded
    <3> QED BY <2>1, <2>2, <3>4, <3>5, <3>6
  <2>3. CASE SaveEnds("error") /\ UNCHANGED taken
    <3>1. phase' = "idle" /\ outcome' = "error" /\ new' = <<>>
      BY <2>3 DEF SaveEnds
    <3>2. TypeOK'
      BY <1>0, <2>1, <2>3, <3>1 DEF TypeOK
    <3>3. NoneAdded(file)' /\ NoneAdded(new)'
      BY <2>1, <3>1, EmptyFile DEF NoneAdded
    <3> QED BY <2>1, <3>1, <3>2, <3>3
  <2> QED BY <1>3, <2>2, <2>3 DEF SaveRead
<1>4. CASE SaveTruncate
  <2>1. phase = "truncate" /\ flushed /\ UNCHANGED <<key, value, before, taken, flushed>>
    BY <1>4 DEF SaveTruncate
  <2>2. file' \in {file, <<>>}
    BY <1>4 DEF SaveTruncate
  <2>3. ReadSome' => NoneAdded(file)'
    BY <2>1, <2>2, EmptyFile DEF NoneAdded
  <2>4. CASE SaveEnds("error")
    <3>1. phase' = "idle" /\ outcome' = "error" /\ new' = <<>>
      BY <2>4 DEF SaveEnds
    <3>2. TypeOK'
      BY <1>0, <2>1, <2>2, <3>1 DEF TypeOK
    <3>3. NoneAdded(new)'
      BY <3>1, EmptyFile DEF NoneAdded
    <3> QED BY <2>1, <2>3, <3>1, <3>2, <3>3
  <2>5. CASE phase' = "write" /\ UNCHANGED <<outcome, new>>
    <3>1. TypeOK'
      BY <1>0, <2>1, <2>2, <2>5 DEF TypeOK
    <3>2. ReadSome' => NoneAdded(new)'
      BY <2>1, <2>5 DEF NoneAdded
    <3> QED BY <2>1, <2>3, <2>5, <3>1, <3>2
  <2> QED BY <1>4, <2>4, <2>5 DEF SaveTruncate
<1>5. CASE SaveWrite
  <2>1. PICK w \in Stumps(new) : Stores(w) /\ SaveEnds(IF w = new THEN "ok" ELSE "error")
    BY <1>5 DEF SaveWrite
  <2>2. /\ phase = "write" /\ phase' = "idle" /\ new' = <<>> /\ UNCHANGED <<key, value, before, taken>>
        /\ outcome' = (IF w = new THEN "ok" ELSE "error")
    BY <1>5, <2>1 DEF SaveWrite, SaveEnds
  <2>3. /\ file' \in File /\ flushed' \in BOOLEAN
        /\ flushed' => file' = w /\ (NoneAdded(new) => NoneAdded(w))
    BY <1>0, <2>1, StoredIsFile
  <2>4. TypeOK'
    BY <1>0, <2>2, <2>3 DEF TypeOK
  <2>5. (ReadSome /\ flushed)' => NoneAdded(file)'
    BY <2>2, <2>3 DEF NoneAdded
  <2>6. NoneAdded(new)'
    BY <2>2, EmptyFile DEF NoneAdded
  <2> QED BY <2>2, <2>3, <2>4, <2>5, <2>6
<1>6. CASE PowerFail
  <2>1. /\ UNCHANGED <<key, value, before, taken>> /\ new' = <<>> /\ phase' = "idle"
        /\ outcome' = (IF phase = "idle" THEN outcome ELSE "cut")
    BY <1>6 DEF PowerFail, SaveEnds
  <2>2. NoneAdded(new)'
    BY <2>1, EmptyFile DEF NoneAdded
  <2>3. CASE phase = "write"
    <3>1. PICK w \in Stumps(new) : Stores(w)
      BY <1>6, <2>3 DEF PowerFail
    <3>2. /\ file' \in File /\ flushed' \in BOOLEAN
          /\ flushed' => file' = w /\ (NoneAdded(new) => NoneAdded(w))
      BY <1>0, <3>1, StoredIsFile
    <3>3. TypeOK'
      BY <1>0, <2>1, <2>3, <3>2 DEF TypeOK
    <3>4. (ReadSome /\ flushed)' => NoneAdded(file)'
      BY <2>1, <3>2 DEF NoneAdded
    <3> QED BY <2>1, <2>2, <2>3, <3>3, <3>4
  <2>4. CASE phase # "write"
    <3>1. UNCHANGED <<file, flushed>>
      BY <1>6, <2>4 DEF PowerFail
    <3>2. TypeOK'
      BY <1>0, <2>1, <3>1 DEF TypeOK
    <3>3. (ReadSome /\ flushed)' => NoneAdded(file)'
      BY <2>1, <3>1 DEF NoneAdded
    <3> QED BY <2>1, <2>2, <3>1, <3>2, <3>3
  <2> QED BY <2>3, <2>4
<1> QED BY <1>1, <1>2, <1>3, <1>4, <1>5, <1>6 DEF Next

-----------------------------------------------------------------------------
(* The theorems.                                                           *)

(* ConfigFile_Save, whatever its reads give it and whatever becomes of its *)
(* writes: newContent is an update of what it took for the file; so is the *)
(* file after a save that returned 0 and which the flash did not fail; and *)
(* no file has a second line for a key but for those that were there, if   *)
(* the save took the file or a part of it.                                 *)
THEOREM InvariantHolds == Spec => []IInv
BY InitHolds, StepKeeps, PTL DEF Spec

(* The type invariant: files are files, whatever a write leaves.           *)
THEOREM TypeCorrect == Spec => []TypeOK
<1>1. IInv => TypeOK
  BY DEF IInv
<1> QED BY <1>1, InvariantHolds, PTL

(* Whatever is cut short and whenever the power goes, ConfigFile_Save      *)
(* never adds a second line for a setting, unless the flash failed it or   *)
(* it took for the file what is none of it.                                *)
THEOREM NoSecondLineEver == Spec => []NoSecondLine
<1>1. ASSUME IInv, ReadSome, flushed, NEW k \in Key
      PROVE  Cardinality(LinesOf(file, k)) <= 1 \/ LinesOf(file, k) \subseteq LinesOf(before, k)
  <2>1. ASSUME NEW n, LinesOf(file, k) \subseteq {n}
        PROVE  Cardinality(LinesOf(file, k)) <= 1
    <3>1. LinesOf(file, k) = {} \/ LinesOf(file, k) = {n}
      BY <2>1
    <3>2. Cardinality({}) = 0 /\ Cardinality({n}) = 1
      BY FS_EmptySet, FS_Singleton
    <3> QED BY <3>1, <3>2
  <2> QED BY <1>1, <2>1 DEF IInv, NoneAdded, AtMostOne
<1>2. IInv => NoSecondLine
  BY <1>1 DEF NoSecondLine
<1> QED BY <1>2, InvariantHolds, PTL

(* A save that returned 0, and which the flash has, is read back, for      *)
(* files of any length and whatever it took for the file: unless the entry *)
(* ran into a last line that had no newline.                               *)
THEOREM SavedIsReadBack == Spec => []SavedIsReadUnlessJoined
<1>1. ASSUME IInv, Saved, Terminated(taken) \/ LineOf(taken, key) # 0
      PROVE  Reads(file, key) = value
  <2>1. file = Updated(taken, key, value) /\ taken \in File /\ key \in Key /\ value \in Val
    BY <1>1 DEF IInv, TypeOK
  <2>2. taken \in Seq(Line)
    BY <2>1, FileIs
  <2> QED BY <1>1, <2>1, <2>2, UpdatedIsRead
<1>2. IInv => SavedIsReadUnlessJoined
  BY <1>1 DEF SavedIsReadUnlessJoined
<1> QED BY <1>2, InvariantHolds, PTL

-----------------------------------------------------------------------------
(* The other settings and the comments.                                    *)

(* A key whose lines are the same in two files reads the same.             *)
LEMMA SameLines ==
  ASSUME NEW f \in Seq(Line), NEW u \in Seq(Line), NEW q, LinesOf(u, q) = LinesOf(f, q),
         \A i \in LinesOf(f, q) : u[i] = f[i]
  PROVE  Reads(u, q) = Reads(f, q)
<1>1. CASE LinesOf(f, q) = {}
  BY <1>1, LineOfNone DEF Reads
<1>2. CASE LinesOf(f, q) # {}
  <2> DEFINE a == LineOf(f, q)
             b == LineOf(u, q)
  <2>1. /\ a \in 1 .. Len(f) /\ f[a].key = q /\ \A j \in 1 .. a - 1 : f[j].key # q
        /\ b \in 1 .. Len(u) /\ u[b].key = q /\ \A j \in 1 .. b - 1 : u[j].key # q
    BY <1>2, LineOfFound
  <2>2. DOMAIN f = 1 .. Len(f) /\ DOMAIN u = 1 .. Len(u) /\ Len(f) \in Nat /\ Len(u) \in Nat
    BY LenProperties
  <2> HIDE DEF a, b
  <2>3. a \in LinesOf(f, q) /\ b \in LinesOf(f, q)
    BY <2>1, <2>2 DEF LinesOf
  <2>4. u[a].key = q /\ f[b].key = q /\ u[b] = f[b]
    BY <2>1, <2>3
  <2>5. a = b
    <3>1. ~ (a \in 1 .. b - 1) /\ ~ (b \in 1 .. a - 1)
      BY <2>1, <2>4
    <3> QED BY <2>1, <2>2, <3>1
  <2>6. a # 0
    BY <2>1, <2>2
  <2> QED BY <2>4, <2>5, <2>6 DEF Reads, a, b
<1> QED BY <1>1, <1>2

(* An update of a file whose last line is ended leaves every line that is  *)
(* not the setting's as it is, where it is, and adds no other.             *)
LEMMA UpdatedKeepsOthers ==
  ASSUME NEW f \in Seq(Line), NEW k \in Key, NEW v \in Val, Terminated(f),
         NEW q \in Key \cup {Comment}, q # k
  PROVE  /\ LinesOf(Updated(f, k, v), q) = LinesOf(f, q)
         /\ \A i \in LinesOf(f, q) : Updated(f, k, v)[i] = f[i]
<1> DEFINE e == Entry(k, v)
<1>1. e \in Line /\ e.key = k
  BY EntryIsLine
<1>2. DOMAIN f = 1 .. Len(f) /\ Len(f) \in Nat
  BY LenProperties
<1>3. CASE LineOf(f, k) # 0
  <2> DEFINE n == LineOf(f, k)
             u == [f EXCEPT ![n] = e]
  <2>1. n \in 1 .. Len(f) /\ f[n].key = k
    BY <1>3, LineOfFound, LineOfNone
  <2>2. u \in Seq(Line) /\ Len(u) = Len(f) /\ \A j \in 1 .. Len(f) : u[j] = IF j = n THEN e ELSE f[j]
    BY <1>1, <2>1, ExceptSeq
  <2>3. DOMAIN u = 1 .. Len(f)
    BY <2>2, LenProperties
  <2>4. Updated(f, k, v) = u
    BY <1>3 DEF Updated
  <2> HIDE DEF u, n, e
  <2>5. LinesOf(u, q) = LinesOf(f, q)
    BY <1>1, <1>2, <2>1, <2>2, <2>3 DEF LinesOf
  <2>6. \A i \in LinesOf(f, q) : u[i] = f[i]
    BY <1>2, <2>1, <2>2 DEF LinesOf
  <2> QED BY <2>4, <2>5, <2>6
<1>4. CASE LineOf(f, k) = 0
  <2> DEFINE u == Append(f, e)
  <2>1. /\ u \in Seq(Line) /\ Len(u) = Len(f) + 1
        /\ \A i \in 1 .. Len(f) : u[i] = f[i]
        /\ u[Len(f) + 1] = e
    BY <1>1, AppendProperties
  <2>2. DOMAIN u = 1 .. Len(f) + 1
    BY <2>1, LenProperties
  <2>3. Updated(f, k, v) = u
    BY <1>4 DEF Updated
  <2> HIDE DEF u, e
  <2>4. LinesOf(u, q) = LinesOf(f, q)
    BY <1>1, <1>2, <2>1, <2>2 DEF LinesOf
  <2>5. \A i \in LinesOf(f, q) : u[i] = f[i]
    BY <1>2, <2>1 DEF LinesOf
  <2> QED BY <2>3, <2>4, <2>5
<1> QED BY <1>3, <1>4

(* A part of a file whose last line is ended is a row of whole lines: a    *)
(* key that has one there reads as in the file, and comments are the same. *)
LEMMA WholeLines ==
  ASSUME NEW f \in Seq(Line), NEW t \in Stumps(f), Terminated(t)
  PROVE  /\ \A q : LineOf(t, q) # 0 => Reads(t, q) = Reads(f, q)
         /\ \A i \in DOMAIN t : t[i] = f[i]
<1>1. PICK n \in 0 .. Len(f) : t = SubSeq(f, 1, n)
  <2>1. ASSUME NEW m \in DOMAIN f, NEW p \in Pieces(f[m]), t = Append(SubSeq(f, 1, m - 1), p)
        PROVE  FALSE
    <3>1. m \in 1 .. Len(f) /\ m - 1 \in 0 .. Len(f)
      BY LenProperties
    <3>2. f[m] \in Line /\ SubSeq(f, 1, m - 1) \in Seq(Line)
      BY <3>1, ElementOfSeq, PrefixLines
    <3>3. p \in Line /\ p.ended = FALSE
      BY <3>2, PieceIsLine DEF Pieces, Line
    <3> DEFINE h == SubSeq(f, 1, m - 1)
    <3> HIDE DEF h
    <3>4. h \in Seq(Line) /\ t = Append(h, p)
      BY <2>1, <3>2 DEF h
    <3>5. t \in Seq(Line) /\ Len(h) \in Nat /\ Len(t) = Len(h) + 1 /\ t[Len(h) + 1] = p
      BY <3>3, <3>4, AppendProperties, LenProperties
    <3>6. t # <<>>
      BY <3>5, EmptySeq
    <3> QED BY <3>3, <3>5, <3>6 DEF Terminated
  <2> QED BY <2>1 DEF Stumps
<1>2. t \in Seq(Line) /\ Len(t) = n /\ \A i \in 1 .. n : t[i] = f[i]
  BY <1>1, PrefixLines
<1>3. DOMAIN t = 1 .. n /\ Len(f) \in Nat
  BY <1>2, LenProperties
<1>4. ASSUME NEW q, LineOf(t, q) # 0
      PROVE  Reads(t, q) = Reads(f, q)
  <2> DEFINE a == LineOf(t, q)
  <2>1. LinesOf(t, q) # {}
    BY <1>4, LineOfNone
  <2>2. a \in 1 .. n /\ t[a].key = q /\ \A j \in 1 .. a - 1 : t[j].key # q
    BY <1>2, <2>1, LineOfFound
  <2> HIDE DEF a
  <2>3. a \in 1 .. Len(f) /\ f[a] = t[a] /\ \A j \in 1 .. a - 1 : f[j] = t[j]
    BY <1>2, <1>3, <2>2
  <2>4. Reads(t, q) = t[a].val
    BY <1>2, <2>2, ReadsFirst
  <2>5. Reads(f, q) = f[a].val
    BY <2>2, <2>3, ReadsFirst
  <2> QED BY <2>3, <2>4, <2>5
<1> QED BY <1>2, <1>3, <1>4

(* ConfigFile_Save: when it returned 0 and the flash has all of it, every  *)
(* other setting and comment it has read is as it was, on its line, and    *)
(* that is all of them when it has read all of the file.                   *)
THEOREM OthersAreKept == Spec => []OthersKept
<1>1. ASSUME IInv, Saved, ReadSome, Terminated(taken)
      PROVE  /\ \A k \in Key \ {key} : LineOf(taken, k) # 0 \/ taken = before => Reads(file, k) = Reads(before, k)
             /\ \A i \in LinesOf(taken, Comment) : file[i] = before[i]
  <2>1. /\ file = Updated(taken, key, value) /\ key \in Key /\ value \in Val
        /\ file \in File /\ before \in File /\ taken \in File
    BY <1>1 DEF IInv, TypeOK
  <2>2. file \in Seq(Line) /\ before \in Seq(Line) /\ taken \in Seq(Line)
    BY <2>1, FileIs
  <2>3. /\ \A q : LineOf(taken, q) # 0 => Reads(taken, q) = Reads(before, q)
        /\ \A i \in DOMAIN taken : taken[i] = before[i]
    BY <1>1, <2>2, WholeLines DEF ReadSome
  <2>4. ASSUME NEW k \in Key \ {key}
        PROVE  Reads(file, k) = Reads(taken, k)
    <3>1. LinesOf(file, k) = LinesOf(taken, k) /\ \A i \in LinesOf(taken, k) : file[i] = taken[i]
      BY <1>1, <2>1, <2>2, UpdatedKeepsOthers
    <3> QED BY <2>2, <3>1, SameLines
  <2>5. Comment # key
    BY <2>1, KeyAssumption
  <2>6. \A i \in LinesOf(taken, Comment) : file[i] = taken[i]
    BY <1>1, <2>1, <2>2, <2>5, UpdatedKeepsOthers
  <2>7. LinesOf(taken, Comment) \subseteq DOMAIN taken
    BY DEF LinesOf
  <2> QED BY <2>3, <2>4, <2>6, <2>7
<1>2. IInv => OthersKept
  BY <1>1 DEF OthersKept
<1> QED BY <1>2, InvariantHolds, PTL
=============================================================================
