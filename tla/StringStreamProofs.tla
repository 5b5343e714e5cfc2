-------------------------- MODULE StringStreamProofs --------------------------
(***************************************************************************)
(* Proofs about StringStream: with careful clients, whatever the size of   *)
(* the array of a short string and however much is written, strings and    *)
(* streams hold what they should and every block has one owner; and        *)
(* splits and pops part every text without loss.                           *)
(***************************************************************************)
EXTENDS MCStringStream, Recursion, FiniteSetTheorems, SequenceTheorems, TLAPS

Symbols == Chars \cup {NUL, Junk}

-----------------------------------------------------------------------------
(* Parts of texts.                                                         *)

LEMMA PartProperties ==
  ASSUME NEW t \in Seq(Symbols), NEW a \in Nat, NEW b \in a .. Len(t)
  PROVE  /\ SubSeq(t, a + 1, b) \in Seq(Symbols)
         /\ Len(SubSeq(t, a + 1, b)) = b - a
         /\ \A i \in 1 .. b - a : SubSeq(t, a + 1, b)[i] = t[a + i]
<1>1. Len(t) \in Nat
  BY LenProperties
<1>2. \A i \in a + 1 .. b : t[i] \in Symbols
  BY <1>1, ElementOfSeq
<1>3. /\ SubSeq(t, a + 1, b) \in Seq(Symbols)
      /\ Len(SubSeq(t, a + 1, b)) = IF a + 1 <= b THEN b - (a + 1) + 1 ELSE 0
      /\ \A i \in 1 .. b - (a + 1) + 1 : SubSeq(t, a + 1, b)[i] = t[a + 1 + i - 1]
  BY <1>1, <1>2, SubSeqProperties
<1> QED
  BY <1>1, <1>3

LEMMA PrefixProperties ==
  ASSUME NEW t \in Seq(Symbols), NEW n \in Nat, n <= Len(t)
  PROVE  /\ SubSeq(t, 1, n) \in Seq(Symbols) /\ Len(SubSeq(t, 1, n)) = n
         /\ \A i \in 1..n : SubSeq(t, 1, n)[i] = t[i]
<1>1. 0 \in Nat /\ n \in 0..Len(t)
  BY LenProperties
<1>2. /\ SubSeq(t, 0 + 1, n) \in Seq(Symbols) /\ Len(SubSeq(t, 0 + 1, n)) = n - 0
      /\ \A i \in 1 .. n - 0 : SubSeq(t, 0 + 1, n)[i] = t[0 + i]
  BY <1>1, PartProperties
<1> QED
  BY <1>2

LEMMA SameText ==
  ASSUME NEW s \in Seq(Symbols), NEW t \in Seq(Symbols), NEW n,
         Len(s) = n, Len(t) = n, \A i \in 1..n : s[i] = t[i]
  PROVE  s = t
BY SeqEqual

LEMMA JoinedProperties ==
  ASSUME NEW s \in Seq(Symbols), NEW t \in Seq(Symbols)
  PROVE  /\ s \o t \in Seq(Symbols) /\ Len(s \o t) = Len(s) + Len(t)
         /\ Len(s) \in Nat /\ Len(t) \in Nat
         /\ \A i \in 1 .. Len(s) + Len(t) :
              (s \o t)[i] = IF i <= Len(s) THEN s[i] ELSE t[i - Len(s)]
BY ConcatProperties, LenProperties

LEMMA FilledProperties ==
  ASSUME NEW t \in Seq(Symbols), NEW n \in Nat
  PROVE  LET f == [i \in 1..n |-> IF i <= Len(t) THEN t[i] ELSE NUL]
         IN  f \in Seq(Symbols) /\ Len(f) = n
<1>1. \A i \in 1..n : (IF i <= Len(t) THEN t[i] ELSE NUL) \in Symbols
  BY LenProperties, ElementOfSeq DEF Symbols
<1> QED
  BY <1>1

LEMMA BytesProperties ==
  ASSUME NEW s, s.text \in Seq(Symbols)
  PROVE  /\ Bytes(s) \in Seq(Symbols) /\ Len(Bytes(s)) = Len(s.text) + 1
         /\ \A i \in 1 .. Len(s.text) : Bytes(s)[i] = s.text[i]
         /\ Bytes(s)[Len(s.text) + 1] = NUL
<1>1. NUL \in Symbols
  BY DEF Symbols
<1> QED
  BY <1>1 DEF Bytes

LEMMA SkippedProperties ==
  ASSUME NEW t \in Seq(Symbols), NEW c
  PROVE  /\ SkipLeft(t, c) \in Seq(Symbols) /\ SkipRight(t, c) \in Seq(Symbols)
         /\ Len(SkipLeft(t, c)) <= Len(t) /\ Len(SkipRight(t, c)) <= Len(t)
         /\ SkipLeft(t, c) = SubSeq(t, Len(t) - Len(SkipLeft(t, c)) + 1, Len(t))
<1> DEFINE left  == {i \in 1..Len(t) : \E k \in 1..i : t[k] # c}
           right == {i \in 1..Len(t) : \E k \in i..Len(t) : t[k] # c}
<1>1. Len(t) \in Nat
  BY LenProperties
<1>2. IsFiniteSet(1..Len(t)) /\ Cardinality(1..Len(t)) = Len(t)
  BY <1>1, FS_Interval, SMTT(30)
<1>3. /\ IsFiniteSet(left) /\ Cardinality(left) \in 0..Len(t)
      /\ IsFiniteSet(right) /\ Cardinality(right) \in 0..Len(t)
  <2>1. left \in SUBSET (1..Len(t)) /\ right \in SUBSET (1..Len(t))
    OBVIOUS
  <2> HIDE DEF left, right
  <2>2. IsFiniteSet(left) /\ Cardinality(left) <= Len(t)
    BY <1>2, <2>1, FS_Subset
  <2>3. IsFiniteSet(right) /\ Cardinality(right) <= Len(t)
    BY <1>2, <2>1, FS_Subset
  <2>4. Cardinality(left) \in Nat /\ Cardinality(right) \in Nat
    BY <2>2, <2>3, FS_CardinalityType
  <2> QED
    BY <1>1, <2>2, <2>3, <2>4
<1>4. /\ SkipLeft(t, c) = SubSeq(t, Len(t) - Cardinality(left) + 1, Len(t))
      /\ SkipRight(t, c) = SubSeq(t, 0 + 1, Cardinality(right))
  BY DEF SkipLeft, SkipRight
<1> HIDE DEF left, right
<1>5. Len(t) - Cardinality(left) \in Nat
      /\ Len(t) \in Len(t) - Cardinality(left) .. Len(t)
      /\ Cardinality(right) \in 0..Len(t)
  BY <1>1, <1>3
<1>6. /\ SkipLeft(t, c) \in Seq(Symbols)
      /\ Len(SkipLeft(t, c)) = Len(t) - (Len(t) - Cardinality(left))
  BY <1>4, <1>5, PartProperties
<1>7. SkipRight(t, c) \in Seq(Symbols) /\ Len(SkipRight(t, c)) = Cardinality(right) - 0
  BY <1>4, <1>5, PartProperties
<1>8. Len(SkipLeft(t, c)) = Cardinality(left)
  BY <1>1, <1>3, <1>6
<1>9. SkipLeft(t, c) = SubSeq(t, Len(t) - Len(SkipLeft(t, c)) + 1, Len(t))
  BY <1>4, <1>8
<1> QED
  BY <1>3, <1>6, <1>7, <1>8, <1>9

(* Counting the positions up to each of them numbers them from 1, so that  *)
(* each of the numbers has a position.                                     *)
LEMMA WithoutProperties ==
  ASSUME NEW t \in Seq(Symbols), NEW gone
  PROVE  /\ Without(t, gone) \in Seq(Symbols) /\ Len(Without(t, gone)) <= Len(t)
         /\ (\E i \in 1..Len(t) : t[i] \in gone) => Len(Without(t, gone)) <= Len(t) - 1
         /\ (\A i \in 1..Len(t) : t[i] \notin gone) => Without(t, gone) = t
<1> DEFINE left == {i \in 1..Len(t) : t[i] \notin gone}
           n == Cardinality(left)
           UpTo(i) == {j \in left : j <= i}
           count == [i \in left |-> Cardinality(UpTo(i))]
           Nth(k) == CHOOSE i \in left : Cardinality({j \in left : j <= i}) = k
<1>1. Len(t) \in Nat
  BY LenProperties
<1>2. left \in SUBSET (1..Len(t)) /\ left \subseteq Nat
  OBVIOUS
<1>3. Without(t, gone) = [k \in 1..n |-> t[Nth(k)]]
  BY DEF Without
<1>4. \A i \in left : t[i] \in Symbols
  BY <1>2, ElementOfSeq
<1>5. IsFiniteSet(left) /\ n \in Nat /\ n <= Len(t) /\ (n = Len(t) => left = 1..Len(t))
  <2> HIDE DEF left
  <2>1. IsFiniteSet(1..Len(t)) /\ Cardinality(1..Len(t)) = Len(t)
    BY <1>1, FS_Interval, SMTT(30)
  <2>2. IsFiniteSet(left) /\ n <= Len(t) /\ (n = Len(t) => left = 1..Len(t))
    BY <1>2, <2>1, FS_Subset
  <2> QED
    BY <2>2, FS_CardinalityType
<1>6. \A i \in left : /\ IsFiniteSet(UpTo(i))
                      /\ Cardinality(UpTo(i)) \in 1..n
  <2> TAKE i \in left
  <2>1. UpTo(i) \in SUBSET left /\ i \in UpTo(i)
    BY <1>2
  <2> HIDE DEF left, UpTo
  <2>2. IsFiniteSet(UpTo(i)) /\ Cardinality(UpTo(i)) <= n
    BY <1>5, <2>1, FS_Subset
  <2>3. Cardinality(UpTo(i)) \in Nat /\ Cardinality(UpTo(i)) # 0
    BY <2>1, <2>2, FS_CardinalityType, FS_EmptySet
  <2> QED
    BY <1>5, <2>2, <2>3
<1>7. \A i, j \in left : i < j => Cardinality(UpTo(i)) # Cardinality(UpTo(j))
  <2> SUFFICES ASSUME NEW i \in left, NEW j \in left, i < j,
                      Cardinality(UpTo(i)) = Cardinality(UpTo(j))
               PROVE  FALSE
    OBVIOUS
  <2>1. UpTo(i) \in SUBSET UpTo(j) /\ j \in UpTo(j) /\ j \notin UpTo(i)
    BY <1>2
  <2> HIDE DEF left, UpTo
  <2>2. UpTo(i) = UpTo(j)
    BY <1>6, <2>1, FS_Subset
  <2> QED
    BY <2>1, <2>2
<1>8. \A k \in 1..n : \E i \in left : Cardinality(UpTo(i)) = k
  <2> HIDE DEF left, UpTo
  <2>1. count \in [left -> 1..n]
    BY <1>6
  <2>2. \A i, j \in left : count[i] = count[j] => i = j
    <3> SUFFICES ASSUME NEW i \in left, NEW j \in left, count[i] = count[j], i # j PROVE FALSE
      OBVIOUS
    <3>1. i < j \/ j < i
      BY <1>2
    <3> QED
      BY <1>7, <3>1
  <2>3. count \in Injection(left, 1..n)
    BY <2>1, <2>2 DEF Injection, IsInjective
  <2>4. IsFiniteSet(1..n) /\ Cardinality(1..n) = n
    BY <1>5, FS_Interval
  <2>5. count \in Surjection(left, 1..n)
    BY <2>3, <2>4, FS_Injection
  <2> QED
    BY <2>5 DEF Surjection
<1>9. \A k \in 1..n : Nth(k) \in left /\ Cardinality(UpTo(Nth(k))) = k
  BY <1>8
<1>10. Without(t, gone) \in Seq(Symbols) /\ Len(Without(t, gone)) = n
  <2> HIDE DEF left, n, Nth
  <2>1. \A k \in 1..n : t[Nth(k)] \in Symbols
    BY <1>4, <1>9
  <2> QED
    BY <1>3, <1>5, <2>1
<1>11. ASSUME \A i \in 1..Len(t) : t[i] \notin gone
       PROVE  Without(t, gone) = t
  <2>1. left = 1..Len(t)
    BY <1>11
  <2>2. n = Len(t)
    <3> HIDE DEF left
    <3>1. Cardinality(1..Len(t)) = Len(t)
      BY <1>1, FS_Interval, SMTT(30)
    <3> QED
      BY <2>1, <3>1
  <2>3. ASSUME NEW k \in 1..n PROVE Nth(k) = k
    <3>1. k \in left /\ Nth(k) \in left
      BY <1>9, <2>1, <2>2, <2>3
    <3>2. UpTo(k) = 1..k
      <4> HIDE DEF left
      <4> QED
        BY <1>1, <2>1, <2>2
    <3>3. Cardinality(1..k) = k
      BY FS_Interval
    <3>4. Cardinality(UpTo(k)) = k /\ Cardinality(UpTo(Nth(k))) = k
      BY <1>9, <3>2, <3>3
    <3> HIDE DEF left, Nth, UpTo, n
    <3>5. ~ (k < Nth(k)) /\ ~ (Nth(k) < k)
      BY <1>7, <3>1, <3>4
    <3>6. k \in Nat /\ Nth(k) \in Nat
      BY <1>2, <3>1
    <3> HIDE DEF Nth
    <3> QED
      BY <3>5, <3>6
  <2> HIDE DEF left, Nth, UpTo, n
  <2>4. \A k \in 1..Len(t) : Without(t, gone)[k] = t[k]
    BY <1>3, <2>2, <2>3
  <2> QED
    BY <1>10, <2>2, <2>4, SeqEqual
<1>12. (\E i \in 1..Len(t) : t[i] \in gone) => n # Len(t)
  BY <1>5
<1> HIDE DEF left, n
<1> QED
  BY <1>1, <1>5, <1>10, <1>11, <1>12

-----------------------------------------------------------------------------
(* Strings and their blocks.                                               *)

(* A string whose size may be unknown, and one that holds its text.        *)
Sane(s) == s \in Strings /\ Len(s.text) < s.cap /\ (IsLong(s) \/ s.cap = ArrSize)
Fit(s) == Sane(s) /\ s.sized /\ s.ended

(* The blocks of the heap are those of two strings.                        *)
Owns(h, a, b) ==
  /\ DOMAIN h = {a.blk, b.blk} \ {Short}
  /\ IsLong(a) => h[a.blk] = a.cap /\ a.blk # b.blk
  /\ IsLong(b) => h[b.blk] = b.cap

(* The string of a stream that is open: it is as long as it has room for.  *)
Full(s) == IsLong(s) /\ s.text # <<>> /\ Len(s.text) + 1 = s.cap

(* A long string that was emptied does not get a new block.                *)
StaysPut(s, n) == IsLong(s) /\ s.text = <<>> => n <= s.cap

LEMMA PhiProperties == Phi(0) = 0 /\ \A n \in Nat : Phi(n) \in Nat
BY DEF Phi

LEMMA OwnsBoth == \A h, a, b : Owns(h, a, b) <=> Owns(h, b, a)
BY DEF Owns, IsLong

LEMMA EmptyFits == Fit(Empty)
<1>1. <<>> \in Seq(Symbols) /\ Len(<<>>) = 0
  OBVIOUS
<1>2. Empty \in Strings
  BY <1>1, StringAssumption DEF Empty, Strings, Symbols
<1> QED
  BY <1>1, <1>2, StringAssumption DEF Fit, Sane, Empty, IsLong

LEMMA StringFields ==
  ASSUME NEW s \in Strings
  PROVE  /\ s.blk \in Blocks \cup {Short} /\ s.cap \in Nat
         /\ s.text \in Seq(Symbols) /\ Len(s.text) \in Nat
         /\ s.ended \in BOOLEAN /\ s.blank \in BOOLEAN /\ s.sized \in BOOLEAN
         /\ IsLong(s) <=> s.blk \in Blocks
<1>1. /\ s.blk \in Blocks \cup {Short} /\ s.cap \in Nat /\ s.text \in Seq(Symbols)
      /\ s.ended \in BOOLEAN /\ s.blank \in BOOLEAN /\ s.sized \in BOOLEAN
  BY DEF Strings, Symbols
<1>2. Len(s.text) \in Nat
  BY <1>1, LenProperties
<1> QED
  BY <1>1, <1>2, StringAssumption DEF IsLong

(* A new block takes the place of the old one.                             *)
LEMMA NewBlock ==
  ASSUME NEW s \in Strings, NEW o \in Strings, NEW h, NEW cap \in Nat,
         Owns(h, s, o), ~(IsLong(s) /\ s.text = <<>>)
  PROVE  LET r == ResizeBuf(s, h, cap)
         IN  /\ r.s \in Strings /\ IsLong(r.s)
             /\ r.s.text = s.text /\ r.s.cap = cap
             /\ r.s.ended /\ r.s.sized = (IsLong(s) \/ s.blank)
             /\ Owns(r.h, r.s, o)
<1> DEFINE b == CHOOSE x \in Blocks : x \notin DOMAIN h
           new == [blk |-> b, cap |-> cap, text |-> s.text, ended |-> TRUE,
                   blank |-> FALSE, sized |-> IsLong(s) \/ s.blank]
           after == Allocated(Freed(h, s.blk), b, cap)
<1>1. /\ s.blk \in Blocks \cup {Short} /\ o.blk \in Blocks \cup {Short}
      /\ s.text \in Seq(Symbols) /\ s.blank \in BOOLEAN
      /\ (IsLong(s) <=> s.blk \in Blocks) /\ (IsLong(o) <=> o.blk \in Blocks)
  BY StringFields
<1>2. DOMAIN h = {s.blk, o.blk} \ {Short}
  BY DEF Owns
<1>3. b \in Blocks /\ b \notin DOMAIN h
  <2>1. PICK x \in Blocks : x \notin {s.blk, o.blk}
    BY <1>1, BlocksAssumption
  <2> QED
    BY <1>2, <2>1
<1>4. b # s.blk /\ b # o.blk /\ b # Short
  BY <1>1, <1>2, <1>3, StringAssumption
<1>5. ResizeBuf(s, h, cap) = [s |-> new, h |-> after]
  <2>1. (IsLong(s) /\ s.text = <<>>) = FALSE
    OBVIOUS
  <2> QED
    BY <2>1 DEF ResizeBuf, Of
<1> HIDE DEF b, after
<1>6. (IsLong(s) \/ s.blank) \in BOOLEAN
  BY <1>1
<1>7. new \in Strings
  BY <1>1, <1>3, <1>6 DEF Strings, Symbols
<1>8. /\ new.blk = b /\ new.text = s.text /\ new.cap = cap /\ new.ended = TRUE
      /\ new.sized = (IsLong(s) \/ s.blank)
  OBVIOUS
<1>9. /\ DOMAIN after = {b, o.blk} \ {Short} /\ after[b] = cap
      /\ IsLong(o) => after[o.blk] = h[o.blk]
  <2>1. DOMAIN Freed(h, s.blk) = DOMAIN h \ {s.blk}
    BY DEF Freed
  <2>2. IsLong(o) => o.blk \in DOMAIN h /\ o.blk # s.blk
    BY <1>1, <1>2, StringAssumption DEF Owns, IsLong
  <2>3. DOMAIN after = (DOMAIN h \ {s.blk}) \cup {b} /\ after[b] = cap
    BY <2>1 DEF after, Allocated
  <2>4. IsLong(o) => after[o.blk] = h[o.blk]
    BY <1>4, <2>1, <2>2 DEF after, Allocated, Freed
  <2>5. (DOMAIN h \ {s.blk}) \cup {b} = {b, o.blk} \ {Short}
    <3>1. o.blk = Short \/ o.blk # s.blk
      BY <2>2 DEF IsLong
    <3> QED
      BY <1>2, <1>4, <3>1
  <2> QED
    BY <2>3, <2>4, <2>5
<1> HIDE DEF new
<1>10. IsLong(new)
  BY <1>4, <1>8 DEF IsLong
<1>11. Owns(after, new, o)
  BY <1>4, <1>8, <1>9 DEF Owns
<1> QED
  BY <1>5, <1>7, <1>8, <1>10, <1>11

LEMMA Reserved ==
  ASSUME NEW s, Sane(s), NEW o \in Strings, NEW h, NEW n \in Nat, Owns(h, s, o), StaysPut(s, n)
  PROVE  LET r == Reserve(s, h, n)
         IN  /\ Sane(r.s) /\ r.s.text = s.text /\ Owns(r.h, r.s, o)
             /\ r.s.cap >= n /\ r.s.cap >= s.cap /\ Phi(Len(s.text)) <= r.s.cap
             /\ Wanted(s, n) <= s.cap => r.s = s /\ r.h = h
             /\ Wanted(s, n) > s.cap => /\ IsLong(r.s) /\ r.s.ended
                                        /\ r.s.cap = Wanted(s, n)
                                        /\ r.s.sized = (IsLong(s) \/ s.blank)
                                        /\ s.text # <<>> \/ ~IsLong(s)
<1> DEFINE w == Wanted(s, n)
<1>1. /\ s \in Strings /\ s.cap \in Nat /\ Len(s.text) \in Nat /\ Len(s.text) < s.cap
      /\ s.text \in Seq(Symbols)
  BY StringFields DEF Sane
<1>2. /\ w \in Nat /\ w >= n /\ w >= Phi(Len(s.text))
  BY <1>1, PhiProperties, SMTT(30) DEF Wanted, Larger
<1>3. IsLong(s) /\ s.text = <<>> => w <= s.cap
  <2>1. s.text = <<>> => Len(s.text) = 0
    BY <1>1
  <2>2. s.text = <<>> => Phi(Len(s.text)) = 0
    BY <2>1, PhiProperties
  <2> QED
    BY <1>1, <2>2 DEF Wanted, Larger, StaysPut
<1>4. CASE w <= s.cap
  <2>1. Reserve(s, h, n) = [s |-> s, h |-> h]
    BY <1>1, <1>2, <1>4 DEF Reserve, Of
  <2>2. ~(w > s.cap)
    BY <1>1, <1>2, <1>4
  <2>3. Sane(s) /\ s.cap >= n /\ s.cap >= s.cap /\ Phi(Len(s.text)) <= s.cap
    <3>1. Phi(Len(s.text)) \in Nat
      BY <1>1, PhiProperties
    <3> HIDE DEF w
    <3> QED
      BY <1>1, <1>2, <1>4, <3>1
  <2> HIDE DEF w
  <2> QED
    BY <2>1, <2>2, <2>3 DEF w
<1>5. CASE w > s.cap
  <2> DEFINE r == ResizeBuf(s, h, w)
  <2>1. Reserve(s, h, n) = r
    BY <1>5 DEF Reserve
  <2>2. ~(IsLong(s) /\ s.text = <<>>)
    BY <1>1, <1>2, <1>3, <1>5
  <2>3. /\ r.s \in Strings /\ IsLong(r.s) /\ r.s.text = s.text /\ r.s.cap = w
        /\ r.s.ended /\ r.s.sized = (IsLong(s) \/ s.blank) /\ Owns(r.h, r.s, o)
    BY <1>1, <1>2, <2>2, NewBlock
  <2> HIDE DEF r, w
  <2>4. Sane(r.s)
    BY <1>1, <1>2, <1>5, <2>3 DEF Sane
  <2>5. r.s.cap >= n /\ r.s.cap >= s.cap /\ Phi(Len(s.text)) <= r.s.cap /\ ~(w <= s.cap)
    BY <1>1, <1>2, <1>5, <2>3
  <2> QED
    BY <2>1, <2>2, <2>3, <2>4, <2>5 DEF w
<1> HIDE DEF w
<1> QED
  BY <1>1, <1>2, <1>4, <1>5

LEMMA WrittenFits ==
  ASSUME NEW r, Sane(r.s), NEW o, Owns(r.h, r.s, o),
         NEW t \in Seq(Symbols), Len(t) < r.s.cap
  PROVE  LET w == Written(r, t)
         IN  /\ Fit(w.s) /\ w.s.text = t /\ w.s.cap = r.s.cap /\ w.s.blk = r.s.blk
             /\ IsLong(w.s) = IsLong(r.s)
             /\ w.h = r.h /\ Owns(w.h, w.s, o)
<1> DEFINE new == [blk |-> r.s.blk, cap |-> r.s.cap, text |-> t, ended |-> TRUE,
                   blank |-> r.s.blank /\ \A i \in 1..Len(t) : t[i] = NUL, sized |-> TRUE]
<1>1. Written(r, t) = [s |-> new, h |-> r.h]
  BY DEF Written, Of
<1>2. r.s.blk \in Blocks \cup {Short} /\ r.s.cap \in Nat /\ (IsLong(r.s) \/ r.s.cap = ArrSize)
  BY StringFields DEF Sane
<1>3. new \in Strings
  BY <1>2 DEF Strings, Symbols
<1>4. /\ new.blk = r.s.blk /\ new.cap = r.s.cap /\ new.text = t
      /\ new.ended = TRUE /\ new.sized = TRUE
  OBVIOUS
<1> HIDE DEF new
<1>5. Fit(new) /\ IsLong(new) = IsLong(r.s)
  BY <1>2, <1>3, <1>4 DEF Fit, Sane, IsLong
<1>6. Owns(r.h, new, o)
  BY <1>4 DEF Owns, IsLong
<1> QED
  BY <1>1, <1>4, <1>5, <1>6

LEMMA Resized ==
  ASSUME NEW s, Sane(s), NEW o \in Strings, NEW h, NEW n \in Nat,
         Owns(h, s, o), StaysPut(s, n + 1)
  PROVE  LET r == Resize(s, h, n)
         IN  /\ Fit(r.s) /\ Owns(r.h, r.s, o)
             /\ r.s.text = [i \in 1..n |-> IF i <= Len(s.text) THEN s.text[i] ELSE NUL]
             /\ r.s.text \in Seq(Symbols) /\ Len(r.s.text) = n
             /\ r.s.cap > n /\ r.s.cap = Reserve(s, h, n + 1).s.cap
             /\ n + 1 > s.cap => IsLong(r.s)
<1> DEFINE r == Reserve(s, h, n + 1)
           t == [i \in 1..n |-> IF i <= Len(s.text) THEN s.text[i] ELSE NUL]
<1>1. s \in Strings /\ s.cap \in Nat /\ s.text \in Seq(Symbols) /\ Len(s.text) \in Nat
  BY StringFields DEF Sane
<1>2. n + 1 \in Nat
  OBVIOUS
<1>3. /\ Sane(r.s) /\ Owns(r.h, r.s, o) /\ r.s.cap >= n + 1
      /\ Wanted(s, n + 1) <= s.cap => r.s = s
      /\ Wanted(s, n + 1) > s.cap => IsLong(r.s)
  BY <1>2, Reserved
<1>4. t \in Seq(Symbols) /\ Len(t) = n
  BY <1>1, FilledProperties
<1>5. Resize(s, h, n) = Written(r, t)
  BY DEF Resize
<1>6. Wanted(s, n + 1) >= n + 1 /\ Wanted(s, n + 1) \in Nat
  <2>1. Phi(Len(s.text)) \in Nat
    BY <1>1, PhiProperties
  <2> QED
    BY <2>1 DEF Wanted, Larger
<1> HIDE DEF r
<1>7. r.s.cap \in Nat
  BY <1>3, StringFields DEF Sane
<1>8. Len(t) < r.s.cap
  BY <1>3, <1>4, <1>7
<1> HIDE DEF t
<1>9. LET w == Written(r, t)
      IN  /\ Fit(w.s) /\ w.s.text = t /\ w.s.cap = r.s.cap /\ w.s.blk = r.s.blk
          /\ IsLong(w.s) = IsLong(r.s) /\ Owns(w.h, w.s, o)
  BY <1>3, <1>4, <1>8, WrittenFits
<1>10. n + 1 > s.cap => Wanted(s, n + 1) > s.cap
  BY <1>1, <1>6
<1> QED
  BY <1>3, <1>4, <1>5, <1>7, <1>8, <1>9, <1>10 DEF r, t

LEMMA NotMoved ==
  ASSUME NEW s, Sane(s), NEW h, NEW n \in Nat, Wanted(s, n + 1) <= s.cap
  PROVE  Resize(s, h, n).s.blk = s.blk
<1>1. s.cap \in Nat /\ Len(s.text) \in Nat
  BY StringFields DEF Sane
<1>2. Phi(Len(s.text)) \in Nat
  BY <1>1, PhiProperties
<1>3. ~(Wanted(s, n + 1) > s.cap)
  BY <1>1, <1>2 DEF Wanted, Larger
<1>4. Reserve(s, h, n + 1) = [s |-> s, h |-> h]
  BY <1>3 DEF Reserve, Of
<1> QED
  BY <1>4 DEF Resize, Written, Of

(* What most edits come to: a resize, and a text that then fits.           *)
LEMMA Rewritten ==
  ASSUME NEW s, Sane(s), NEW o \in Strings, NEW h, NEW n \in Nat,
         Owns(h, s, o), StaysPut(s, n + 1), NEW t \in Seq(Symbols), Len(t) <= n
  PROVE  LET w == Written(Resize(s, h, n), t)
         IN  Fit(w.s) /\ w.s.text = t /\ Owns(w.h, w.s, o)
<1> DEFINE r == Resize(s, h, n)
<1>1. Fit(r.s) /\ Owns(r.h, r.s, o) /\ r.s.cap > n
  BY Resized
<1> HIDE DEF r
<1>2. r.s.cap \in Nat /\ Sane(r.s)
  BY <1>1, StringFields DEF Sane, Fit
<1>3. Len(t) < r.s.cap
  BY <1>1, <1>2, LenProperties
<1>4. LET w == Written(r, t)
      IN  Fit(w.s) /\ w.s.text = t /\ Owns(w.h, w.s, o)
  BY <1>1, <1>2, <1>3, WrittenFits
<1> QED
  BY <1>4 DEF r

(* The string of a stream is its old text and NULs, as long as there is    *)
(* room for, and longer than was asked for.                                *)
LEMMA Prepared ==
  ASSUME NEW s, Sane(s), s.sized, NEW o \in Strings, NEW h, NEW n \in Nat,
         Owns(h, s, o), n >= Len(s.text), IsLong(s) => s.text # <<>>,
         Wanted(s, n) > s.cap => (IsLong(s) \/ s.blank) /\ s.text # <<>>
  PROVE  LET r == Prepare(s, h, n)
         IN  /\ Fit(r.s) /\ Full(r.s) /\ Owns(r.h, r.s, o)
             /\ r.s.cap > n /\ r.s.cap > s.cap
             /\ r.s.text \in Seq(Symbols)
             /\ r.s.text = [i \in 1..Len(r.s.text) |-> IF i <= Len(s.text) THEN s.text[i] ELSE NUL]
<1> DEFINE q == Reserve(s, h, n)
           r == Resize(q.s, q.h, q.s.cap)
<1>1. s \in Strings /\ s.cap \in Nat /\ Len(s.text) \in Nat /\ Len(s.text) < s.cap
  BY StringFields DEF Sane
<1>2. StaysPut(s, n)
  BY DEF StaysPut
<1>3. /\ Sane(q.s) /\ q.s.text = s.text /\ Owns(q.h, q.s, o)
      /\ q.s.cap >= n /\ q.s.cap >= s.cap /\ Phi(Len(s.text)) <= q.s.cap
      /\ Wanted(s, n) <= s.cap => q.s = s
      /\ Wanted(s, n) > s.cap => q.s.sized = (IsLong(s) \/ s.blank)
  BY <1>2, Reserved
<1>4. Wanted(s, n) <= s.cap \/ Wanted(s, n) > s.cap
  <2>1. Phi(Len(s.text)) \in Nat
    BY <1>1, PhiProperties
  <2> QED
    BY <1>1, <2>1 DEF Wanted, Larger
<1>5. q.s.sized
  BY <1>3, <1>4
<1>6. Prepare(s, h, n) = r
  BY <1>1, <1>5 DEF Prepare
<1> HIDE DEF q
<1>7. q.s \in Strings /\ q.s.cap \in Nat
  BY <1>3, StringFields DEF Sane
<1>8. IsLong(q.s) => q.s.text # <<>>
  BY <1>3, <1>4
<1>9. StaysPut(q.s, q.s.cap + 1)
  BY <1>8 DEF StaysPut
<1>10. /\ Fit(r.s) /\ Owns(r.h, r.s, o)
       /\ r.s.text = [i \in 1..q.s.cap |-> IF i <= Len(s.text) THEN s.text[i] ELSE NUL]
       /\ r.s.text \in Seq(Symbols) /\ Len(r.s.text) = q.s.cap
       /\ r.s.cap = Reserve(q.s, q.h, q.s.cap + 1).s.cap
       /\ IsLong(r.s)
  <2>1. q.s.cap + 1 > q.s.cap
    BY <1>7
  <2> QED
    BY <1>3, <1>7, <1>9, <2>1, Resized
<1>11. Wanted(q.s, q.s.cap + 1) = q.s.cap + 1
  <2>1. Phi(Len(q.s.text)) \in Nat /\ Phi(Len(q.s.text)) <= q.s.cap
    BY <1>1, <1>3, PhiProperties
  <2> QED
    BY <1>7, <2>1 DEF Wanted, Larger
<1>12. r.s.cap = q.s.cap + 1
  <2>1. q.s.cap + 1 \in Nat /\ q.s.cap + 1 > q.s.cap
    BY <1>7
  <2>2. Reserve(q.s, q.h, q.s.cap + 1).s.cap = Wanted(q.s, q.s.cap + 1)
    BY <1>3, <1>9, <1>11, <2>1, Reserved
  <2> QED
    BY <1>10, <1>11, <2>2
<1> HIDE DEF r
<1>13. r.s.text # <<>>
  BY <1>1, <1>3, <1>7, <1>10, EmptySeq
<1>14. r.s.cap > n /\ r.s.cap > s.cap /\ Len(r.s.text) + 1 = r.s.cap
  BY <1>1, <1>3, <1>7, <1>10, <1>12
<1> QED
  BY <1>6, <1>10, <1>13, <1>14 DEF Full

LEMMA Shrunk ==
  ASSUME NEW s, Fit(s), NEW o \in Strings, NEW h, Owns(h, s, o)
  PROVE  LET r == ShrinkToFit(s, h)
         IN  Fit(r.s) /\ r.s.text = s.text /\ Owns(r.h, r.s, o)
<1> DEFINE r == ShrinkToFit(s, h)
<1>1. /\ s \in Strings /\ s.cap \in Nat /\ Len(s.text) \in Nat /\ s.text \in Seq(Symbols)
      /\ Sane(s) /\ Len(s.text) < s.cap /\ ArrSize \in Nat
  BY StringFields, StringAssumption DEF Fit, Sane
<1>2. CASE IsLong(s) /\ Len(s.text) < ArrSize
  <2> DEFINE nulls == \A i \in 1..Len(s.text) : s.text[i] = NUL
             new == [blk |-> Short, cap |-> ArrSize, text |-> s.text, ended |-> TRUE,
                     blank |-> nulls, sized |-> TRUE]
  <2>1. r = [s |-> new, h |-> Freed(h, s.blk)]
    BY <1>1, <1>2 DEF ShrinkToFit, Of
  <2>2. new \in Strings /\ new.text = s.text /\ new.cap = ArrSize /\ new.blk = Short
        /\ new.ended = TRUE /\ new.sized = TRUE
    BY <1>1 DEF Strings, Symbols
  <2> HIDE DEF new
  <2>3. Fit(new)
    BY <1>2, <2>2 DEF Fit, Sane
  <2>4. Owns(Freed(h, s.blk), new, o)
    <3>1. ~IsLong(new)
      BY <2>2 DEF IsLong
    <3>2. DOMAIN h = {s.blk, o.blk} \ {Short} /\ s.blk # o.blk /\ s.blk # Short
          /\ (IsLong(o) => h[o.blk] = o.cap)
      BY <1>2 DEF Owns, IsLong
    <3>3. DOMAIN Freed(h, s.blk) = {new.blk, o.blk} \ {Short}
      BY <2>2, <3>2 DEF Freed
    <3>4. IsLong(o) => Freed(h, s.blk)[o.blk] = o.cap
      BY <3>2 DEF Freed, IsLong
    <3> QED
      BY <3>1, <3>3, <3>4 DEF Owns
  <2> QED
    BY <2>1, <2>2, <2>3, <2>4
<1>3. CASE IsLong(s) /\ Len(s.text) >= ArrSize /\ s.cap > Len(s.text) + 1
  <2> DEFINE q == ResizeBuf(s, h, Len(s.text) + 1)
  <2>1. r = q
    BY <1>1, <1>3 DEF ShrinkToFit
  <2>2. ~(IsLong(s) /\ s.text = <<>>)
    BY <1>1, <1>3, StringAssumption
  <2>3. /\ q.s \in Strings /\ IsLong(q.s) /\ q.s.text = s.text /\ q.s.cap = Len(s.text) + 1
        /\ q.s.ended /\ q.s.sized = (IsLong(s) \/ s.blank) /\ Owns(q.h, q.s, o)
    BY <1>1, <2>2, NewBlock
  <2> HIDE DEF q
  <2>4. q.s.sized /\ q.s.ended
    BY <1>3, <2>3
  <2>5. Sane(q.s)
    BY <1>1, <2>3 DEF Sane
  <2> QED
    BY <2>1, <2>3, <2>4, <2>5 DEF Fit
<1>4. CASE /\ ~(IsLong(s) /\ Len(s.text) < ArrSize)
           /\ ~(IsLong(s) /\ Len(s.text) >= ArrSize /\ s.cap > Len(s.text) + 1)
  <2>1. r = [s |-> s, h |-> h]
    BY <1>4 DEF ShrinkToFit, Of
  <2> QED
    BY <2>1
<1> QED
  BY <1>2, <1>3, <1>4

(* pushl(): the text that is kept is not cut by the resize, whether it is  *)
(* moved before or after.                                                  *)
LEMMA LeftJoined ==
  ASSUME NEW s, Sane(s), NEW o \in Strings, NEW h, Owns(h, s, o), NEW p \in Seq(Symbols),
         StaysPut(s, Len(SkipRight(p, Slash) \o <<Slash>> \o SkipLeft(s.text, Slash)) + 1)
  PROVE  LET r == PushL(s, h, p)
         IN  /\ Fit(r.s) /\ Owns(r.h, r.s, o)
             /\ r.s.text = SkipRight(p, Slash) \o <<Slash>> \o SkipLeft(s.text, Slash)
<1> DEFINE head  == SkipRight(p, Slash)
           tail  == SkipLeft(s.text, Slash)
           size  == Len(head) + 1 + Len(tail)
           early == Len(s.text) >= size
           skip  == IF early THEN 0 ELSE Len(s.text) - Len(tail)
           moved == [i \in 1..Len(s.text) |->
                       IF early /\ i <= Len(tail) THEN tail[i] ELSE s.text[i]]
           old   == [s EXCEPT !.text = moved]
           q     == Resize(old, h, size)
           kept  == SubSeq(q.s.text, skip + 1, skip + Len(tail))
<1>1. /\ s \in Strings /\ s.cap \in Nat /\ s.text \in Seq(Symbols) /\ Len(s.text) \in Nat
      /\ Len(s.text) < s.cap /\ (IsLong(s) \/ s.cap = ArrSize)
  BY StringFields DEF Sane
<1>2. /\ head \in Seq(Symbols) /\ Len(head) \in Nat
      /\ tail \in Seq(Symbols) /\ Len(tail) \in Nat /\ Len(tail) <= Len(s.text)
      /\ tail = SubSeq(s.text, Len(s.text) - Len(tail) + 1, Len(s.text))
  <2>1. /\ head \in Seq(Symbols) /\ tail \in Seq(Symbols) /\ Len(tail) <= Len(s.text)
        /\ tail = SubSeq(s.text, Len(s.text) - Len(tail) + 1, Len(s.text))
    BY <1>1, SkippedProperties
  <2> HIDE DEF head, tail
  <2> QED
    BY <2>1, LenProperties
<1>3. PushL(s, h, p) = Written(q, head \o <<Slash>> \o kept)
  BY DEF PushL
<1>4. /\ head \o <<Slash>> \in Seq(Symbols) /\ Len(head \o <<Slash>>) = Len(head) + 1
      /\ Len(head \o <<Slash>> \o tail) = size
      /\ head \o <<Slash>> \o tail \in Seq(Symbols)
  <2>1. <<Slash>> \in Seq(Symbols) /\ Len(<<Slash>>) = 1
    BY StringAssumption DEF Symbols
  <2> HIDE DEF head, tail
  <2>2. head \o <<Slash>> \in Seq(Symbols) /\ Len(head \o <<Slash>>) = Len(head) + 1
    BY <1>2, <2>1, ConcatProperties
  <2> QED
    BY <1>2, <2>2, ConcatProperties
<1> HIDE DEF head, tail
<1>5. /\ moved \in Seq(Symbols) /\ Len(moved) = Len(s.text)
      /\ \A i \in 1..Len(s.text) :
           moved[i] = IF early /\ i <= Len(tail) THEN tail[i] ELSE s.text[i]
  <2>1. \A i \in 1..Len(s.text) :
          (IF early /\ i <= Len(tail) THEN tail[i] ELSE s.text[i]) \in Symbols
    BY <1>1, <1>2, ElementOfSeq
  <2> QED
    BY <1>1, <2>1
<1> HIDE DEF moved
<1>6. /\ old \in Strings /\ old.text = moved /\ old.cap = s.cap /\ old.blk = s.blk
  BY <1>1, <1>5 DEF Strings, Symbols
<1> HIDE DEF old
<1>7. Sane(old) /\ Owns(h, old, o)
  BY <1>1, <1>5, <1>6 DEF Sane, Owns, IsLong
<1>8. size \in Nat /\ StaysPut(old, size + 1)
  <2>1. moved = <<>> => s.text = <<>>
    BY <1>1, <1>5
  <2>2. StaysPut(s, size + 1)
    BY <1>4 DEF head, tail
  <2> QED
    BY <1>2, <1>6, <2>1, <2>2 DEF StaysPut, IsLong
<1> HIDE DEF size
<1>9. /\ Fit(q.s) /\ Owns(q.h, q.s, o) /\ q.s.cap > size
      /\ q.s.text = [i \in 1..size |-> IF i <= Len(old.text) THEN old.text[i] ELSE NUL]
      /\ q.s.text \in Seq(Symbols) /\ Len(q.s.text) = size
  BY <1>7, <1>8, Resized
<1> HIDE DEF q
<1>10. \A i \in 1..size : i <= Len(s.text) => q.s.text[i] = moved[i]
  BY <1>5, <1>6, <1>9
<1>11. kept = tail
  <2>1. skip \in Nat /\ skip + Len(tail) \in skip..Len(q.s.text)
    BY <1>1, <1>2, <1>9 DEF size
  <2>2. /\ kept \in Seq(Symbols) /\ Len(kept) = Len(tail)
        /\ \A i \in 1..Len(tail) : kept[i] = q.s.text[skip + i]
    <3> HIDE DEF skip
    <3>1. /\ kept \in Seq(Symbols) /\ Len(kept) = (skip + Len(tail)) - skip
          /\ \A i \in 1..(skip + Len(tail)) - skip : kept[i] = q.s.text[skip + i]
      BY <1>9, <2>1, PartProperties
    <3>2. (skip + Len(tail)) - skip = Len(tail)
      BY <1>2, <2>1
    <3> QED
      BY <3>1, <3>2
  <2> HIDE DEF kept
  <2>3. ASSUME NEW i \in 1..Len(tail) PROVE kept[i] = tail[i]
    <3>1. CASE early
      <4>1. kept[i] = q.s.text[i] /\ i \in 1..size /\ i \in 1..Len(s.text) /\ i <= Len(tail)
        BY <1>1, <1>2, <1>8, <2>2, <3>1 DEF size
      <4> QED
        BY <1>5, <1>10, <3>1, <4>1
    <3>2. CASE ~early
      <4> DEFINE k == Len(s.text) - Len(tail) + i
      <4>1. kept[i] = q.s.text[k] /\ k \in 1..size /\ k \in 1..Len(s.text) /\ k <= Len(s.text)
        BY <1>1, <1>2, <1>8, <2>2, <3>2 DEF size
      <4>2. moved[k] = s.text[k]
        BY <1>5, <3>2, <4>1
      <4>3. tail[i] = s.text[k]
        <5> DEFINE a == Len(s.text) - Len(tail)
        <5>1. a \in Nat /\ Len(s.text) \in a..Len(s.text) /\ i \in 1..Len(s.text) - a
          BY <1>1, <1>2
        <5>2. SubSeq(s.text, a + 1, Len(s.text))[i] = s.text[a + i]
          BY <1>1, <5>1, PartProperties
        <5> QED
          BY <1>2, <5>2
      <4> QED
        BY <1>10, <4>1, <4>2, <4>3
    <3> QED
      BY <3>1, <3>2
  <2> QED
    BY <1>2, <2>2, <2>3, SeqEqual
<1>12. Len(head \o <<Slash>> \o kept) < q.s.cap /\ head \o <<Slash>> \o kept \in Seq(Symbols)
  <2>1. Len(head \o <<Slash>> \o tail) = size
    BY <1>4 DEF size
  <2> QED
    BY <1>4, <1>9, <1>11, <2>1
<1>13. LET w == Written(q, head \o <<Slash>> \o kept)
       IN  Fit(w.s) /\ w.s.text = head \o <<Slash>> \o kept /\ Owns(w.h, w.s, o)
  <2>1. Sane(q.s)
    BY <1>9 DEF Fit
  <2> HIDE DEF kept
  <2> QED
    BY <1>9, <1>12, <2>1, WrittenFits
<1> QED
  BY <1>3, <1>11, <1>13 DEF head, tail

-----------------------------------------------------------------------------
(* The inductive invariant.                                                *)

LineSound == Fit(str) /\ line = str.text

(* The string of a stream is long, for the constructor resizes it to its   *)
(* capacity, and has as many characters as it has room for.                *)
StreamSound ==
  /\ ss \in Streams /\ Fit(ss.s)
  /\ ss.get <= ss.put /\ ss.put <= ss.s.cap
  /\ said = SubSeq(Bytes(ss.s), 1, ss.put) /\ got = ss.get
  /\ open => Full(ss.s)
  /\ ~open => ss = NoStream

IInv ==
  /\ open \in BOOLEAN /\ halted \in BOOLEAN
  /\ LineSound /\ StreamSound /\ Owns(heap, str, ss.s)

LEMMA InvTyped == IInv => TypeOK
<1> SUFFICES ASSUME IInv PROVE TypeOK
  OBVIOUS
<1> QED
  BY DEF IInv, LineSound, StreamSound, Full, Fit, Sane, TypeOK

LEMMA InvOwned == IInv => BlocksOwned
BY DEF IInv, Owns, BlocksOwned

LEMMA InvKept == IInv => StringKept /\ StreamKept
BY DEF IInv, LineSound, StreamSound, Fit, StringKept, StreamKept

LEMMA InvFields ==
  ASSUME IInv
  PROVE  /\ str \in Strings /\ ss \in Streams /\ ss.s \in Strings
         /\ Sane(str) /\ Sane(ss.s) /\ Fit(str) /\ Fit(ss.s)
         /\ str.text = line /\ line \in Seq(Symbols) /\ Len(line) \in Nat
         /\ ss.s.text \in Seq(Symbols) /\ Len(ss.s.text) \in Nat /\ ss.s.cap \in Nat
         /\ ss.put \in Nat /\ ss.get \in Nat
         /\ ss.eofg \in BOOLEAN /\ ss.fail \in BOOLEAN /\ ss.ignore \in BOOLEAN
         /\ Owns(heap, str, ss.s) /\ Owns(heap, ss.s, str)
<1>1. /\ str \in Strings /\ ss \in Streams /\ ss.s \in Strings
      /\ Sane(str) /\ Sane(ss.s) /\ Fit(str) /\ Fit(ss.s) /\ str.text = line
      /\ Owns(heap, str, ss.s)
  BY DEF IInv, LineSound, StreamSound, Fit, Sane
<1>2. /\ ss.put \in Nat /\ ss.get \in Nat
      /\ ss.eofg \in BOOLEAN /\ ss.fail \in BOOLEAN /\ ss.ignore \in BOOLEAN
  BY <1>1 DEF Streams
<1> QED
  BY <1>1, <1>2, StringFields, OwnsBoth

LEMMA InitSound == Init => IInv
<1> SUFFICES ASSUME Init PROVE IInv
  OBVIOUS
<1>1. Fit(Empty) /\ Empty \in Strings
  BY EmptyFits DEF Fit, Sane
<1>2. Empty.text = <<>> /\ Empty.blk = Short /\ Empty.cap = ArrSize
  BY DEF Empty
<1>3. NoStream \in Streams /\ NoStream.s = Empty /\ NoStream.put = 0 /\ NoStream.get = 0
  BY <1>1 DEF NoStream, Streams
<1>4. SubSeq(Bytes(Empty), 1, 0) = <<>>
  BY SubSeqEmpty
<1>5. Owns(<<>>, Empty, Empty)
  BY <1>2 DEF Owns, IsLong
<1>6. /\ str = Empty /\ ss = NoStream /\ open = FALSE /\ heap = <<>>
      /\ halted = FALSE /\ line = <<>> /\ said = <<>> /\ got = 0
  BY DEF Init
<1>7. LineSound
  BY <1>1, <1>2, <1>6 DEF LineSound
<1>8. StreamSound
  <2>1. ss \in Streams /\ Fit(ss.s) /\ ss.get <= ss.put /\ ss.put <= ss.s.cap /\ got = ss.get
    BY <1>1, <1>2, <1>3, <1>6, StringAssumption
  <2>2. said = SubSeq(Bytes(ss.s), 1, ss.put)
    BY <1>3, <1>4, <1>6
  <2> QED
    BY <1>6, <2>1, <2>2 DEF StreamSound
<1>9. Owns(heap, str, ss.s)
  BY <1>3, <1>5, <1>6
<1> QED
  BY <1>6, <1>7, <1>8, <1>9 DEF IInv

-----------------------------------------------------------------------------
(* The client's string.                                                    *)

LEMMA EditSound ==
  ASSUME IInv, NEW r, NEW meant, Edit(r, meant),
         Fit(r.s), r.s.text = meant, Owns(r.h, r.s, ss.s)
  PROVE  IInv'
<1>1. /\ str' = r.s /\ heap' = r.h /\ line' = meant
      /\ ss' = ss /\ open' = open /\ halted' = halted /\ said' = said /\ got' = got
  BY DEF Edit
<1>2. LineSound'
  BY <1>1 DEF LineSound
<1>3. StreamSound'
  BY <1>1 DEF IInv, StreamSound
<1> QED
  BY <1>1, <1>2, <1>3 DEF IInv

LEMMA PieceIsText == \A p \in Pieces : p \in Seq(Symbols) /\ Len(p) \in Nat
<1> TAKE p \in Pieces
<1>1. p \in Seq(Chars)
  BY StreamAssumption
<1>2. p \in Seq(Symbols)
  BY <1>1, SeqMonotonic DEF Symbols
<1> QED
  BY <1>2, LenProperties

LEMMA MayGrowIsStaysPut ==
  ASSUME Careful, NEW s, NEW n, MayGrow(s, n)
  PROVE  StaysPut(s, n + 1)
BY DEF MayGrow, StaysPut

(* An edit that resizes the string to what it should hold.                 *)
LEMMA RewriteSound ==
  ASSUME IInv, Careful, NEW n \in Nat, MayGrow(str, n),
         NEW t \in Seq(Symbols), Len(t) <= n,
         Edit(Written(Resize(str, heap, n), t), t)
  PROVE  IInv'
<1>1. Sane(str) /\ ss.s \in Strings /\ Owns(heap, str, ss.s) /\ StaysPut(str, n + 1)
  BY InvFields, MayGrowIsStaysPut
<1> DEFINE w == Written(Resize(str, heap, n), t)
<1>2. Fit(w.s) /\ w.s.text = t /\ Owns(w.h, w.s, ss.s)
  BY <1>1, Rewritten
<1> HIDE DEF w
<1> QED
  BY <1>2, EditSound DEF w

LEMMA AssignSound == ASSUME IInv, Careful, AssignPiece PROVE IInv'
<1>1. PICK p \in Pieces : MayGrow(str, Len(p)) /\ Edit(Assign(str, heap, p), p)
  BY DEF AssignPiece
<1>2. p \in Seq(Symbols) /\ Len(p) \in Nat /\ Len(p) <= Len(p)
  BY PieceIsText
<1> QED
  BY <1>1, <1>2, RewriteSound DEF Assign

LEMMA AppendSound == ASSUME IInv, Careful, AppendPiece PROVE IInv'
<1>1. PICK p \in Pieces : /\ MayGrow(str, Len(line) + Len(p))
                          /\ Edit(AppendTo(str, heap, p), line \o p)
  BY DEF AppendPiece
<1>2. /\ p \in Seq(Symbols) /\ Len(p) \in Nat
      /\ line \in Seq(Symbols) /\ Len(line) \in Nat /\ str.text = line
  BY PieceIsText, InvFields
<1>3. /\ line \o p \in Seq(Symbols) /\ Len(line \o p) <= Len(line) + Len(p)
      /\ Len(line) + Len(p) \in Nat
  BY <1>2
<1> QED
  BY <1>1, <1>2, <1>3, RewriteSound DEF AppendTo

LEMMA PrependSound == ASSUME IInv, Careful, PrependPiece PROVE IInv'
<1>1. PICK p \in Pieces : /\ MayGrow(str, Len(line) + Len(p))
                          /\ Edit(Prepend(str, heap, p), p \o line)
  BY DEF PrependPiece
<1>2. /\ p \in Seq(Symbols) /\ Len(p) \in Nat
      /\ line \in Seq(Symbols) /\ Len(line) \in Nat /\ str.text = line
  BY PieceIsText, InvFields
<1>3. /\ p \o line \in Seq(Symbols) /\ Len(p \o line) <= Len(line) + Len(p)
      /\ Len(line) + Len(p) \in Nat
  BY <1>2
<1> QED
  BY <1>1, <1>2, <1>3, RewriteSound DEF Prepend

(* No characters are read from a block that was freed.                     *)
LEMMA DoubleSound == ASSUME IInv, Careful, Double PROVE IInv'
<1>1. /\ Wanted(str, 2 * Len(str.text) + 1) <= str.cap
      /\ Edit(AppendSelf(str, heap), line \o line)
  BY DEF Double, MayAppendSelf
<1>2. /\ line \in Seq(Symbols) /\ Len(line) \in Nat /\ str.text = line
      /\ Sane(str) /\ ss.s \in Strings /\ Owns(heap, str, ss.s) /\ str.cap \in Nat
  BY InvFields, StringFields
<1> DEFINE n == 2 * Len(line)
           r == Resize(str, heap, n)
<1>3. /\ line \o line \in Seq(Symbols) /\ Len(line \o line) <= n /\ n \in Nat
  BY <1>2
<1>4. StaysPut(str, n + 1)
  <2>1. Phi(Len(line)) \in Nat
    BY <1>2, PhiProperties
  <2>2. n + 1 <= str.cap
    BY <1>1, <1>2, <1>3, <2>1 DEF Wanted, Larger
  <2> QED
    BY <2>2 DEF StaysPut
<1>5. r.s.blk = str.blk
  <2>1. Wanted(str, n + 1) <= str.cap
    BY <1>1, <1>2
  <2>2. n \in Nat
    BY <1>3
  <2> HIDE DEF n
  <2> QED
    BY <1>2, <2>1, <2>2, NotMoved
<1>6. AppendSelf(str, heap) = Written(r, line \o line)
  BY <1>2, <1>5 DEF AppendSelf
<1> DEFINE w == Written(r, line \o line)
<1>7. Fit(w.s) /\ w.s.text = line \o line /\ Owns(w.h, w.s, ss.s)
  BY <1>2, <1>3, <1>4, Rewritten
<1> HIDE DEF w
<1> QED
  BY <1>1, <1>6, <1>7, EditSound DEF w

LEMMA PushSound == ASSUME IInv, Careful, PushChar PROVE IInv'
<1>1. PICK c \in Chars : /\ MayGrow(str, Len(line) + 1)
                         /\ Edit(PushBack(str, heap, c), Append(line, c))
  BY DEF PushChar
<1>2. /\ line \in Seq(Symbols) /\ Len(line) \in Nat /\ str.text = line
      /\ Sane(str) /\ ss.s \in Strings /\ Owns(heap, str, ss.s)
  BY InvFields
<1> DEFINE q == Reserve(str, heap, Len(line) + 2)
           w == Written(q, Append(line, c))
<1>3. StaysPut(str, Len(line) + 2)
  <2>1. (Len(line) + 1) + 1 = Len(line) + 2
    BY <1>2
  <2>2. StaysPut(str, (Len(line) + 1) + 1)
    BY <1>1, MayGrowIsStaysPut
  <2> QED
    BY <2>1, <2>2
<1>4. Sane(q.s) /\ Owns(q.h, q.s, ss.s) /\ q.s.cap >= Len(line) + 2
  BY <1>2, <1>3, Reserved
<1>5. PushBack(str, heap, c) = w
  BY <1>2 DEF PushBack
<1> HIDE DEF q
<1>6. Append(line, c) \in Seq(Symbols) /\ Len(Append(line, c)) < q.s.cap
  <2>1. c \in Symbols
    BY DEF Symbols
  <2>2. q.s.cap \in Nat
    BY <1>4, StringFields DEF Sane
  <2> QED
    BY <1>2, <1>4, <2>1, <2>2
<1>7. Fit(w.s) /\ w.s.text = Append(line, c) /\ Owns(w.h, w.s, ss.s)
  BY <1>4, <1>6, WrittenFits
<1> HIDE DEF w
<1> QED
  BY <1>1, <1>5, <1>7, EditSound

LEMMA JoinRightSound == ASSUME IInv, Careful, JoinRight PROVE IInv'
<1> DEFINE head == SkipRight(line, Slash)
           tail(p) == SkipLeft(p, Slash)
           meant(p) == head \o <<Slash>> \o tail(p)
<1>1. PICK p \in Pieces : MayGrow(str, Len(meant(p))) /\ Edit(PushR(str, heap, p), meant(p))
  BY DEF JoinRight
<1>2. line \in Seq(Symbols) /\ str.text = line /\ p \in Seq(Symbols)
  BY InvFields, PieceIsText
<1>3. head \in Seq(Symbols) /\ tail(p) \in Seq(Symbols)
  BY <1>2, SkippedProperties
<1>4. PushR(str, heap, p) = Written(Resize(str, heap, Len(head) + 1 + Len(tail(p))), meant(p))
  BY <1>2 DEF PushR
<1> HIDE DEF head, tail
<1>5. /\ meant(p) \in Seq(Symbols) /\ Len(meant(p)) = Len(head) + 1 + Len(tail(p))
      /\ Len(meant(p)) \in Nat
  <2>1. <<Slash>> \in Seq(Symbols) /\ Len(<<Slash>>) = 1
    BY StringAssumption DEF Symbols
  <2>2. head \o <<Slash>> \in Seq(Symbols) /\ Len(head \o <<Slash>>) = Len(head) + 1
    BY <1>3, <2>1, ConcatProperties
  <2>3. meant(p) \in Seq(Symbols) /\ Len(meant(p)) = Len(head) + 1 + Len(tail(p))
    BY <1>3, <2>2, ConcatProperties
  <2> QED
    BY <2>3, LenProperties
<1> HIDE DEF meant
<1> QED
  BY <1>1, <1>4, <1>5, RewriteSound

LEMMA JoinLeftSound == ASSUME IInv, Careful, JoinLeft PROVE IInv'
<1> DEFINE meant(p) == SkipRight(p, Slash) \o <<Slash>> \o SkipLeft(line, Slash)
<1>1. PICK p \in Pieces : MayGrow(str, Len(meant(p))) /\ Edit(PushL(str, heap, p), meant(p))
  BY DEF JoinLeft
<1>2. /\ str.text = line /\ p \in Seq(Symbols)
      /\ Sane(str) /\ ss.s \in Strings /\ Owns(heap, str, ss.s)
  BY InvFields, PieceIsText
<1>3. StaysPut(str, Len(meant(p)) + 1)
  BY <1>1, MayGrowIsStaysPut
<1> DEFINE r == PushL(str, heap, p)
<1>4. Fit(r.s) /\ Owns(r.h, r.s, ss.s) /\ r.s.text = meant(p)
  BY <1>2, <1>3, LeftJoined, SMTT(30)
<1> HIDE DEF r, meant
<1> QED
  BY <1>1, <1>4, EditSound DEF r

LEMMA EraseSound == ASSUME IInv, Careful, EraseChar PROVE IInv'
<1>1. PICK c \in Chars : Edit(Erase(str, heap, {c}), Without(line, {c}))
  BY DEF EraseChar
<1>2. /\ line \in Seq(Symbols) /\ str.text = line /\ Len(line) \in Nat
      /\ Sane(str) /\ Fit(str) /\ ss.s \in Strings /\ Owns(heap, str, ss.s)
  BY InvFields
<1>3. CASE \A i \in 1..Len(line) : line[i] \notin {c}
  <2>1. Erase(str, heap, {c}) = [s |-> str, h |-> heap]
    BY <1>2, <1>3 DEF Erase, Of
  <2>2. Without(line, {c}) = line
    BY <1>2, <1>3, WithoutProperties
  <2> QED
    BY <1>1, <1>2, <2>1, <2>2, EditSound
<1>4. CASE \E i \in 1..Len(line) : line[i] \in {c}
  <2>1. Erase(str, heap, {c}) = Written(Resize(str, heap, Len(line) - 1), Without(line, {c}))
    BY <1>2, <1>4 DEF Erase
  <2>2. Len(line) - 1 \in Nat /\ line # <<>>
    BY <1>2, <1>4
  <2>3. Without(line, {c}) \in Seq(Symbols) /\ Len(Without(line, {c})) <= Len(line) - 1
    BY <1>2, <1>4, WithoutProperties
  <2>4. MayGrow(str, Len(line) - 1)
    BY <1>2, <2>2 DEF MayGrow
  <2> QED
    BY <1>1, <2>1, <2>2, <2>3, <2>4, RewriteSound
<1> QED
  BY <1>3, <1>4

LEMMA ResizeSound == ASSUME IInv, Careful, ResizeLine PROVE IInv'
<1> DEFINE filled(n) == [i \in 1..n |-> IF i <= Len(line) THEN line[i] ELSE NUL]
<1>1. PICK n \in 0..MaxLine : MayGrow(str, n) /\ Edit(Resize(str, heap, n), filled(n))
  BY DEF ResizeLine
<1>2. str.text = line /\ Sane(str) /\ ss.s \in Strings /\ Owns(heap, str, ss.s) /\ n \in Nat
  BY InvFields, StreamAssumption
<1>3. StaysPut(str, n + 1)
  BY <1>1, MayGrowIsStaysPut
<1> DEFINE r == Resize(str, heap, n)
<1>4. Fit(r.s) /\ Owns(r.h, r.s, ss.s) /\ r.s.text = filled(n)
  BY <1>2, <1>3, Resized
<1> HIDE DEF r, filled
<1> QED
  BY <1>1, <1>4, EditSound DEF r

LEMMA ReserveSound == ASSUME IInv, Careful, ReserveLine PROVE IInv'
<1>1. PICK n \in {ArrSize, ArrSize + 1} :
        MayReserve(str, n) /\ Edit(Reserve(str, heap, n), line)
  BY DEF ReserveLine
<1>2. /\ str.text = line /\ Sane(str) /\ Fit(str) /\ ss.s \in Strings
      /\ Owns(heap, str, ss.s) /\ str.cap \in Nat /\ Len(line) \in Nat
  BY InvFields, StringFields
<1>3. n \in Nat /\ Phi(Len(line)) \in Nat
  BY <1>2, PhiProperties, StringAssumption
<1>4. /\ Wanted(str, n) <= str.cap \/ Wanted(str, n) > str.cap
      /\ n > str.cap => Wanted(str, n) > str.cap
  BY <1>2, <1>3 DEF Wanted, Larger
<1>5. StaysPut(str, n)
  BY <1>1, <1>2, <1>3, <1>4 DEF StaysPut, MayReserve
<1> DEFINE r == Reserve(str, heap, n)
<1>6. /\ Sane(r.s) /\ r.s.text = str.text /\ Owns(r.h, r.s, ss.s)
      /\ Wanted(str, n) <= str.cap => r.s = str
      /\ Wanted(str, n) > str.cap => r.s.ended /\ r.s.sized = (IsLong(str) \/ str.blank)
  BY <1>2, <1>3, <1>5, Reserved
<1>7. Wanted(str, n) > str.cap => IsLong(str) \/ str.blank
  BY <1>1 DEF MayReserve
<1> HIDE DEF r
<1>8. r.s.sized /\ r.s.ended
  BY <1>2, <1>4, <1>6, <1>7 DEF Fit
<1> QED
  BY <1>1, <1>2, <1>6, <1>8, EditSound DEF r, Fit

LEMMA ClearSound == ASSUME IInv, ClearLine PROVE IInv'
<1>1. Edit(Written([s |-> str, h |-> heap], <<>>), <<>>)
  BY DEF ClearLine, Clear, Of
<1>2. Sane(str) /\ Owns(heap, str, ss.s) /\ str.cap \in Nat /\ Len(line) \in Nat
      /\ Len(str.text) < str.cap /\ str.text = line
  BY InvFields, StringFields DEF Sane
<1>3. <<>> \in Seq(Symbols) /\ Len(<<>>) < str.cap
  BY <1>2
<1> DEFINE r == [s |-> str, h |-> heap]
           w == Written(r, <<>>)
<1>4. r.s = str /\ r.h = heap
  OBVIOUS
<1> HIDE DEF r
<1>5. Fit(w.s) /\ w.s.text = <<>> /\ Owns(w.h, w.s, ss.s)
  BY <1>2, <1>3, <1>4, WrittenFits
<1> HIDE DEF w
<1> QED
  BY <1>1, <1>5, EditSound DEF w, r

LEMMA ShrinkSound == ASSUME IInv, Shrink PROVE IInv'
<1> DEFINE r == ShrinkToFit(str, heap)
<1>1. Fit(str) /\ ss.s \in Strings /\ Owns(heap, str, ss.s) /\ str.text = line
  BY InvFields
<1>2. Fit(r.s) /\ r.s.text = str.text /\ Owns(r.h, r.s, ss.s)
  BY <1>1, Shrunk
<1>3. Edit(r, line)
  BY DEF Shrink
<1> HIDE DEF r
<1> QED
  BY <1>1, <1>2, <1>3, EditSound

-----------------------------------------------------------------------------
(* The stream.                                                             *)

LEMMA OpenFields ==
  ASSUME IInv, open
  PROVE  /\ Full(ss.s) /\ IsLong(ss.s) /\ ss.s.text # <<>> /\ Len(ss.s.text) + 1 = ss.s.cap
         /\ ss.get <= ss.put /\ ss.put <= ss.s.cap /\ got = ss.get
         /\ said = SubSeq(Bytes(ss.s), 1, ss.put)
         /\ said \in Seq(Symbols) /\ Len(said) = ss.put
         /\ \A i \in 1..ss.put : said[i] = Bytes(ss.s)[i]
         /\ Bytes(ss.s) \in Seq(Symbols) /\ Len(Bytes(ss.s)) = ss.s.cap
<1>1. /\ Full(ss.s) /\ IsLong(ss.s) /\ ss.s.text # <<>> /\ Len(ss.s.text) + 1 = ss.s.cap
      /\ ss.get <= ss.put /\ ss.put <= ss.s.cap /\ got = ss.get
      /\ said = SubSeq(Bytes(ss.s), 1, ss.put)
  BY DEF IInv, StreamSound, Full
<1>2. /\ ss.s.text \in Seq(Symbols) /\ ss.put \in Nat /\ ss.s.cap \in Nat
  BY InvFields
<1>3. Bytes(ss.s) \in Seq(Symbols) /\ Len(Bytes(ss.s)) = ss.s.cap
  BY <1>1, <1>2, BytesProperties
<1>4. ss.put \in 0..Len(Bytes(ss.s)) /\ 0 \in Nat
  BY <1>1, <1>2, <1>3
<1>5. /\ SubSeq(Bytes(ss.s), 0 + 1, ss.put) \in Seq(Symbols)
      /\ Len(SubSeq(Bytes(ss.s), 0 + 1, ss.put)) = ss.put - 0
      /\ \A i \in 1..ss.put - 0 : SubSeq(Bytes(ss.s), 0 + 1, ss.put)[i] = Bytes(ss.s)[0 + i]
  BY <1>3, <1>4, PartProperties
<1>6. /\ said \in Seq(Symbols) /\ Len(said) = ss.put
      /\ \A i \in 1..ss.put : said[i] = Bytes(ss.s)[i]
  BY <1>1, <1>2, <1>5
<1> QED
  BY <1>1, <1>3, <1>6

(* What a call must leave behind that changes the stream alone.            *)
LEMMA StreamStep ==
  ASSUME IInv, open, NEW st \in Streams, ss' = st,
         Fit(st.s), Full(st.s),
         st.get <= st.put, st.put <= st.s.cap,
         said' = SubSeq(Bytes(st.s), 1, st.put), got' = st.get,
         Owns(heap', str, st.s),
         UNCHANGED <<str, line, open>>, halted' \in BOOLEAN
  PROVE  IInv'
<1>1. LineSound'
  BY DEF IInv, LineSound
<1>2. StreamSound'
  BY DEF StreamSound
<1>3. Owns(heap', str', ss'.s)
  OBVIOUS
<1>4. open' \in BOOLEAN
  BY DEF IInv
<1> QED
  BY <1>1, <1>2, <1>3, <1>4 DEF IInv

(* And that moves positions or sets flags.                                 *)
LEMMA MoveSound ==
  ASSUME IInv, open, NEW st \in Streams, ss' = st, st.s = ss.s,
         st.get <= st.put, st.put <= ss.s.cap,
         said' = SubSeq(Bytes(ss.s), 1, st.put), got' = st.get,
         UNCHANGED <<str, line, open, heap>>, halted' \in BOOLEAN
  PROVE  IInv'
<1>1. Fit(ss.s) /\ Full(ss.s) /\ Owns(heap, str, ss.s)
  BY InvFields, OpenFields
<1> QED
  BY <1>1, StreamStep

LEMMA FlagSound ==
  ASSUME IInv, open, ErrG \/ ErrF \/ UNCHANGED <<ss, halted>>,
         UNCHANGED <<str, line, open, heap, said, got>>
  PROVE  IInv'
<1>1. /\ ss \in Streams /\ ss.get <= ss.put /\ ss.put <= ss.s.cap /\ halted \in BOOLEAN
      /\ said = SubSeq(Bytes(ss.s), 1, ss.put) /\ got = ss.get
  BY InvFields, OpenFields DEF IInv
<1>2. PICK st \in {ss, [ss EXCEPT !.eofg = TRUE], [ss EXCEPT !.fail = TRUE]} :
        ss' = st /\ halted' \in BOOLEAN
  BY <1>1 DEF ErrG, ErrF
<1>3. st \in Streams /\ st.s = ss.s /\ st.put = ss.put /\ st.get = ss.get
  BY <1>1, <1>2 DEF Streams
<1> QED
  BY <1>1, <1>2, <1>3, MoveSound

LEMMA PeekSound == ASSUME IInv, Peek PROVE IInv'
BY FlagSound DEF Peek

LEMMA SeekGSound == ASSUME IInv, SeekG PROVE IInv'
<1>1. PICK g \in 0..MaxText :
        /\ open /\ g <= ss.put /\ ss' = [ss EXCEPT !.get = g] /\ got' = g
        /\ UNCHANGED <<str, open, heap, halted, line, said>>
  BY DEF SeekG
<1>2. ss \in Streams /\ ss.put <= ss.s.cap /\ said = SubSeq(Bytes(ss.s), 1, ss.put)
      /\ halted \in BOOLEAN
  BY <1>1, InvFields, OpenFields DEF IInv
<1> DEFINE st == [ss EXCEPT !.get = g]
<1>3. g \in Nat
  BY StreamAssumption
<1>4. st \in Streams /\ st.s = ss.s /\ st.put = ss.put /\ st.get = g
  BY <1>2, <1>3 DEF Streams
<1>5. ss' = st
  BY <1>1
<1> HIDE DEF st
<1> QED
  BY <1>1, <1>2, <1>4, <1>5, MoveSound

LEMMA ResetSound == ASSUME IInv, Reset PROVE IInv'
<1> DEFINE st == [s |-> ss.s, put |-> 0, get |-> 0,
                  eofg |-> FALSE, fail |-> FALSE, ignore |-> ss.ignore]
<1>1. /\ open /\ ss' = st /\ said' = <<>> /\ got' = 0
      /\ UNCHANGED <<str, open, heap, halted, line>>
  BY DEF Reset
<1>2. ss.s \in Strings /\ ss.ignore \in BOOLEAN /\ ss.s.cap \in Nat /\ halted \in BOOLEAN
  BY InvFields DEF IInv
<1>3. st \in Streams /\ st.s = ss.s /\ st.put = 0 /\ st.get = 0
  BY <1>2 DEF Streams
<1>4. SubSeq(Bytes(ss.s), 1, 0) = <<>>
  BY SubSeqEmpty
<1> HIDE DEF st
<1>5. st.get <= st.put /\ st.put <= ss.s.cap /\ said' = SubSeq(Bytes(ss.s), 1, st.put)
      /\ got' = st.get
  BY <1>1, <1>2, <1>3, <1>4
<1> QED
  BY <1>1, <1>2, <1>3, <1>5, MoveSound

LEMMA ClearErrSound == ASSUME IInv, ClearErr PROVE IInv'
<1> DEFINE st == [s |-> ss.s, put |-> ss.put, get |-> ss.get,
                  eofg |-> FALSE, fail |-> FALSE, ignore |-> ss.ignore]
<1>1. /\ open /\ ss' = st /\ UNCHANGED <<str, open, heap, halted, line, said, got>>
  BY DEF ClearErr
<1>2. /\ ss \in Streams /\ ss.get <= ss.put /\ ss.put <= ss.s.cap /\ halted \in BOOLEAN
      /\ said = SubSeq(Bytes(ss.s), 1, ss.put) /\ got = ss.get
  BY <1>1, InvFields, OpenFields DEF IInv
<1>3. st \in Streams /\ st.s = ss.s /\ st.put = ss.put /\ st.get = ss.get
  BY <1>2 DEF Streams
<1> HIDE DEF st
<1> QED
  BY <1>1, <1>2, <1>3, MoveSound

LEMMA IgnoreErrSound == ASSUME IInv, IgnoreErr PROVE IInv'
<1> DEFINE st == [ss EXCEPT !.ignore = TRUE]
<1>1. open /\ ss' = st /\ UNCHANGED <<str, open, heap, halted, line, said, got>>
  BY DEF IgnoreErr
<1>2. /\ ss \in Streams /\ ss.get <= ss.put /\ ss.put <= ss.s.cap /\ halted \in BOOLEAN
      /\ said = SubSeq(Bytes(ss.s), 1, ss.put) /\ got = ss.get
  BY <1>1, InvFields, OpenFields DEF IInv
<1>3. st \in Streams /\ st.s = ss.s /\ st.put = ss.put /\ st.get = ss.get
  BY <1>2 DEF Streams
<1> HIDE DEF st
<1> QED
  BY <1>1, <1>2, <1>3, MoveSound

(* What the text from the old end to the new put position holds counts as  *)
(* written.                                                                *)
LEMMA SeekPSound == ASSUME IInv, Careful, SeekP PROVE IInv'
<1> DEFINE bytes == Bytes(ss.s)
<1>1. PICK p \in 0..MaxText :
        /\ open /\ p <= ss.s.cap /\ MaySeekP(p) /\ ss' = [ss EXCEPT !.put = p]
        /\ said' = IF p <= Len(said) THEN SubSeq(said, 1, p)
                   ELSE said \o SubSeq(bytes, Len(said) + 1, p)
        /\ UNCHANGED <<str, open, heap, halted, line, got>>
  BY DEF SeekP
<1>2. /\ ss \in Streams /\ ss.put <= ss.s.cap /\ got = ss.get /\ halted \in BOOLEAN
      /\ ss.put \in Nat /\ ss.get \in Nat /\ ss.s.cap \in Nat /\ p \in Nat
      /\ said \in Seq(Symbols) /\ Len(said) = ss.put
      /\ \A i \in 1..ss.put : said[i] = bytes[i]
      /\ bytes \in Seq(Symbols) /\ Len(bytes) = ss.s.cap
  BY <1>1, InvFields, OpenFields, StreamAssumption DEF IInv
<1> DEFINE st == [ss EXCEPT !.put = p]
<1>3. st \in Streams /\ st.s = ss.s /\ st.put = p /\ st.get = ss.get /\ ss' = st
  BY <1>1, <1>2 DEF Streams
<1>4. ss.get <= p
  BY <1>1 DEF MaySeekP
<1> HIDE DEF st, bytes
<1>5. /\ SubSeq(bytes, 1, p) \in Seq(Symbols) /\ Len(SubSeq(bytes, 1, p)) = p
      /\ \A i \in 1..p : SubSeq(bytes, 1, p)[i] = bytes[i]
  BY <1>1, <1>2, PrefixProperties
<1>6. ASSUME p <= Len(said) PROVE said' = SubSeq(bytes, 1, p)
  <2>1. said' = SubSeq(said, 1, p)
    BY <1>1, <1>6
  <2>2. /\ SubSeq(said, 1, p) \in Seq(Symbols) /\ Len(SubSeq(said, 1, p)) = p
        /\ \A i \in 1..p : SubSeq(said, 1, p)[i] = said[i]
    BY <1>2, <1>6, PrefixProperties
  <2>3. \A i \in 1..p : SubSeq(said, 1, p)[i] = SubSeq(bytes, 1, p)[i]
    BY <1>2, <1>5, <1>6, <2>2
  <2> QED
    BY <1>5, <2>1, <2>2, <2>3, SameText
<1>7. ASSUME p > Len(said) PROVE said' = SubSeq(bytes, 1, p)
  <2> DEFINE n == Len(said)
             more == SubSeq(bytes, n + 1, p)
  <2>1. n \in Nat /\ p \in n..Len(bytes) /\ ~(p <= Len(said)) /\ n = ss.put
    BY <1>1, <1>2, <1>7
  <2>2. /\ more \in Seq(Symbols) /\ Len(more) = p - n
        /\ \A i \in 1..p - n : more[i] = bytes[n + i]
    BY <1>2, <2>1, PartProperties
  <2>3. said' = said \o more
    BY <1>1, <2>1
  <2> HIDE DEF more, n
  <2>4. /\ said \o more \in Seq(Symbols) /\ Len(said \o more) = n + (p - n)
        /\ \A i \in 1 .. n + (p - n) :
             (said \o more)[i] = IF i <= n THEN said[i] ELSE more[i - n]
    <3>1. Len(said) = n
      BY DEF n
    <3>2. /\ said \o more \in Seq(Symbols) /\ Len(said \o more) = Len(said) + Len(more)
          /\ \A i \in 1 .. Len(said) + Len(more) :
               (said \o more)[i] = IF i <= Len(said) THEN said[i] ELSE more[i - Len(said)]
      BY <1>2, <2>2, JoinedProperties
    <3> QED
      BY <2>2, <3>1, <3>2
  <2>5. n + (p - n) = p
    BY <1>2, <2>1
  <2>6. ASSUME NEW i \in 1..p PROVE (said \o more)[i] = bytes[i]
    <3>1. CASE i <= n
      BY <1>2, <2>1, <2>4, <2>5, <3>1
    <3>2. CASE ~(i <= n)
      <4>1. i - n \in 1 .. p - n /\ n + (i - n) = i
        BY <2>1, <3>2
      <4>2. more[i - n] = bytes[i]
        BY <2>2, <4>1
      <4> QED
        BY <2>4, <2>5, <3>2, <4>2
    <3> QED
      BY <3>1, <3>2
  <2>7. \A i \in 1..p : (said \o more)[i] = SubSeq(bytes, 1, p)[i]
    BY <1>5, <2>6
  <2> QED
    BY <1>5, <2>3, <2>4, <2>5, <2>7, SameText
<1>8. said' = SubSeq(bytes, 1, p)
  BY <1>2, <1>6, <1>7, LenProperties
<1> QED
  BY <1>1, <1>2, <1>3, <1>4, <1>8, MoveSound DEF bytes

(* The string that the constructor prepares.                               *)
LEMMA PreparedToOpen ==
  ASSUME Careful, NEW s, Fit(s), NEW o \in Strings, NEW h, Owns(h, s, o), MayStream(s)
  PROVE  LET r == Prepare(s, h, s.cap)
         IN  Fit(r.s) /\ Full(r.s) /\ Owns(r.h, r.s, o)
<1>1. /\ s \in Strings /\ s.cap \in Nat /\ Len(s.text) \in Nat /\ Len(s.text) < s.cap
      /\ Sane(s) /\ s.sized /\ s.sized \in BOOLEAN /\ s.blank \in BOOLEAN
  BY StringFields DEF Fit, Sane
<1>2. IsLong(s) => s.text # <<>>
  BY DEF MayStream
<1> DEFINE n == s.cap
<1>3. n \in Nat /\ n >= Len(s.text)
  BY <1>1
<1>4. Wanted(s, n) > s.cap => (IsLong(s) \/ s.blank) /\ s.text # <<>>
  <2>1. s.text = <<>> => Len(s.text) = 0
    OBVIOUS
  <2>2. s.text = <<>> => ~(Wanted(s, s.cap) > s.cap)
    <3>1. s.text = <<>> => Phi(Len(s.text)) = 0
      BY <2>1, PhiProperties
    <3> QED
      BY <1>1, <3>1 DEF Wanted, Larger
  <2>3. Wanted(s, s.cap) > s.cap => IsLong(s) \/ s.blank
    BY DEF MayStream, MayReserve
  <2> QED
    BY <2>2, <2>3
<1> HIDE DEF n
<1>5. LET r == Prepare(s, h, n)
      IN  Fit(r.s) /\ Full(r.s) /\ Owns(r.h, r.s, o)
  BY <1>1, <1>2, <1>3, <1>4, Prepared
<1> QED
  BY <1>5 DEF n

(* The constructor, whatever the string of the stream is made from.        *)
LEMMA Opened ==
  ASSUME IInv, Careful, ~open, NEW own, NEW rest,
         Fit(own.s), Fit(rest), Owns(own.h, own.s, rest), MayStream(own.s),
         ss' = [s |-> Prepare(own.s, own.h, own.s.cap).s, put |-> 0, get |-> 0,
                eofg |-> FALSE, fail |-> FALSE, ignore |-> FALSE],
         heap' = Prepare(own.s, own.h, own.s.cap).h,
         halted' \in BOOLEAN, str' = rest, line' = rest.text, open' = TRUE,
         UNCHANGED <<said, got>>
  PROVE  IInv'
<1> DEFINE s == own.s
           r == Prepare(s, own.h, s.cap)
           st == [s |-> r.s, put |-> 0, get |-> 0,
                  eofg |-> FALSE, fail |-> FALSE, ignore |-> FALSE]
<1>4. Fit(r.s) /\ Full(r.s) /\ Owns(r.h, r.s, rest)
  <2>1. rest \in Strings
    BY DEF Fit, Sane
  <2> QED
    BY <2>1, PreparedToOpen
<1>5. ss' = st /\ heap' = r.h
  BY DEF s
<1> HIDE DEF r
<1>6. r.s \in Strings /\ r.s.cap \in Nat
  BY <1>4, StringFields DEF Fit, Sane
<1>7. st \in Streams /\ st.s = r.s /\ st.put = 0 /\ st.get = 0
  BY <1>6 DEF Streams
<1> HIDE DEF st
<1>8. said = <<>> /\ got = 0
  <2>1. ss = NoStream /\ got = ss.get /\ said = SubSeq(Bytes(ss.s), 1, ss.put)
    BY DEF IInv, StreamSound
  <2>2. ss.put = 0 /\ ss.get = 0
    BY <2>1 DEF NoStream
  <2>3. SubSeq(Bytes(ss.s), 1, 0) = <<>>
    BY SubSeqEmpty
  <2> QED
    BY <2>1, <2>2, <2>3
<1>9. SubSeq(Bytes(r.s), 1, 0) = <<>>
  BY SubSeqEmpty
<1>10. StreamSound'
  <2>1. /\ ss' \in Streams /\ Fit(ss'.s) /\ ss'.get <= ss'.put /\ ss'.put <= ss'.s.cap
        /\ got' = ss'.get
    <3>1. /\ Fit(st.s) /\ st.get <= st.put /\ st.put <= st.s.cap /\ got' = st.get
      BY <1>4, <1>6, <1>7, <1>8
    <3> QED
      BY <1>5, <1>7, <3>1
  <2>2. said' = SubSeq(Bytes(ss'.s), 1, ss'.put)
    BY <1>5, <1>7, <1>8, <1>9
  <2>3. Full(ss'.s)
    BY <1>4, <1>5, <1>7
  <2> QED
    BY <2>1, <2>2, <2>3 DEF StreamSound
<1>11. LineSound'
  BY DEF LineSound
<1>12. Owns(heap', str', ss'.s)
  BY <1>4, <1>5, <1>7, OwnsBoth
<1> QED
  BY <1>10, <1>11, <1>12 DEF IInv

LEMMA OpenSound == ASSUME IInv, Careful, NEW moving \in BOOLEAN, Open(moving) PROVE IInv'
<1> DEFINE own == IF moving THEN MoveTo(Empty, heap, str) ELSE Assign(Empty, heap, str.text)
           rest == IF moving THEN MovedFrom(heap, str) ELSE str
<1>1. /\ ~open /\ MayStream(own.s)
      /\ ss' = [s |-> Prepare(own.s, own.h, own.s.cap).s, put |-> 0, get |-> 0,
                eofg |-> FALSE, fail |-> FALSE, ignore |-> FALSE]
      /\ heap' = Prepare(own.s, own.h, own.s.cap).h
      /\ halted' \in BOOLEAN /\ str' = rest /\ open' = TRUE
      /\ line' = (IF moving THEN <<>> ELSE line)
      /\ said' = said /\ got' = got
  BY DEF Open, NoStream
<1>2. /\ str \in Strings /\ Fit(str) /\ Sane(str) /\ str.text = line
      /\ line \in Seq(Symbols) /\ Len(line) \in Nat
      /\ Fit(Empty) /\ Sane(Empty) /\ Empty \in Strings /\ ~IsLong(Empty)
      /\ Empty.text = <<>> /\ Empty.blk = Short /\ Empty.cap = ArrSize
  BY InvFields, EmptyFits DEF Fit, Sane, Empty, IsLong
<1>3. Owns(heap, str, Empty) /\ Owns(heap, Empty, str)
  <2>1. ss.s = Empty
    BY <1>1 DEF IInv, StreamSound, NoStream
  <2> QED
    BY <2>1, InvFields
<1>4. ASSUME ~moving
      PROVE  /\ Fit(own.s) /\ Fit(rest) /\ Owns(own.h, own.s, rest)
             /\ line' = rest.text
  <2>1. StaysPut(Empty, Len(line) + 1) /\ Len(line) <= Len(line)
    BY <1>2 DEF StaysPut
  <2> DEFINE w == Written(Resize(Empty, heap, Len(line)), line)
  <2>2. Fit(w.s) /\ Owns(w.h, w.s, str)
    BY <1>2, <1>3, <2>1, Rewritten
  <2>3. own = w /\ rest = str
    BY <1>2, <1>4 DEF Assign
  <2> HIDE DEF w, own, rest
  <2> QED
    BY <1>1, <1>2, <1>4, <2>2, <2>3
<1>5. ASSUME moving, IsLong(str)
      PROVE  /\ Fit(own.s) /\ Fit(rest) /\ Owns(own.h, own.s, rest)
             /\ line' = rest.text
  <2>1. own = [s |-> str, h |-> Freed(heap, Short)] /\ rest = Empty
    BY <1>2, <1>5 DEF MoveTo, MovedFrom, Of
  <2>2. Owns(Freed(heap, Short), str, Empty)
    <3>1. DOMAIN heap = {str.blk, Short} \ {Short} /\ heap[str.blk] = str.cap
          /\ str.blk # Short
      BY <1>2, <1>3, <1>5 DEF Owns, IsLong
    <3>2. DOMAIN Freed(heap, Short) = {str.blk, Short} \ {Short}
      BY <3>1 DEF Freed
    <3>3. Freed(heap, Short)[str.blk] = str.cap
      BY <3>1 DEF Freed
    <3> QED
      BY <1>2, <3>1, <3>2, <3>3 DEF Owns
  <2> HIDE DEF own, rest
  <2> QED
    BY <1>1, <1>2, <1>5, <2>1, <2>2
<1>6. ASSUME moving, ~IsLong(str)
      PROVE  /\ Fit(own.s) /\ Fit(rest) /\ Owns(own.h, own.s, rest)
             /\ line' = rest.text
  <2> DEFINE q == [s |-> Empty, h |-> heap]
             w == Written(q, line)
             q2 == [s |-> str, h |-> heap]
             w2 == Written(q2, <<>>)
  <2>1. own = w /\ rest = w2.s
    BY <1>2, <1>6 DEF MoveTo, MovedFrom, Of
  <2>2. q.s = Empty /\ q.h = heap /\ q2.s = str /\ q2.h = heap
    OBVIOUS
  <2>3. Len(line) < ArrSize /\ <<>> \in Seq(Symbols) /\ Len(<<>>) = 0 /\ str.cap = ArrSize
    BY <1>2, <1>6 DEF Sane
  <2> HIDE DEF q, q2
  <2>4. Fit(w.s) /\ w.s.blk = Short /\ w.h = heap
    <3>1. Sane(q.s) /\ Owns(q.h, q.s, str) /\ Len(line) < q.s.cap
      BY <1>2, <1>3, <2>2, <2>3
    <3>2. Fit(w.s) /\ w.s.blk = q.s.blk /\ w.h = q.h
      BY <1>2, <3>1, WrittenFits
    <3> QED
      BY <1>2, <2>2, <3>2
  <2>5. Fit(w2.s) /\ w2.s.text = <<>> /\ w2.s.blk = str.blk
    <3>1. Sane(q2.s) /\ Owns(q2.h, q2.s, Empty) /\ Len(<<>>) < q2.s.cap
      BY <1>2, <1>3, <2>2, <2>3, StringAssumption
    <3>2. Fit(w2.s) /\ w2.s.text = <<>> /\ w2.s.blk = q2.s.blk
      BY <2>3, <3>1, WrittenFits
    <3> QED
      BY <2>2, <3>2
  <2> HIDE DEF w, w2
  <2>6. Owns(heap, w.s, w2.s)
    <3>1. str.blk = Short
      BY <1>6 DEF IsLong
    <3>2. DOMAIN heap = {Short, Short} \ {Short}
      BY <1>2, <1>3, <3>1 DEF Owns
    <3> QED
      BY <2>4, <2>5, <3>1, <3>2 DEF Owns, IsLong
  <2> HIDE DEF own, rest
  <2> QED
    BY <1>1, <1>6, <2>1, <2>4, <2>5, <2>6
<1>7. /\ Fit(own.s) /\ Fit(rest) /\ Owns(own.h, own.s, rest) /\ line' = rest.text
  BY <1>4, <1>5, <1>6
<1> HIDE DEF own, rest
<1> QED
  BY <1>1, <1>7, Opened

LEMMA CloseSound == ASSUME IInv, Close PROVE IInv'
<1>1. /\ open /\ heap' = Freed(heap, ss.s.blk) /\ ss' = NoStream /\ open' = FALSE
      /\ said' = <<>> /\ got' = 0 /\ UNCHANGED <<str, halted, line>>
  BY DEF Close
<1>2. /\ Owns(heap, str, ss.s) /\ IsLong(ss.s) /\ halted \in BOOLEAN
  BY <1>1, InvFields, OpenFields DEF IInv
<1>3. /\ Fit(Empty) /\ Empty \in Strings /\ Empty.blk = Short /\ ~IsLong(Empty)
      /\ Empty.cap \in Nat
  BY EmptyFits, StringFields DEF Fit, Sane, Empty, IsLong
<1>4. /\ NoStream \in Streams /\ NoStream.s = Empty /\ NoStream.put = 0 /\ NoStream.get = 0
  BY <1>3 DEF NoStream, Streams
<1>5. Owns(Freed(heap, ss.s.blk), str, Empty)
  <2>1. DOMAIN heap = {str.blk, ss.s.blk} \ {Short} /\ ss.s.blk # Short
        /\ (str.blk = Short \/ str.blk # ss.s.blk)
        /\ (IsLong(str) => heap[str.blk] = str.cap)
    BY <1>2 DEF Owns, IsLong
  <2>2. DOMAIN Freed(heap, ss.s.blk) = {str.blk, Short} \ {Short}
    BY <2>1 DEF Freed
  <2>3. IsLong(str) => Freed(heap, ss.s.blk)[str.blk] = str.cap
    BY <2>1 DEF Freed, IsLong
  <2> QED
    BY <1>3, <2>2, <2>3 DEF Owns, IsLong
<1>6. SubSeq(Bytes(Empty), 1, 0) = <<>>
  BY SubSeqEmpty
<1>7. StreamSound'
  <2>1. /\ ss' \in Streams /\ Fit(ss'.s) /\ ss'.get <= ss'.put /\ ss'.put <= ss'.s.cap
        /\ got' = ss'.get
    BY <1>1, <1>3, <1>4
  <2>2. said' = SubSeq(Bytes(ss'.s), 1, ss'.put)
    BY <1>1, <1>4, <1>6
  <2> QED
    BY <1>1, <2>1, <2>2 DEF StreamSound
<1>8. LineSound'
  BY <1>1 DEF IInv, LineSound
<1>9. Owns(heap', str', ss'.s)
  BY <1>1, <1>4, <1>5
<1> QED
  BY <1>1, <1>2, <1>7, <1>8, <1>9 DEF IInv

-----------------------------------------------------------------------------
(* Writing.                                                                *)

(* A stream that grows keeps its characters, and has NULs after them.      *)
LEMMA Grown ==
  ASSUME IInv, open, NEW n \in Nat, n > Len(ss.s.text)
  PROVE  LET r == Prepare(ss.s, heap, n)
         IN  /\ Fit(r.s) /\ Full(r.s) /\ Owns(r.h, r.s, str)
             /\ r.s.cap > n /\ r.s.cap > ss.s.cap
             /\ \A i \in 1..ss.s.cap : Bytes(r.s)[i] = Bytes(ss.s)[i]
<1> DEFINE s == ss.s
           r == Prepare(s, heap, n)
<1>1. /\ Sane(s) /\ s.sized /\ str \in Strings /\ Owns(heap, s, str)
      /\ IsLong(s) /\ s.text # <<>> /\ Len(s.text) + 1 = s.cap
      /\ s.text \in Seq(Symbols) /\ Len(s.text) \in Nat /\ s.cap \in Nat
  BY InvFields, OpenFields DEF Fit
<1> HIDE DEF s
<1>2. /\ Fit(r.s) /\ Full(r.s) /\ Owns(r.h, r.s, str)
      /\ r.s.cap > n /\ r.s.cap > s.cap /\ r.s.text \in Seq(Symbols)
      /\ r.s.text = [i \in 1..Len(r.s.text) |-> IF i <= Len(s.text) THEN s.text[i] ELSE NUL]
  <2>1. n >= Len(s.text) /\ (IsLong(s) => s.text # <<>>)
        /\ (Wanted(s, n) > s.cap => (IsLong(s) \/ s.blank) /\ s.text # <<>>)
    BY <1>1 DEF s
  <2> QED
    BY <1>1, <2>1, Prepared
<1> HIDE DEF r
<1>3. Len(r.s.text) \in Nat /\ Len(r.s.text) + 1 = r.s.cap /\ r.s.cap \in Nat
  BY <1>2, StringFields DEF Full, Fit, Sane
<1>4. /\ Len(Bytes(r.s)) = r.s.cap /\ \A i \in 1..Len(r.s.text) : Bytes(r.s)[i] = r.s.text[i]
  BY <1>2, <1>3, BytesProperties
<1>5. /\ \A i \in 1..Len(s.text) : Bytes(s)[i] = s.text[i]
      /\ Bytes(s)[Len(s.text) + 1] = NUL
  BY <1>1, BytesProperties
<1>6. ASSUME NEW i \in 1..s.cap PROVE Bytes(r.s)[i] = Bytes(s)[i]
  <2>1. i \in 1..Len(r.s.text)
    BY <1>1, <1>2, <1>3
  <2>2. Bytes(r.s)[i] = IF i <= Len(s.text) THEN s.text[i] ELSE NUL
    BY <1>2, <1>4, <2>1
  <2>3. CASE i <= Len(s.text)
    <3>1. i \in 1..Len(s.text)
      BY <1>1, <2>3
    <3> QED
      BY <1>5, <2>2, <2>3, <3>1
  <2>4. CASE ~(i <= Len(s.text))
    <3>1. i = Len(s.text) + 1
      BY <1>1, <2>4
    <3> QED
      BY <1>5, <2>2, <2>4, <3>1
  <2> QED
    BY <2>3, <2>4
<1> QED
  BY <1>2, <1>6 DEF r, s

LEMMA Overwritten ==
  ASSUME NEW s, Fit(s), Full(s), NEW t \in Seq(Symbols), Len(t) = Len(s.text)
  PROVE  LET w == [s EXCEPT !.text = t]
         IN  /\ Fit(w) /\ Full(w) /\ w.text = t /\ w.cap = s.cap /\ w.blk = s.blk
<1> DEFINE w == [s EXCEPT !.text = t]
<1>1. /\ s \in Strings /\ s.text \in Seq(Symbols) /\ Len(s.text) \in Nat /\ s.cap \in Nat
      /\ Len(s.text) < s.cap /\ (IsLong(s) \/ s.cap = ArrSize) /\ s.sized /\ s.ended
      /\ IsLong(s) /\ s.text # <<>> /\ Len(s.text) + 1 = s.cap
  BY StringFields DEF Fit, Sane, Full
<1>2. /\ w \in Strings /\ w.text = t /\ w.cap = s.cap /\ w.blk = s.blk
      /\ w.ended = s.ended /\ w.sized = s.sized
  BY <1>1 DEF Strings, Symbols
<1> HIDE DEF w
<1>3. IsLong(w) /\ t # <<>>
  <2>1. Len(s.text) # 0
    BY <1>1, EmptySeq
  <2> QED
    BY <1>1, <1>2, <2>1 DEF IsLong
<1>4. Fit(w) /\ Full(w)
  BY <1>1, <1>2, <1>3 DEF Fit, Sane, Full
<1> QED
  BY <1>2, <1>4 DEF w

LEMMA OverlayProperties ==
  ASSUME NEW t \in Seq(Symbols), NEW at \in Nat, NEW p \in Seq(Symbols),
         at + Len(p) < Len(t) + 1
  PROVE  LET o == Overlay(t, at, Append(p, NUL))
         IN  /\ o \in Seq(Symbols) /\ Len(o) = Len(t)
             /\ \A i \in 1..at : o[i] = t[i]
             /\ \A i \in 1..Len(p) : o[at + i] = p[i]
<1> DEFINE q == Append(p, NUL)
           o == Overlay(t, at, q)
<1>1. Len(t) \in Nat /\ Len(p) \in Nat /\ NUL \in Symbols
  BY LenProperties DEF Symbols
<1>2. /\ q \in Seq(Symbols) /\ Len(q) = Len(p) + 1
      /\ \A i \in 1..Len(p) : q[i] = p[i]
  BY <1>1, AppendProperties
<1> HIDE DEF q
<1>3. o = [i \in 1..Len(t) |-> IF i \in at + 1..at + Len(q) THEN q[i - at] ELSE t[i]]
  BY DEF Overlay
<1>4. ASSUME NEW i \in 1..Len(t)
      PROVE  (IF i \in at + 1..at + Len(q) THEN q[i - at] ELSE t[i]) \in Symbols
  <2>1. t[i] \in Symbols
    BY ElementOfSeq
  <2>2. i \in at + 1..at + Len(q) => i - at \in 1..Len(q)
    BY <1>1, <1>2
  <2>3. i \in at + 1..at + Len(q) => q[i - at] \in Symbols
    BY <1>2, <2>2, ElementOfSeq
  <2> QED
    BY <2>1, <2>3
<1>5. o \in Seq(Symbols) /\ Len(o) = Len(t)
  <2> HIDE DEF o
  <2> QED
    BY <1>1, <1>3, <1>4
<1>6. \A i \in 1..at : o[i] = t[i]
  <2> HIDE DEF o
  <2> QED
    BY <1>1, <1>2, <1>3
<1>7. ASSUME NEW i \in 1..Len(p) PROVE o[at + i] = p[i]
  <2> HIDE DEF o
  <2>1. at + i \in 1..Len(t) /\ at + i \in at + 1..at + Len(q) /\ at + i - at = i
    BY <1>1, <1>2
  <2>2. o[at + i] = q[i]
    BY <1>3, <2>1
  <2> QED
    BY <1>2, <2>2
<1> QED
  BY <1>5, <1>6, <1>7 DEF q, o

LEMMA ReserveStreamSound == ASSUME IInv, ReserveStream PROVE IInv'
<1> DEFINE n == ss.s.cap + 1
           r == Prepare(ss.s, heap, n)
           st == [ss EXCEPT !.s = r.s]
<1>1. /\ open /\ ss' = st /\ heap' = r.h
      /\ UNCHANGED <<str, open, halted, line, said, got>>
  BY DEF ReserveStream
<1>2. /\ ss \in Streams /\ ss.get <= ss.put /\ ss.put <= ss.s.cap /\ halted \in BOOLEAN
      /\ said = SubSeq(Bytes(ss.s), 1, ss.put) /\ got = ss.get
      /\ ss.s.cap \in Nat /\ ss.put \in Nat /\ Len(ss.s.text) \in Nat
      /\ Len(ss.s.text) + 1 = ss.s.cap
      /\ said \in Seq(Symbols) /\ Len(said) = ss.put
      /\ \A i \in 1..ss.put : said[i] = Bytes(ss.s)[i]
  BY <1>1, InvFields, OpenFields DEF IInv
<1>3. n \in Nat /\ n > Len(ss.s.text)
  BY <1>2
<1> HIDE DEF n
<1>4. /\ Fit(r.s) /\ Full(r.s) /\ Owns(r.h, r.s, str) /\ r.s.cap > ss.s.cap
      /\ \A i \in 1..ss.s.cap : Bytes(r.s)[i] = Bytes(ss.s)[i]
  BY <1>1, <1>3, Grown
<1> HIDE DEF r
<1>5. /\ r.s \in Strings /\ r.s.cap \in Nat /\ r.s.text \in Seq(Symbols)
      /\ Len(r.s.text) + 1 = r.s.cap
  BY <1>4, StringFields DEF Fit, Sane, Full
<1>6. st \in Streams /\ st.s = r.s /\ st.put = ss.put /\ st.get = ss.get
  BY <1>2, <1>5 DEF Streams
<1>7. Bytes(r.s) \in Seq(Symbols) /\ Len(Bytes(r.s)) = r.s.cap
  BY <1>5, BytesProperties
<1>8. /\ SubSeq(Bytes(r.s), 1, ss.put) \in Seq(Symbols)
      /\ Len(SubSeq(Bytes(r.s), 1, ss.put)) = ss.put
      /\ \A i \in 1..ss.put : SubSeq(Bytes(r.s), 1, ss.put)[i] = Bytes(r.s)[i]
  <2>1. ss.put <= Len(Bytes(r.s))
    BY <1>2, <1>4, <1>5, <1>7, SMTT(30)
  <2> QED
    BY <1>2, <1>7, <2>1, PrefixProperties
<1>9. \A i \in 1..ss.put : said[i] = SubSeq(Bytes(r.s), 1, ss.put)[i]
  BY <1>2, <1>4, <1>8
<1>10. said = SubSeq(Bytes(r.s), 1, ss.put)
  BY <1>2, <1>8, <1>9, SameText
<1>11. /\ st.get <= st.put /\ st.put <= st.s.cap /\ got' = st.get
       /\ said' = SubSeq(Bytes(st.s), 1, st.put) /\ Fit(st.s) /\ Full(st.s)
  BY <1>1, <1>2, <1>4, <1>5, <1>6, <1>10
<1>12. Owns(heap', str, st.s)
  BY <1>1, <1>4, <1>6, OwnsBoth
<1> HIDE DEF st
<1> QED
  BY <1>1, <1>2, <1>6, <1>11, <1>12, StreamStep

(* The text is written where the put position is, in a string that has     *)
(* room for it and for its terminator.                                     *)
LEMMA PutSound ==
  ASSUME IInv, open, NEW p \in Seq(Symbols), Put(p), said' = said \o p,
         UNCHANGED <<str, open, halted, line, got>>
  PROVE  IInv'
<1> DEFINE need == ss.put + Len(p) + 1
           r == IF need > ss.s.cap THEN Prepare(ss.s, heap, need) ELSE Of(ss.s, heap)
           text == Overlay(r.s.text, ss.put, Append(p, NUL))
           w == [r.s EXCEPT !.text = text]
           st == [s |-> w, put |-> ss.put + Len(p), get |-> ss.get,
                  eofg |-> ss.eofg, fail |-> ss.fail, ignore |-> ss.ignore]
<1>1. ss' = st /\ heap' = r.h
  BY DEF Put
<1>2. /\ ss.get <= ss.put /\ ss.put <= ss.s.cap /\ halted \in BOOLEAN
      /\ Fit(ss.s) /\ Full(ss.s) /\ Owns(heap, ss.s, str) /\ got = ss.get
      /\ ss.s.cap \in Nat /\ ss.put \in Nat /\ ss.get \in Nat /\ Len(ss.s.text) \in Nat
      /\ ss.eofg \in BOOLEAN /\ ss.fail \in BOOLEAN /\ ss.ignore \in BOOLEAN
      /\ Len(ss.s.text) + 1 = ss.s.cap
      /\ said \in Seq(Symbols) /\ Len(said) = ss.put
      /\ \A i \in 1..ss.put : said[i] = Bytes(ss.s)[i]
  BY InvFields, OpenFields DEF IInv
<1>3. Len(p) \in Nat /\ need \in Nat
  BY <1>2, LenProperties
<1>4. /\ Fit(r.s) /\ Full(r.s) /\ Owns(r.h, r.s, str) /\ r.s.cap >= need
      /\ \A i \in 1..ss.put : Bytes(r.s)[i] = Bytes(ss.s)[i]
  <2>1. ASSUME need > ss.s.cap
        PROVE  /\ Fit(r.s) /\ Full(r.s) /\ Owns(r.h, r.s, str) /\ r.s.cap >= need
               /\ \A i \in 1..ss.put : Bytes(r.s)[i] = Bytes(ss.s)[i]
    <3> DEFINE q == Prepare(ss.s, heap, need)
    <3>1. r = q /\ need > Len(ss.s.text) /\ 1..ss.put \subseteq 1..ss.s.cap
      BY <1>2, <1>3, <2>1
    <3> HIDE DEF need
    <3>2. /\ Fit(q.s) /\ Full(q.s) /\ Owns(q.h, q.s, str) /\ q.s.cap > need
          /\ \A i \in 1..ss.s.cap : Bytes(q.s)[i] = Bytes(ss.s)[i]
      BY <1>3, <3>1, Grown
    <3> HIDE DEF q
    <3>3. q.s.cap \in Nat
      BY <3>2, StringFields DEF Fit, Sane
    <3> HIDE DEF r
    <3> QED
      BY <1>3, <3>1, <3>2, <3>3
  <2>2. ASSUME ~(need > ss.s.cap)
        PROVE  /\ Fit(r.s) /\ Full(r.s) /\ Owns(r.h, r.s, str) /\ r.s.cap >= need
               /\ \A i \in 1..ss.put : Bytes(r.s)[i] = Bytes(ss.s)[i]
    <3>1. r.s = ss.s /\ r.h = heap
      BY <2>2 DEF Of
    <3> HIDE DEF r
    <3> QED
      BY <1>2, <1>3, <2>2, <3>1
  <2> QED
    BY <2>1, <2>2
<1> HIDE DEF r
<1>5. /\ r.s.cap \in Nat /\ r.s.text \in Seq(Symbols) /\ Len(r.s.text) \in Nat
      /\ Len(r.s.text) + 1 = r.s.cap
  BY <1>4, StringFields DEF Fit, Sane, Full
<1>6. /\ ss.put + Len(p) < Len(r.s.text) + 1 /\ ss.put + Len(p) <= r.s.cap
      /\ ss.put + Len(p) \in Nat
  <2>1. r.s.cap >= ss.put + Len(p) + 1
    BY <1>4
  <2> QED
    BY <1>2, <1>3, <1>5, <2>1
<1>7. /\ text \in Seq(Symbols) /\ Len(text) = Len(r.s.text)
      /\ \A i \in 1..ss.put : text[i] = r.s.text[i]
      /\ \A i \in 1..Len(p) : text[ss.put + i] = p[i]
  BY <1>2, <1>5, <1>6, OverlayProperties, ZenonT(30)
<1> HIDE DEF text
<1>8. Fit(w) /\ Full(w) /\ w.text = text /\ w.cap = r.s.cap /\ w.blk = r.s.blk
  BY <1>4, <1>7, Overwritten
<1> HIDE DEF w
<1>9. w \in Strings
  BY <1>8 DEF Fit, Sane
<1>10. st \in Streams /\ st.s = w /\ st.put = ss.put + Len(p) /\ st.get = ss.get
  BY <1>2, <1>6, <1>9 DEF Streams
<1> HIDE DEF st
<1> DEFINE m == ss.put + Len(p)
<1>11. /\ Bytes(w) \in Seq(Symbols) /\ Len(Bytes(w)) = r.s.cap
       /\ \A i \in 1..Len(text) : Bytes(w)[i] = text[i]
  BY <1>5, <1>7, <1>8, BytesProperties
<1>12. /\ SubSeq(Bytes(w), 1, m) \in Seq(Symbols) /\ Len(SubSeq(Bytes(w), 1, m)) = m
       /\ \A i \in 1..m : SubSeq(Bytes(w), 1, m)[i] = Bytes(w)[i]
  <2> HIDE DEF m
  <2>1. m \in Nat /\ m <= Len(Bytes(w))
    BY <1>6, <1>11 DEF m
  <2> QED
    BY <1>11, <2>1, PrefixProperties
<1>13. /\ said \o p \in Seq(Symbols) /\ Len(said \o p) = m
       /\ \A i \in 1..m : (said \o p)[i] = IF i <= ss.put THEN said[i] ELSE p[i - ss.put]
  <2>1. /\ said \o p \in Seq(Symbols) /\ Len(said \o p) = Len(said) + Len(p)
        /\ \A i \in 1 .. Len(said) + Len(p) :
             (said \o p)[i] = IF i <= Len(said) THEN said[i] ELSE p[i - Len(said)]
    BY <1>2, JoinedProperties
  <2>2. Len(said) = ss.put
    BY <1>2
  <2> QED
    BY <2>1, <2>2
<1>14. ASSUME NEW i \in 1..m PROVE (said \o p)[i] = SubSeq(Bytes(w), 1, m)[i]
  <2>1. i \in 1..Len(text)
    BY <1>3, <1>5, <1>6, <1>7
  <2>2. SubSeq(Bytes(w), 1, m)[i] = text[i]
    BY <1>11, <1>12, <2>1
  <2>3. CASE i <= ss.put
    <3>1. i \in 1..ss.put /\ i \in 1..Len(r.s.text)
      BY <1>2, <1>7, <2>1, <2>3
    <3>2. Bytes(r.s)[i] = r.s.text[i]
      BY <1>5, <3>1, BytesProperties
    <3>3. (said \o p)[i] = said[i]
      BY <1>13, <2>3
    <3> QED
      BY <1>2, <1>4, <1>7, <2>2, <3>1, <3>2, <3>3
  <2>4. CASE ~(i <= ss.put)
    <3>1. i - ss.put \in 1..Len(p) /\ ss.put + (i - ss.put) = i
      BY <1>2, <1>3, <2>4
    <3>2. text[i] = p[i - ss.put]
      BY <1>7, <3>1
    <3>3. (said \o p)[i] = p[i - ss.put]
      BY <1>13, <2>4
    <3> QED
      BY <2>2, <3>2, <3>3
  <2> QED
    BY <2>3, <2>4
<1>15. said \o p = SubSeq(Bytes(w), 1, m)
  <2> HIDE DEF m
  <2> QED
    BY <1>12, <1>13, <1>14, SameText
<1>16. Owns(heap', str, st.s)
  <2>1. Owns(r.h, w, str)
    BY <1>4, <1>8 DEF Owns, IsLong
  <2> QED
    BY <1>1, <1>10, <2>1, OwnsBoth
<1>17. /\ st.get <= st.put /\ st.put <= st.s.cap /\ got' = st.get
       /\ said' = SubSeq(Bytes(st.s), 1, st.put) /\ Fit(st.s) /\ Full(st.s)
  BY <1>2, <1>3, <1>6, <1>8, <1>10, <1>15
<1> QED
  BY <1>1, <1>2, <1>10, <1>16, <1>17, StreamStep

LEMMA WriteSound == ASSUME IInv, WritePiece PROVE IInv'
<1>1. PICK p \in Pieces \cup {str.text, <<>>} :
        /\ open /\ said' = said \o p /\ UNCHANGED <<str, open, halted, line, got>>
        /\ \/ p = <<>> /\ UNCHANGED <<ss, heap>>
           \/ Put(p)
  BY DEF WritePiece
<1>2. p \in Seq(Symbols)
  <2>1. str.text \in Seq(Symbols)
    BY InvFields
  <2>2. <<>> \in Seq(Symbols)
    OBVIOUS
  <2> QED
    BY <2>1, <2>2, PieceIsText
<1>3. CASE Put(p)
  BY <1>1, <1>2, <1>3, PutSound
<1>4. CASE p = <<>> /\ UNCHANGED <<ss, heap>>
  <2>1. said \in Seq(Symbols)
    BY <1>1, OpenFields
  <2>2. said \o <<>> = said
    BY <2>1, ConcatEmptySeq
  <2> QED
    BY <1>1, <1>4, <2>2, FlagSound
<1> QED
  BY <1>1, <1>3, <1>4

-----------------------------------------------------------------------------
(* Reading.                                                                *)

(* What a call must leave behind that reads into the client's string.      *)
LEMMA ReadStep ==
  ASSUME IInv, open, NEW st \in Streams, ss' = st, st.s = ss.s, st.put = ss.put,
         st.get <= ss.put, got' = st.get, NEW new, str' = new,
         Fit(new), line' = new.text, Owns(heap', new, ss.s),
         UNCHANGED <<said, open>>, halted' \in BOOLEAN
  PROVE  IInv'
<1>1. /\ Fit(ss.s) /\ Full(ss.s) /\ ss.put <= ss.s.cap
      /\ said = SubSeq(Bytes(ss.s), 1, ss.put)
  BY InvFields, OpenFields
<1>2. LineSound'
  BY DEF LineSound
<1>3. StreamSound'
  BY <1>1 DEF StreamSound
<1>4. Owns(heap', str', ss'.s)
  OBVIOUS
<1>5. open' \in BOOLEAN
  BY DEF IInv
<1> QED
  BY <1>2, <1>3, <1>4, <1>5 DEF IInv

(* What is read before the put position is what was written there.         *)
LEMMA SameRead ==
  ASSUME IInv, open, NEW a \in Nat, NEW n \in Nat, a + n <= ss.put
  PROVE  LET t == SubSeq(Bytes(ss.s), a + 1, a + n)
         IN  t = SubSeq(said, a + 1, a + n) /\ t \in Seq(Symbols) /\ Len(t) = n
<1> DEFINE b == a + n
           t == SubSeq(Bytes(ss.s), a + 1, b)
           u == SubSeq(said, a + 1, b)
<1>1. /\ said \in Seq(Symbols) /\ Len(said) = ss.put /\ ss.put \in Nat
      /\ \A i \in 1..ss.put : said[i] = Bytes(ss.s)[i]
      /\ Bytes(ss.s) \in Seq(Symbols) /\ Len(Bytes(ss.s)) = ss.s.cap
      /\ ss.put <= ss.s.cap /\ ss.s.cap \in Nat
  BY InvFields, OpenFields
<1>2. b \in a..Len(said) /\ b \in a..Len(Bytes(ss.s)) /\ b - a = n
  BY <1>1
<1> HIDE DEF b
<1>3. /\ t \in Seq(Symbols) /\ Len(t) = n /\ \A i \in 1..n : t[i] = Bytes(ss.s)[a + i]
  <2>1. /\ t \in Seq(Symbols) /\ Len(t) = b - a
        /\ \A i \in 1..b - a : t[i] = Bytes(ss.s)[a + i]
    BY <1>1, <1>2, PartProperties
  <2> QED
    BY <1>2, <2>1
<1>4. /\ u \in Seq(Symbols) /\ Len(u) = n /\ \A i \in 1..n : u[i] = said[a + i]
  <2>1. /\ u \in Seq(Symbols) /\ Len(u) = b - a
        /\ \A i \in 1..b - a : u[i] = said[a + i]
    BY <1>1, <1>2, PartProperties
  <2> QED
    BY <1>2, <2>1
<1> HIDE DEF t, u
<1>5. ASSUME NEW i \in 1..n PROVE t[i] = u[i]
  <2>1. a + i \in 1..ss.put
    BY <1>1
  <2> QED
    BY <1>1, <1>3, <1>4, <2>1
<1>6. t = u
  BY <1>3, <1>4, <1>5, SameText
<1> QED
  BY <1>3, <1>6 DEF t, u, b

LEMMA ReadSound == ASSUME IInv, Read PROVE IInv'
<1> DEFINE n == Len(str.text)
           t == SubSeq(Bytes(ss.s), ss.get + 1, ss.get + n)
           new == [blk |-> str.blk, cap |-> str.cap, text |-> t, ended |-> str.ended,
                   blank |-> str.blank /\ \A i \in 1..n : t[i] = NUL,
                   sized |-> str.sized]
           st == [ss EXCEPT !.get = @ + n]
<1>1. open /\ UNCHANGED <<open, heap, said>>
  BY DEF Read
<1>2. CASE (ErrG \/ UNCHANGED <<ss, halted>>) /\ UNCHANGED <<str, line, got>>
  BY <1>1, <1>2, FlagSound
<1>3. CASE /\ n <= Remg /\ ss' = st /\ got' = got + n /\ UNCHANGED halted
           /\ str' = new /\ line' = SubSeq(said, got + 1, got + n)
  <2>1. /\ ss \in Streams /\ ss.put \in Nat /\ ss.get \in Nat /\ got = ss.get /\ n \in Nat
        /\ Fit(str) /\ Sane(str) /\ halted \in BOOLEAN
    BY <1>1, InvFields, OpenFields, LenProperties DEF IInv
  <2>2. ss.get + n <= ss.put
    BY <1>3, <2>1 DEF Remg
  <2> HIDE DEF n
  <2>3. t = SubSeq(said, ss.get + 1, ss.get + n) /\ t \in Seq(Symbols) /\ Len(t) = n
    BY <1>1, <2>1, <2>2, SameRead
  <2> HIDE DEF t
  <2>4. /\ new \in Strings /\ new.blk = str.blk /\ new.cap = str.cap /\ new.text = t
        /\ new.ended = str.ended /\ new.sized = str.sized
    <3>1. /\ str.blk \in Blocks \cup {Short} /\ str.cap \in Nat
          /\ str.ended \in BOOLEAN /\ str.sized \in BOOLEAN
          /\ (str.blank /\ \A i \in 1..n : t[i] = NUL) \in BOOLEAN
      BY InvFields, StringFields
    <3> QED
      BY <2>3, <3>1 DEF Strings, Symbols
  <2> HIDE DEF new
  <2>5. Fit(new)
    BY <2>1, <2>3, <2>4 DEF Fit, Sane, IsLong, n
  <2>6. Owns(heap', new, ss.s)
    <3>1. Owns(heap, str, ss.s)
      BY InvFields
    <3> QED
      BY <1>1, <2>4, <3>1 DEF Owns, IsLong
  <2>7. /\ st \in Streams /\ st.s = ss.s /\ st.put = ss.put /\ st.get = ss.get + n
    BY <2>1 DEF Streams
  <2> HIDE DEF st
  <2>8. st.get <= ss.put /\ got' = st.get /\ line' = new.text
    BY <1>3, <2>1, <2>2, <2>3, <2>4, <2>7
  <2> QED
    BY <1>1, <1>3, <2>1, <2>5, <2>6, <2>7, <2>8, ReadStep
<1> QED
  BY <1>2, <1>3 DEF Read

(* The positions of a run are the first after its start.                   *)
LEMMA RunProperties ==
  ASSUME NEW t \in Seq(Symbols), NEW at \in Nat, at <= Len(t), NEW class
  PROVE  LET r == RunAt(t, at, class)
         IN  /\ r \in Nat /\ at + r <= Len(t)
             /\ \A i \in at + 1..at + r : t[i] \in class
             /\ at + r < Len(t) => t[at + r + 1] \notin class
<1> DEFINE run == {n \in at + 1..Len(t) : \A i \in at + 1..n : t[i] \in class}
           r == Cardinality(run)
<1>1. Len(t) \in Nat
  BY LenProperties
<1>2. run \in SUBSET (at + 1..Len(t))
  OBVIOUS
<1>3. IsFiniteSet(run) /\ r \in Nat /\ r <= Len(t) - at
  <2> HIDE DEF run
  <2>1. IsFiniteSet(at + 1..Len(t)) /\ Cardinality(at + 1..Len(t)) = Len(t) - at
    <3>1. at + 1 \in Int /\ Len(t) \in Int
      BY <1>1
    <3>2. /\ IsFiniteSet(at + 1..Len(t))
          /\ Cardinality(at + 1..Len(t)) =
               IF at + 1 > Len(t) THEN 0 ELSE Len(t) - (at + 1) + 1
      BY <3>1, FS_Interval
    <3> QED
      BY <1>1, <3>2
  <2>2. IsFiniteSet(run) /\ r <= Len(t) - at
    BY <1>2, <2>1, FS_Subset
  <2> QED
    BY <2>2, FS_CardinalityType
<1>4. ASSUME NEW n \in run PROVE n <= at + r
  <2>1. at + 1..n \in SUBSET run
    BY <1>1
  <2>2. n \in at + 1..Len(t)
    BY <1>2
  <2> HIDE DEF run
  <2>3. Cardinality(at + 1..n) = n - at
    <3>1. at + 1 \in Int /\ n \in Int
      BY <1>1, <2>2
    <3>2. Cardinality(at + 1..n) = IF at + 1 > n THEN 0 ELSE n - (at + 1) + 1
      BY <3>1, FS_Interval
    <3> QED
      BY <1>1, <2>2, <3>2
  <2>4. Cardinality(at + 1..n) <= r
    BY <1>3, <2>1, FS_Subset
  <2> QED
    BY <1>1, <1>3, <2>2, <2>3, <2>4
<1>5. run = at + 1..at + r
  <2>1. run \in SUBSET (at + 1..at + r)
    <3> HIDE DEF r
    <3> QED
      BY <1>1, <1>3, <1>4
  <2> HIDE DEF run
  <2>2. IsFiniteSet(at + 1..at + r) /\ Cardinality(at + 1..at + r) = r
    <3> HIDE DEF r
    <3> DEFINE b == at + r
    <3>1. at + 1 \in Int /\ b \in Int
      BY <1>3
    <3> HIDE DEF b
    <3>2. /\ IsFiniteSet(at + 1..b)
          /\ Cardinality(at + 1..b) = IF at + 1 > b THEN 0 ELSE b - (at + 1) + 1
      BY <3>1, FS_Interval
    <3> QED
      BY <1>3, <3>2 DEF b
  <2> QED
    BY <2>1, <2>2, FS_Subset
<1>6. RunAt(t, at, class) = r
  BY DEF RunAt
<1>7. at + r <= Len(t)
  <2> HIDE DEF r
  <2> QED
    BY <1>1, <1>3
<1>8. ASSUME NEW i \in at + 1..at + r PROVE t[i] \in class
  <2>1. i \in run
    BY <1>5
  <2>2. i \in at + 1..i
    BY <2>1
  <2> QED
    BY <2>1, <2>2
<1>9. ASSUME at + r < Len(t), t[at + r + 1] \in class PROVE FALSE
  <2> DEFINE n == at + r + 1
  <2>1. n \in at + 1..Len(t) /\ n \notin at + 1..at + r
    <3> HIDE DEF r
    <3> QED
      BY <1>1, <1>3, <1>9
  <2>2. ASSUME NEW i \in at + 1..n PROVE t[i] \in class
    <3>1. i = n \/ i \in at + 1..at + r
      <4> HIDE DEF r
      <4> QED
        BY <1>3
    <3> QED
      BY <1>8, <1>9, <3>1
  <2>3. n \in run
    BY <2>1, <2>2
  <2> QED
    BY <1>5, <2>1, <2>3
<1> HIDE DEF r
<1> QED
  BY <1>3, <1>6, <1>7, <1>8, <1>9

(* A run that ends before the end of a prefix is the same run in there.    *)
LEMMA RunInPrefix ==
  ASSUME NEW t \in Seq(Symbols), NEW s \in Seq(Symbols), Len(s) <= Len(t),
         \A i \in 1..Len(s) : s[i] = t[i],
         NEW at \in Nat, NEW class, at + RunAt(t, at, class) <= Len(s)
  PROVE  RunAt(s, at, class) = RunAt(t, at, class)
<1> DEFINE r == RunAt(t, at, class)
           k == RunAt(s, at, class)
<1>1. Len(t) \in Nat /\ Len(s) \in Nat
  BY LenProperties
<1>2. at <= Len(s) /\ at <= Len(t)
  <2>1. RunAt(t, at, class) \in Nat
    <3>1. {n \in at + 1..Len(t) : \A i \in at + 1..n : t[i] \in class} \in SUBSET (at + 1..Len(t))
      OBVIOUS
    <3>2. IsFiniteSet(at + 1..Len(t))
      <4>1. at + 1 \in Int /\ Len(t) \in Int
        BY <1>1
      <4> QED
        BY <4>1, FS_Interval
    <3>3. IsFiniteSet({n \in at + 1..Len(t) : \A i \in at + 1..n : t[i] \in class})
      BY <3>1, <3>2, FS_Subset
    <3> QED
      BY <3>3, FS_CardinalityType DEF RunAt
  <2> QED
    BY <1>1, <2>1
<1>3. /\ r \in Nat /\ \A i \in at + 1..at + r : t[i] \in class
      /\ at + r < Len(t) => t[at + r + 1] \notin class
  BY <1>2, RunProperties
<1>4. /\ k \in Nat /\ at + k <= Len(s)
      /\ \A i \in at + 1..at + k : s[i] \in class
      /\ at + k < Len(s) => s[at + k + 1] \notin class
  BY <1>2, RunProperties
<1>5. at + r <= Len(s)
  OBVIOUS
<1> HIDE DEF r, k
<1>6. ~(k < r)
  <2> SUFFICES ASSUME k < r PROVE FALSE
    OBVIOUS
  <2>1. at + k + 1 \in at + 1..at + r /\ at + k < Len(s) /\ at + k + 1 \in 1..Len(s)
    BY <1>1, <1>3, <1>4, <1>5
  <2> QED
    BY <1>3, <1>4, <2>1
<1>7. ~(r < k)
  <2> SUFFICES ASSUME r < k PROVE FALSE
    OBVIOUS
  <2>1. at + r + 1 \in at + 1..at + k /\ at + r < Len(t) /\ at + r + 1 \in 1..Len(s)
    BY <1>1, <1>3, <1>4, <1>5
  <2> QED
    BY <1>3, <1>4, <2>1
<1>8. k = r
  BY <1>3, <1>4, <1>6, <1>7
<1> QED
  BY <1>8 DEF k, r

(* So is one that what follows the prefix would stop.                      *)
LEMMA RunStops ==
  ASSUME NEW t \in Seq(Symbols), NEW s \in Seq(Symbols), Len(s) < Len(t),
         \A i \in 1..Len(s) : s[i] = t[i],
         NEW at \in Nat, at <= Len(s), NEW class, t[Len(s) + 1] \notin class
  PROVE  /\ RunAt(s, at, class) = RunAt(t, at, class)
         /\ RunAt(t, at, class) \in Nat /\ at + RunAt(t, at, class) <= Len(s)
<1> DEFINE r == RunAt(t, at, class)
<1>1. Len(t) \in Nat /\ Len(s) \in Nat
  BY LenProperties
<1>2. r \in Nat /\ \A i \in at + 1..at + r : t[i] \in class
  <2>1. at <= Len(t)
    BY <1>1
  <2> QED
    BY <2>1, RunProperties
<1> HIDE DEF r
<1>3. at + r <= Len(s)
  <2> SUFFICES ASSUME ~(at + r <= Len(s)) PROVE FALSE
    OBVIOUS
  <2>1. Len(s) + 1 \in at + 1..at + r
    BY <1>1, <1>2
  <2> QED
    BY <1>2, <2>1
<1>4. RunAt(s, at, class) = RunAt(t, at, class)
  <2>1. Len(s) <= Len(t)
    BY <1>1
  <2>2. at + RunAt(t, at, class) <= Len(s)
    BY <1>3 DEF r
  <2> QED
    BY <2>1, <2>2, RunInPrefix
<1> QED
  BY <1>2, <1>3, <1>4 DEF r

(* What is known of the text before the put position.                      *)
LEMMA SaidIsPrefix ==
  ASSUME IInv, open
  PROVE  /\ said \in Seq(Symbols) /\ Bytes(ss.s) \in Seq(Symbols)
         /\ Len(said) = ss.put /\ ss.put \in Nat /\ Len(said) <= Len(Bytes(ss.s))
         /\ \A i \in 1..Len(said) : said[i] = Bytes(ss.s)[i]
         /\ got = ss.get /\ ss.get \in Nat /\ ss.get <= ss.put
         /\ ss \in Streams /\ halted \in BOOLEAN
         /\ Len(Bytes(ss.s)) = ss.s.cap /\ ss.s.cap \in Nat
<1>1. /\ said \in Seq(Symbols) /\ Len(said) = ss.put /\ ss.put \in Nat
      /\ \A i \in 1..ss.put : said[i] = Bytes(ss.s)[i]
      /\ Bytes(ss.s) \in Seq(Symbols) /\ Len(Bytes(ss.s)) = ss.s.cap
      /\ ss.put <= ss.s.cap /\ ss.s.cap \in Nat
      /\ got = ss.get /\ ss.get \in Nat /\ ss.get <= ss.put
      /\ ss \in Streams /\ halted \in BOOLEAN
  BY InvFields, OpenFields DEF IInv
<1> QED
  BY <1>1

(* A number that ends before the put position is the one that was written. *)
LEMMA NumberSound == ASSUME IInv, Careful, Number PROVE IInv'
<1> DEFINE t      == Bytes(ss.s)
           skip   == RunAt(t, ss.get, {Space})
           digits == RunAt(t, ss.get + skip, {Digit})
           first  == RunAt(said, got, {Space})
           st == [ss EXCEPT !.get = @ + skip + digits]
<1>1. open /\ MayScan /\ UNCHANGED <<str, open, heap, line, said>>
  BY DEF Number
<1>2. CASE (ErrG \/ ErrF) /\ UNCHANGED got
  BY <1>1, <1>2, FlagSound
<1>3. CASE /\ digits > 0 /\ skip + digits <= Remg /\ ss' = st
           /\ got' = got + first + RunAt(said, got + first, {Digit}) /\ UNCHANGED halted
  <2>1. /\ said \in Seq(Symbols) /\ t \in Seq(Symbols)
        /\ Len(said) = ss.put /\ ss.put \in Nat /\ Len(said) <= Len(t)
        /\ \A i \in 1..Len(said) : said[i] = t[i]
        /\ got = ss.get /\ ss.get \in Nat /\ ss.get <= ss.put
        /\ ss \in Streams /\ halted \in BOOLEAN /\ Len(t) \in Nat
    BY <1>1, SaidIsPrefix
  <2> HIDE DEF t
  <2>2. skip \in Nat /\ ss.get + skip <= Len(t)
    <3>1. ss.get <= Len(t)
      BY <2>1
    <3> QED
      BY <2>1, <3>1, RunProperties
  <2> HIDE DEF skip
  <2> DEFINE a == ss.get + skip
  <2>3. a \in Nat /\ a <= Len(t) /\ digits = RunAt(t, a, {Digit})
    BY <2>1, <2>2
  <2> HIDE DEF digits
  <2>4. digits \in Nat
    BY <2>1, <2>3, RunProperties
  <2>5. a + digits <= ss.put
    BY <1>3, <2>1, <2>2, <2>4 DEF Remg
  <2>6. first = skip
    <3>1. ss.get + RunAt(t, ss.get, {Space}) <= Len(said)
      BY <2>1, <2>2, <2>4, <2>5 DEF skip
    <3>2. RunAt(said, ss.get, {Space}) = RunAt(t, ss.get, {Space})
      BY <2>1, <3>1, RunInPrefix
    <3> QED
      BY <2>1, <3>2 DEF skip
  <2>7. RunAt(said, a, {Digit}) = digits
    <3>1. a + RunAt(t, a, {Digit}) <= Len(said)
      BY <2>1, <2>3, <2>5
    <3> HIDE DEF a
    <3> QED
      BY <2>1, <2>3, <3>1, RunInPrefix
  <2>8. got' = a + digits
    BY <1>3, <2>1, <2>6, <2>7
  <2>9. ss.get + skip + digits \in Nat
    BY <2>1, <2>2, <2>4
  <2>10. st \in Streams /\ st.s = ss.s /\ st.put = ss.put /\ st.get = a + digits
    BY <2>1, <2>9 DEF Streams
  <2> HIDE DEF st, a
  <2>11. /\ st.get <= st.put /\ st.put <= ss.s.cap /\ got' = st.get
         /\ said' = SubSeq(Bytes(ss.s), 1, st.put)
    BY <1>1, <2>5, <2>8, <2>10, OpenFields
  <2> QED
    BY <1>1, <1>3, <2>1, <2>10, <2>11, MoveSound
<1> QED
  BY <1>2, <1>3 DEF Number

(* A word ends where a space was written, or at the put position, where a  *)
(* NUL stops the peek; the space before it does too.                       *)
LEMMA WordSound == ASSUME IInv, Careful, Word PROVE IInv'
<1> DEFINE t     == Bytes(ss.s)
           skip  == RunAt(t, ss.get, {Space})
           size  == Least(RunAt(t, ss.get + skip, Chars \ {Space}), Remg - skip)
           first == RunAt(said, got, {Space})
           last  == got + first + RunAt(said, got + first, Chars \ {Space})
           n     == 0
           none  == Resize(str, heap, n)
           r     == Resize(str, heap, size)
           word  == SubSeq(t, ss.get + skip + 1, ss.get + skip + size)
           w     == Written(r, word)
           st    == [ss EXCEPT !.get = @ + skip + size]
<1>1. open /\ MayReadWord /\ UNCHANGED <<open, said>>
  BY DEF Word
<1>2. /\ said \in Seq(Symbols) /\ t \in Seq(Symbols)
      /\ Len(said) = ss.put /\ ss.put \in Nat /\ Len(t) \in Nat
      /\ \A i \in 1..Len(said) : said[i] = t[i]
      /\ got = ss.get /\ ss.get \in Nat /\ ss.get <= ss.put
      /\ ss \in Streams /\ halted \in BOOLEAN
      /\ Len(t) = ss.s.cap /\ ss.s.cap \in Nat
  BY <1>1, SaidIsPrefix
<1>3. Sane(str) /\ ss.s \in Strings /\ Owns(heap, str, ss.s)
  BY InvFields
<1>4. CASE /\ ErrG /\ MayGrow(str, 0) /\ str' = none.s /\ heap' = none.h
           /\ line' = <<>> /\ UNCHANGED got
  <2>1. MayGrow(str, n) /\ n \in Nat
    BY <1>4
  <2> HIDE DEF n
  <2>2. StaysPut(str, n + 1)
    BY <2>1, MayGrowIsStaysPut
  <2>3. /\ Fit(none.s) /\ Owns(none.h, none.s, ss.s)
        /\ none.s.text = [i \in 1..n |-> IF i <= Len(str.text) THEN str.text[i] ELSE NUL]
    BY <1>3, <2>1, <2>2, Resized
  <2> HIDE DEF none
  <2>4. none.s.text = <<>>
    BY <2>3 DEF n
  <2>5. PICK st2 \in {ss, [ss EXCEPT !.eofg = TRUE]} : ss' = st2 /\ halted' \in BOOLEAN
    BY <1>2, <1>4 DEF ErrG
  <2>6. st2 \in Streams /\ st2.s = ss.s /\ st2.put = ss.put /\ st2.get = ss.get
    BY <1>2, <2>5 DEF Streams
  <2>7. st2.get <= ss.put /\ got' = st2.get /\ line' = none.s.text
        /\ Owns(heap', none.s, ss.s)
    BY <1>2, <1>4, <2>3, <2>4, <2>6
  <2> QED
    BY <1>1, <1>4, <2>3, <2>5, <2>6, <2>7, ReadStep
<1>5. CASE /\ MayGrow(str, size) /\ str' = w.s /\ heap' = r.h /\ ss' = st
           /\ line' = SubSeq(said, got + first + 1, last) /\ got' = last
           /\ UNCHANGED halted
  <2>1. Len(said) < Len(t) /\ t[Len(said) + 1] = NUL
    BY <1>1, <1>2 DEF MayReadWord
  <2>2. NUL \notin {Space} /\ NUL \notin Chars \ {Space}
    BY StringAssumption, StreamAssumption
  <2> HIDE DEF t
  <2>3. RunAt(said, ss.get, {Space}) = skip /\ skip \in Nat /\ ss.get + skip <= Len(said)
    <3>1. ss.get <= Len(said) /\ t[Len(said) + 1] \notin {Space}
      BY <1>2, <2>1, <2>2
    <3> QED
      BY <1>2, <2>1, <3>1, RunStops
  <2>4. first = skip
    BY <1>2, <2>3
  <2> HIDE DEF skip, first
  <2> DEFINE a == ss.get + skip
             run == RunAt(t, a, Chars \ {Space})
  <2>5. RunAt(said, a, Chars \ {Space}) = run /\ run \in Nat /\ a + run <= Len(said)
    <3>1. a \in Nat /\ a <= Len(said) /\ t[Len(said) + 1] \notin Chars \ {Space}
      BY <1>2, <2>1, <2>2, <2>3
    <3> HIDE DEF a
    <3> QED
      BY <1>2, <2>1, <3>1, RunStops
  <2>6. size = run
    <3>1. size = Least(run, Remg - skip)
      OBVIOUS
    <3> HIDE DEF size, run
    <3>2. ~(Remg - skip < run)
      BY <1>2, <2>3, <2>5 DEF Remg
    <3> QED
      BY <1>2, <2>3, <2>5, <3>1, <3>2 DEF Least, Remg
  <2>7. last = a + run /\ got + first = a
    BY <1>2, <2>4, <2>5
  <2> HIDE DEF last, run, size
  <2>8. size \in Nat /\ a \in Nat /\ a + size <= ss.put
    BY <1>2, <2>3, <2>5, <2>6
  <2>9. word = SubSeq(said, a + 1, a + size) /\ word \in Seq(Symbols) /\ Len(word) = size
    <3>1. word = SubSeq(Bytes(ss.s), a + 1, a + size)
      BY DEF t
    <3> HIDE DEF a, word
    <3> QED
      BY <1>1, <2>8, <3>1, SameRead
  <2> HIDE DEF word
  <2>10. Fit(w.s) /\ w.s.text = word /\ Owns(w.h, w.s, ss.s)
    <3>1. word \in Seq(Symbols) /\ size \in Nat
      BY <2>8, <2>9
    <3>2. Len(word) = size
      BY <2>9
    <3>3. Len(word) <= size
      BY <3>1, <3>2
    <3>4. StaysPut(str, size + 1)
      BY <1>5, MayGrowIsStaysPut
    <3>5. LET v == Written(Resize(str, heap, size), word)
          IN  Fit(v.s) /\ v.s.text = word /\ Owns(v.h, v.s, ss.s)
      BY <1>3, <3>1, <3>3, <3>4, Rewritten
    <3> QED
      BY <3>5
  <2>11. w.h = r.h
    BY DEF Written, Of
  <2> HIDE DEF w, r
  <2>12. ss.get + skip + size \in Nat
    BY <2>8
  <2>13. st \in Streams /\ st.s = ss.s /\ st.put = ss.put /\ st.get = a + size
    BY <1>2, <2>12 DEF Streams
  <2> HIDE DEF st
  <2>14. st.get <= ss.put /\ got' = st.get /\ line' = w.s.text /\ Owns(heap', w.s, ss.s)
    BY <1>5, <2>6, <2>7, <2>8, <2>9, <2>10, <2>11, <2>13
  <2> QED
    BY <1>1, <1>2, <1>5, <2>10, <2>13, <2>14, ReadStep
<1> QED
  BY <1>4, <1>5 DEF Word

-----------------------------------------------------------------------------

LEMMA StepSound == ASSUME IInv, Careful, [Next]_vars PROVE IInv'
<1>1. CASE UNCHANGED vars
  BY <1>1 DEF vars, IInv, LineSound, StreamSound
<1>2. CASE Next
  <2>1. ASSUME NEW moving \in BOOLEAN, Open(moving) PROVE IInv'
    BY <2>1, OpenSound
  <2> QED
    BY <1>2, <2>1, AssignSound, AppendSound, DoubleSound, PrependSound, PushSound,
       JoinRightSound, JoinLeftSound, EraseSound, ResizeSound, ReserveSound, ClearSound,
       ShrinkSound, CloseSound, WriteSound, ReserveStreamSound, ReadSound, WordSound,
       NumberSound, PeekSound, SeekPSound, SeekGSound, ResetSound, ClearErrSound,
       IgnoreErrSound DEF Next
<1> QED
  BY <1>1, <1>2

(* With careful clients, the invariant holds in every state.               *)
THEOREM Inductive == Careful /\ Spec => []IInv
<1> SUFFICES ASSUME Careful PROVE Spec => []IInv
  OBVIOUS
<1>1. IInv /\ [Next]_vars => IInv'
  BY StepSound
<1> QED
  BY <1>1, InitSound, PTL DEF Spec

(* With careful clients, positions stay in order and inside the text, and  *)
(* the text inside its memory: no call reads or writes past it.            *)
THEOREM TypeCorrect == Careful /\ Spec => []TypeOK
BY Inductive, InvTyped, PTL

(* With careful clients, every block allocated belongs to the string or to *)
(* the stream, and to one of them: growing, shrinking, moving and ending   *)
(* lose none and free none twice.                                          *)
THEOREM BlocksNeverLost == Careful /\ Spec => []BlocksOwned
BY Inductive, InvOwned, PTL

(* With careful clients, the string is what its edits, and the reads into  *)
(* it, should have made it, through all its moves.                         *)
THEOREM StringAlwaysKept == Careful /\ Spec => []StringKept
BY Inductive, InvKept, PTL

(* With careful clients, a stream holds what was written to it up to the   *)
(* put position, and reads go on where they should.                        *)
THEOREM StreamAlwaysKept == Careful /\ Spec => []StreamKept
BY Inductive, InvKept, PTL

-----------------------------------------------------------------------------
(* Splitting a text.                                                       *)

LEMMA FirstOfProperties ==
  ASSUME NEW S, S \subseteq Nat
  PROVE  /\ S = {} => FirstOf(S) = NPos
         /\ S # {} => FirstOf(S) \in S /\ \A y \in S : FirstOf(S) <= y
  <1>1. S # {} => \E x \in S : \A y \in S : x <= y
    BY LeastElement
  <1> QED
    BY <1>1 DEF FirstOf, Min

(* The separators *)
Seps(t, c, pos) == {i \in 0 .. Len(t) - 1 : t[i + 1] = c /\ i >= pos}

LEMMA FirstSeparator ==
  ASSUME NEW A, NEW t \in Seq(A), NEW c, NEW pos \in Nat
  PROVE  LET i == FindFirstOf(t, Whole(t), c, pos)
         IN  /\ Seps(t, c, pos) = {} => i = NPos
             /\ Seps(t, c, pos) # {} => i \in Seps(t, c, pos) /\ \A y \in Seps(t, c, pos) : i <= y
  <1>1. Len(t) \in Nat
    OBVIOUS
  <1>2. \A i \in 0 .. Len(t) - 1 : t[0 + i + 1] = t[i + 1]
    BY <1>1
  <1>3. Places(t, Whole(t), c, TRUE) = {i \in 0 .. Len(t) - 1 : t[i + 1] = c}
    BY <1>2 DEF Places, Whole
  <1>4. {i \in Places(t, Whole(t), c, TRUE) : i >= pos} = Seps(t, c, pos)
    BY <1>3 DEF Seps
  <1>5. Seps(t, c, pos) \subseteq Nat
    BY <1>1 DEF Seps
  <1>6. FindFirstOf(t, Whole(t), c, pos) = FirstOf(Seps(t, c, pos))
    BY <1>4 DEF FindFirstOf
  <1> QED
    BY <1>5, <1>6, FirstOfProperties

(* What next_split() leaves in pos and out: p and o.                       *)
NextIs(t, c, pos, p, o) ==
  LET n == Len(t)
  IN  /\ pos < n /\ Seps(t, c, pos) # {} =>
           /\ p - 1 \in Seps(t, c, pos) /\ \A y \in Seps(t, c, pos) : p - 1 <= y
           /\ p \in pos + 1 .. n /\ o = [at |-> pos, size |-> p - 1 - pos]
      /\ pos < n /\ Seps(t, c, pos) = {} => p = n + 1 /\ o = [at |-> pos, size |-> n - pos]
      /\ pos = n /\ n > 0 => p = n + 1 /\ o = [at |-> IF t[n] = c THEN n ELSE n + 1, size |-> 0]
      /\ pos > n \/ n = 0 => p = n + 1 /\ o = [at |-> n + 1, size |-> 0]

LEMMA NextSplitCases ==
  ASSUME NEW A, NEW t \in Seq(A), NEW c, NEW pos \in 0 .. Len(t) + 1
  PROVE  NextIs(t, c, pos, NextSplit(t, c, pos).pos, NextSplit(t, c, pos).out)
  <1> DEFINE n == Len(t)
             i == FindFirstOf(t, Whole(t), c, pos)
  <1>1. n \in Nat /\ pos \in Nat /\ n = Len(t)
    OBVIOUS
  <1>2. /\ Seps(t, c, pos) = {} => i = NPos
        /\ Seps(t, c, pos) # {} => i \in Seps(t, c, pos) /\ \A y \in Seps(t, c, pos) : i <= y
    BY <1>1, FirstSeparator
  <1>3. Seps(t, c, pos) # {} => i \in pos .. n - 1 /\ i # NPos
    BY <1>1, <1>2 DEF Seps, NPos
  <1> HIDE DEF n, i
  <1>4. pos < n /\ Seps(t, c, pos) # {} =>
          NextSplit(t, c, pos) = [out |-> [at |-> pos, size |-> i - pos], pos |-> i + 1, valid |-> TRUE]
    BY <1>3 DEF NextSplit, n, i
  <1>5. pos < n /\ Seps(t, c, pos) = {} =>
          NextSplit(t, c, pos) = [out |-> [at |-> pos, size |-> n - pos], pos |-> n + 1, valid |-> TRUE]
    BY <1>2 DEF NextSplit, n, i
  <1>6. ~(pos < n) => NextSplit(t, c, pos).pos = n + 1 /\
          NextSplit(t, c, pos).out = [at |-> IF (n > 0 /\ pos = n) /\ t[n] = c THEN n ELSE n + 1, size |-> 0]
    BY DEF NextSplit, n
  <1>7. pos < n /\ Seps(t, c, pos) # {} =>
                  /\ NextSplit(t, c, pos).pos - 1 = i
                  /\ NextSplit(t, c, pos).pos \in pos + 1 .. n
                  /\ NextSplit(t, c, pos).out = [at |-> pos, size |-> NextSplit(t, c, pos).pos - 1 - pos]
    BY <1>1, <1>3, <1>4
  <1> QED
    BY <1>1, <1>2, <1>5, <1>6, <1>7 DEF n, NextIs

(* Up of a part inside t *)
LEMMA UpInside ==
  ASSUME NEW A, NEW t \in Seq(A), NEW at \in Nat, NEW size \in Nat, at + size <= Len(t)
  PROVE  LET u == Up(t, [at |-> at, size |-> size])
         IN  /\ u = SubSeq(t, at + 1, at + size) /\ u \in Seq(A) /\ Len(u) = size
             /\ \A k \in 1 .. size : u[k] = t[at + k]
  <1> DEFINE u == SubSeq(t, at + 1, at + size)
  <1>1. Up(t, [at |-> at, size |-> size]) = u
    BY DEF Up
  <1>2. \A k \in at + 1 .. at + size : t[k] \in A
    OBVIOUS
  <1> DEFINE a == at + 1
             b == at + size
  <1>3. a \in Int /\ b \in Int /\ b - a + 1 = size /\ (a <= b <=> size # 0)
    OBVIOUS
  <1> HIDE DEF a, b
  <1>4. /\ SubSeq(t, a, b) \in Seq(A)
        /\ Len(SubSeq(t, a, b)) = IF a <= b THEN b - a + 1 ELSE 0
        /\ \A k \in 1 .. b - a + 1 : SubSeq(t, a, b)[k] = t[a + k - 1]
    BY <1>2, <1>3, SubSeqProperties DEF a, b
  <1>5. u \in Seq(A) /\ Len(u) = size /\ \A k \in 1 .. size : u[k] = t[at + k]
    <2>1. Len(SubSeq(t, a, b)) = size
      BY <1>3, <1>4
    <2>2. \A k \in 1 .. size : SubSeq(t, a, b)[k] = t[a + k - 1]
      BY <1>3, <1>4
    <2>3. \A k \in 1 .. size : a + k - 1 = at + k
      BY DEF a
    <2> QED
      BY <1>4, <2>1, <2>2, <2>3 DEF a, b
  <1> HIDE DEF u
  <1> QED
    BY <1>1, <1>5 DEF u, b

Visits(t, c, A, f) ==
  LET n == Len(t)
  IN  /\ f \in [0 .. n + 1 -> Seq(Seq(A))]
      /\ \A pos \in 0 .. n + 1 :
           LET it == NextSplit(t, c, pos)
           IN  f[pos] = IF it.pos = n + 1 /\ it.out = [at |-> n + 1, size |-> 0] THEN <<>>
                        ELSE <<Up(t, it.out)>> \o f[it.pos]

LEMMA SplitIsInside ==
  ASSUME NEW A, NEW t \in Seq(A), NEW c, NEW pos \in 0 .. Len(t) + 1,
         LET it == NextSplit(t, c, pos)
         IN  ~(it.pos = Len(t) + 1 /\ it.out = [at |-> Len(t) + 1, size |-> 0])
  PROVE  LET it == NextSplit(t, c, pos)
         IN  it.pos \in 0 .. Len(t) + 1 /\ it.pos > pos /\ Up(t, it.out) \in Seq(A)
  <1> DEFINE n == Len(t)
             p == NextSplit(t, c, pos).pos
             o == NextSplit(t, c, pos).out
  <1>1. n \in Nat
    OBVIOUS
  <1>2. /\ pos < n /\ Seps(t, c, pos) # {} => p \in pos + 1 .. n /\ o = [at |-> pos, size |-> p - 1 - pos]
        /\ pos < n /\ Seps(t, c, pos) = {} => p = n + 1 /\ o = [at |-> pos, size |-> n - pos]
        /\ pos = n /\ n > 0 => p = n + 1 /\ o = [at |-> IF t[n] = c THEN n ELSE n + 1, size |-> 0]
        /\ pos > n \/ n = 0 => p = n + 1 /\ o = [at |-> n + 1, size |-> 0]
    BY NextSplitCases DEF NextIs
  <1>3. ~(p = n + 1 /\ o = [at |-> n + 1, size |-> 0])
    OBVIOUS
  <1>4. pos \in 0 .. n + 1 /\ n = Len(t)
    OBVIOUS
  <1> HIDE DEF n, p, o
  <1>5. CASE pos < n /\ Seps(t, c, pos) # {}
    <2>1. pos \in Nat /\ p - 1 - pos \in Nat /\ pos + (p - 1 - pos) <= Len(t) /\ p \in 0 .. n + 1 /\ p > pos
      BY <1>1, <1>2, <1>4, <1>5
    <2>2. Up(t, o) \in Seq(A)
      BY <1>2, <1>5, <2>1, UpInside
    <2> QED
      BY <2>1, <2>2 DEF n, p, o
  <1>6. CASE pos < n /\ Seps(t, c, pos) = {}
    <2>1. pos \in Nat /\ n - pos \in Nat /\ pos + (n - pos) <= Len(t) /\ p \in 0 .. n + 1 /\ p > pos
      BY <1>1, <1>2, <1>4, <1>6
    <2>2. Up(t, o) \in Seq(A)
      BY <1>2, <1>6, <2>1, UpInside
    <2> QED
      BY <2>1, <2>2 DEF n, p, o
  <1>7. CASE pos = n /\ n > 0
    <2>1. p = n + 1 /\ o = [at |-> n, size |-> 0]
      BY <1>2, <1>3, <1>7
    <2>2. n \in Nat /\ 0 \in Nat /\ n + 0 <= Len(t) /\ p \in 0 .. n + 1 /\ p > pos
      BY <1>1, <1>4, <1>7, <2>1
    <2>3. Up(t, o) \in Seq(A)
      BY <2>1, <2>2, UpInside
    <2> QED
      BY <2>2, <2>3 DEF n, p, o
  <1> QED
    BY <1>1, <1>2, <1>3, <1>4, <1>5, <1>6, <1>7

LEMMA StopIsPastEnd ==
  ASSUME NEW A, NEW t \in Seq(A), NEW c
  PROVE  LET it == NextSplit(t, c, Len(t) + 1)
         IN  it.pos = Len(t) + 1 /\ it.out = [at |-> Len(t) + 1, size |-> 0]
  <1>1. Len(t) \in Nat /\ ~(Len(t) + 1 < Len(t)) /\ Len(t) + 1 # Len(t)
    OBVIOUS
  <1> QED
    BY <1>1 DEF NextSplit

LEMMA SplitsDef ==
  ASSUME NEW A, NEW t \in Seq(A), NEW c
  PROVE  \E f : Visits(t, c, A, f) /\ Splits(t, c) = f[0]
  <1> DEFINE n == Len(t)
             end == [at |-> n + 1, size |-> 0]
             S == Seq(Seq(A))
             F(g) == [pos \in 0 .. n + 1 |->
                        LET it == NextSplit(t, c, pos)
                        IN  IF it.out = NextSplit(t, c, n + 1).out /\ it.pos = NextSplit(t, c, n + 1).pos
                            THEN <<>> ELSE <<Up(t, it.out)>> \o g[it.pos]]
             Stop == {pos \in 0 .. n + 1 : NextSplit(t, c, pos).pos = n + 1 /\ NextSplit(t, c, pos).out = end}
             step == [pos \in 0 .. n + 1 |-> [s \in S |-> <<Up(t, NextSplit(t, c, pos).out)>> \o s]]
             next == [pos \in 0 .. n + 1 |-> NextSplit(t, c, pos).pos]
  <1>1. n \in Nat /\ n + 1 \in 0 .. n + 1 /\ 0 \in 0 .. n + 1 /\ n + 1 \in Nat /\ <<>> \in S
    OBVIOUS
  <1>2. NextSplit(t, c, n + 1).out = end /\ NextSplit(t, c, n + 1).pos = n + 1
    BY StopIsPastEnd
  <1>3. ASSUME NEW pos \in 0 .. n + 1, pos \notin Stop
        PROVE  /\ NextSplit(t, c, pos).pos \in 0 .. n + 1 /\ NextSplit(t, c, pos).pos > pos
               /\ Up(t, NextSplit(t, c, pos).out) \in Seq(A)
    BY <1>3, SplitIsInside
  <1>4. ASSUME NEW pos \in 0 .. n + 1, pos \notin Stop
        PROVE  step[pos] \in [S -> S] /\ next[pos] \in 0 .. n + 1 /\ next[pos] > pos
    <2>1. \A s \in S : <<Up(t, NextSplit(t, c, pos).out)>> \o s \in S
      BY <1>3, <1>4
    <2>2. step[pos] = [s \in S |-> <<Up(t, NextSplit(t, c, pos).out)>> \o s] /\ next[pos] = NextSplit(t, c, pos).pos
      OBVIOUS
    <2> HIDE DEF step, next, S, Stop
    <2> QED
      BY <1>3, <1>4, <2>1, <2>2
  <1>5. PICK g : Jumps(g, n + 1, S, Stop, <<>>, step, next)
    <2> HIDE DEF step, next, S, Stop, n
    <2> QED
      BY <1>1, <1>4, JumpsExist
  <1>6. g \in [0 .. n + 1 -> S] /\ \A pos \in 0 .. n + 1 : g[pos] = IF pos \in Stop THEN <<>> ELSE step[pos][g[next[pos]]]
    BY <1>5 DEF Jumps
  <1>7. ASSUME NEW pos \in 0 .. n + 1 PROVE g[pos] = F(g)[pos]
    <2>1. F(g)[pos] = IF NextSplit(t, c, pos).out = NextSplit(t, c, n + 1).out
                         /\ NextSplit(t, c, pos).pos = NextSplit(t, c, n + 1).pos
                      THEN <<>> ELSE <<Up(t, NextSplit(t, c, pos).out)>> \o g[NextSplit(t, c, pos).pos]
      OBVIOUS
    <2>2. F(g)[pos] = IF pos \in Stop THEN <<>> ELSE <<Up(t, NextSplit(t, c, pos).out)>> \o g[NextSplit(t, c, pos).pos]
      BY <1>2, <2>1
    <2>3. CASE pos \in Stop
      <3> HIDE DEF F, Stop
      <3> QED
        BY <1>6, <2>2, <2>3
    <2>4. CASE pos \notin Stop
      <3>1. next[pos] = NextSplit(t, c, pos).pos /\ g[next[pos]] \in S
        BY <1>4, <1>6, <2>4
      <3>2. step[pos][g[next[pos]]] = <<Up(t, NextSplit(t, c, pos).out)>> \o g[next[pos]]
        BY <3>1
      <3> HIDE DEF F, Stop, step, next
      <3> QED
        BY <1>6, <2>2, <2>4, <3>1, <3>2
    <2> QED
      BY <2>3, <2>4
  <1>8. g = F(g)
    <2>1. g = [pos \in 0 .. n + 1 |-> g[pos]]
      BY <1>6
    <2> QED
      BY <1>7, <2>1
  <1>9. PICK w : w = F(w) /\ Splits(t, c) = w[0]
    <2> DEFINE h == CHOOSE x : x = F(x)
    <2>1. Splits(t, c) = h[0]
      BY DEF Splits, n
    <2>2. h = F(h)
      <3> HIDE DEF F
      <3> QED
        BY <1>8
    <2> HIDE DEF h, F
    <2> QED
      BY <2>1, <2>2
  <1>10. ASSUME NEW pos \in 0 .. n + 1
         PROVE  w[pos] = IF NextSplit(t, c, pos).pos = n + 1 /\ NextSplit(t, c, pos).out = end THEN <<>>
                         ELSE <<Up(t, NextSplit(t, c, pos).out)>> \o w[NextSplit(t, c, pos).pos]
    <2>1. w[pos] = F(w)[pos]
      BY <1>9
    <2>2. F(w)[pos] = IF NextSplit(t, c, pos).out = NextSplit(t, c, n + 1).out
                         /\ NextSplit(t, c, pos).pos = NextSplit(t, c, n + 1).pos
                      THEN <<>> ELSE <<Up(t, NextSplit(t, c, pos).out)>> \o w[NextSplit(t, c, pos).pos]
      OBVIOUS
    <2> HIDE DEF F
    <2> QED
      BY <1>2, <2>1, <2>2
  <1>11. \A pos \in 0 .. n + 1 : w[pos] \in S
    <2> DEFINE Bad == {m \in Nat : m <= n + 1 /\ w[n + 1 - m] \notin S}
    <2>1. SUFFICES ASSUME Bad # {} PROVE FALSE
      <3> SUFFICES ASSUME NEW pos \in 0 .. n + 1, w[pos] \notin S PROVE Bad # {}
        OBVIOUS
      <3>1. n + 1 - pos \in Nat /\ n + 1 - (n + 1 - pos) = pos /\ n + 1 - pos <= n + 1
        BY <1>1
      <3> HIDE DEF n, S
      <3> QED
        BY <3>1
    <2>2. PICK m \in Bad : \A y \in Bad : m <= y
      BY <2>1, LeastElement
    <2> DEFINE pos == n + 1 - m
               p == NextSplit(t, c, pos).pos
    <2>3. pos \in 0 .. n + 1 /\ w[pos] \notin S
      BY <1>1
    <2>4. pos \notin Stop
      <3>1. <<>> \in S
        BY <1>1
      <3> HIDE DEF n, S, pos
      <3> QED
        BY <1>10, <2>3, <3>1
    <2>5. p \in 0 .. n + 1 /\ p > pos /\ <<Up(t, NextSplit(t, c, pos).out)>> \in S
      <3>1. Up(t, NextSplit(t, c, pos).out) \in Seq(A) /\ p \in 0 .. n + 1 /\ p > pos
        BY <1>3, <2>3, <2>4
      <3> QED
        BY <3>1
    <2>6. w[pos] = <<Up(t, NextSplit(t, c, pos).out)>> \o w[p]
      <3> HIDE DEF n
      <3> QED
        BY <1>10, <2>3, <2>4
    <2>7. w[p] \notin S
      <3> SUFFICES ASSUME w[p] \in S PROVE FALSE
        OBVIOUS
      <3>1. <<Up(t, NextSplit(t, c, pos).out)>> \o w[p] \in S
        BY <2>5
      <3> QED
        BY <2>3, <2>6, <3>1
    <2>8. n + 1 - p \in Nat /\ n + 1 - p <= n + 1 /\ n + 1 - (n + 1 - p) = p /\ n + 1 - p < m /\ m \in Nat
      <3> HIDE DEF p
      <3> QED
        BY <1>1, <2>5
    <2>9. n + 1 - p \in Bad
      <3> HIDE DEF p, n, S
      <3> QED
        BY <2>7, <2>8
    <2> HIDE DEF Bad, p, n
    <2>10. m <= n + 1 - p /\ n \in Int /\ p \in Int
      BY <1>1, <2>2, <2>5, <2>9
    <2> QED
      BY <2>8, <2>10
  <1>12. w = [pos \in 0 .. n + 1 |-> w[pos]]
    BY <1>9
  <1>13. w \in [0 .. n + 1 -> S]
    <2> HIDE DEF S, n, F
    <2> QED
      BY <1>11, <1>12
  <1>14. Visits(t, c, A, w)
    BY <1>10, <1>13 DEF Visits
  <1> QED
    BY <1>9, <1>14

(* fl[i] is the first i members of q joined.                              *)
Joined(q, A, fl) ==
  /\ fl \in [1 .. Len(q) -> Seq(A)] /\ fl[1] = q[1]
  /\ \A i \in 2 .. Len(q) : fl[i] = fl[i - 1] \o q[i]

LEMMA FlattenDef ==
  ASSUME NEW A, NEW q \in Seq(Seq(A)), q # <<>>
  PROVE  \E fl : Joined(q, A, fl) /\ FlattenSeq(q) = fl[Len(q)]
  <1> DEFINE m == Len(q)
             S == Seq(A)
             step == [i \in 1 .. m |-> [s \in S |-> s \o q[i]]]
             F(g) == [i \in 1 .. m |-> IF i = 1 THEN q[i] ELSE g[i - 1] \o q[i]]
  <1>1. m \in Nat /\ m # 0 /\ <<>> \in S /\ \A i \in 1 .. m : q[i] \in S
    OBVIOUS
  <1>2. \A r \in S, s \in S : r \o s \in S
    OBVIOUS
  <1>3. \A i \in 1 .. m : step[i] = [s \in S |-> s \o q[i]] /\ step[i] \in [S -> S]
    <2> HIDE DEF S, m
    <2> QED
      BY <1>1, <1>2
  <1>4. StepsIn(step, m, S)
    <2> HIDE DEF S, m
    <2> QED
      BY <1>3 DEF StepsIn
  <1>5. PICK g : Iterates(g, step, m, S, <<>>)
    <2> HIDE DEF step, m, S
    <2> QED
      BY <1>1, <1>4, NamedIteration
  <1>6. g \in [0 .. m -> S] /\ g[0] = <<>> /\ \A i \in 1 .. m : g[i] = g[i - 1] \o q[i]
    <2>1. g \in [0 .. m -> S] /\ g[0] = <<>> /\ \A i \in 1 .. m : g[i] = step[i][g[i - 1]]
      BY <1>5 DEF Iterates
    <2>2. ASSUME NEW i \in 1 .. m PROVE g[i] = g[i - 1] \o q[i]
      <3>1. g[i - 1] \in S
        BY <1>1, <2>1
      <3> HIDE DEF step, S, m
      <3> QED
        BY <1>3, <2>1, <3>1
    <2> QED
      BY <2>1, <2>2
  <1> DEFINE f == [i \in 1 .. m |-> g[i]]
  <1>7. f = F(f)
    <2>1. ASSUME NEW i \in 1 .. m PROVE f[i] = F(f)[i]
      <3>1. CASE i = 1
        <4>0. 1 \in 1 .. m /\ 1 - 1 = 0
          BY <1>1
        <4>1. f[1] = g[0] \o q[1] /\ q[1] \in S
          <5> HIDE DEF S, m
          <5> QED
            BY <1>1, <1>6, <4>0
        <4>2. <<>> \o q[1] = q[1]
          BY <4>1, ConcatEmptySeq
        <4>3. f[1] = q[1] /\ F(f)[1] = q[1]
          BY <1>6, <3>1, <4>1, <4>2
        <4> QED
          BY <3>1, <4>3
      <3>2. CASE i # 1
        <4>1. i - 1 \in 1 .. m
          BY <1>1, <3>2
        <4>2. f[i - 1] = g[i - 1] /\ f[i] = g[i]
          BY <4>1
        <4>3. F(f)[i] = f[i - 1] \o q[i]
          BY <3>2
        <4> HIDE DEF f, F
        <4> QED
          BY <1>6, <4>2, <4>3
      <3> QED
        BY <3>1, <3>2
    <2>2. f = [i \in 1 .. m |-> f[i]]
      OBVIOUS
    <2> QED
      BY <2>1, <2>2
  <1>8. PICK w : w = F(w) /\ FlattenSeq(q) = w[m]
    <2> DEFINE h == CHOOSE x : x = F(x)
    <2>1. FlattenSeq(q) = h[m]
      BY <1>1 DEF FlattenSeq
    <2>2. h = F(h)
      <3> HIDE DEF F
      <3> QED
        BY <1>7
    <2> HIDE DEF h, F
    <2> QED
      BY <2>1, <2>2
  <1>9. ASSUME NEW i \in 1 .. m PROVE w[i] = IF i = 1 THEN q[i] ELSE w[i - 1] \o q[i]
    BY <1>8
  <1>10. w[1] = q[1] /\ \A i \in 2 .. m : w[i] = w[i - 1] \o q[i]
    <2>1. 1 \in 1 .. m /\ \A i \in 2 .. m : i \in 1 .. m /\ i # 1
      BY <1>1
    <2> QED
      BY <1>9, <2>1
  <1>11. \A i \in 0 .. m : i = 0 \/ w[i] \in S
    <2> DEFINE T == {i \in 0 .. m : i = 0 \/ w[i] \in S}
    <2>1. 0 \in T
      BY <1>1
    <2>2. ASSUME NEW i \in 0 .. m - 1, i \in T PROVE i + 1 \in T
      <3>1. CASE i = 0
        <4>1. w[1] \in S
          BY <1>1, <1>10
        <4> QED
          BY <1>1, <3>1, <4>1
      <3>2. CASE i # 0
        <4>1. i + 1 \in 2 .. m /\ i + 1 \in 0 .. m /\ (i + 1) - 1 = i /\ w[i] \in S
          BY <1>1, <2>2, <3>2
        <4>2. q[i + 1] \in S
          BY <1>1, <4>1
        <4>3. w[i + 1] = w[i] \o q[i + 1]
          BY <1>10, <4>1
        <4>4. w[i + 1] \in S
          BY <1>2, <4>1, <4>2, <4>3
        <4> QED
          BY <4>1, <4>4
      <3> QED
        BY <3>1, <3>2
    <2>3. \A i \in 0 .. m : i \in T
      <3> HIDE DEF T, m
      <3> QED
        BY <1>1, <2>1, <2>2, IntervalInduction
    <2> QED
      BY <2>3
  <1>12. w \in [1 .. m -> S]
    <2>1. w = [i \in 1 .. m |-> w[i]]
      BY <1>8
    <2>2. \A i \in 1 .. m : w[i] \in S
      <3>1. \A i \in 1 .. m : i \in 0 .. m /\ i # 0
        BY <1>1
      <3> QED
        BY <1>11, <3>1
    <2> HIDE DEF S, m, F
    <2> QED
      BY <2>1, <2>2
  <1>13. Joined(q, A, w)
    BY <1>10, <1>12 DEF Joined
  <1> QED
    BY <1>8, <1>13

(* The parts of a text with separators between them.                       *)
Spaced(parts, c) == [i \in DOMAIN parts |-> IF i = 1 THEN parts[i] ELSE <<c>> \o parts[i]]

LEMMA SpacedProperties ==
  ASSUME NEW A, NEW c \in A, NEW q \in Seq(Seq(A))
  PROVE  /\ Spaced(q, c) \in Seq(Seq(A)) /\ Len(Spaced(q, c)) = Len(q)
         /\ \A i \in 1 .. Len(q) : Spaced(q, c)[i] = IF i = 1 THEN q[i] ELSE <<c>> \o q[i]
  <1>1. Len(q) \in Nat /\ DOMAIN q = 1 .. Len(q) /\ \A i \in 1 .. Len(q) : q[i] \in Seq(A)
    OBVIOUS
  <1>2. \A s \in Seq(A) : <<c>> \o s \in Seq(A)
    OBVIOUS
  <1> DEFINE s == Spaced(q, c)
  <1>3. s = [i \in 1 .. Len(q) |-> IF i = 1 THEN q[i] ELSE <<c>> \o q[i]]
    BY <1>1 DEF Spaced
  <1> HIDE DEF s
  <1>4. \A i \in 1 .. Len(q) : s[i] = IF i = 1 THEN q[i] ELSE <<c>> \o q[i]
    BY <1>3
  <1>5. \A i \in 1 .. Len(q) : s[i] \in Seq(A)
    BY <1>1, <1>2, <1>4
  <1>6. s \in [1 .. Len(q) -> Seq(A)]
    BY <1>3, <1>5
  <1>7. s \in Seq(Seq(A)) /\ Len(s) = Len(q)
    <2> DEFINE S == Seq(A)
               m == Len(q)
    <2>1. s \in [1 .. m -> S] /\ m \in Nat
      BY <1>1, <1>6
    <2> HIDE DEF S, m
    <2>2. s \in Seq(S) /\ Len(s) = m
      BY <2>1, IsASeq
    <2> QED
      BY <2>2 DEF S, m
  <1> QED
    BY <1>4, <1>7 DEF s

LEMMA JoinOne ==
  ASSUME NEW A, NEW c \in A, NEW p \in Seq(A)
  PROVE  FlattenSeq(Spaced(<<p>>, c)) = p
  <1>0. PICK q : q = <<p>>
    OBVIOUS
  <1> DEFINE s == Spaced(q, c)
  <1>1. q \in Seq(Seq(A)) /\ Len(q) = 1 /\ q[1] = p
    BY <1>0
  <1> USE <1>1
  <1>2. s \in Seq(Seq(A)) /\ Len(s) = 1 /\ s[1] = p
    <2>1. /\ s \in Seq(Seq(A)) /\ Len(s) = Len(q)
          /\ \A i \in 1 .. Len(q) : s[i] = IF i = 1 THEN q[i] ELSE <<c>> \o q[i]
      BY ONLY q \in Seq(Seq(A)), c \in A, SpacedProperties
    <2> HIDE DEF s
    <2> QED
      BY <1>1, <2>1
  <1> HIDE DEF s
  <1>3. s # <<>>
    BY <1>2
  <1>4. PICK fl : Joined(s, A, fl) /\ FlattenSeq(s) = fl[Len(s)]
    BY <1>2, <1>3, FlattenDef
  <1> QED
    BY <1>0, <1>2, <1>4 DEF Joined, s

LEMMA JoinMore ==
  ASSUME NEW A, NEW c \in A, NEW p \in Seq(A), NEW q \in Seq(Seq(A)), q # <<>>
  PROVE  FlattenSeq(Spaced(<<p>> \o q, c)) = p \o (<<c>> \o FlattenSeq(Spaced(q, c)))
  <1> DEFINE n == Len(q)
             r == <<p>> \o q
             x == Spaced(q, c)
             y == Spaced(r, c)
             S == Seq(A)
  <1>1. n \in Nat /\ n # 0 /\ \A i \in 1 .. n : q[i] \in S
    OBVIOUS
  <1>2. r \in Seq(S) /\ Len(r) = n + 1 /\ r[1] = p /\ \A i \in 1 .. n : r[i + 1] = q[i]
    <2>1. <<p>> \in Seq(S) /\ Len(<<p>>) = 1 /\ <<p>>[1] = p
      OBVIOUS
    <2> DEFINE u == <<p>>
    <2> HIDE DEF u, S
    <2>2. /\ u \o q \in Seq(S) /\ Len(u \o q) = Len(u) + Len(q)
          /\ \A i \in 1 .. Len(u) + Len(q) : (u \o q)[i] = IF i <= Len(u) THEN u[i] ELSE q[i - Len(u)]
      BY <2>1, ConcatProperties DEF u, S
    <2>3. 1 \in 1 .. 1 + n /\ \A i \in 1 .. n : i + 1 \in 1 .. 1 + n /\ ~(i + 1 <= 1) /\ i + 1 - 1 = i
      BY <1>1
    <2> QED
      BY <1>1, <2>1, <2>2, <2>3 DEF u
  <1>3. /\ x \in Seq(S) /\ Len(x) = n
        /\ \A i \in 1 .. n : x[i] = IF i = 1 THEN q[i] ELSE <<c>> \o q[i]
    BY SpacedProperties
  <1> HIDE DEF r
  <1>4. /\ y \in Seq(S) /\ Len(y) = n + 1
        /\ \A i \in 1 .. n + 1 : y[i] = IF i = 1 THEN r[i] ELSE <<c>> \o r[i]
    BY <1>2, SpacedProperties
  <1> HIDE DEF x, y, n
  <1>5. x # <<>> /\ y # <<>>
    BY <1>1, <1>3, <1>4
  <1>6. PICK f : Joined(x, A, f) /\ FlattenSeq(x) = f[Len(x)]
    BY <1>3, <1>5, FlattenDef
  <1>7. PICK g : Joined(y, A, g) /\ FlattenSeq(y) = g[Len(y)]
    BY <1>4, <1>5, FlattenDef
  <1>8. /\ f \in [1 .. n -> S] /\ f[1] = q[1] /\ \A i \in 2 .. n : f[i] = f[i - 1] \o (<<c>> \o q[i])
    <2>1. f \in [1 .. n -> S] /\ f[1] = x[1] /\ \A i \in 2 .. n : f[i] = f[i - 1] \o x[i]
      BY <1>3, <1>6 DEF Joined
    <2>2. x[1] = q[1] /\ \A i \in 2 .. n : x[i] = <<c>> \o q[i]
      BY <1>1, <1>3
    <2> QED
      BY <2>1, <2>2
  <1>9. /\ g[1] = p /\ \A i \in 1 .. n : g[i + 1] = g[i] \o (<<c>> \o q[i])
    <2>1. g[1] = y[1] /\ \A i \in 2 .. n + 1 : g[i] = g[i - 1] \o y[i]
      BY <1>4, <1>7 DEF Joined
    <2>2. y[1] = p /\ \A i \in 1 .. n : y[i + 1] = <<c>> \o q[i]
      <3>1. 1 \in 1 .. n + 1 /\ \A i \in 1 .. n : i + 1 \in 1 .. n + 1 /\ i + 1 # 1
        BY <1>1
      <3> QED
        BY <1>2, <1>4, <3>1
    <2>3. \A i \in 1 .. n : i + 1 \in 2 .. n + 1 /\ (i + 1) - 1 = i
      BY <1>1
    <2> QED
      BY <2>1, <2>2, <2>3
  <1> DEFINE T == {i \in 0 .. n : i = 0 \/ g[i + 1] = p \o (<<c>> \o f[i])}
  <1>10. 0 \in T
    BY <1>1
  <1>11. ASSUME NEW i \in 0 .. n - 1, i \in T PROVE i + 1 \in T
    <2>1. i + 1 \in 0 .. n /\ i + 1 \in 1 .. n
      BY <1>1
    <2>2. CASE i = 0
      <3>1. g[2] = p \o (<<c>> \o f[1])
        <4>1. 1 \in 1 .. n /\ 1 + 1 = 2
          BY <1>1
        <4>2. g[1 + 1] = g[1] \o (<<c>> \o q[1])
          BY <1>9, <4>1
        <4> QED
          BY <1>8, <1>9, <4>1, <4>2
      <3>2. i + 1 = 1 /\ (i + 1) + 1 = 2
        BY <2>2
      <3> HIDE DEF S
      <3> QED
        BY <2>1, <3>1, <3>2
    <2>3. CASE i # 0
      <3> DEFINE e == <<c>> \o q[i + 1]
                 b == <<c>>
      <3>1. f[i] \in S /\ q[i + 1] \in S
        BY <1>1, <1>8, <2>1, <2>3
      <3>2. b \in S /\ e \in S /\ b \o f[i] \in S
        BY <3>1
      <3>3. g[i + 1] = p \o (b \o f[i])
        BY <1>11, <2>3
      <3>4. g[(i + 1) + 1] = g[i + 1] \o e
        BY <1>9, <2>1
      <3>5. f[i + 1] = f[i] \o e
        <4>1. i + 1 \in 2 .. n /\ (i + 1) - 1 = i
          BY <1>1, <2>1, <2>3
        <4> QED
          BY <1>8, <4>1
      <3> HIDE DEF e, b
      <3>6. (p \o (b \o f[i])) \o e = p \o ((b \o f[i]) \o e)
        <4>1. PICK v, w : v = b \o f[i] /\ w = e
          OBVIOUS
        <4>2. v \in Seq(A) /\ w \in Seq(A)
          BY <3>2, <4>1
        <4>3. (p \o v) \o w = p \o (v \o w)
          <5> HIDE DEF T, S
          <5>1. v \in Seq(A)
            BY <4>2
          <5>2. w \in Seq(A)
            BY <4>2
          <5> QED
            BY <5>1, <5>2, ConcatAssociative, SMTT(30)
        <4> QED
          BY <4>1, <4>3
      <3>7. (b \o f[i]) \o e = b \o (f[i] \o e)
        <4>1. PICK u, v, w : u = b /\ v = f[i] /\ w = e
          OBVIOUS
        <4>2. u \in Seq(A) /\ v \in Seq(A) /\ w \in Seq(A)
          BY <3>1, <3>2, <4>1
        <4> USE <4>2
        <4>3. (u \o v) \o w = u \o (v \o w)
          <5> HIDE DEF T, S
          <5> QED
            BY ONLY u \in Seq(A), v \in Seq(A), w \in Seq(A), ConcatAssociative, SMTT(30)
        <4> QED
          BY <4>1, <4>3
      <3>8. g[(i + 1) + 1] = p \o (b \o f[i + 1])
        BY <3>3, <3>4, <3>5, <3>6, <3>7
      <3> QED
        BY <2>1, <3>8 DEF b
    <2> QED
      BY <2>2, <2>3
  <1>12. \A i \in 0 .. n : i \in T
    <2> HIDE DEF T
    <2> QED
      BY <1>1, <1>10, <1>11, IntervalInduction
  <1>13. g[n + 1] = p \o (<<c>> \o f[n])
    <2>1. n \in T
      <3> HIDE DEF T
      <3> QED
        BY <1>1, <1>12
    <2> QED
      BY <1>1, <2>1
  <1> QED
    BY <1>3, <1>4, <1>6, <1>7, <1>13 DEF x, y, r

(* q is what splitting the text from pos on gives.                         *)
Free(p, c) == \A k \in DOMAIN p : p[k] # c
Parts(q, t, c, A, pos) ==
  /\ q \in Seq(Seq(A)) /\ q # <<>>
  /\ Len(q) = 1 + Cardinality(Seps(t, c, pos))
  /\ \A i \in DOMAIN q : Free(q[i], c)
  /\ FlattenSeq(Spaced(q, c)) = SubSeq(t, pos + 1, Len(t))

LEMMA Before ==
  ASSUME NEW S, NEW e \in S, NEW q \in Seq(S)
  PROVE  LET r == <<e>> \o q
         IN  /\ r \in Seq(S) /\ r # <<>> /\ Len(r) = 1 + Len(q) /\ DOMAIN r = 1 .. 1 + Len(q)
             /\ r[1] = e /\ \A i \in 1 .. Len(q) : r[i + 1] = q[i]
             /\ \A i \in 2 .. 1 + Len(q) : r[i] = q[i - 1]
  <1>1. PICK u, r : u = <<e>> /\ r = u \o q
    OBVIOUS
  <1>2. u \in Seq(S) /\ Len(u) = 1 /\ u[1] = e /\ Len(q) \in Nat
    BY <1>1
  <1>3. /\ r \in Seq(S) /\ Len(r) = 1 + Len(q)
        /\ \A i \in 1 .. 1 + Len(q) : r[i] = IF i <= 1 THEN u[i] ELSE q[i - 1]
    BY <1>1, <1>2, ConcatProperties
  <1>4. r # <<>> /\ DOMAIN r = 1 .. 1 + Len(q)
    BY <1>2, <1>3
  <1>5. 1 \in 1 .. 1 + Len(q) /\ (\A i \in 1 .. Len(q) : i + 1 \in 1 .. 1 + Len(q) /\ ~(i + 1 <= 1) /\ i + 1 - 1 = i)
        /\ \A i \in 2 .. 1 + Len(q) : i \in 1 .. 1 + Len(q) /\ ~(i <= 1)
    BY <1>2
  <1>6. r[1] = e /\ (\A i \in 1 .. Len(q) : r[i + 1] = q[i]) /\ \A i \in 2 .. 1 + Len(q) : r[i] = q[i - 1]
    BY <1>2, <1>3, <1>5
  <1> QED
    BY <1>1, <1>3, <1>4, <1>6

LEMMA SepsFinite ==
  ASSUME NEW A, NEW t \in Seq(A), NEW c, NEW pos
  PROVE  IsFiniteSet(Seps(t, c, pos)) /\ Cardinality(Seps(t, c, pos)) \in Nat
  <1>1. 0 \in Int /\ Len(t) - 1 \in Int
    OBVIOUS
  <1>2. IsFiniteSet(0 .. Len(t) - 1)
    BY <1>1, FS_Interval
  <1>3. Seps(t, c, pos) \subseteq 0 .. Len(t) - 1
    BY DEF Seps
  <1> QED
    BY <1>2, <1>3, FS_Subset, FS_CardinalityType

LEMMA LastPart ==
  ASSUME NEW A, NEW c \in A, NEW t \in Seq(A), NEW pos \in 0 .. Len(t), Seps(t, c, pos) = {}
  PROVE  Parts(<<SubSeq(t, pos + 1, Len(t))>>, t, c, A, pos)
  <1> DEFINE n == Len(t)
             sz == n - pos
  <1>1. n \in Nat /\ pos \in Nat /\ sz \in Nat /\ pos + sz = n
    OBVIOUS
  <1>2. PICK p : p = Up(t, [at |-> pos, size |-> sz])
    OBVIOUS
  <1>3. p = SubSeq(t, pos + 1, pos + sz) /\ p \in Seq(A) /\ Len(p) = sz /\ \A k \in 1 .. sz : p[k] = t[pos + k]
    <2> HIDE DEF sz
    <2> QED
      BY <1>1, <1>2, UpInside
  <1>4. Free(p, c)
    <2>0. DOMAIN p = 1 .. sz
      <3>1. DOMAIN p = 1 .. Len(p)
        BY <1>3
      <3>2. Len(p) = sz
        BY <1>3
      <3> QED
        BY <3>1, <3>2
    <2> SUFFICES ASSUME NEW k \in 1 .. sz PROVE p[k] # c
      BY <2>0 DEF Free
    <2>1. pos + k - 1 \in 0 .. n - 1 /\ pos + k - 1 >= pos /\ (pos + k - 1) + 1 = pos + k
      BY <1>1
    <2>2. t[(pos + k - 1) + 1] # c
      BY <2>1 DEF Seps
    <2> QED
      BY <1>3, <2>1, <2>2
  <1>5. PICK q : q = <<p>>
    OBVIOUS
  <1>6. q \in Seq(Seq(A)) /\ q # <<>> /\ Len(q) = 1 /\ DOMAIN q = {1} /\ q[1] = p
    BY <1>3, <1>5
  <1>7. Cardinality(Seps(t, c, pos)) = 0
    BY FS_EmptySet
  <1>8. FlattenSeq(Spaced(<<p>>, c)) = p
    BY <1>3, JoinOne
  <1> HIDE DEF sz
  <1>9. p = SubSeq(t, pos + 1, Len(t))
    BY <1>1, <1>3
  <1>10. Parts(q, t, c, A, pos)
    <2>1. Len(q) = 1 + Cardinality(Seps(t, c, pos))
      BY <1>6, <1>7
    <2>2. \A i \in DOMAIN q : Free(q[i], c)
      BY <1>4, <1>6
    <2>3. FlattenSeq(Spaced(q, c)) = SubSeq(t, pos + 1, Len(t))
      BY <1>5, <1>8, <1>9
    <2> QED
      BY <1>6, <2>1, <2>2, <2>3 DEF Parts
  <1> QED
    BY <1>5, <1>9, <1>10

LEMMA PartBefore ==
  ASSUME NEW A, NEW c \in A, NEW t \in Seq(A), NEW pos \in 0 .. Len(t),
         NEW i \in Seps(t, c, pos), \A y \in Seps(t, c, pos) : i <= y,
         NEW q, Parts(q, t, c, A, i + 1)
  PROVE  Parts(<<Up(t, [at |-> pos, size |-> i - pos])>> \o q, t, c, A, pos)
  <1> DEFINE n == Len(t)
             sz == i - pos
  <1>1. n \in Nat /\ pos \in Nat /\ sz \in Nat /\ i \in pos .. n - 1 /\ t[i + 1] = c /\ pos + sz = i
    BY DEF Seps
  <1>2. PICK p : p = Up(t, [at |-> pos, size |-> sz])
    OBVIOUS
  <1>3. p = SubSeq(t, pos + 1, pos + sz) /\ p \in Seq(A) /\ Len(p) = sz /\ \A k \in 1 .. sz : p[k] = t[pos + k]
    <2> HIDE DEF sz
    <2> QED
      BY <1>1, <1>2, UpInside
  <1>4. Free(p, c)
    <2>0. DOMAIN p = 1 .. sz
      <3>1. DOMAIN p = 1 .. Len(p)
        BY <1>3
      <3>2. Len(p) = sz
        BY <1>3
      <3> QED
        BY <3>1, <3>2
    <2> SUFFICES ASSUME NEW k \in 1 .. sz PROVE p[k] # c
      BY <2>0 DEF Free
    <2>1. pos + k - 1 \in 0 .. n - 1 /\ pos + k - 1 >= pos /\ (pos + k - 1) + 1 = pos + k /\ ~(i <= pos + k - 1)
      BY <1>1
    <2>2. t[(pos + k - 1) + 1] # c
      BY <2>1 DEF Seps
    <2> QED
      BY <1>3, <2>1, <2>2
  <1>5. q \in Seq(Seq(A)) /\ q # <<>> /\ Len(q) = 1 + Cardinality(Seps(t, c, i + 1))
        /\ (\A j \in DOMAIN q : Free(q[j], c)) /\ FlattenSeq(Spaced(q, c)) = SubSeq(t, i + 1 + 1, n)
    BY DEF Parts
  <1>6. PICK r : r = <<p>> \o q
    OBVIOUS
  <1>7. /\ r \in Seq(Seq(A)) /\ r # <<>> /\ Len(r) = 1 + Len(q) /\ DOMAIN r = 1 .. 1 + Len(q)
        /\ r[1] = p /\ \A j \in 2 .. 1 + Len(q) : r[j] = q[j - 1]
    <2> DEFINE S == Seq(A)
    <2>1. p \in S /\ q \in Seq(S)
      BY <1>3, <1>5
    <2> HIDE DEF S
    <2>2. /\ <<p>> \o q \in Seq(S) /\ <<p>> \o q # <<>> /\ Len(<<p>> \o q) = 1 + Len(q) /\ DOMAIN (<<p>> \o q) = 1 .. 1 + Len(q)
          /\ (<<p>> \o q)[1] = p /\ \A j \in 2 .. 1 + Len(q) : (<<p>> \o q)[j] = q[j - 1]
      BY <2>1, Before
    <2> QED
      BY <1>6, <2>2 DEF S
  <1>8. ASSUME NEW j \in DOMAIN r PROVE Free(r[j], c)
    <2>1. Len(q) \in Nat /\ DOMAIN q = 1 .. Len(q) /\ j \in 1 .. 1 + Len(q)
      BY <1>5, <1>7
    <2>2. CASE j = 1
      BY <1>4, <1>7, <2>2
    <2>3. CASE j # 1
      <3>1. j \in 2 .. 1 + Len(q) /\ j - 1 \in DOMAIN q
        BY <2>1, <2>3
      <3> QED
        BY <1>5, <1>7, <3>1
    <2> QED
      BY <2>2, <2>3
  <1>9. Cardinality(Seps(t, c, pos)) = 1 + Cardinality(Seps(t, c, i + 1))
    <2> DEFINE S == Seps(t, c, i + 1)
    <2>1. Seps(t, c, pos) = S \cup {i} /\ i \notin S
      BY <1>1 DEF Seps
    <2>3. IsFiniteSet(S)
      BY SepsFinite
    <2> HIDE DEF S
    <2>4. Cardinality(S \cup {i}) = Cardinality(S) + 1 /\ Cardinality(S) \in Nat
      BY <2>1, <2>3, FS_AddElement, FS_CardinalityType
    <2> QED
      BY <2>1, <2>4 DEF S
  <1>10. FlattenSeq(Spaced(<<p>> \o q, c)) = p \o (<<c>> \o FlattenSeq(Spaced(q, c)))
    <2> USE <1>3, <1>5
    <2> QED
      BY ONLY c \in A, p \in Seq(A), q \in Seq(Seq(A)), q # <<>>, JoinMore
  <1>11. p \o (<<c>> \o SubSeq(t, i + 1 + 1, n)) = SubSeq(t, pos + 1, n)
    <2>1. PICK a : a = Up(t, [at |-> i + 1, size |-> n - (i + 1)])
      OBVIOUS
    <2>2. PICK b : b = Up(t, [at |-> pos, size |-> n - pos])
      OBVIOUS
    <2>3. i + 1 \in Nat /\ n - (i + 1) \in Nat /\ (i + 1) + (n - (i + 1)) = n
          /\ n - pos \in Nat /\ pos + (n - pos) = n
      BY <1>1
    <2>4. a = SubSeq(t, i + 1 + 1, n) /\ a \in Seq(A) /\ Len(a) = n - (i + 1)
          /\ \A k \in 1 .. n - (i + 1) : a[k] = t[i + 1 + k]
      <3> DEFINE m == n - (i + 1)
                 e == i + 1
      <3>1. e \in Nat /\ m \in Nat /\ e + m <= Len(t) /\ e + m = n
        BY <2>3
      <3> HIDE DEF e, m
      <3>2. Up(t, [at |-> e, size |-> m]) = SubSeq(t, e + 1, e + m)
            /\ Up(t, [at |-> e, size |-> m]) \in Seq(A) /\ Len(Up(t, [at |-> e, size |-> m])) = m
            /\ \A k \in 1 .. m : Up(t, [at |-> e, size |-> m])[k] = t[e + k]
        <4> USE <3>1
        <4> QED
          BY ONLY t \in Seq(A), e \in Nat, m \in Nat, e + m <= Len(t), UpInside
      <3> QED
        BY <2>1, <2>3, <3>1, <3>2 DEF e, m
    <2>5. b = SubSeq(t, pos + 1, n) /\ b \in Seq(A) /\ Len(b) = n - pos
          /\ \A k \in 1 .. n - pos : b[k] = t[pos + k]
      <3> DEFINE m == n - pos
      <3>1. pos \in Nat /\ m \in Nat /\ pos + m <= Len(t) /\ pos + m = n
        BY <1>1, <2>3
      <3> HIDE DEF m
      <3>2. Up(t, [at |-> pos, size |-> m]) = SubSeq(t, pos + 1, pos + m)
            /\ Up(t, [at |-> pos, size |-> m]) \in Seq(A) /\ Len(Up(t, [at |-> pos, size |-> m])) = m
            /\ \A k \in 1 .. m : Up(t, [at |-> pos, size |-> m])[k] = t[pos + k]
        BY <3>1, UpInside
      <3> QED
        BY <2>2, <3>1, <3>2 DEF m
    <2>6. PICK d : d = <<c>> \o a
      OBVIOUS
    <2>7. d \in Seq(A) /\ Len(d) = n - i /\ d[1] = c /\ \A k \in 2 .. n - i : d[k] = t[i + k]
      <3>1. /\ d \in Seq(A) /\ Len(d) = 1 + Len(a) /\ d[1] = c
            /\ \A k \in 2 .. 1 + Len(a) : d[k] = a[k - 1]
        BY <2>4, <2>6, Before
      <3>2. ASSUME NEW k \in 2 .. n - i PROVE d[k] = t[i + k]
        <4>1. k - 1 \in 1 .. n - (i + 1) /\ i + 1 + (k - 1) = i + k /\ k \in 2 .. 1 + (n - (i + 1))
          BY <1>1
        <4> QED
          BY <2>4, <3>1, <4>1
      <3>3. 1 + (n - (i + 1)) = n - i
        BY <1>1
      <3>4. Len(d) = n - i
        BY <2>4, <3>1, <3>3
      <3> QED
        BY <3>1, <3>2, <3>4
    <2>8. PICK f : f = p \o d
      OBVIOUS
    <2>9. f \in Seq(A) /\ Len(f) = n - pos
          /\ \A k \in 1 .. n - pos : f[k] = IF k <= i - pos THEN p[k] ELSE d[k - (i - pos)]
      <3>1. f \in Seq(A) /\ Len(f) = Len(p) + Len(d)
            /\ \A k \in 1 .. Len(p) + Len(d) : f[k] = IF k <= Len(p) THEN p[k] ELSE d[k - Len(p)]
        <4> USE <1>3, <2>7
        <4>1. /\ p \o d \in Seq(A) /\ Len(p \o d) = Len(p) + Len(d)
              /\ \A k \in 1 .. Len(p) + Len(d) : (p \o d)[k] = IF k <= Len(p) THEN p[k] ELSE d[k - Len(p)]
          BY ONLY p \in Seq(A), d \in Seq(A), ConcatProperties
        <4> QED
          BY ONLY <4>1, <2>8
      <3>2. Len(p) = i - pos /\ Len(p) + Len(d) = n - pos
        <4>1. sz + (n - i) = n - pos
          BY <1>1
        <4>2. Len(p) = sz /\ Len(d) = n - i
          BY <1>3, <2>7
        <4> QED
          BY <4>1, <4>2
      <3> QED
        BY <3>1, <3>2
    <2>10. ASSUME NEW k \in 1 .. n - pos PROVE f[k] = b[k]
      <3>1. CASE k <= i - pos
        <4>1. k \in 1 .. sz
          BY <1>1, <3>1
        <4> QED
          BY <1>3, <2>5, <2>9, <3>1, <4>1
      <3>2. CASE k = i - pos + 1
        <4>1. k - (i - pos) = 1 /\ pos + k = i + 1 /\ ~(k <= i - pos)
          BY <1>1, <3>2
        <4>2. f[k] = d[1] /\ b[k] = t[i + 1]
          BY <2>5, <2>9, <4>1
        <4> QED
          BY <1>1, <2>7, <4>2
      <3>3. CASE k > i - pos + 1
        <4>1. k - (i - pos) \in 2 .. n - i /\ i + (k - (i - pos)) = pos + k /\ ~(k <= i - pos)
          BY <1>1, <3>3
        <4> QED
          BY <2>5, <2>7, <2>9, <4>1
      <3> QED
        BY <1>1, <3>1, <3>2, <3>3
    <2>11. f = b
      BY <1>1, <2>5, <2>9, <2>10, SeqEqual
    <2> QED
      BY <2>4, <2>5, <2>6, <2>8, <2>11
  <1>12. Cardinality(Seps(t, c, i + 1)) \in Nat
    BY SepsFinite
  <1>13. Parts(r, t, c, A, pos)
    BY <1>5, <1>6, <1>7, <1>8, <1>9, <1>10, <1>11, <1>12 DEF Parts
  <1> QED
    BY <1>2, <1>6, <1>13

(* Splitting from the start of a part gives the parts from there on.       *)
Starts(t, c) == {pos \in 0 .. Len(t) : pos = 0 \/ t[pos] = c}

LEMMA PartsFromStart ==
  ASSUME NEW A, NEW c \in A, NEW t \in Seq(A), t # <<>>, NEW f, Visits(t, c, A, f)
  PROVE  \A pos \in Starts(t, c) : Parts(f[pos], t, c, A, pos)
  <1> DEFINE n == Len(t)
             Bad == {m \in Nat : m <= n /\ n - m \in Starts(t, c) /\ ~Parts(f[n - m], t, c, A, n - m)}
  <1>1. n \in Nat /\ n > 0
    OBVIOUS
  <1>2. SUFFICES ASSUME Bad # {} PROVE FALSE
    <2> SUFFICES ASSUME NEW pos \in Starts(t, c), ~Parts(f[pos], t, c, A, pos) PROVE Bad # {}
      OBVIOUS
    <2>1. n - pos \in Nat /\ n - pos <= n /\ n - (n - pos) = pos
      BY <1>1 DEF Starts
    <2> HIDE DEF n
    <2>2. n - pos \in Bad
      BY <2>1
    <2> QED
      BY <2>2
  <1>3. PICK m \in Bad : \A y \in Bad : m <= y
    BY <1>2, LeastElement
  <1>4. PICK pos : pos = n - m
    OBVIOUS
  <1>5. pos \in Starts(t, c) /\ ~Parts(f[pos], t, c, A, pos) /\ m \in Nat /\ m <= n
    BY <1>4
  <1>6. pos \in 0 .. n /\ pos \in 0 .. n + 1
    BY <1>1, <1>5 DEF Starts
  <1>7. ASSUME NEW p \in Starts(t, c), p > pos PROVE Parts(f[p], t, c, A, p)
    <2> SUFFICES ASSUME ~Parts(f[p], t, c, A, p) PROVE FALSE
      OBVIOUS
    <2>1. p \in Nat /\ n - p \in Nat /\ n - p <= n /\ n - (n - p) = p /\ n - p < m
      BY <1>1, <1>4, <1>5, <1>6, <1>7 DEF Starts
    <2> HIDE DEF n
    <2>2. n - p \in Bad
      BY <2>1
    <2> HIDE DEF Bad
    <2>3. m <= n - p /\ n - p \in Nat /\ m \in Nat
      BY <1>3, <1>5, <2>1, <2>2
    <2> QED
      BY <2>1, <2>3
  <1> HIDE DEF Bad
  <1>8. PICK p, o : p = NextSplit(t, c, pos).pos /\ o = NextSplit(t, c, pos).out
    OBVIOUS
  <1>9. f[pos] = IF p = n + 1 /\ o = [at |-> n + 1, size |-> 0] THEN <<>> ELSE <<Up(t, o)>> \o f[p]
    BY <1>6, <1>8 DEF Visits
  <1>10. f[n + 1] = <<>>
    <2>1. n + 1 \in 0 .. n + 1
      BY <1>1
    <2>2. NextSplit(t, c, n + 1).pos = n + 1 /\ NextSplit(t, c, n + 1).out = [at |-> n + 1, size |-> 0]
      BY StopIsPastEnd
    <2> QED
      BY <2>1, <2>2 DEF Visits
  <1>11. /\ pos < n /\ Seps(t, c, pos) # {} =>
              /\ p - 1 \in Seps(t, c, pos) /\ \A y \in Seps(t, c, pos) : p - 1 <= y
              /\ p \in pos + 1 .. n /\ o = [at |-> pos, size |-> p - 1 - pos]
         /\ pos < n /\ Seps(t, c, pos) = {} => p = n + 1 /\ o = [at |-> pos, size |-> n - pos]
         /\ pos = n => p = n + 1 /\ o = [at |-> IF t[n] = c THEN n ELSE n + 1, size |-> 0]
    <2>1. NextIs(t, c, pos, p, o)
      BY <1>6, <1>8, NextSplitCases
    <2> QED
      BY <1>1, <2>1 DEF NextIs
  <1> HIDE DEF n
  <1>12. CASE pos < n /\ Seps(t, c, pos) # {}
    <2>1. PICK i : i = p - 1
      OBVIOUS
    <2>2. i \in Seps(t, c, pos) /\ (\A y \in Seps(t, c, pos) : i <= y)
          /\ i \in pos .. n - 1 /\ p = i + 1 /\ o = [at |-> pos, size |-> i - pos] /\ p # n + 1
      BY <1>1, <1>6, <1>11, <1>12, <2>1
    <2>3. p \in Starts(t, c) /\ p > pos
      <3>1. t[i + 1] = c
        BY <2>2 DEF Seps
      <3>2. i + 1 \in 0 .. Len(t) /\ i + 1 > pos
        BY <1>1, <1>6, <2>2 DEF n
      <3> QED
        BY <2>2, <3>1, <3>2 DEF Starts
    <2>4. PICK q : q = f[p]
      OBVIOUS
    <2>5. Parts(q, t, c, A, i + 1)
      BY <1>7, <2>2, <2>3, <2>4
    <2>6. f[pos] = <<Up(t, [at |-> pos, size |-> i - pos])>> \o q
      BY <1>9, <2>2, <2>4
    <2>7. Parts(<<Up(t, [at |-> pos, size |-> i - pos])>> \o q, t, c, A, pos)
      <3>1. pos \in 0 .. Len(t)
        BY <1>6 DEF n
      <3> QED
        BY <2>2, <2>5, <3>1, PartBefore
    <2> QED
      BY <1>5, <2>6, <2>7
  <1>13. CASE Seps(t, c, pos) = {} /\ o = [at |-> pos, size |-> n - pos] /\ p = n + 1 /\ pos # n + 1
    <2>1. pos \in Nat /\ n - pos \in Nat /\ pos + (n - pos) = n
      BY <1>1, <1>6
    <2>2. Up(t, o) = SubSeq(t, pos + 1, n)
      BY <1>13, <2>1 DEF Up
    <2>3. f[pos] = <<Up(t, o)>> \o <<>>
      <3>1. o # [at |-> n + 1, size |-> 0]
        BY <1>13
      <3> QED
        BY <1>9, <1>10, <1>13, <3>1
    <2>4. f[pos] = <<Up(t, o)>>
      BY <2>3
    <2>5. Parts(<<SubSeq(t, pos + 1, n)>>, t, c, A, pos)
      <3>1. pos \in 0 .. Len(t)
        BY <1>6 DEF n
      <3> QED
        BY <1>13, <3>1, LastPart DEF n
    <2> QED
      BY <1>5, <2>2, <2>4, <2>5
  <1>14. CASE pos = n
    <2>1. t[n] = c
      BY <1>1, <1>5, <1>14 DEF Starts
    <2>2. Seps(t, c, pos) = {}
      BY <1>14, <1>1 DEF Seps, n
    <2>3. p = n + 1 /\ o = [at |-> n, size |-> 0] /\ n - pos = 0 /\ pos # n + 1
      BY <1>1, <1>11, <1>14, <2>1
    <2> QED
      BY <1>13, <1>14, <2>2, <2>3
  <1>15. CASE pos < n /\ Seps(t, c, pos) = {}
    <2>1. pos # n + 1
      BY <1>1, <1>6, <1>15
    <2> QED
      BY <1>11, <1>13, <1>15, <2>1
  <1>16. pos < n \/ pos = n
    BY <1>1, <1>6
  <1> QED
    BY <1>12, <1>14, <1>15, <1>16

LEMMA SplitsJoinAlways ==
  ASSUME NEW A, NEW c \in A, NEW t \in Seq(A)
  PROVE  SplitsJoinOf(t, c)
  <1>1. PICK f : Visits(t, c, A, f) /\ Splits(t, c) = f[0]
    BY SplitsDef
  <1>2. CASE t = <<>>
    <2>1. Len(t) = 0 /\ 0 \in 0 .. Len(t) + 1
      BY <1>2
    <2>2. NextSplit(t, c, 0).pos = Len(t) + 1 /\ NextSplit(t, c, 0).out = [at |-> Len(t) + 1, size |-> 0]
      BY <2>1 DEF NextSplit
    <2>3. f[0] = <<>>
      BY <1>1, <2>1, <2>2 DEF Visits
    <2>4. Len(Splits(t, c)) = 0 /\ DOMAIN Splits(t, c) = {}
      BY <1>1, <2>3
    <2> QED
      BY <1>2, <2>4 DEF SplitsJoinOf, NumSplits
  <1>3. CASE t # <<>>
    <2>1. 0 \in Starts(t, c)
      BY DEF Starts
    <2>2. Parts(f[0], t, c, A, 0)
      BY <1>1, <1>3, <2>1, PartsFromStart
    <2>3. Count(t, Whole(t), c) = Cardinality(Seps(t, c, 0))
      <3>1. \A i \in 0 .. Len(t) - 1 : t[0 + i + 1] = t[i + 1] /\ i >= 0
        OBVIOUS
      <3>2. Places(t, Whole(t), c, TRUE) = Seps(t, c, 0)
        BY <3>1 DEF Places, Whole, Seps
      <3> QED
        BY <3>2 DEF Count
    <2>4. SubSeq(t, 1, Len(t)) = t
      BY SubSeqFull
    <2>5. Len(f[0]) = NumSplits(t, c)
      BY <1>3, <2>2, <2>3 DEF NumSplits, Parts
    <2>6. \A i \in DOMAIN f[0] : \A k \in DOMAIN f[0][i] : f[0][i][k] # c
      BY <2>2 DEF Parts, Free
    <2>7. FlattenSeq([i \in DOMAIN f[0] |-> IF i = 1 THEN f[0][i] ELSE <<c>> \o f[0][i]]) = t
      <3>1. 0 + 1 = 1
        OBVIOUS
      <3> QED
        BY <2>2, <2>4, <3>1 DEF Parts, Spaced
    <2> QED
      BY <1>1, <2>5, <2>6, <2>7 DEF SplitsJoinOf
  <1> QED
    BY <1>2, <1>3

(* With careful clients, splitting the string wherever the edits have left *)
(* it gives num_splits() parts without the separator, which joined are the *)
(* string: none is lost or doubled, at its ends or between separators      *)
(* (next_split, split, string.hpp:1814-1961).  It holds of every text.     *)
THEOREM SplitsAlwaysJoin == Careful /\ Spec => []SplitsJoin
<1>1. IInv => SplitsJoin
  <2> SUFFICES ASSUME IInv PROVE SplitsJoinOf(line, Slash)
    BY DEF SplitsJoin
  <2>1. line \in Seq(Symbols)
    BY DEF IInv, LineSound, Fit, Sane, Strings, Symbols
  <2>2. Slash \in Symbols
    BY StringAssumption DEF Symbols
  <2> QED
    BY <2>1, <2>2, SplitsJoinAlways
<1> QED
  BY <1>1, Inductive, PTL

-----------------------------------------------------------------------------
(* A text is parted by its separators in one way, so the steps of two      *)
(* texts with separators between them are those of the one and then those  *)
(* of the other; the pops part a text at separators.                       *)

Holding(h, q, S) ==
  /\ h \in [0 .. Len(q) -> Seq(S)] /\ h[0] = <<>>
  /\ \A k \in 1 .. Len(q) : h[k] = IF q[k] # <<>> THEN Append(h[k - 1], q[k]) ELSE h[k - 1]

LEMMA HeldDef ==
  ASSUME NEW S, NEW q \in Seq(S)
  PROVE  \E h : Holding(h, q, S) /\ Held(q) = h[Len(q)]
  <1> DEFINE m == Len(q)
             R == Seq(S)
             step == [k \in 1 .. m |-> [s \in R |-> IF q[k] # <<>> THEN Append(s, q[k]) ELSE s]]
             F(g) == [k \in 0 .. m |->
                        IF k = 0 THEN <<>>
                        ELSE IF q[k] # <<>> THEN Append(g[k - 1], q[k]) ELSE g[k - 1]]
  <1>1. m \in Nat /\ <<>> \in R /\ (\A k \in 1 .. m : q[k] \in S)
    OBVIOUS
  <1>2. \A r \in R, e \in S : Append(r, e) \in R
    OBVIOUS
  <1>3. \A k \in 1 .. m : /\ \A s \in R : step[k][s] = IF q[k] # <<>> THEN Append(s, q[k]) ELSE s
                          /\ step[k] \in [R -> R]
    <2> HIDE DEF R, m
    <2> QED
      BY <1>1, <1>2
  <1>4. StepsIn(step, m, R)
    <2>1. step = [k \in 1 .. m |-> step[k]]
      OBVIOUS
    <2> HIDE DEF R, m, step
    <2> QED
      BY <1>3, <2>1 DEF StepsIn
  <1>5. PICK g : Iterates(g, step, m, R, <<>>)
    <2> HIDE DEF step, m, R
    <2> QED
      BY <1>1, <1>4, NamedIteration
  <1>6. /\ g \in [0 .. m -> R] /\ g[0] = <<>>
        /\ \A k \in 1 .. m : g[k] = IF q[k] # <<>> THEN Append(g[k - 1], q[k]) ELSE g[k - 1]
    <2>1. g \in [0 .. m -> R] /\ g[0] = <<>> /\ \A k \in 1 .. m : g[k] = step[k][g[k - 1]]
      BY <1>5 DEF Iterates
    <2>2. ASSUME NEW k \in 1 .. m
          PROVE  g[k] = IF q[k] # <<>> THEN Append(g[k - 1], q[k]) ELSE g[k - 1]
      <3>1. g[k - 1] \in R
        BY <1>1, <2>1, SMTT(30)
      <3> HIDE DEF step, R, m
      <3> QED
        BY <1>3, <2>1, <3>1
    <2> QED
      BY <2>1, <2>2
  <1>7. g = F(g)
    <2>1. g = [k \in 0 .. m |-> g[k]]
      BY <1>6
    <2>2. ASSUME NEW k \in 0 .. m PROVE g[k] = F(g)[k]
      <3>1. F(g)[k] = IF k = 0 THEN <<>>
                      ELSE IF q[k] # <<>> THEN Append(g[k - 1], q[k]) ELSE g[k - 1]
        OBVIOUS
      <3>2. k # 0 => k \in 1 .. m
        BY <1>1
      <3> HIDE DEF F, m
      <3> QED
        BY <1>6, <3>1, <3>2
    <2> QED
      BY <2>1, <2>2
  <1>8. PICK w : w = F(w) /\ Held(q) = w[m]
    <2> DEFINE h == CHOOSE x : x = F(x)
    <2>1. Held(q) = h[m]
      BY DEF Held, m
    <2>2. h = F(h)
      <3> HIDE DEF F
      <3> QED
        BY <1>7
    <2> HIDE DEF h, F
    <2> QED
      BY <2>1, <2>2
  <1>9. w[0] = <<>> /\ \A k \in 1 .. m : w[k] = IF q[k] # <<>> THEN Append(w[k - 1], q[k]) ELSE w[k - 1]
    <2>1. \A k \in 0 .. m : w[k] = IF k = 0 THEN <<>>
                      ELSE IF q[k] # <<>> THEN Append(w[k - 1], q[k]) ELSE w[k - 1]
      BY <1>8
    <2>2. 0 \in 0 .. m /\ \A k \in 1 .. m : k \in 0 .. m /\ k # 0
      BY <1>1
    <2> QED
      BY <2>1, <2>2
  <1> DEFINE T == {k \in 0 .. m : w[k] \in R}
  <1>10. 0 \in T
    <2>1. 0 \in 0 .. m
      BY <1>1
    <2> HIDE DEF R, F
    <2> QED
      BY <1>1, <1>9, <2>1
  <1>11. ASSUME NEW k \in 0 .. m - 1, k \in T PROVE k + 1 \in T
    <2>1. k + 1 \in 1 .. m /\ k + 1 \in 0 .. m /\ (k + 1) - 1 = k /\ w[k] \in R
      BY <1>1, <1>11
    <2>2. w[k + 1] = IF q[k + 1] # <<>> THEN Append(w[k], q[k + 1]) ELSE w[k]
      BY <1>9, <2>1
    <2>3. q[k + 1] \in S
      BY <1>1, <2>1
    <2> HIDE DEF R
    <2>4. w[k + 1] \in R
      BY <1>2, <2>1, <2>2, <2>3
    <2> QED
      BY <2>1, <2>4
  <1>12. \A k \in 0 .. m : k \in T
    <2> HIDE DEF T, m
    <2> QED
      BY <1>1, <1>10, <1>11, IntervalInduction
  <1>13. w \in [0 .. m -> R]
    <2>1. w = [k \in 0 .. m |-> w[k]]
      BY <1>8
    <2>2. \A k \in 0 .. m : w[k] \in R
      BY <1>12
    <2> HIDE DEF R, m, F
    <2> QED
      BY <2>1, <2>2
  <1>14. Holding(w, q, S)
    BY <1>9, <1>13 DEF Holding
  <1> QED
    BY <1>8, <1>14

LEMMA HeldShort ==
  ASSUME NEW S, NEW p \in S
  PROVE  Held(<<>>) = <<>> /\ Held(<<p>>) = IF p # <<>> THEN <<p>> ELSE <<>>
  <1>1. Held(<<>>) = <<>>
    <2>1. <<>> \in Seq(S) /\ Len(<<>>) = 0
      OBVIOUS
    <2>2. PICK h : Holding(h, <<>>, S) /\ Held(<<>>) = h[Len(<<>>)]
      BY <2>1, HeldDef
    <2> QED
      BY <2>1, <2>2 DEF Holding
  <1>2. PICK q : q = <<p>>
    OBVIOUS
  <1>3. q \in Seq(S) /\ Len(q) = 1 /\ q[1] = p
    BY <1>2
  <1>4. PICK h : Holding(h, q, S) /\ Held(q) = h[Len(q)]
    BY <1>3, HeldDef
  <1>5. h[0] = <<>> /\ h[1] = IF p # <<>> THEN Append(h[0], p) ELSE h[0]
    <2>1. 1 \in 1 .. 1 /\ 1 - 1 = 0
      OBVIOUS
    <2> QED
      BY <1>3, <1>4, <2>1 DEF Holding
  <1>6. Append(<<>>, p) = <<p>>
    OBVIOUS
  <1> QED
    BY <1>1, <1>2, <1>3, <1>4, <1>5, <1>6

LEMMA HeldIsParts ==
  ASSUME NEW S, NEW q \in Seq(S)
  PROVE  Held(q) \in Seq(S)
  <1>1. PICK h : Holding(h, q, S) /\ Held(q) = h[Len(q)]
    BY HeldDef
  <1>2. Len(q) \in 0 .. Len(q)
    OBVIOUS
  <1> QED
    BY <1>1, <1>2 DEF Holding

LEMMA HeldConcat ==
  ASSUME NEW S, NEW q \in Seq(S), NEW r \in Seq(S)
  PROVE  Held(q \o r) = Held(q) \o Held(r)
  <1>1. PICK x : x = q \o r
    OBVIOUS
  <1>2. PICK m, n : m = Len(q) /\ n = Len(r)
    OBVIOUS
  <1>3. /\ x \in Seq(S) /\ Len(x) = m + n /\ m \in Nat /\ n \in Nat
        /\ \A k \in 1 .. m + n : x[k] = IF k <= m THEN q[k] ELSE r[k - m]
    BY <1>1, <1>2, ConcatProperties
  <1>4. PICK f : Holding(f, q, S) /\ Held(q) = f[m]
    BY <1>2, HeldDef
  <1>5. PICK g : Holding(g, r, S) /\ Held(r) = g[n]
    BY <1>2, HeldDef
  <1>6. PICK h : Holding(h, x, S) /\ Held(x) = h[m + n]
    BY <1>3, HeldDef
  <1>7. /\ f \in [0 .. m -> Seq(S)] /\ f[0] = <<>>
        /\ \A k \in 1 .. m : f[k] = IF q[k] # <<>> THEN Append(f[k - 1], q[k]) ELSE f[k - 1]
    BY <1>2, <1>4 DEF Holding
  <1>8. /\ g \in [0 .. n -> Seq(S)] /\ g[0] = <<>>
        /\ \A k \in 1 .. n : g[k] = IF r[k] # <<>> THEN Append(g[k - 1], r[k]) ELSE g[k - 1]
    BY <1>2, <1>5 DEF Holding
  <1>9. /\ h[0] = <<>>
        /\ \A k \in 1 .. m + n : h[k] = IF x[k] # <<>> THEN Append(h[k - 1], x[k]) ELSE h[k - 1]
    BY <1>3, <1>6 DEF Holding
  <1> DEFINE T == {k \in 0 .. m : h[k] = f[k]}
             U == {k \in 0 .. n : h[m + k] = f[m] \o g[k]}
  <1>10. 0 \in T
    BY <1>3, <1>7, <1>9
  <1>11. ASSUME NEW k \in 0 .. m - 1, k \in T PROVE k + 1 \in T
    <2>1. k + 1 \in 1 .. m /\ k + 1 \in 0 .. m /\ k + 1 \in 1 .. m + n /\ (k + 1) - 1 = k /\ k + 1 <= m
      BY <1>3
    <2>2. x[k + 1] = q[k + 1]
      BY <1>3, <2>1
    <2> QED
      BY <1>7, <1>9, <1>11, <2>1, <2>2
  <1>12. \A k \in 0 .. m : k \in T
    <2> HIDE DEF T
    <2> QED
      BY <1>3, <1>10, <1>11, IntervalInduction
  <1>13. 0 \in U
    <2>1. h[m] = f[m] /\ f[m] \in Seq(S)
      BY <1>3, <1>7, <1>12
    <2>2. f[m] \o <<>> = f[m]
      BY <2>1, ConcatEmptySeq
    <2>3. m + 0 = m /\ 0 \in 0 .. n
      BY <1>3
    <2> HIDE DEF T
    <2> QED
      BY <1>8, <2>1, <2>2, <2>3
  <1>14. ASSUME NEW k \in 0 .. n - 1, k \in U PROVE k + 1 \in U
    <2>1. /\ k + 1 \in 1 .. n /\ k + 1 \in 0 .. n /\ m + (k + 1) \in 1 .. m + n /\ (k + 1) - 1 = k
          /\ (m + (k + 1)) - 1 = m + k /\ ~(m + (k + 1) <= m) /\ (m + (k + 1)) - m = k + 1
      BY <1>3
    <2>2. x[m + (k + 1)] = r[k + 1]
      BY <1>3, <2>1
    <2>3. h[m + (k + 1)] = IF r[k + 1] # <<>> THEN Append(h[m + k], r[k + 1]) ELSE h[m + k]
      BY <1>9, <2>1, <2>2
    <2>4. g[k + 1] = IF r[k + 1] # <<>> THEN Append(g[k], r[k + 1]) ELSE g[k]
      BY <1>8, <2>1
    <2>5. PICK a, b, e : a = f[m] /\ b = g[k] /\ e = r[k + 1]
      OBVIOUS
    <2>6. a \in Seq(S) /\ b \in Seq(S) /\ e \in S /\ h[m + k] = a \o b
      <3>1. h[m + k] = f[m] \o g[k]
        BY <1>14
      <3>2. m \in 0 .. m /\ k \in 0 .. n /\ r[k + 1] \in S
        BY <1>2, <1>3, <2>1
      <3> HIDE DEF U, T
      <3>3. f[m] \in Seq(S) /\ g[k] \in Seq(S)
        BY <1>7, <1>8, <3>2
      <3> QED
        BY <2>5, <3>1, <3>2, <3>3
    <2>7. Append(a \o b, e) = a \o Append(b, e)
      <3> USE <2>6
      <3>1. Append(b, e) = b \o <<e>> /\ Append(a \o b, e) = (a \o b) \o <<e>>
        BY <2>6, AppendIsConcat
      <3>2. PICK u : u = <<e>>
        OBVIOUS
      <3>3. u \in Seq(S)
        BY <3>2
      <3> USE <3>3
      <3>4. (a \o b) \o u = a \o (b \o u)
        BY ONLY a \in Seq(S), b \in Seq(S), u \in Seq(S), ConcatAssociative, SMTT(30)
      <3> QED
        BY <3>1, <3>2, <3>4
    <2>8. h[m + (k + 1)] = a \o g[k + 1]
      BY <2>3, <2>4, <2>5, <2>6, <2>7
    <2> QED
      BY <2>1, <2>5, <2>8
  <1>15. \A k \in 0 .. n : k \in U
    <2> HIDE DEF U
    <2> QED
      BY <1>3, <1>13, <1>14, IntervalInduction
  <1>16. h[m + n] = f[m] \o g[n]
    <2>1. n \in U
      <3> HIDE DEF U
      <3> QED
        BY <1>3, <1>15
    <2> QED
      BY <2>1
  <1> QED
    BY <1>1, <1>4, <1>5, <1>6, <1>16

(* A sequence is its first member, and the rest.                           *)
Leads(e, r, q, S) ==
  /\ e \in S /\ r \in Seq(S) /\ q = <<e>> \o r /\ Len(q) = Len(r) + 1
  /\ q[1] = e /\ \A i \in 1 .. Len(r) : r[i] = q[i + 1]

LEMMA FirstAndRest ==
  ASSUME NEW S, NEW q \in Seq(S), q # <<>>
  PROVE  \E e, r : Leads(e, r, q, S)
  <1>1. PICK n : n = Len(q)
    OBVIOUS
  <1>2. n \in Nat /\ n > 0 /\ q[1] \in S
    BY <1>1
  <1>3. PICK r : r = Tail(q)
    OBVIOUS
  <1>4. r \in Seq(S) /\ Len(r) = n - 1 /\ \A i \in 1 .. n - 1 : r[i] = q[i + 1]
    BY <1>1, <1>3, HeadTailProperties
  <1>5. PICK e, x : e = q[1] /\ x = <<e>> \o r
    OBVIOUS
  <1>6. e \in S
    BY <1>2, <1>5
  <1>7. /\ x \in Seq(S) /\ Len(x) = 1 + Len(r) /\ x[1] = e
        /\ \A i \in 2 .. 1 + Len(r) : x[i] = r[i - 1]
    BY <1>4, <1>5, <1>6, Before
  <1>8. ASSUME NEW i \in 1 .. n PROVE x[i] = q[i]
    <2>1. CASE i = 1
      BY <1>5, <1>7, <2>1
    <2>2. CASE i # 1
      <3>1. i \in 2 .. 1 + (n - 1) /\ i - 1 \in 1 .. n - 1 /\ (i - 1) + 1 = i
        BY <1>2, <2>2
      <3> QED
        BY <1>4, <1>7, <3>1
    <2> QED
      BY <2>1, <2>2
  <1>9. Len(x) = n
    BY <1>2, <1>4, <1>7
  <1>10. x = q
    BY <1>1, <1>7, <1>8, <1>9, SeqEqual
  <1>11. Leads(e, r, q, S)
    BY <1>1, <1>2, <1>4, <1>5, <1>6, <1>10 DEF Leads
  <1> QED
    BY <1>11

Join(q, c) == FlattenSeq(Spaced(q, c))

(* What follows the first of the parts.                                    *)
After(q, c) == IF q = <<>> THEN <<>> ELSE <<c>> \o Join(q, c)

LEMMA JoinIsText ==
  ASSUME NEW A, NEW c \in A, NEW q \in Seq(Seq(A))
  PROVE  /\ q # <<>> => Join(q, c) \in Seq(A)
         /\ After(q, c) \in Seq(A)
  <1>1. CASE q # <<>>
    <2>1. PICK x, S : x = Spaced(q, c) /\ S = Seq(A)
      OBVIOUS
    <2>2. x \in Seq(Seq(A)) /\ Len(x) = Len(q) /\ Len(q) \in Nat /\ Len(q) # 0
      <3>1. /\ Spaced(q, c) \in Seq(Seq(A)) /\ Len(Spaced(q, c)) = Len(q)
            /\ \A i \in 1 .. Len(q) : Spaced(q, c)[i] = IF i = 1 THEN q[i] ELSE <<c>> \o q[i]
        BY SpacedProperties
      <3> QED
        BY <1>1, <2>1, <3>1
    <2>3. x # <<>>
      BY <2>2
    <2>4. PICK fl : Joined(x, A, fl) /\ FlattenSeq(x) = fl[Len(x)]
      BY <2>2, <2>3, FlattenDef
    <2>5. Len(x) \in 1 .. Len(x) /\ fl \in [1 .. Len(x) -> Seq(A)]
      BY <2>2, <2>4 DEF Joined
    <2>6. fl[Len(x)] \in Seq(A)
      BY <2>5
    <2>7. Join(q, c) \in Seq(A)
      BY <2>1, <2>4, <2>6 DEF Join
    <2>8. <<c>> \o Join(q, c) \in Seq(A)
      BY <2>7
    <2> QED
      BY <1>1, <2>7, <2>8 DEF After
  <1>2. CASE q = <<>>
    BY <1>2 DEF After
  <1> QED
    BY <1>1, <1>2

LEMMA JoinFirst ==
  ASSUME NEW A, NEW c \in A, NEW p \in Seq(A), NEW q \in Seq(Seq(A))
  PROVE  Join(<<p>> \o q, c) = p \o After(q, c)
  <1>1. CASE q # <<>>
    BY <1>1, JoinMore DEF After, Join
  <1>2. CASE q = <<>>
    <2>1. PICK u, S : u = <<p>> /\ S = Seq(A)
      OBVIOUS
    <2>2. u \in Seq(S)
      BY <2>1
    <2>3. u \o <<>> = u /\ p \o <<>> = p
      BY <2>2, ConcatEmptySeq
    <2>4. Join(<<p>>, c) = p
      BY JoinOne DEF Join
    <2> QED
      BY <1>2, <2>1, <2>3, <2>4 DEF After
  <1> QED
    BY <1>1, <1>2

(* The parts of two texts, one after the other.                            *)
LEMMA JoinConcat ==
  ASSUME NEW A, NEW c \in A, NEW r \in Seq(Seq(A)), r # <<>>
  PROVE  \A q \in Seq(Seq(A)) :
           /\ After(q \o r, c) = After(q, c) \o After(r, c)
           /\ q # <<>> => Join(q \o r, c) = Join(q, c) \o After(r, c)
  <1> DEFINE S == Seq(A)
             Good(q) == /\ After(q \o r, c) = After(q, c) \o After(r, c)
                        /\ q # <<>> => Join(q \o r, c) = Join(q, c) \o After(r, c)
             T == {n \in Nat : \A q \in Seq(S) : Len(q) = n => Good(q)}
  <1>1. 0 \in T
    <2> SUFFICES ASSUME NEW q \in Seq(S), Len(q) = 0 PROVE Good(q)
      OBVIOUS
    <2>1. q = <<>>
      BY EmptySeq
    <2>2. After(r, c) \in Seq(A)
      BY JoinIsText
    <2>3. <<>> \o r = r /\ <<>> \o After(r, c) = After(r, c)
      BY <2>2, ConcatEmptySeq
    <2>4. After(<<>>, c) = <<>>
      BY DEF After
    <2> QED
      BY <2>1, <2>3, <2>4
  <1>2. ASSUME NEW n \in Nat, n \in T PROVE n + 1 \in T
    <2> SUFFICES ASSUME NEW q \in Seq(S), Len(q) = n + 1 PROVE Good(q)
      OBVIOUS
    <2>1. q # <<>>
      OBVIOUS
    <2>2. PICK p \in S, z \in Seq(S) : q = <<p>> \o z /\ Len(q) = Len(z) + 1
      <3> HIDE DEF S, Good, T
      <3>1. PICK e, y : Leads(e, y, q, S)
        BY <2>1, FirstAndRest
      <3> QED
        BY <3>1 DEF Leads
    <2>3. Len(z) = n
      BY <2>2
    <2>4. After(z \o r, c) = After(z, c) \o After(r, c)
      BY <1>2, <2>3
    <2>5. PICK u, zr : u = <<p>> /\ zr = z \o r
      OBVIOUS
    <2>6. u \in Seq(S) /\ zr \in Seq(S)
      <3>1. r \in Seq(S)
        OBVIOUS
      <3> HIDE DEF S
      <3>2. u \in Seq(S)
        BY <2>5
      <3>3. z \o r \in Seq(S)
        BY <3>1, ConcatProperties
      <3> QED
        BY <2>5, <3>2, <3>3
    <2>7. q \o r = <<p>> \o zr
      <3> USE <2>6
      <3>1. r \in Seq(S)
        OBVIOUS
      <3> HIDE DEF S
      <3> USE <3>1
      <3>2. (u \o z) \o r = u \o (z \o r)
        BY ONLY u \in Seq(S), z \in Seq(S), r \in Seq(S), ConcatAssociative, SMTT(30)
      <3> QED
        BY <2>2, <2>5, <3>2
    <2>8. Join(q \o r, c) = p \o After(zr, c) /\ Join(q, c) = p \o After(z, c)
      <3>1. p \in Seq(A) /\ zr \in Seq(Seq(A)) /\ z \in Seq(Seq(A))
        BY <2>6
      <3>2. Join(<<p>> \o zr, c) = p \o After(zr, c) /\ Join(<<p>> \o z, c) = p \o After(z, c)
        BY <3>1, JoinFirst
      <3> QED
        BY <2>2, <2>7, <3>2
    <2>9. PICK a, b : a = After(z, c) /\ b = After(r, c)
      OBVIOUS
    <2>10. p \in Seq(A) /\ a \in Seq(A) /\ b \in Seq(A)
      <3>1. z \in Seq(Seq(A))
        BY <2>6
      <3> QED
        BY <2>9, <3>1, JoinIsText
    <2>11. p \o (a \o b) = (p \o a) \o b
      <3> USE <2>10
      <3> QED
        BY ONLY p \in Seq(A), a \in Seq(A), b \in Seq(A), ConcatAssociative, SMTT(30)
    <2>12. Join(q \o r, c) = Join(q, c) \o b
      BY <2>4, <2>5, <2>8, <2>9, <2>11
    <2>13. After(q \o r, c) = After(q, c) \o b
      <3>1. q \o r # <<>>
        <4>1. Len(<<p>> \o zr) = 1 + Len(zr) /\ Len(zr) \in Nat
          <5> HIDE DEF S
          <5> QED
            BY <2>6, Before
        <4>2. <<p>> \o zr # <<>>
          BY <4>1
        <4> QED
          BY <2>7, <4>2
      <3>2. PICK w, v : w = Join(q, c) /\ v = <<c>>
        OBVIOUS
      <3>3. w \in Seq(A) /\ v \in Seq(A)
        <4>1. q \in Seq(Seq(A))
          OBVIOUS
        <4> QED
          BY <2>1, <3>2, <4>1, JoinIsText
      <3>4. v \o (w \o b) = (v \o w) \o b
        <4> USE <2>10, <3>3
        <4> QED
          BY ONLY v \in Seq(A), w \in Seq(A), b \in Seq(A), ConcatAssociative, SMTT(30)
      <3> QED
        BY <2>1, <2>12, <3>1, <3>2, <3>4 DEF After
    <2> QED
      BY <2>9, <2>12, <2>13
  <1>3. \A n \in Nat : n \in T
    <2> HIDE DEF T
    <2> QED
      BY <1>1, <1>2, SetInduction
  <1>4. ASSUME NEW q \in Seq(S) PROVE Good(q)
    <2>1. Len(q) \in Nat
      OBVIOUS
    <2> HIDE DEF Good, S
    <2> QED
      BY <1>3, <2>1
  <1> QED
    BY <1>4

LEMMA AfterStarts ==
  ASSUME NEW A, NEW c \in A, NEW q \in Seq(Seq(A)), q # <<>>
  PROVE  Len(After(q, c)) \in Nat /\ Len(After(q, c)) > 0 /\ After(q, c)[1] = c
  <1>1. PICK j : j = Join(q, c)
    OBVIOUS
  <1>2. j \in Seq(A)
    BY <1>1, JoinIsText
  <1>3. Len(<<c>> \o j) = 1 + Len(j) /\ (<<c>> \o j)[1] = c /\ Len(j) \in Nat
    BY <1>2, Before
  <1> QED
    BY <1>1, <1>3 DEF After

(* What may follow a part: a separator, or nothing.                        *)
Follows(y, c) == y # <<>> => y[1] = c

(* A part ends where the first separator is, or the text.                  *)
LEMMA PartNotLonger ==
  ASSUME NEW A, NEW c, NEW p \in Seq(A), NEW s \in Seq(A), Free(s, c),
         NEW y \in Seq(A), NEW z \in Seq(A), Follows(y, c), p \o y = s \o z
  PROVE  Len(s) <= Len(p)
  <1>1. PICK x, k, m : x = p \o y /\ k = Len(p) /\ m = Len(s)
    OBVIOUS
  <1>2. k \in Nat /\ m \in Nat /\ Len(x) = k + Len(y) /\ Len(x) = m + Len(z) /\ Len(y) \in Nat /\ Len(z) \in Nat
    BY <1>1, ConcatProperties
  <1>3. SUFFICES ASSUME k < m PROVE FALSE
    BY <1>1, <1>2
  <1>4. Len(y) # 0
    BY <1>2, <1>3
  <1>5. y # <<>>
    BY <1>4
  <1>6. \A i \in 1 .. k + Len(y) : x[i] = IF i <= k THEN p[i] ELSE y[i - k]
    BY <1>1, ConcatProperties
  <1>7. \A i \in 1 .. m + Len(z) : x[i] = IF i <= m THEN s[i] ELSE z[i - m]
    BY <1>1, ConcatProperties
  <1>8. k + 1 \in 1 .. k + Len(y) /\ ~(k + 1 <= k) /\ (k + 1) - k = 1 /\ k + 1 \in 1 .. m + Len(z) /\ k + 1 <= m
    BY <1>2, <1>3, <1>4
  <1>9. x[k + 1] = y[1]
    BY <1>6, <1>8
  <1>10. x[k + 1] = s[k + 1] /\ k + 1 \in DOMAIN s
    <2>1. DOMAIN s = 1 .. m
      BY <1>1
    <2> QED
      BY <1>2, <1>3, <1>7, <1>8, <2>1
  <1> QED
    BY <1>5, <1>9, <1>10 DEF Free, Follows

LEMMA SameFirst ==
  ASSUME NEW A, NEW c \in A, NEW p \in Seq(A), NEW s \in Seq(A), Free(p, c), Free(s, c),
         NEW y \in Seq(A), NEW z \in Seq(A), Follows(y, c), Follows(z, c),
         p \o y = s \o z
  PROVE  p = s /\ y = z
  <1>1. Len(s) <= Len(p)
    BY PartNotLonger
  <1>2. s \o z = p \o y
    OBVIOUS
  <1>3. Len(p) <= Len(s)
    BY <1>2, PartNotLonger
  <1>4. Len(p) \in Nat /\ Len(s) \in Nat /\ Len(p) = Len(s)
    BY <1>1, <1>3
  <1>5. PICK x, k : x = p \o y /\ k = Len(p)
    OBVIOUS
  <1>6. \A i \in 1 .. k + Len(y) : x[i] = IF i <= k THEN p[i] ELSE y[i - k]
    BY <1>5, ConcatProperties
  <1>7. \A i \in 1 .. k + Len(z) : x[i] = IF i <= k THEN s[i] ELSE z[i - k]
    BY <1>4, <1>5, ConcatProperties
  <1>8. Len(y) \in Nat /\ Len(z) \in Nat
    OBVIOUS
  <1>9. \A i \in 1 .. k : p[i] = s[i]
    <2> SUFFICES ASSUME NEW i \in 1 .. k PROVE p[i] = s[i]
      OBVIOUS
    <2>1. i <= k /\ i \in 1 .. k + Len(y) /\ i \in 1 .. k + Len(z)
      BY <1>4, <1>5, <1>8
    <2> QED
      BY <1>6, <1>7, <2>1
  <1>10. p = s
    BY <1>4, <1>5, <1>9, SeqEqual
  <1>11. y = z
    <2>1. p \o y = p \o z
      BY <1>10
    <2>2. Len(y) = Len(z)
      <3>1. Len(p \o y) = Len(p) + Len(y) /\ Len(p \o z) = Len(p) + Len(z)
        BY ConcatProperties
      <3> QED
        BY <1>4, <1>8, <2>1, <3>1
    <2>3. ASSUME NEW i \in 1 .. Len(y) PROVE y[i] = z[i]
      <3>1. k + i \in 1 .. k + Len(y) /\ k + i \in 1 .. k + Len(z) /\ ~(k + i <= k) /\ (k + i) - k = i
        BY <1>4, <1>5, <1>8, <2>2
      <3> QED
        BY <1>6, <1>7, <3>1
    <2> QED
      BY <2>2, <2>3, SeqEqual
  <1> QED
    BY <1>10, <1>11

(* Parts without the separator are known by the text they make.            *)
AllFree(q, c, A) == q \in Seq(Seq(A)) /\ \A i \in DOMAIN q : Free(q[i], c)

LEMMA OnePartition ==
  ASSUME NEW A, NEW c \in A
  PROVE  \A q, r : AllFree(q, c, A) /\ AllFree(r, c, A) /\ q # <<>> /\ r # <<>> /\ Join(q, c) = Join(r, c)
                     => q = r
  <1> DEFINE S == Seq(A)
             Good(q, r) == AllFree(q, c, A) /\ AllFree(r, c, A) /\ q # <<>> /\ r # <<>>
                           /\ Join(q, c) = Join(r, c) => q = r
             T == {n \in Nat : \A q, r \in Seq(S) : Len(q) = n => Good(q, r)}
  <1>1. 0 \in T
    <2>1. \A q \in Seq(S) : Len(q) = 0 => q = <<>>
      BY EmptySeq
    <2> QED
      BY <2>1
  <1>2. ASSUME NEW n \in Nat, n \in T PROVE n + 1 \in T
    <2> SUFFICES ASSUME NEW q \in Seq(S), NEW r \in Seq(S), Len(q) = n + 1,
                        AllFree(q, c, A), AllFree(r, c, A), q # <<>>, r # <<>>, Join(q, c) = Join(r, c)
                 PROVE  q = r
      OBVIOUS
    <2>1. PICK p, y : Leads(p, y, q, S)
      <3> HIDE DEF S
      <3> QED
        BY FirstAndRest
    <2>2. PICK s, z : Leads(s, z, r, S)
      <3> HIDE DEF S
      <3> QED
        BY FirstAndRest
    <2>3. p \in S /\ y \in Seq(S) /\ s \in S /\ z \in Seq(S) /\ Len(y) = n
          /\ q = <<p>> \o y /\ r = <<s>> \o z
      BY <2>1, <2>2 DEF Leads
    <2>4. Free(p, c) /\ Free(s, c) /\ AllFree(y, c, A) /\ AllFree(z, c, A)
      <3>1. Free(p, c) /\ AllFree(y, c, A)
        <4>1. DOMAIN q = 1 .. Len(y) + 1 /\ DOMAIN y = 1 .. Len(y) /\ Len(y) \in Nat
          BY <2>1 DEF Leads
        <4>2. 1 \in DOMAIN q /\ \A i \in DOMAIN y : i + 1 \in DOMAIN q
          BY <4>1
        <4> QED
          BY <2>1, <2>3, <4>1, <4>2 DEF AllFree, Leads
      <3>2. Free(s, c) /\ AllFree(z, c, A)
        <4>1. DOMAIN r = 1 .. Len(z) + 1 /\ DOMAIN z = 1 .. Len(z) /\ Len(z) \in Nat
          BY <2>2 DEF Leads
        <4>2. 1 \in DOMAIN r /\ \A i \in DOMAIN z : i + 1 \in DOMAIN r
          BY <4>1
        <4> QED
          BY <2>2, <2>3, <4>1, <4>2 DEF AllFree, Leads
      <3> QED
        BY <3>1, <3>2
    <2>5. PICK a, b : a = After(y, c) /\ b = After(z, c)
      OBVIOUS
    <2>6. /\ a \in Seq(A) /\ b \in Seq(A) /\ (a # <<>> => a[1] = c) /\ (b # <<>> => b[1] = c)
          /\ (y = <<>> <=> a = <<>>) /\ (z = <<>> <=> b = <<>>)
      <3>1. a \in Seq(A) /\ b \in Seq(A)
        BY <2>3, <2>5, JoinIsText
      <3>2. y # <<>> => a # <<>> /\ a[1] = c
        <4> SUFFICES ASSUME y # <<>> PROVE a # <<>> /\ a[1] = c
          OBVIOUS
        <4>1. Len(a) \in Nat /\ Len(a) > 0 /\ a[1] = c
          BY <2>3, <2>5, AfterStarts
        <4> QED
          BY <4>1
      <3>3. z # <<>> => b # <<>> /\ b[1] = c
        <4> SUFFICES ASSUME z # <<>> PROVE b # <<>> /\ b[1] = c
          OBVIOUS
        <4>1. Len(b) \in Nat /\ Len(b) > 0 /\ b[1] = c
          BY <2>3, <2>5, AfterStarts
        <4> QED
          BY <4>1
      <3>4. (y = <<>> => a = <<>>) /\ (z = <<>> => b = <<>>)
        BY <2>5 DEF After
      <3> QED
        BY <3>1, <3>2, <3>3, <3>4
    <2>7. p \o a = s \o b
      <3>1. Join(q, c) = p \o a /\ Join(r, c) = s \o b
        BY <2>3, <2>5, JoinFirst
      <3> QED
        BY <3>1
    <2>8. p = s /\ a = b
      <3>1. p \in Seq(A) /\ s \in Seq(A)
        BY <2>3
      <3>2. Follows(a, c) /\ Follows(b, c)
        BY <2>6 DEF Follows
      <3> HIDE DEF S, T, Good
      <3> QED
        BY <2>4, <2>6, <2>7, <3>1, <3>2, SameFirst, ZenonT(30)
    <2>9. CASE y = <<>>
      BY <2>3, <2>6, <2>8, <2>9
    <2>10. CASE y # <<>>
      <3>1. z # <<>>
        BY <2>6, <2>8, <2>10
      <3>2. PICK u, v : u = Join(y, c) /\ v = Join(z, c)
        OBVIOUS
      <3>3. <<c>> \o u = <<c>> \o v
        BY <2>5, <2>8, <2>10, <3>1, <3>2 DEF After
      <3>4. u = v
        <4>1. u \in Seq(A) /\ v \in Seq(A)
          BY <2>3, <2>10, <3>1, <3>2, JoinIsText
        <4>2. PICK w, k : w = <<c>> \o u /\ k = Len(u)
          OBVIOUS
        <4>3. Len(w) = 1 + Len(u) /\ \A i \in 1 .. Len(u) : w[i + 1] = u[i]
          BY <4>1, <4>2, Before
        <4>4. Len(w) = 1 + Len(v) /\ \A i \in 1 .. Len(v) : w[i + 1] = v[i]
          BY <3>3, <4>1, <4>2, Before
        <4>5. Len(v) = Len(u) /\ Len(u) \in Nat /\ Len(v) \in Nat
          BY <4>1, <4>3, <4>4
        <4> QED
          BY <4>1, <4>3, <4>4, <4>5, SeqEqual
      <3>5. Good(y, z)
        BY <1>2, <2>3
      <3>6. y = z
        BY <2>4, <2>10, <3>1, <3>2, <3>4, <3>5
      <3> QED
        BY <2>3, <2>8, <3>6
    <2> QED
      BY <2>9, <2>10
  <1>3. \A n \in Nat : n \in T
    <2> HIDE DEF T
    <2> QED
      BY <1>1, <1>2, SetInduction
  <1> SUFFICES ASSUME NEW q, NEW r, AllFree(q, c, A), AllFree(r, c, A) PROVE Good(q, r)
    OBVIOUS
  <1>4. q \in Seq(S) /\ r \in Seq(S) /\ Len(q) \in Nat
    BY DEF AllFree
  <1> HIDE DEF Good, S
  <1> QED
    BY <1>3, <1>4

(* The parts of a text, as they are in it.                                 *)
CutOf(q, t, c, A) == AllFree(q, c, A) /\ q # <<>> /\ Join(q, c) = t

LEMMA CutExists ==
  ASSUME NEW A, NEW c \in A, NEW t \in Seq(A)
  PROVE  \E q : CutOf(q, t, c, A) /\ Steps(t, c) = Held(q)
  <1>1. PICK f : Visits(t, c, A, f) /\ Splits(t, c) = f[0]
    BY SplitsDef
  <1>2. CASE t # <<>>
    <2>1. 0 \in Starts(t, c)
      BY DEF Starts
    <2>2. Parts(f[0], t, c, A, 0)
      BY <1>1, <1>2, <2>1, PartsFromStart
    <2>3. SubSeq(t, 0 + 1, Len(t)) = t
      OBVIOUS
    <2>4. CutOf(f[0], t, c, A)
      BY <2>2, <2>3 DEF CutOf, Parts, AllFree, Join
    <2> QED
      BY <1>1, <2>4 DEF Steps
  <1>3. CASE t = <<>>
    <2>1. PICK p, q : p = <<>> /\ q = <<p>>
      OBVIOUS
    <2>2. p \in Seq(A) /\ q \in Seq(Seq(A)) /\ Len(q) = 1 /\ q[1] = p /\ q # <<>> /\ DOMAIN q = {1}
      BY <2>1
    <2>3. Join(q, c) = p
      BY <2>1, <2>2, JoinOne DEF Join
    <2>4. Free(p, c)
      BY <2>1 DEF Free
    <2>5. CutOf(q, t, c, A)
      BY <1>3, <2>1, <2>2, <2>3, <2>4 DEF CutOf, AllFree
    <2>6. Len(t) = 0 /\ 0 \in 0 .. Len(t) + 1
      BY <1>3
    <2>7. PICK it : it = NextSplit(t, c, 0)
      OBVIOUS
    <2>8. it.pos = Len(t) + 1 /\ it.out = [at |-> Len(t) + 1, size |-> 0]
      <3>1. PICK z : z = 0
        OBVIOUS
      <3>2. z \in 0 .. Len(t) + 1
        BY <2>6, <3>1
      <3>3. NextIs(t, c, z, it.pos, it.out)
        BY <2>7, <3>1, <3>2, NextSplitCases
      <3> QED
        BY <2>6, <3>3 DEF NextIs
    <2>9. f[0] = <<>>
      BY <1>1, <2>6, <2>7, <2>8 DEF Visits
    <2>10. Held(<<>>) = <<>> /\ Held(q) = <<>>
      <3>1. p \in Seq(A)
        BY <2>2
      <3> QED
        BY <2>1, <3>1, HeldShort
    <2> QED
      BY <1>1, <2>5, <2>9, <2>10 DEF Steps
  <1> QED
    BY <1>2, <1>3

LEMMA StepsOf ==
  ASSUME NEW A, NEW c \in A, NEW t \in Seq(A), NEW q, CutOf(q, t, c, A)
  PROVE  Steps(t, c) = Held(q)
  <1>1. PICK r : CutOf(r, t, c, A) /\ Steps(t, c) = Held(r)
    BY CutExists
  <1>2. q = r
    BY <1>1, OnePartition DEF CutOf
  <1> QED
    BY <1>1, <1>2

LEMMA StepsAreParts ==
  ASSUME NEW A, NEW c \in A, NEW t \in Seq(A)
  PROVE  Steps(t, c) \in Seq(Seq(A))
  <1>1. PICK r : CutOf(r, t, c, A) /\ Steps(t, c) = Held(r)
    BY CutExists
  <1>2. r \in Seq(Seq(A))
    BY <1>1 DEF CutOf, AllFree
  <1> QED
    BY <1>1, <1>2, HeldIsParts

(* The steps of two texts with a separator between them.                   *)
LEMMA StepsApart ==
  ASSUME NEW A, NEW c \in A, NEW a \in Seq(A), NEW b \in Seq(A)
  PROVE  Steps(a \o (<<c>> \o b), c) = Steps(a, c) \o Steps(b, c)
  <1>1. PICK q : CutOf(q, a, c, A) /\ Steps(a, c) = Held(q)
    BY CutExists
  <1>2. PICK r : CutOf(r, b, c, A) /\ Steps(b, c) = Held(r)
    BY CutExists
  <1>3. PICK x, t : x = q \o r /\ t = a \o (<<c>> \o b)
    OBVIOUS
  <1>4. q \in Seq(Seq(A)) /\ r \in Seq(Seq(A)) /\ q # <<>> /\ r # <<>>
    BY <1>1, <1>2 DEF CutOf, AllFree
  <1>5. PICK S, m, n : S = Seq(A) /\ m = Len(q) /\ n = Len(r)
    OBVIOUS
  <1>6. /\ x \in Seq(S) /\ Len(x) = m + n /\ m \in Nat /\ n \in Nat /\ DOMAIN x = 1 .. m + n
        /\ \A k \in 1 .. m + n : x[k] = IF k <= m THEN q[k] ELSE r[k - m]
    <2>1. q \in Seq(S) /\ r \in Seq(S)
      BY <1>4, <1>5
    <2> QED
      BY <1>3, <1>5, <2>1, ConcatProperties
  <1>7. m # 0
    <2>1. q \in Seq(S)
      BY <1>4, <1>5
    <2> QED
      BY <1>4, <1>5, <2>1, EmptySeq
  <1>8. x # <<>>
    BY <1>6, <1>7
  <1>9. ASSUME NEW k \in 1 .. m + n PROVE Free(x[k], c)
    <2>1. DOMAIN q = 1 .. m /\ DOMAIN r = 1 .. n
      BY <1>4, <1>5
    <2>2. CASE k <= m
      <3>1. k \in DOMAIN q
        BY <1>6, <2>1, <2>2
      <3> QED
        BY <1>1, <1>6, <2>2, <3>1 DEF CutOf, AllFree
    <2>3. CASE ~(k <= m)
      <3>1. k - m \in DOMAIN r
        BY <1>6, <2>1, <2>3
      <3> QED
        BY <1>2, <1>6, <2>3, <3>1 DEF CutOf, AllFree
    <2> QED
      BY <2>2, <2>3
  <1>10. Join(x, c) = t
    <2>1. Join(q \o r, c) = Join(q, c) \o After(r, c)
      BY <1>4, JoinConcat
    <2>2. After(r, c) = <<c>> \o b
      BY <1>2, <1>4 DEF After, CutOf
    <2>3. Join(q, c) = a
      BY <1>1 DEF CutOf
    <2> QED
      BY <1>3, <2>1, <2>2, <2>3
  <1>11. CutOf(x, t, c, A)
    BY <1>5, <1>6, <1>8, <1>9, <1>10 DEF CutOf, AllFree
  <1>12. t \in Seq(A)
    BY <1>3
  <1>13. Steps(t, c) = Held(x)
    BY <1>11, <1>12, StepsOf
  <1>14. Held(q \o r) = Held(q) \o Held(r)
    BY <1>4, HeldConcat
  <1> QED
    BY <1>1, <1>2, <1>3, <1>13, <1>14

(* The only step of a text without separators.                             *)
LEMMA StepsOne ==
  ASSUME NEW A, NEW c \in A, NEW p \in Seq(A), Free(p, c)
  PROVE  Steps(p, c) = IF p # <<>> THEN <<p>> ELSE <<>>
  <1>1. PICK q : q = <<p>>
    OBVIOUS
  <1>2. q \in Seq(Seq(A)) /\ Len(q) = 1 /\ q[1] = p /\ q # <<>> /\ DOMAIN q = {1}
    BY <1>1
  <1>3. Join(q, c) = p
    BY <1>1, <1>2, JoinOne DEF Join
  <1>4. CutOf(q, p, c, A)
    BY <1>2, <1>3 DEF CutOf, AllFree
  <1>5. Held(q) = IF p # <<>> THEN <<p>> ELSE <<>>
    BY <1>1, HeldShort
  <1> QED
    BY <1>4, <1>5, StepsOf

(* The steps of the text from position a up to b, and whether all that is  *)
(* there is separators, or none.                                           *)
Within(t, c, a, b) == Steps(SubSeq(t, a + 1, b), c)
AllSeps(t, c, a, b) == \A i \in a .. b - 1 : t[i + 1] = c
NoSeps(t, c, a, b) == \A i \in a .. b - 1 : t[i + 1] # c

LEMMA PartOfText ==
  ASSUME NEW A, NEW t \in Seq(A), NEW a \in Nat, NEW b \in Nat, a <= b, b <= Len(t)
  PROVE  LET u == SubSeq(t, a + 1, b)
         IN  u \in Seq(A) /\ Len(u) = b - a /\ DOMAIN u = 1 .. b - a /\ \A k \in 1 .. b - a : u[k] = t[a + k]
  <1>1. PICK u : u = SubSeq(t, a + 1, b)
    OBVIOUS
  <1>2. Len(t) \in Nat /\ a + 1 \in 1 .. Len(t) + 1 /\ b \in a + 1 - 1 .. Len(t)
    OBVIOUS
  <1>3. \A i \in a + 1 .. b : i \in 1 .. Len(t)
    BY <1>2
  <1>4. u \in Seq(A) /\ Len(u) = b - a /\ \A k \in 1 .. b - a : u[k] = t[a + k]
    BY <1>1, <1>2, <1>3
  <1>5. DOMAIN u = 1 .. b - a
    BY <1>4
  <1> QED
    BY <1>1, <1>4, <1>5

LEMMA PartedAt ==
  ASSUME NEW A, NEW c \in A, NEW t \in Seq(A), NEW a \in Nat, NEW b \in Nat, b <= Len(t),
         NEW i \in a .. b - 1, t[i + 1] = c
  PROVE  SubSeq(t, a + 1, b) = SubSeq(t, a + 1, i) \o (<<c>> \o SubSeq(t, i + 1 + 1, b))
  <1>1. PICK u, x, y, z : u = SubSeq(t, a + 1, b) /\ x = SubSeq(t, a + 1, i)
                          /\ y = SubSeq(t, i + 1 + 1, b) /\ z = <<c>> \o y
    OBVIOUS
  <1>2. i \in Nat /\ i + 1 \in Nat /\ a <= b /\ a <= i /\ i + 1 <= b /\ i <= Len(t) /\ Len(t) \in Nat
    OBVIOUS
  <1>3. u \in Seq(A) /\ Len(u) = b - a /\ \A k \in 1 .. b - a : u[k] = t[a + k]
    BY <1>1, <1>2, PartOfText
  <1>4. x \in Seq(A) /\ Len(x) = i - a /\ \A k \in 1 .. i - a : x[k] = t[a + k]
    BY <1>1, <1>2, PartOfText
  <1>5. PICK j : j = i + 1
    OBVIOUS
  <1>6. y \in Seq(A) /\ Len(y) = b - j /\ \A k \in 1 .. b - j : y[k] = t[j + k]
    <2>1. j \in Nat /\ j <= b /\ y = SubSeq(t, j + 1, b)
      BY <1>1, <1>2, <1>5
    <2> QED
      BY <2>1, PartOfText
  <1>7. /\ z \in Seq(A) /\ Len(z) = 1 + Len(y) /\ z[1] = c
        /\ \A k \in 2 .. 1 + Len(y) : z[k] = y[k - 1]
    <2>1. y \in Seq(A) /\ z = <<c>> \o y
      BY <1>1, <1>6
    <2> QED
      BY <2>1, Before
  <1>8. PICK w : w = x \o z
    OBVIOUS
  <1>9. /\ w \in Seq(A) /\ Len(w) = Len(x) + Len(z)
        /\ \A k \in 1 .. Len(x) + Len(z) : w[k] = IF k <= Len(x) THEN x[k] ELSE z[k - Len(x)]
    <2>1. x \in Seq(A) /\ z \in Seq(A)
      BY <1>4, <1>7
    <2> QED
      BY <1>8, <2>1, ConcatProperties
  <1>10. PICK p, n : p = i - a /\ n = b - a
    OBVIOUS
  <1>20. /\ p \in Nat /\ n \in Nat /\ n = p + (1 + (b - j)) /\ Len(x) = p /\ Len(y) = b - j /\ Len(z) = n - p
         /\ Len(w) = n /\ b - j \in Nat
    <2>1. p \in Nat /\ n \in Nat /\ n = p + (1 + (b - j)) /\ b - j \in Nat
      BY <1>2, <1>5, <1>10
    <2>2. Len(x) = p /\ Len(y) = b - j
      BY <1>4, <1>6, <1>10
    <2>3. Len(z) = 1 + (b - j)
      BY <1>7, <2>2
    <2>4. Len(w) = p + (1 + (b - j))
      BY <1>9, <2>2, <2>3
    <2> QED
      BY <2>1, <2>2, <2>3, <2>4
  <1>21. \A k \in 1 .. n : w[k] = IF k <= p THEN x[k] ELSE z[k - p]
    <2>1. Len(x) + Len(z) = n
      BY <1>20
    <2> QED
      BY <1>9, <1>20, <2>1
  <1>11. ASSUME NEW k \in 1 .. n PROVE u[k] = w[k]
    <2>1. u[k] = t[a + k]
      BY <1>3, <1>10
    <2>2. CASE k <= p
      <3>1. k \in 1 .. i - a
        BY <1>10, <1>20, <2>2
      <3> QED
        BY <1>4, <1>21, <2>1, <2>2, <3>1
    <2>3. CASE k = p + 1
      <3>1. ~(k <= p) /\ k - p = 1 /\ a + k = i + 1
        BY <1>2, <1>10, <1>20, <2>3
      <3> QED
        BY <1>7, <1>21, <2>1, <3>1
    <2>4. CASE k > p + 1
      <3>1. PICK m : m = k - p
        OBVIOUS
      <3>2. m \in 2 .. 1 + (b - j) /\ m - 1 \in 1 .. b - j /\ j + (m - 1) = a + k /\ ~(k <= p)
        BY <1>2, <1>5, <1>10, <1>20, <2>4, <3>1
      <3>3. w[k] = z[m]
        BY <1>21, <3>1, <3>2
      <3>4. z[m] = y[m - 1] /\ y[m - 1] = t[a + k]
        BY <1>6, <1>7, <1>20, <3>2
      <3> QED
        BY <2>1, <3>3, <3>4
    <2>5. k \in Nat /\ p \in Nat
      BY <1>20
    <2> QED
      BY <2>2, <2>3, <2>4, <2>5
  <1>12. u = w
    BY <1>3, <1>9, <1>10, <1>11, <1>20, SeqEqual
  <1> QED
    BY <1>1, <1>8, <1>12

LEMMA WithinApart ==
  ASSUME NEW A, NEW c \in A, NEW t \in Seq(A), NEW a \in Nat, NEW b \in Nat, b <= Len(t),
         NEW i \in a .. b - 1, t[i + 1] = c
  PROVE  Within(t, c, a, b) = Within(t, c, a, i) \o Within(t, c, i + 1, b)
  <1>1. PICK u, x, y : u = SubSeq(t, a + 1, b) /\ x = SubSeq(t, a + 1, i) /\ y = SubSeq(t, i + 1 + 1, b)
    OBVIOUS
  <1>2. i \in Nat /\ i + 1 \in Nat /\ a <= i /\ i <= Len(t) /\ i + 1 <= b
    OBVIOUS
  <1>3. x \in Seq(A)
    BY <1>1, <1>2, PartOfText
  <1>4. y \in Seq(A)
    <2>1. PICK j : j = i + 1
      OBVIOUS
    <2>2. j \in Nat /\ j <= b /\ y = SubSeq(t, j + 1, b)
      BY <1>1, <1>2, <2>1
    <2> QED
      BY <2>2, PartOfText
  <1>5. u = x \o (<<c>> \o y)
    <2>1. SubSeq(t, a + 1, b) = SubSeq(t, a + 1, i) \o (<<c>> \o SubSeq(t, i + 1 + 1, b))
      BY PartedAt
    <2> QED
      BY <1>1, <2>1
  <1>6. Steps(x \o (<<c>> \o y), c) = Steps(x, c) \o Steps(y, c)
    BY <1>3, <1>4, StepsApart
  <1> QED
    BY <1>1, <1>5, <1>6 DEF Within

LEMMA WithinParts ==
  ASSUME NEW A, NEW c \in A, NEW t \in Seq(A), NEW a \in Nat, NEW b \in Nat, a <= b, b <= Len(t)
  PROVE  Within(t, c, a, b) \in Seq(Seq(A))
  <1>1. PICK u : u = SubSeq(t, a + 1, b)
    OBVIOUS
  <1>2. u \in Seq(A)
    BY <1>1, PartOfText
  <1> QED
    BY <1>1, <1>2, StepsAreParts DEF Within

LEMMA WithinNoSeps ==
  ASSUME NEW A, NEW c \in A, NEW t \in Seq(A), NEW a \in Nat, NEW b \in Nat, a <= b, b <= Len(t),
         NoSeps(t, c, a, b)
  PROVE  /\ Len(Within(t, c, a, b)) <= 1
         /\ a = b => Within(t, c, a, b) = <<>>
  <1>1. PICK u : u = SubSeq(t, a + 1, b)
    OBVIOUS
  <1>2. u \in Seq(A) /\ Len(u) = b - a /\ DOMAIN u = 1 .. b - a /\ \A k \in 1 .. b - a : u[k] = t[a + k]
    BY <1>1, PartOfText
  <1>3. Free(u, c)
    <2>1. ASSUME NEW k \in 1 .. b - a PROVE u[k] # c
      <3>1. PICK i : i = a + k - 1
        OBVIOUS
      <3>2. i \in a .. b - 1 /\ i + 1 = a + k
        BY <3>1
      <3> QED
        BY <1>2, <3>2 DEF NoSeps
    <2> QED
      BY <1>2, <2>1 DEF Free
  <1>4. Within(t, c, a, b) = IF u # <<>> THEN <<u>> ELSE <<>>
    BY <1>1, <1>2, <1>3, StepsOne DEF Within
  <1>5. a = b => u = <<>>
    <2> SUFFICES ASSUME a = b PROVE u = <<>>
      OBVIOUS
    <2>1. Len(u) = 0
      BY <1>2
    <2> QED
      BY <1>2, <2>1, EmptySeq
  <1>6. Len(<<u>>) = 1 /\ Len(<<>>) = 0
    OBVIOUS
  <1> QED
    BY <1>4, <1>5, <1>6

LEMMA WithinNothing ==
  ASSUME NEW A, NEW c \in A, NEW t \in Seq(A), NEW a \in Nat, a <= Len(t)
  PROVE  Within(t, c, a, a) = <<>>
  <1>1. NoSeps(t, c, a, a)
    BY DEF NoSeps
  <1> QED
    BY <1>1, WithinNoSeps

(* Separators alone have no steps, and at either end they make none.       *)
LEMMA WithinAllSeps ==
  ASSUME NEW A, NEW c \in A, NEW t \in Seq(A), NEW a \in Nat, NEW b \in Nat, a <= b, b <= Len(t),
         AllSeps(t, c, a, b)
  PROVE  Within(t, c, a, b) = <<>>
  <1> DEFINE T == {d \in 0 .. b - a : Within(t, c, a, a + d) = <<>>}
             n == b - a
  <1>1. n \in Nat /\ Len(t) \in Nat
    OBVIOUS
  <1>2. 0 \in T
    <2>1. Within(t, c, a, a) = <<>>
      BY <1>1, WithinNothing
    <2>2. a + 0 = a /\ 0 \in 0 .. b - a
      BY <1>1
    <2> QED
      BY <2>1, <2>2
  <1>3. ASSUME NEW d \in 0 .. n - 1, d \in T PROVE d + 1 \in T
    <2>1. PICK i, e : i = a + d /\ e = i + 1
      OBVIOUS
    <2>2. i \in Nat /\ e \in Nat /\ e <= Len(t) /\ i \in a .. e - 1 /\ i \in a .. b - 1 /\ a + (d + 1) = e
          /\ d + 1 \in 0 .. b - a
      BY <1>1, <2>1
    <2>3. t[i + 1] = c
      BY <2>2 DEF AllSeps
    <2>4. Within(t, c, a, e) = Within(t, c, a, i) \o Within(t, c, i + 1, e)
      BY <2>2, <2>3, WithinApart
    <2>5. Within(t, c, e, e) = <<>>
      BY <2>2, WithinNothing
    <2>6. Within(t, c, a, i) = <<>>
      BY <1>3, <2>1
    <2>7. <<>> \o <<>> = <<>>
      OBVIOUS
    <2>8. Within(t, c, a, e) = <<>>
      BY <2>1, <2>4, <2>5, <2>6, <2>7
    <2> QED
      BY <2>2, <2>8
  <1>4. \A d \in 0 .. n : d \in T
    <2> HIDE DEF T, n
    <2> QED
      BY <1>1, <1>2, <1>3, IntervalInduction
  <1>5. n \in T /\ a + n = b
    <2>1. n \in 0 .. n /\ a + n = b
      BY <1>1
    <2> HIDE DEF T, n
    <2> QED
      BY <1>4, <2>1
  <1> QED
    BY <1>5

LEMMA NoneRight ==
  ASSUME NEW A, NEW c \in A, NEW t \in Seq(A), NEW a \in Nat, NEW b \in Nat, b <= Len(t),
         NEW k \in a .. b, AllSeps(t, c, k, b)
  PROVE  Within(t, c, a, b) = Within(t, c, a, k)
  <1>1. CASE k = b
    BY <1>1
  <1>2. CASE k # b
    <2>1. PICK j : j = k + 1
      OBVIOUS
    <2>2. k \in Nat /\ k \in a .. b - 1 /\ j \in Nat /\ j <= b /\ k \in k .. b - 1 /\ a <= k /\ k <= Len(t)
      BY <1>2, <2>1
    <2>3. t[k + 1] = c /\ AllSeps(t, c, j, b)
      BY <2>1, <2>2 DEF AllSeps
    <2>4. Within(t, c, a, b) = Within(t, c, a, k) \o Within(t, c, k + 1, b)
      BY <2>2, <2>3, WithinApart
    <2>5. Within(t, c, j, b) = <<>>
      BY <2>2, <2>3, WithinAllSeps
    <2>6. PICK w, S : w = Within(t, c, a, k) /\ S = Seq(A)
      OBVIOUS
    <2>7. w \in Seq(S)
      BY <2>2, <2>6, WithinParts
    <2>8. w \o <<>> = w
      BY <2>7, ConcatEmptySeq
    <2> QED
      BY <2>1, <2>4, <2>5, <2>6, <2>8
  <1> QED
    BY <1>1, <1>2

LEMMA NoneLeft ==
  ASSUME NEW A, NEW c \in A, NEW t \in Seq(A), NEW a \in Nat, NEW b \in Nat, b <= Len(t),
         NEW k \in a .. b, AllSeps(t, c, a, k)
  PROVE  Within(t, c, a, b) = Within(t, c, k, b)
  <1>1. CASE k = a
    BY <1>1
  <1>2. CASE k # a
    <2>1. PICK i : i = k - 1
      OBVIOUS
    <2>2. i \in Nat /\ i \in a .. b - 1 /\ i \in a .. k - 1 /\ a <= i /\ i <= Len(t) /\ i + 1 = k /\ k \in Nat /\ k <= b
      BY <1>2, <2>1
    <2>3. t[i + 1] = c /\ AllSeps(t, c, a, i)
      BY <2>2 DEF AllSeps
    <2>4. Within(t, c, a, b) = Within(t, c, a, i) \o Within(t, c, i + 1, b)
      BY <2>2, <2>3, WithinApart
    <2>5. Within(t, c, a, i) = <<>>
      BY <2>2, <2>3, WithinAllSeps
    <2>6. PICK w, S : w = Within(t, c, k, b) /\ S = Seq(A)
      OBVIOUS
    <2>7. w \in Seq(S)
      BY <2>2, <2>6, WithinParts
    <2>8. <<>> \o w = w
      BY <2>7, ConcatEmptySeq
    <2> QED
      BY <2>2, <2>4, <2>5, <2>6, <2>8
  <1> QED
    BY <1>1, <1>2

(* One separator or more between what is left and right of them.           *)
LEMMA WithinGap ==
  ASSUME NEW A, NEW c \in A, NEW t \in Seq(A), NEW a \in Nat, NEW b \in Nat, b <= Len(t),
         NEW i \in a .. b, NEW j \in i + 1 .. b, AllSeps(t, c, i, j)
  PROVE  Within(t, c, a, b) = Within(t, c, a, i) \o Within(t, c, j, b)
  <1>1. PICK k : k = i + 1
    OBVIOUS
  <1>2. i \in Nat /\ j \in Nat /\ k \in Nat /\ i \in a .. b - 1 /\ j \in k .. b /\ i \in i .. j - 1
    BY <1>1
  <1>3. t[i + 1] = c /\ AllSeps(t, c, k, j)
    BY <1>1, <1>2 DEF AllSeps
  <1>4. Within(t, c, a, b) = Within(t, c, a, i) \o Within(t, c, i + 1, b)
    BY <1>2, <1>3, WithinApart
  <1>5. Within(t, c, k, b) = Within(t, c, j, b)
    BY <1>2, <1>3, NoneLeft
  <1> QED
    BY <1>1, <1>4, <1>5

(* The first and the last that a search finds, and where it looks.         *)
FirstIn(S, x) == (S = {} /\ x = NPos) \/ (x \in S /\ \A y \in S : x <= y)
LastIn(S, x) == (S = {} /\ x = NPos) \/ (x \in S /\ \A y \in S : y <= x)

LEMMA LastOfProperties ==
  ASSUME NEW n \in Nat, NEW S, S \subseteq 0 .. n
  PROVE  LastIn(S, LastOf(S))
  <1>1. CASE S = {}
    BY <1>1 DEF LastIn, LastOf
  <1>2. CASE S # {}
    <2> DEFINE T == {d \in Nat : n - d \in S}
    <2>1. T \subseteq Nat /\ T # {}
      <3>1. PICK y \in S : TRUE
        BY <1>2
      <3>2. n - y \in Nat /\ n - (n - y) = y
        BY <3>1
      <3>3. n - y \in T
        BY <3>1, <3>2
      <3> QED
        BY <3>3
    <2>2. PICK d \in T : \A e \in T : d <= e
      <3> HIDE DEF T
      <3> QED
        BY <2>1, LeastElement
    <2>3. n - d \in S /\ d \in Nat
      BY <2>2
    <2>4. ASSUME NEW y \in S PROVE n - d >= y
      <3>1. n - y \in Nat /\ n - (n - y) = y /\ y \in Nat
        BY <2>4
      <3>2. n - y \in T
        BY <3>1
      <3>3. d <= n - y
        BY <2>2, <3>2
      <3> QED
        BY <2>3, <3>1, <3>3
    <2>5. \E x \in S : \A y \in S : x >= y
      BY <2>3, <2>4
    <2>6. LastOf(S) \in S /\ \A y \in S : LastOf(S) >= y
      BY <1>2, <2>5 DEF LastOf, Max
    <2>7. PICK x : x = LastOf(S)
      OBVIOUS
    <2> HIDE DEF T
    <2>10. x \in S /\ \A y \in S : x >= y
      BY <2>6, <2>7, Zenon
    <2>8. x \in S /\ x \in Int /\ \A y \in S : y \in Int /\ x >= y
      BY <2>10
    <2>9. \A y \in S : y <= x
      BY <2>8
    <2> QED
      BY <2>7, <2>8, <2>9 DEF LastIn
  <1> QED
    BY <1>1, <1>2

Hits(t, c, a, s) == {i \in 0 .. s - 1 : t[a + i + 1] = c}
Misses(t, c, a, s) == {i \in 0 .. s - 1 : t[a + i + 1] # c}

LEMMA PlacesAre ==
  ASSUME NEW t, NEW c, NEW a \in Nat, NEW s \in Nat
  PROVE  LET r == [at |-> a, size |-> s]
         IN  Places(t, r, c, TRUE) = Hits(t, c, a, s) /\ Places(t, r, c, FALSE) = Misses(t, c, a, s)
  BY DEF Places, Hits, Misses

LEMMA Searches ==
  ASSUME NEW t, NEW c, NEW a \in Nat, NEW s \in Nat, NEW p \in Int
  PROVE  LET r == [at |-> a, size |-> s]
         IN  /\ LastIn({i \in Hits(t, c, a, s) : i <= p}, FindLastOf(t, r, c, p))
             /\ LastIn({i \in Misses(t, c, a, s) : i <= p}, FindLastNotOf(t, r, c, p))
             /\ FirstIn({i \in Hits(t, c, a, s) : i >= p}, FindFirstOf(t, r, c, p))
             /\ FirstIn({i \in Misses(t, c, a, s) : i >= p}, FindFirstNotOf(t, r, c, p))
  <1>1. PICK r : r = [at |-> a, size |-> s]
    OBVIOUS
  <1>2. Places(t, r, c, TRUE) = Hits(t, c, a, s) /\ Places(t, r, c, FALSE) = Misses(t, c, a, s)
    BY <1>1, PlacesAre
  <1>3. \A S : S \subseteq 0 .. s - 1 => LastIn(S, LastOf(S)) /\ FirstIn(S, FirstOf(S))
    <2> SUFFICES ASSUME NEW S, S \subseteq 0 .. s - 1 PROVE LastIn(S, LastOf(S)) /\ FirstIn(S, FirstOf(S))
      OBVIOUS
    <2>1. S \subseteq 0 .. s /\ S \subseteq Nat
      OBVIOUS
    <2>2. LastIn(S, LastOf(S))
      BY <2>1, LastOfProperties
    <2>3. FirstIn(S, FirstOf(S))
      BY <2>1, FirstOfProperties DEF FirstIn
    <2> QED
      BY <2>2, <2>3
  <1>4. Hits(t, c, a, s) \subseteq 0 .. s - 1 /\ Misses(t, c, a, s) \subseteq 0 .. s - 1
    BY DEF Hits, Misses
  <1>5. PICK H, M : H = Hits(t, c, a, s) /\ M = Misses(t, c, a, s)
    OBVIOUS
  <1>6. /\ {i \in H : i <= p} \subseteq 0 .. s - 1 /\ {i \in M : i <= p} \subseteq 0 .. s - 1
        /\ {i \in H : i >= p} \subseteq 0 .. s - 1 /\ {i \in M : i >= p} \subseteq 0 .. s - 1
    BY <1>4, <1>5
  <1>7. /\ FindLastOf(t, r, c, p) = LastOf({i \in H : i <= p})
        /\ FindLastNotOf(t, r, c, p) = LastOf({i \in M : i <= p})
        /\ FindFirstOf(t, r, c, p) = FirstOf({i \in H : i >= p})
        /\ FindFirstNotOf(t, r, c, p) = FirstOf({i \in M : i >= p})
    BY <1>2, <1>5 DEF FindLastOf, FindLastNotOf, FindFirstOf, FindFirstNotOf
  <1> QED
    BY <1>1, <1>3, <1>5, <1>6, <1>7

(* Trimming at the right and at the left.                                  *)
LEMMA TrimREnds ==
  ASSUME NEW t, NEW c, NEW a \in Nat, NEW s \in Nat
  PROVE  \E k \in 0 .. s : /\ TrimR(t, [at |-> a, size |-> s], c) = [at |-> a, size |-> k]
                           /\ AllSeps(t, c, a + k, a + s) /\ (k > 0 => t[a + k] # c)
  <1>1. PICK r : r = [at |-> a, size |-> s]
    OBVIOUS
  <1>2. r.at = a /\ r.size = s
    BY <1>1
  <1>3. CASE s = 0
    <2>1. TrimR(t, r, c) = r
      BY <1>2, <1>3 DEF TrimR
    <2>2. AllSeps(t, c, a + 0, a + s) /\ 0 \in 0 .. s
      BY <1>3 DEF AllSeps
    <2> QED
      BY <1>1, <1>3, <2>1, <2>2
  <1>4. CASE s # 0
    <2>1. PICK pos, S : pos = FindLastNotOf(t, r, c, s - 1) /\ S = {i \in Misses(t, c, a, s) : i <= s - 1}
      OBVIOUS
    <2>2. LastIn(S, pos)
      <3>1. PICK p : p = s - 1
        OBVIOUS
      <3>2. p \in Int
        BY <3>1
      <3> QED
        BY <1>1, <2>1, <3>1, <3>2, Searches
    <2>3. TrimR(t, r, c) = IF pos # NPos THEN [at |-> a, size |-> pos + 1] ELSE [at |-> a, size |-> 0]
      BY <1>2, <1>4, <2>1 DEF TrimR, Substr
    <2>4. \A i \in a .. a + s - 1 : t[i + 1] # c => i - a \in S
      <3> SUFFICES ASSUME NEW i \in a .. a + s - 1, t[i + 1] # c PROVE i - a \in S
        OBVIOUS
      <3>1. i - a \in 0 .. s - 1 /\ a + (i - a) + 1 = i + 1
        OBVIOUS
      <3> QED
        BY <2>1, <3>1 DEF Misses
    <2>5. CASE S = {}
      <3>1. pos = NPos
        BY <2>2, <2>5 DEF LastIn
      <3>2. AllSeps(t, c, a + 0, a + s) /\ 0 \in 0 .. s
        BY <2>4, <2>5 DEF AllSeps
      <3> QED
        BY <1>1, <2>3, <3>1, <3>2
    <2>6. CASE S # {}
      <3>1. pos \in S /\ \A y \in S : y <= pos
        BY <2>2, <2>6 DEF LastIn
      <3>2. pos \in 0 .. s - 1 /\ t[a + pos + 1] # c
        BY <2>1, <3>1 DEF Misses
      <3>3. PICK k : k = pos + 1
        OBVIOUS
      <3>4. k \in 0 .. s /\ a + k = a + pos + 1 /\ pos # NPos
        BY <3>2, <3>3 DEF NPos
      <3>5. AllSeps(t, c, a + k, a + s)
        <4> SUFFICES ASSUME NEW i \in a + k .. a + s - 1, t[i + 1] # c PROVE FALSE
          BY DEF AllSeps
        <4>1. i - a \in S
          BY <2>4, <3>4
        <4>2. i - a <= pos
          BY <3>1, <4>1
        <4> QED
          BY <3>2, <3>3, <4>2
      <3>6. t[a + k] # c
        BY <3>2, <3>4
      <3>7. TrimR(t, r, c) = [at |-> a, size |-> k]
        BY <2>3, <3>3, <3>4
      <3> QED
        BY <1>1, <3>4, <3>5, <3>6, <3>7
    <2> QED
      BY <2>5, <2>6
  <1> QED
    BY <1>3, <1>4

LEMMA TrimLStarts ==
  ASSUME NEW t, NEW c, NEW a \in Nat, NEW s \in Nat
  PROVE  \E k \in 0 .. s :
           /\ TrimL(t, [at |-> a, size |-> s], c) =
                IF k = s THEN [at |-> a, size |-> 0] ELSE [at |-> a + k, size |-> s - k]
           /\ AllSeps(t, c, a, a + k) /\ (k < s => t[a + k + 1] # c)
  <1>1. PICK r : r = [at |-> a, size |-> s]
    OBVIOUS
  <1>2. r.at = a /\ r.size = s
    BY <1>1
  <1>3. CASE s = 0
    <2>1. TrimL(t, r, c) = r
      BY <1>2, <1>3 DEF TrimL
    <2>2. AllSeps(t, c, a, a + 0) /\ 0 \in 0 .. s
      BY <1>3 DEF AllSeps
    <2> QED
      BY <1>1, <1>3, <2>1, <2>2
  <1>4. CASE s # 0
    <2>1. PICK pos, S : pos = FindFirstNotOf(t, r, c, 0) /\ S = {i \in Misses(t, c, a, s) : i >= 0}
      OBVIOUS
    <2>2. FirstIn(S, pos)
      <3>1. PICK p : p = 0
        OBVIOUS
      <3>2. p \in Int
        BY <3>1
      <3> QED
        BY <1>1, <2>1, <3>1, <3>2, Searches
    <2>3. TrimL(t, r, c) = IF pos # NPos THEN [at |-> a + pos, size |-> s - pos] ELSE [at |-> a, size |-> 0]
      BY <1>2, <1>4, <2>1 DEF TrimL, Substr, SubstrFrom
    <2>4. \A i \in a .. a + s - 1 : t[i + 1] # c => i - a \in S
      <3> SUFFICES ASSUME NEW i \in a .. a + s - 1, t[i + 1] # c PROVE i - a \in S
        OBVIOUS
      <3>1. i - a \in 0 .. s - 1 /\ a + (i - a) + 1 = i + 1
        OBVIOUS
      <3> QED
        BY <2>1, <3>1 DEF Misses
    <2>5. CASE S = {}
      <3>1. pos = NPos
        BY <2>2, <2>5 DEF FirstIn
      <3>2. AllSeps(t, c, a, a + s) /\ s \in 0 .. s
        BY <2>4, <2>5 DEF AllSeps
      <3> QED
        BY <1>1, <2>3, <3>1, <3>2
    <2>6. CASE S # {}
      <3>1. pos \in S /\ \A y \in S : pos <= y
        BY <2>2, <2>6 DEF FirstIn
      <3>2. pos \in 0 .. s - 1 /\ t[a + pos + 1] # c
        BY <2>1, <3>1 DEF Misses
      <3>3. pos \in 0 .. s /\ pos # NPos /\ pos # s
        BY <3>2 DEF NPos
      <3>4. AllSeps(t, c, a, a + pos)
        <4>1. ASSUME NEW i \in a .. a + pos - 1, t[i + 1] # c PROVE FALSE
          <5>1. i \in a .. a + s - 1
            BY <3>2
          <5>2. i - a \in S
            BY <2>4, <4>1, <5>1
          <5>3. pos <= i - a
            BY <3>1, <5>2
          <5> QED
            BY <3>2, <5>3
        <4> QED
          BY <3>2, <4>1 DEF AllSeps
      <3> QED
        BY <1>1, <2>3, <3>2, <3>3, <3>4
    <2> QED
      BY <2>5, <2>6
  <1> QED
    BY <1>3, <1>4

(* What a search of the whole text finds.                                  *)
LastSep(t, c, p, x) ==
  \/ x = NPos /\ \A i \in 0 .. Len(t) - 1 : i <= p => t[i + 1] # c
  \/ /\ x \in 0 .. Len(t) - 1 /\ x <= p /\ t[x + 1] = c
     /\ \A i \in 0 .. Len(t) - 1 : i <= p /\ t[i + 1] = c => i <= x
LastOther(t, c, p, x) ==
  \/ x = NPos /\ \A i \in 0 .. Len(t) - 1 : i <= p => t[i + 1] = c
  \/ /\ x \in 0 .. Len(t) - 1 /\ x <= p /\ t[x + 1] # c
     /\ \A i \in 0 .. Len(t) - 1 : i <= p /\ t[i + 1] # c => i <= x
FirstSep(t, c, p, x) ==
  \/ x = NPos /\ \A i \in 0 .. Len(t) - 1 : i >= p => t[i + 1] # c
  \/ /\ x \in 0 .. Len(t) - 1 /\ x >= p /\ t[x + 1] = c
     /\ \A i \in 0 .. Len(t) - 1 : i >= p /\ t[i + 1] = c => x <= i
FirstOther(t, c, p, x) ==
  \/ x = NPos /\ \A i \in 0 .. Len(t) - 1 : i >= p => t[i + 1] = c
  \/ /\ x \in 0 .. Len(t) - 1 /\ x >= p /\ t[x + 1] # c
     /\ \A i \in 0 .. Len(t) - 1 : i >= p /\ t[i + 1] # c => x <= i

LEMMA WholeSearches ==
  ASSUME NEW A, NEW t \in Seq(A), NEW c, NEW p \in Int
  PROVE  /\ LastSep(t, c, p, FindLastOf(t, Whole(t), c, p))
         /\ LastOther(t, c, p, FindLastNotOf(t, Whole(t), c, p))
         /\ FirstSep(t, c, p, FindFirstOf(t, Whole(t), c, p))
         /\ FirstOther(t, c, p, FindFirstNotOf(t, Whole(t), c, p))
  <1>1. PICK n, r, z : n = Len(t) /\ r = Whole(t) /\ z = 0
    OBVIOUS
  <1>2. n \in Nat /\ z \in Nat /\ r = [at |-> z, size |-> n]
    BY <1>1 DEF Whole
  <1>3. PICK H, M : H = Hits(t, c, z, n) /\ M = Misses(t, c, z, n)
    OBVIOUS
  <1>4. /\ LastIn({i \in H : i <= p}, FindLastOf(t, r, c, p))
        /\ LastIn({i \in M : i <= p}, FindLastNotOf(t, r, c, p))
        /\ FirstIn({i \in H : i >= p}, FindFirstOf(t, r, c, p))
        /\ FirstIn({i \in M : i >= p}, FindFirstNotOf(t, r, c, p))
    BY <1>2, <1>3, Searches
  <1>5. \A i : /\ i \in H <=> i \in 0 .. n - 1 /\ t[i + 1] = c
               /\ i \in M <=> i \in 0 .. n - 1 /\ t[i + 1] # c
    <2>1. \A i \in 0 .. n - 1 : z + i + 1 = i + 1
      BY <1>1, <1>2
    <2> QED
      BY <1>3, <2>1 DEF Hits, Misses
  <1>6. PICK x1, x2, x3, x4 : /\ x1 = FindLastOf(t, r, c, p) /\ x2 = FindLastNotOf(t, r, c, p)
                              /\ x3 = FindFirstOf(t, r, c, p) /\ x4 = FindFirstNotOf(t, r, c, p)
    OBVIOUS
  <1>7. LastSep(t, c, p, x1)
    <2>1. LastIn({i \in H : i <= p}, x1)
      BY <1>4, <1>6
    <2> QED
      BY <1>1, <1>5, <2>1 DEF LastIn, LastSep
  <1>8. LastOther(t, c, p, x2)
    <2>1. LastIn({i \in M : i <= p}, x2)
      BY <1>4, <1>6
    <2> QED
      BY <1>1, <1>5, <2>1 DEF LastIn, LastOther
  <1>9. FirstSep(t, c, p, x3)
    <2>1. FirstIn({i \in H : i >= p}, x3)
      BY <1>4, <1>6
    <2> QED
      BY <1>1, <1>5, <2>1 DEF FirstIn, FirstSep
  <1>10. FirstOther(t, c, p, x4)
    <2>1. FirstIn({i \in M : i >= p}, x4)
      BY <1>4, <1>6
    <2> QED
      BY <1>1, <1>5, <2>1 DEF FirstIn, FirstOther
  <1> QED
    BY <1>1, <1>6, <1>7, <1>8, <1>9, <1>10

(* popr() and popl() by the positions that they find.                      *)
LEMMA PopRIs ==
  ASSUME NEW A, NEW t \in Seq(A), NEW c
  PROVE  \E pos, ppos, pos0 :
           /\ LastSep(t, c, Len(t) - 1, pos) /\ LastOther(t, c, Len(t) - 1, ppos) /\ LastSep(t, c, ppos, pos0)
           /\ PopR(t, c, TRUE) =
                IF Len(t) = 1 /\ t[1] = c THEN [at |-> 0, size |-> 0]
                ELSE IF Len(t) > 1 /\ pos # NPos /\ pos < Len(t) - 1
                     THEN [at |-> pos + 1, size |-> Len(t) - (pos + 1)]
                ELSE IF Len(t) > 1 /\ pos = Len(t) - 1
                     THEN IF ppos = NPos THEN [at |-> 0, size |-> 0]
                          ELSE IF pos0 = NPos THEN [at |-> 0, size |-> Len(t)]
                          ELSE [at |-> pos0 + 1, size |-> Len(t) - (pos0 + 1)]
                ELSE [at |-> 0, size |-> Len(t)]
           /\ Len(t) > 1 /\ pos # NPos =>
                PopR(t, c, FALSE) = [at |-> pos + 1, size |-> Len(t) - (pos + 1)]
  <1>1. PICK n : n = Len(t)
    OBVIOUS
  <1>2. n \in Nat /\ n - 1 \in Int
    BY <1>1
  <1>3. PICK r, pos, ppos : /\ r = Whole(t) /\ pos = FindLastOf(t, r, c, n - 1)
                            /\ ppos = FindLastNotOf(t, r, c, n - 1)
    OBVIOUS
  <1>4. LastSep(t, c, n - 1, pos) /\ LastOther(t, c, n - 1, ppos)
    <2>1. PICK p : p = n - 1
      OBVIOUS
    <2>2. p \in Int
      BY <1>2, <2>1
    <2>3. LastSep(t, c, p, FindLastOf(t, Whole(t), c, p)) /\ LastOther(t, c, p, FindLastNotOf(t, Whole(t), c, p))
      BY <2>2, WholeSearches
    <2> QED
      BY <1>3, <2>1, <2>3
  <1>5. ppos \in Int /\ pos \in -1 .. n - 1
    BY <1>1, <1>2, <1>4 DEF LastOther, LastSep, NPos
  <1>6. PICK pos0 : pos0 = FindLastOf(t, r, c, ppos)
    OBVIOUS
  <1>7. LastSep(t, c, ppos, pos0)
    BY <1>3, <1>5, <1>6, WholeSearches
  <1>8. r.at = 0 /\ r.size = n /\ r = [at |-> 0, size |-> n]
    BY <1>1, <1>3 DEF Whole
  <1>9. BeginsWith(t, r, c) <=> n > 0 /\ t[1] = c
    BY <1>8 DEF BeginsWith
  <1>10. PICK p, q : p = PopR(t, c, TRUE) /\ q = PopR(t, c, FALSE)
    OBVIOUS
  <1>20. pos0 \in Int
    BY <1>1, <1>2, <1>7 DEF LastSep, NPos
  <1>11. /\ Substr(r, 0, 0) = [at |-> 0, size |-> 0]
         /\ SubstrFrom(r, pos + 1) = [at |-> pos + 1, size |-> n - (pos + 1)]
         /\ Substr(r, pos + 1, 0) = [at |-> pos + 1, size |-> 0]
         /\ SubstrFrom(r, pos0 + 1) = [at |-> pos0 + 1, size |-> n - (pos0 + 1)]
    BY <1>5, <1>8, <1>20 DEF Substr, SubstrFrom
  <1>12. p = CASE r.size = 1 /\ BeginsWith(t, r, c) -> Substr(r, 0, 0)
               [] r.size > 1 /\ pos # NPos /\ pos < r.size - 1 -> SubstrFrom(r, pos + 1)
               [] r.size > 1 /\ pos = r.size - 1 ->
                    IF ppos = NPos THEN Substr(r, 0, 0)
                    ELSE IF pos0 = NPos THEN r ELSE SubstrFrom(r, pos0 + 1)
               [] OTHER -> r
    BY <1>3, <1>6, <1>8, <1>10 DEF PopR
  <1>13. q = CASE r.size = 1 /\ BeginsWith(t, r, c) -> Substr(r, 0, 0)
               [] r.size > 1 /\ pos # NPos /\ pos < r.size - 1 -> SubstrFrom(r, pos + 1)
               [] r.size > 1 /\ pos = r.size - 1 -> Substr(r, pos + 1, 0)
               [] OTHER -> r
    BY <1>3, <1>6, <1>8, <1>10 DEF PopR
  <1>14. p = IF n = 1 /\ t[1] = c THEN [at |-> 0, size |-> 0]
             ELSE IF n > 1 /\ pos # NPos /\ pos < n - 1 THEN [at |-> pos + 1, size |-> n - (pos + 1)]
             ELSE IF n > 1 /\ pos = n - 1
                  THEN IF ppos = NPos THEN [at |-> 0, size |-> 0]
                       ELSE IF pos0 = NPos THEN [at |-> 0, size |-> n]
                       ELSE [at |-> pos0 + 1, size |-> n - (pos0 + 1)]
             ELSE [at |-> 0, size |-> n]
    <2>1. CASE n = 1 /\ t[1] = c
      BY <1>2, <1>8, <1>9, <1>12, <1>11, <2>1
    <2>2. CASE ~(n = 1 /\ t[1] = c) /\ n > 1 /\ pos # NPos /\ pos < n - 1
      BY <1>2, <1>5, <1>8, <1>9, <1>12, <1>11, <2>2
    <2>3. CASE n > 1 /\ pos = n - 1
      BY <1>2, <1>5, <1>8, <1>9, <1>12, <1>11, <2>3
    <2>4. CASE ~(n = 1 /\ t[1] = c) /\ ~(n > 1 /\ pos # NPos /\ pos < n - 1) /\ ~(n > 1 /\ pos = n - 1)
      BY <1>2, <1>5, <1>8, <1>9, <1>12, <1>11, <2>4
    <2> QED
      BY <1>2, <2>1, <2>2, <2>3, <2>4
  <1>15. n > 1 /\ pos # NPos => q = [at |-> pos + 1, size |-> n - (pos + 1)]
    <2>1. CASE n > 1 /\ pos # NPos /\ pos < n - 1
      BY <1>2, <1>5, <1>8, <1>13, <1>11, <2>1
    <2>2. CASE n > 1 /\ pos = n - 1
      <3>1. n - (pos + 1) = 0
        BY <1>2, <2>2
      <3> QED
        BY <1>2, <1>5, <1>8, <1>13, <1>11, <2>2, <3>1
    <2> QED
      BY <1>2, <1>5, <2>1, <2>2 DEF NPos
  <1> QED
    BY <1>1, <1>4, <1>7, <1>10, <1>14, <1>15

LEMMA PopLIs ==
  ASSUME NEW A, NEW t \in Seq(A), NEW c
  PROVE  \E pos, ppos, pos0 :
           /\ FirstSep(t, c, 0, pos) /\ FirstOther(t, c, 0, ppos) /\ FirstSep(t, c, ppos, pos0)
           /\ PopL(t, c, TRUE) =
                IF Len(t) = 1 /\ t[1] = c THEN [at |-> 0, size |-> 0]
                ELSE IF Len(t) > 1 /\ pos > 0 THEN [at |-> 0, size |-> pos]
                ELSE IF Len(t) > 1 /\ pos = 0
                     THEN IF ppos = NPos THEN [at |-> 0, size |-> 0]
                          ELSE IF pos0 = NPos THEN [at |-> 0, size |-> Len(t)]
                          ELSE [at |-> 0, size |-> pos0]
                ELSE [at |-> 0, size |-> Len(t)]
           /\ Len(t) > 1 /\ pos # NPos => PopL(t, c, FALSE) = [at |-> 0, size |-> pos]
  <1>1. PICK n, z : n = Len(t) /\ z = 0
    OBVIOUS
  <1>2. n \in Nat /\ z \in Int
    BY <1>1
  <1>3. PICK r, pos, ppos : /\ r = Whole(t) /\ pos = FindFirstOf(t, r, c, z)
                            /\ ppos = FindFirstNotOf(t, r, c, z)
    OBVIOUS
  <1>4. FirstSep(t, c, z, pos) /\ FirstOther(t, c, z, ppos)
    BY <1>2, <1>3, WholeSearches
  <1>5. ppos \in Int /\ pos \in -1 .. n - 1
    BY <1>1, <1>2, <1>4 DEF FirstOther, FirstSep, NPos
  <1>6. PICK pos0 : pos0 = FindFirstOf(t, r, c, ppos)
    OBVIOUS
  <1>7. FirstSep(t, c, ppos, pos0)
    BY <1>3, <1>5, <1>6, WholeSearches
  <1>8. r.at = 0 /\ r.size = n /\ r = [at |-> 0, size |-> n]
    BY <1>1, <1>3 DEF Whole
  <1>9. BeginsWith(t, r, c) <=> n > 0 /\ t[1] = c
    BY <1>8 DEF BeginsWith
  <1>10. PICK p, q : p = PopL(t, c, TRUE) /\ q = PopL(t, c, FALSE)
    OBVIOUS
  <1>11. \A k : Substr(r, 0, k) = [at |-> 0, size |-> k]
    BY <1>8 DEF Substr
  <1>12. p = CASE r.size = 1 /\ BeginsWith(t, r, c) -> Substr(r, 0, 0)
               [] r.size > 1 /\ pos > 0 -> Substr(r, 0, pos)
               [] r.size > 1 /\ pos = 0 ->
                    IF ppos = NPos THEN Substr(r, 0, 0)
                    ELSE IF pos0 = NPos THEN r ELSE Substr(r, 0, pos0)
               [] OTHER -> r
    BY <1>1, <1>3, <1>6, <1>8, <1>10 DEF PopL
  <1>13. q = CASE r.size = 1 /\ BeginsWith(t, r, c) -> Substr(r, 0, 0)
               [] r.size > 1 /\ pos > 0 -> Substr(r, 0, pos)
               [] r.size > 1 /\ pos = 0 -> Substr(r, 0, 0)
               [] OTHER -> r
    BY <1>1, <1>3, <1>6, <1>8, <1>10 DEF PopL
  <1>14. p = IF n = 1 /\ t[1] = c THEN [at |-> 0, size |-> 0]
             ELSE IF n > 1 /\ pos > 0 THEN [at |-> 0, size |-> pos]
             ELSE IF n > 1 /\ pos = 0
                  THEN IF ppos = NPos THEN [at |-> 0, size |-> 0]
                       ELSE IF pos0 = NPos THEN [at |-> 0, size |-> n]
                       ELSE [at |-> 0, size |-> pos0]
             ELSE [at |-> 0, size |-> n]
    <2>1. CASE n = 1 /\ t[1] = c
      BY <1>2, <1>8, <1>9, <1>12, <1>11, <2>1
    <2>2. CASE n > 1 /\ pos > 0
      BY <1>2, <1>5, <1>8, <1>9, <1>12, <1>11, <2>2
    <2>3. CASE n > 1 /\ pos = 0
      BY <1>2, <1>5, <1>8, <1>9, <1>12, <1>11, <2>3
    <2>4. CASE ~(n = 1 /\ t[1] = c) /\ ~(n > 1 /\ pos > 0) /\ ~(n > 1 /\ pos = 0)
      BY <1>2, <1>5, <1>8, <1>9, <1>12, <1>11, <2>4
    <2> QED
      BY <1>2, <2>1, <2>2, <2>3, <2>4
  <1>15. n > 1 /\ pos # NPos => q = [at |-> 0, size |-> pos]
    <2>1. CASE n > 1 /\ pos > 0
      BY <1>2, <1>5, <1>8, <1>13, <1>11, <2>1
    <2>2. CASE n > 1 /\ pos = 0
      BY <1>2, <1>5, <1>8, <1>13, <1>11, <2>2
    <2> QED
      BY <1>2, <1>5, <2>1, <2>2 DEF NPos
  <1>16. FirstSep(t, c, 0, pos) /\ FirstOther(t, c, 0, ppos)
    BY <1>1, <1>4
  <1> QED
    BY <1>1, <1>7, <1>10, <1>14, <1>15, <1>16

(* The last part of a text that holds something, with the separators after *)
(* it, and the first with those before it; or nothing, if there is none.   *)
LastPiece(t, c, a, s) ==
  \/ a = 0 /\ s = 0 /\ AllSeps(t, c, 0, Len(t))
  \/ /\ a \in 0 .. Len(t) /\ s > 0 /\ a + s = Len(t) /\ (a > 0 => t[a] = c)
     /\ \E e \in a + 1 .. Len(t) : NoSeps(t, c, a, e) /\ AllSeps(t, c, e, Len(t))
FirstPiece(t, c, s) ==
  \/ s = 0 /\ AllSeps(t, c, 0, Len(t))
  \/ /\ s \in 1 .. Len(t) /\ (s < Len(t) => t[s + 1] = c)
     /\ \E b \in 0 .. s - 1 : AllSeps(t, c, 0, b) /\ NoSeps(t, c, b, s)

LEMMA PopRPiece ==
  ASSUME NEW A, NEW t \in Seq(A), NEW c
  PROVE  \E a, s \in Nat : PopR(t, c, TRUE) = [at |-> a, size |-> s] /\ LastPiece(t, c, a, s)
  <1>0. PICK p : p = PopR(t, c, TRUE)
    OBVIOUS
  <1>5. SUFFICES \E a, s \in Nat : p = [at |-> a, size |-> s] /\ LastPiece(t, c, a, s)
    BY <1>0
  <1>1. PICK n, z : n = Len(t) /\ z = 0
    OBVIOUS
  <1>2. n \in Nat
    BY <1>1
  <1>30. PICK pos, ppos, pos0 :
           /\ LastSep(t, c, Len(t) - 1, pos) /\ LastOther(t, c, Len(t) - 1, ppos) /\ LastSep(t, c, ppos, pos0)
           /\ p =
                IF Len(t) = 1 /\ t[1] = c THEN [at |-> 0, size |-> 0]
                ELSE IF Len(t) > 1 /\ pos # NPos /\ pos < Len(t) - 1
                     THEN [at |-> pos + 1, size |-> Len(t) - (pos + 1)]
                ELSE IF Len(t) > 1 /\ pos = Len(t) - 1
                     THEN IF ppos = NPos THEN [at |-> 0, size |-> 0]
                          ELSE IF pos0 = NPos THEN [at |-> 0, size |-> Len(t)]
                          ELSE [at |-> pos0 + 1, size |-> Len(t) - (pos0 + 1)]
                ELSE [at |-> 0, size |-> Len(t)]
    BY <1>0, PopRIs
  <1>3. /\ LastSep(t, c, n - 1, pos) /\ LastOther(t, c, n - 1, ppos) /\ LastSep(t, c, ppos, pos0)
        /\ p =
                IF n = 1 /\ t[1] = c THEN [at |-> 0, size |-> 0]
                ELSE IF n > 1 /\ pos # NPos /\ pos < n - 1
                     THEN [at |-> pos + 1, size |-> n - (pos + 1)]
                ELSE IF n > 1 /\ pos = n - 1
                     THEN IF ppos = NPos THEN [at |-> 0, size |-> 0]
                          ELSE IF pos0 = NPos THEN [at |-> 0, size |-> n]
                          ELSE [at |-> pos0 + 1, size |-> n - (pos0 + 1)]
                ELSE [at |-> 0, size |-> n]
    BY <1>1, <1>30
  <1>4. pos \in -1 .. n - 1 /\ ppos \in -1 .. n - 1 /\ pos0 \in -1 .. n - 1
    BY <1>1, <1>2, <1>3 DEF LastSep, LastOther, NPos
  <1>6. CASE n = 0
    <2>1. p = [at |-> 0, size |-> 0]
      BY <1>1, <1>3, <1>6
    <2>2. LastPiece(t, c, 0, 0)
      BY <1>1, <1>6 DEF LastPiece, AllSeps
    <2> QED
      BY <2>1, <2>2
  <1>7. CASE n = 1 /\ t[1] = c
    <2>1. p = [at |-> 0, size |-> 0]
      BY <1>1, <1>3, <1>7
    <2>2. LastPiece(t, c, 0, 0)
      BY <1>1, <1>7 DEF LastPiece, AllSeps
    <2> QED
      BY <2>1, <2>2
  <1>8. CASE n = 1 /\ t[1] # c
    <2>1. p = [at |-> 0, size |-> 1]
      BY <1>1, <1>3, <1>8
    <2>2. NoSeps(t, c, 0, 1) /\ AllSeps(t, c, 1, 1)
      BY <1>8 DEF NoSeps, AllSeps
    <2>3. LastPiece(t, c, 0, 1)
      BY <1>1, <1>8, <2>2 DEF LastPiece
    <2> QED
      BY <2>1, <2>3
  <1>9. CASE n > 1 /\ pos = NPos
    <2>1. p = [at |-> 0, size |-> n]
      BY <1>1, <1>2, <1>3, <1>9 DEF NPos
    <2>2. NoSeps(t, c, 0, n) /\ AllSeps(t, c, n, n)
      BY <1>1, <1>2, <1>3, <1>9 DEF LastSep, NoSeps, AllSeps, NPos
    <2>3. LastPiece(t, c, 0, n)
      BY <1>1, <1>2, <1>9, <2>2 DEF LastPiece
    <2> QED
      BY <1>2, <2>1, <2>3
  <1>10. CASE n > 1 /\ pos # NPos /\ pos < n - 1
    <2>1. PICK a, s : a = pos + 1 /\ s = n - a
      OBVIOUS
    <2>2. a \in 1 .. n - 1 /\ s \in Nat /\ s > 0 /\ a + s = n /\ pos + 1 = a
      BY <1>2, <1>4, <1>10, <2>1 DEF NPos
    <2>3. p = [at |-> a, size |-> s]
      BY <1>2, <1>3, <1>1, <1>10, <2>1
    <2>4. t[a] = c /\ \A i \in 0 .. n - 1 : i <= n - 1 /\ t[i + 1] = c => i <= pos
      BY <1>1, <1>3, <1>10, <2>1 DEF LastSep
    <2>5. NoSeps(t, c, a, n) /\ AllSeps(t, c, n, n)
      BY <1>2, <1>4, <2>2, <2>4 DEF NoSeps, AllSeps
    <2>6. LastPiece(t, c, a, s)
      BY <1>1, <1>2, <2>2, <2>4, <2>5 DEF LastPiece
    <2> QED
      BY <2>2, <2>3, <2>6
  <1>11. CASE n > 1 /\ pos = n - 1 /\ ppos = NPos
    <2>1. p = [at |-> 0, size |-> 0]
      BY <1>1, <1>2, <1>3, <1>11 DEF NPos
    <2>2. AllSeps(t, c, 0, n)
      BY <1>1, <1>2, <1>3, <1>11 DEF LastOther, AllSeps, NPos
    <2>3. LastPiece(t, c, 0, 0)
      BY <1>1, <2>2 DEF LastPiece
    <2> QED
      BY <2>1, <2>3
  <1>12. CASE n > 1 /\ pos = n - 1 /\ ppos # NPos
    <2>1. ppos \in 0 .. n - 1 /\ t[ppos + 1] # c /\ \A i \in 0 .. n - 1 : i <= n - 1 /\ t[i + 1] # c => i <= ppos
      BY <1>1, <1>2, <1>3, <1>12 DEF LastOther
    <2>2. PICK e : e = ppos + 1
      OBVIOUS
    <2>3. e \in 1 .. n
      BY <1>2, <2>1, <2>2
    <2>4. AllSeps(t, c, e, n)
      BY <1>2, <2>1, <2>2, <2>3 DEF AllSeps
    <2>5. CASE pos0 = NPos
      <3>1. p = [at |-> 0, size |-> n]
        BY <1>1, <1>2, <1>3, <1>12, <2>5
      <3>2. \A i \in 0 .. n - 1 : i <= ppos => t[i + 1] # c
        BY <1>1, <1>3, <2>5 DEF LastSep, NPos
      <3>3. NoSeps(t, c, 0, e)
        BY <1>2, <2>1, <2>2, <3>2 DEF NoSeps
      <3>4. LastPiece(t, c, 0, n)
        BY <1>1, <1>2, <1>12, <2>3, <2>4, <3>3 DEF LastPiece
      <3> QED
        BY <1>2, <3>1, <3>4
    <2>6. CASE pos0 # NPos
      <3>1. /\ pos0 \in 0 .. n - 1 /\ pos0 <= ppos /\ t[pos0 + 1] = c
            /\ \A i \in 0 .. n - 1 : i <= ppos /\ t[i + 1] = c => i <= pos0
        BY <1>1, <1>3, <2>6 DEF LastSep
      <3>2. PICK a, s : a = pos0 + 1 /\ s = n - a
        OBVIOUS
      <3>3. pos0 # ppos
        BY <2>1, <3>1
      <3>4. a \in 1 .. n - 1 /\ s \in Nat /\ s > 0 /\ a + s = n /\ e \in a + 1 .. n /\ t[a] = c
        BY <1>2, <2>1, <2>2, <3>1, <3>2, <3>3
      <3>5. p = [at |-> a, size |-> s]
        BY <1>1, <1>2, <1>3, <1>12, <2>6, <3>2
      <3>6. NoSeps(t, c, a, e)
        BY <1>2, <2>1, <2>2, <3>1, <3>2 DEF NoSeps
      <3>7. LastPiece(t, c, a, s)
        BY <1>1, <1>2, <2>4, <3>4, <3>6 DEF LastPiece
      <3> QED
        BY <3>4, <3>5, <3>7
    <2> QED
      BY <2>5, <2>6
  <1> QED
    BY <1>2, <1>4, <1>6, <1>7, <1>8, <1>9, <1>10, <1>11, <1>12

LEMMA PopLPiece ==
  ASSUME NEW A, NEW t \in Seq(A), NEW c
  PROVE  \E s \in Nat : PopL(t, c, TRUE) = [at |-> 0, size |-> s] /\ FirstPiece(t, c, s)
  <1>0. PICK p : p = PopL(t, c, TRUE)
    OBVIOUS
  <1>5. SUFFICES \E s \in Nat : p = [at |-> 0, size |-> s] /\ FirstPiece(t, c, s)
    BY <1>0
  <1>1. PICK n, z : n = Len(t) /\ z = 0
    OBVIOUS
  <1>2. n \in Nat
    BY <1>1
  <1>3. PICK pos, ppos, pos0 :
           /\ FirstSep(t, c, 0, pos) /\ FirstOther(t, c, 0, ppos) /\ FirstSep(t, c, ppos, pos0)
           /\ p =
                IF n = 1 /\ t[1] = c THEN [at |-> 0, size |-> 0]
                ELSE IF n > 1 /\ pos > 0 THEN [at |-> 0, size |-> pos]
                ELSE IF n > 1 /\ pos = 0
                     THEN IF ppos = NPos THEN [at |-> 0, size |-> 0]
                          ELSE IF pos0 = NPos THEN [at |-> 0, size |-> n]
                          ELSE [at |-> 0, size |-> pos0]
                ELSE [at |-> 0, size |-> n]
    BY <1>0, <1>1, <1>2, PopLIs, ZenonT(30)
  <1>4. pos \in -1 .. n - 1 /\ ppos \in -1 .. n - 1 /\ pos0 \in -1 .. n - 1
    BY <1>1, <1>2, <1>3 DEF FirstSep, FirstOther, NPos
  <1>6. CASE n = 0
    <2>1. p = [at |-> 0, size |-> 0]
      BY <1>1, <1>3, <1>6
    <2>2. FirstPiece(t, c, 0)
      BY <1>1, <1>6 DEF FirstPiece, AllSeps
    <2> QED
      BY <2>1, <2>2
  <1>7. CASE n = 1 /\ t[1] = c
    <2>1. p = [at |-> 0, size |-> 0]
      BY <1>1, <1>3, <1>7
    <2>2. FirstPiece(t, c, 0)
      BY <1>1, <1>7 DEF FirstPiece, AllSeps
    <2> QED
      BY <2>1, <2>2
  <1>8. CASE n = 1 /\ t[1] # c
    <2>1. p = [at |-> 0, size |-> 1]
      BY <1>1, <1>3, <1>8
    <2>2. AllSeps(t, c, 0, 0) /\ NoSeps(t, c, 0, 1)
      BY <1>8 DEF NoSeps, AllSeps
    <2>3. FirstPiece(t, c, 1)
      BY <1>1, <1>8, <2>2 DEF FirstPiece
    <2> QED
      BY <2>1, <2>3
  <1>9. CASE n > 1 /\ pos = NPos
    <2>1. p = [at |-> 0, size |-> n]
      BY <1>1, <1>2, <1>3, <1>9 DEF NPos
    <2>2. AllSeps(t, c, 0, 0) /\ NoSeps(t, c, 0, n)
      BY <1>1, <1>2, <1>3, <1>9 DEF FirstSep, NoSeps, AllSeps, NPos
    <2>3. FirstPiece(t, c, n)
      BY <1>1, <1>2, <1>9, <2>2 DEF FirstPiece
    <2> QED
      BY <1>2, <2>1, <2>3
  <1>10. CASE n > 1 /\ pos > 0
    <2>1. p = [at |-> 0, size |-> pos]
      BY <1>2, <1>3, <1>1, <1>10
    <2>2. pos \in 0 .. n - 1 /\ t[pos + 1] = c /\ \A i \in 0 .. n - 1 : i >= 0 /\ t[i + 1] = c => pos <= i
      BY <1>1, <1>3, <1>4, <1>10 DEF FirstSep, NPos
    <2>3. AllSeps(t, c, 0, 0) /\ NoSeps(t, c, 0, pos)
      BY <1>2, <2>2 DEF NoSeps, AllSeps
    <2>4. FirstPiece(t, c, pos)
      BY <1>1, <1>2, <1>10, <2>2, <2>3 DEF FirstPiece
    <2> QED
      BY <2>1, <2>2, <2>4
  <1>11. CASE n > 1 /\ pos = 0 /\ ppos = NPos
    <2>1. p = [at |-> 0, size |-> 0]
      BY <1>1, <1>2, <1>3, <1>11
    <2>2. AllSeps(t, c, 0, n)
      BY <1>1, <1>2, <1>3, <1>11 DEF FirstOther, AllSeps, NPos
    <2>3. FirstPiece(t, c, 0)
      BY <1>1, <2>2 DEF FirstPiece
    <2> QED
      BY <2>1, <2>3
  <1>12. CASE n > 1 /\ pos = 0 /\ ppos # NPos
    <2>1. ppos \in 0 .. n - 1 /\ t[ppos + 1] # c /\ \A i \in 0 .. n - 1 : i >= 0 /\ t[i + 1] # c => ppos <= i
      BY <1>1, <1>2, <1>3, <1>12 DEF FirstOther
    <2>2. AllSeps(t, c, 0, ppos)
      BY <1>2, <2>1 DEF AllSeps
    <2>3. CASE pos0 = NPos
      <3>1. p = [at |-> 0, size |-> n]
        BY <1>1, <1>2, <1>3, <1>12, <2>3
      <3>2. \A i \in 0 .. n - 1 : i >= ppos => t[i + 1] # c
        BY <1>1, <1>3, <2>3 DEF FirstSep, NPos
      <3>3. NoSeps(t, c, ppos, n)
        BY <1>2, <2>1, <3>2 DEF NoSeps
      <3>4. FirstPiece(t, c, n)
        BY <1>1, <1>2, <1>12, <2>1, <2>2, <3>3 DEF FirstPiece
      <3> QED
        BY <1>2, <3>1, <3>4
    <2>4. CASE pos0 # NPos
      <3>1. /\ pos0 \in 0 .. n - 1 /\ pos0 >= ppos /\ t[pos0 + 1] = c
            /\ \A i \in 0 .. n - 1 : i >= ppos /\ t[i + 1] = c => pos0 <= i
        BY <1>1, <1>3, <2>4 DEF FirstSep
      <3>2. pos0 # ppos
        BY <2>1, <3>1
      <3>3. pos0 \in 1 .. n /\ ppos \in 0 .. pos0 - 1 /\ pos0 \in Nat
        BY <1>2, <2>1, <3>1, <3>2
      <3>4. p = [at |-> 0, size |-> pos0]
        BY <1>1, <1>2, <1>3, <1>12, <2>4
      <3>5. NoSeps(t, c, ppos, pos0)
        BY <1>2, <2>1, <3>1 DEF NoSeps
      <3>6. FirstPiece(t, c, pos0)
        BY <1>1, <1>2, <2>2, <3>1, <3>3, <3>5 DEF FirstPiece
      <3> QED
        BY <3>3, <3>4, <3>6
    <2> QED
      BY <2>3, <2>4
  <1> QED
    BY <1>2, <1>4, <1>6, <1>7, <1>8, <1>9, <1>10, <1>11, <1>12 DEF NPos

LEMMA StepsUp ==
  ASSUME NEW t, NEW c, NEW a \in Nat, NEW s \in Nat
  PROVE  Steps(Up(t, [at |-> a, size |-> s]), c) = Within(t, c, a, a + s)
  BY DEF Up, Within

(* popr() and gpopl(): where the two parts are.                            *)
LEMMA RightPop ==
  ASSUME NEW A, NEW t \in Seq(A), NEW c
  PROVE  \E a, s, g \in Nat :
           /\ PopR(t, c, TRUE) = [at |-> a, size |-> s] /\ LastPiece(t, c, a, s)
           /\ GPopL(t, c, TRUE) = [at |-> 0, size |-> g]
           /\ g <= a /\ a <= Len(t) /\ AllSeps(t, c, g, a) /\ (a > 0 => g < a)
  <1>0. PICK p, q : p = PopR(t, c, TRUE) /\ q = GPopL(t, c, TRUE)
    OBVIOUS
  <1> SUFFICES \E a, s, g \in Nat :
                  /\ p = [at |-> a, size |-> s] /\ LastPiece(t, c, a, s) /\ q = [at |-> 0, size |-> g]
                  /\ g <= a /\ a <= Len(t) /\ AllSeps(t, c, g, a) /\ (a > 0 => g < a)
    BY <1>0
  <1>1. PICK a \in Nat, s \in Nat : p = [at |-> a, size |-> s] /\ LastPiece(t, c, a, s)
    BY <1>0, PopRPiece
  <1>2. PICK n, r, cut : /\ n = Len(t) /\ r = Whole(t)
                        /\ cut = Compll(r, [at |-> a, size |-> s])
    OBVIOUS
  <1>3. n \in Nat /\ a <= n /\ (a > 0 => t[a] = c)
    BY <1>1, <1>2 DEF LastPiece
  <1>4. r.at = 0 /\ r.size = n
    BY <1>2 DEF Whole
  <1>5. cut = [at |-> 0, size |-> a]
    BY <1>2, <1>3, <1>4 DEF Compll, Substr
  <1>6. q = IF ~EndsWith(t, cut, c) THEN cut ELSE TrimR(t, cut, c)
    BY <1>0, <1>1, <1>2 DEF GPopL
  <1>7. EndsWith(t, cut, c) <=> a > 0 /\ t[a] = c
    <2>1. 0 + a = a
      OBVIOUS
    <2> QED
      BY <1>5, <2>1 DEF EndsWith
  <1>8. CASE a = 0
    <2>1. q = [at |-> 0, size |-> 0]
      BY <1>5, <1>6, <1>7, <1>8
    <2>2. AllSeps(t, c, 0, 0)
      BY DEF AllSeps
    <2> QED
      BY <1>1, <1>2, <1>3, <1>8, <2>1, <2>2
  <1>9. CASE a > 0
    <2>1. q = TrimR(t, cut, c)
      BY <1>3, <1>6, <1>7, <1>9
    <2>2. PICK z : z = 0
      OBVIOUS
    <2>3. PICK k \in 0 .. a : /\ TrimR(t, [at |-> z, size |-> a], c) = [at |-> z, size |-> k]
                              /\ AllSeps(t, c, z + k, z + a) /\ (k > 0 => t[z + k] # c)
      <3>1. z \in Nat
        BY <2>2
      <3> QED
        BY <3>1, TrimREnds
    <2>4. z + k = k /\ z + a = a /\ k \in Nat
      BY <2>2, <2>3
    <2>5. AllSeps(t, c, k, a) /\ (k > 0 => t[k] # c)
      BY <2>3, <2>4
    <2>6. k < a
      BY <1>3, <1>9, <2>4, <2>5
    <2>7. q = [at |-> 0, size |-> k]
      BY <1>5, <2>1, <2>2, <2>3
    <2> QED
      BY <1>1, <1>2, <1>3, <2>4, <2>5, <2>6, <2>7, SMTT(30)
  <1> QED
    BY <1>8, <1>9

(* popl() and gpopr().                                                     *)
LEMMA LeftPop ==
  ASSUME NEW A, NEW t \in Seq(A), NEW c
  PROVE  \E s, b, z \in Nat :
           /\ PopL(t, c, TRUE) = [at |-> 0, size |-> s] /\ FirstPiece(t, c, s)
           /\ GPopR(t, c, TRUE) = [at |-> b, size |-> z]
           /\ s <= Len(t) /\ b <= Len(t)
           /\ \/ z = 0 /\ AllSeps(t, c, s, Len(t))
              \/ b + z = Len(t) /\ s < b /\ AllSeps(t, c, s, b)
  <1>0. PICK p, q : p = PopL(t, c, TRUE) /\ q = GPopR(t, c, TRUE)
    OBVIOUS
  <1> SUFFICES \E s, b, z \in Nat :
                  /\ p = [at |-> 0, size |-> s] /\ FirstPiece(t, c, s) /\ q = [at |-> b, size |-> z]
                  /\ s <= Len(t) /\ b <= Len(t)
                  /\ \/ z = 0 /\ AllSeps(t, c, s, Len(t))
                     \/ b + z = Len(t) /\ s < b /\ AllSeps(t, c, s, b)
    BY <1>0
  <1>1. PICK s \in Nat : p = [at |-> 0, size |-> s] /\ FirstPiece(t, c, s)
    BY <1>0, PopLPiece
  <1>2. PICK n, r, cut : /\ n = Len(t) /\ r = Whole(t)
                        /\ cut = Complr(r, [at |-> 0, size |-> s])
    OBVIOUS
  <1>3. n \in Nat /\ s <= n /\ (s < n => t[s + 1] = c)
    <2>1. n \in Nat
      BY <1>2
    <2>2. CASE s = 0 /\ AllSeps(t, c, 0, n)
      <3>1. n # 0 => 0 \in 0 .. n - 1
        BY <2>1
      <3>2. n # 0 => t[0 + 1] = c
        BY <2>2, <3>1 DEF AllSeps
      <3>3. 0 + 1 = s + 1
        BY <2>2
      <3> QED
        BY <2>1, <2>2, <3>2, <3>3
    <2>3. CASE s \in 1 .. n /\ (s < n => t[s + 1] = c)
      BY <2>1, <2>3
    <2> QED
      BY <1>1, <1>2, <2>2, <2>3 DEF FirstPiece
  <1>4. r.at = 0 /\ r.size = n
    BY <1>2 DEF Whole
  <1>5. PICK m : m = n - s
    OBVIOUS
  <1>50. m \in Nat /\ s + m = n
    BY <1>3, <1>5
  <1>51. cut = [at |-> s, size |-> m]
    BY <1>2, <1>3, <1>4, <1>5 DEF Complr, Substr
  <1>6. q = IF ~BeginsWith(t, cut, c) THEN cut ELSE TrimL(t, cut, c)
    BY <1>0, <1>1, <1>2 DEF GPopR
  <1>7. BeginsWith(t, cut, c) <=> m > 0 /\ t[s + 1] = c
    BY <1>51 DEF BeginsWith
  <1>8. CASE s = n
    <2>1. q = [at |-> n, size |-> 0]
      BY <1>50, <1>51, <1>6, <1>7, <1>8
    <2>2. AllSeps(t, c, n, n)
      BY <1>3 DEF AllSeps
    <2> QED
      BY <1>1, <1>2, <1>3, <1>8, <2>1, <2>2
  <1>9. CASE s < n
    <2>1. q = TrimL(t, cut, c) /\ t[s + 1] = c /\ m > 0
      BY <1>3, <1>50, <1>6, <1>7, <1>9
    <2>2. PICK k \in 0 .. m :
            /\ TrimL(t, [at |-> s, size |-> m], c) =
                 IF k = m THEN [at |-> s, size |-> 0] ELSE [at |-> s + k, size |-> m - k]
            /\ AllSeps(t, c, s, s + k) /\ (k < m => t[s + k + 1] # c)
      BY <1>50, TrimLStarts
    <2>3. CASE k = m
      <3>1. q = [at |-> s, size |-> 0] /\ AllSeps(t, c, s, n)
        BY <1>50, <1>51, <2>1, <2>2, <2>3
      <3> QED
        BY <1>1, <1>2, <1>3, <3>1
    <2>4. CASE k # m
      <3>1. PICK b, z : b = s + k /\ z = m - k
        OBVIOUS
      <3>2. k # 0
        <4>1. s + 0 + 1 = s + 1
          OBVIOUS
        <4> QED
          BY <2>1, <2>2, <4>1
      <3>3. b \in Nat /\ z \in Nat /\ b + z = n /\ s < b /\ b <= n
        BY <1>3, <1>50, <2>2, <2>4, <3>1, <3>2
      <3>4. q = [at |-> b, size |-> z] /\ AllSeps(t, c, s, b)
        BY <1>51, <2>1, <2>2, <2>4, <3>1
      <3> QED
        BY <1>1, <1>2, <1>3, <3>3, <3>4
    <2> QED
      BY <2>3, <2>4
  <1> QED
    BY <1>3, <1>8, <1>9

(* The steps of a piece: one, or none.                                     *)
LEMMA LastPieceSteps ==
  ASSUME NEW A, NEW c \in A, NEW t \in Seq(A), NEW a \in Nat, NEW s \in Nat, LastPiece(t, c, a, s)
  PROVE  Len(Within(t, c, a, a + s)) <= 1
  <1>1. Len(t) \in Nat /\ Len(<<>>) = 0
    OBVIOUS
  <1>2. CASE s = 0 /\ a = 0
    <2>1. Within(t, c, a, a) = <<>>
      BY <1>1, <1>2, WithinNothing
    <2> QED
      BY <1>1, <1>2, <2>1
  <1>3. CASE s > 0
    <2>1. PICK e \in a + 1 .. Len(t) : NoSeps(t, c, a, e) /\ AllSeps(t, c, e, Len(t))
      BY <1>3 DEF LastPiece
    <2>2. PICK b : b = Len(t)
      OBVIOUS
    <2>3. b \in Nat /\ b <= Len(t) /\ e \in a .. b /\ a + s = b /\ AllSeps(t, c, e, b) /\ e \in Nat /\ a <= e /\ e <= Len(t)
      BY <1>1, <1>3, <2>1, <2>2 DEF LastPiece
    <2>4. Within(t, c, a, b) = Within(t, c, a, e)
      BY <2>3, NoneRight
    <2>5. Len(Within(t, c, a, e)) <= 1
      BY <2>1, <2>3, WithinNoSeps
    <2> QED
      BY <2>3, <2>4, <2>5
  <1> QED
    BY <1>2, <1>3 DEF LastPiece

LEMMA FirstPieceSteps ==
  ASSUME NEW A, NEW c \in A, NEW t \in Seq(A), NEW s \in Nat, FirstPiece(t, c, s)
  PROVE  Len(Within(t, c, 0, s)) <= 1
  <1>1. Len(t) \in Nat /\ Len(<<>>) = 0
    OBVIOUS
  <1>2. PICK z : z = 0
    OBVIOUS
  <1>20. z \in Nat /\ z <= Len(t)
    BY <1>1, <1>2
  <1>3. CASE s = 0
    <2>1. Within(t, c, z, z) = <<>>
      BY <1>20, WithinNothing
    <2> QED
      BY <1>1, <1>2, <1>3, <2>1
  <1>4. CASE s # 0
    <2>1. PICK b \in 0 .. s - 1 : AllSeps(t, c, 0, b) /\ NoSeps(t, c, b, s)
      BY <1>4 DEF FirstPiece
    <2>2. s <= Len(t) /\ b \in z .. s /\ AllSeps(t, c, z, b) /\ b \in Nat /\ b <= s
      BY <1>1, <1>2, <1>4, <2>1 DEF FirstPiece
    <2>3. Within(t, c, z, s) = Within(t, c, b, s)
      BY <1>20, <2>2, NoneLeft
    <2>4. Len(Within(t, c, b, s)) <= 1
      BY <2>1, <2>2, WithinNoSeps
    <2> QED
      BY <1>2, <2>3, <2>4
  <1> QED
    BY <1>3, <1>4

(* dirname() is gpopl() and some of the separators behind it.              *)
LEMMA DirnameIs ==
  ASSUME NEW A, NEW t \in Seq(A), NEW c, NEW g \in 0 .. Len(t)
  PROVE  GPopL(t, c, TRUE) = [at |-> 0, size |-> g] =>
           \E d \in g .. Len(t) : Dirname(t, c) = [at |-> 0, size |-> d] /\ AllSeps(t, c, g, d)
  <1>0. PICK q : q = GPopL(t, c, TRUE)
    OBVIOUS
  <1> SUFFICES ASSUME q = [at |-> 0, size |-> g]
               PROVE  \E d \in g .. Len(t) : Dirname(t, c) = [at |-> 0, size |-> d] /\ AllSeps(t, c, g, d)
    BY <1>0, Zenon
  <1>1. PICK n, r, rem, x, m : /\ n = Len(t) /\ r = Whole(t) /\ rem = Complr(r, q) /\ x = Dirname(t, c)
                               /\ m = n - g
    OBVIOUS
  <1>2. n \in Nat /\ g \in 0 .. n /\ m \in Nat /\ g + m = n
    BY <1>1
  <1>3. r.at = 0 /\ r.size = n /\ r = [at |-> 0, size |-> n]
    BY <1>1 DEF Whole
  <1>4. rem = [at |-> g, size |-> m]
    BY <1>1, <1>2, <1>3 DEF Complr, Substr
  <1>5. x = IF EndsWith(t, q, c) \/ n <= g THEN q
            ELSE IF Count(t, rem, c) = m THEN r
            ELSE IF t[g + 1] = c THEN Substr(r, 0, g + 1) ELSE q
    <2>1. q.size = g /\ rem.size = m
      BY <1>4
    <2>2. Dirname(t, c) = IF EndsWith(t, q, c) \/ Len(t) <= q.size THEN q
                          ELSE IF Count(t, Complr(Whole(t), q), c) = Complr(Whole(t), q).size THEN Whole(t)
                          ELSE IF t[q.size + 1] = c THEN Substr(Whole(t), 0, q.size + 1) ELSE q
      BY <1>0, Zenon DEF Dirname
    <2>3. x = IF EndsWith(t, q, c) \/ n <= q.size THEN q
              ELSE IF Count(t, rem, c) = rem.size THEN r
              ELSE IF t[q.size + 1] = c THEN Substr(r, 0, q.size + 1) ELSE q
      BY <1>1, <2>2, Zenon
    <2> QED
      BY <2>1, <2>3, Zenon
  <1>6. Substr(r, 0, g + 1) = [at |-> 0, size |-> g + 1]
    BY <1>3 DEF Substr
  <1>7. AllSeps(t, c, g, g)
    BY <1>2 DEF AllSeps
  <1>8. CASE x = q
    BY <1>1, <1>2, <1>7, <1>8
  <1>9. CASE x = r /\ Count(t, rem, c) = m
    <2>1. PICK H : H = Hits(t, c, g, m)
      OBVIOUS
    <2>2. Cardinality(H) = m
      <3>1. g \in Nat
        BY <1>2
      <3>2. Places(t, rem, c, TRUE) = H
        BY <1>2, <1>4, <2>1, <3>1, PlacesAre
      <3> QED
        BY <1>9, <3>2 DEF Count
    <2>3. H \in SUBSET (0 .. m - 1)
      BY <2>1 DEF Hits
    <2>4. IsFiniteSet(0 .. m - 1) /\ Cardinality(0 .. m - 1) = m
      <3>1. 0 \in Int /\ m - 1 \in Int
        BY <1>2
      <3>2. IsFiniteSet(0 .. m - 1) /\ Cardinality(0 .. m - 1) = IF 0 > m - 1 THEN 0 ELSE (m - 1) - 0 + 1
        BY <3>1, FS_Interval
      <3> QED
        BY <1>2, <3>2
    <2>5. H = 0 .. m - 1
      BY <2>2, <2>3, <2>4, FS_Subset
    <2>6. AllSeps(t, c, g, n)
      <3>1. ASSUME NEW i \in g .. n - 1 PROVE t[i + 1] = c
        <4>1. i - g \in 0 .. m - 1 /\ g + (i - g) + 1 = i + 1
          BY <1>2
        <4>2. i - g \in Hits(t, c, g, m)
          BY <2>1, <2>5, <4>1
        <4> QED
          BY <4>1, <4>2 DEF Hits
      <3> QED
        BY <3>1 DEF AllSeps
    <2> QED
      BY <1>1, <1>2, <1>3, <1>9, <2>6
  <1>10. CASE x = Substr(r, 0, g + 1) /\ t[g + 1] = c /\ ~(n <= g)
    <2>1. PICK d : d = g + 1
      OBVIOUS
    <2>2. d \in g .. n /\ AllSeps(t, c, g, d)
      BY <1>2, <1>10, <2>1 DEF AllSeps
    <2> QED
      BY <1>1, <1>6, <1>10, <2>1, <2>2
  <1> QED
    BY <1>5, <1>8, <1>9, <1>10

(* trim() finds both ends in the whole text.                               *)
LEMMA TrimBoth ==
  ASSUME NEW A, NEW c \in A, NEW t \in Seq(A)
  PROVE  Trim(t, Whole(t), c) = TrimL(t, TrimR(t, Whole(t), c), c)
  <1>1. PICK n, r, z, y : n = Len(t) /\ r = Whole(t) /\ z = 0 /\ y = n - 1
    OBVIOUS
  <1>2. n \in Nat /\ z \in Int /\ y \in Int /\ z \in Nat
    BY <1>1
  <1>3. r.at = 0 /\ r.size = n
    BY <1>1 DEF Whole
  <1>4. CASE n = 0
    BY <1>1, <1>3, <1>4 DEF Trim, TrimL, TrimR
  <1>5. CASE n # 0
    <2>1. PICK b, e : b = FindFirstNotOf(t, r, c, z) /\ e = FindLastNotOf(t, r, c, y)
      OBVIOUS
    <2>2. FirstOther(t, c, z, b)
      BY <1>1, <1>2, <2>1, WholeSearches
    <2>3. LastOther(t, c, y, e)
      BY <1>1, <1>2, <2>1, WholeSearches
    <2>4. CASE b = NPos
      <3>1. \A i \in 0 .. n - 1 : i >= z => t[i + 1] = c
        BY <1>1, <2>2, <2>4 DEF FirstOther, NPos
      <3>2. e = NPos
        BY <1>1, <1>2, <2>3, <3>1 DEF LastOther, NPos
      <3>3. PICK w : w = [at |-> 0, size |-> 0]
        OBVIOUS
      <3>4. Trim(t, r, c) = w /\ TrimR(t, r, c) = w
        BY <1>1, <1>3, <1>5, <2>1, <2>4, <3>2, <3>3 DEF Trim, TrimR, Substr
      <3>5. TrimL(t, w, c) = w
        BY <3>3 DEF TrimL
      <3> QED
        BY <1>1, <3>4, <3>5
    <2>5. CASE b # NPos
      <3>1. b \in 0 .. n - 1 /\ t[b + 1] # c /\ \A i \in 0 .. n - 1 : i >= z /\ t[i + 1] # c => b <= i
        BY <1>1, <2>2, <2>5 DEF FirstOther
      <3>2. e # NPos
        BY <1>1, <1>2, <2>3, <3>1 DEF LastOther, NPos
      <3>3. e \in 0 .. n - 1 /\ t[e + 1] # c
        BY <1>1, <2>3, <3>2 DEF LastOther
      <3>4. b <= e
        BY <1>1, <1>2, <3>1, <3>3
      <3>5. PICK s : s = e + 1
        OBVIOUS
      <3>6. s \in Nat /\ b \in 0 .. s - 1
        BY <3>1, <3>3, <3>4, <3>5
      <3>7. Trim(t, r, c) = [at |-> b, size |-> s - b]
        <4>1. Trim(t, r, c) = [at |-> 0 + b, size |-> e - b + 1]
          BY <1>1, <1>3, <1>5, <2>1, <2>5 DEF Trim, Substr
        <4>2. 0 + b = b /\ e - b + 1 = s - b
          BY <3>1, <3>3, <3>5
        <4> QED
          BY <4>1, <4>2
      <3>8. PICK w : w = TrimR(t, r, c)
        OBVIOUS
      <3>9. w = [at |-> z, size |-> s]
        BY <1>1, <1>3, <1>5, <2>1, <3>2, <3>5, <3>8 DEF TrimR, Substr
      <3>10. PICK pos, M : pos = FindFirstNotOf(t, w, c, z) /\ M = Misses(t, c, z, s)
        OBVIOUS
      <3>11. FirstIn({i \in M : i >= z}, pos)
        BY <1>2, <3>6, <3>9, <3>10, Searches
      <3>12. \A i : i \in M <=> i \in 0 .. s - 1 /\ t[i + 1] # c
        <4>1. \A i \in 0 .. s - 1 : z + i + 1 = i + 1
          BY <1>1, <3>6
        <4> QED
          BY <3>10, <4>1 DEF Misses
      <3>13. b \in {i \in M : i >= z}
        BY <1>1, <3>1, <3>6, <3>12
      <3>14. pos \in M /\ pos <= b
        BY <3>11, <3>13 DEF FirstIn
      <3>15. pos \in 0 .. n - 1 /\ t[pos + 1] # c
        BY <1>2, <3>3, <3>5, <3>12, <3>14
      <3>16. pos = b
        BY <1>1, <3>1, <3>14, <3>15
      <3>17. TrimL(t, w, c) = [at |-> b, size |-> s - b]
        <4>1. w.at = 0 /\ w.size = s /\ s # 0 /\ 0 + b = b
          BY <1>1, <3>1, <3>6, <3>9
        <4> QED
          BY <1>1, <2>5, <3>10, <3>16, <4>1 DEF TrimL, SubstrFrom, Substr
      <3> QED
        BY <1>1, <3>7, <3>8, <3>17
    <2> QED
      BY <2>4, <2>5
  <1> QED
    BY <1>4, <1>5

(* Joined again, with the separator between them.                          *)
LEMMA Rejoined ==
  ASSUME NEW A, NEW c \in A, NEW t \in Seq(A), NEW i \in 0 .. Len(t) - 1, t[i + 1] = c
  PROVE  Up(t, [at |-> 0, size |-> i]) \o <<c>> \o Up(t, [at |-> i + 1, size |-> Len(t) - (i + 1)]) = t
  <1>1. PICK n, z, j : n = Len(t) /\ z = 0 /\ j = i + 1
    OBVIOUS
  <1>2. n \in Nat /\ n <= Len(t) /\ z \in Nat /\ i \in z .. n - 1 /\ j \in Nat /\ j <= n /\ i \in Nat /\ z <= i /\ i <= Len(t)
    BY <1>1
  <1>3. PICK x, y, u : x = SubSeq(t, z + 1, i) /\ y = SubSeq(t, i + 1 + 1, n) /\ u = <<c>>
    OBVIOUS
  <1>4. SubSeq(t, z + 1, n) = SubSeq(t, z + 1, i) \o (<<c>> \o SubSeq(t, i + 1 + 1, n))
    BY <1>2, PartedAt
  <1>5. SubSeq(t, z + 1, n) = t
    BY <1>1
  <1>6. x \in Seq(A)
    BY <1>2, <1>3, PartOfText
  <1>7. y \in Seq(A)
    <2>1. y = SubSeq(t, j + 1, n)
      BY <1>1, <1>3
    <2> QED
      BY <1>2, <2>1, PartOfText
  <1>8. u \in Seq(A)
    BY <1>3
  <1>9. (x \o u) \o y = x \o (u \o y)
    <2> USE <1>6, <1>7, <1>8
    <2> QED
      BY ONLY x \in Seq(A), u \in Seq(A), y \in Seq(A), ConcatAssociative, SMTT(30)
  <1>10. Up(t, [at |-> 0, size |-> i]) = x
    <2>1. 0 + i = i /\ 0 + 1 = z + 1
      BY <1>1
    <2> QED
      BY <1>3, <2>1 DEF Up
  <1>11. Up(t, [at |-> i + 1, size |-> Len(t) - (i + 1)]) = y
    <2>1. (i + 1) + (Len(t) - (i + 1)) = n
      BY <1>1
    <2> QED
      BY <1>3, <2>1 DEF Up
  <1> QED
    BY <1>3, <1>4, <1>5, <1>9, <1>10, <1>11

(* The steps of a text are those of its two parts.                         *)
TwoParts(t, c, a, b) == Steps(Up(t, a), c) \o Steps(Up(t, b), c) = Steps(t, c)

LEMMA StepsWithin ==
  ASSUME NEW A, NEW t \in Seq(A), NEW c
  PROVE  Steps(t, c) = Within(t, c, 0, Len(t))
  <1>1. SubSeq(t, 0 + 1, Len(t)) = t
    OBVIOUS
  <1> QED
    BY <1>1 DEF Within

LEMMA EmptyBefore ==
  ASSUME NEW A, NEW c \in A, NEW t \in Seq(A), NEW a \in Nat, NEW b \in Nat, a <= b, b <= Len(t)
  PROVE  <<>> \o Within(t, c, a, b) = Within(t, c, a, b) /\ Within(t, c, a, b) \o <<>> = Within(t, c, a, b)
  <1>1. PICK w, S : w = Within(t, c, a, b) /\ S = Seq(A)
    OBVIOUS
  <1>2. w \in Seq(S)
    BY <1>1, WithinParts
  <1>3. <<>> \o w = w /\ w \o <<>> = w
    BY <1>2, ConcatEmptySeq
  <1> QED
    BY <1>1, <1>3

LEMMA RightParts ==
  ASSUME NEW A, NEW c \in A, NEW t \in Seq(A)
  PROVE  /\ TwoParts(t, c, GPopL(t, c, TRUE), PopR(t, c, TRUE))
         /\ TwoParts(t, c, Dirname(t, c), Basename(t, c))
         /\ Len(Steps(Up(t, PopR(t, c, TRUE)), c)) <= 1
  <1>0. PICK p, q, d, b : p = PopR(t, c, TRUE) /\ q = GPopL(t, c, TRUE) /\ d = Dirname(t, c) /\ b = Basename(t, c)
    OBVIOUS
  <1> SUFFICES TwoParts(t, c, q, p) /\ TwoParts(t, c, d, b) /\ Len(Steps(Up(t, p), c)) <= 1
    BY <1>0, Zenon
  <1>1. PICK a \in Nat, s \in Nat, g \in Nat :
           /\ p = [at |-> a, size |-> s] /\ LastPiece(t, c, a, s)
           /\ q = [at |-> 0, size |-> g]
           /\ g <= a /\ a <= Len(t) /\ AllSeps(t, c, g, a) /\ (a > 0 => g < a)
    BY <1>0, RightPop, Zenon
  <1>2. PICK n, z, e : n = Len(t) /\ z = 0 /\ e = a + s
    OBVIOUS
  <1>3. /\ n \in Nat /\ z \in Nat /\ e \in Nat /\ a <= e /\ e <= n /\ g \in z .. n /\ z <= n /\ n <= Len(t) /\ z <= g
        /\ (s = 0 => a = 0 /\ AllSeps(t, c, z, n)) /\ (s # 0 => e = n)
    BY <1>1, <1>2 DEF LastPiece
  <1>4. Within(t, c, z, z) = <<>>
    BY <1>2, <1>3, WithinNothing
  <1>5. Within(t, c, z, g) \o Within(t, c, a, e) = Within(t, c, z, n)
    <2>1. CASE s = 0
      <3>1. a = z /\ e = z /\ g = z
        BY <1>1, <1>2, <1>3, <2>1
      <3>2. Within(t, c, z, n) = <<>>
        BY <1>3, <2>1, WithinAllSeps
      <3>3. <<>> \o <<>> = <<>>
        OBVIOUS
      <3> QED
        BY <1>4, <3>1, <3>2, <3>3
    <2>2. CASE s # 0 /\ a = 0
      <3>1. a = z /\ e = n /\ g = z
        BY <1>1, <1>2, <1>3, <2>2
      <3>2. <<>> \o Within(t, c, z, n) = Within(t, c, z, n)
        BY <1>3, EmptyBefore
      <3> QED
        BY <1>4, <3>1, <3>2
    <2>3. CASE s # 0 /\ a > 0
      <3>1. e = n /\ a \in g + 1 .. n
        BY <1>1, <1>3, <2>3
      <3>2. Within(t, c, z, n) = Within(t, c, z, g) \o Within(t, c, a, n)
        BY <1>1, <1>3, <3>1, WithinGap
      <3> QED
        BY <3>1, <3>2
    <2> QED
      BY <1>1, <2>1, <2>2, <2>3
  <1>6. Steps(Up(t, q), c) = Within(t, c, z, g)
    <2>1. 0 + g = g
      OBVIOUS
    <2>2. Steps(Up(t, [at |-> 0, size |-> g]), c) = Within(t, c, 0, 0 + g)
      BY StepsUp
    <2> QED
      BY <1>1, <1>2, <2>1, <2>2
  <1>7. Steps(Up(t, p), c) = Within(t, c, a, e)
    BY <1>1, <1>2, StepsUp
  <1>8. Steps(t, c) = Within(t, c, z, n)
    BY <1>2, StepsWithin
  <1>9. TwoParts(t, c, q, p)
    BY <1>5, <1>6, <1>7, <1>8 DEF TwoParts
  <1>10. Len(Within(t, c, a, e)) <= 1
    BY <1>1, <1>2, LastPieceSteps
  <1>11. Steps(Up(t, d), c) = Within(t, c, z, g)
    <2>1. g \in 0 .. Len(t)
      BY <1>2, <1>3
    <2>2. PICK f \in g .. Len(t) : Dirname(t, c) = [at |-> 0, size |-> f] /\ AllSeps(t, c, g, f)
      <3>1. GPopL(t, c, TRUE) = [at |-> 0, size |-> g]
        BY <1>0, <1>1, Zenon
      <3> QED
        BY <2>1, <3>1, DirnameIs, Zenon
    <2>3. f \in Nat /\ f <= Len(t) /\ g \in z .. f /\ 0 + f = f
      BY <1>2, <1>3, <2>2
    <2>4. Within(t, c, z, f) = Within(t, c, z, g)
      BY <1>3, <2>2, <2>3, NoneRight
    <2>5. Steps(Up(t, [at |-> z, size |-> f]), c) = Within(t, c, z, z + f)
      <3>1. f \in Nat /\ z \in Nat
        BY <1>3, <2>3
      <3> QED
        BY <3>1, StepsUp, ZenonT(30)
    <2> QED
      BY <1>0, <1>2, <2>2, <2>3, <2>4, <2>5
  <1>12. Steps(Up(t, b), c) = Within(t, c, a, e)
    <2>1. b = TrimR(t, p, c)
      BY <1>0 DEF Basename
    <2>2. PICK k \in 0 .. s : /\ TrimR(t, [at |-> a, size |-> s], c) = [at |-> a, size |-> k]
                              /\ AllSeps(t, c, a + k, a + s) /\ (k > 0 => t[a + k] # c)
      BY TrimREnds
    <2>3. PICK m : m = a + k
      OBVIOUS
    <2>4. k \in Nat /\ m \in a .. e /\ e <= Len(t) /\ AllSeps(t, c, m, e)
      BY <1>2, <1>3, <2>2, <2>3
    <2>5. Within(t, c, a, e) = Within(t, c, a, m)
      BY <1>3, <2>4, NoneRight
    <2>6. Steps(Up(t, [at |-> a, size |-> k]), c) = Within(t, c, a, a + k)
      BY <2>4, StepsUp
    <2> QED
      BY <1>1, <2>1, <2>2, <2>3, <2>5, <2>6
  <1>13. TwoParts(t, c, d, b)
    BY <1>5, <1>8, <1>11, <1>12 DEF TwoParts
  <1> QED
    BY <1>7, <1>9, <1>10, <1>13

LEMMA LeftParts ==
  ASSUME NEW A, NEW c \in A, NEW t \in Seq(A)
  PROVE  /\ TwoParts(t, c, PopL(t, c, TRUE), GPopR(t, c, TRUE))
         /\ Len(Steps(Up(t, PopL(t, c, TRUE)), c)) <= 1
  <1>0. PICK p, q : p = PopL(t, c, TRUE) /\ q = GPopR(t, c, TRUE)
    OBVIOUS
  <1> SUFFICES TwoParts(t, c, p, q) /\ Len(Steps(Up(t, p), c)) <= 1
    BY <1>0, Zenon
  <1>1. PICK s \in Nat, b \in Nat, m \in Nat :
           /\ p = [at |-> 0, size |-> s] /\ FirstPiece(t, c, s)
           /\ q = [at |-> b, size |-> m]
           /\ s <= Len(t) /\ b <= Len(t)
           /\ \/ m = 0 /\ AllSeps(t, c, s, Len(t))
              \/ b + m = Len(t) /\ s < b /\ AllSeps(t, c, s, b)
    BY <1>0, LeftPop, Zenon
  <1>2. PICK n, z, e : n = Len(t) /\ z = 0 /\ e = b + m
    OBVIOUS
  <1>3. /\ n \in Nat /\ z \in Nat /\ e \in Nat /\ b <= n /\ s \in z .. n /\ z <= n /\ n <= Len(t) /\ z <= s
        /\ s <= Len(t)
        /\ ((m = 0 /\ AllSeps(t, c, s, n)) \/ (e = n /\ s < b /\ AllSeps(t, c, s, b)))
    BY <1>1, <1>2
  <1>4. Within(t, c, z, s) \o Within(t, c, b, e) = Within(t, c, z, n)
    <2>1. CASE m = 0 /\ AllSeps(t, c, s, n)
      <3>1. e = b
        BY <1>1, <1>2, <2>1
      <3>2. Within(t, c, b, b) = <<>>
        BY <1>1, WithinNothing
      <3>3. Within(t, c, z, n) = Within(t, c, z, s)
        BY <1>3, <2>1, NoneRight
      <3>4. Within(t, c, z, s) \o <<>> = Within(t, c, z, s)
        BY <1>3, EmptyBefore
      <3> QED
        BY <3>1, <3>2, <3>3, <3>4
    <2>2. CASE e = n /\ s < b /\ AllSeps(t, c, s, b)
      <3>1. b \in s + 1 .. n
        BY <1>1, <1>3, <2>2
      <3>2. Within(t, c, z, n) = Within(t, c, z, s) \o Within(t, c, b, n)
        BY <1>1, <1>3, <2>2, <3>1, WithinGap
      <3> QED
        BY <2>2, <3>2
    <2> QED
      BY <1>3, <2>1, <2>2
  <1>5. Steps(Up(t, p), c) = Within(t, c, z, s)
    <2>1. 0 + s = s
      OBVIOUS
    <2>2. Steps(Up(t, [at |-> 0, size |-> s]), c) = Within(t, c, 0, 0 + s)
      BY StepsUp
    <2> QED
      BY <1>1, <1>2, <2>1, <2>2
  <1>6. Steps(Up(t, q), c) = Within(t, c, b, e)
    BY <1>1, <1>2, StepsUp
  <1>7. Steps(t, c) = Within(t, c, z, n)
    BY <1>2, StepsWithin
  <1>8. TwoParts(t, c, p, q)
    BY <1>4, <1>5, <1>6, <1>7 DEF TwoParts
  <1>9. Len(Within(t, c, z, s)) <= 1
    BY <1>1, <1>2, FirstPieceSteps
  <1> QED
    BY <1>5, <1>8, <1>9

(* A text with a separator, whether empty splits are skipped or not.       *)
LEMMA SepExists ==
  ASSUME NEW A, NEW t \in Seq(A), NEW c, Count(t, Whole(t), c) > 0
  PROVE  \E i \in 0 .. Len(t) - 1 : t[i + 1] = c
  <1>1. PICK n, z, H : n = Len(t) /\ z = 0 /\ H = Hits(t, c, 0, n)
    OBVIOUS
  <1>2. n \in Nat /\ z \in Nat
    BY <1>1
  <1>3. Whole(t) = [at |-> z, size |-> n] /\ H = Hits(t, c, z, n)
    BY <1>1 DEF Whole
  <1>4. Places(t, Whole(t), c, TRUE) = H
    BY <1>2, <1>3, PlacesAre
  <1>5. Cardinality(H) > 0
    BY <1>4 DEF Count
  <1>6. H # {}
    <2>1. Cardinality({}) = 0
      BY FS_EmptySet
    <2>2. ASSUME H = {} PROVE FALSE
      <3>1. Cardinality(H) = 0
        BY <2>1, <2>2
      <3> QED
        BY <1>5, <3>1
    <2> QED
      BY <2>2
  <1>7. PICK i : i \in H
    BY <1>6
  <1>8. i \in 0 .. n - 1 /\ t[z + i + 1] = c
    BY <1>3, <1>7 DEF Hits
  <1>9. z + i + 1 = i + 1
    BY <1>1, <1>8
  <1> QED
    BY <1>1, <1>8, <1>9

LEMMA RightJoin ==
  ASSUME NEW A, NEW c \in A, NEW t \in Seq(A), Len(t) > 1, Count(t, Whole(t), c) > 0
  PROVE  Up(t, GPopL(t, c, FALSE)) \o <<c>> \o Up(t, PopR(t, c, FALSE)) = t
  <1>0. PICK p, q : p = PopR(t, c, FALSE) /\ q = GPopL(t, c, FALSE)
    OBVIOUS
  <1> SUFFICES Up(t, q) \o <<c>> \o Up(t, p) = t
    BY <1>0, Zenon
  <1>1. PICK n : n = Len(t)
    OBVIOUS
  <1>2. n \in Nat /\ n > 1
    BY <1>1
  <1>3. PICK pos : LastSep(t, c, Len(t) - 1, pos)
                   /\ (Len(t) > 1 /\ pos # NPos => p = [at |-> pos + 1, size |-> Len(t) - (pos + 1)])
    BY <1>0, PopRIs, Zenon
  <1>4. PICK i \in 0 .. n - 1 : t[i + 1] = c
    BY <1>1, SepExists
  <1>5. pos # NPos
    <2>1. i <= n - 1
      BY <1>2, <1>4
    <2> QED
      BY <1>1, <1>3, <1>4, <2>1 DEF LastSep, NPos
  <1>6. pos \in 0 .. n - 1 /\ t[pos + 1] = c
    BY <1>1, <1>3, <1>5 DEF LastSep
  <1>7. p = [at |-> pos + 1, size |-> n - (pos + 1)]
    BY <1>1, <1>2, <1>3, <1>5
  <1>8. PICK cut, r : r = Whole(t) /\ cut = Compll(r, p)
    OBVIOUS
  <1>9. r.at = 0 /\ r.size = n
    BY <1>1, <1>8 DEF Whole
  <1>10. cut = [at |-> 0, size |-> pos + 1]
    <2>1. p.at >= 0 /\ p.at <= 0 + n /\ p.at - 0 = pos + 1 /\ 0 + 0 = 0
      BY <1>2, <1>6, <1>7
    <2> QED
      BY <1>8, <1>9, <2>1 DEF Compll, Substr
  <1>11. EndsWith(t, cut, c)
    <2>1. 0 + (pos + 1) = pos + 1 /\ pos + 1 > 0
      BY <1>2, <1>6
    <2> QED
      BY <1>6, <1>10, <2>1 DEF EndsWith
  <1>12. q = Substr(cut, 0, cut.size - 1)
    BY <1>0, <1>8, <1>11 DEF GPopL
  <1>13. q = [at |-> 0, size |-> pos]
    <2>1. cut.at = 0 /\ cut.size = pos + 1
      BY <1>10
    <2>2. q = [at |-> cut.at + 0, size |-> cut.size - 1]
      BY <1>12 DEF Substr
    <2>3. cut.at + 0 = 0 /\ cut.size - 1 = pos
      BY <1>2, <1>6, <2>1
    <2> QED
      BY <2>2, <2>3, Zenon
  <1>14. Up(t, [at |-> 0, size |-> pos]) \o <<c>> \o Up(t, [at |-> pos + 1, size |-> Len(t) - (pos + 1)]) = t
    BY <1>1, <1>6, Rejoined
  <1> QED
    BY <1>1, <1>7, <1>13, <1>14

LEMMA LeftJoin ==
  ASSUME NEW A, NEW c \in A, NEW t \in Seq(A), Len(t) > 1, Count(t, Whole(t), c) > 0
  PROVE  Up(t, PopL(t, c, FALSE)) \o <<c>> \o Up(t, GPopR(t, c, FALSE)) = t
  <1>0. PICK p, q : p = PopL(t, c, FALSE) /\ q = GPopR(t, c, FALSE)
    OBVIOUS
  <1> SUFFICES Up(t, p) \o <<c>> \o Up(t, q) = t
    BY <1>0, Zenon
  <1>1. PICK n : n = Len(t)
    OBVIOUS
  <1>2. n \in Nat /\ n > 1
    BY <1>1
  <1>3. PICK pos : FirstSep(t, c, 0, pos) /\ (Len(t) > 1 /\ pos # NPos => p = [at |-> 0, size |-> pos])
    BY <1>0, PopLIs, Zenon
  <1>4. PICK i \in 0 .. n - 1 : t[i + 1] = c
    BY <1>1, SepExists
  <1>5. pos # NPos
    <2>1. i >= 0
      BY <1>2, <1>4
    <2> QED
      BY <1>1, <1>3, <1>4, <2>1 DEF FirstSep, NPos
  <1>6. pos \in 0 .. n - 1 /\ t[pos + 1] = c
    BY <1>1, <1>3, <1>5 DEF FirstSep
  <1>7. p = [at |-> 0, size |-> pos]
    BY <1>1, <1>2, <1>3, <1>5
  <1>8. PICK cut, r : r = Whole(t) /\ cut = Complr(r, p)
    OBVIOUS
  <1>9. r.at = 0 /\ r.size = n
    BY <1>1, <1>8 DEF Whole
  <1>10. cut = [at |-> pos, size |-> n - pos]
    <2>1. p.at + p.size = pos /\ pos >= 0 /\ pos <= 0 + n /\ pos - 0 = pos /\ 0 + n - pos = n - pos /\ 0 + pos = pos
      BY <1>2, <1>6, <1>7
    <2> QED
      BY <1>8, <1>9, <2>1 DEF Complr, Substr
  <1>11. BeginsWith(t, cut, c)
    <2>1. n - pos > 0
      BY <1>2, <1>6
    <2> QED
      BY <1>6, <1>10, <2>1 DEF BeginsWith
  <1>12. q = SubstrFrom(cut, 1)
    BY <1>0, <1>8, <1>11 DEF GPopR
  <1>13. q = [at |-> pos + 1, size |-> n - (pos + 1)]
    <2>1. (n - pos) - 1 = n - (pos + 1)
      BY <1>2, <1>6
    <2> QED
      BY <1>10, <1>12, <2>1 DEF SubstrFrom, Substr
  <1>14. Up(t, [at |-> 0, size |-> pos]) \o <<c>> \o Up(t, [at |-> pos + 1, size |-> Len(t) - (pos + 1)]) = t
    BY <1>1, <1>6, Rejoined
  <1> QED
    BY <1>1, <1>7, <1>13, <1>14

LEMMA PopsAgreeAlways ==
  ASSUME NEW A, NEW c \in A, NEW t \in Seq(A)
  PROVE  PopsAgreeOf(t, c)
  <1>1. /\ TwoParts(t, c, GPopL(t, c, TRUE), PopR(t, c, TRUE))
        /\ TwoParts(t, c, Dirname(t, c), Basename(t, c))
        /\ Len(Steps(Up(t, PopR(t, c, TRUE)), c)) <= 1
    BY RightParts
  <1>2. /\ TwoParts(t, c, PopL(t, c, TRUE), GPopR(t, c, TRUE))
        /\ Len(Steps(Up(t, PopL(t, c, TRUE)), c)) <= 1
    BY LeftParts
  <1>3. Len(t) > 1 /\ Count(t, Whole(t), c) > 0 =>
          /\ Up(t, GPopL(t, c, FALSE)) \o <<c>> \o Up(t, PopR(t, c, FALSE)) = t
          /\ Up(t, PopL(t, c, FALSE)) \o <<c>> \o Up(t, GPopR(t, c, FALSE)) = t
    BY RightJoin, LeftJoin
  <1>4. Trim(t, Whole(t), c) = TrimL(t, TrimR(t, Whole(t), c), c)
    BY TrimBoth
  <1> QED
    BY <1>1, <1>2, <1>3, <1>4, Zenon DEF PopsAgreeOf, TwoParts

(* With careful clients, the two pops at an end of the string are          *)
(* reciprocal wherever the edits have left it: popr() and gpopl(), popl()  *)
(* and gpopr() are joined the string, and with empty splits skipped they   *)
(* have its other splits in order, the popped part no more than one; so    *)
(* have dirname() and basename(), and trim() trims both sides              *)
(* (string.hpp:2000-2256).  It holds of every text.                        *)
THEOREM PopsAlwaysAgree == Careful /\ Spec => []PopsAgree
<1>1. IInv => PopsAgree
  <2> SUFFICES ASSUME IInv PROVE PopsAgreeOf(line, Slash)
    BY DEF PopsAgree
  <2>1. line \in Seq(Symbols)
    BY DEF IInv, LineSound, Fit, Sane, Strings, Symbols
  <2>2. Slash \in Symbols
    BY StringAssumption DEF Symbols
  <2> QED
    BY <2>1, <2>2, PopsAgreeAlways
<1> QED
  BY <1>1, Inductive, PTL

=============================================================================
