----------------------------- MODULE SpansProofs -----------------------------
(***************************************************************************)
(* Theorems about Spans, for every block that its size type can count and  *)
(* clients whose sums are sizes.                                           *)
(***************************************************************************)
EXTENDS Spans, TLAPS

(* What every span is: of its type, inside the block up to its end, and,   *)
(* if etched, as far from where it began as it says.                       *)
Sound(x) ==
  /\ x \in Spans
  /\ InBlock(x)
  /\ x.kind = "etched_span" => x.offset = x.ptr
  /\ x.kind = "span" => x.cap = x.size

IInv == Sound(s) /\ Sound(other) /\ aborted \in BOOLEAN

-----------------------------------------------------------------------------
(* A size stays what it is.                                                *)
LEMMA NarrowSize ==
  ASSUME Countable, NEW n \in 0 .. Total
  PROVE  n \in Sizes /\ Narrow(n) = n
  BY DEF Countable, Sizes, Narrow

(* A part of a sound span is sound.                                        *)
LEMMA SelectSound ==
  ASSUME Countable, NEW x, Sound(x),
         NEW first \in Nat, NEW num \in Nat, first + num <= x.size
  PROVE  Sound(Select(x, first, num))
<1> DEFINE y == Select(x, first, num)
<1>1. /\ x.kind \in Kinds /\ x.ptr \in Int /\ x.size \in Nat /\ x.cap \in Nat /\ x.offset \in Nat
      /\ 0 <= x.ptr /\ x.size <= x.cap /\ x.ptr + x.cap <= Total
      /\ x.kind # "span" => x.ptr + x.cap = Total
      /\ x.kind = "etched_span" => x.offset = x.ptr
  BY DEF Sound, Spans, InBlock, Sizes, Countable
<1>2. Total \in Nat
  BY DEF Countable
<1>3. /\ num \in Sizes /\ 0 \in Sizes
      /\ Narrow(x.cap - first) = x.cap - first /\ x.cap - first \in Sizes
  <2>1. num \in 0 .. Total /\ 0 \in 0 .. Total /\ x.cap - first \in 0 .. Total
    BY <1>1, <1>2
  <2> QED BY <2>1, NarrowSize
<1>4. x.kind = "etched_span" =>
        Narrow(x.offset + first) = x.offset + first /\ x.offset + first \in Sizes
  <2>1. x.kind = "etched_span" => x.offset + first \in 0 .. Total
    BY <1>1, <1>2
  <2> QED BY <2>1, NarrowSize
<1>5. /\ y.kind = x.kind /\ y.ptr = x.ptr + first /\ y.size = num
      /\ y.cap = IF x.kind = "span" THEN num ELSE x.cap - first
      /\ y.offset = IF x.kind = "etched_span" THEN x.offset + first ELSE 0
  BY <1>3, <1>4 DEF Select
<1>6. y \in Spans
  <2>1. y.ptr \in Int /\ y.cap \in Sizes /\ y.offset \in Sizes
    BY <1>1, <1>3, <1>4, <1>5
  <2> QED BY <1>1, <1>3, <1>5, <2>1 DEF Select, Spans
<1>7. InBlock(y)
  BY <1>1, <1>2, <1>5 DEF InBlock
<1>8. /\ y.kind = "etched_span" => y.offset = y.ptr
      /\ y.kind = "span" => y.cap = y.size
  BY <1>1, <1>5
<1> QED BY <1>6, <1>7, <1>8 DEF Sound

(* So is one that is made over the rest of the block.                      *)
LEMMA OverSound ==
  ASSUME Countable, NEW kind \in Kinds, NEW ptr \in Nat, NEW size \in Nat, NEW cap \in Nat,
         size <= cap, kind = "etched_span" => ptr = 0, ptr + cap <= Total,
         kind # "span" => ptr + cap = Total
  PROVE  Sound(Over(kind, ptr, size, cap))
<1>1. Total \in Nat
  BY DEF Countable
<1>2. size \in 0 .. Total /\ cap \in 0 .. Total /\ 0 \in 0 .. Total
  BY <1>1
<1>3. size \in Sizes /\ cap \in Sizes /\ 0 \in Sizes
  BY <1>2, NarrowSize
<1>4. Over(kind, ptr, size, cap) \in Spans
  BY <1>3 DEF Over, Spans
<1>5. InBlock(Over(kind, ptr, size, cap))
  BY <1>1 DEF Over, InBlock
<1> QED BY <1>4, <1>5 DEF Over, Sound

(* A sound span may be resized within its capacity; a span, downwards.     *)
LEMMA ResizeSound ==
  ASSUME Countable, NEW x, Sound(x), NEW size \in Nat, size <= x.cap
  PROVE  Sound(Resized(x, size))
<1> DEFINE y == Resized(x, size)
<1>1. /\ x.kind \in Kinds /\ x.ptr \in Int /\ x.cap \in Sizes /\ x.cap \in Nat /\ x.offset \in Sizes
      /\ 0 <= x.ptr /\ x.ptr + x.cap <= Total
      /\ x.kind # "span" => x.ptr + x.cap = Total
      /\ x.kind = "etched_span" => x.offset = x.ptr
  BY DEF Sound, Spans, InBlock, Sizes, Countable
<1>2. size \in Sizes
  <2>1. size \in 0 .. Total
    BY <1>1 DEF Countable
  <2> QED BY <2>1, NarrowSize
<1>3. /\ y.kind = x.kind /\ y.ptr = x.ptr /\ y.size = size /\ y.offset = x.offset
      /\ y.cap = IF x.kind = "span" THEN size ELSE x.cap
  BY DEF Resized
<1>4. y \in Spans
  BY <1>1, <1>2, <1>3 DEF Resized, Spans
<1>5. InBlock(y)
  <2>1. y.ptr + y.cap <= Total
    BY <1>1, <1>3 DEF Countable
  <2> QED BY <1>1, <1>3, <2>1 DEF InBlock
<1>6. /\ y.kind = "etched_span" => y.offset = y.ptr
      /\ y.kind = "span" => y.cap = y.size
  BY <1>1, <1>3
<1> QED BY <1>4, <1>5, <1>6 DEF Sound

-----------------------------------------------------------------------------
(* From a sound etched span original() recovers the block.                 *)
LEMMA OriginalIsBlock ==
  ASSUME Countable, NEW x, Sound(x), x.kind = "etched_span", NEW kind
  PROVE  Original(x, kind) = Over(kind, 0, Total, Total)
<1>1. x.ptr \in Int /\ x.cap \in Nat /\ x.offset = x.ptr /\ x.ptr + x.cap = Total
  BY DEF Sound, Spans, InBlock, Sizes
<1>2. x.cap + x.offset = Total /\ x.ptr - x.offset = 0
  BY <1>1
<1>3. Narrow(Total) = Total
  BY NarrowSize DEF Countable
<1> QED BY <1>2, <1>3 DEF Original

(* No assertion in compll() or complr() can fail: the two spans may be any *)
(* of the block.                                                           *)
LEMMA ComplementsSound ==
  ASSUME Countable, NEW x, NEW y, Sound(x), Sound(y)
  PROVE  Sound(ComplL(x, y)) /\ Sound(ComplR(x, y))
<1>1. x.ptr \in Int /\ x.size \in Nat /\ y.ptr \in Int /\ y.size \in Nat
  BY DEF Sound, Spans, Sizes, Countable
<1> DEFINE before == IF y.ptr \in x.ptr .. EndOf(x) THEN y.ptr - x.ptr ELSE 0
<1>2. Sound(ComplL(x, y))
  <2>1. before \in Nat /\ 0 + before <= x.size
    BY <1>1 DEF EndOf
  <2> HIDE DEF before
  <2>2. Sound(Select(x, 0, before))
    BY <2>1, SelectSound
  <2> QED BY <2>2 DEF ComplL, before
<1>3. Sound(ComplR(x, y))
  <2>1. CASE EndOf(y) \in x.ptr .. EndOf(x)
    <3>1. /\ EndOf(y) - x.ptr \in Nat /\ EndOf(x) - EndOf(y) \in Nat
          /\ (EndOf(y) - x.ptr) + (EndOf(x) - EndOf(y)) <= x.size
      BY <1>1, <2>1 DEF EndOf
    <3>2. Sound(Select(x, EndOf(y) - x.ptr, EndOf(x) - EndOf(y)))
      BY <3>1, SelectSound
    <3> QED BY <2>1, <3>2 DEF ComplR
  <2>2. CASE EndOf(y) \notin x.ptr .. EndOf(x)
    <3>1. Sound(Select(x, 0, 0))
      BY <1>1, SelectSound
    <3> QED BY <2>2, <3>1 DEF ComplR
  <2> QED BY <2>1, <2>2
<1> QED BY <1>2, <1>3

-----------------------------------------------------------------------------
(* A call that keeps a sound span sound where its assertions hold.         *)
LEMMA CallSound ==
  ASSUME IInv, NEW asserted \in BOOLEAN, NEW r, asserted => Sound(r), Call(asserted, r)
  PROVE  IInv'
<1>1. other' = other
  BY DEF Call
<1>2. (s' = r /\ asserted) \/ s' = s
  BY DEF Call
<1>3. aborted' \in BOOLEAN
  BY DEF Call, IInv
<1>4. Sound(s')
  BY <1>2 DEF IInv
<1> QED BY <1>1, <1>3, <1>4 DEF IInv, Sound, InBlock

LEMMA InitSound == Countable /\ Init => IInv
<1> SUFFICES ASSUME Countable, Init PROVE IInv
  OBVIOUS
<1>1. PICK kind \in Kinds, size \in 0 .. Total : s = Over(kind, 0, size, Total)
  BY DEF Init
<1>2. Sound(s)
  BY <1>1, OverSound DEF Countable
<1> QED BY <1>2 DEF Init, IInv

LEMMA StepSound == Countable /\ Careful /\ IInv /\ [Next]_vars => IInv'
<1> SUFFICES ASSUME Countable, Careful, IInv, [Next]_vars PROVE IInv'
  OBVIOUS
<1>0. /\ Sound(s) /\ Sound(other) /\ s \in Spans
      /\ s.size \in Nat /\ s.cap \in Nat /\ s.size <= s.cap
  BY DEF IInv, Sound, Spans, InBlock, Sizes, Countable
<1>1. ASSUME NEW first \in Sizes, NEW num \in Sizes, Subspan(first, num) PROVE IInv'
  <2>1. first \in Nat /\ num \in Nat /\ first + num < Width /\ Width \in Nat
    BY <1>1 DEF Sizes, Subspan, Countable
  <2>2. Narrow(first + num) = first + num
    BY <2>1 DEF Narrow
  <2>3. SubspanAsserted(s, first, num) => Sound(Select(s, first, num))
    BY <1>0, <2>1, <2>2, SelectSound DEF SubspanAsserted
  <2>4. SubspanAsserted(s, first, num) \in BOOLEAN
    BY DEF SubspanAsserted
  <2> QED BY <1>1, <2>3, <2>4, CallSound DEF Subspan
<1>2. ASSUME NEW first \in Sizes, NEW last \in Sizes, Range(first, last) PROVE IInv'
  <2>1. first \in Nat /\ last \in Nat
    BY DEF Sizes, Countable
  <2>2. RangeAsserted(s, first, last) => Sound(Select(s, first, last - first))
    <3>1. SUFFICES ASSUME RangeAsserted(s, first, last) PROVE Sound(Select(s, first, last - first))
      OBVIOUS
    <3>2. last - first \in Nat /\ first + (last - first) <= s.size
      BY <1>0, <2>1, <3>1 DEF RangeAsserted
    <3> QED BY <1>0, <2>1, <3>2, SelectSound
  <2>3. RangeAsserted(s, first, last) \in BOOLEAN
    BY DEF RangeAsserted
  <2> QED BY <1>2, <2>2, <2>3, CallSound DEF Range
<1>3. ASSUME NEW n \in Sizes,
             SubspanFrom(n) \/ First(n) \/ Last(n) \/ Resize(n) \/ RTrim(n) \/ LTrim(n)
      PROVE  IInv'
  <2>1. n \in Nat
    BY DEF Sizes, Countable
  <2>2. (n < s.size) \in BOOLEAN /\ (n <= s.cap) \in BOOLEAN
    OBVIOUS
  <2>3. n < s.size => /\ s.size - n \in Nat /\ n + (s.size - n) <= s.size
                      /\ 0 + n <= s.size /\ (s.size - n) + n <= s.size /\ s.size - n <= s.cap
    BY <1>0, <2>1
  <2>4. CASE SubspanFrom(n)
    <3>1. n < s.size => Sound(Select(s, n, s.size - n))
      BY <1>0, <2>1, <2>3, SelectSound
    <3> QED BY <2>2, <2>4, <3>1, CallSound DEF SubspanFrom
  <2>5. CASE First(n)
    <3>1. n < s.size => Sound(Select(s, 0, n))
      BY <1>0, <2>1, <2>3, SelectSound
    <3> QED BY <2>2, <2>5, <3>1, CallSound DEF First
  <2>6. CASE Last(n)
    <3>1. n < s.size => Sound(Select(s, s.size - n, n))
      BY <1>0, <2>1, <2>3, SelectSound
    <3> QED BY <2>2, <2>6, <3>1, CallSound DEF Last
  <2>7. CASE Resize(n)
    <3>1. n <= s.cap => Sound(Resized(s, n))
      BY <1>0, <2>1, ResizeSound
    <3> QED BY <2>2, <2>7, <3>1, CallSound DEF Resize
  <2>8. CASE RTrim(n)
    <3>1. n < s.size => Sound(Resized(s, s.size - n))
      BY <1>0, <2>1, <2>3, ResizeSound
    <3> QED BY <2>2, <2>8, <3>1, CallSound DEF RTrim
  <2>9. CASE LTrim(n)
    <3>1. n < s.size => Sound(Select(s, n, s.size - n))
      BY <1>0, <2>1, <2>3, SelectSound
    <3> QED BY <2>2, <2>9, <3>1, CallSound DEF LTrim
  <2> QED BY <1>3, <2>4, <2>5, <2>6, <2>7, <2>8, <2>9
<1>4. ASSUME NEW kind \in Kinds, Recover(kind) PROVE IInv'
  <2>1. s.kind = "etched_span" /\ Call(TRUE, Original(s, kind))
    BY <1>4 DEF Recover
  <2>2. Original(s, kind) = Over(kind, 0, Total, Total)
    BY <1>0, <2>1, OriginalIsBlock
  <2>3. Sound(Over(kind, 0, Total, Total))
    BY OverSound DEF Countable
  <2> QED BY <2>1, <2>2, <2>3, CallSound
<1>5. ASSUME NEW kind \in Kinds, Convert(kind) PROVE IInv'
  <2>1. Call(TRUE, Over(kind, s.ptr, s.size, s.cap))
    BY <1>5 DEF Convert
  <2>2. Sound(Over(kind, s.ptr, s.size, s.cap))
    <3>1. /\ s.ptr \in Nat /\ s.ptr + s.cap <= Total
          /\ kind # "etched_span" /\ (kind # "span" => s.kind # "span")
      BY <1>0, <1>5 DEF Sound, Spans, InBlock, Countable, Convert
    <3>2. kind # "span" => s.ptr + s.cap = Total
      BY <1>0, <3>1 DEF Sound, InBlock
    <3> QED BY <1>0, <3>1, <3>2, OverSound
  <2> QED BY <2>1, <2>2, CallSound
<1>6. CASE Complement
  BY <1>0, <1>6, ComplementsSound, CallSound DEF Complement
<1>7. CASE Clear
  <2>1. Sound(Resized(s, 0))
    BY <1>0, ResizeSound
  <2> QED BY <1>7, <2>1, CallSound DEF Clear
<1>8. CASE Keep
  BY <1>8 DEF Keep, IInv, Sound, InBlock
<1>9. CASE Swap
  BY <1>9 DEF Swap, IInv, Sound, InBlock
<1>10. CASE UNCHANGED vars
  BY <1>10 DEF vars, IInv, Sound, InBlock
<1> QED BY <1>1, <1>2, <1>3, <1>4, <1>5, <1>6, <1>7, <1>8, <1>9, <1>10 DEF Next

(* The two spans are sound at all times.                                   *)
THEOREM Inductive == Countable /\ Careful /\ Spec => []IInv
<1> SUFFICES ASSUME Countable, Careful PROVE Spec => []IInv
  OBVIOUS
<1>1. Init => IInv
  BY InitSound
<1>2. IInv /\ [Next]_vars => IInv'
  BY StepSound
<1> QED BY <1>1, <1>2, PTL DEF Spec

-----------------------------------------------------------------------------
(* A span, and what its capacity promises, lie in the block, up to its end *)
(* where the kind keeps a capacity: however parts are taken of parts, and  *)
(* trimmed and resized (_select, ltrim, resize).                           *)
THEOREM AlwaysInside == Countable /\ Careful /\ Spec => []Inside
<1>1. IInv => Inside
  BY DEF IInv, Sound, Inside
<1> QED BY <1>1, Inductive, PTL

(* An etched span can recover the whole block by original(), in every      *)
(* state that any calls lead to.                                           *)
THEOREM OriginalRecovers == Countable /\ Careful /\ Spec => []AlwaysRecoverable
<1> SUFFICES ASSUME Countable, Careful PROVE Spec => []AlwaysRecoverable
  OBVIOUS
<1>1. ASSUME NEW x, Sound(x) PROVE Recoverable(x)
  BY <1>1, OriginalIsBlock DEF Recoverable
<1>2. IInv => AlwaysRecoverable
  BY <1>1 DEF IInv, AlwaysRecoverable
<1>3. Spec => []IInv
  BY Inductive
<1> QED BY <1>2, <1>3, PTL

(* compll(), a span and complr() part a span that it lies in, without gap  *)
(* or overlap, whatever the kinds (compll, complr).                        *)
THEOREM ComplementsPart ==
  ASSUME Countable, NEW x, NEW y, Sound(x), Sound(y),
         x.ptr <= y.ptr, EndOf(y) <= EndOf(x)
  PROVE  /\ ComplL(x, y).ptr = x.ptr /\ EndOf(ComplL(x, y)) = y.ptr
         /\ ComplR(x, y).ptr = EndOf(y) /\ EndOf(ComplR(x, y)) = EndOf(x)
<1>1. x.ptr \in Int /\ x.size \in Nat /\ y.ptr \in Int /\ y.size \in Nat
  BY DEF Sound, Spans, Sizes, Countable
<1>2. /\ y.ptr \in x.ptr .. EndOf(x) /\ EndOf(y) \in x.ptr .. EndOf(x)
      /\ EndOf(x) \in Int /\ EndOf(y) \in Int
  BY <1>1 DEF EndOf
<1>3. ComplL(x, y).ptr = x.ptr + 0 /\ ComplL(x, y).size = y.ptr - x.ptr
  BY <1>2 DEF ComplL, Select
<1>4. /\ ComplR(x, y).ptr = x.ptr + (EndOf(y) - x.ptr)
      /\ ComplR(x, y).size = EndOf(x) - EndOf(y)
  <2>1. ComplR(x, y) = Select(x, EndOf(y) - x.ptr, EndOf(x) - EndOf(y))
    BY <1>2 DEF ComplR
  <2> QED BY <2>1 DEF Select
<1>5. EndOf(ComplL(x, y)) = ComplL(x, y).ptr + ComplL(x, y).size
  BY DEF EndOf
<1>6. EndOf(ComplR(x, y)) = ComplR(x, y).ptr + ComplR(x, y).size
  BY DEF EndOf
<1> QED BY <1>1, <1>2, <1>3, <1>4, <1>5, <1>6

=============================================================================
