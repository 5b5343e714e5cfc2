-------------------------------- MODULE Spans --------------------------------
(***************************************************************************)
(* span, spanrs and etched_span of span.hpp: ranges of a block of memory   *)
(* that a client takes parts of, trims and resizes, with assertions        *)
(* enabled.  Pointers are positions in the block.                          *)
(***************************************************************************)
EXTENDS Integers

CONSTANTS
  Total,     \* the elements of the block
  Width,     \* one more than the largest size_type
  Careful    \* whether the sums that clients ask for are sizes

(* The block is one that the size type can count.                          *)
Countable == Total \in Nat /\ Width \in Nat /\ Total < Width

VARIABLES
  s,         \* the span
  other,     \* one that the client keeps beside it
  aborted    \* an assertion has failed

vars == <<s, other, aborted>>

Sizes == 0 .. Width - 1
Kinds == {"span", "spanrs", "etched_span"}

Spans == [kind : Kinds, ptr : Int, size : Sizes, cap : Sizes, offset : Sizes]

(* Conversion to the size type.                                            *)
Narrow(n) == n % Width

-----------------------------------------------------------------------------
(* The constructors from a pointer, a size and a capacity.  A span's       *)
(* capacity is its size.                                                   *)
Over(kind, ptr, size, cap) ==
  [kind |-> kind, ptr |-> ptr, size |-> size,
   cap |-> IF kind = "span" THEN size ELSE cap, offset |-> 0]

(* _select() of num elements, from the one at first.                       *)
Select(x, first, num) ==
  [kind |-> x.kind, ptr |-> x.ptr + first, size |-> num,
   cap |-> IF x.kind = "span" THEN num ELSE Narrow(x.cap - first),
   offset |-> IF x.kind = "etched_span" THEN Narrow(x.offset + first) ELSE 0]

(* With another size, from where it is.                                    *)
Resized(x, size) ==
  [kind |-> x.kind, ptr |-> x.ptr, size |-> size,
   cap |-> IF x.kind = "span" THEN size ELSE x.cap, offset |-> x.offset]

(* Whether the assertions of these functions hold.                         *)
SubspanAsserted(x, first, num) ==
  (first < x.size \/ num = 0) /\ Narrow(first + num) <= x.size
RangeAsserted(x, first, last) ==
  (first < x.size \/ first = last) /\ last <= x.size /\ last >= first

EndOf(x) == x.ptr + x.size

(* compll() and complr(): what of x is before y, and what is after.        *)
ComplL(x, y) ==
  Select(x, 0, IF y.ptr \in x.ptr .. EndOf(x) THEN y.ptr - x.ptr ELSE 0)
ComplR(x, y) ==
  IF EndOf(y) \in x.ptr .. EndOf(x)
  THEN Select(x, EndOf(y) - x.ptr, EndOf(x) - EndOf(y))
  ELSE Select(x, 0, 0)

(* original(), also as a span of another kind.                             *)
Original(x, kind) ==
  LET size == Narrow(x.cap + x.offset)
  IN Over(kind, x.ptr - x.offset, size, size)

-----------------------------------------------------------------------------
Init ==
  /\ \E kind \in Kinds, size \in 0 .. Total : s = Over(kind, 0, size, Total)
  /\ other = s /\ aborted = FALSE

(* A call makes the span r, or fails an assertion.                         *)
Call(asserted, r) ==
  /\ ~aborted
  /\ IF asserted THEN s' = r /\ UNCHANGED aborted ELSE aborted' = TRUE /\ UNCHANGED s
  /\ UNCHANGED other

Subspan(first, num) ==
  /\ Careful => first + num < Width
  /\ Call(SubspanAsserted(s, first, num), Select(s, first, num))

(* subspan(first) and range(first).                                        *)
SubspanFrom(first) == Call(first < s.size, Select(s, first, s.size - first))

Range(first, last) == Call(RangeAsserted(s, first, last), Select(s, first, last - first))

First(num) == Call(num < s.size, Select(s, 0, num))
Last(num)  == Call(num < s.size, Select(s, s.size - num, num))

Complement ==
  /\ other.kind = s.kind
  /\ Call(TRUE, ComplL(s, other)) \/ Call(TRUE, ComplR(s, other))

Resize(size) == Call(size <= s.cap, Resized(s, size))
Clear        == Call(TRUE, Resized(s, 0))

RTrim(n) == Call(n < s.size, Resized(s, s.size - n))
LTrim(n) == Call(n < s.size, Select(s, n, s.size - n))

Recover(kind) == s.kind = "etched_span" /\ Call(TRUE, Original(s, kind))

(* The conversions to a kind that knows less.                              *)
Convert(kind) ==
  /\ <<s.kind, kind>> \in {<<"etched_span", "spanrs">>, <<"etched_span", "span">>, <<"spanrs", "span">>}
  /\ Call(TRUE, Over(kind, s.ptr, s.size, s.cap))

(* The client keeps a copy, and goes on with it later.                     *)
Keep == ~aborted /\ other' = s /\ UNCHANGED <<s, aborted>>
Swap == ~aborted /\ s' = other /\ other' = s /\ UNCHANGED aborted

Next ==
  \/ \E m, n \in Sizes : Subspan(m, n) \/ Range(m, n)
  \/ \E n \in Sizes :
       \/ SubspanFrom(n) \/ First(n) \/ Last(n)
       \/ Resize(n) \/ RTrim(n) \/ LTrim(n)
  \/ \E kind \in Kinds : Recover(kind) \/ Convert(kind)
  \/ Complement \/ Clear \/ Keep \/ Swap

Spec == Init /\ [][Next]_vars

-----------------------------------------------------------------------------
(* A span lies in the block, and so does all that its capacity promises,   *)
(* which reaches to the end of the block: taking a part from the left, or  *)
(* trimming there, takes as much from the capacity (_select, ltrim).       *)
InBlock(x) ==
  /\ 0 <= x.ptr /\ x.size <= x.cap
  /\ IF x.kind = "span" THEN x.ptr + x.cap <= Total ELSE x.ptr + x.cap = Total
Inside == InBlock(s) /\ InBlock(other)

(* "The full capacity span can always be recovered by calling original()". *)
Recoverable(x) == x.kind = "etched_span" => Original(x, x.kind) = Over(x.kind, 0, Total, Total)
AlwaysRecoverable == Recoverable(s) /\ Recoverable(other)

=============================================================================
