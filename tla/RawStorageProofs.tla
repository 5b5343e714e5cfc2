--------------------------- MODULE RawStorageProofs ---------------------------
(***************************************************************************)
(* For every size, policy, element size and build, the storages without    *)
(* pages hold what careful clients have put into them: types, the size of  *)
(* each block, the contents, and nothing undefined.                        *)
(***************************************************************************)
EXTENDS RawStorage, SequenceTheorems, TLAPS

(* The clients and the storages that the theorems are about.               *)
Contiguous == Careful /\ "paged" \notin Kinds

Sized(b, n) == b \in [Slots(n) -> Content]

(* The objects from the lo-th up to the hi-th are shift slots further.     *)
Kept(b, c, lo, hi, shift) ==
  \A k \in lo .. hi - 1 : k + shift \in DOMAIN b /\ b[k + shift] = c[k + 1]

(* There are objects from lo up to hi, if only such as were moved from.    *)
Alive(b, lo, hi) == \A k \in lo .. hi - 1 : k \in DOMAIN b /\ b[k] # Raw

(* Each block is as large as what points to it says; raw_small and         *)
(* raw_small_soa have no less than what is in place.                       *)
Backed ==
  /\ mem = [arr |-> mem.arr, heap |-> mem.heap, fresh |-> mem.fresh]
  /\ cap \in Nat /\ size \in Nat /\ size <= cap
  /\ Sized(mem.arr, N)
  /\ kind = "fixed" => cap = N
  /\ InPlace(kind) => cap >= N
  /\ IF Data = "heap" THEN Sized(mem.heap, cap) /\ cap <= 2 * MaxSize
     ELSE mem.heap = Null

Listed == contents \in Seq(Values) /\ size = Len(contents)

IdleInv ==
  /\ call = NoCall /\ mem.fresh = Null
  /\ Kept(mem[Data], contents, 0, size, 0)

FreshInv ==
  /\ kind # "fixed"
  /\ Sized(mem.fresh, call.cap) /\ call.cap <= 2 * MaxSize
  /\ InPlace(kind) => call.cap > N

ReserveInv ==
  /\ FreshInv /\ size <= call.cap
  /\ call.pos = 0 /\ call.room = 0 /\ call.new = <<>>
  /\ i <= size
  /\ Kept(mem.fresh, contents, 0, i, 0)
  /\ Kept(mem[Data], contents, i, size, 0)

InplaceInv ==
  /\ InPlace(kind) /\ call.cap = N /\ size = 0 /\ i = 0
  /\ call.room = 0 /\ mem.fresh = Null

(* New objects are inserted.                                               *)
Inserting ==
  /\ call.new \in Seq(Values) /\ call.room = Len(call.new)
  /\ call.room > 0 /\ call.pos <= size

GrowInv ==
  /\ FreshInv /\ Inserting /\ size + call.room <= call.cap
  /\ kind = "small_soa" => call.cap = size + call.room
  /\ i <= size
  /\ Kept(mem[Data], contents, 0, size, 0)
  /\ Kept(mem.fresh, contents, 0, Smaller(i, call.pos), 0)
  /\ Kept(mem.fresh, contents, call.pos, i, call.room)

(* make_room in place: upwards where the ranges do not overlap, and from   *)
(* the end down where they do.                                             *)
ShiftInv ==
  /\ mem.fresh = Null /\ Inserting /\ size + call.room <= cap
  /\ kind = "soa" => NextCapacity(size + call.room) = cap
  /\ i <= size - call.pos
  /\ IF call.room >= size - call.pos
     THEN /\ Kept(mem[Data], contents, 0, call.pos, 0)
          /\ Kept(mem[Data], contents, call.pos, call.pos + i, call.room)
          /\ Kept(mem[Data], contents, call.pos + i, size, 0)
     ELSE /\ Kept(mem[Data], contents, 0, size - i, 0)
          /\ Kept(mem[Data], contents, size - i, size, call.room)

Removing ==
  /\ mem.fresh = Null /\ call.room > 0 /\ call.room <= call.pos /\ call.pos <= size
  /\ Kept(mem[Data], contents, 0, call.pos - call.room, 0)

CloseInv ==
  /\ Removing /\ i <= size - call.pos
  /\ Kept(mem[Data], contents, call.pos, call.pos + i, 0 - call.room)
  /\ Kept(mem[Data], contents, call.pos + i, size, 0)
  /\ Alive(mem[Data], 0, size)

DropInv ==
  /\ Removing /\ i <= call.room /\ call.pos = size
  /\ Alive(mem[Data], call.pos - call.room + i, size)

LoopInv ==
  /\ call.op # "none"
  /\ call.op = "reserve" => ReserveInv
  /\ call.op = "inplace" => InplaceInv
  /\ call.op = "grow" => GrowInv
  /\ call.op = "shift" => ShiftInv
  /\ call.op = "close" => CloseInv
  /\ call.op = "drop" => DropInv

Control ==
  /\ kind \in Kinds /\ build \in Builds
  /\ pc \in {"idle", "loop", "done", "abort"} /\ i \in Nat
  /\ call.op \in Ops /\ call.pos \in Nat /\ call.room \in Nat /\ call.cap \in Nat
  /\ faults = {}

UpTo(b, n) == \E k \in 0 .. n : Sized(b, k)

Typed ==
  /\ mem = [arr |-> mem.arr, heap |-> mem.heap, fresh |-> mem.fresh]
  /\ Sized(mem.arr, N) /\ UpTo(mem.heap, 2 * MaxSize) /\ UpTo(mem.fresh, 2 * MaxSize)
  /\ cap \in Nat /\ size \in Nat /\ contents \in Seq(Values)

(* What holds of a storage that is idle, or in one of its loops; one that  *)
(* is destroyed or aborted does nothing any more.                          *)
IInv ==
  /\ Control
  /\ pc \in {"idle", "loop"} => Backed /\ Listed
  /\ pc = "idle" => IdleInv
  /\ pc = "loop" => LoopInv
  /\ pc \in {"done", "abort"} => Typed

-----------------------------------------------------------------------------
(* Lemmas on the operators of the model.                                   *)

LEMMA Constants ==
  /\ N \in Nat /\ N > 0 /\ MaxSize \in Nat /\ ElmSize \in Nat /\ Threshold \in Nat
  /\ Policy \in [Kinds -> Policies]
  /\ Raw \notin Values /\ Moved \notin Values /\ Raw # Moved
BY RawAssumption, PagedAssumption, GrowthAssumption

(* A policy gives what is wanted, and no more than twice as much where     *)
(* there is less.                                                          *)
LEMMA PolicySuffices ==
  ASSUME NEW p \in Policies, NEW curr \in Nat, NEW atLeast \in Nat
  PROVE  /\ NextSize(p, curr, atLeast) \in Nat
         /\ NextSize(p, curr, atLeast) >= atLeast
         /\ curr < atLeast => NextSize(p, curr, atLeast) <= 2 * atLeast
<1> DEFINE f == (1618 * curr) \div 1000
<1>1. f \in Nat /\ f <= 2 * curr
  OBVIOUS
<1> HIDE DEF f
<1>2. /\ Two(curr, atLeast) \in Nat /\ Two(curr, atLeast) >= atLeast
      /\ curr < atLeast => Two(curr, atLeast) <= 2 * atLeast
  BY DEF Two, Larger
<1>3. /\ Phi(curr, atLeast) \in Nat /\ Phi(curr, atLeast) >= atLeast
      /\ curr < atLeast => Phi(curr, atLeast) <= 2 * atLeast
  BY <1>1 DEF Phi, Larger, f
<1>4. \A n \in Nat : n >= atLeast =>
        /\ Watermark(curr, n) \in Nat /\ Watermark(curr, n) >= atLeast
        /\ curr < atLeast => Watermark(curr, n) = n
  BY DEF Watermark, Larger
<1>5. /\ Default(curr, atLeast) \in {TwoWm(curr, atLeast), PhiWm(curr, atLeast)}
  BY DEF Default, Composed
<1>6. CASE p = "least" \/ p = "least_wm"
  BY <1>4, <1>6 DEF NextSize, Least, LeastWm
<1>7. CASE p = "two" \/ p = "two_wm"
  BY <1>2, <1>4, <1>7 DEF NextSize, TwoWm
<1>8. CASE p = "phi" \/ p = "phi_wm"
  BY <1>3, <1>4, <1>8 DEF NextSize, PhiWm
<1>9. CASE p = "default"
  BY <1>2, <1>3, <1>4, <1>5, <1>9 DEF NextSize, TwoWm, PhiWm
<1> QED
  BY <1>6, <1>7, <1>8, <1>9 DEF Policies

LEMMA NewBlock ==
  ASSUME NEW n \in Nat
  PROVE  /\ Sized(Block(n), n) /\ Sized(Null, 0)
         /\ \A b : Sized(b, n) => (b = Null <=> n = 0)
<1>1. Sized(Block(n), n) /\ Sized(Null, 0)
  BY DEF Sized, Block, Null, Content
<1>2. ASSUME NEW b, Sized(b, n), n = 0
      PROVE  b = Null
  <2>1. b = [s \in Slots(0) |-> b[s]] /\ Slots(0) = {}
    BY <1>2 DEF Sized, Slots
  <2> QED
    BY <2>1 DEF Null, Block
<1>3. ASSUME NEW b, Sized(b, n), b = Null
      PROVE  n = 0
  <2>1. DOMAIN b = 0 .. n - 1 /\ DOMAIN b = 0 .. 0 - 1
    BY <1>3 DEF Sized, Null, Block, Slots
  <2>2. n > 0 => 0 \in 0 .. n - 1
    OBVIOUS
  <2>3. 0 \notin 0 .. 0 - 1
    OBVIOUS
  <2> QED
    BY <2>1, <2>2, <2>3
<1> QED
  BY <1>1, <1>2, <1>3

(* A part of the memory is set, the others stay.                           *)
LEMMA SetPart ==
  ASSUME NEW m, m = [arr |-> m.arr, heap |-> m.heap, fresh |-> m.fresh],
         NEW d \in {"arr", "heap", "fresh"}, NEW x, NEW n, n = [m EXCEPT ![d] = x]
  PROVE  /\ n = [arr |-> n.arr, heap |-> n.heap, fresh |-> n.fresh]
         /\ n[d] = x
         /\ d = "arr" => n.arr = x /\ n.heap = m.heap /\ n.fresh = m.fresh
         /\ d = "heap" => n.arr = m.arr /\ n.heap = x /\ n.fresh = m.fresh
         /\ d = "fresh" => n.arr = m.arr /\ n.heap = m.heap /\ n.fresh = x
<1>1. CASE d = "arr"
  BY <1>1
<1>2. CASE d = "heap"
  BY <1>2
<1>3. CASE d = "fresh"
  BY <1>3
<1> QED
  BY <1>1, <1>2, <1>3

(* What the container constructs in the room of a block.                   *)
LEMMA FilledBlock ==
  ASSUME NEW n \in Nat, NEW b, Sized(b, n), NEW pos \in Nat, NEW new \in Seq(Values)
  PROVE  /\ Sized(Filled(b, pos, new), n)
         /\ \A s \in Slots(n) : Filled(b, pos, new)[s] =
              IF s \in pos .. pos + Len(new) - 1 THEN new[s - pos + 1] ELSE b[s]
<1> DEFINE f == Filled(b, pos, new)
<1>1. DOMAIN b = Slots(n) /\ \A s \in Slots(n) : b[s] \in Content
  BY DEF Sized
<1>2. f = [s \in Slots(n) |->
             IF s \in pos .. pos + Len(new) - 1 THEN new[s - pos + 1] ELSE b[s]]
  BY <1>1 DEF Filled
<1>3. ASSUME NEW s \in Slots(n), s \in pos .. pos + Len(new) - 1
      PROVE  new[s - pos + 1] \in Values
  BY <1>3 DEF Slots
<1> QED
  BY <1>1, <1>2, <1>3 DEF Sized, Content

LEMMA InsertedList ==
  ASSUME NEW c \in Seq(Values), NEW pos \in 0 .. Len(c), NEW new \in Seq(Values)
  PROVE  /\ Inserted(c, pos, new) \in Seq(Values)
         /\ Len(Inserted(c, pos, new)) = Len(c) + Len(new)
         /\ \A k \in 1 .. Len(c) + Len(new) : Inserted(c, pos, new)[k] =
              IF k <= pos THEN c[k]
              ELSE IF k <= pos + Len(new) THEN new[k - pos] ELSE c[k - Len(new)]
<1> DEFINE f == [k \in 1 .. Len(c) + Len(new) |->
     IF k <= pos THEN c[k] ELSE IF k <= pos + Len(new) THEN new[k - pos] ELSE c[k - Len(new)]]
<1>1. ASSUME NEW k \in 1 .. Len(c) + Len(new)
      PROVE  f[k] \in Values
  <2>1. CASE k <= pos
    BY <2>1
  <2>2. CASE k > pos /\ k <= pos + Len(new)
    <3>1. k - pos \in 1 .. Len(new)
      BY <2>2
    <3> QED
      BY <2>2, <3>1
  <2>3. CASE k > pos + Len(new)
    <3>1. k - Len(new) \in 1 .. Len(c) /\ ~(k <= pos)
      BY <2>3
    <3> QED
      BY <2>3, <3>1
  <2> QED
    BY <2>1, <2>2, <2>3
<1>2. f \in Seq(Values) /\ Len(f) = Len(c) + Len(new)
  <2>1. Len(c) + Len(new) \in Nat
    OBVIOUS
  <2> QED
    BY <1>1, <2>1
<1>3. Inserted(c, pos, new) = f
  BY DEF Inserted
<1> QED
  BY <1>2, <1>3

LEMMA RemovedList ==
  ASSUME NEW c \in Seq(Values), NEW pos \in 0 .. Len(c), NEW less \in 0 .. pos
  PROVE  /\ Removed(c, pos, less) \in Seq(Values)
         /\ Len(Removed(c, pos, less)) = Len(c) - less
         /\ \A k \in 1 .. Len(c) - less : Removed(c, pos, less)[k] =
              IF k <= pos - less THEN c[k] ELSE c[k + less]
<1> DEFINE f == [k \in 1 .. Len(c) - less |-> IF k <= pos - less THEN c[k] ELSE c[k + less]]
<1>1. \A k \in 1 .. Len(c) - less : f[k] \in Values
  OBVIOUS
<1>2. Len(c) - less \in Nat
  OBVIOUS
<1>3. f \in Seq(Values) /\ Len(f) = Len(c) - less
  BY <1>1, <1>2
<1> QED
  BY <1>3 DEF Removed

-----------------------------------------------------------------------------
(* Block x is b, but for an object that has been moved within it.          *)
Rearranged(b, x, from, to) ==
  /\ DOMAIN x = DOMAIN b /\ from \in DOMAIN b /\ to \in DOMAIN b /\ from # to
  /\ \A k \in DOMAIN b :
       x[k] = IF k = from THEN Moved ELSE IF k = to THEN b[from] ELSE b[k]

(* Lemmas on the memory of a storage.                                      *)

(* One slot of a block is assigned.                                        *)
LEMMA PutSlot ==
  ASSUME NEW n \in Nat, NEW b, Sized(b, n), NEW d \in Slots(n), NEW v \in Content
  PROVE  /\ Sized([b EXCEPT ![d] = v], n)
         /\ \A k \in Slots(n) : [b EXCEPT ![d] = v][k] = IF k = d THEN v ELSE b[k]
BY DEF Sized

LEMMA MoveSlot ==
  ASSUME NEW n \in Nat, NEW b, Sized(b, n),
         NEW from \in Slots(n), NEW to \in Slots(n), from # to
  PROVE  /\ Sized(MovedWithin(b, from, to), n)
         /\ \A k \in Slots(n) : MovedWithin(b, from, to)[k] =
              IF k = from THEN Moved ELSE IF k = to THEN b[from] ELSE b[k]
<1>1. Moved \in Content /\ b[from] \in Content
  BY DEF Sized, Content
<1> QED
  BY <1>1 DEF Sized, MovedWithin

LEMMA DataIs ==
  ASSUME Backed, Control
  PROVE  /\ Data \in {"arr", "heap"} /\ Sized(mem[Data], cap)
         /\ Data = "arr" => cap = N /\ mem[Data] = mem.arr
         /\ Data = "heap" => mem[Data] = mem.heap
         /\ mem[Data] = Null => size = 0
<1>1. Data \in {"arr", "heap"}
  BY DEF Data, DataOf
<1>2. CASE Data = "heap"
  <2>1. mem[Data] = mem.heap /\ Sized(mem[Data], cap)
    BY <1>2 DEF Backed
  <2> QED
    BY <1>2, <2>1, NewBlock DEF Backed
<1>3. CASE Data = "arr"
  <2>1. kind = "fixed" \/ (InPlace(kind) /\ cap <= N)
    BY <1>3 DEF Data, DataOf
  <2>2. cap = N
    BY <2>1, Constants DEF Backed
  <2>3. mem[Data] = mem.arr
    BY <1>3
  <2>4. mem.arr # Null
    BY NewBlock, Constants DEF Backed
  <2> QED
    BY <1>3, <2>2, <2>3, <2>4 DEF Backed
<1> QED
  BY <1>1, <1>2, <1>3

(* The block at m_ptr is deallocated with the size it has.                 *)
LEMMA RightSize ==
  ASSUME Backed, Control
  PROVE  Deallocated({}) = {}
<1>1. Data \in {"arr", "heap"}
  BY DataIs
<1>2. mem.heap # Null => Sized(mem.heap, cap)
  BY <1>1 DEF Backed
<1> QED
  BY <1>2 DEF Deallocated, Sized

(* The memory of the objects is written to.                                *)
LEMMA SetData ==
  ASSUME Backed, Control, UNCHANGED <<kind, cap>>, size' \in Nat, size' <= cap,
         NEW x, Sized(x, cap), mem' = [mem EXCEPT ![Data] = x]
  PROVE  Backed' /\ Data' = Data /\ mem'[Data'] = x /\ mem'.fresh = mem.fresh
<1>1. Data' = Data /\ Data \in {"arr", "heap"}
  BY DataIs DEF Data
<1>2. /\ mem' = [arr |-> mem'.arr, heap |-> mem'.heap, fresh |-> mem'.fresh]
      /\ mem'[Data] = x
      /\ Data = "arr" => mem'.arr = x /\ mem'.heap = mem.heap /\ mem'.fresh = mem.fresh
      /\ Data = "heap" => mem'.arr = mem.arr /\ mem'.heap = x /\ mem'.fresh = mem.fresh
  <2>1. mem = [arr |-> mem.arr, heap |-> mem.heap, fresh |-> mem.fresh]
    BY DEF Backed
  <2>2. Data \in {"arr", "heap", "fresh"}
    BY <1>1
  <2> QED
    BY <2>1, <2>2, SetPart
<1>3. CASE Data = "arr"
  <2>1. cap = N
    BY <1>3, DataIs
  <2> QED
    BY <1>1, <1>2, <1>3, <2>1 DEF Backed
<1>4. CASE Data = "heap"
  BY <1>1, <1>2, <1>4 DEF Backed
<1> QED
  BY <1>1, <1>3, <1>4

(* An object that is where it is kept.                                     *)
LEMMA KeptObject ==
  ASSUME Listed, NEW b, NEW lo \in Nat, NEW hi \in Nat, NEW shift \in Int,
         Kept(b, contents, lo, hi, shift), NEW k \in lo .. hi - 1, k < size
  PROVE  b[k + shift] = contents[k + 1] /\ b[k + shift] \in Values
<1>1. b[k + shift] = contents[k + 1]
  BY DEF Kept
<1>2. k + 1 \in 1 .. Len(contents)
  BY DEF Listed
<1> QED
  BY <1>1, <1>2 DEF Listed

LEMMA KeptHere ==
  ASSUME Listed, NEW b, NEW lo \in Nat, NEW hi \in Nat, Kept(b, contents, lo, hi, 0),
         NEW k \in Nat, lo <= k, k < hi, k < size
  PROVE  b[k] = contents[k + 1] /\ b[k] \in Values /\ k \in DOMAIN b
<1>1. k \in lo .. hi - 1 /\ k + 0 = k
  OBVIOUS
<1>2. k \in DOMAIN b /\ b[k] = contents[k + 1]
  BY <1>1 DEF Kept
<1>3. k + 1 \in 1 .. Len(contents)
  BY DEF Listed
<1> QED
  BY <1>2, <1>3 DEF Listed

(* Objects stay kept where the block does not change, and some of them.    *)
LEMMA KeptSame ==
  ASSUME NEW b, NEW x, DOMAIN x = DOMAIN b, NEW c,
         NEW lo \in Int, NEW hi \in Int, NEW shift \in Int,
         NEW from \in Int, NEW to \in Int, lo <= from, to <= hi,
         Kept(b, c, lo, hi, shift),
         \A k \in from .. to - 1 :
           k + shift \in DOMAIN b => x[k + shift] = b[k + shift]
  PROVE  Kept(x, c, from, to, shift)
<1> SUFFICES ASSUME NEW k \in from .. to - 1
             PROVE  k + shift \in DOMAIN x /\ x[k + shift] = c[k + 1]
  BY DEF Kept
<1>1. k \in lo .. hi - 1
  OBVIOUS
<1> QED
  BY <1>1 DEF Kept

(* One more object, at either end.                                         *)
LEMMA KeptMore ==
  ASSUME NEW x, NEW c, NEW lo \in Int, NEW hi \in Int, NEW shift \in Int,
         Kept(x, c, lo, hi, shift), NEW k \in {lo - 1, hi},
         k + shift \in DOMAIN x, x[k + shift] = c[k + 1]
  PROVE  /\ k = hi => Kept(x, c, lo, hi + 1, shift)
         /\ k = lo - 1 => Kept(x, c, lo - 1, hi, shift)
<1>1. ASSUME k = hi, NEW j \in lo .. hi + 1 - 1
      PROVE  j + shift \in DOMAIN x /\ x[j + shift] = c[j + 1]
  <2>1. j = hi \/ j \in lo .. hi - 1
    OBVIOUS
  <2> QED
    BY <1>1, <2>1 DEF Kept
<1>2. ASSUME k = lo - 1, NEW j \in lo - 1 .. hi - 1
      PROVE  j + shift \in DOMAIN x /\ x[j + shift] = c[j + 1]
  <2>1. j = lo - 1 \/ j \in lo .. hi - 1
    OBVIOUS
  <2> QED
    BY <1>2, <2>1 DEF Kept
<1> QED
  BY <1>1, <1>2 DEF Kept

(* What is not where an object is moved from, or to, stays.                *)
LEMMA KeptElsewhere ==
  ASSUME NEW b, NEW x, NEW from \in Int, NEW to \in Int, Rearranged(b, x, from, to),
         NEW c, NEW lo \in Int, NEW hi \in Int, NEW shift \in Int,
         NEW first \in Int, NEW last \in Int, lo <= first, last <= hi,
         Kept(b, c, lo, hi, shift),
         \A k \in first .. last - 1 : k + shift # from /\ k + shift # to
  PROVE  Kept(x, c, first, last, shift)
<1>1. \A k \in first .. last - 1 :
        k + shift \in DOMAIN b => x[k + shift] = b[k + shift]
  BY DEF Rearranged
<1> QED
  BY <1>1, KeptSame DEF Rearranged

(* The k-th object is moved next to those that have been moved.            *)
LEMMA KeptArrived ==
  ASSUME NEW b, NEW x, NEW c, NEW lo \in Int, NEW k \in Int, NEW shift \in Int,
         NEW to, to = k + shift, Rearranged(b, x, k, to), b[k] = c[k + 1],
         Kept(b, c, lo, k, shift), \A j \in lo .. k - 1 : j + shift # k
  PROVE  Kept(x, c, lo, k + 1, shift)
<1>1. \A j \in lo .. k - 1 : j + shift # k /\ j + shift # to
  OBVIOUS
<1>2. Kept(x, c, lo, k, shift)
  <2>1. to \in Int /\ lo <= lo /\ k <= k
    OBVIOUS
  <2> QED
    BY <1>1, <2>1, KeptElsewhere
<1>3. k + shift \in DOMAIN x /\ x[k + shift] = c[k + 1]
  BY DEF Rearranged
<1> QED
  BY <1>2, <1>3, KeptMore

(* New objects in the room that has been made for them.                    *)
LEMMA KeptFilled ==
  ASSUME NEW n \in Nat, NEW b, Sized(b, n), NEW c \in Seq(Values), NEW new \in Seq(Values),
         NEW pos \in 0 .. Len(c), Len(c) + Len(new) <= n,
         Kept(b, c, 0, pos, 0), Kept(b, c, pos, Len(c), Len(new))
  PROVE  /\ Sized(Filled(b, pos, new), n)
         /\ Kept(Filled(b, pos, new), Inserted(c, pos, new), 0, Len(c) + Len(new), 0)
<1> DEFINE f == Filled(b, pos, new)
           l == Inserted(c, pos, new)
<1>1. /\ Sized(f, n)
      /\ \A s \in Slots(n) :
           f[s] = IF s \in pos .. pos + Len(new) - 1 THEN new[s - pos + 1] ELSE b[s]
  BY FilledBlock
<1>2. \A k \in 1 .. Len(c) + Len(new) : l[k] =
        IF k <= pos THEN c[k] ELSE IF k <= pos + Len(new) THEN new[k - pos] ELSE c[k - Len(new)]
  BY InsertedList
<1> HIDE DEF f, l
<1>3. ASSUME NEW k \in 0 .. Len(c) + Len(new) - 1
      PROVE  k + 0 \in DOMAIN f /\ f[k + 0] = l[k + 1]
  <2>1. k + 0 = k /\ k \in Slots(n) /\ k + 1 \in 1 .. Len(c) + Len(new) /\ k \in Nat
    BY DEF Slots
  <2>2. k \in DOMAIN f
    BY <1>1, <2>1 DEF Sized
  <2>3. CASE k < pos
    <3>1. b[k] = c[k + 1]
      BY <2>1, <2>3 DEF Kept
    <3>2. f[k] = b[k] /\ l[k + 1] = c[k + 1]
      BY <1>1, <1>2, <2>1, <2>3
    <3> QED
      BY <2>1, <2>2, <3>1, <3>2
  <2>4. CASE k >= pos /\ k < pos + Len(new)
    <3>1. k \in pos .. pos + Len(new) - 1 /\ ~(k + 1 <= pos) /\ k + 1 <= pos + Len(new)
          /\ k - pos + 1 = (k + 1) - pos
      BY <2>1, <2>4
    <3>2. f[k] = new[k - pos + 1] /\ l[k + 1] = new[(k + 1) - pos]
      BY <1>1, <1>2, <2>1, <3>1
    <3> QED
      BY <2>1, <2>2, <3>1, <3>2
  <2>5. CASE k >= pos + Len(new)
    <3> DEFINE j == k - Len(new)
    <3>1. j \in pos .. Len(c) - 1 /\ j + Len(new) = k /\ (k + 1) - Len(new) = j + 1
      BY <2>1, <2>5
    <3>2. k \notin pos .. pos + Len(new) - 1 /\ ~(k + 1 <= pos) /\ ~(k + 1 <= pos + Len(new))
      BY <2>1, <2>5
    <3>3. f[k] = b[k] /\ l[k + 1] = c[(k + 1) - Len(new)]
      BY <1>1, <1>2, <2>1, <3>2
    <3> HIDE DEF j
    <3>4. b[j + Len(new)] = c[j + 1]
      BY <3>1 DEF Kept
    <3> QED
      BY <2>1, <2>2, <3>1, <3>3, <3>4
  <2> QED
    BY <2>1, <2>3, <2>4, <2>5
<1> QED
  BY <1>1, <1>3 DEF Kept, f, l

LEMMA CountIs ==
  ASSUME Backed, Control
  PROVE  /\ call.op \in {"reserve", "inplace", "grow"} => Count = size
         /\ call.op \in {"shift", "close"} => Count = size - call.pos
         /\ call.op = "drop" => Count = call.room
<1>1. mem[Data] = Null \/ cap = 0 => size = 0
  BY DataIs DEF Backed
<1>2. CASE call.op = "reserve" \/ call.op = "inplace"
  BY <1>1, <1>2, Zenon DEF Count
<1>3. CASE call.op = "grow"
  BY <1>1, <1>3, Zenon DEF Count
<1>4. CASE call.op = "shift" \/ call.op = "close"
  BY <1>4, Zenon DEF Count
<1>5. CASE call.op = "drop"
  BY <1>5, Zenon DEF Count
<1> QED
  BY <1>2, <1>3, <1>4, <1>5

LEMMA InvTyped ==
  ASSUME IInv
  PROVE  Typed
<1>1. CASE pc \in {"idle", "loop"}
  <2>1. Backed /\ Listed /\ Control
    BY <1>1 DEF IInv
  <2>2. UpTo(mem.heap, 2 * MaxSize)
    <3>1. Data = "heap" \/ mem.heap = Null
      BY <2>1 DEF Backed
    <3> QED
      BY <2>1, <3>1, NewBlock, Constants DEF Backed, UpTo
  <2>3. UpTo(mem.fresh, 2 * MaxSize)
    <3>1. mem.fresh = Null \/ FreshInv
      BY <1>1, <2>1 DEF IInv, IdleInv, LoopInv, ReserveInv, InplaceInv, GrowInv,
                        ShiftInv, CloseInv, DropInv, Removing, Control, Ops
    <3> QED
      BY <2>1, <3>1, NewBlock, Constants DEF FreshInv, UpTo, Control
  <2> QED
    BY <2>1, <2>2, <2>3 DEF Backed, Listed, Typed
<1>2. CASE pc \in {"done", "abort"}
  BY <1>2 DEF IInv
<1> QED
  BY <1>1, <1>2 DEF IInv, Control

-----------------------------------------------------------------------------
(* Every action keeps the invariant: first the calls.                      *)

LEMMA FirstCapacityIs ==
  ASSUME NEW k \in {"fixed", "raw", "soa", "small", "small_soa"}, NEW c \in Nat
  PROVE  /\ k = "fixed" => FirstCapacity(k, c) = N
         /\ k = "small" => FirstCapacity(k, c) = IF c <= N THEN N ELSE c
         /\ k \in {"raw", "soa", "small_soa"} => FirstCapacity(k, c) = c
<1>1. CASE k = "fixed"
  BY <1>1, Zenon DEF FirstCapacity
<1>2. CASE k = "small" /\ c <= N
  <2>1. ~(c > N)
    BY <1>2, Constants
  <2> QED
    BY <1>2, <2>1, Zenon DEF FirstCapacity
<1>3. CASE k = "small" /\ ~(c <= N)
  <2>1. c > N
    BY <1>3, Constants
  <2> QED
    BY <1>3, <2>1, Zenon DEF FirstCapacity
<1>4. CASE k = "raw"
  BY <1>4, Zenon DEF FirstCapacity
<1>5. CASE k = "soa"
  BY <1>5, Zenon DEF FirstCapacity
<1>6. CASE k = "small_soa"
  BY <1>6, Zenon DEF FirstCapacity
<1> QED
  BY <1>1, <1>2, <1>3, <1>4, <1>5, <1>6

LEMMA KindsLeft ==
  ASSUME Contiguous
  PROVE  Kinds \subseteq {"fixed", "raw", "soa", "small", "small_soa"}
BY RawAssumption DEF Contiguous

LEMMA InitInv ==
  ASSUME Contiguous, Init
  PROVE  IInv
<1>1. PICK k \in Kinds, c \in 0 .. MaxSize :
        /\ kind = k /\ build \in Builds
        /\ (Careful /\ k = "small_soa") => c >= N
        /\ cap = FirstCapacity(k, c)
        /\ mem = [arr |-> Block(N),
                  heap |-> IF DataOf(k, cap) = "heap" THEN Block(cap) ELSE Null,
                  fresh |-> Null]
        /\ pc = "idle" /\ call = NoCall /\ i = 0 /\ faults = {}
        /\ size = 0 /\ contents = <<>>
  BY DEF Init, Contiguous
<1>2. /\ k = "fixed" => cap = N
      /\ k = "small" => cap = IF c <= N THEN N ELSE c
      /\ k \in {"raw", "soa", "small_soa"} => cap = c
      /\ k \in {"fixed", "raw", "soa", "small", "small_soa"}
      /\ c \in Nat /\ c <= MaxSize
  BY <1>1, FirstCapacityIs, KindsLeft, Constants
<1>3. cap \in Nat
  BY <1>2, Constants
<1>4. Control
  BY <1>1 DEF Control, NoCall, Ops
<1>5. Sized(Block(N), N) /\ Sized(Block(cap), cap)
  BY <1>3, NewBlock, Constants
<1>6. mem.arr = Block(N) /\ mem.heap = (IF Data = "heap" THEN Block(cap) ELSE Null)
      /\ mem.fresh = Null
      /\ mem = [arr |-> mem.arr, heap |-> mem.heap, fresh |-> mem.fresh]
  BY <1>1 DEF Data
<1>7. /\ InPlace(kind) => cap >= N
      /\ Data = "heap" => cap <= 2 * MaxSize
  BY <1>1, <1>2, Constants DEF InPlace, Data, DataOf, Contiguous
<1>8. Backed
  BY <1>1, <1>2, <1>3, <1>5, <1>6, <1>7 DEF Backed
<1>9. Listed
  BY <1>1 DEF Listed
<1>10. IdleInv
  <2>1. 0 .. size - 1 = {}
    BY <1>1
  <2> QED
    BY <1>1, <1>6, <2>1 DEF IdleInv, Kept
<1> QED
  BY <1>1, <1>4, <1>8, <1>9, <1>10 DEF IInv

(* A call whose assertions hold has begun with a block b to fill.          *)
LEMMA Started ==
  ASSUME IInv, pc = "idle", NEW c, NEW b, Start(c, [mem EXCEPT !.fresh = b]),
         c.op \in Ops, c.pos \in Nat, c.room \in Nat, c.cap \in Nat
  PROVE  /\ Control' /\ Backed' /\ Listed' /\ Data' = Data /\ mem'[Data'] = mem[Data]
         /\ mem'.fresh = b /\ call' = c /\ i' = 0 /\ pc' = "loop"
         /\ UNCHANGED <<kind, build, cap, faults, size, contents>>
<1>1. Control /\ Backed /\ Listed
  BY DEF IInv
<1>2. /\ call' = c /\ i' = 0 /\ pc' = "loop" /\ mem' = [mem EXCEPT !.fresh = b]
      /\ UNCHANGED <<kind, build, cap, faults, size, contents>>
  BY DEF Start
<1>3. /\ mem' = [arr |-> mem'.arr, heap |-> mem'.heap, fresh |-> mem'.fresh]
      /\ mem'.arr = mem.arr /\ mem'.heap = mem.heap /\ mem'.fresh = b
  BY <1>1, <1>2 DEF Backed
<1>4. Data' = Data /\ Data \in {"arr", "heap"}
  BY <1>1, <1>2, DataIs DEF Data
<1>5. mem'[Data'] = mem[Data]
  BY <1>3, <1>4
<1> QED
  BY <1>1, <1>2, <1>3, <1>4, <1>5 DEF Control, Backed, Listed

LEMMA StartedPlain ==
  ASSUME IInv, pc = "idle", NEW c, Start(c, mem),
         c.op \in Ops, c.pos \in Nat, c.room \in Nat, c.cap \in Nat
  PROVE  /\ Control' /\ Backed' /\ Listed' /\ Data' = Data /\ mem'[Data'] = mem[Data]
         /\ mem'.fresh = Null /\ call' = c /\ i' = 0 /\ pc' = "loop"
         /\ UNCHANGED <<kind, build, cap, faults, size, contents>>
<1>1. mem.fresh = Null /\ mem = [mem EXCEPT !.fresh = Null]
  BY DEF IInv, IdleInv, Backed
<1>2. Start(c, [mem EXCEPT !.fresh = Null])
  BY <1>1
<1> QED
  BY <1>2, Started

LEMMA AbortStep ==
  ASSUME IInv, Abort
  PROVE  IInv'
BY InvTyped DEF IInv, Abort, Control, Typed

LEMMA StartReserve ==
  ASSUME IInv, pc = "idle", kind # "fixed", NEW c \in size .. MaxSize, InPlace(kind) => c > N,
         Start([NoCall EXCEPT !.op = "reserve", !.cap = c], [mem EXCEPT !.fresh = Block(c)])
  PROVE  IInv'
<1> DEFINE d == [NoCall EXCEPT !.op = "reserve", !.cap = c]
<1>1. /\ d.op = "reserve" /\ d.pos = 0 /\ d.room = 0 /\ d.new = <<>> /\ d.cap = c
      /\ Start(d, [mem EXCEPT !.fresh = Block(c)])
  BY DEF NoCall
<1>2. /\ c \in Nat /\ c >= size /\ c <= 2 * MaxSize /\ size \in Nat
      /\ Sized(Block(c), c)
  BY NewBlock, Constants DEF IInv, Backed
<1> HIDE DEF d
<1>3. /\ Control' /\ Backed' /\ Listed' /\ Data' = Data /\ mem'[Data'] = mem[Data]
      /\ mem'.fresh = Block(c) /\ call' = d /\ i' = 0 /\ pc' = "loop"
      /\ UNCHANGED <<kind, build, cap, faults, size, contents>>
  <2>1. d.op \in Ops /\ d.pos \in Nat /\ d.room \in Nat /\ d.cap \in Nat
    BY <1>1, <1>2 DEF Ops
  <2>2. Start(d, [mem EXCEPT !.fresh = Block(c)])
    BY <1>1
  <2> QED
    BY <2>1, <2>2, Started
<1>4. FreshInv'
  BY <1>1, <1>2, <1>3 DEF FreshInv, InPlace
<1>5. Kept(mem[Data], contents, 0, size, 0) /\ 0 .. 0 - 1 = {}
  BY DEF IInv, IdleInv
<1>6. ReserveInv'
  BY <1>1, <1>2, <1>3, <1>4, <1>5 DEF ReserveInv, Kept
<1> QED
  BY <1>1, <1>3, <1>6 DEF IInv, LoopInv

LEMMA ReserveStep ==
  ASSUME Contiguous, IInv, NEW c \in 0 .. MaxSize, Reserve(c)
  PROVE  IInv'
<1>1. /\ pc = "idle" /\ c >= size /\ c \in Nat /\ Control /\ Backed /\ Listed /\ IdleInv
      /\ size \in Nat /\ c \in size .. MaxSize
  BY Constants DEF IInv, Reserve, Backed
<1>2. ASSUME kind \in {"raw", "soa"}, c # cap, c = 0, ReserveRaw(c)
      PROVE  IInv'
  <2>1. /\ mem' = [mem EXCEPT !.heap = Null] /\ cap' = 0 /\ size = 0
        /\ faults' = {}
        /\ UNCHANGED <<kind, build, pc, call, i, size, contents>>
    BY <1>1, <1>2, RightSize DEF ReserveRaw, Control
  <2>2. /\ mem' = [arr |-> mem'.arr, heap |-> mem'.heap, fresh |-> mem'.fresh]
        /\ mem'.arr = mem.arr /\ mem'.heap = Null /\ mem'.fresh = mem.fresh
    BY <1>1, <2>1 DEF Backed
  <2>3. Data' = "heap"
    BY <1>2, <2>1 DEF Data, DataOf, InPlace
  <2>4. Backed'
    BY <1>1, <1>2, <2>1, <2>2, <2>3, NewBlock, Constants DEF Backed, InPlace
  <2>5. 0 .. size' - 1 = {}
    BY <2>1
  <2>6. IdleInv'
    BY <1>1, <2>1, <2>2, <2>5 DEF IdleInv, Kept
  <2> QED
    BY <1>1, <2>1, <2>4, <2>6 DEF IInv, Control, Listed
<1>3. ASSUME kind \in {"raw", "soa"}, c # cap, c # 0, ReserveRaw(c)
      PROVE  IInv'
  <2>1. Start([NoCall EXCEPT !.op = "reserve", !.cap = c], [mem EXCEPT !.fresh = Block(c)])
    BY <1>3 DEF ReserveRaw
  <2> QED
    BY <1>1, <1>3, <2>1, StartReserve DEF InPlace
<1>4. ASSUME InPlace(kind), c > N \/ (c = N /\ size = 0), ReserveSmall(c)
      PROVE  IInv'
  <2>1. CASE c > N
    <3>1. Start([NoCall EXCEPT !.op = "reserve", !.cap = c], [mem EXCEPT !.fresh = Block(c)])
      BY <1>1, <1>4, <2>1, Constants DEF ReserveSmall
    <3> QED
      BY <1>1, <1>4, <2>1, <3>1, StartReserve DEF InPlace
  <2>2. CASE c = N /\ size = 0
    <3> DEFINE d == [NoCall EXCEPT !.op = "inplace", !.cap = c]
    <3>1. d.op = "inplace" /\ d.pos = 0 /\ d.room = 0 /\ d.cap = c
      BY DEF NoCall
    <3>2. c # cap /\ cap >= N /\ ~(c > N) /\ ~(cap <= N)
      BY <1>1, <1>4, <2>2, Constants DEF ReserveSmall, Backed
    <3>3. Start(d, mem)
      BY <1>4, <3>2 DEF ReserveSmall
    <3> HIDE DEF d
    <3>4. /\ Control' /\ Backed' /\ Listed' /\ mem'.fresh = Null
          /\ call' = d /\ i' = 0 /\ pc' = "loop"
          /\ UNCHANGED <<kind, build, cap, faults, size, contents>>
      BY <1>1, <3>1, <3>3, StartedPlain DEF Ops
    <3>5. InplaceInv'
      BY <1>4, <2>2, <3>1, <3>4 DEF InplaceInv, InPlace
    <3> QED
      BY <3>1, <3>4, <3>5 DEF IInv, LoopInv
  <2> QED
    BY <1>4, <2>1, <2>2
<1>5. kind # "paged"
  BY <1>1 DEF Contiguous, Control
<1> QED
  BY <1>2, <1>3, <1>4, <1>5 DEF Reserve, Contiguous

LEMMA MakeRoomStep ==
  ASSUME Contiguous, IInv, NEW pos \in Nat, NEW n \in Nat, NEW new \in [1 .. n -> Values],
         MakeRoom(pos, new)
  PROVE  IInv'
<1> DEFINE room == Len(new)
           next == size + room
           grown == NextCapacity(next)
           c == [NoCall EXCEPT !.pos = pos, !.room = room, !.new = new]
           d == [c EXCEPT !.op = "shift"]
           e == [c EXCEPT !.op = "grow", !.cap = grown]
<1>1. new \in Seq(Values) /\ room \in Nat
  OBVIOUS
<1>2. /\ pc = "idle" /\ Control /\ Backed /\ Listed /\ IdleInv /\ size \in Nat /\ cap \in Nat
      /\ Kept(mem[Data], contents, 0, size, 0)
  BY DEF IInv, MakeRoom, Backed, IdleInv
<1>3. /\ pos <= size /\ room > 0 /\ next <= MaxSize /\ kind # "paged"
      /\ kind = "fixed" => next <= N
      /\ RoomCounted(next)
      /\ \/ RoomFits(next) /\ Start(d, mem)
         \/ ~RoomFits(next) /\ Start(e, [mem EXCEPT !.fresh = Block(grown)])
         \/ Abort
  BY DEF MakeRoom, Contiguous
<1>4. /\ d.op = "shift" /\ d.pos = pos /\ d.room = room /\ d.new = new /\ d.cap = 0
      /\ e.op = "grow" /\ e.pos = pos /\ e.room = room /\ e.new = new /\ e.cap = grown
  BY DEF NoCall
<1>5. next \in Nat /\ next = size + room
  BY <1>1, <1>2
<1> HIDE DEF d, e, grown, next, room
<1>6. CASE RoomFits(next) /\ Start(d, mem)
  <2>1. /\ Control' /\ Backed' /\ Listed' /\ Data' = Data /\ mem'[Data'] = mem[Data]
        /\ mem'.fresh = Null /\ call' = d /\ i' = 0 /\ pc' = "loop"
        /\ UNCHANGED <<kind, build, cap, faults, size, contents>>
    BY <1>1, <1>2, <1>4, <1>6, StartedPlain DEF Ops
  <2>2. next <= cap
    BY <1>2, <1>3, <1>5, <1>6, Constants DEF RoomFits, Backed
  <2>3. kind = "soa" => NextSize(Policy[kind], cap, next) = cap
    BY <1>3, <1>6 DEF RoomCounted, NextCapacity
  <2>4. kind' = "soa" => NextSize(Policy[kind'], cap', size' + call'.room) = cap'
    BY <1>4, <1>5, <2>1, <2>3
  <2>5. ShiftInv'
    <3>1. Inserting'
      BY <1>1, <1>3, <1>4, <2>1 DEF Inserting, room
    <3>2. /\ Kept(mem[Data], contents, 0, pos, 0) /\ Kept(mem[Data], contents, pos, size, 0)
          /\ Kept(mem[Data], contents, pos, pos + 0, room)
          /\ Kept(mem[Data], contents, size - 0, size, room)
      <4>1. pos .. pos + 0 - 1 = {} /\ size - 0 .. size - 1 = {}
        BY <1>2
      <4> QED
        BY <1>2, <1>3, <4>1 DEF Kept
    <3>3. pos + 0 = pos /\ size - 0 = size /\ 0 <= size - pos /\ size + room <= cap
      BY <1>2, <1>3, <1>5, <2>2
    <3>4. /\ Kept(mem'[Data'], contents', 0, call'.pos, 0)
          /\ Kept(mem'[Data'], contents', call'.pos, call'.pos + i', call'.room)
          /\ Kept(mem'[Data'], contents', call'.pos + i', size', 0)
          /\ Kept(mem'[Data'], contents', 0, size' - i', 0)
          /\ Kept(mem'[Data'], contents', size' - i', size', call'.room)
      BY <1>2, <1>4, <2>1, <3>2, <3>3
    <3>5. size' + call'.room <= cap' /\ i' <= size' - call'.pos /\ mem'.fresh = Null
      BY <1>4, <2>1, <3>3
    <3> QED
      BY <2>4, <3>1, <3>4, <3>5 DEF ShiftInv, NextCapacity, Null, Block, Slots
  <2> QED
    BY <1>4, <2>1, <2>5 DEF IInv, LoopInv
<1>7. CASE ~RoomFits(next) /\ Start(e, [mem EXCEPT !.fresh = Block(grown)])
  <2>1. next > cap /\ kind # "fixed"
    BY <1>2, <1>5, <1>7 DEF RoomFits
  <2>2. /\ grown \in Nat /\ grown >= next /\ grown <= 2 * MaxSize
    <3>1. Policy[kind] \in Policies
      BY <1>2, Constants DEF Control
    <3>2. /\ grown \in Nat /\ grown >= next
          /\ cap < next => grown <= 2 * next
      BY <1>2, <1>5, <3>1, PolicySuffices DEF grown, NextCapacity
    <3> QED
      BY <1>3, <1>5, <2>1, <3>2, <1>2, Constants
  <2>3. Sized(Block(grown), grown)
    BY <2>2, NewBlock
  <2>4. /\ Control' /\ Backed' /\ Listed' /\ Data' = Data /\ mem'[Data'] = mem[Data]
        /\ mem'.fresh = Block(grown) /\ call' = e /\ i' = 0 /\ pc' = "loop"
        /\ UNCHANGED <<kind, build, cap, faults, size, contents>>
    BY <1>1, <1>2, <1>4, <1>7, <2>2, Started DEF Ops
  <2>5. FreshInv'
    <3>1. InPlace(kind) => grown > N
      BY <1>2, <1>5, <2>1, <2>2, Constants DEF Backed
    <3> QED
      BY <1>4, <2>1, <2>2, <2>3, <2>4, <3>1 DEF FreshInv, InPlace
  <2>6. GrowInv'
    <3>1. Inserting'
      BY <1>1, <1>3, <1>4, <2>4 DEF Inserting, room
    <3>2. kind = "small_soa" => grown = next
      BY <1>3, <1>7 DEF RoomCounted, grown
    <3>3. Smaller(0, pos) = 0 /\ 0 .. 0 - 1 = {} /\ pos .. 0 - 1 = {}
      BY DEF Smaller
    <3>4. Kept(Block(grown), contents, 0, 0, 0) /\ Kept(Block(grown), contents, pos, 0, room)
      BY <3>3 DEF Kept
    <3> QED
      BY <1>2, <1>4, <1>5, <2>2, <2>4, <2>5, <3>1, <3>2, <3>3, <3>4 DEF GrowInv
  <2> QED
    BY <1>4, <2>4, <2>6 DEF IInv, LoopInv
<1>8. CASE Abort
  BY <1>8, AbortStep
<1> QED
  BY <1>3, <1>6, <1>7, <1>8

LEMMA DestroyRoomStep ==
  ASSUME Contiguous, IInv, NEW pos \in Nat, NEW less \in Nat, DestroyRoom(pos, less)
  PROVE  IInv'
<1> DEFINE c == [NoCall EXCEPT !.op = IF DestroysOnly(pos, less) THEN "drop" ELSE "close",
                               !.pos = pos, !.room = less]
<1>1. /\ pc = "idle" /\ Control /\ Backed /\ Listed /\ size \in Nat /\ cap \in Nat
      /\ Kept(mem[Data], contents, 0, size, 0)
  BY DEF IInv, DestroyRoom, Backed, IdleInv
<1>2. /\ pos <= size /\ less > 0 /\ less <= pos
      /\ Start(c, mem) \/ Abort
  BY DEF DestroyRoom
<1>3. /\ c.op = (IF DestroysOnly(pos, less) THEN "drop" ELSE "close")
      /\ c.pos = pos /\ c.room = less /\ c.cap = 0
  BY DEF NoCall
<1>4. DestroysOnly(pos, less) => pos = size
  BY <1>1, <1>2 DEF DestroysOnly
<1> HIDE DEF c
<1>5. CASE Start(c, mem)
  <2>1. c.op \in {"drop", "close"}
    BY <1>3
  <2>2. /\ Control' /\ Backed' /\ Listed' /\ Data' = Data /\ mem'[Data'] = mem[Data]
        /\ mem'.fresh = Null /\ call' = c /\ i' = 0 /\ pc' = "loop"
        /\ UNCHANGED <<kind, build, cap, faults, size, contents>>
    BY <1>1, <1>3, <1>5, <2>1, StartedPlain DEF Ops
  <2>3. Removing'
    BY <1>1, <1>2, <1>3, <2>2 DEF Removing, Kept
  <2>4. Alive(mem[Data], 0, size)
    <3>1. ASSUME NEW k \in 0 .. size - 1
          PROVE  k \in DOMAIN mem[Data] /\ mem[Data][k] \in Values
      <4>1. k + 0 = k /\ k < size /\ 0 \in Nat /\ 0 \in Int
        BY <1>1
      <4>2. mem[Data][k] \in Values
        BY <1>1, <4>1, KeptObject
      <4>3. k \in DOMAIN mem[Data]
        BY <1>1, <4>1 DEF Kept
      <4> QED
        BY <4>2, <4>3
    <3> QED
      BY <3>1, Constants DEF Alive
  <2>5. ASSUME c.op = "close"
        PROVE  CloseInv'
    <3>1. pos .. pos + 0 - 1 = {} /\ pos + 0 = pos /\ 0 <= size - pos
      BY <1>1, <1>2
    <3>2. /\ Kept(mem[Data], contents, pos, pos + 0, 0 - less)
          /\ Kept(mem[Data], contents, pos + 0, size, 0)
      BY <1>1, <1>2, <3>1 DEF Kept
    <3> QED
      BY <1>3, <2>2, <2>3, <2>4, <3>1, <3>2 DEF CloseInv
  <2>6. ASSUME c.op = "drop"
        PROVE  DropInv'
    <3>1. pos = size /\ pos - less + 0 >= 0
      BY <1>1, <1>2, <1>3, <1>4, <2>6
    <3>2. Alive(mem[Data], pos - less + 0, size)
      BY <1>1, <1>2, <2>4, <3>1 DEF Alive
    <3> QED
      BY <1>2, <1>3, <2>2, <2>3, <3>1, <3>2 DEF DropInv
  <2> QED
    BY <2>1, <2>2, <2>5, <2>6 DEF IInv, LoopInv
<1> QED
  BY <1>2, <1>5, AbortStep

-----------------------------------------------------------------------------
(* The loops.                                                              *)

(* Where a step of MoveOut puts the object.                                *)
Target == IF call.op = "grow" /\ i >= call.pos THEN i + call.room ELSE i

LEMMA MovedOut ==
  ASSUME IInv, MoveOut
  PROVE  /\ call.op \in {"reserve", "grow"} /\ i < size
         /\ mem' = [arr |-> mem'.arr, heap |-> mem'.heap, fresh |-> mem'.fresh]
         /\ mem'.fresh = [mem.fresh EXCEPT ![Target] = mem[Data][i]]
         /\ mem'[Data] = IF call.op = "grow" THEN mem[Data] ELSE [mem[Data] EXCEPT ![i] = Moved]
         /\ Data = "arr" => mem'.heap = mem.heap
         /\ Data = "heap" => mem'.arr = mem.arr
         /\ faults' = IF mem[Data][i] \in Values THEN faults ELSE faults \cup {"ub"}
<1>1. Control /\ Backed /\ Listed /\ LoopInv /\ pc = "loop"
  BY DEF IInv, MoveOut, Looping
<1>2. call.op \in {"reserve", "grow"} /\ i < size
  <2>1. call.op \in {"reserve", "grow", "inplace"} /\ i < Count
    BY DEF MoveOut, Looping
  <2>2. Count = size
    BY <1>1, <2>1, CountIs
  <2>3. call.op # "inplace"
    <3>1. call.op = "inplace" => size = 0 /\ i = 0
      BY <1>1 DEF LoopInv, InplaceInv
    <3> QED
      BY <2>1, <2>2, <3>1
  <2> QED
    BY <2>1, <2>2, <2>3
<1> DEFINE left == IF call.op = "grow" THEN mem
                   ELSE [mem EXCEPT ![Data] = [mem[Data] EXCEPT ![i] = Moved]]
           x == [left["fresh"] EXCEPT ![Target] = mem[Data][i]]
           y == IF call.op = "grow" THEN mem[Data] ELSE [mem[Data] EXCEPT ![i] = Moved]
<1>3. Data \in {"arr", "heap"} /\ Data \in {"arr", "heap", "fresh"}
  BY <1>1, DataIs
<1>4. /\ mem' = [left EXCEPT !["fresh"] = x]
      /\ faults' = IF mem[Data][i] \in Values THEN faults ELSE faults \cup {"ub"}
  BY <1>2, Zenon DEF MoveOut, Checked, Target
<1>5. mem = [arr |-> mem.arr, heap |-> mem.heap, fresh |-> mem.fresh]
  BY <1>1 DEF Backed
<1>6. /\ left = [arr |-> left.arr, heap |-> left.heap, fresh |-> left.fresh]
      /\ left[Data] = y /\ left.fresh = mem.fresh
      /\ Data = "arr" => left.heap = mem.heap
      /\ Data = "heap" => left.arr = mem.arr
  <2>1. CASE call.op = "grow"
    BY <1>5, <2>1
  <2>2. CASE call.op = "reserve"
    <3>1. left = [mem EXCEPT ![Data] = y]
      BY <2>2
    <3> HIDE DEF left, y
    <3> QED
      BY <1>3, <1>5, <3>1, SetPart
  <2> QED
    BY <1>2, <2>1, <2>2
<1> HIDE DEF left
<1>7. /\ mem' = [arr |-> mem'.arr, heap |-> mem'.heap, fresh |-> mem'.fresh]
      /\ mem'.fresh = x /\ mem'.arr = left.arr /\ mem'.heap = left.heap
  <2> HIDE DEF x
  <2>1. "fresh" \in {"arr", "heap", "fresh"}
    OBVIOUS
  <2> QED
    BY <1>4, <1>6, <2>1, SetPart
<1>8. left["fresh"] = mem.fresh /\ mem'[Data] = left[Data]
  BY <1>3, <1>6, <1>7
<1> QED
  BY <1>2, <1>4, <1>6, <1>7, <1>8

LEMMA MoveOutStep ==
  ASSUME IInv, MoveOut
  PROVE  IInv'
<1>1. Control /\ Backed /\ Listed /\ LoopInv /\ pc = "loop"
  BY DEF IInv, MoveOut, Looping
<1>2. i' = i + 1 /\ UNCHANGED <<kind, build, cap, pc, call, size, contents>>
  BY DEF MoveOut, Stepped
<1>3. /\ call.op \in {"reserve", "grow"} /\ i < size
      /\ mem' = [arr |-> mem'.arr, heap |-> mem'.heap, fresh |-> mem'.fresh]
      /\ mem'.fresh = [mem.fresh EXCEPT ![Target] = mem[Data][i]]
      /\ mem'[Data] = IF call.op = "grow" THEN mem[Data] ELSE [mem[Data] EXCEPT ![i] = Moved]
      /\ Data = "arr" => mem'.heap = mem.heap
      /\ Data = "heap" => mem'.arr = mem.arr
      /\ faults' = IF mem[Data][i] \in Values THEN faults ELSE faults \cup {"ub"}
  BY MovedOut
<1>4. /\ i \in Nat /\ size \in Nat /\ cap \in Nat /\ size <= cap /\ faults = {}
      /\ call.cap \in Nat /\ call.room \in Nat /\ call.pos \in Nat
      /\ call.op = "reserve" => ReserveInv
      /\ call.op = "grow" => GrowInv
      /\ FreshInv /\ Sized(mem.fresh, call.cap)
  BY <1>1, <1>3 DEF Control, Backed, LoopInv, ReserveInv, GrowInv, FreshInv
<1>5. mem[Data][i] \in Values /\ mem[Data][i] = contents[i + 1]
  <2>1. CASE call.op = "reserve"
    <3>1. Kept(mem[Data], contents, i, size, 0)
      BY <1>4, <2>1 DEF ReserveInv
    <3> QED
      BY <1>1, <1>3, <1>4, <3>1, KeptHere
  <2>2. CASE call.op = "grow"
    <3>1. Kept(mem[Data], contents, 0, size, 0)
      BY <1>4, <2>2 DEF GrowInv
    <3> QED
      BY <1>1, <1>3, <1>4, <3>1, KeptHere
  <2> QED
    BY <1>3, <2>1, <2>2
<1>6. faults' = {}
  BY <1>3, <1>4, <1>5
<1>7. Target \in Slots(call.cap)
  <2>1. CASE call.op = "reserve"
    BY <1>3, <1>4, <2>1 DEF Target, Slots, ReserveInv
  <2>2. CASE call.op = "grow"
    BY <1>3, <1>4, <2>2 DEF Target, Slots, GrowInv
  <2> QED
    BY <1>3, <2>1, <2>2
<1>8. /\ Sized(mem'.fresh, call.cap)
      /\ \A k \in Slots(call.cap) :
           mem'.fresh[k] = IF k = Target THEN contents[i + 1] ELSE mem.fresh[k]
  <2>1. mem[Data][i] \in Content
    BY <1>5 DEF Content
  <2> QED
    BY <1>3, <1>4, <1>5, <1>7, <2>1, PutSlot
<1>9. Sized(mem[Data], cap) /\ Data \in {"arr", "heap"} /\ (Data = "arr" => cap = N)
  BY <1>1, DataIs
<1>10. /\ Sized(mem'[Data], cap)
       /\ \A k \in Slots(cap) : k # i \/ call.op = "grow" => mem'[Data][k] = mem[Data][k]
  <2>1. i \in Slots(cap) /\ Moved \in Content
    BY <1>3, <1>4 DEF Slots, Content
  <2> QED
    BY <1>3, <1>4, <1>9, <2>1, PutSlot
<1>11. Data' = Data /\ (Data = "arr" => mem'[Data] = mem'.arr)
       /\ (Data = "heap" => mem'[Data] = mem'.heap)
  BY <1>2 DEF Data
<1>12. Backed'
  BY <1>1, <1>2, <1>3, <1>9, <1>10, <1>11 DEF Backed
<1>13. FreshInv'
  BY <1>2, <1>4, <1>8 DEF FreshInv, InPlace
<1>14. DOMAIN mem'.fresh = Slots(call.cap) /\ DOMAIN mem.fresh = Slots(call.cap)
       /\ DOMAIN mem'[Data] = Slots(cap) /\ DOMAIN mem[Data] = Slots(cap)
  BY <1>4, <1>8, <1>9, <1>10 DEF Sized
<1>15. ASSUME call.op = "reserve"
       PROVE  ReserveInv'
  <2>1. /\ size <= call.cap /\ Target = i
        /\ call.pos = 0 /\ call.room = 0 /\ call.new = <<>>
        /\ Kept(mem.fresh, contents, 0, i, 0)
        /\ Kept(mem[Data], contents, i, size, 0)
    BY <1>4, <1>15 DEF ReserveInv, Target
  <2>2. Kept(mem'.fresh, contents, 0, i + 1, 0)
    BY <1>3, <1>4, <1>8, <1>14, <2>1 DEF Kept, Slots
  <2>3. Kept(mem'[Data], contents, i + 1, size, 0)
    BY <1>4, <1>10, <1>14, <2>1 DEF Kept, Slots
  <2> QED
    BY <1>2, <1>3, <1>4, <1>11, <1>13, <2>1, <2>2, <2>3 DEF ReserveInv
<1>16. ASSUME call.op = "grow"
       PROVE  GrowInv'
  <2>1. /\ Inserting /\ size + call.room <= call.cap
        /\ kind = "small_soa" => call.cap = size + call.room
        /\ Target = IF i >= call.pos THEN i + call.room ELSE i
        /\ Kept(mem[Data], contents, 0, size, 0)
        /\ Kept(mem.fresh, contents, 0, Smaller(i, call.pos), 0)
        /\ Kept(mem.fresh, contents, call.pos, i, call.room)
        /\ call.room > 0 /\ call.pos <= size
    BY <1>4, <1>16 DEF GrowInv, Target, Inserting
  <2>2. Kept(mem'.fresh, contents, 0, Smaller(i + 1, call.pos), 0)
    <3> DEFINE s == Smaller(i, call.pos)
    <3>1. s \in Nat /\ s <= call.pos /\ s <= i
      BY <1>4 DEF Smaller
    <3>2. \A k \in 0 .. s - 1 : k + 0 # Target
      BY <1>4, <2>1, <3>1
    <3>3. Kept(mem'.fresh, contents, 0, s, 0)
      <4>1. \A k \in 0 .. s - 1 :
              k + 0 \in DOMAIN mem.fresh => mem'.fresh[k + 0] = mem.fresh[k + 0]
        BY <1>8, <1>14, <3>2
      <4> HIDE DEF s
      <4> QED
        BY <1>14, <2>1, <3>1, <4>1, KeptSame DEF s
    <3>4. CASE i < call.pos
      <4>1. s = i /\ Smaller(i + 1, call.pos) = i + 1 /\ Target = i /\ i + 0 = i
        BY <1>4, <2>1, <3>4 DEF Smaller
      <4>2. mem'.fresh[i] = contents[i + 1] /\ i \in DOMAIN mem'.fresh
        BY <1>7, <1>8, <1>14, <4>1
      <4> HIDE DEF s
      <4> QED
        BY <1>4, <3>3, <4>1, <4>2, KeptMore
    <3>5. CASE ~(i < call.pos)
      <4>1. s = Smaller(i + 1, call.pos)
        BY <1>4, <3>5 DEF Smaller
      <4> QED
        BY <3>3, <4>1
    <3> QED
      BY <3>4, <3>5
  <2>3. Kept(mem'.fresh, contents, call.pos, i + 1, call.room)
    <3>1. Kept(mem'.fresh, contents, call.pos, i, call.room)
      <4>1. \A k \in call.pos .. i - 1 : k + call.room # Target
        BY <1>4, <2>1
      <4>2. \A k \in call.pos .. i - 1 :
              k + call.room \in DOMAIN mem.fresh =>
                mem'.fresh[k + call.room] = mem.fresh[k + call.room]
        BY <1>8, <1>14, <4>1
      <4>3. call.pos \in Int /\ i \in Int /\ call.room \in Int
            /\ call.pos <= call.pos /\ i <= i
        BY <1>4
      <4> QED
        BY <1>14, <2>1, <4>2, <4>3, KeptSame
    <3>2. CASE i >= call.pos
      <4>1. Target = i + call.room
        BY <2>1, <3>2
      <4>2. mem'.fresh[i + call.room] = contents[i + 1] /\ i + call.room \in DOMAIN mem'.fresh
        BY <1>7, <1>8, <1>14, <4>1
      <4> QED
        BY <1>4, <3>1, <4>2, KeptMore
    <3>3. CASE ~(i >= call.pos)
      <4> SUFFICES ASSUME NEW k \in call.pos .. (i + 1) - 1
                   PROVE  FALSE
        BY DEF Kept
      <4> QED
        BY <1>4, <3>3
    <3> QED
      BY <3>2, <3>3
  <2>4. Kept(mem'[Data], contents, 0, size, 0)
    BY <1>3, <1>16, <2>1
  <2>5. Inserting'
    BY <1>2, <2>1 DEF Inserting
  <2> QED
    BY <1>2, <1>3, <1>4, <1>11, <1>13, <2>1, <2>2, <2>3, <2>4, <2>5 DEF GrowInv
<1>17. LoopInv'
  BY <1>2, <1>3, <1>15, <1>16 DEF LoopInv
<1> QED
  BY <1>1, <1>2, <1>4, <1>6, <1>12, <1>17 DEF IInv, Control, Listed

(* A step that moves an object within its block.                           *)
LEMMA MovedInside ==
  ASSUME IInv, pc = "loop", NEW from \in Slots(cap), NEW to \in Slots(cap), from # to,
         mem' = [mem EXCEPT ![Data] = MovedWithin(mem[Data], from, to)], Stepped
  PROVE  /\ Backed' /\ Listed' /\ Data' = Data /\ mem'.fresh = mem.fresh
         /\ DOMAIN mem[Data] = Slots(cap)
         /\ Rearranged(mem[Data], mem'[Data'], from, to)
<1>1. Control /\ Backed /\ Listed /\ cap \in Nat
  BY DEF IInv, Backed
<1>2. UNCHANGED <<kind, cap, size, contents>> /\ size' \in Nat /\ size' <= cap
  BY <1>1 DEF Stepped, Backed
<1> DEFINE x == MovedWithin(mem[Data], from, to)
<1>3. Sized(mem[Data], cap)
  BY <1>1, DataIs
<1>4. /\ Sized(x, cap)
      /\ \A k \in Slots(cap) : x[k] =
           IF k = from THEN Moved ELSE IF k = to THEN mem[Data][from] ELSE mem[Data][k]
  BY <1>1, <1>3, MoveSlot
<1> HIDE DEF x
<1>5. Backed' /\ Data' = Data /\ mem'[Data'] = x /\ mem'.fresh = mem.fresh
  <2>1. mem' = [mem EXCEPT ![Data] = x]
    BY DEF x
  <2> QED
    BY <1>1, <1>2, <1>4, <2>1, SetData
<1> QED
  BY <1>1, <1>2, <1>3, <1>4, <1>5 DEF Listed, Sized, Rearranged

LEMMA ShiftStep ==
  ASSUME IInv, Shift
  PROVE  IInv'
<1>1. Control /\ Backed /\ Listed /\ LoopInv /\ pc = "loop" /\ call.op = "shift" /\ ShiftInv
  BY DEF IInv, Shift, Looping, LoopInv
<1>2. i' = i + 1 /\ UNCHANGED <<kind, build, cap, pc, call, size, contents>>
  BY DEF Shift, Stepped
<1>3. /\ i \in Nat /\ size \in Nat /\ cap \in Nat /\ size <= cap /\ faults = {}
      /\ call.room \in Nat /\ call.pos \in Nat /\ call.room > 0 /\ call.pos <= size
      /\ size + call.room <= cap /\ Inserting
      /\ mem.fresh = Null
  BY <1>1 DEF Control, Backed, ShiftInv, Inserting
<1>4. i < size - call.pos
  BY <1>1, CountIs DEF Shift, Looping
<1>5. /\ Shifted \in call.pos .. size - 1 /\ Shifted \in Nat /\ Shifted < size
      /\ call.room >= size - call.pos => Shifted = call.pos + i
      /\ ~(call.room >= size - call.pos) => Shifted = size - 1 - i
  BY <1>3, <1>4 DEF Shifted
<1>6. /\ Shifted \in Slots(cap) /\ Shifted + call.room \in Slots(cap)
      /\ Shifted # Shifted + call.room
  BY <1>3, <1>5 DEF Slots
<1>7. /\ Backed' /\ Listed' /\ Data' = Data /\ mem'.fresh = mem.fresh
      /\ DOMAIN mem[Data] = Slots(cap)
      /\ Rearranged(mem[Data], mem'[Data'], Shifted, Shifted + call.room)
  <2>1. mem' = [mem EXCEPT ![Data] = MovedWithin(mem[Data], Shifted, Shifted + call.room)]
    BY DEF Shift
  <2>2. Stepped
    BY DEF Shift
  <2> QED
    BY <1>1, <1>6, <2>1, <2>2, MovedInside
<1>8. mem[Data][Shifted] = contents[Shifted + 1] /\ mem[Data][Shifted] \in Values
  <2>1. CASE call.room >= size - call.pos
    <3>1. /\ Kept(mem[Data], contents, call.pos + i, size, 0)
          /\ call.pos + i \in Nat /\ call.pos + i <= Shifted
      BY <1>1, <1>3, <1>5, <2>1 DEF ShiftInv
    <3> QED
      BY <1>1, <1>3, <1>5, <3>1, KeptHere
  <2>2. CASE ~(call.room >= size - call.pos)
    <3>1. /\ Kept(mem[Data], contents, 0, size - i, 0)
          /\ size - i \in Nat /\ Shifted < size - i
      BY <1>1, <1>3, <1>4, <1>5, <2>2 DEF ShiftInv
    <3> QED
      BY <1>1, <1>3, <1>5, <3>1, KeptHere
  <2> QED
    BY <2>1, <2>2
<1>9. /\ Shifted \in Int /\ Shifted + call.room \in Int
      /\ Shifted + call.room \in DOMAIN mem'[Data']
      /\ mem'[Data'][Shifted + call.room] = contents[Shifted + 1]
  BY <1>3, <1>5, <1>6, <1>7, <1>8 DEF Rearranged
<1>10. faults' = {}
  BY <1>3, <1>6, <1>7, <1>8 DEF Shift, Checked
<1>11. ShiftInv'
  <2>1. Inserting' /\ i' <= size' - call'.pos
    BY <1>2, <1>3, <1>4 DEF Inserting
  <2>2. kind = "soa" => NextCapacity(size + call.room)' = cap'
    BY <1>1, <1>2 DEF ShiftInv, NextCapacity
  <2>3. ASSUME call.room >= size - call.pos
        PROVE  /\ Kept(mem'[Data'], contents, 0, call.pos, 0)
               /\ Kept(mem'[Data'], contents, call.pos, call.pos + (i + 1), call.room)
               /\ Kept(mem'[Data'], contents, call.pos + (i + 1), size, 0)
    <3>1. /\ Kept(mem[Data], contents, 0, call.pos, 0)
          /\ Kept(mem[Data], contents, call.pos, call.pos + i, call.room)
          /\ Kept(mem[Data], contents, call.pos + i, size, 0)
          /\ Shifted = call.pos + i
      BY <1>1, <1>5, <2>3 DEF ShiftInv
    <3>2. Kept(mem'[Data'], contents, 0, call.pos, 0)
      <4>1. \A k \in 0 .. call.pos - 1 : k + 0 # Shifted /\ k + 0 # Shifted + call.room
        BY <1>3, <1>5
      <4> QED
        BY <1>3, <1>4, <1>7, <1>9, <3>1, <4>1, KeptElsewhere
    <3>3. Kept(mem'[Data'], contents, call.pos, call.pos + (i + 1), call.room)
      <4>1. \A j \in call.pos .. Shifted - 1 : j + call.room # Shifted
        BY <1>3, <1>4, <2>3, <3>1
      <4>2. /\ Kept(mem[Data], contents, call.pos, Shifted, call.room)
            /\ call.pos + (i + 1) = Shifted + 1
        BY <1>3, <3>1
      <4>3. call.pos \in Int /\ call.room \in Int
        BY <1>3
      <4>4. Kept(mem'[Data'], contents, call.pos, Shifted + 1, call.room)
        BY <1>7, <1>8, <1>9, <4>1, <4>2, <4>3, KeptArrived
      <4> QED
        BY <4>2, <4>4
    <3>4. Kept(mem'[Data'], contents, call.pos + (i + 1), size, 0)
      <4>1. \A k \in call.pos + (i + 1) .. size - 1 :
              k + 0 # Shifted /\ k + 0 # Shifted + call.room
        BY <1>3, <1>4, <2>3, <3>1
      <4> QED
        BY <1>3, <1>4, <1>7, <1>9, <3>1, <4>1, KeptElsewhere
    <3> QED
      BY <3>2, <3>3, <3>4
  <2>4. ASSUME ~(call.room >= size - call.pos)
        PROVE  /\ Kept(mem'[Data'], contents, 0, size - (i + 1), 0)
               /\ Kept(mem'[Data'], contents, size - (i + 1), size, call.room)
    <3>1. /\ Kept(mem[Data], contents, 0, size - i, 0)
          /\ Kept(mem[Data], contents, size - i, size, call.room)
          /\ Shifted = size - 1 - i
      BY <1>1, <1>5, <2>4 DEF ShiftInv
    <3>2. Kept(mem'[Data'], contents, 0, size - (i + 1), 0)
      <4>1. \A k \in 0 .. size - (i + 1) - 1 : k + 0 # Shifted /\ k + 0 # Shifted + call.room
        BY <1>3, <1>4, <3>1
      <4> QED
        BY <1>3, <1>4, <1>7, <1>9, <3>1, <4>1, KeptElsewhere
    <3>3. Kept(mem'[Data'], contents, size - (i + 1), size, call.room)
      <4>1. \A k \in size - i .. size - 1 :
              k + call.room # Shifted /\ k + call.room # Shifted + call.room
        BY <1>3, <1>4, <3>1
      <4>2. /\ Kept(mem'[Data'], contents, size - i, size, call.room)
            /\ size - i \in Int /\ size - (i + 1) = (size - i) - 1
        BY <1>3, <1>4, <1>7, <1>9, <3>1, <4>1, KeptElsewhere
      <4>3. Shifted = size - i - 1
        BY <1>3, <3>1
      <4> QED
        BY <1>3, <4>2, <4>3, <1>9, KeptMore
    <3> QED
      BY <3>2, <3>3
  <2> QED
    BY <1>2, <1>3, <1>7, <2>1, <2>2, <2>3, <2>4
       DEF ShiftInv, NextCapacity, Null, Block, Slots
<1> QED
  BY <1>1, <1>2, <1>3, <1>7, <1>10, <1>11 DEF IInv, Control, LoopInv

LEMMA CloseStep ==
  ASSUME IInv, Close
  PROVE  IInv'
<1> DEFINE k == call.pos + i
           to == k - call.room
           less == 0 - call.room
<1>1. Control /\ Backed /\ Listed /\ LoopInv /\ pc = "loop" /\ call.op = "close" /\ CloseInv
  BY DEF IInv, Close, Looping, LoopInv
<1>2. i' = i + 1 /\ UNCHANGED <<kind, build, cap, pc, call, size, contents>>
  BY DEF Close, Stepped
<1>3. /\ i \in Nat /\ size \in Nat /\ cap \in Nat /\ size <= cap /\ faults = {}
      /\ call.room \in Nat /\ call.pos \in Nat /\ call.room > 0 /\ call.room <= call.pos
      /\ mem.fresh = Null
  BY <1>1 DEF Control, Backed, CloseInv, Removing
<1>4. i < size - call.pos
  BY <1>1, CountIs DEF Close, Looping
<1>5. /\ k \in Nat /\ k < size /\ k >= call.pos /\ to \in Nat /\ to < k
      /\ to >= call.pos - call.room /\ to = k + less /\ less \in Int /\ to = k - call.room
  BY <1>3, <1>4
<1>6. k \in Slots(cap) /\ to \in Slots(cap) /\ k # to
  BY <1>3, <1>5 DEF Slots
<1>7. /\ Kept(mem[Data], contents, 0, call.pos - call.room, 0)
      /\ Kept(mem[Data], contents, call.pos, k, less)
      /\ Kept(mem[Data], contents, k, size, 0)
      /\ Alive(mem[Data], 0, size)
  BY <1>1 DEF CloseInv, Removing
<1>8. /\ mem' = [mem EXCEPT ![Data] = MovedWithin(mem[Data], k, to)]
      /\ Checked(mem[Data][k] \in Values /\ mem[Data][to] # Raw) /\ Stepped
  BY DEF Close
<1>9. call.pos + (i + 1) = k + 1 /\ k + 1 \in Int
  BY <1>3
<1> HIDE DEF k, to, less
<1>10. /\ Backed' /\ Listed' /\ Data' = Data /\ mem'.fresh = mem.fresh
       /\ DOMAIN mem[Data] = Slots(cap)
       /\ Rearranged(mem[Data], mem'[Data'], k, to)
  BY <1>1, <1>6, <1>8, MovedInside
<1>11. mem[Data][k] = contents[k + 1] /\ mem[Data][k] \in Values
  BY <1>1, <1>3, <1>5, <1>7, KeptHere
<1>12. faults' = {}
  <2>1. to \in 0 .. size - 1
    BY <1>3, <1>5
  <2>2. mem[Data][to] # Raw
    BY <1>7, <2>1 DEF Alive
  <2> QED
    BY <1>3, <1>8, <1>11, <2>2 DEF Checked
<1>13. Kept(mem'[Data'], contents, 0, call.pos - call.room, 0)
  <2>1. \A j \in 0 .. call.pos - call.room - 1 : j + 0 # k /\ j + 0 # to
    BY <1>3, <1>5
  <2> QED
    BY <1>3, <1>5, <1>7, <1>10, <2>1, KeptElsewhere
<1>14. Kept(mem'[Data'], contents, call.pos, k + 1, less)
  <2>1. \A j \in call.pos .. k - 1 : j + less # k
    BY <1>3, <1>5
  <2>2. k \in Int /\ call.pos \in Int /\ to = k + less /\ less \in Int
    BY <1>3, <1>5
  <2> QED
    BY <1>7, <1>10, <1>11, <2>1, <2>2, KeptArrived
<1>15. Kept(mem'[Data'], contents, k + 1, size, 0)
  <2>1. \A j \in k + 1 .. size - 1 : j + 0 # k /\ j + 0 # to
    BY <1>3, <1>5
  <2> QED
    BY <1>3, <1>5, <1>7, <1>9, <1>10, <2>1, KeptElsewhere
<1>16. Alive(mem'[Data'], 0, size)
  <2>1. Moved # Raw /\ mem[Data][k] # Raw
    BY <1>11, Constants
  <2> QED
    BY <1>7, <1>10, <2>1 DEF Alive, Rearranged
<1>17. CloseInv'
  <2>1. Removing'
    BY <1>1, <1>2, <1>3, <1>10, <1>13 DEF Removing, CloseInv, Null, Block, Slots
  <2>2. i' <= size' - call'.pos
    BY <1>2, <1>3, <1>4
  <2> QED
    BY <1>2, <1>9, <1>14, <1>15, <1>16, <2>1, <2>2 DEF CloseInv, less
<1> QED
  BY <1>1, <1>2, <1>3, <1>10, <1>12, <1>17 DEF IInv, Control, LoopInv

LEMMA DropStep ==
  ASSUME IInv, Drop
  PROVE  IInv'
<1> DEFINE k == call.pos - call.room + i
           x == [mem[Data] EXCEPT ![k] = Raw]
<1>1. Control /\ Backed /\ Listed /\ LoopInv /\ pc = "loop" /\ call.op = "drop" /\ DropInv
  BY DEF IInv, Drop, Looping, LoopInv
<1>2. i' = i + 1 /\ UNCHANGED <<kind, build, cap, pc, call, size, contents>>
  BY DEF Drop, Stepped
<1>3. /\ i \in Nat /\ size \in Nat /\ cap \in Nat /\ size <= cap /\ faults = {}
      /\ call.room \in Nat /\ call.pos \in Nat /\ call.room > 0 /\ call.room <= call.pos
      /\ mem.fresh = Null /\ call.pos = size
  BY <1>1 DEF Control, Backed, DropInv, Removing
<1>4. i < call.room
  BY <1>1, CountIs DEF Drop, Looping
<1>5. /\ k \in Nat /\ k < size /\ k >= call.pos - call.room
      /\ call.pos - call.room + (i + 1) = k + 1
  BY <1>3, <1>4
<1>6. /\ Kept(mem[Data], contents, 0, call.pos - call.room, 0)
      /\ Alive(mem[Data], k, size)
  BY <1>1 DEF DropInv, Removing
<1>7. mem' = [mem EXCEPT ![Data] = x] /\ Checked(mem[Data][k] # Raw)
  BY DEF Drop
<1> HIDE DEF k
<1>8. Sized(mem[Data], cap) /\ k \in Slots(cap) /\ Raw \in Content
  BY <1>1, <1>3, <1>5, DataIs DEF Slots, Content
<1>9. Sized(x, cap) /\ \A j \in Slots(cap) : j # k => x[j] = mem[Data][j]
  BY <1>3, <1>8, PutSlot
<1> HIDE DEF x
<1>10. Backed' /\ Data' = Data /\ mem'[Data'] = x /\ mem'.fresh = mem.fresh
  BY <1>1, <1>2, <1>3, <1>7, <1>9, SetData
<1>11. DOMAIN mem[Data] = Slots(cap) /\ DOMAIN x = Slots(cap)
  BY <1>8, <1>9 DEF Sized
<1>12. faults' = {}
  <2>1. k \in k .. size - 1
    BY <1>3, <1>5
  <2> QED
    BY <1>3, <1>6, <1>7, <2>1 DEF Checked, Alive
<1>13. Kept(x, contents, 0, call.pos - call.room, 0)
  <2>1. \A j \in 0 .. call.pos - call.room - 1 : j + 0 # k
    BY <1>3, <1>5
  <2> QED
    BY <1>6, <1>9, <1>11, <2>1 DEF Kept
<1>14. Alive(x, k + 1, size)
  <2>1. \A j \in k + 1 .. size - 1 : j \in k .. size - 1 /\ j # k
    BY <1>3, <1>5
  <2> QED
    BY <1>6, <1>9, <1>11, <2>1 DEF Alive
<1>15. DropInv'
  <2>1. Removing'
    BY <1>1, <1>2, <1>3, <1>10, <1>13 DEF Removing, DropInv, Null, Block, Slots
  <2>2. i' <= call'.room /\ call'.pos = size'
    BY <1>2, <1>3, <1>4
  <2> QED
    BY <1>2, <1>5, <1>10, <1>14, <2>1, <2>2 DEF DropInv
<1> QED
  BY <1>1, <1>2, <1>3, <1>10, <1>12, <1>15 DEF IInv, Control, LoopInv, Listed

-----------------------------------------------------------------------------
(* The ends of the calls.                                                  *)

(* Where a call has returned, and size is the length of what is kept.      *)
LEMMA Returned ==
  ASSUME Control, Return, UNCHANGED <<kind, build>>, faults' = {}, Backed', Listed',
         mem'.fresh = Null, Kept(mem'[Data'], contents', 0, size', 0)
  PROVE  IInv'
<1>1. pc' = "idle" /\ call' = NoCall /\ i' = 0 /\ kind' = kind /\ build' = build
  BY DEF Return
<1>2. Control'
  BY <1>1 DEF Control, NoCall, Ops
<1>3. IdleInv'
  BY <1>1 DEF IdleInv, NoCall, Null, Block, Slots
<1> QED
  BY <1>1, <1>2, <1>3 DEF IInv

LEMMA ReplaceStep ==
  ASSUME IInv, Replace
  PROVE  IInv'
<1> DEFINE c == call.cap
           f == Filled(mem.fresh, call.pos, call.new)
           l == Inserted(contents, call.pos, call.new)
<1>1. Control /\ Backed /\ Listed /\ LoopInv /\ pc = "loop"
  BY DEF IInv, Replace, Ending
<1>2. call.op \in {"reserve", "grow"} /\ i = Count
  BY DEF Replace, Ending
<1>3. /\ i = size
      /\ call.op = "reserve" => ReserveInv
      /\ call.op = "grow" => GrowInv
      /\ FreshInv
  BY <1>1, <1>2, CountIs DEF LoopInv, ReserveInv, GrowInv
<1>4. /\ size \in Nat /\ c \in Nat /\ call.pos \in Nat /\ faults = {}
      /\ size = Len(contents) /\ contents \in Seq(Values)
  BY <1>1 DEF Control, Backed, Listed
<1>5. /\ call.new \in Seq(Values) /\ call.pos \in 0 .. size /\ size + Len(call.new) <= c
      /\ Kept(mem.fresh, contents, 0, call.pos, 0)
      /\ Kept(mem.fresh, contents, call.pos, size, Len(call.new))
  <2>1. CASE call.op = "reserve"
    <3>1. /\ call.new = <<>> /\ call.pos = 0 /\ size <= c
          /\ Kept(mem.fresh, contents, 0, size, 0)
      BY <1>3, <2>1 DEF ReserveInv
    <3>2. Len(<<>>) = 0 /\ <<>> \in Seq(Values) /\ size + 0 = size /\ 0 \in 0 .. size
          /\ 0 .. 0 - 1 = {}
      BY <1>4
    <3> QED
      BY <3>1, <3>2 DEF Kept
  <2>2. CASE call.op = "grow"
    <3>1. /\ Inserting /\ size + call.room <= c
          /\ Kept(mem.fresh, contents, 0, Smaller(size, call.pos), 0)
          /\ Kept(mem.fresh, contents, call.pos, size, call.room)
      BY <1>3, <2>2 DEF GrowInv
    <3>2. call.new \in Seq(Values) /\ call.room = Len(call.new) /\ call.pos <= size
      BY <3>1 DEF Inserting
    <3>3. Smaller(size, call.pos) = call.pos
      BY <1>4, <3>2 DEF Smaller
    <3> QED
      BY <1>4, <3>1, <3>2, <3>3
  <2> QED
    BY <1>2, <2>1, <2>2
<1>6. Sized(mem.fresh, c) /\ c <= 2 * MaxSize /\ kind # "fixed" /\ (InPlace(kind) => c > N)
  BY <1>3 DEF FreshInv
<1>7. Sized(f, c) /\ Kept(f, l, 0, size + Len(call.new), 0)
  BY <1>4, <1>5, <1>6, KeptFilled
<1>8. /\ l \in Seq(Values) /\ Len(l) = size + Len(call.new)
  BY <1>4, <1>5, InsertedList
<1>9. Sized(Pointed(mem.arr), N)
  <2>1. 0 \in Slots(N) /\ Raw \in Content /\ Sized(mem.arr, N)
    BY <1>1, Constants DEF Slots, Content, Backed
  <2> QED
    BY <2>1, PutSlot, Constants DEF Pointed
<1>10. cap' = c
  <2>1. kind = "small_soa" /\ call.op = "grow" => c = size + call.room
    BY <1>3 DEF GrowInv
  <2> QED
    BY <2>1 DEF Replace, GrownCapacity
<1>11. /\ mem' = [arr |-> Pointed(mem.arr), heap |-> f, fresh |-> Null]
       /\ size' = size + Len(call.new) /\ contents' = l
       /\ faults' = Deallocated(faults)
       /\ Return /\ UNCHANGED <<kind, build>>
  BY DEF Replace
<1> HIDE DEF c, f, l
<1>12. /\ mem'.arr = Pointed(mem.arr) /\ mem'.heap = f /\ mem'.fresh = Null
       /\ mem' = [arr |-> mem'.arr, heap |-> mem'.heap, fresh |-> mem'.fresh]
  BY <1>11
<1>13. Data' = "heap"
  <2>1. kind' = kind /\ ~(InPlace(kind) /\ c <= N)
    BY <1>4, <1>6, <1>11, Constants
  <2> QED
    BY <1>6, <1>10, <2>1 DEF Data, DataOf
<1>14. faults' = {}
  BY <1>1, <1>4, <1>11, RightSize
<1>15. Backed'
  <2>1. InPlace(kind)' => c >= N
    BY <1>4, <1>6, <1>11, Constants DEF InPlace
  <2>2. kind' # "fixed" /\ size' \in Nat /\ size' <= c
    BY <1>4, <1>5, <1>6, <1>11
  <2> QED
    BY <1>4, <1>6, <1>7, <1>9, <1>10, <1>12, <1>13, <2>1, <2>2 DEF Backed
<1>16. Listed'
  BY <1>8, <1>11 DEF Listed
<1>17. Kept(mem'[Data'], contents', 0, size', 0)
  BY <1>7, <1>11, <1>12, <1>13
<1> QED
  BY <1>1, <1>11, <1>12, <1>14, <1>15, <1>16, <1>17, Returned

LEMMA ReplaceInplaceStep ==
  ASSUME IInv, ReplaceInplace
  PROVE  IInv'
<1>1. Control /\ Backed /\ Listed /\ InplaceInv /\ call.op = "inplace"
  BY DEF IInv, ReplaceInplace, Ending, LoopInv
<1>2. InPlace(kind) /\ call.cap = N /\ size = 0 /\ mem.fresh = Null
  BY <1>1 DEF InplaceInv
<1>3. /\ mem' = [mem EXCEPT !.heap = Null, !.arr = Pointed(mem.arr)]
      /\ cap' = N /\ Return /\ UNCHANGED <<kind, build, size, contents>>
      /\ faults' = Deallocated(faults)
  BY <1>1, <1>2 DEF ReplaceInplace, GrownCapacity
<1>4. faults' = {}
  BY <1>1, <1>3, RightSize DEF Control
<1>5. /\ mem' = [arr |-> mem'.arr, heap |-> mem'.heap, fresh |-> mem'.fresh]
      /\ mem'.arr = Pointed(mem.arr) /\ mem'.heap = Null /\ mem'.fresh = Null
  BY <1>1, <1>2, <1>3 DEF Backed
<1>6. Sized(mem'.arr, N)
  <2>1. 0 \in Slots(N) /\ Raw \in Content /\ Sized(mem.arr, N)
    BY <1>1, Constants DEF Slots, Content, Backed
  <2> QED
    BY <1>5, <2>1, PutSlot, Constants DEF Pointed
<1>7. Data' = "arr"
  <2>1. InPlace(kind)' /\ cap' <= N
    BY <1>2, <1>3, Constants DEF InPlace
  <2> QED
    BY <2>1 DEF Data, DataOf, InPlace
<1>8. Backed'
  BY <1>2, <1>3, <1>5, <1>6, <1>7, Constants DEF Backed
<1>9. Kept(mem'[Data'], contents', 0, size', 0)
  <2>1. 0 .. size' - 1 = {}
    BY <1>2, <1>3
  <2> QED
    BY <2>1 DEF Kept
<1>10. Listed'
  BY <1>1, <1>3 DEF Listed
<1> QED
  BY <1>1, <1>3, <1>4, <1>5, <1>8, <1>9, <1>10, Returned

LEMMA RoomMadeStep ==
  ASSUME IInv, RoomMade
  PROVE  IInv'
<1> DEFINE f == Filled(mem[Data], call.pos, call.new)
           l == Inserted(contents, call.pos, call.new)
<1>1. Control /\ Backed /\ Listed /\ ShiftInv /\ call.op = "shift" /\ i = Count
  BY DEF IInv, RoomMade, Ending, LoopInv
<1>2. /\ size \in Nat /\ cap \in Nat /\ call.pos \in Nat /\ faults = {}
      /\ size = Len(contents) /\ contents \in Seq(Values)
      /\ call.new \in Seq(Values) /\ call.room = Len(call.new)
      /\ call.pos <= size /\ size + call.room <= cap /\ mem.fresh = Null
      /\ kind = "soa" => NextCapacity(size + call.room) = cap
  BY <1>1 DEF Control, Backed, Listed, ShiftInv, Inserting
<1>3. i = size - call.pos /\ call.pos + i = size /\ size - i = call.pos
  BY <1>1, <1>2, CountIs
<1>4. /\ Kept(mem[Data], contents, 0, call.pos, 0)
      /\ Kept(mem[Data], contents, call.pos, size, Len(call.new))
  BY <1>1, <1>2, <1>3 DEF ShiftInv
<1>5. Sized(mem[Data], cap)
  BY <1>1, DataIs
<1>6. call.pos \in 0 .. Len(contents) /\ Len(contents) + Len(call.new) <= cap
  BY <1>2
<1>7. Sized(f, cap) /\ Kept(f, l, 0, size + Len(call.new), 0)
  BY <1>2, <1>4, <1>5, <1>6, KeptFilled
<1>8. l \in Seq(Values) /\ Len(l) = size + Len(call.new)
  <2>1. contents \in Seq(Values) /\ call.new \in Seq(Values)
    BY <1>2
  <2>2. l \in Seq(Values) /\ Len(l) = Len(contents) + Len(call.new)
    BY <1>6, <2>1, InsertedList
  <2> QED
    BY <1>2, <2>2
<1>9. /\ mem' = [mem EXCEPT ![Data] = f] /\ cap' = cap
      /\ size' = size + Len(call.new) /\ contents' = l
      /\ Return /\ UNCHANGED <<kind, build, faults>>
  BY <1>2 DEF RoomMade
<1> HIDE DEF f, l
<1>10. size' \in Nat /\ size' <= cap
  BY <1>2, <1>9
<1>11. Backed' /\ Data' = Data /\ mem'[Data'] = f /\ mem'.fresh = Null
  <2>1. UNCHANGED <<kind, cap>>
    BY <1>9
  <2> QED
    BY <1>1, <1>2, <1>7, <1>9, <1>10, <2>1, SetData
<1>12. Listed'
  BY <1>8, <1>9 DEF Listed
<1>13. Kept(mem'[Data'], contents', 0, size', 0)
  BY <1>7, <1>9, <1>11
<1>14. faults' = {} /\ UNCHANGED <<kind, build>>
  BY <1>2, <1>9
<1> QED
  BY <1>1, <1>9, <1>11, <1>12, <1>13, <1>14, Returned

LEMMA RoomClosedStep ==
  ASSUME IInv, RoomClosed
  PROVE  IInv'
<1> DEFINE l == Removed(contents, call.pos, call.room)
           at == call.pos - call.room
<1>1. /\ Control /\ Backed /\ Listed /\ call.op \in {"close", "drop"} /\ i = Count
      /\ call.op = "close" => CloseInv
      /\ call.op = "drop" => DropInv
  BY DEF IInv, RoomClosed, Ending, LoopInv
<1>2. Removing
  BY <1>1 DEF CloseInv, DropInv
<1>3. /\ size \in Nat /\ cap \in Nat /\ size <= cap /\ call.pos \in Nat /\ call.room \in Nat
      /\ faults = {} /\ size = Len(contents) /\ contents \in Seq(Values)
      /\ call.room > 0 /\ call.room <= call.pos /\ call.pos <= size /\ mem.fresh = Null
      /\ Kept(mem[Data], contents, 0, at, 0)
  BY <1>1, <1>2 DEF Control, Backed, Listed, Removing
<1>4. /\ mem' = mem /\ cap' = cap /\ size' = size - call.room /\ contents' = l
      /\ Return /\ UNCHANGED <<kind, build, faults>>
  BY DEF RoomClosed
<1>5. /\ l \in Seq(Values) /\ Len(l) = size - call.room
      /\ \A k \in 1 .. size - call.room :
           l[k] = IF k <= at THEN contents[k] ELSE contents[k + call.room]
  <2>1. call.pos \in 0 .. Len(contents) /\ call.room \in 0 .. call.pos
    BY <1>3
  <2> QED
    BY <1>3, <2>1, RemovedList
<1>6. call.op = "close" => Kept(mem[Data], contents, call.pos, size, 0 - call.room)
  <2> SUFFICES ASSUME call.op = "close"
               PROVE  Kept(mem[Data], contents, call.pos, size, 0 - call.room)
    OBVIOUS
  <2>1. call.pos + i = size
    BY <1>1, <1>3, CountIs
  <2> QED
    BY <1>1, <2>1 DEF CloseInv
<1>7. call.op = "drop" => call.pos = size
  BY <1>1 DEF DropInv
<1>8. at \in Nat /\ at <= size /\ at = call.pos - call.room
  BY <1>3
<1> HIDE DEF l, at
<1>9. ASSUME NEW k \in 0 .. size - call.room - 1
      PROVE  k + 0 \in DOMAIN mem[Data] /\ mem[Data][k + 0] = l[k + 1]
  <2>1. k \in Nat /\ k + 0 = k /\ k + 1 \in 1 .. size - call.room
    BY <1>3
  <2>2. CASE k < at
    <3>1. k \in 0 .. at - 1 /\ k + 1 <= at
      BY <1>8, <2>1, <2>2
    <3>2. k \in DOMAIN mem[Data] /\ mem[Data][k] = contents[k + 1]
      BY <1>3, <2>1, <3>1 DEF Kept
    <3>3. l[k + 1] = contents[k + 1]
      BY <1>5, <2>1, <3>1
    <3> QED
      BY <2>1, <3>2, <3>3
  <2>3. CASE k >= at
    <3> DEFINE j == k + call.room
    <3>1. /\ j \in call.pos .. size - 1 /\ j + (0 - call.room) = k /\ ~(k + 1 <= at)
          /\ (k + 1) + call.room = j + 1
      <4>1. size \in Nat /\ call.pos \in Nat /\ call.room \in Nat /\ at \in Nat /\ k \in Nat
        BY <1>3, <1>8, <2>1
      <4>2. k <= size - call.room - 1
        BY <4>1
      <4>3. call.pos = at + call.room
        BY <1>8, <4>1
      <4>4. j \in call.pos .. size - 1
        BY <2>3, <4>1, <4>2, <4>3
      <4> QED
        BY <2>3, <4>1, <4>4
    <3> HIDE DEF j
    <3>2. call.op = "close"
      BY <1>1, <1>3, <1>7, <3>1
    <3>3. k \in DOMAIN mem[Data] /\ mem[Data][k] = contents[j + 1]
      BY <1>6, <3>1, <3>2 DEF Kept
    <3>4. l[k + 1] = contents[j + 1]
      BY <1>5, <2>1, <3>1
    <3> QED
      BY <2>1, <3>3, <3>4
  <2> QED
    BY <1>8, <2>1, <2>2, <2>3
<1>10. Data' = Data
  BY <1>4 DEF Data
<1>11. size' \in Nat /\ size' <= cap
  BY <1>3, <1>4
<1>12. Backed'
  BY <1>1, <1>4, <1>10, <1>11 DEF Backed, InPlace
<1>13. Listed'
  BY <1>4, <1>5 DEF Listed
<1>14. Kept(mem'[Data'], contents', 0, size', 0)
  BY <1>4, <1>9, <1>10 DEF Kept
<1>15. faults' = {} /\ UNCHANGED <<kind, build>> /\ mem'.fresh = Null
  BY <1>3, <1>4
<1> QED
  BY <1>1, <1>4, <1>12, <1>13, <1>14, <1>15, Returned

LEMMA DestroyStep ==
  ASSUME IInv, Destroy
  PROVE  IInv'
<1>1. Control /\ Backed /\ Listed /\ IdleInv
  BY DEF IInv, Destroy
<1>2. \A s \in Slots(size) : mem[Data][s] # Raw
  <2>1. ASSUME NEW s \in Slots(size)
        PROVE  mem[Data][s] # Raw
    <3>1. s \in Nat /\ 0 <= s /\ s < size /\ size \in Nat
      BY <1>1 DEF Slots, Backed
    <3>2. mem[Data][s] \in Values
      BY <1>1, <3>1, KeptHere DEF IdleInv
    <3> QED
      BY <3>2, Constants
  <2> QED
    BY <2>1
<1>3. faults' = {}
  BY <1>1, <1>2, RightSize DEF Destroy, Control
<1>4. /\ mem'.arr = Block(N) /\ mem'.heap = Null /\ mem'.fresh = Null
      /\ mem' = [arr |-> mem'.arr, heap |-> mem'.heap, fresh |-> mem'.fresh]
      /\ pc' = "done" /\ size' = 0 /\ contents' = <<>>
      /\ UNCHANGED <<kind, build, cap, call, i>>
  BY DEF Destroy
<1>5. UpTo(Null, 2 * MaxSize)
  BY NewBlock, Constants DEF UpTo
<1>6. Typed'
  BY <1>1, <1>4, <1>5, NewBlock, Constants DEF Typed, Backed, UpTo, Null, Block, Slots
<1> QED
  BY <1>1, <1>3, <1>4, <1>6 DEF IInv, Control

-----------------------------------------------------------------------------
(* The theorems.                                                           *)

LEMMA NoPagedRoom ==
  ASSUME Contiguous, IInv, NEW pos, NEW new, MakePagedRoom(pos, new)
  PROVE  FALSE
BY DEF Contiguous, IInv, Control, MakePagedRoom

LEMMA StepInv ==
  ASSUME Contiguous, IInv, [Next]_vars
  PROVE  IInv'
<1>1. CASE Next
  <2>1. ASSUME NEW c \in 0 .. IF kind = "paged" THEN MaxPaged ELSE MaxSize, Reserve(c)
        PROVE  IInv'
    <3>1. kind # "paged"
      BY DEF Contiguous, IInv, Control
    <3> QED
      BY <2>1, <3>1, ReserveStep
  <2>2. ASSUME NEW pos \in 0 .. MaxSize, NEW n \in 1 .. MaxSize,
               NEW new \in [1 .. n -> Values], MakeRoom(pos, new)
        PROVE  IInv'
    <3>1. pos \in Nat /\ n \in Nat
      BY Constants
    <3> QED
      BY <2>2, <3>1, MakeRoomStep
  <2>3. ASSUME NEW pos \in 0 .. MaxSize, NEW less \in 0 .. MaxSize, DestroyRoom(pos, less)
        PROVE  IInv'
    <3>1. pos \in Nat /\ less \in Nat
      BY Constants
    <3> QED
      BY <2>3, <3>1, DestroyRoomStep
  <2>4. CASE MoveOut \/ Shift \/ Close \/ Drop
    BY <2>4, MoveOutStep, ShiftStep, CloseStep, DropStep
  <2>5. CASE Replace \/ ReplaceInplace \/ RoomMade \/ RoomClosed \/ Destroy
    BY <2>5, ReplaceStep, ReplaceInplaceStep, RoomMadeStep, RoomClosedStep, DestroyStep
  <2> QED
    BY <1>1, <2>1, <2>2, <2>3, <2>4, <2>5, NoPagedRoom DEF Next
<1>2. CASE UNCHANGED vars
  BY <1>2 DEF vars, IInv, Control, Typed, Backed, Listed, IdleInv, LoopInv, ReserveInv,
              InplaceInv, GrowInv, ShiftInv, CloseInv, DropInv, Removing, Inserting,
              FreshInv, Data, NextCapacity, InPlace, Null, Block, Slots
<1> QED
  BY <1>1, <1>2

(* The invariant that everything below follows from: the size of each      *)
(* block, and for each loop what has arrived and what is still to move.    *)
THEOREM Inductive ==
  ASSUME Contiguous
  PROVE  Spec => []IInv
<1>1. Init => IInv
  BY InitInv
<1>2. IInv /\ [Next]_vars => IInv'
  BY StepInv
<1> QED
  BY <1>1, <1>2, PTL DEF Spec

(* Every variable holds what the code can store in it, and no block is     *)
(* larger than twice what a client has asked for, whatever the policy by   *)
(* which the storage grows.                                                *)
THEOREM TypeCorrect ==
  ASSUME Contiguous
  PROVE  Spec => []TypeOK
<1>1. IInv => TypeOK
  <2> SUFFICES ASSUME IInv
               PROVE  TypeOK
    OBVIOUS
  <2>1. Typed /\ Control
    BY InvTyped DEF IInv
  <2>2. IsBlock(mem.heap) /\ IsBlock(mem.fresh)
    BY <2>1 DEF Typed, Control, Contiguous, UpTo, Sized, IsBlock
  <2> QED
    BY <2>1, <2>2 DEF Typed, Control, Sized, TypeOK
<1> QED
  BY <1>1, Inductive, PTL

(* Whatever the kind, the sizes and the order of the calls, insertions,    *)
(* removals, reserves and growths keep the container's objects in their    *)
(* order.                                                                  *)
THEOREM ContentsAlwaysKept ==
  ASSUME Contiguous
  PROVE  Spec => []ContentsKept
<1>1. IInv => ContentsKept
  <2> SUFFICES ASSUME IInv, pc = "idle"
               PROVE  /\ size = Len(contents)
                      /\ \A k \in Slots(size) :
                           k \in DOMAIN mem[Data] /\ mem[Data][k] = contents[k + 1]
    BY DEF ContentsKept
  <2>1. Kept(mem[Data], contents, 0, size, 0) /\ size = Len(contents) /\ size \in Nat
    BY DEF IInv, IdleInv, Listed, Backed
  <2>2. \A k \in Slots(size) : k \in 0 .. size - 1 /\ k + 0 = k
    BY <2>1 DEF Slots
  <2> QED
    BY <2>1, <2>2 DEF Kept
<1> QED
  BY <1>1, Inductive, PTL

(* Between calls there is memory for the whole of capacity().              *)
THEOREM CapacityAlwaysBacked ==
  ASSUME Contiguous
  PROVE  Spec => []CapacityBacked
<1>1. IInv => CapacityBacked
  <2> SUFFICES ASSUME IInv, pc = "idle"
               PROVE  mem[Data] \in [Slots(cap) -> Content] /\ size <= cap
    BY DEF CapacityBacked
  <2>1. Backed /\ Control
    BY DEF IInv
  <2> QED
    BY <2>1, DataIs DEF Sized, Backed
<1> QED
  BY <1>1, Inductive, PTL

(* No object is moved from, assigned to or destroyed where there is none,  *)
(* in no step of any loop, and each block is freed with the size it has.   *)
THEOREM NothingUndefined ==
  ASSUME Contiguous
  PROVE  Spec => []NoUndefined
<1>1. IInv => NoUndefined
  BY DEF IInv, Control, NoUndefined
<1> QED
  BY <1>1, Inductive, PTL

=============================================================================
