------------------------------- MODULE Strings -------------------------------
(***************************************************************************)
(* basic_string of string.hpp: a string whose characters are in an array   *)
(* inside the object while they fit there, and in a block of memory after. *)
(*                                                                         *)
(* Its functions are operators on the string and the heap.  What a         *)
(* function leaves behind the end of a string is not kept, but for two     *)
(* facts: whether the string ends in a NUL, and whether the bytes that a   *)
(* short string's array shares with the size of a long one are zero.       *)
(*                                                                         *)
(* A definition introduced by "Variant:" is no part of the specification:  *)
(* it is the definition that follows it as a slip in the code would have   *)
(* it.                                                                     *)
(***************************************************************************)
EXTENDS Integers, Sequences, FiniteSets

CONSTANTS
  Chars,     \* the characters that clients write
  NUL,       \* what ends a C string
  Junk,      \* what is read from memory that was freed
  Slash,     \* the separator of paths
  ArrSize,   \* the size of the array of a short string
  Blocks,    \* the addresses that allocate() may return
  Short      \* no block: the string is short

ASSUME StringAssumption ==
  /\ Slash \in Chars /\ NUL \notin Chars /\ Junk \notin Chars
  /\ ArrSize \in Nat \ {0}
  /\ Short \notin Blocks

(* There is memory left: allocate() aborts where there is none.            *)
ASSUME BlocksAssumption == \A x, y \in Blocks \cup {Short} : Blocks \ {x, y} # {}

(* blk: the block of a long string; cap: capacity(); ended: the text is    *)
(* followed by a NUL; blank: the string is short, and so far its array     *)
(* held nothing but NULs; sized: size() is the length of text.             *)
Strings == [blk : Blocks \cup {Short}, cap : Nat,
            text : Seq(Chars \cup {NUL, Junk}),
            ended : BOOLEAN, blank : BOOLEAN, sized : BOOLEAN]

Empty == [blk |-> Short, cap |-> ArrSize, text |-> <<>>,
          ended |-> TRUE, blank |-> TRUE, sized |-> TRUE]

IsLong(s) == s.blk # Short

-----------------------------------------------------------------------------
(* The heap: the blocks allocated, with their sizes.                       *)
Freed(h, b) == [x \in DOMAIN h \ {b} |-> h[x]]
Allocated(h, b, n) == [x \in DOMAIN h \cup {b} |-> IF x = b THEN n ELSE h[x]]

(* The size before which a growing string does not stop: 1.618f * size.    *)
Phi(n) == (1618 * n) \div 1000

Larger(m, n) == IF m > n THEN m ELSE n

(* What a function returns.                                                *)
Of(s, h) == [s |-> s, h |-> h]

(* A string whose size, terminator and characters have been written.       *)
Written(r, t) ==
  Of([blk |-> r.s.blk, cap |-> r.s.cap, text |-> t, ended |-> TRUE,
      blank |-> r.s.blank /\ \A i \in 1..Len(t) : t[i] = NUL, sized |-> TRUE],
     r.h)

-----------------------------------------------------------------------------
(* Variant: the block of the string is not deallocated.                    *)
ResizeBufKeeping(s, h, cap) ==
  LET b == CHOOSE x \in Blocks : x \notin DOMAIN h
  IN  Of([blk |-> b, cap |-> cap, text |-> s.text, ended |-> TRUE,
          blank |-> FALSE, sized |-> IsLong(s) \/ s.blank],
         Allocated(h, b, cap))

(* _resizebuf() to a block of cap > ArrSize.  The flag that makes a string *)
(* long is set in what then is the size of a long string, and holds the    *)
(* size and the first characters of the short one; and an empty long       *)
(* string's block is not deallocated, nor does the new one begin with NUL. *)
ResizeBuf(s, h, cap) ==
  LET b == CHOOSE x \in Blocks : x \notin DOMAIN h
      emptied == IsLong(s) /\ s.text = <<>>
  IN  Of([blk |-> b, cap |-> cap, text |-> s.text, ended |-> ~emptied,
          blank |-> FALSE, sized |-> IsLong(s) \/ s.blank],
         Allocated(IF emptied THEN h ELSE Freed(h, s.blk), b, cap))

Wanted(s, n) == Larger(n, Phi(Len(s.text)))

(* reserve(n), with _reserve().                                            *)
Reserve(s, h, n) ==
  IF Wanted(s, n) > s.cap THEN ResizeBuf(s, h, Wanted(s, n)) ELSE Of(s, h)

(* resize(n), with _resize() and _set_size().                              *)
Resize(s, h, n) ==
  Written(Reserve(s, h, n + 1),
          [i \in 1..n |-> IF i <= Len(s.text) THEN s.text[i] ELSE NUL])

(* push_back(c), with grow(1).                                             *)
PushBack(s, h, c) == Written(Reserve(s, h, Len(s.text) + 2), Append(s.text, c))

Clear(s, h) == Written(Of(s, h), <<>>)

(* shrink_to_fit(): back to the array, or to a block that just fits.       *)
ShrinkToFit(s, h) ==
  CASE IsLong(s) /\ Len(s.text) < ArrSize ->
         Of([blk |-> Short, cap |-> ArrSize, text |-> s.text, ended |-> TRUE,
             blank |-> \A i \in 1..Len(s.text) : s.text[i] = NUL, sized |-> TRUE],
            Freed(h, s.blk))
    [] IsLong(s) /\ Len(s.text) >= ArrSize /\ s.cap > Len(s.text) + 1 ->
         ResizeBuf(s, h, Len(s.text) + 1)
    [] OTHER -> Of(s, h)

(* assign(p, n), and the assignments of strings and literals.              *)
Assign(s, h, p) == Written(Resize(s, h, Len(p)), p)

(* assign(basic_string &&): a block changes hands, characters in an array  *)
(* are copied.                                                             *)
MoveTo(s, h, that) ==
  IF IsLong(that) THEN Of(that, Freed(h, s.blk)) ELSE Written(Of(s, h), that.text)

MovedFrom(h, that) == IF IsLong(that) THEN Empty ELSE Written(Of(that, h), <<>>).s

-----------------------------------------------------------------------------
(* The functions of _str_crtp that write.                                  *)

AppendTo(s, h, p) == Written(Resize(s, h, Len(s.text) + Len(p)), s.text \o p)

(* append() of the string itself: the characters are read where they were  *)
(* before the string grew.                                                 *)
AppendSelf(s, h) ==
  LET r == Resize(s, h, 2 * Len(s.text))
      read == IF r.s.blk = s.blk THEN s.text ELSE [i \in 1..Len(s.text) |-> Junk]
  IN  Written(r, s.text \o read)

Prepend(s, h, p) == Written(Resize(s, h, Len(s.text) + Len(p)), p \o s.text)

(* The text without the separators that it begins or ends with: the        *)
(* positions at or after, and at or before, some other character.          *)
SkipLeft(t, c) ==
  LET kept == {i \in 1..Len(t) : \E k \in 1..i : t[k] # c}
  IN  SubSeq(t, Len(t) - Cardinality(kept) + 1, Len(t))
SkipRight(t, c) ==
  LET kept == {i \in 1..Len(t) : \E k \in i..Len(t) : t[k] # c}
  IN  SubSeq(t, 1, Cardinality(kept))

(* pushr(p), which joins with a slash.                                     *)
PushR(s, h, p) ==
  LET head == SkipRight(s.text, Slash)
      tail == SkipLeft(p, Slash)
  IN  Written(Resize(s, h, Len(head) + 1 + Len(tail)), head \o <<Slash>> \o tail)

(* Variant: the text is not moved before the resize.                       *)
PushLLate(s, h, p) ==
  LET head == SkipRight(p, Slash)
      tail == SkipLeft(s.text, Slash)
      size == Len(head) + 1 + Len(tail)
      left == size - (Len(s.text) - Len(tail))
  IN  Written(Resize(s, h, size),
              head \o <<Slash>> \o [i \in 1..Len(tail) |-> IF i <= left THEN tail[i] ELSE NUL])

(* pushl(p).  Where the string gets no longer, its text goes to the front  *)
(* first, or the resize would cut its end.                                 *)
PushL(s, h, p) ==
  LET head  == SkipRight(p, Slash)
      tail  == SkipLeft(s.text, Slash)
      size  == Len(head) + 1 + Len(tail)
      early == Len(s.text) >= size
      skip  == IF early THEN 0 ELSE Len(s.text) - Len(tail)
      moved == [i \in 1..Len(s.text) |->
                  IF early /\ i <= Len(tail) THEN tail[i] ELSE s.text[i]]
      r == Resize([s EXCEPT !.text = moved], h, size)
  IN  Written(r, head \o <<Slash>> \o SubSeq(r.s.text, skip + 1, skip + Len(tail)))

(* What is left of a text without some characters: its k-th is where there *)
(* are k of them up to there.                                              *)
Without(t, gone) ==
  LET left == {i \in 1..Len(t) : t[i] \notin gone}
      Nth(k) == CHOOSE i \in left : Cardinality({j \in left : j <= i}) = k
  IN  [k \in 1..Cardinality(left) |-> t[Nth(k)]]

(* erase(): the characters go one by one, and the first to go resizes the  *)
(* string as far as the others need.                                       *)
Erase(s, h, gone) ==
  IF \A i \in 1..Len(s.text) : s.text[i] \notin gone THEN Of(s, h)
  ELSE Written(Resize(s, h, Len(s.text) - 1), Without(s.text, gone))

=============================================================================
