----------------------------- MODULE StringStream -----------------------------
(***************************************************************************)
(* sstream of sstream.hpp and sstream.def.hpp: a stream that writes to and *)
(* reads from a string of its own, and a client with a string that it      *)
(* edits, makes streams of, writes to them and reads from them.            *)
(*                                                                         *)
(* The string of an open stream is always resized to its capacity: size()  *)
(* says nothing about what was written, and the two positions do.          *)
(***************************************************************************)
EXTENDS Strings

CONSTANTS
  Pieces,    \* the texts that clients pass
  Space,     \* the white space among Chars
  Digit,     \* the digit among Chars
  MaxLine,   \* bound: the client's string is no longer
  MaxShared, \* bound: nor, while there is a stream, longer than this
  MaxText,   \* bound: no more is written to a stream
  Careful    \* whether clients avoid what the code does not support

ASSUME StreamAssumption ==
  /\ Space \in Chars /\ Digit \in Chars /\ Space # Digit
  /\ Pieces \subseteq Seq(Chars)
  /\ MaxLine \in Nat /\ MaxShared \in Nat /\ MaxText \in Nat
  /\ Careful \in BOOLEAN

VARIABLES
  str,     \* the client's string
  ss,      \* the stream: its string, positions and flags
  open,    \* whether the stream exists
  heap,    \* the blocks allocated, with their sizes
  halted,  \* an error was raised: the program has aborted
  line,    \* what the client's string should be
  said,    \* what should have been written, up to the put position
  got      \* where the next read should begin

vars == <<str, ss, open, heap, halted, line, said, got>>

Streams == [s : Strings, put : Nat, get : Nat,
            eofg : BOOLEAN, fail : BOOLEAN, ignore : BOOLEAN]

NoStream == [s |-> Empty, put |-> 0, get |-> 0,
             eofg |-> FALSE, fail |-> FALSE, ignore |-> FALSE]

Init ==
  /\ str = Empty /\ ss = NoStream /\ open = FALSE /\ heap = <<>>
  /\ halted = FALSE /\ line = <<>> /\ said = <<>> /\ got = 0

-----------------------------------------------------------------------------
(* What careful clients see to.                                            *)

(* A long string is not emptied and then made to grow.                     *)
MayGrow(s, n) == Careful /\ IsLong(s) /\ s.text = <<>> => n + 1 <= s.cap

(* reserve() does not make a short string long that has been written to.   *)
MayReserve(s, n) ==
  Careful /\ Wanted(s, n) > s.cap => IF IsLong(s) THEN s.text # <<>> ELSE s.blank

(* A string is not appended to itself when that makes it move.             *)
MayAppendSelf(s) == Careful => Wanted(s, 2 * Len(s.text) + 1) <= s.cap

(* A stream is made of a string that it may reserve and resize.            *)
MayStream(s) ==
  /\ MayReserve(s, s.cap)
  /\ Careful /\ IsLong(s) => s.text # <<>>

(* The put position is not moved before the get position.                  *)
MaySeekP(p) == Careful => ss.get <= p

(* What is in the memory of a string that ends in a NUL.                   *)
Bytes(s) == Append(s.text, NUL)

(* Words are read while a NUL follows the text, and numbers inside the     *)
(* string.                                                                 *)
MayReadWord == Careful => ss.put < ss.s.cap /\ Bytes(ss.s)[ss.put + 1] = NUL
MayScan == Careful => ss.get < ss.s.cap

-----------------------------------------------------------------------------
(* The client's string.                                                    *)

(* A call changes the string to r.s and the heap to r.h.                   *)
Edit(r, meant) ==
  /\ ~halted
  /\ Len(meant) <= IF open THEN MaxShared ELSE MaxLine
  /\ str' = r.s /\ heap' = r.h /\ line' = meant
  /\ UNCHANGED <<ss, open, halted, said, got>>

AssignPiece == \E p \in Pieces :
  MayGrow(str, Len(p)) /\ Edit(Assign(str, heap, p), p)

AppendPiece == \E p \in Pieces :
  /\ MayGrow(str, Len(line) + Len(p))
  /\ Edit(AppendTo(str, heap, p), line \o p)

Double == MayAppendSelf(str) /\ Edit(AppendSelf(str, heap), line \o line)

PrependPiece == \E p \in Pieces :
  /\ MayGrow(str, Len(line) + Len(p))
  /\ Edit(Prepend(str, heap, p), p \o line)

PushChar == \E c \in Chars :
  MayGrow(str, Len(line) + 1) /\ Edit(PushBack(str, heap, c), Append(line, c))

(* pushr() and pushl() join two texts with one slash, whatever slashes they *)
(* meet with.                                                              *)
JoinRight == \E p \in Pieces :
  LET meant == SkipRight(line, Slash) \o <<Slash>> \o SkipLeft(p, Slash)
  IN  MayGrow(str, Len(meant)) /\ Edit(PushR(str, heap, p), meant)

JoinLeft == \E p \in Pieces :
  LET meant == SkipRight(p, Slash) \o <<Slash>> \o SkipLeft(line, Slash)
  IN  MayGrow(str, Len(meant)) /\ Edit(PushL(str, heap, p), meant)

EraseChar == \E c \in Chars :
  Edit(Erase(str, heap, {c}), Without(line, {c}))

ResizeLine == \E n \in 0..MaxLine :
  /\ MayGrow(str, n)
  /\ Edit(Resize(str, heap, n),
          [i \in 1..n |-> IF i <= Len(line) THEN line[i] ELSE NUL])

ReserveLine == \E n \in {ArrSize, ArrSize + 1} :
  MayReserve(str, n) /\ Edit(Reserve(str, heap, n), line)

ClearLine == Edit(Clear(str, heap), <<>>)

Shrink == Edit(ShrinkToFit(str, heap), line)

-----------------------------------------------------------------------------
(* Variant: the string is not resized to what is reserved.                 *)
PrepareUnsized(s, h, n) == IF n < Len(s.text) THEN Of(s, h) ELSE Reserve(s, h, n)

(* The stream's string: reserve() and growto_(), which both resize to the  *)
(* capacity.  With the size of a short string in the way, the resize asks  *)
(* for more memory than there is.                                          *)
Prepare(s, h, n) ==
  IF n < Len(s.text) THEN Of(s, h)
  ELSE LET r == Reserve(s, h, n)
       IN  IF r.s.sized THEN Resize(r.s, r.h, r.s.cap) ELSE r

(* The constructor, of a copy of the string or of the string itself.       *)
Open(moving) ==
  LET own == IF moving THEN MoveTo(Empty, heap, str) ELSE Assign(Empty, heap, str.text)
      r   == Prepare(own.s, own.h, own.s.cap)
  IN  /\ ~halted /\ ~open /\ Len(line) <= MaxShared /\ str.cap <= MaxShared + 1
      /\ MayStream(own.s)
      /\ ss' = [NoStream EXCEPT !.s = r.s]
      /\ heap' = r.h
      /\ halted' = ~r.s.sized
      /\ str' = IF moving THEN MovedFrom(heap, str) ELSE str
      /\ line' = IF moving THEN <<>> ELSE line
      /\ open' = TRUE
      /\ UNCHANGED <<said, got>>

Close ==
  /\ ~halted /\ open
  /\ heap' = Freed(heap, ss.s.blk)
  /\ ss' = NoStream /\ open' = FALSE /\ said' = <<>> /\ got' = 0
  /\ UNCHANGED <<str, halted, line>>

(* The bytes from position at on are overwritten; what comes after the last *)
(* is its terminator.                                                      *)
Overlay(t, at, p) ==
  [i \in 1..Len(t) |-> IF i \in at + 1..at + Len(p) THEN p[i - at] ELSE t[i]]

(* Variant: the string grows by what is missing at its end, so that the    *)
(* terminator may not fit.                                                 *)
PutTight(p) ==
  LET need == ss.put + Len(p)
      r == IF need > ss.s.cap THEN Prepare(ss.s, heap, need) ELSE Of(ss.s, heap)
  IN  /\ ss' = [s |-> [r.s EXCEPT !.text = Overlay(r.s.text, ss.put, Append(p, NUL)),
                                  !.ended = @ /\ need < r.s.cap],
                put |-> ss.put + Len(p), get |-> ss.get,
                eofg |-> ss.eofg, fail |-> ss.fail, ignore |-> ss.ignore]
      /\ heap' = r.h

(* write_() and vprintf_().  What vprintf_() prints before it grows the    *)
(* string is printed again after.  Formats are good ones: the failure that *)
(* vprintf_() has for the others is left out.                              *)
Put(p) ==
  LET need == ss.put + Len(p) + 1
      r == IF need > ss.s.cap THEN Prepare(ss.s, heap, need) ELSE Of(ss.s, heap)
  IN  /\ ss' = [s |-> [r.s EXCEPT !.text = Overlay(r.s.text, ss.put, Append(p, NUL))],
                put |-> ss.put + Len(p), get |-> ss.get,
                eofg |-> ss.eofg, fail |-> ss.fail, ignore |-> ss.ignore]
      /\ heap' = r.h

(* write() writes nothing where there is nothing to write; printf() ends   *)
(* the text in any case.                                                   *)
WritePiece == \E p \in Pieces \cup {str.text, <<>>} :
  /\ ~halted /\ open /\ ss.put + Len(p) <= MaxText
  /\ \E formatted \in BOOLEAN :
       IF p = <<>> /\ ~formatted THEN UNCHANGED <<ss, heap>> ELSE Put(p)
  /\ said' = said \o p
  /\ UNCHANGED <<str, open, halted, line, got>>

(* reserve(n).                                                             *)
ReserveStream ==
  LET r == Prepare(ss.s, heap, ss.s.cap + 1)
  IN  /\ ~halted /\ open /\ ss.s.cap <= MaxText
      /\ ss' = [ss EXCEPT !.s = r.s] /\ heap' = r.h
      /\ UNCHANGED <<str, open, halted, line, said, got>>

-----------------------------------------------------------------------------
(* Reading.                                                                *)

Remg == ss.put - ss.get

(* errg_() and errf_(): a flag, and an error that aborts unless errors are *)
(* ignored.                                                                *)
ErrG == IF ss.ignore THEN ss' = [ss EXCEPT !.eofg = TRUE] /\ UNCHANGED halted
                     ELSE halted' = TRUE /\ UNCHANGED ss
ErrF == IF ss.ignore THEN ss' = [ss EXCEPT !.fail = TRUE] /\ UNCHANGED halted
                     ELSE halted' = TRUE /\ UNCHANGED ss

(* read_() into the client's string, which has the size that is wanted.    *)
Read ==
  LET n == Len(str.text)
      t == SubSeq(Bytes(ss.s), ss.get + 1, ss.get + n)
  IN  /\ ~halted /\ open
      /\ \/ /\ n > Remg
            /\ ErrG /\ UNCHANGED <<str, line, got>>
         \/ /\ n <= Remg /\ ss.eofg
            /\ UNCHANGED <<ss, halted, str, line, got>>
         \/ /\ n <= Remg /\ ~ss.eofg
            /\ ss' = [ss EXCEPT !.get = @ + n] /\ got' = got + n
            /\ UNCHANGED halted
            /\ str' = [blk |-> str.blk, cap |-> str.cap, text |-> t, ended |-> str.ended,
                       blank |-> str.blank /\ \A i \in 1..n : t[i] = NUL,
                       sized |-> str.sized]
            /\ line' = SubSeq(said, got + 1, got + n)
      /\ UNCHANGED <<open, heap, said>>

(* How many characters of a class the text has from a position on.         *)
RunAt(t, at, class) ==
  Cardinality({n \in at + 1..Len(t) : \A i \in at + 1..n : t[i] \in class})

Least(m, n) == IF m < n THEN m ELSE n

(* operator>> of a string: the next word.  Where a flag is set, peek()     *)
(* returns NUL, and the word is empty.  White space that runs on past the  *)
(* put position fails the check of advg(), which is left out: no text of a *)
(* careful client runs on there.                                           *)
Word ==
  LET t     == Bytes(ss.s)
      skip  == RunAt(t, ss.get, {Space})
      size  == Least(RunAt(t, ss.get + skip, Chars \ {Space}), Remg - skip)
      first == RunAt(said, got, {Space})
      last  == got + first + RunAt(said, got + first, Chars \ {Space})
  IN  /\ ~halted /\ open /\ MayReadWord
      /\ \/ /\ ss.eofg \/ ss.fail
            /\ ErrG
            /\ MayGrow(str, 0)
            /\ str' = Resize(str, heap, 0).s /\ heap' = Resize(str, heap, 0).h
            /\ line' = <<>> /\ UNCHANGED got
         \/ /\ ~ss.eofg /\ ~ss.fail
            /\ size <= MaxShared /\ MayGrow(str, size)
            /\ LET r == Resize(str, heap, size)
               IN  /\ str' = Written(r, SubSeq(t, ss.get + skip + 1, ss.get + skip + size)).s
                   /\ heap' = r.h
            /\ ss' = [ss EXCEPT !.get = @ + skip + size]
            /\ line' = SubSeq(said, got + first + 1, last)
            /\ got' = last
            /\ UNCHANGED halted
      /\ UNCHANGED <<open, said>>

(* operator>> of a number: scanf____().  The text is read up to its end,   *)
(* wherever the put position is.                                           *)
Number ==
  LET skip   == RunAt(Bytes(ss.s), ss.get, {Space})
      digits == RunAt(Bytes(ss.s), ss.get + skip, {Digit})
      first  == RunAt(said, got, {Space})
  IN  /\ ~halted /\ open /\ MayScan
      /\ \/ digits = 0 /\ ErrF /\ UNCHANGED got
         \/ digits > 0 /\ skip + digits > Remg /\ ErrG /\ UNCHANGED got
         \/ /\ digits > 0 /\ skip + digits <= Remg
            /\ ss' = [ss EXCEPT !.get = @ + skip + digits]
            /\ got' = got + first + RunAt(said, got + first, {Digit})
            /\ UNCHANGED halted
      /\ UNCHANGED <<str, open, heap, line, said>>

(* peek().                                                                 *)
Peek ==
  /\ ~halted /\ open
  /\ IF 1 > Remg \/ ss.eofg \/ ss.fail THEN ErrG ELSE UNCHANGED <<ss, halted>>
  /\ UNCHANGED <<str, open, heap, line, said, got>>

-----------------------------------------------------------------------------
(* Positions and flags.                                                    *)

(* seekp(p) and advp(p - tellp()): the text up to the new position counts  *)
(* as written.                                                             *)
SeekP == \E p \in 0..MaxText :
  /\ ~halted /\ open /\ p <= ss.s.cap /\ MaySeekP(p)
  /\ ss' = [ss EXCEPT !.put = p]
  /\ said' = IF p <= Len(said) THEN SubSeq(said, 1, p)
             ELSE said \o SubSeq(Bytes(ss.s), Len(said) + 1, p)
  /\ UNCHANGED <<str, open, heap, halted, line, got>>

SeekG == \E g \in 0..MaxText :
  /\ ~halted /\ open /\ g <= ss.put
  /\ ss' = [ss EXCEPT !.get = g] /\ got' = g
  /\ UNCHANGED <<str, open, heap, halted, line, said>>

Reset ==
  /\ ~halted /\ open
  /\ ss' = [s |-> ss.s, put |-> 0, get |-> 0,
            eofg |-> FALSE, fail |-> FALSE, ignore |-> ss.ignore]
  /\ said' = <<>> /\ got' = 0
  /\ UNCHANGED <<str, open, heap, halted, line>>

ClearErr ==
  /\ ~halted /\ open
  /\ ss' = [s |-> ss.s, put |-> ss.put, get |-> ss.get,
            eofg |-> FALSE, fail |-> FALSE, ignore |-> ss.ignore]
  /\ UNCHANGED <<str, open, heap, halted, line, said, got>>

(* ignore_err(true); no client turns it off again.                         *)
IgnoreErr ==
  /\ ~halted /\ open
  /\ ss' = [ss EXCEPT !.ignore = TRUE]
  /\ UNCHANGED <<str, open, heap, halted, line, said, got>>

Next ==
  \/ AssignPiece \/ AppendPiece \/ Double \/ PrependPiece \/ PushChar
  \/ JoinRight \/ JoinLeft \/ EraseChar
  \/ ResizeLine \/ ReserveLine \/ ClearLine \/ Shrink
  \/ \E moving \in BOOLEAN : Open(moving)
  \/ Close \/ WritePiece \/ ReserveStream
  \/ Read \/ Word \/ Number \/ Peek
  \/ SeekP \/ SeekG \/ Reset \/ ClearErr \/ IgnoreErr

Spec == Init /\ [][Next]_vars

-----------------------------------------------------------------------------
(* The positions are in order and inside the text, the text of an open     *)
(* stream leaves room for one NUL, and sizes are capacities of blocks.     *)
TypeOK ==
  /\ str \in Strings /\ ss \in Streams
  /\ open \in BOOLEAN /\ halted \in BOOLEAN
  /\ Len(str.text) < str.cap /\ Len(ss.s.text) < ss.s.cap
  /\ ss.get <= ss.put /\ ss.put <= ss.s.cap
  /\ open /\ ~halted => Len(ss.s.text) + 1 = ss.s.cap

(* Every block belongs to one string, which knows its size: none is lost   *)
(* or freed twice when strings grow, shrink, are moved or end.             *)
BlocksOwned ==
  /\ DOMAIN heap = {str.blk, ss.s.blk} \ {Short}
  /\ IsLong(str) => heap[str.blk] = str.cap /\ str.blk # ss.s.blk
  /\ IsLong(ss.s) => heap[ss.s.blk] = ss.s.cap

(* The string holds what the calls should have made it, as a C string,     *)
(* wherever its characters have been moved: also what was read into it.    *)
StringKept == str.sized /\ str.ended /\ str.text = line

(* A stream holds what was written to it up to the put position, however   *)
(* often its string has been replaced, and reads go on where they should.  *)
StreamKept ==
  /\ ss.s.sized /\ ss.s.ended
  /\ said = SubSeq(Bytes(ss.s), 1, ss.put)
  /\ got = ss.get

=============================================================================
