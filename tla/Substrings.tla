------------------------------ MODULE Substrings ------------------------------
(***************************************************************************)
(* The functions of _str_crtp (string.hpp) that look for characters in a   *)
(* string and that return parts of it.                                     *)
(*                                                                         *)
(* A string is a sequence of characters; a part of it is a range of        *)
(* positions [at, size], at counted from 0 as in the code, for the code    *)
(* compares where parts are and not only what they hold.                   *)
(*                                                                         *)
(* A definition introduced by "Variant:" is no part of the specification:  *)
(* it is the definition that follows it as a slip in the code would have   *)
(* it.                                                                     *)
(***************************************************************************)
EXTENDS Integers, SequencesExt

NPos == -1

(* The first or last position that a loop over positions returns.          *)
FirstOf(S) == IF S = {} THEN NPos ELSE Min(S)
LastOf(S)  == IF S = {} THEN NPos ELSE Max(S)

(* The string itself as a part, and the characters of a part.              *)
Whole(t) == [at |-> 0, size |-> Len(t)]
Up(t, r) == SubSeq(t, r.at + 1, r.at + r.size)

(* substr(first, len) of a part.                                           *)
Substr(r, first, len) == [at |-> r.at + first, size |-> len]
SubstrFrom(r, first) == Substr(r, first, r.size - first)

-----------------------------------------------------------------------------
(* Positions are counted from the start of the part that is searched.      *)

Places(t, r, c, is) == {i \in 0..r.size - 1 : (t[r.at + i + 1] = c) = is}

FindFirstOf(t, r, c, pos)    == FirstOf({i \in Places(t, r, c, TRUE) : i >= pos})
FindFirstNotOf(t, r, c, pos) == FirstOf({i \in Places(t, r, c, FALSE) : i >= pos})
FindLastOf(t, r, c, pos)     == LastOf({i \in Places(t, r, c, TRUE) : i <= pos})
FindLastNotOf(t, r, c, pos)  == LastOf({i \in Places(t, r, c, FALSE) : i <= pos})

BeginsWith(t, r, c) == r.size > 0 /\ t[r.at + 1] = c
EndsWith(t, r, c)   == r.size > 0 /\ t[r.at + r.size] = c

Count(t, r, c) == Cardinality(Places(t, r, c, TRUE))

(* triml(c) and trimr(c).                                                  *)
TrimL(t, r, c) ==
  LET pos == FindFirstNotOf(t, r, c, 0)
  IN  IF r.size = 0 THEN r
      ELSE IF pos # NPos THEN SubstrFrom(r, pos) ELSE Substr(r, 0, 0)
TrimR(t, r, c) ==
  LET pos == FindLastNotOf(t, r, c, r.size - 1)
  IN  IF r.size = 0 THEN r
      ELSE IF pos # NPos THEN Substr(r, 0, pos + 1) ELSE Substr(r, 0, 0)

(* trim(c), which finds both ends in the whole string.                     *)
Trim(t, r, c) ==
  LET b == FindFirstNotOf(t, r, c, 0)
      e == FindLastNotOf(t, r, c, r.size - 1)
  IN  IF r.size = 0 THEN r
      ELSE IF b = NPos THEN Substr(r, 0, 0) ELSE Substr(r, b, e - b + 1)

(* compll(ss) and complr(ss): what is left and right of a part.            *)
Compll(r, ss) ==
  IF ss.at >= r.at /\ ss.at <= r.at + r.size THEN Substr(r, 0, ss.at - r.at)
  ELSE Substr(r, 0, 0)
Complr(r, ss) ==
  LET end == ss.at + ss.size
  IN  IF end >= r.at /\ end <= r.at + r.size
      THEN Substr(r, end - r.at, r.at + r.size - end)
      ELSE Substr(r, 0, 0)

-----------------------------------------------------------------------------
(* Variant: a string that ends with a separator is exhausted there.        *)
NextSplitShort(t, c, pos) ==
  LET sz == Len(t)
      i == FindFirstOf(t, Whole(t), c, pos)
  IN  IF pos < sz /\ i # NPos /\ i + 1 < sz
      THEN [out |-> [at |-> pos, size |-> i - pos], pos |-> i + 1, valid |-> TRUE]
      ELSE IF pos < sz
      THEN [out |-> [at |-> pos, size |-> (IF i # NPos THEN i ELSE sz) - pos],
            pos |-> sz + 1, valid |-> TRUE]
      ELSE [out |-> [at |-> sz + 1, size |-> 0], pos |-> sz + 1, valid |-> FALSE]

(* next_split(c, &pos, &out): the part from pos to the next separator, and *)
(* where the next one starts.  valid is what it returns.                   *)
NextSplit(t, c, pos) ==
  LET sz == Len(t)
      i == FindFirstOf(t, Whole(t), c, pos)
  IN  IF pos < sz
      THEN IF i # NPos
           THEN [out |-> [at |-> pos, size |-> i - pos], pos |-> i + 1, valid |-> TRUE]
           ELSE [out |-> [at |-> pos, size |-> sz - pos], pos |-> sz + 1, valid |-> TRUE]
      ELSE LET valid == sz > 0 /\ pos = sz
           IN  [out |-> [at |-> IF valid /\ t[sz] = c THEN sz ELSE sz + 1, size |-> 0],
                pos |-> sz + 1, valid |-> valid]

(* What iterating over split(c) visits: the iterator is an out and a pos,  *)
(* and equals that of end(), which has been advanced from past the end.    *)
Splits(t, c) ==
  LET stop == NextSplit(t, c, Len(t) + 1)
      rest[pos \in 0..Len(t) + 1] ==
        LET it == NextSplit(t, c, pos)
        IN  IF it.out = stop.out /\ it.pos = stop.pos THEN <<>>
            ELSE <<Up(t, it.out)>> \o rest[it.pos]
  IN  rest[0]

NumSplits(t, c) == IF t = <<>> THEN 0 ELSE 1 + Count(t, Whole(t), c)

(* The parts that hold something, and the splits that do.                  *)
Held(parts) ==
  LET held[k \in 0 .. Len(parts)] ==
        IF k = 0 THEN <<>>
        ELSE IF parts[k] # <<>> THEN Append(held[k - 1], parts[k]) ELSE held[k - 1]
  IN  held[Len(parts)]
Steps(t, c) == Held(Splits(t, c))

-----------------------------------------------------------------------------
(* Variant: the part begins with the separator.                            *)
PopRWithSep(t, c, skip) ==
  LET r == Whole(t)
      pos == FindLastOf(t, r, c, r.size - 1)
  IN  IF pos = NPos THEN r ELSE SubstrFrom(r, pos)

(* popr(c, skip_empty) and popl(c, skip_empty): the last and first split.  *)
PopR(t, c, skip) ==
  LET r == Whole(t)
      pos == FindLastOf(t, r, c, r.size - 1)
      ppos == FindLastNotOf(t, r, c, r.size - 1)
      pos0 == FindLastOf(t, r, c, ppos)
  IN  CASE r.size = 1 /\ BeginsWith(t, r, c) -> Substr(r, 0, 0)
        [] r.size > 1 /\ pos # NPos /\ pos < r.size - 1 -> SubstrFrom(r, pos + 1)
        [] r.size > 1 /\ pos = r.size - 1 ->
             IF ~skip THEN Substr(r, pos + 1, 0)
             ELSE IF ppos = NPos THEN Substr(r, 0, 0)
             ELSE IF pos0 = NPos THEN r ELSE SubstrFrom(r, pos0 + 1)
        [] OTHER -> r

PopL(t, c, skip) ==
  LET r == Whole(t)
      pos == FindFirstOf(t, r, c, 0)
      ppos == FindFirstNotOf(t, r, c, 0)
      pos0 == FindFirstOf(t, r, c, ppos)
  IN  CASE r.size = 1 /\ BeginsWith(t, r, c) -> Substr(r, 0, 0)
        [] r.size > 1 /\ pos > 0 -> Substr(r, 0, pos)
        [] r.size > 1 /\ pos = 0 ->
             IF ~skip \/ ppos = NPos THEN Substr(r, 0, 0)
             ELSE IF pos0 = NPos THEN r ELSE Substr(r, 0, pos0)
        [] OTHER -> r

(* gpopr(c, skip_empty) and gpopl(c, skip_empty): all but that split.      *)
GPopR(t, c, skip) ==
  LET ss == Complr(Whole(t), PopL(t, c, skip))
  IN  IF ~BeginsWith(t, ss, c) THEN ss
      ELSE IF skip THEN TrimL(t, ss, c) ELSE SubstrFrom(ss, 1)

GPopL(t, c, skip) ==
  LET ss == Compll(Whole(t), PopR(t, c, skip))
  IN  IF ~EndsWith(t, ss, c) THEN ss
      ELSE IF skip THEN TrimR(t, ss, c) ELSE Substr(ss, 0, ss.size - 1)

Basename(t, c) == TrimR(t, PopR(t, c, TRUE), c)

(* dirname(c): with the separator it ends in, unless it is all separators. *)
Dirname(t, c) ==
  LET ss == GPopL(t, c, TRUE)
      rem == Complr(Whole(t), ss)
  IN  IF EndsWith(t, ss, c) \/ Len(t) <= ss.size THEN ss
      ELSE IF Count(t, rem, c) = rem.size THEN Whole(t)
      ELSE IF t[ss.size + 1] = c THEN Substr(Whole(t), 0, ss.size + 1) ELSE ss

-----------------------------------------------------------------------------
(* Splitting visits every part of the text once, the empty ones at its     *)
(* start and end too: num_splits() parts without the separator, which with *)
(* separators between them make the text.                                  *)
SplitsJoinOf(t, c) ==
  LET parts == Splits(t, c)
  IN  /\ Len(parts) = NumSplits(t, c)
      /\ \A i \in DOMAIN parts : \A k \in DOMAIN parts[i] : parts[i][k] # c
      /\ t # <<>> =>
           FlattenSeq([i \in DOMAIN parts |-> IF i = 1 THEN parts[i] ELSE <<c>> \o parts[i]]) = t

(* popr() and gpopl() are reciprocal, as their comments say, and so are    *)
(* popl() and gpopr(): joined, the two give the text back; with empty      *)
(* splits skipped, they have its other splits in order, the popped part no *)
(* more than one of them.  dirname() and basename() likewise.  trim() is   *)
(* trimming from both sides, one after the other.                          *)
PopsAgreeOf(t, c) ==
  LET Both(a, b) == Steps(Up(t, a), c) \o Steps(Up(t, b), c) = Steps(t, c)
  IN  /\ Len(t) > 1 /\ Count(t, Whole(t), c) > 0 =>
           /\ Up(t, GPopL(t, c, FALSE)) \o <<c>> \o Up(t, PopR(t, c, FALSE)) = t
           /\ Up(t, PopL(t, c, FALSE)) \o <<c>> \o Up(t, GPopR(t, c, FALSE)) = t
      /\ Both(GPopL(t, c, TRUE), PopR(t, c, TRUE))
      /\ Both(PopL(t, c, TRUE), GPopR(t, c, TRUE))
      /\ Both(Dirname(t, c), Basename(t, c))
      /\ Len(Steps(Up(t, PopR(t, c, TRUE)), c)) <= 1
      /\ Len(Steps(Up(t, PopL(t, c, TRUE)), c)) <= 1
      /\ Trim(t, Whole(t), c) = TrimL(t, TrimR(t, Whole(t), c), c)

=============================================================================
