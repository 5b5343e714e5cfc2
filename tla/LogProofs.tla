------------------------------- MODULE LogProofs -------------------------------
(***************************************************************************)
(* Proofs about Log: types, that its string is a SharedText, that nothing  *)
(* that careful clients log is lost, what an abort has shown, and that     *)
(* what a call prints stays together, whatever the number of threads and   *)
(* the error settings.                                                     *)
(*                                                                         *)
(* IInv says what the mutex protects.  CopiedOwn adds that what is behind  *)
(* pos is the writer's; KeptInv, where the rest of what was said is;       *)
(* ErrorsInv, what a thread in an error has in its buffer; WholeInv and    *)
(* TermInv, which calls a buffer may still have something of; and TakenInv *)
(* that readers take away whole calls.                                     *)
(***************************************************************************)
EXTENDS Log, Recursion, SequenceTheorems, TLAPS

(* pump() was given no more than the buffer has.                           *)
SizesFit == \A t \in Threads : size[t] <= Len(buf[t])

(* Who writes to the log string has its mutex, and there is no reader.     *)
WritersLock ==
  \A t \in Threads : pc[t] \in {"copy", "advance"} => mutex = t /\ reader = None

(* What is behind pos is what the thread at pc = advance has copied there. *)
PosIsBehind ==
  /\ \A t \in Threads : pc[t] = "advance" => Len(store) = pos + size[t]
  /\ (\A t \in Threads : pc[t] # "advance") => pos = Len(store)

ReadersLock == reader # None => mutex = reader

IInv == TypeOK /\ SizesFit /\ WritersLock /\ PosIsBehind /\ ReadersLock

-----------------------------------------------------------------------------
(* What is said and read are sequences of characters.                      *)

LEMMA LineIsText ==
  ASSUME NEW t \in Threads, NEW c \in Nat
  PROVE  /\ [k \in 1 .. Body |-> <<t, c, k>>] \in Seq(Chars)
         /\ Len([k \in 1 .. Body |-> <<t, c, k>>]) = Body
         /\ << <<t, c, 0>> >> \in Seq(Chars)
<1>1. Body \in Nat
  BY LogAssumption
<1>2. \A k \in 0 .. Body : <<t, c, k>> \in Chars
  BY DEF Chars
<1> QED
  BY <1>1, <1>2

LEMMA PrefixIsText ==
  ASSUME NEW t \in Threads, NEW h, calls' \in ThreadType(Nat)
  PROVE  Prefix(t, h) \in Seq(Chars)
<1>1. calls'[t] \in Nat
  BY DEF ThreadType
<1>2. << <<t, calls'[t], 0>> >> \in Seq(Chars)
  BY <1>1, LineIsText
<1>3. <<>> \in Seq(Chars)
  OBVIOUS
<1> QED
  BY <1>2, <1>3 DEF Prefix

(* The first n characters of a text.                                       *)
LEMMA FirstChars ==
  ASSUME NEW s \in Seq(Chars), NEW n \in 0 .. Len(s)
  PROVE  /\ SubSeq(s, 1, n) \in Seq(Chars) /\ Len(SubSeq(s, 1, n)) = n
         /\ \A i \in 1 .. n : SubSeq(s, 1, n)[i] = s[i]
<1>1. \A i \in 1 .. n : s[i] \in Chars /\ 1 + i - 1 = i /\ i \in 1 .. n - 1 + 1
  OBVIOUS
<1>2. /\ SubSeq(s, 1, n) \in Seq(Chars)
      /\ Len(SubSeq(s, 1, n)) = IF 1 <= n THEN n - 1 + 1 ELSE 0
      /\ \A i \in 1 .. n - 1 + 1 : SubSeq(s, 1, n)[i] = s[1 + i - 1]
  BY <1>1, SubSeqProperties
<1> QED
  BY <1>1, <1>2

LEMMA TextIsText ==
  ASSUME TypeOK
  PROVE  /\ Text \in Seq(Chars) /\ Len(Text) = pos
         /\ \A i \in 1 .. pos : Text[i] = store[i]
BY FirstChars DEF TypeOK, Text

LEMMA ChunkIsText ==
  ASSUME TypeOK, SizesFit, NEW t \in Threads
  PROVE  Chunk(t) \in Seq(Chars) /\ Len(Chunk(t)) = size[t]
<1>1. /\ buf[t] \in Seq(Chars) /\ 1 \in 1 .. Len(buf[t]) + 1
      /\ size[t] \in 1 - 1 .. Len(buf[t])
  BY DEF TypeOK, ThreadType, SizesFit
<1> QED
  BY <1>1, SubSeqProperties DEF Chunk

-----------------------------------------------------------------------------
(* What a thread does in its own buffer.                                   *)

Pcs == {"idle", "pump", "lock", "copy", "advance", "str"}
Writing == {"copy", "advance"}

(* The variables of the threads are typed, no buffer is pumped beyond its  *)
(* end, and only t, which is not writing, has moved.                       *)
Apart(t) ==
  /\ buf' \in ThreadType(Seq(Chars)) /\ said' \in ThreadType(Seq(Chars))
  /\ size' \in ThreadType(Nat) /\ pc' \in ThreadType(Pcs)
  /\ cut' \subseteq Threads \X Nat
  /\ SizesFit'
  /\ pc[t] \notin Writing /\ pc'[t] \notin Writing
  /\ \A u \in Threads \ {t} : pc'[u] = pc[u] /\ size'[u] = size[u]

LEMMA CutIsTyped ==
  ASSUME TypeOK, NEW t \in Threads, Cut(t)
  PROVE  cut' \subseteq Threads \X Nat
<1>1. proxy[t] # None => proxy[t].call \in Nat
  BY DEF TypeOK, ThreadType
<1> QED
  BY <1>1 DEF Cut, TypeOK

LEMMA SayIsTyped ==
  ASSUME TypeOK, NEW t \in Threads, NEW text \in Seq(Chars), Say(t, text)
  PROVE  /\ buf' \in ThreadType(Seq(Chars)) /\ said' \in ThreadType(Seq(Chars))
         /\ \A u \in Threads \ {t} : buf'[u] = buf[u]
         /\ Len(buf'[t]) = Len(buf[t]) + Len(text)
<1>1. buf \in ThreadType(Seq(Chars)) /\ said \in ThreadType(Seq(Chars))
  BY DEF TypeOK
<1>2. buf[t] \in Seq(Chars) /\ said[t] \in Seq(Chars)
  BY <1>1 DEF ThreadType
<1>3. buf[t] \o text \in Seq(Chars) /\ said[t] \o text \in Seq(Chars)
  BY <1>2
<1>4. Len(buf[t] \o text) = Len(buf[t]) + Len(text)
  BY <1>2
<1> QED
  BY <1>1, <1>3, <1>4 DEF Say, ThreadType

LEMMA PrintLineApart ==
  ASSUME IInv, NEW t \in Threads, NEW h, NEW lev, calls' \in ThreadType(Nat),
         pc[t] = "idle", PrintLine(t, h, lev)
  PROVE  Apart(t)
<1>1. CASE Skip(h, lev)
  BY <1>1 DEF PrintLine, Unpumped, Apart, IInv, TypeOK, SizesFit, Pcs, Writing, ThreadType
<1>2. CASE ~Skip(h, lev)
  <2>1. calls'[t] \in Nat
    BY DEF ThreadType
  <2>2. Prefix(t, h) \in Seq(Chars) /\ Line(t) \in Seq(Chars)
    BY <2>1, PrefixIsText, LineIsText DEF Line
  <2>3. Prefix(t, h) \o Line(t) \in Seq(Chars)
    BY <2>2
  <2>4. Say(t, Prefix(t, h) \o Line(t)) /\ Pump(t, Len(buf'[t])) /\ Cut(t)
    BY <1>2 DEF PrintLine
  <2>5. /\ buf' \in ThreadType(Seq(Chars)) /\ said' \in ThreadType(Seq(Chars))
        /\ \A u \in Threads \ {t} : buf'[u] = buf[u]
    BY <2>3, <2>4, SayIsTyped DEF IInv
  <2>6. cut' \subseteq Threads \X Nat
    BY <2>4, CutIsTyped DEF IInv
  <2>7. Len(buf'[t]) \in Nat
    BY <2>5 DEF ThreadType
  <2>8. /\ size' = [size EXCEPT ![t] = Len(buf'[t])]
        /\ pc' = [pc EXCEPT ![t] = "pump"]
    BY <2>4 DEF Pump
  <2>9. size \in [Threads -> Nat] /\ pc \in [Threads -> Pcs] /\ SizesFit
    BY DEF IInv, TypeOK, ThreadType, Pcs
  <2>10. size' \in [Threads -> Nat] /\ pc' \in [Threads -> Pcs]
    BY <2>7, <2>8, <2>9 DEF Pcs
  <2>11. SizesFit'
    BY <2>5, <2>7, <2>8, <2>9 DEF SizesFit
  <2> QED
    BY <2>5, <2>6, <2>8, <2>9, <2>10, <2>11 DEF Apart, Writing, ThreadType
<1> QED
  BY <1>1, <1>2

LEMMA PumpAllApart ==
  ASSUME IInv, NEW t \in Threads, pc[t] = "idle", Pump(t, Len(buf[t])),
         UNCHANGED <<buf, said, cut>>
  PROVE  Apart(t)
<1>1. /\ size \in [Threads -> Nat] /\ pc \in [Threads -> Pcs] /\ buf \in [Threads -> Seq(Chars)]
      /\ said \in ThreadType(Seq(Chars)) /\ cut \subseteq Threads \X Nat
  BY DEF IInv, TypeOK, ThreadType, Pcs
<1>2. Len(buf[t]) \in Nat
  BY <1>1
<1>3. /\ size' = [size EXCEPT ![t] = Len(buf[t])]
      /\ pc' = [pc EXCEPT ![t] = "pump"]
  BY DEF Pump
<1>4. size' \in [Threads -> Nat] /\ pc' \in [Threads -> Pcs]
  BY <1>1, <1>2, <1>3 DEF Pcs
<1>5. SizesFit'
  BY <1>1, <1>2, <1>3 DEF IInv, SizesFit
<1> QED
  BY <1>1, <1>3, <1>4, <1>5 DEF Apart, Writing, ThreadType

(* Where nobody has logged, nobody has moved.                              *)
LEMMA StillApart ==
  ASSUME IInv, NEW t \in Threads, pc[t] \notin Writing, UNCHANGED <<buf, said, size, pc, cut>>
  PROVE  Apart(t)
BY DEF IInv, TypeOK, SizesFit, Apart, Pcs, Writing, ThreadType

(* A thread that gets to another place, with its buffer as it was.         *)
LEMMA MoveApart ==
  ASSUME IInv, NEW t \in Threads, NEW l \in Pcs \ Writing, pc[t] \notin Writing,
         pc' = [pc EXCEPT ![t] = l], UNCHANGED <<buf, said, size, cut>>
  PROVE  Apart(t)
BY DEF IInv, TypeOK, SizesFit, Apart, Pcs, Writing, ThreadType

LEMMA CallsTyped ==
  ASSUME TypeOK, NEW t \in Threads, Calls(t)
  PROVE  calls' \in ThreadType(Nat) /\ pc[t] = "idle" /\ error[t] = None
<1>1. calls \in [Threads -> Nat] /\ calls' = [calls EXCEPT ![t] = @ + 1]
  BY DEF TypeOK, ThreadType, Calls
<1>2. calls' \in [Threads -> Nat]
  BY <1>1
<1> QED
  BY <1>2 DEF Calls, Ready, At, ThreadType

LEMMA FailsTyped ==
  ASSUME TypeOK, NEW t \in Threads, NEW e \in ErrorChoices, Fails(t, e)
  PROVE  error' \in ThreadType([settings : ErrorChoices, left : 0 .. ErrorLines] \cup {None})
<1>1. ErrorLines \in Nat
  BY LogAssumption
<1>2. [settings |-> e, left |-> IF "log" \in e.flags THEN ErrorLines ELSE 0]
        \in [settings : ErrorChoices, left : 0 .. ErrorLines]
  BY <1>1
<1> QED
  BY <1>2 DEF TypeOK, Fails, ThreadType

-----------------------------------------------------------------------------
(* The invariant, in parts: what the threads share and what is printed.    *)

SharedTyped ==
  /\ mode \in Modes
  /\ channels \in [0 .. MaxChannels - 1 -> [name : Names \cup {None}, level : {Info} \cup ChannelLevels]]
  /\ added \in Seq(Names) /\ Len(added) <= MaxChannels

SinksTyped ==
  /\ store \in Seq(Chars) /\ pos \in 0 .. Len(store)
  /\ mutex \in Threads \cup {None} /\ reader \in Threads \cup {None}
  /\ term \in Seq(Chars) /\ shown \in 0 .. Len(term)
  /\ taken \in Seq(Chars)

CallsAreTyped ==
  /\ proxy \in ThreadType([call : Nat, given : 0 .. Body] \cup {None})
  /\ calls \in ThreadType(Nat)
  /\ error \in ThreadType([settings : ErrorChoices, left : 0 .. ErrorLines] \cup {None})
  /\ status \in {"run"} \cup Threads

LEMMA Parts ==
  ASSUME TypeOK
  PROVE  SharedTyped /\ SinksTyped /\ CallsAreTyped
BY DEF TypeOK, SharedTyped, SinksTyped, CallsAreTyped

(* A step of a thread in its own buffer, which leaves the log string alone. *)
LEMMA OwnStep ==
  ASSUME IInv, NEW t \in Threads, Apart(t), UNCHANGED <<store, pos>>,
         \/ UNCHANGED <<mutex, reader>>
         \/ reader = t /\ mutex' = None /\ reader' = None,
         SharedTyped', SinksTyped', CallsAreTyped'
  PROVE  IInv'
<1>1. TypeOK'
  BY DEF TypeOK, SharedTyped, SinksTyped, CallsAreTyped, Apart, Pcs
<1>2. WritersLock'
  <2> SUFFICES ASSUME NEW u \in Threads, pc'[u] \in Writing
               PROVE  mutex' = u /\ reader' = None
    BY DEF WritersLock, Writing
  <2>1. u # t /\ pc[u] \in Writing
    BY DEF Apart
  <2>2. mutex = u /\ reader = None
    BY <2>1 DEF IInv, WritersLock, Writing
  <2>3. reader # t
    BY <2>2, LogAssumption
  <2> QED
    BY <2>2, <2>3
<1>3. PosIsBehind'
  <2>1. \A u \in Threads : pc'[u] = "advance" <=> pc[u] = "advance"
    BY DEF Apart, Writing
  <2>2. \A u \in Threads : pc'[u] = "advance" => size'[u] = size[u]
    BY DEF Apart, Writing
  <2> QED
    BY <2>1, <2>2 DEF IInv, PosIsBehind
<1>4. ReadersLock'
  BY DEF IInv, ReadersLock
<1> QED
  BY <1>1, <1>2, <1>3, <1>4 DEF Apart, IInv

-----------------------------------------------------------------------------
(* Every action keeps the invariant.                                       *)

LEMMA PrintToStep ==
  ASSUME IInv, NEW t \in Threads, NEW h, NEW lev, PrintTo(t, h, lev)
  PROVE  IInv'
<1>1. calls' \in ThreadType(Nat) /\ pc[t] = "idle"
  BY CallsTyped DEF PrintTo, IInv
<1>2. Apart(t)
  BY <1>1, PrintLineApart DEF PrintTo
<1> QED
  BY <1>1, <1>2, OwnStep, Parts
     DEF PrintTo, shared, sinks, IInv, SharedTyped, SinksTyped, CallsAreTyped

LEMMA FindMissingStep ==
  ASSUME IInv, NEW t \in Threads, NEW n, FindMissing(t, n)
  PROVE  IInv'
<1>1. calls' \in ThreadType(Nat) /\ pc[t] = "idle"
  BY CallsTyped DEF FindMissing, IInv
<1>2. Apart(t)
  BY <1>1, PrintLineApart DEF FindMissing
<1> QED
  BY <1>1, <1>2, OwnStep, Parts
     DEF FindMissing, shared, sinks, IInv, SharedTyped, SinksTyped, CallsAreTyped

LEMMA WriteStep ==
  ASSUME IInv, NEW t \in Threads, NEW h, NEW lev, Write(t, h, lev)
  PROVE  IInv'
<1>1. calls' \in ThreadType(Nat) /\ pc[t] = "idle"
  BY CallsTyped DEF Write, IInv
<1>2. Apart(t)
  <2>1. CASE Skip(h, lev)
    BY <1>1, <2>1, StillApart DEF Write, Unpumped, Writing
  <2>2. CASE ~Skip(h, lev)
    <3>1. /\ Say(t, Prefix(t, h) \o Line(t)) /\ Cut(t)
          /\ size' = [size EXCEPT ![t] = Body] /\ pc' = [pc EXCEPT ![t] = "pump"]
      BY <2>2 DEF Write, Pump
    <3>2. calls'[t] \in Nat /\ Body \in Nat
      BY <1>1, LogAssumption DEF ThreadType
    <3>3. /\ Prefix(t, h) \in Seq(Chars) /\ Line(t) \in Seq(Chars)
          /\ Len(Line(t)) = Body
      BY <1>1, <3>2, PrefixIsText, LineIsText DEF Line
    <3>4. /\ Prefix(t, h) \o Line(t) \in Seq(Chars)
          /\ Len(Prefix(t, h) \o Line(t)) = Len(Prefix(t, h)) + Body
      BY <3>3
    <3>5. /\ buf' \in ThreadType(Seq(Chars)) /\ said' \in ThreadType(Seq(Chars))
          /\ \A u \in Threads \ {t} : buf'[u] = buf[u]
          /\ Len(buf'[t]) = Len(buf[t]) + (Len(Prefix(t, h)) + Body)
      BY <3>1, <3>4, SayIsTyped DEF IInv
    <3>6. cut' \subseteq Threads \X Nat
      BY <3>1, CutIsTyped DEF IInv
    <3>7. size \in [Threads -> Nat] /\ pc \in [Threads -> Pcs] /\ SizesFit
      BY DEF IInv, TypeOK, ThreadType, Pcs
    <3>8. size' \in [Threads -> Nat] /\ pc' \in [Threads -> Pcs]
      BY <3>1, <3>2, <3>7 DEF Pcs
    <3>9. Body <= Len(buf'[t])
      <4> DEFINE m == Len(buf[t])
                 n == Len(Prefix(t, h))
      <4>1. buf[t] \in Seq(Chars)
        BY DEF IInv, TypeOK, ThreadType
      <4>2. m \in Nat
        BY <4>1
      <4>3. n \in Nat
        BY <3>3
      <4>4. Len(buf'[t]) = m + (n + Body)
        BY <3>5
      <4> HIDE DEF m, n
      <4> QED
        BY <3>2, <4>2, <4>3, <4>4
    <3>10. SizesFit'
      BY <3>1, <3>5, <3>7, <3>9 DEF SizesFit
    <3> QED
      BY <1>1, <3>1, <3>5, <3>6, <3>7, <3>8, <3>10 DEF Apart, Writing, ThreadType
  <2> QED
    BY <2>1, <2>2
<1> QED
  BY <1>1, <1>2, OwnStep, Parts
     DEF Write, shared, sinks, IInv, SharedTyped, SinksTyped, CallsAreTyped

(* What a thread says and does not pump yet.                               *)
LEMMA SayApart ==
  ASSUME IInv, NEW t \in Threads, pc[t] = "idle", NEW text \in Seq(Chars), Say(t, text),
         UNCHANGED <<size, pc, cut>>
  PROVE  Apart(t)
<1>1. /\ buf' \in ThreadType(Seq(Chars)) /\ said' \in ThreadType(Seq(Chars))
      /\ \A u \in Threads \ {t} : buf'[u] = buf[u]
      /\ Len(buf'[t]) = Len(buf[t]) + Len(text)
  BY SayIsTyped DEF IInv
<1>2. size \in [Threads -> Nat] /\ pc \in [Threads -> Pcs] /\ cut \subseteq Threads \X Nat
  BY DEF IInv, TypeOK, ThreadType, Pcs
<1>3. size[t] <= Len(buf'[t])
  <2>1. buf[t] \in Seq(Chars)
    BY DEF IInv, TypeOK, ThreadType
  <2>2. Len(buf[t]) \in Nat /\ Len(text) \in Nat
    BY <2>1
  <2>3. size[t] \in Nat /\ size[t] <= Len(buf[t])
    BY <1>2 DEF IInv, SizesFit
  <2> QED
    BY <1>1, <2>2, <2>3
<1>4. SizesFit'
  BY <1>1, <1>3 DEF IInv, SizesFit
<1> QED
  BY <1>1, <1>2, <1>4 DEF Apart, Writing, ThreadType

LEMMA OpenProxyStep ==
  ASSUME IInv, NEW t \in Threads, NEW h, NEW lev, OpenProxy(t, h, lev)
  PROVE  IInv'
<1>1. calls' \in ThreadType(Nat) /\ pc[t] = "idle"
  BY CallsTyped DEF OpenProxy, IInv
<1>2. Prefix(t, h) \in Seq(Chars)
  BY <1>1, PrefixIsText
<1>3. Apart(t)
  BY <1>1, <1>2, SayApart DEF OpenProxy
<1>4. calls'[t] \in Nat /\ 0 \in 0 .. Body
  BY <1>1, LogAssumption DEF ThreadType
<1>5. [call |-> calls'[t], given |-> 0] \in [call : Nat, given : 0 .. Body]
  BY <1>4
<1>6. proxy' \in ThreadType([call : Nat, given : 0 .. Body] \cup {None})
  BY <1>5 DEF OpenProxy, IInv, TypeOK, ThreadType
<1> QED
  BY <1>1, <1>3, <1>6, OwnStep, Parts
     DEF OpenProxy, shared, sinks, IInv, SharedTyped, SinksTyped, CallsAreTyped

LEMMA StreamStep ==
  ASSUME IInv, NEW t \in Threads, Stream(t)
  PROVE  IInv'
<1> DEFINE p == proxy[t]
<1>1. /\ pc[t] = "idle" /\ p \in [call : Nat, given : 0 .. Body]
      /\ p.given \in 0 .. Body /\ p.given < Body /\ p.call \in Nat /\ Body \in Nat
  BY LogAssumption DEF Stream, Ready, At, IInv, TypeOK, ThreadType
<1>2. << <<t, p.call, p.given + 1>> >> \in Seq(Chars)
  <2>1. p.given + 1 \in 0 .. Body
    BY <1>1
  <2>2. <<t, p.call, p.given + 1>> \in Chars
    BY <1>1, <2>1 DEF Chars
  <2> QED
    BY <2>2
<1>3. /\ Say(t, << <<t, p.call, p.given + 1>> >>)
      /\ \/ Pump(t, Len(buf'[t])) /\ Cut(t)
         \/ UNCHANGED <<size, pc, cut>>
  BY DEF Stream
<1>4. Apart(t)
  <2>1. CASE UNCHANGED <<size, pc, cut>>
    BY <1>1, <1>2, <1>3, <2>1, SayApart
  <2>2. CASE Pump(t, Len(buf'[t])) /\ Cut(t)
    <3>1. /\ buf' \in ThreadType(Seq(Chars)) /\ said' \in ThreadType(Seq(Chars))
          /\ \A u \in Threads \ {t} : buf'[u] = buf[u]
      BY <1>2, <1>3, SayIsTyped DEF IInv
    <3>2. cut' \subseteq Threads \X Nat
      BY <2>2, CutIsTyped DEF IInv
    <3>3. Len(buf'[t]) \in Nat
      BY <3>1 DEF ThreadType
    <3>4. /\ size' = [size EXCEPT ![t] = Len(buf'[t])]
          /\ pc' = [pc EXCEPT ![t] = "pump"]
      BY <2>2 DEF Pump
    <3>5. size \in [Threads -> Nat] /\ pc \in [Threads -> Pcs] /\ SizesFit
      BY DEF IInv, TypeOK, ThreadType, Pcs
    <3>6. size' \in [Threads -> Nat] /\ pc' \in [Threads -> Pcs]
      BY <3>3, <3>4, <3>5 DEF Pcs
    <3>7. SizesFit'
      BY <3>1, <3>3, <3>4, <3>5 DEF SizesFit
    <3> QED
      BY <1>1, <3>1, <3>2, <3>4, <3>5, <3>6, <3>7 DEF Apart, Writing, ThreadType
  <2> QED
    BY <1>3, <2>1, <2>2
<1>5. proxy' \in ThreadType([call : Nat, given : 0 .. Body] \cup {None})
  <2>1. [p EXCEPT !.given = @ + 1] \in [call : Nat, given : 0 .. Body]
    BY <1>1
  <2>2. proxy' = [proxy EXCEPT ![t] = [p EXCEPT !.given = @ + 1]]
    BY DEF Stream
  <2> QED
    BY <2>1, <2>2 DEF IInv, TypeOK, ThreadType
<1> QED
  BY <1>4, <1>5, OwnStep, Parts
     DEF Stream, shared, sinks, IInv, SharedTyped, SinksTyped, CallsAreTyped

LEMMA CloseProxyStep ==
  ASSUME IInv, NEW t \in Threads, CloseProxy(t)
  PROVE  IInv'
<1>1. pc[t] = "idle"
  BY DEF CloseProxy, Ready, At
<1>2. Apart(t)
  BY <1>1, PumpAllApart DEF CloseProxy, Finish
<1>3. proxy' \in ThreadType([call : Nat, given : 0 .. Body] \cup {None})
  BY DEF CloseProxy, Finish, IInv, TypeOK, ThreadType
<1> QED
  BY <1>2, <1>3, OwnStep, Parts
     DEF CloseProxy, shared, sinks, IInv, SharedTyped, SinksTyped, CallsAreTyped

LEMMA PumpTermStep ==
  ASSUME IInv, NEW t \in Threads, PumpTerm(t)
  PROVE  IInv'
<1>1. pc[t] = "pump"
  BY DEF PumpTerm, At
<1>2. Apart(t)
  <2>1. CASE "str" \in mode
    <3>1. "lock" \in Pcs \ Writing
      BY DEF Pcs, Writing
    <3> QED
      BY <1>1, <2>1, <3>1, MoveApart DEF PumpTerm, Writing
  <2>2. CASE "str" \notin mode
    <3>1. /\ buf' = [buf EXCEPT ![t] = <<>>] /\ size' = [size EXCEPT ![t] = 0]
          /\ pc' = [pc EXCEPT ![t] = "idle"] /\ UNCHANGED <<said, cut>>
      BY <2>2 DEF PumpTerm, Pumped
    <3>2. <<>> \in Seq(Chars) /\ Len(<<>>) = 0
      OBVIOUS
    <3>3. /\ buf \in [Threads -> Seq(Chars)] /\ size \in [Threads -> Nat] /\ pc \in [Threads -> Pcs]
          /\ said \in ThreadType(Seq(Chars)) /\ cut \subseteq Threads \X Nat
      BY DEF IInv, TypeOK, Pcs, ThreadType
    <3>4. /\ buf' \in [Threads -> Seq(Chars)] /\ size' \in [Threads -> Nat]
          /\ pc' \in [Threads -> Pcs]
      BY <3>1, <3>2, <3>3 DEF Pcs
    <3>5. SizesFit'
      BY <3>1, <3>2, <3>3 DEF IInv, SizesFit
    <3> QED
      BY <1>1, <3>1, <3>3, <3>4, <3>5 DEF Apart, Writing, ThreadType
  <2> QED
    BY <2>1, <2>2
<1>3. term' \in Seq(Chars) /\ shown' \in 0 .. Len(term')
  <2>1. Chunk(t) \in Seq(Chars) /\ term \in Seq(Chars) /\ shown \in 0 .. Len(term)
    BY ChunkIsText DEF IInv, TypeOK
  <2>2. /\ term \o Chunk(t) \in Seq(Chars)
        /\ Len(term \o Chunk(t)) = Len(term) + Len(Chunk(t))
        /\ Len(term) \in Nat /\ Len(Chunk(t)) \in Nat
    BY <2>1
  <2>3. shown \in 0 .. Len(term \o Chunk(t))
    BY <2>1, <2>2
  <2> QED
    BY <2>1, <2>2, <2>3 DEF PumpTerm
<1> QED
  BY <1>2, <1>3, OwnStep, Parts
     DEF PumpTerm, shared, IInv, SharedTyped, SinksTyped, CallsAreTyped

LEMMA LockStep ==
  ASSUME IInv, NEW t \in Threads, Lock(t)
  PROVE  IInv'
<1>1. /\ pc[t] = "lock" /\ mutex = None /\ mutex' = t /\ pc' = [pc EXCEPT ![t] = "copy"]
      /\ UNCHANGED <<store, pos, reader, size, buf>>
  BY DEF Lock, At, sinks
<1>2. reader = None
  BY <1>1, LogAssumption DEF IInv, ReadersLock
<1>3. TypeOK'
  BY <1>1 DEF Lock, shared, sinks, IInv, TypeOK, ThreadType
<1>4. \A u \in Threads : pc[u] \notin Writing
  BY <1>1, LogAssumption DEF IInv, WritersLock, Writing
<1>5. pc \in [Threads -> Pcs]
  BY DEF IInv, TypeOK, ThreadType, Pcs
<1>6. WritersLock'
  BY <1>1, <1>2, <1>4, <1>5 DEF WritersLock, Writing
<1>7. PosIsBehind'
  BY <1>1, <1>4, <1>5 DEF IInv, PosIsBehind, Writing
<1> QED
  BY <1>1, <1>2, <1>3, <1>6, <1>7 DEF IInv, SizesFit, ReadersLock

(* The text and what is copied behind it.                                  *)
LEMMA CopyExtends ==
  ASSUME IInv, NEW t \in Threads, Copy(t)
  PROVE  /\ store' \in Seq(Chars) /\ Len(store') = pos + size[t]
         /\ \A i \in 1 .. pos : store'[i] = store[i]
<1>1. /\ Text \in Seq(Chars) /\ Len(Text) = pos
      /\ \A i \in 1 .. pos : Text[i] = store[i]
  BY TextIsText DEF IInv
<1>2. Chunk(t) \in Seq(Chars) /\ Len(Chunk(t)) = size[t]
  BY ChunkIsText DEF IInv
<1>3. pos \in Nat /\ size[t] \in Nat
  BY DEF IInv, TypeOK, ThreadType
<1>4. store' = Text \o Chunk(t)
  BY DEF Copy
<1>5. /\ Text \o Chunk(t) \in Seq(Chars)
      /\ Len(Text \o Chunk(t)) = pos + size[t]
      /\ \A i \in 1 .. pos + size[t] :
           (Text \o Chunk(t))[i] = IF i <= pos THEN Text[i] ELSE Chunk(t)[i - pos]
  <2>1. /\ Text \o Chunk(t) \in Seq(Chars)
        /\ Len(Text \o Chunk(t)) = Len(Text) + Len(Chunk(t))
        /\ \A i \in 1 .. Len(Text) + Len(Chunk(t)) :
             (Text \o Chunk(t))[i] = IF i <= Len(Text) THEN Text[i] ELSE Chunk(t)[i - Len(Text)]
    BY <1>1, <1>2, ConcatProperties
  <2> QED
    BY <1>1, <1>2, <2>1
<1>6. \A i \in 1 .. pos : i \in 1 .. pos + size[t] /\ i <= pos
  BY <1>3
<1> QED
  BY <1>1, <1>4, <1>5, <1>6

LEMMA CopyStep ==
  ASSUME IInv, NEW t \in Threads, Copy(t)
  PROVE  IInv'
<1>1. /\ pc[t] = "copy" /\ pc' = [pc EXCEPT ![t] = "advance"]
      /\ UNCHANGED <<pos, reader, mutex, size, buf>>
  BY DEF Copy, At
<1>2. /\ store' \in Seq(Chars) /\ Len(store') = pos + size[t]
      /\ pos \in Nat /\ size[t] \in Nat
  <2>1. store' \in Seq(Chars) /\ Len(store') = pos + size[t]
    BY CopyExtends
  <2> QED
    BY <2>1 DEF IInv, TypeOK, ThreadType
<1>3. pos' \in 0 .. Len(store')
  BY <1>1, <1>2
<1>4. TypeOK'
  BY <1>1, <1>2, <1>3 DEF Copy, shared, IInv, TypeOK, ThreadType
<1>5. \A u \in Threads \ {t} : pc[u] \notin Writing
  BY <1>1 DEF IInv, WritersLock, Writing
<1>6. pc \in [Threads -> Pcs]
  BY DEF IInv, TypeOK, ThreadType, Pcs
<1>7. WritersLock'
  BY <1>1, <1>6 DEF IInv, WritersLock
<1>8. PosIsBehind'
  BY <1>1, <1>2, <1>5, <1>6 DEF PosIsBehind, Writing
<1> QED
  BY <1>1, <1>4, <1>7, <1>8 DEF IInv, SizesFit, ReadersLock

LEMMA AdvanceStep ==
  ASSUME IInv, NEW t \in Threads, Advance(t)
  PROVE  IInv'
<1>1. /\ pc[t] = "advance" /\ pc' = [pc EXCEPT ![t] = "idle"]
      /\ pos' = pos + size[t] /\ mutex' = None /\ UNCHANGED <<store, reader>>
      /\ buf' = [buf EXCEPT ![t] = <<>>] /\ size' = [size EXCEPT ![t] = 0]
  BY DEF Advance, At, NextPos, Pumped
<1>2. Len(store) = pos + size[t] /\ pos \in Nat /\ size[t] \in Nat
  BY <1>1 DEF IInv, PosIsBehind, TypeOK, ThreadType
<1>3. pos' = Len(store') /\ pos' \in 0 .. Len(store')
  BY <1>1, <1>2
<1>4. <<>> \in Seq(Chars) /\ Len(<<>>) = 0
  OBVIOUS
<1>5. TypeOK'
  BY <1>1, <1>3, <1>4 DEF Advance, shared, IInv, TypeOK, ThreadType
<1>6. \A u \in Threads \ {t} : pc[u] \notin Writing
  BY <1>1 DEF IInv, WritersLock, Writing
<1>7. pc \in [Threads -> Pcs] /\ size \in [Threads -> Nat] /\ buf \in [Threads -> Seq(Chars)]
  BY DEF IInv, TypeOK, ThreadType, Pcs
<1>8. \A u \in Threads : pc'[u] \notin Writing
  BY <1>1, <1>6, <1>7 DEF Writing
<1>9. SizesFit'
  BY <1>1, <1>4, <1>7 DEF IInv, SizesFit
<1>10. reader' = None
  BY <1>1 DEF IInv, WritersLock
<1> QED
  BY <1>3, <1>5, <1>8, <1>9, <1>10 DEF IInv, WritersLock, PosIsBehind, ReadersLock, Writing

LEMMA StrStep ==
  ASSUME IInv, NEW t \in Threads, Str(t)
  PROVE  IInv'
<1>1. calls' \in ThreadType(Nat) /\ pc[t] = "idle"
  BY CallsTyped DEF Str, IInv
<1>2. "str" \in Pcs \ Writing /\ pc[t] \notin Writing
  BY <1>1 DEF Pcs, Writing
<1>3. Apart(t)
  BY <1>2, MoveApart DEF Str
<1> QED
  BY <1>1, <1>3, OwnStep, Parts
     DEF Str, shared, sinks, IInv, SharedTyped, SinksTyped, CallsAreTyped

LEMMA StrLockStep ==
  ASSUME IInv, NEW t \in Threads, StrLock(t)
  PROVE  IInv'
<1>1. /\ pc[t] = "str" /\ mutex = None /\ mutex' = t /\ reader' = t
      /\ pc' = [pc EXCEPT ![t] = "idle"] /\ UNCHANGED <<store, pos, size, buf>>
  BY DEF StrLock, At, sinks
<1>2. TypeOK'
  BY <1>1 DEF StrLock, shared, sinks, IInv, TypeOK, ThreadType
<1>3. \A u \in Threads : pc[u] \notin Writing
  BY <1>1, LogAssumption DEF IInv, WritersLock, Writing
<1>4. pc \in [Threads -> Pcs]
  BY DEF IInv, TypeOK, ThreadType, Pcs
<1>5. \A u \in Threads : pc'[u] \notin Writing
  BY <1>1, <1>3, <1>4 DEF Writing
<1> QED
  BY <1>1, <1>2, <1>3, <1>5 DEF IInv, SizesFit, WritersLock, PosIsBehind, ReadersLock, Writing

(* Where there is a reader, nobody writes.                                 *)
LEMMA ReadersAlone ==
  ASSUME IInv, reader # None
  PROVE  /\ \A u \in Threads : pc[u] \notin Writing
         /\ pos = Len(store)
BY DEF IInv, WritersLock, PosIsBehind, Writing

LEMMA TakeStep ==
  ASSUME IInv, NEW t \in Threads, Take(t)
  PROVE  IInv'
<1>1. /\ reader = t /\ pos' = 0 /\ store' = <<>> /\ taken' = taken \o Text
      /\ UNCHANGED <<mutex, reader, size, buf, pc>>
  BY DEF Take
<1>2. \A u \in Threads : pc[u] \notin Writing
  BY <1>1, ReadersAlone, LogAssumption
<1>3. taken' \in Seq(Chars)
  BY <1>1, TextIsText DEF IInv, TypeOK
<1>4. <<>> \in Seq(Chars) /\ Len(<<>>) = 0
  OBVIOUS
<1>5. pos' \in 0 .. Len(store') /\ store' \in Seq(Chars) /\ pos' = Len(store')
  BY <1>1, <1>4
<1>6. TypeOK'
  BY <1>1, <1>3, <1>5 DEF Take, shared, IInv, TypeOK, ThreadType
<1> QED
  BY <1>1, <1>2, <1>5, <1>6 DEF IInv, SizesFit, WritersLock, PosIsBehind, ReadersLock, Writing

LEMMA ReleaseStep ==
  ASSUME IInv, NEW t \in Threads, Release(t)
  PROVE  IInv'
<1>1. pc[t] \notin Writing
  BY DEF Release, At, Writing
<1>2. Apart(t)
  BY <1>1, StillApart DEF Release
<1> QED
  BY <1>2, OwnStep, Parts
     DEF Release, LetGo, shared, sinks, IInv, SharedTyped, SinksTyped, CallsAreTyped

LEMMA FailStep ==
  ASSUME IInv, NEW t \in Threads, NEW e \in ErrorChoices, Fail(t, e)
  PROVE  IInv'
<1>1. calls' \in ThreadType(Nat) /\ pc[t] = "idle"
  BY CallsTyped DEF Fail, IInv
<1>2. Apart(t)
  BY <1>1, StillApart DEF Fail, Writing
<1>3. error' \in ThreadType([settings : ErrorChoices, left : 0 .. ErrorLines] \cup {None})
  BY FailsTyped DEF Fail, IInv
<1> QED
  BY <1>1, <1>2, <1>3, OwnStep, Parts
     DEF Fail, shared, sinks, IInv, SharedTyped, SinksTyped, CallsAreTyped

LEMMA ErrorLineStep ==
  ASSUME IInv, NEW t \in Threads, ErrorLine(t)
  PROVE  IInv'
<1>1. calls' \in ThreadType(Nat)
  <2>1. calls \in [Threads -> Nat] /\ calls' = [calls EXCEPT ![t] = @ + 1]
    BY DEF IInv, TypeOK, ThreadType, ErrorLine
  <2>2. calls' \in [Threads -> Nat]
    BY <2>1
  <2> QED
    BY <2>2 DEF ThreadType
<1>2. Apart(t)
  BY <1>1, PrintLineApart DEF ErrorLine, At
<1>3. error' \in ThreadType([settings : ErrorChoices, left : 0 .. ErrorLines] \cup {None})
  <2> DEFINE e == error[t]
  <2>1. /\ e \in [settings : ErrorChoices, left : 0 .. ErrorLines] /\ e.left > 0
        /\ e.left \in 0 .. ErrorLines /\ ErrorLines \in Nat
    BY LogAssumption DEF ErrorLine, IInv, TypeOK, ThreadType
  <2>2. [e EXCEPT !.left = @ - 1] \in [settings : ErrorChoices, left : 0 .. ErrorLines]
    BY <2>1
  <2>3. error' = [error EXCEPT ![t] = [e EXCEPT !.left = @ - 1]]
    BY DEF ErrorLine
  <2> QED
    BY <2>2, <2>3 DEF IInv, TypeOK, ThreadType
<1> QED
  BY <1>1, <1>2, <1>3, OwnStep, Parts
     DEF ErrorLine, shared, sinks, IInv, SharedTyped, SinksTyped, CallsAreTyped

LEMMA EndErrorStep ==
  ASSUME IInv, NEW t \in Threads, EndError(t)
  PROVE  IInv'
<1>1. pc[t] = "idle" /\ UNCHANGED <<buf, said, cut, store, pos, term>>
  BY DEF EndError, At
<1>2. Apart(t)
  <2>1. CASE Finish(t)
    BY <1>1, <2>1, PumpAllApart DEF Finish
  <2>2. CASE UNCHANGED <<proxy, size, pc>>
    BY <1>1, <2>2, StillApart DEF Writing
  <2> QED
    BY <2>1, <2>2 DEF EndError
<1>3. CallsAreTyped'
  BY DEF EndError, Finish, IInv, TypeOK, CallsAreTyped, ThreadType
<1>4. shown' \in 0 .. Len(term')
  <2>1. term \in Seq(Chars) /\ shown \in 0 .. Len(term)
    BY DEF IInv, TypeOK
  <2>2. Len(term) \in 0 .. Len(term)
    BY <2>1
  <2> QED
    BY <1>1, <2>1, <2>2 DEF EndError, Flushed
<1>5. \/ UNCHANGED <<mutex, reader>>
      \/ reader = t /\ mutex' = None /\ reader' = None
  BY DEF EndError, LetGo
<1> QED
  BY <1>1, <1>2, <1>3, <1>4, <1>5, OwnStep, Parts
     DEF EndError, shared, IInv, SharedTyped, SinksTyped

LEMMA AddChannelStep ==
  ASSUME IInv, NEW t \in Threads, NEW n \in Names, NEW lev \in ChannelLevels,
         AddChannel(t, n, lev)
  PROVE  IInv'
<1>1. /\ calls' \in ThreadType(Nat) /\ pc[t] = "idle"
  BY CallsTyped DEF AddChannel, IInv
<1>2. Apart(t)
  BY <1>1, StillApart DEF AddChannel, Writing
<1>3. SharedTyped' /\ error' \in ThreadType([settings : ErrorChoices, left : 0 .. ErrorLines] \cup {None})
  <2>1. SharedTyped
    BY Parts DEF IInv
  <2>2. CASE UNCHANGED <<channels, added>> /\ \E e \in ErrorChoices : Fails(t, e)
    BY <2>1, <2>2, FailsTyped DEF AddChannel, SharedTyped, IInv
  <2>3. CASE /\ Len(added) < MaxChannels /\ UNCHANGED error
             /\ channels' = [channels EXCEPT ![Len(added)] = [name |-> n, level |-> lev]]
             /\ added' = Append(added, n)
    <3>1. added \in Seq(Names) /\ MaxChannels \in Nat
      BY <2>1, LogAssumption DEF SharedTyped
    <3>2. added' \in Seq(Names) /\ Len(added') = Len(added) + 1 /\ Len(added) \in Nat
      BY <2>3, <3>1
    <3>3. Len(added') <= MaxChannels
      BY <2>3, <3>1, <3>2
    <3>4. [name |-> n, level |-> lev] \in [name : Names \cup {None}, level : {Info} \cup ChannelLevels]
      OBVIOUS
    <3>5. UNCHANGED mode
      BY DEF AddChannel
    <3> QED
      BY <2>1, <2>3, <3>2, <3>3, <3>4, <3>5 DEF SharedTyped, IInv, TypeOK
  <2> QED
    BY <2>2, <2>3 DEF AddChannel
<1> QED
  BY <1>1, <1>2, <1>3, OwnStep, Parts
     DEF AddChannel, sinks, IInv, SinksTyped, CallsAreTyped

LEMMA SetLevelStep ==
  ASSUME IInv, NEW t \in Threads, NEW lev \in ChannelLevels, SetLevel(t, lev)
  PROVE  IInv'
<1>1. calls' \in ThreadType(Nat) /\ pc[t] = "idle"
  BY CallsTyped DEF SetLevel, IInv
<1>2. Apart(t)
  BY <1>1, StillApart DEF SetLevel, Writing
<1>3. SharedTyped'
  <2>1. SharedTyped /\ UNCHANGED <<mode, added>>
    BY Parts DEF IInv, SetLevel
  <2>2. ASSUME NEW c \in [name : Names \cup {None}, level : {Info} \cup ChannelLevels]
        PROVE  [c EXCEPT !.level = lev] \in [name : Names \cup {None}, level : {Info} \cup ChannelLevels]
    OBVIOUS
  <2> QED
    BY <2>1, <2>2 DEF SetLevel, SharedTyped
<1> QED
  BY <1>1, <1>2, <1>3, OwnStep, Parts
     DEF SetLevel, sinks, IInv, SinksTyped, CallsAreTyped

-----------------------------------------------------------------------------
LEMMA InitIInv == Init => IInv
<1> SUFFICES ASSUME Init PROVE IInv
  OBVIOUS
<1>1. <<>> \in Seq(Chars) /\ <<>> \in Seq(Names) /\ Len(<<>>) = 0
  OBVIOUS
<1>2. MaxChannels \in Nat
  BY LogAssumption
<1>3. TypeOK
  BY <1>1, <1>2 DEF Init, TypeOK, ThreadType
<1> QED
  BY <1>1, <1>3 DEF Init, IInv, SizesFit, WritersLock, PosIsBehind, ReadersLock

LEMMA StepIInv == IInv /\ [Next]_vars => IInv'
<1> SUFFICES ASSUME IInv, [Next]_vars PROVE IInv'
  OBVIOUS
<1>1. CASE UNCHANGED vars
  BY <1>1 DEF vars, shared, sinks, IInv, TypeOK, SizesFit, WritersLock, PosIsBehind, ReadersLock
<1>2. ASSUME NEW t \in Threads, Step(t) PROVE IInv'
  BY <1>2, PumpTermStep, LockStep, CopyStep, AdvanceStep, StrLockStep, ReleaseStep,
     ErrorLineStep, EndErrorStep DEF Step
<1>3. ASSUME NEW t \in Threads, Begin(t) PROVE IInv'
  BY <1>3, PrintToStep, WriteStep, OpenProxyStep, StreamStep, CloseProxyStep, StrStep, TakeStep,
     FailStep, FindMissingStep, AddChannelStep, SetLevelStep DEF Begin
<1> QED
  BY <1>1, <1>2, <1>3 DEF Next

(* IInv is an invariant: the types, and what makes the mutex protect the   *)
(* log string (pump, str).                                                 *)
THEOREM Inductive == Spec => []IInv
BY InitIInv, StepIInv, PTL DEF Spec, Safety

(* Every variable holds what the code can store in it (Log).               *)
THEOREM TypeCorrect == Spec => []TypeOK
<1>1. IInv => TypeOK
  BY DEF IInv
<1> QED
  BY <1>1, Inductive, PTL

-----------------------------------------------------------------------------
(* The log string is a SharedText.                                         *)

LEMMA SameText ==
  ASSUME UNCHANGED <<store, pos>>
  PROVE  UNCHANGED Text
BY DEF Text

LEMMA CopyLeavesText ==
  ASSUME IInv, NEW t \in Threads, Copy(t)
  PROVE  UNCHANGED <<Text, reader>>
<1>1. IInv' /\ UNCHANGED <<pos, reader>>
  BY CopyStep DEF Copy
<1>2. /\ Text \in Seq(Chars) /\ Len(Text) = pos
      /\ \A i \in 1 .. pos : Text[i] = store[i]
  BY TextIsText DEF IInv
<1>3. TypeOK'
  BY <1>1 DEF IInv
<1>4. /\ Text' \in Seq(Chars) /\ Len(Text') = pos'
      /\ \A i \in 1 .. pos' : Text'[i] = store'[i]
  <2>1. store' \in Seq(Chars) /\ pos' \in 0 .. Len(store')
    BY <1>3 DEF TypeOK
  <2>2. Text' = SubSeq(store', 1, pos')
    BY DEF Text
  <2> QED
    BY <2>1, <2>2, FirstChars
<1>5. \A i \in 1 .. pos : store'[i] = store[i]
  BY CopyExtends
<1>6. Text' = Text
  <2>1. Len(Text') = Len(Text)
    BY <1>1, <1>2, <1>4
  <2>2. \A i \in 1 .. Len(Text') : Text'[i] = Text[i]
    BY <1>1, <1>2, <1>4, <1>5
  <2> QED
    BY <1>2, <1>4, <2>1, <2>2, SeqEqual
<1> QED
  BY <1>1, <1>6

LEMMA AdvanceGrows ==
  ASSUME IInv, NEW t \in Threads, Advance(t)
  PROVE  Reading!Grow
<1>1. /\ pc[t] = "advance" /\ pos' = pos + size[t] /\ UNCHANGED <<store, reader>>
  BY DEF Advance, At, NextPos
<1>2. /\ reader = None
      /\ Len(store) = pos + size[t] /\ pos \in Nat /\ size[t] \in Nat /\ store \in Seq(Chars)
  BY <1>1 DEF IInv, WritersLock, PosIsBehind, TypeOK, ThreadType
<1>3. /\ Text \in Seq(Chars) /\ Len(Text) = pos
      /\ \A i \in 1 .. pos : Text[i] = store[i]
  BY TextIsText DEF IInv
<1>4. Text' = SubSeq(store, 1, pos + size[t])
  BY <1>1 DEF Text
<1>5. PICK n \in Nat : n = pos + size[t]
  BY <1>2
<1>6. pos <= n /\ Len(store) = n
  BY <1>2, <1>5
<1>7. PICK s : s = SubSeq(store, 1, n)
  OBVIOUS
<1>8. s \in Seq(Chars) /\ Len(s) = n /\ \A i \in 1 .. n : s[i] = store[i]
  BY <1>2, <1>6, <1>7, FirstChars
<1>9. SubSeq(s, 1, pos) = Text
  <2>1. pos \in 0 .. Len(s)
    BY <1>2, <1>6, <1>8
  <2>2. /\ SubSeq(s, 1, pos) \in Seq(Chars) /\ Len(SubSeq(s, 1, pos)) = Len(Text)
        /\ \A i \in 1 .. pos : SubSeq(s, 1, pos)[i] = s[i]
    BY <1>3, <1>8, <2>1, FirstChars
  <2>3. \A i \in 1 .. Len(Text) : SubSeq(s, 1, pos)[i] = Text[i]
    BY <1>3, <1>6, <1>8, <2>1, <2>2
  <2> QED
    BY <1>3, <2>2, <2>3, SeqEqual
<1>10. Text' = s
  BY <1>4, <1>5, <1>7
<1> QED
  BY <1>1, <1>2, <1>3, <1>6, <1>8, <1>9, <1>10 DEF Reading!Grow

LEMMA StepReads == IInv /\ [Next]_vars => [Reading!Next]_<<Text, reader>>
<1> SUFFICES ASSUME IInv, [Next]_vars
             PROVE  Reading!Next \/ UNCHANGED <<Text, reader>>
  OBVIOUS
<1>1. CASE UNCHANGED <<store, pos, reader>>
  BY <1>1, SameText
<1>2. ASSUME NEW t \in Threads, Copy(t) PROVE UNCHANGED <<Text, reader>>
  BY <1>2, CopyLeavesText
<1>3. ASSUME NEW t \in Threads, Advance(t) PROVE Reading!Next
  BY <1>3, AdvanceGrows DEF Reading!Next
<1>4. ASSUME NEW t \in Threads, StrLock(t) PROVE Reading!Next
  <2>1. mutex = None /\ reader' = t /\ UNCHANGED <<store, pos>>
    BY <1>4 DEF StrLock, sinks
  <2>2. reader = None
    BY <2>1, LogAssumption DEF IInv, ReadersLock, TypeOK
  <2> QED
    BY <2>1, <2>2, SameText DEF Reading!Next, Reading!Open
<1>5. ASSUME NEW t \in Threads, Take(t) PROVE Reading!Next
  <2>1. reader = t /\ UNCHANGED reader /\ pos' = 0 /\ store' = <<>>
    BY <1>5 DEF Take
  <2>2. Text' = <<>>
    BY <2>1 DEF Text
  <2> QED
    BY <2>1, <2>2, LogAssumption DEF Reading!Next, Reading!Clear
<1>6. ASSUME NEW t \in Threads, Release(t) PROVE Reading!Next
  BY <1>6, SameText, LogAssumption DEF Release, LetGo, sinks, Reading!Next, Reading!Close
<1>7. ASSUME NEW t \in Threads, EndError(t) PROVE Reading!Next \/ UNCHANGED <<Text, reader>>
  <2>1. UNCHANGED <<store, pos>>
    BY <1>7 DEF EndError
  <2>2. (reader = t /\ reader' = None) \/ UNCHANGED reader
    BY <1>7 DEF EndError, LetGo
  <2> QED
    BY <2>1, <2>2, SameText, LogAssumption DEF Reading!Next, Reading!Close
<1>8. ASSUME NEW t \in Threads, PumpTerm(t) \/ Lock(t) \/ ErrorLine(t)
      PROVE  UNCHANGED <<store, pos, reader>>
  BY <1>8 DEF PumpTerm, Lock, ErrorLine, sinks
<1>9. ASSUME NEW t \in Threads, Begin(t), ~Take(t)
      PROVE  UNCHANGED <<store, pos, reader>>
  BY <1>9 DEF Begin, PrintTo, Write, OpenProxy, Stream, CloseProxy, Str, Fail, FindMissing,
              AddChannel, SetLevel, sinks
<1>10. CASE UNCHANGED vars
  BY <1>1, <1>10 DEF vars, sinks
<1> QED
  BY <1>1, <1>2, <1>3, <1>4, <1>5, <1>6, <1>7, <1>8, <1>9, <1>10 DEF Next, Step

LEMMA InitReads == Init => Reading!Init
<1>1. SubSeq(<<>>, 1, 0) = <<>>
  OBVIOUS
<1> QED
  BY <1>1 DEF Init, Text, Reading!Init

(* Whatever the threads do, the log string only grows, and stands still    *)
(* while a reader is held (ImplementsSharedText of Log).                   *)
THEOREM ReadersSeeSharedText == Spec => ImplementsSharedText
<1>1. Spec => Reading!Init /\ [][Reading!Next]_<<Text, reader>>
  BY InitReads, StepReads, Inductive, PTL DEF Spec, Safety
<1> QED
  BY <1>1 DEF ImplementsSharedText, Reading!Spec

-----------------------------------------------------------------------------
(* What of a text a thread has logged: Of, by recursion on the text.       *)

(* f[k] is what t has in the first k characters of a text, for k up to n.  *)
PicksTo(t, text, f, n) ==
  /\ f[0] = <<>>
  /\ \A k \in 1 .. n :
       f[k] = IF text[k][1] = t THEN Append(f[k - 1], text[k]) ELSE f[k - 1]

Picks(t, text, f) == PicksTo(t, text, f, Len(text))

(* The same of a set S of sequences and of any first one.                  *)
Picked(g, t, n, S, a, text) ==
  /\ g \in [0 .. n -> S]
  /\ g[0] = a
  /\ \A k \in 1 .. n :
       g[k] = IF text[k][1] = t THEN Append(g[k - 1], text[k]) ELSE g[k - 1]

LEMMA CanPick ==
  ASSUME NEW t, NEW n \in Nat, NEW S, NEW a \in S, NEW text,
         \A k \in 1 .. n : \A s \in S : Append(s, text[k]) \in S
  PROVE  \E g : Picked(g, t, n, S, a, text)
  <1> DEFINE next(k, s) == IF text[k][1] = t THEN Append(s, text[k]) ELSE s
             step == [k \in 1 .. n |-> [s \in S |-> next(k, s)]]
  <1>1. \A k \in 1 .. n : \A s \in S : next(k, s) \in S
    OBVIOUS
  <1> HIDE DEF next
  <1>2. StepsIn(step, n, S)
    BY <1>1 DEF StepsIn
  <1>3. \A k \in 1 .. n : \A s \in S : step[k][s] = next(k, s)
    OBVIOUS
  <1> HIDE DEF step
  <1>4. PICK g : Iterates(g, step, n, S, a)
    BY <1>2, NamedIteration
  <1>5. g \in [0 .. n -> S] /\ g[0] = a /\ \A k \in 1 .. n : g[k] = step[k][g[k - 1]]
    BY <1>4 DEF Iterates
  <1>6. ASSUME NEW k \in 1 .. n PROVE g[k] = next(k, g[k - 1])
    <2>1. g[k - 1] \in S
      BY <1>5
    <2> QED
      BY <1>3, <1>5, <2>1
  <1>7. Picked(g, t, n, S, a, text)
    BY <1>6, <1>5 DEF next, Picked
  <1> QED
    BY <1>7

(* Of is computed by such a function: there is one, it satisfies the       *)
(* recursive definition, and two that satisfy it agree.                    *)
LEMMA OfDef ==
  ASSUME NEW t, NEW text \in Seq(Chars)
  PROVE  \E f \in [0 .. Len(text) -> Seq(Chars)] :
           Picks(t, text, f) /\ Of(t, text) = f[Len(text)]
  <1> DEFINE n == Len(text)
             S == Seq(Chars)
             F(g) == [k \in 0 .. n |->
                        IF k = 0 THEN <<>>
                        ELSE IF text[k][1] = t THEN Append(g[k - 1], text[k]) ELSE g[k - 1]]
  <1>1. n \in Nat /\ <<>> \in S /\ \A k \in 1 .. n : text[k] \in Chars
    OBVIOUS
  <1>2. \A k \in 1 .. n : \A s \in S : Append(s, text[k]) \in S
    BY <1>1
  <1> HIDE DEF S, n
  <1>4. PICK g : Picked(g, t, n, S, <<>>, text)
    BY <1>1, <1>2, CanPick
  <1>3. g \in [0 .. n -> S] /\ g[0] = <<>>
    BY <1>4 DEF Picked
  <1>5. \A k \in 1 .. n : g[k] = IF text[k][1] = t THEN Append(g[k - 1], text[k]) ELSE g[k - 1]
    BY <1>4 DEF Picked
  <1>6. g = F(g)
    <2>1. \A k \in 0 .. n : k # 0 => k \in 1 .. n
      BY <1>1
    <2>2. \A k \in 0 .. n : g[k] = F(g)[k]
      BY <1>3, <1>5, <2>1
    <2>3. g = [k \in 0 .. n |-> g[k]]
      BY <1>3
    <2> QED
      BY <2>2, <2>3
  <1>7. PICK w : w = F(w) /\ Of(t, text) = w[n]
    <2> DEFINE h == CHOOSE x : x = F(x)
    <2>1. Of(t, text) = h[n]
      BY DEF Of, n
    <2>2. h = F(h)
      <3> HIDE DEF F
      <3> QED
        BY <1>6
    <2> HIDE DEF h, F
    <2> QED
      BY <2>1, <2>2
  <1>8. w[0] = <<>>
    BY <1>1, <1>7
  <1>9. ASSUME NEW k \in 1 .. n
        PROVE  w[k] = IF text[k][1] = t THEN Append(w[k - 1], text[k]) ELSE w[k - 1]
    <2>1. k \in 0 .. n /\ k # 0
      BY <1>1
    <2>2. w[k] = F(w)[k]
      BY <1>7
    <2>3. F(w)[k] = IF text[k][1] = t THEN Append(w[k - 1], text[k]) ELSE w[k - 1]
      BY <2>1
    <2> QED
      BY <2>2, <2>3
  <1> DEFINE T == {k \in Nat : k <= n => w[k] = g[k]}
  <1>10. 0 \in T
    BY <1>3, <1>8
  <1>11. \A k \in Nat : k \in T => k + 1 \in T
    <2> SUFFICES ASSUME NEW k \in Nat, k \in T, k + 1 <= n PROVE w[k + 1] = g[k + 1]
      OBVIOUS
    <2>1. k + 1 \in 1 .. n /\ (k + 1) - 1 = k /\ w[k] = g[k]
      BY <1>1
    <2> QED
      BY <1>5, <1>9, <2>1
  <1>12. \A k \in Nat : k \in T
    <2> HIDE DEF T
    <2> QED
      BY <1>10, <1>11, SetInduction
  <1>13. w[n] = g[n]
    BY <1>1, <1>12
  <1> QED
    BY <1>3, <1>5, <1>7, <1>13 DEF n, S, Picks, PicksTo

(* Texts that agree up to n have the same of t up to n.                    *)
LEMMA PicksAgree ==
  ASSUME NEW t, NEW n \in Nat, NEW x, NEW y, \A i \in 1 .. n : x[i] = y[i],
         NEW f, PicksTo(t, x, f, n), NEW g, PicksTo(t, y, g, n)
  PROVE  f[n] = g[n]
<1> DEFINE T == {k \in 0 .. n : f[k] = g[k]}
<1>1. 0 \in T
  BY DEF PicksTo
<1>2. ASSUME NEW k \in 0 .. n - 1, k \in T PROVE k + 1 \in T
  <2>1. PICK j : j = k + 1
    OBVIOUS
  <2>2. j \in 1 .. n /\ j - 1 = k /\ j \in 0 .. n
    BY <2>1
  <2>3. f[j - 1] = g[j - 1]
    BY <1>2, <2>2
  <2>4. f[j] = g[j]
    BY <2>2, <2>3 DEF PicksTo
  <2> QED
    BY <2>1, <2>2, <2>4
<1>3. \A k \in 0 .. n : k \in T
  <2> HIDE DEF T
  <2> QED
    BY <1>1, <1>2, IntervalInduction
<1> QED
  BY <1>3

LEMMA OfIsText ==
  ASSUME NEW t, NEW text \in Seq(Chars)
  PROVE  Of(t, text) \in Seq(Chars)
<1>1. PICK f \in [0 .. Len(text) -> Seq(Chars)] :
        Picks(t, text, f) /\ Of(t, text) = f[Len(text)]
  BY OfDef
<1>2. Len(text) \in 0 .. Len(text)
  OBVIOUS
<1> QED
  BY <1>1, <1>2

LEMMA OfEmpty ==
  ASSUME NEW t
  PROVE  Of(t, <<>>) = <<>>
<1>1. <<>> \in Seq(Chars) /\ Len(<<>>) = 0
  OBVIOUS
<1>2. PICK f : Picks(t, <<>>, f) /\ Of(t, <<>>) = f[Len(<<>>)]
  BY <1>1, OfDef
<1> QED
  BY <1>1, <1>2 DEF Picks, PicksTo

(* A character more, a text more.                                          *)
LEMMA OfAppend ==
  ASSUME NEW t, NEW text \in Seq(Chars), NEW c \in Chars
  PROVE  Of(t, Append(text, c)) = IF c[1] = t THEN Append(Of(t, text), c) ELSE Of(t, text)
<1> DEFINE n == Len(text)
           x == Append(text, c)
<1>1. n \in Nat /\ x \in Seq(Chars) /\ Len(x) = n + 1 /\ x[n + 1] = c
      /\ \A i \in 1 .. n : x[i] = text[i]
  BY AppendProperties
<1> HIDE DEF n, x
<1>2. PICK f : Picks(t, text, f) /\ Of(t, text) = f[n]
  BY OfDef DEF n
<1>3. PICK g : Picks(t, x, g) /\ Of(t, x) = g[Len(x)]
  BY <1>1, OfDef
<1>4. g[0] = <<>> /\ \A k \in 1 .. n + 1 : g[k] = IF x[k][1] = t THEN Append(g[k - 1], x[k]) ELSE g[k - 1]
  BY <1>1, <1>3 DEF Picks, PicksTo
<1>5. f[0] = <<>> /\ \A k \in 1 .. n : f[k] = IF text[k][1] = t THEN Append(f[k - 1], text[k]) ELSE f[k - 1]
  BY <1>2 DEF Picks, PicksTo, n
<1>6. \A k \in 1 .. n : g[k] = IF x[k][1] = t THEN Append(g[k - 1], x[k]) ELSE g[k - 1]
  BY <1>1, <1>4
<1>7. g[n] = f[n]
  <2>1. n \in Nat /\ \A i \in 1 .. n : x[i] = text[i]
    BY <1>1
  <2> QED
    <3>1. PicksTo(t, x, g, n) /\ PicksTo(t, text, f, n)
      BY <1>4, <1>5, <1>6 DEF PicksTo
    <3> QED
      BY <2>1, <3>1, PicksAgree
<1>8. g[n + 1] = IF c[1] = t THEN Append(g[n], c) ELSE g[n]
  <2>1. PICK j : j = n + 1
    OBVIOUS
  <2>2. j \in 1 .. n + 1 /\ j - 1 = n /\ x[j] = c
    BY <1>1, <2>1
  <2>3. g[j] = IF x[j][1] = t THEN Append(g[j - 1], x[j]) ELSE g[j - 1]
    BY <1>4, <2>2
  <2> QED
    BY <2>1, <2>2, <2>3
<1>9. Of(t, x) = g[n + 1]
  BY <1>1, <1>3
<1> QED
  BY <1>2, <1>7, <1>8, <1>9 DEF x

LEMMA OfConcat ==
  ASSUME NEW t, NEW a \in Seq(Chars), NEW b \in Seq(Chars)
  PROVE  Of(t, a \o b) = Of(t, a) \o Of(t, b)
<1> DEFINE T == {s \in Seq(Chars) : Of(t, a \o s) = Of(t, a) \o Of(t, s)}
<1>1. <<>> \in T
  <2>1. a \o <<>> = a /\ Of(t, a) \o <<>> = Of(t, a)
    BY OfIsText, ConcatEmptySeq
  <2>2. <<>> \in Seq(Chars)
    OBVIOUS
  <2>3. Of(t, <<>>) = <<>>
    BY OfEmpty
  <2>4. Of(t, a \o <<>>) = Of(t, a) \o Of(t, <<>>)
    BY <2>1, <2>3
  <2> QED
    BY <2>2, <2>4
<1>2. ASSUME NEW s \in Seq(Chars), s \in T, NEW c \in Chars PROVE Append(s, c) \in T
  <2>1. Append(s, c) \in Seq(Chars) /\ a \o s \in Seq(Chars)
    OBVIOUS
  <2>2. a \o Append(s, c) = Append(a \o s, c)
    <3>1. Append(s, c) = s \o <<c>> /\ Append(a \o s, c) = (a \o s) \o <<c>>
      BY <2>1, AppendIsConcat
    <3>2. <<c>> \in Seq(Chars)
      OBVIOUS
    <3>3. (a \o s) \o <<c>> = a \o (s \o <<c>>)
      BY <3>2, ConcatAssociative
    <3> QED
      BY <3>1, <3>3
  <2>3. Of(t, Append(a \o s, c)) = IF c[1] = t THEN Append(Of(t, a \o s), c) ELSE Of(t, a \o s)
    BY <2>1, OfAppend
  <2>4. Of(t, Append(s, c)) = IF c[1] = t THEN Append(Of(t, s), c) ELSE Of(t, s)
    BY OfAppend
  <2>5. Of(t, a \o s) = Of(t, a) \o Of(t, s)
    BY <1>2
  <2>6. Append(Of(t, a) \o Of(t, s), c) = Of(t, a) \o Append(Of(t, s), c)
    <3>1. PICK u : u = Of(t, a)
      OBVIOUS
    <3>2. PICK v : v = Of(t, s)
      OBVIOUS
    <3>3. u \in Seq(Chars) /\ v \in Seq(Chars) /\ <<c>> \in Seq(Chars) /\ u \o v \in Seq(Chars)
      BY <3>1, <3>2, OfIsText
    <3>4. (u \o v) \o <<c>> = u \o (v \o <<c>>)
      BY <3>3, ConcatAssociative, SMTT(40)
    <3>5. Append(v, c) = v \o <<c>> /\ Append(u \o v, c) = (u \o v) \o <<c>>
      BY <3>3, AppendIsConcat
    <3> QED
      BY <3>1, <3>2, <3>4, <3>5
  <2>7. Of(t, a \o Append(s, c)) = Of(t, a) \o Of(t, Append(s, c))
    BY <2>2, <2>3, <2>4, <2>5, <2>6
  <2> QED
    BY <2>1, <2>7
<1>3. \A s \in Seq(Chars) : s \in T
  <2> HIDE DEF T
  <2> QED
    BY <1>1, <1>2, AppendInduction
<1> QED
  BY <1>3

(* All of a text that only t has logged, and nothing of one that t has     *)
(* logged nothing of.                                                      *)
LEMMA OfOwn ==
  ASSUME NEW t, NEW text \in Seq(Chars), \A i \in 1 .. Len(text) : text[i][1] = t
  PROVE  Of(t, text) = text
<1> DEFINE T == {s \in Seq(Chars) : (\A i \in 1 .. Len(s) : s[i][1] = t) => Of(t, s) = s}
<1>1. <<>> \in T
  BY OfEmpty
<1>2. ASSUME NEW s \in Seq(Chars), s \in T, NEW c \in Chars PROVE Append(s, c) \in T
  <2>1. /\ Append(s, c) \in Seq(Chars) /\ Len(Append(s, c)) = Len(s) + 1 /\ Len(s) \in Nat
        /\ \A i \in 1 .. Len(s) : Append(s, c)[i] = s[i]
        /\ Append(s, c)[Len(s) + 1] = c
    BY AppendProperties
  <2>2. SUFFICES ASSUME \A i \in 1 .. Len(s) + 1 : Append(s, c)[i][1] = t
                 PROVE  Of(t, Append(s, c)) = Append(s, c)
    BY <2>1
  <2>3. \A i \in 1 .. Len(s) : s[i][1] = t
    BY <2>1, <2>2
  <2>4. Len(s) + 1 \in 1 .. Len(s) + 1
    BY <2>1
  <2>5. c[1] = t
    BY <2>1, <2>2, <2>4
  <2> QED
    BY <1>2, <2>3, <2>5, OfAppend
<1>3. \A s \in Seq(Chars) : s \in T
  <2> HIDE DEF T
  <2> QED
    BY <1>1, <1>2, AppendInduction
<1> QED
  BY <1>3

LEMMA OfOthers ==
  ASSUME NEW t, NEW text \in Seq(Chars), \A i \in 1 .. Len(text) : text[i][1] # t
  PROVE  Of(t, text) = <<>>
<1> DEFINE T == {s \in Seq(Chars) : (\A i \in 1 .. Len(s) : s[i][1] # t) => Of(t, s) = <<>>}
<1>1. <<>> \in T
  BY OfEmpty
<1>2. ASSUME NEW s \in Seq(Chars), s \in T, NEW c \in Chars PROVE Append(s, c) \in T
  <2>1. /\ Append(s, c) \in Seq(Chars) /\ Len(Append(s, c)) = Len(s) + 1 /\ Len(s) \in Nat
        /\ \A i \in 1 .. Len(s) : Append(s, c)[i] = s[i]
        /\ Append(s, c)[Len(s) + 1] = c
    BY AppendProperties
  <2>2. SUFFICES ASSUME \A i \in 1 .. Len(s) + 1 : Append(s, c)[i][1] # t
                 PROVE  Of(t, Append(s, c)) = <<>>
    BY <2>1
  <2>3. \A i \in 1 .. Len(s) : s[i][1] # t
    BY <2>1, <2>2
  <2>4. Len(s) + 1 \in 1 .. Len(s) + 1
    BY <2>1
  <2>5. c[1] # t
    BY <2>1, <2>2, <2>4
  <2> QED
    BY <1>2, <2>3, <2>5, OfAppend
<1>3. \A s \in Seq(Chars) : s \in T
  <2> HIDE DEF T
  <2> QED
    BY <1>1, <1>2, AppendInduction
<1> QED
  BY <1>3

-----------------------------------------------------------------------------
(* Nothing that is logged is lost.                                         *)

OwnText(t, text) == \A i \in 1 .. Len(text) : text[i][1] = t

(* A buffer has what its own thread says.                                  *)
BuffersAreOwn == \A t \in Threads : OwnText(t, buf[t])

(* pump() was given all that the buffer has.                               *)
Pumping == {"pump", "lock", "copy", "advance"}
PumpsAll == \A t \in Threads : pc[t] \in Pumping => size[t] = Len(buf[t])

(* What is behind pos is what the thread at pc = advance has to say.       *)
CopiedOwn == \A t \in Threads : pc[t] = "advance" => store = Text \o Chunk(t)

KeptInv == BuffersAreOwn /\ PumpsAll /\ NothingLost

Late == {"lock", "copy", "advance"}

LEMMA OwnConcat ==
  ASSUME NEW t, NEW a \in Seq(Chars), NEW b \in Seq(Chars), OwnText(t, a), OwnText(t, b)
  PROVE  OwnText(t, a \o b)
<1>1. /\ Len(a \o b) = Len(a) + Len(b) /\ Len(a) \in Nat /\ Len(b) \in Nat
      /\ \A i \in 1 .. Len(a) + Len(b) :
           (a \o b)[i] = IF i <= Len(a) THEN a[i] ELSE b[i - Len(a)]
  BY ConcatProperties
<1>2. ASSUME NEW i \in 1 .. Len(a) + Len(b) PROVE (a \o b)[i][1] = t
  <2>1. CASE i <= Len(a)
    <3>1. i \in 1 .. Len(a)
      BY <1>1, <2>1
    <3> QED
      BY <1>1, <2>1, <3>1 DEF OwnText
  <2>2. CASE i > Len(a)
    <3>1. PICK j : j = i - Len(a)
      OBVIOUS
    <3>2. j \in 1 .. Len(b) /\ ~(i <= Len(a))
      BY <1>1, <2>2, <3>1
    <3>3. b[j][1] = t
      BY <3>2 DEF OwnText
    <3> QED
      BY <1>1, <3>1, <3>2, <3>3
  <2> QED
    BY <1>1, <2>1, <2>2
<1> QED
  BY <1>1, <1>2 DEF OwnText

LEMMA SpeechIsOwn ==
  ASSUME NEW t \in Threads, NEW h, calls' \in ThreadType(Nat)
  PROVE  /\ Prefix(t, h) \in Seq(Chars) /\ OwnText(t, Prefix(t, h))
         /\ Line(t) \in Seq(Chars) /\ OwnText(t, Line(t)) /\ Len(Line(t)) = Body
         /\ Prefix(t, h) \o Line(t) \in Seq(Chars)
         /\ OwnText(t, Prefix(t, h) \o Line(t))
<1>1. calls'[t] \in Nat
  BY DEF ThreadType
<1>2. Prefix(t, h) \in Seq(Chars) /\ Line(t) \in Seq(Chars) /\ Len(Line(t)) = Body
  BY <1>1, PrefixIsText, LineIsText DEF Line
<1>3. OwnText(t, Prefix(t, h))
  <2>1. OwnText(t, << <<t, calls'[t], 0>> >>) /\ OwnText(t, <<>>)
    BY DEF OwnText
  <2> QED
    BY <2>1 DEF Prefix
<1>4. OwnText(t, Line(t))
  <2>1. \A k \in 1 .. Body : Line(t)[k] = <<t, calls'[t], k>>
    BY DEF Line
  <2> QED
    BY <1>2, <2>1 DEF OwnText
<1>5. Prefix(t, h) \o Line(t) \in Seq(Chars)
  BY <1>2
<1> QED
  BY <1>2, <1>3, <1>4, <1>5, OwnConcat

(* The buffer of one thread says nothing of another.                       *)
LEMMA OfAnother ==
  ASSUME NEW t, NEW u, u # t, NEW text \in Seq(Chars), OwnText(t, text)
  PROVE  Of(u, text) = <<>>
BY OfOthers DEF OwnText

LEMMA LoggedIsText ==
  ASSUME TypeOK
  PROVE  Text \in Seq(Chars) /\ taken \in Seq(Chars) /\ Logged \in Seq(Chars) /\ term \in Seq(Chars)
<1>1. Text \in Seq(Chars) /\ taken \in Seq(Chars) /\ term \in Seq(Chars)
  BY TextIsText DEF TypeOK
<1> QED
  BY <1>1 DEF Logged

(* What a thread has yet to print to the terminal.                         *)
Unprinted(t) == IF pc[t] \in Late THEN <<>> ELSE buf[t]

LEMMA SameLogged ==
  ASSUME UNCHANGED <<store, pos, taken>>
  PROVE  UNCHANGED Logged
BY DEF Logged, Text

(* Steps of a thread that say nothing and write to neither sink.           *)
Moves(t) ==
  \/ UNCHANGED <<size, pc>>
  \/ pc[t] = "idle" /\ Pump(t, Len(buf[t]))
  \/ UNCHANGED size /\ pc[t] = "idle" /\ pc' = [pc EXCEPT ![t] = "str"]
  \/ UNCHANGED size /\ pc[t] = "str" /\ pc' = [pc EXCEPT ![t] = "idle"]
  \/ UNCHANGED size /\ pc[t] = "lock" /\ pc' = [pc EXCEPT ![t] = "copy"]

LEMMA MovesTo ==
  ASSUME TypeOK, NEW t \in Threads, Moves(t)
  PROVE  /\ \A u \in Threads \ {t} : pc'[u] = pc[u] /\ size'[u] = size[u]
         /\ pc'[t] \in Late <=> pc[t] \in Late
         /\ pc'[t] = "advance" => pc[t] = "advance" /\ size'[t] = size[t]
         /\ \/ pc[t] \in Pumping /\ size'[t] = size[t]
            \/ pc'[t] \notin Pumping
            \/ pc[t] = "idle" /\ pc'[t] = "pump" /\ size'[t] = Len(buf[t])
<1>1. pc \in [Threads -> Pcs] /\ size \in [Threads -> Nat]
  BY DEF TypeOK, ThreadType, Pcs
<1> QED
  BY <1>1 DEF Moves, Pump, Late, Pumping, Pcs

(* Every step keeps what was said.                                         *)
LEMMA QuietKeeps ==
  ASSUME IInv, KeptInv, NEW t \in Threads, Moves(t),
         UNCHANGED <<mode, store, pos, term, buf, said, taken>>
  PROVE  KeptInv'
<1>1. /\ \A u \in Threads \ {t} : pc'[u] = pc[u] /\ size'[u] = size[u]
      /\ pc'[t] \in Late <=> pc[t] \in Late
      /\ pc'[t] = "advance" => pc[t] = "advance" /\ size'[t] = size[t]
      /\ \/ pc[t] \in Pumping /\ size'[t] = size[t]
         \/ pc'[t] \notin Pumping
         \/ pc[t] = "idle" /\ pc'[t] = "pump" /\ size'[t] = Len(buf[t])
  BY MovesTo DEF IInv
<1>2. BuffersAreOwn'
  BY DEF KeptInv, BuffersAreOwn, OwnText
<1>3. PumpsAll'
  BY <1>1 DEF KeptInv, PumpsAll
<1>5. NothingLost'
  <2>1. Logged' = Logged
    BY SameLogged
  <2>2. \A u \in Threads : pc'[u] \in Late <=> pc[u] \in Late
    BY <1>1
  <2>3. "str" \in mode => \A u \in Threads : Of(u, Logged') \o buf'[u] = said'[u]
    BY <2>1 DEF KeptInv, NothingLost
  <2>4. "term" \in mode => \A u \in Threads : Of(u, term) \o Unprinted(u) = said[u]
    BY DEF KeptInv, NothingLost, Unprinted, Late
  <2>5. \A u \in Threads : Unprinted(u)' = Unprinted(u)
    BY <2>2 DEF Unprinted
  <2>6. "term" \in mode' => \A u \in Threads : Of(u, term') \o Unprinted(u)' = said'[u]
    BY <2>4, <2>5
  <2> QED
    BY <2>3, <2>6 DEF NothingLost, Unprinted, Late
<1> QED
  BY <1>2, <1>3, <1>5 DEF KeptInv

(* Steps that say something, and go on to pump it or not.                  *)
Speaks(t) ==
  \/ UNCHANGED <<size, pc>>
  \/ Pump(t, Len(buf'[t]))

LEMMA SayKeeps ==
  ASSUME IInv, KeptInv, NEW t \in Threads, pc[t] = "idle", Speaks(t),
         NEW text \in Seq(Chars), OwnText(t, text), Say(t, text),
         UNCHANGED <<mode, store, pos, term, taken>>
  PROVE  KeptInv'
<1>1. /\ pc \in [Threads -> Pcs] /\ size \in [Threads -> Nat]
      /\ buf \in [Threads -> Seq(Chars)] /\ said \in [Threads -> Seq(Chars)]
      /\ TypeOK
  BY DEF IInv, TypeOK, ThreadType, Pcs
<1>2. /\ \A u \in Threads \ {t} : pc'[u] = pc[u] /\ size'[u] = size[u]
      /\ pc'[t] \in {"idle", "pump"}
      /\ pc'[t] = "pump" => size'[t] = Len(buf'[t])
  BY <1>1 DEF Speaks, Pump, Pcs
<1>3. /\ \A u \in Threads \ {t} : buf'[u] = buf[u] /\ said'[u] = said[u]
      /\ buf'[t] = buf[t] \o text /\ said'[t] = said[t] \o text
  BY <1>1 DEF Say
<1>4. BuffersAreOwn'
  <2>1. OwnText(t, buf[t] \o text)
    BY <1>1, OwnConcat DEF KeptInv, BuffersAreOwn
  <2>2. \A u \in Threads : OwnText(u, buf'[u])
    BY <1>3, <2>1 DEF KeptInv, BuffersAreOwn
  <2> QED
    BY <2>2 DEF BuffersAreOwn, OwnText
<1>5. PumpsAll'
  BY <1>2, <1>3 DEF KeptInv, PumpsAll, Pumping
<1>7. NothingLost'
  <2>1. Logged' = Logged
    BY SameLogged
  <2>2. Logged \in Seq(Chars) /\ term \in Seq(Chars)
    BY <1>1, LoggedIsText
  <2>3. ASSUME NEW x \in Seq(Chars) PROVE x \o buf'[t] = (x \o buf[t]) \o text
    <3>1. PICK b : b = buf[t]
      OBVIOUS
    <3>2. b \in Seq(Chars) /\ buf'[t] = b \o text
      BY <1>1, <1>3, <3>1
    <3>3. (x \o b) \o text = x \o (b \o text)
      BY <3>2, ConcatAssociative
    <3> QED
      BY <3>1, <3>2, <3>3
  <2>4. "str" \in mode => \A u \in Threads : Of(u, Logged) \o buf'[u] = said'[u]
    <3> SUFFICES ASSUME "str" \in mode, NEW u \in Threads PROVE Of(u, Logged) \o buf'[u] = said'[u]
      OBVIOUS
    <3>1. Of(u, Logged) \o buf[u] = said[u]
      BY DEF KeptInv, NothingLost
    <3>2. Of(u, Logged) \in Seq(Chars)
      BY <2>2, OfIsText
    <3> QED
      BY <1>3, <2>3, <3>1, <3>2
  <2>5. "term" \in mode => \A u \in Threads : Of(u, term) \o Unprinted(u)' = said'[u]
    <3> SUFFICES ASSUME "term" \in mode, NEW u \in Threads PROVE Of(u, term) \o Unprinted(u)' = said'[u]
      OBVIOUS
    <3>1. Of(u, term) \o Unprinted(u) = said[u]
      BY DEF KeptInv, NothingLost, Unprinted, Late
    <3>2. Of(u, term) \in Seq(Chars)
      BY <2>2, OfIsText
    <3>3. CASE u = t
      <4>1. Unprinted(u) = buf[t] /\ Unprinted(u)' = buf'[t]
        BY <1>2, <3>3 DEF Unprinted, Late
      <4> QED
        BY <1>3, <2>3, <3>1, <3>2, <3>3, <4>1
    <3>4. CASE u # t
      <4>1. Unprinted(u)' = Unprinted(u) /\ said'[u] = said[u]
        BY <1>2, <1>3, <3>4 DEF Unprinted
      <4> QED
        BY <3>1, <4>1
    <3> QED
      BY <3>3, <3>4
  <2>6. "str" \in mode' => \A u \in Threads : Of(u, Logged') \o buf'[u] = said'[u]
    BY <2>1, <2>4
  <2>7. "term" \in mode' => \A u \in Threads : Of(u, term') \o Unprinted(u)' = said'[u]
    BY <2>5
  <2> QED
    BY <2>6, <2>7 DEF NothingLost, Unprinted, Late
<1> QED
  BY <1>4, <1>5, <1>7 DEF KeptInv

LEMMA ChunkIsAll ==
  ASSUME IInv, KeptInv, NEW t \in Threads, pc[t] \in Pumping
  PROVE  /\ Chunk(t) = buf[t] /\ buf[t] \in Seq(Chars)
         /\ Of(t, buf[t]) = buf[t]
         /\ \A u \in Threads \ {t} : Of(u, buf[t]) = <<>>
<1>1. buf[t] \in Seq(Chars) /\ size[t] = Len(buf[t])
  BY DEF IInv, TypeOK, ThreadType, KeptInv, PumpsAll
<1>2. Chunk(t) = buf[t]
  BY <1>1, SubSeqFull DEF Chunk
<1>3. OwnText(t, buf[t])
  BY DEF KeptInv, BuffersAreOwn
<1>4. Of(t, buf[t]) = buf[t]
  BY <1>1, <1>3, OfOwn DEF OwnText
<1>5. \A u \in Threads \ {t} : Of(u, buf[t]) = <<>>
  BY <1>1, <1>3, OfAnother
<1> QED
  BY <1>1, <1>2, <1>4, <1>5

(* A sink of a thread's buffer gets what the thread says, and of the       *)
(* others it gets nothing.                                                 *)
LEMMA SinkOfChunk ==
  ASSUME IInv, KeptInv, NEW t \in Threads, pc[t] \in Pumping, NEW sink \in Seq(Chars)
  PROVE  /\ Of(t, sink \o Chunk(t)) = Of(t, sink) \o buf[t]
         /\ \A u \in Threads \ {t} : Of(u, sink \o Chunk(t)) = Of(u, sink)
<1>1. /\ Chunk(t) = buf[t] /\ buf[t] \in Seq(Chars)
      /\ Of(t, buf[t]) = buf[t]
      /\ \A u \in Threads \ {t} : Of(u, buf[t]) = <<>>
  BY ChunkIsAll
<1>2. \A u \in Threads : Of(u, sink \o buf[t]) = Of(u, sink) \o Of(u, buf[t])
  BY <1>1, OfConcat
<1>3. \A u \in Threads : Of(u, sink) \o <<>> = Of(u, sink)
  BY OfIsText, ConcatEmptySeq
<1>4. Of(t, sink \o buf[t]) = Of(t, sink) \o buf[t]
  BY <1>1, <1>2
<1>5. ASSUME NEW u \in Threads \ {t} PROVE Of(u, sink \o buf[t]) = Of(u, sink)
  BY <1>1, <1>2, <1>3
<1> QED
  BY <1>1, <1>4, <1>5

LEMMA PumpedMoves ==
  ASSUME TypeOK, NEW t \in Threads, Pumped(t)
  PROVE  /\ \A u \in Threads \ {t} : pc'[u] = pc[u] /\ size'[u] = size[u] /\ buf'[u] = buf[u]
         /\ pc'[t] = "idle" /\ buf'[t] = <<>>
BY DEF TypeOK, ThreadType, Pumped

LEMMA PumpTermKeeps ==
  ASSUME IInv, KeptInv, NEW t \in Threads, PumpTerm(t)
  PROVE  KeptInv'
<1>1. /\ pc[t] = "pump" /\ UNCHANGED <<mode, store, pos, taken, said>>
      /\ term' = IF "term" \in mode THEN term \o Chunk(t) ELSE term
  BY DEF PumpTerm, At, shared
<1>2. pc[t] \in Pumping
  BY <1>1 DEF Pumping
<1>3. pc \in [Threads -> Pcs] /\ size \in [Threads -> Nat] /\ buf \in [Threads -> Seq(Chars)] /\ TypeOK
  BY DEF IInv, TypeOK, ThreadType, Pcs
<1>4. /\ \A u \in Threads \ {t} : pc'[u] = pc[u] /\ size'[u] = size[u] /\ buf'[u] = buf[u]
      /\ \/ "str" \in mode /\ pc'[t] = "lock" /\ buf'[t] = buf[t] /\ size'[t] = size[t]
         \/ "str" \notin mode /\ pc'[t] = "idle" /\ buf'[t] = <<>>
  <2>1. CASE "str" \in mode
    BY <1>3, <2>1 DEF PumpTerm
  <2>2. CASE "str" \notin mode
    <3>1. Pumped(t)
      BY <2>2 DEF PumpTerm
    <3> QED
      BY <1>3, <2>2, <3>1, PumpedMoves
  <2> QED
    BY <2>1, <2>2
<1>5. BuffersAreOwn'
  <2>1. OwnText(t, <<>>)
    BY DEF OwnText
  <2>2. \A u \in Threads : OwnText(u, buf'[u])
    BY <1>4, <2>1 DEF KeptInv, BuffersAreOwn
  <2> QED
    BY <2>2 DEF BuffersAreOwn, OwnText
<1>6. PumpsAll'
  BY <1>2, <1>4 DEF KeptInv, PumpsAll, Pumping
<1>8. NothingLost'
  <2>1. Logged' = Logged
    BY <1>1, SameLogged
  <2>2. "str" \in mode' => \A u \in Threads : Of(u, Logged') \o buf'[u] = said'[u]
    BY <1>1, <1>4, <2>1 DEF KeptInv, NothingLost
  <2>3. "term" \in mode' => \A u \in Threads : Of(u, term') \o Unprinted(u)' = said'[u]
    <3> SUFFICES ASSUME "term" \in mode, NEW u \in Threads PROVE Of(u, term') \o Unprinted(u)' = said[u]
      BY <1>1
    <3>1. Of(u, term) \o Unprinted(u) = said[u]
      BY DEF KeptInv, NothingLost, Unprinted, Late
    <3>2. term' = term \o Chunk(t) /\ term \in Seq(Chars)
      BY <1>1, <1>3, LoggedIsText
    <3>3. CASE u = t
      <4>1. Of(u, term') = Of(t, term) \o buf[t]
        BY <1>2, <3>2, <3>3, SinkOfChunk
      <4>2. Unprinted(u) = buf[t] /\ Unprinted(u)' = <<>>
        BY <1>1, <1>4, <3>3 DEF Unprinted, Late
      <4>3. Of(t, term) \o buf[t] \in Seq(Chars)
        BY <1>3, <3>2, OfIsText, ConcatProperties
      <4> QED
        BY <3>1, <3>3, <4>1, <4>2, <4>3, ConcatEmptySeq
    <3>4. CASE u # t
      <4>1. Of(u, term') = Of(u, term)
        BY <1>2, <3>2, <3>4, SinkOfChunk
      <4>2. Unprinted(u)' = Unprinted(u)
        BY <1>4, <3>4 DEF Unprinted
      <4> QED
        BY <3>1, <4>1, <4>2
    <3> QED
      BY <3>3, <3>4
  <2> QED
    BY <2>2, <2>3 DEF NothingLost, Unprinted, Late
<1> QED
  BY <1>5, <1>6, <1>8 DEF KeptInv

LEMMA CopyKeeps ==
  ASSUME IInv, KeptInv, NEW t \in Threads, Copy(t)
  PROVE  KeptInv'
<1>1. /\ pc[t] = "copy" /\ pc' = [pc EXCEPT ![t] = "advance"]
      /\ store' = Text \o Chunk(t)
      /\ UNCHANGED <<mode, term, taken, said, buf, size>>
  BY DEF Copy, At, shared
<1>2. pc \in [Threads -> Pcs]
  BY DEF IInv, TypeOK, ThreadType, Pcs
<1>3. pc'[t] = "advance" /\ \A u \in Threads \ {t} : pc'[u] = pc[u] /\ pc[u] # "advance"
  BY <1>1, <1>2 DEF IInv, WritersLock
<1>4. Text' = Text
  BY CopyLeavesText
<1>5. BuffersAreOwn'
  BY <1>1 DEF KeptInv, BuffersAreOwn, OwnText
<1>6. PumpsAll'
  BY <1>1, <1>3 DEF KeptInv, PumpsAll, Pumping
<1>8. NothingLost'
  <2>1. Logged' = Logged
    BY <1>1, <1>4 DEF Logged
  <2>2. \A u \in Threads : pc'[u] \in Late <=> pc[u] \in Late
    BY <1>1, <1>3 DEF Late
  <2>3. "str" \in mode' => \A u \in Threads : Of(u, Logged') \o buf'[u] = said'[u]
    BY <1>1, <2>1 DEF KeptInv, NothingLost
  <2>4. "term" \in mode => \A u \in Threads : Of(u, term) \o Unprinted(u) = said[u]
    BY DEF KeptInv, NothingLost, Unprinted, Late
  <2>5. \A u \in Threads : Unprinted(u)' = Unprinted(u)
    BY <1>1, <2>2 DEF Unprinted
  <2>6. "term" \in mode' => \A u \in Threads : Of(u, term') \o Unprinted(u)' = said'[u]
    BY <1>1, <2>4, <2>5
  <2> QED
    BY <2>3, <2>6 DEF NothingLost, Unprinted, Late
<1> QED
  BY <1>5, <1>6, <1>8 DEF KeptInv

(* What was behind pos is now logged.                                      *)
LEMMA AdvanceAddsText ==
  ASSUME IInv, CopiedOwn, NEW t \in Threads, Advance(t)
  PROVE  Text' = Text \o Chunk(t)
<1>1. /\ pc[t] = "advance" /\ pos' = pos + size[t] /\ UNCHANGED store
  BY DEF Advance, At, NextPos
<1>2. store \in Seq(Chars) /\ Len(store) = pos + size[t] /\ store = Text \o Chunk(t)
  BY <1>1 DEF IInv, TypeOK, PosIsBehind, CopiedOwn
<1>3. Text' = SubSeq(store, 1, Len(store))
  BY <1>1, <1>2 DEF Text
<1> QED
  BY <1>2, <1>3, SubSeqFull

LEMMA AdvanceLogs ==
  ASSUME IInv, CopiedOwn, NEW t \in Threads, Advance(t)
  PROVE  Logged' = Logged \o Chunk(t)
<1>1. Text' = Text \o Chunk(t) /\ UNCHANGED taken
  BY AdvanceAddsText DEF Advance
<1>2. taken \in Seq(Chars) /\ Text \in Seq(Chars) /\ Chunk(t) \in Seq(Chars)
  BY LoggedIsText, ChunkIsText DEF IInv
<1>3. taken \o (Text \o Chunk(t)) = (taken \o Text) \o Chunk(t)
  BY <1>2, ConcatAssociative, SMTT(40)
<1> QED
  BY <1>1, <1>3 DEF Logged

LEMMA AdvanceKeeps ==
  ASSUME IInv, CopiedOwn, KeptInv, NEW t \in Threads, Advance(t)
  PROVE  KeptInv'
<1>1. /\ pc[t] = "advance" /\ UNCHANGED <<mode, term, said>> /\ Pumped(t)
  BY DEF Advance, At, shared
<1>2. pc[t] \in Pumping /\ TypeOK
  BY <1>1 DEF Pumping, IInv
<1>3. /\ \A u \in Threads \ {t} : pc'[u] = pc[u] /\ size'[u] = size[u] /\ buf'[u] = buf[u]
      /\ pc'[t] = "idle" /\ buf'[t] = <<>>
  BY <1>1, <1>2, PumpedMoves
<1>5. BuffersAreOwn'
  <2>1. OwnText(t, <<>>)
    BY DEF OwnText
  <2>2. \A u \in Threads : OwnText(u, buf'[u])
    BY <1>3, <2>1 DEF KeptInv, BuffersAreOwn
  <2> QED
    BY <2>2 DEF BuffersAreOwn, OwnText
<1>6. PumpsAll'
  BY <1>3 DEF KeptInv, PumpsAll, Pumping
<1>8. NothingLost'
  <2>1. Logged' = Logged \o Chunk(t) /\ Logged \in Seq(Chars) /\ term \in Seq(Chars)
    BY <1>2, AdvanceLogs, LoggedIsText
  <2>2. "str" \in mode' => \A u \in Threads : Of(u, Logged') \o buf'[u] = said'[u]
    <3> SUFFICES ASSUME "str" \in mode, NEW u \in Threads PROVE Of(u, Logged') \o buf'[u] = said[u]
      BY <1>1
    <3>1. Of(u, Logged) \o buf[u] = said[u]
      BY DEF KeptInv, NothingLost
    <3>2. CASE u = t
      <4>1. Of(u, Logged') = Of(t, Logged) \o buf[t]
        BY <1>2, <2>1, <3>2, SinkOfChunk
      <4>2. Of(t, Logged) \o buf[t] \in Seq(Chars)
        BY <1>2, <2>1, ChunkIsAll, OfIsText, ConcatProperties
      <4> QED
        BY <1>3, <3>1, <3>2, <4>1, <4>2, ConcatEmptySeq
    <3>3. CASE u # t
      <4>1. Of(u, Logged') = Of(u, Logged)
        BY <1>2, <2>1, <3>3, SinkOfChunk
      <4> QED
        BY <1>3, <3>1, <3>3, <4>1
    <3> QED
      BY <3>2, <3>3
  <2>3. "term" \in mode' => \A u \in Threads : Of(u, term') \o Unprinted(u)' = said'[u]
    <3> SUFFICES ASSUME "term" \in mode, NEW u \in Threads PROVE Of(u, term) \o Unprinted(u)' = said[u]
      BY <1>1
    <3>1. Of(u, term) \o Unprinted(u) = said[u]
      BY DEF KeptInv, NothingLost, Unprinted, Late
    <3>2. Unprinted(u)' = Unprinted(u)
      <4>1. CASE u = t
        BY <1>1, <1>3, <4>1 DEF Unprinted, Late
      <4>2. CASE u # t
        BY <1>3, <4>2 DEF Unprinted
      <4> QED
        BY <4>1, <4>2
    <3> QED
      BY <3>1, <3>2
  <2> QED
    BY <2>2, <2>3 DEF NothingLost, Unprinted, Late
<1> QED
  BY <1>5, <1>6, <1>8 DEF KeptInv

(* What is taken away was logged.                                          *)
LEMMA TakeLogs ==
  ASSUME IInv, NEW t \in Threads, Take(t)
  PROVE  Logged' = Logged
<1>1. taken' = taken \o Text /\ pos' = 0 /\ store' = <<>>
  BY DEF Take
<1>2. Text' = <<>>
  BY <1>1 DEF Text
<1>3. Logged \in Seq(Chars)
  BY LoggedIsText DEF IInv
<1>4. Logged' = Logged \o <<>>
  BY <1>1, <1>2 DEF Logged
<1> QED
  BY <1>3, <1>4, ConcatEmptySeq

LEMMA TakeKeeps ==
  ASSUME IInv, KeptInv, NEW t \in Threads, Take(t)
  PROVE  KeptInv'
<1>1. /\ reader = t /\ UNCHANGED <<mode, term, said, buf, size, pc>>
  BY DEF Take, shared
<1>3. BuffersAreOwn' /\ PumpsAll'
  BY <1>1 DEF KeptInv, BuffersAreOwn, OwnText, PumpsAll
<1>4. NothingLost'
  BY <1>1, TakeLogs DEF KeptInv, NothingLost
<1> QED
  BY <1>3, <1>4 DEF KeptInv

LEMMA PrintLineKeeps ==
  ASSUME IInv, KeptInv, NEW t \in Threads, NEW h, NEW lev, calls' \in ThreadType(Nat),
         pc[t] = "idle", PrintLine(t, h, lev), UNCHANGED <<shared, sinks, taken>>
  PROVE  KeptInv'
<1>1. UNCHANGED <<mode, store, pos, term, taken>>
  BY DEF shared, sinks
<1>2. CASE Skip(h, lev)
  BY <1>1, <1>2, QuietKeeps DEF PrintLine, Unpumped, Moves
<1>3. CASE ~Skip(h, lev)
  <2>1. Say(t, Prefix(t, h) \o Line(t)) /\ Pump(t, Len(buf'[t]))
    BY <1>3 DEF PrintLine
  <2>2. Prefix(t, h) \o Line(t) \in Seq(Chars) /\ OwnText(t, Prefix(t, h) \o Line(t))
    BY SpeechIsOwn
  <2>3. Speaks(t)
    BY <2>1 DEF Speaks
  <2> QED
    BY <1>1, <2>1, <2>2, <2>3, SayKeeps
<1> QED
  BY <1>2, <1>3

LEMMA WriteKeeps ==
  ASSUME Careful, IInv, KeptInv, NEW t \in Threads, NEW h, NEW lev, Write(t, h, lev)
  PROVE  KeptInv'
<1>1. UNCHANGED <<mode, store, pos, term, taken>>
  BY DEF shared, sinks, Write
<1>2. calls' \in ThreadType(Nat) /\ pc[t] = "idle"
  BY CallsTyped DEF Write, IInv
<1>3. CASE Skip(h, lev)
  BY <1>1, <1>3, QuietKeeps DEF Write, Unpumped, Moves
<1>4. CASE ~Skip(h, lev)
  <2>1. /\ Prefix(t, h) = <<>> /\ buf[t] = <<>>
        /\ Say(t, Prefix(t, h) \o Line(t)) /\ Pump(t, Body)
    BY <1>4 DEF Write
  <2>2. /\ Line(t) \in Seq(Chars) /\ Len(Line(t)) = Body
        /\ Prefix(t, h) \o Line(t) \in Seq(Chars) /\ OwnText(t, Prefix(t, h) \o Line(t))
    BY <1>2, SpeechIsOwn
  <2>3. Prefix(t, h) \o Line(t) = Line(t) /\ <<>> \o Line(t) = Line(t)
    BY <2>1, <2>2, ConcatEmptySeq
  <2>4. buf \in [Threads -> Seq(Chars)]
    BY DEF IInv, TypeOK, ThreadType
  <2>5. buf'[t] = Line(t)
    BY <2>1, <2>3, <2>4 DEF Say
  <2>6. Speaks(t)
    BY <2>1, <2>2, <2>5 DEF Speaks
  <2> QED
    BY <1>1, <1>2, <2>1, <2>2, <2>6, SayKeeps
<1> QED
  BY <1>3, <1>4

LEMMA OpenProxyKeeps ==
  ASSUME IInv, KeptInv, NEW t \in Threads, NEW h, NEW lev, OpenProxy(t, h, lev)
  PROVE  KeptInv'
<1>1. calls' \in ThreadType(Nat) /\ pc[t] = "idle"
  BY CallsTyped DEF OpenProxy, IInv
<1>2. Prefix(t, h) \in Seq(Chars) /\ OwnText(t, Prefix(t, h))
  BY <1>1, SpeechIsOwn
<1>3. Speaks(t) /\ Say(t, Prefix(t, h)) /\ UNCHANGED <<mode, store, pos, term, taken>>
  BY DEF OpenProxy, Speaks, shared, sinks
<1> QED
  BY <1>1, <1>2, <1>3, SayKeeps

LEMMA StreamKeeps ==
  ASSUME IInv, KeptInv, NEW t \in Threads, Stream(t)
  PROVE  KeptInv'
<1> DEFINE p == proxy[t]
           text == << <<t, p.call, p.given + 1>> >>
<1>1. /\ pc[t] = "idle" /\ p \in [call : Nat, given : 0 .. Body]
      /\ p.given \in 0 .. Body /\ p.given < Body /\ p.call \in Nat /\ Body \in Nat
  BY LogAssumption DEF Stream, Ready, At, IInv, TypeOK, ThreadType
<1>2. text \in Seq(Chars) /\ OwnText(t, text)
  <2>1. p.given + 1 \in 0 .. Body
    BY <1>1
  <2>2. <<t, p.call, p.given + 1>> \in Chars
    BY <1>1, <2>1 DEF Chars
  <2> QED
    BY <2>2 DEF OwnText
<1>3. Say(t, text) /\ Speaks(t)
  BY DEF Stream, Speaks
<1>4. UNCHANGED <<mode, store, pos, term, taken>>
  BY DEF Stream, shared, sinks
<1> HIDE DEF text
<1> QED
  BY <1>1, <1>2, <1>3, <1>4, SayKeeps

(* A step of a thread leaves what is another's alone.                      *)
Leaves(u) ==
  /\ pc'[u] = pc[u] /\ size'[u] = size[u] /\ buf'[u] = buf[u]
  /\ calls'[u] = calls[u] /\ proxy'[u] = proxy[u]

LEMMA PrintLineLeaves ==
  ASSUME IInv, NEW t \in Threads, NEW u \in Threads \ {t}, NEW h, NEW lev, PrintLine(t, h, lev)
  PROVE  pc'[u] = pc[u] /\ size'[u] = size[u] /\ buf'[u] = buf[u]
BY DEF PrintLine, Unpumped, Say, Pump, IInv, TypeOK, ThreadType

LEMMA OwnStepsLeave ==
  ASSUME IInv, NEW t \in Threads, NEW u \in Threads \ {t}, Step(t)
  PROVE  Leaves(u)
<1> USE DEF Leaves, IInv, TypeOK, ThreadType
<1>1. CASE PumpTerm(t)
  BY <1>1 DEF PumpTerm, Pumped
<1>2. CASE Lock(t) \/ StrLock(t) \/ Copy(t) \/ Release(t)
  BY <1>2 DEF Lock, StrLock, Copy, Release
<1>3. CASE Advance(t)
  BY <1>3 DEF Advance, Pumped
<1>4. CASE ErrorLine(t)
  BY <1>4, PrintLineLeaves DEF ErrorLine
<1>5. CASE EndError(t)
  BY <1>5 DEF EndError, Finish, Pump
<1> QED
  BY <1>1, <1>2, <1>3, <1>4, <1>5 DEF Step

LEMMA CallsLeave ==
  ASSUME IInv, NEW t \in Threads, NEW u \in Threads \ {t}, Begin(t)
  PROVE  Leaves(u)
<1> USE DEF Leaves, IInv, TypeOK, ThreadType
<1>1. ASSUME NEW h, NEW lev, PrintTo(t, h, lev) PROVE Leaves(u)
  BY <1>1, PrintLineLeaves DEF PrintTo, Calls
<1>2. ASSUME NEW h, NEW lev, Write(t, h, lev) PROVE Leaves(u)
  BY <1>2 DEF Write, Calls, Unpumped, Say, Pump
<1>3. ASSUME NEW h, NEW lev, OpenProxy(t, h, lev) PROVE Leaves(u)
  BY <1>3 DEF OpenProxy, Calls, Say
<1>4. CASE Stream(t)
  BY <1>4 DEF Stream, Say, Pump
<1>5. CASE CloseProxy(t)
  BY <1>5 DEF CloseProxy, Finish, Pump
<1>6. CASE Str(t) \/ Take(t)
  BY <1>6 DEF Str, Take, Calls
<1>7. ASSUME NEW e, Fail(t, e) PROVE Leaves(u)
  BY <1>7 DEF Fail, Calls
<1>8. ASSUME NEW n, FindMissing(t, n) PROVE Leaves(u)
  BY <1>8, PrintLineLeaves DEF FindMissing, Calls
<1>9. ASSUME NEW n, NEW lev, AddChannel(t, n, lev) PROVE Leaves(u)
  BY <1>9 DEF AddChannel, Calls
<1>10. ASSUME NEW lev, SetLevel(t, lev) PROVE Leaves(u)
  BY <1>10 DEF SetLevel, Calls
<1> QED
  BY <1>1, <1>2, <1>3, <1>4, <1>5, <1>6, <1>7, <1>8, <1>9, <1>10 DEF Begin

LEMMA CopyCopies ==
  ASSUME IInv, NEW t \in Threads, Copy(t)
  PROVE  CopiedOwn'
<1>1. /\ pc[t] = "copy" /\ pc' = [pc EXCEPT ![t] = "advance"]
      /\ store' = Text \o Chunk(t) /\ UNCHANGED <<buf, size>>
  BY DEF Copy, At
<1>2. \A u \in Threads \ {t} : pc'[u] # "advance"
  BY <1>1 DEF IInv, WritersLock, TypeOK, ThreadType
<1>3. Text' = Text
  BY CopyLeavesText
<1>4. Chunk(t)' = Chunk(t)
  BY <1>1 DEF Chunk
<1>5. store' = Text' \o Chunk(t)'
  BY <1>1, <1>3, <1>4
<1> QED
  BY <1>2, <1>5 DEF CopiedOwn

(* Whoever else takes a step is not at pc = advance before or after it.    *)
LEMMA NotAdvancing ==
  ASSUME IInv, NEW t \in Threads, Step(t) \/ Begin(t), ~Copy(t), ~Advance(t)
  PROVE  pc'[t] # "advance" /\ (UNCHANGED <<store, pos>> \/ Take(t))
<1> USE DEF IInv, TypeOK, ThreadType, At, Ready, Calls, shared, sinks
<1>1. CASE Step(t)
  <2>1. CASE PumpTerm(t)
    BY <2>1 DEF PumpTerm, Pumped
  <2>2. CASE Lock(t) \/ StrLock(t) \/ Release(t)
    BY <2>2 DEF Lock, StrLock, Release
  <2>3. CASE ErrorLine(t)
    BY <2>3 DEF ErrorLine, PrintLine, Unpumped, Pump
  <2>4. CASE EndError(t)
    BY <2>4 DEF EndError, Finish, Pump
  <2> QED
    BY <1>1, <2>1, <2>2, <2>3, <2>4 DEF Step
<1>2. CASE Begin(t)
  <2>1. ASSUME NEW h, NEW lev, PrintTo(t, h, lev) \/ Write(t, h, lev) \/ OpenProxy(t, h, lev)
        PROVE  pc'[t] # "advance" /\ UNCHANGED <<store, pos>>
    BY <2>1 DEF PrintTo, PrintLine, Write, OpenProxy, Unpumped, Pump
  <2>2. CASE Stream(t) \/ CloseProxy(t) \/ Str(t)
    BY <2>2 DEF Stream, CloseProxy, Str, Finish, Pump
  <2>3. CASE Take(t)
    BY <2>3 DEF Take
  <2>4. ASSUME NEW e, Fail(t, e) PROVE pc'[t] # "advance" /\ UNCHANGED <<store, pos>>
    BY <2>4 DEF Fail
  <2>5. ASSUME NEW n, FindMissing(t, n) PROVE pc'[t] # "advance" /\ UNCHANGED <<store, pos>>
    BY <2>5 DEF FindMissing, PrintLine, Unpumped, Pump
  <2>6. ASSUME NEW n, NEW lev, AddChannel(t, n, lev) PROVE pc'[t] # "advance" /\ UNCHANGED <<store, pos>>
    BY <2>6 DEF AddChannel
  <2>7. ASSUME NEW lev, SetLevel(t, lev) PROVE pc'[t] # "advance" /\ UNCHANGED <<store, pos>>
    BY <2>7 DEF SetLevel
  <2> QED
    BY <1>2, <2>1, <2>2, <2>3, <2>4, <2>5, <2>6, <2>7 DEF Begin
<1> QED
  BY <1>1, <1>2

LEMMA StepCopied == IInv /\ CopiedOwn /\ [Next]_vars => CopiedOwn'
<1> SUFFICES ASSUME IInv, CopiedOwn, [Next]_vars PROVE CopiedOwn'
  OBVIOUS
<1>1. CASE UNCHANGED vars
  BY <1>1 DEF vars, shared, sinks, CopiedOwn, Text, Chunk
<1>2. ASSUME NEW t \in Threads, Step(t) \/ Begin(t) PROVE CopiedOwn'
  <2>1. \A u \in Threads \ {t} : Leaves(u)
    BY <1>2, OwnStepsLeave, CallsLeave
  <2>2. CASE Copy(t)
    BY <2>2, CopyCopies
  <2>3. CASE Advance(t)
    <3>1. pc[t] = "advance" /\ pc'[t] # "advance"
      BY <2>3 DEF Advance, At, Pumped, IInv, TypeOK, ThreadType
    <3>2. \A u \in Threads \ {t} : pc[u] # "advance"
      BY <3>1 DEF IInv, WritersLock
    <3> QED
      BY <2>1, <3>1, <3>2 DEF CopiedOwn, Leaves
  <2>4. CASE ~Copy(t) /\ ~Advance(t)
    <3>1. pc'[t] # "advance" /\ (UNCHANGED <<store, pos>> \/ Take(t))
      BY <1>2, <2>4, NotAdvancing
    <3>2. CASE UNCHANGED <<store, pos>>
      BY <2>1, <3>1, <3>2 DEF CopiedOwn, Leaves, Text, Chunk
    <3>3. CASE Take(t)
      <4>1. reader # None /\ UNCHANGED pc
        BY <3>3, LogAssumption DEF Take
      <4>2. \A u \in Threads : pc'[u] # "advance"
        BY <4>1 DEF IInv, WritersLock
      <4> QED
        BY <4>2 DEF CopiedOwn
    <3> QED
      BY <3>1, <3>2, <3>3
  <2> QED
    BY <2>2, <2>3, <2>4
<1> QED
  BY <1>1, <1>2 DEF Next

LEMMA CopiedIsOwn == Spec => []CopiedOwn
<1>1. Init => CopiedOwn
  BY DEF Init, CopiedOwn
<1> QED
  BY <1>1, StepCopied, Inductive, PTL DEF Spec, Safety

LEMMA EndErrorMoves ==
  ASSUME NEW t \in Threads, EndError(t)
  PROVE  Moves(t) /\ UNCHANGED <<mode, store, pos, term, buf, said, taken>>
<1>1. pc[t] = "idle" /\ UNCHANGED <<mode, store, pos, term, buf, said, taken>>
  BY DEF EndError, At, shared
<1>2. UNCHANGED <<size, pc>> \/ Pump(t, Len(buf[t]))
  BY DEF EndError, Finish
<1> QED
  BY <1>1, <1>2 DEF Moves

LEMMA OwnStepsKeep ==
  ASSUME IInv, CopiedOwn, KeptInv, NEW t \in Threads, Step(t)
  PROVE  KeptInv'
<1>1. CASE PumpTerm(t)
  BY <1>1, PumpTermKeeps
<1>2. CASE Lock(t)
  BY <1>2, QuietKeeps DEF Lock, At, Moves, shared, sinks
<1>3. CASE Copy(t)
  BY <1>3, CopyKeeps
<1>4. CASE Advance(t)
  BY <1>4, AdvanceKeeps
<1>5. CASE StrLock(t)
  BY <1>5, QuietKeeps DEF StrLock, At, Moves, shared, sinks
<1>6. CASE Release(t)
  BY <1>6, QuietKeeps DEF Release, Moves, shared, sinks
<1>7. CASE ErrorLine(t)
  <2>1. calls \in [Threads -> Nat] /\ calls' = [calls EXCEPT ![t] = @ + 1]
    BY <1>7 DEF IInv, TypeOK, ThreadType, ErrorLine
  <2>2. calls' \in [Threads -> Nat]
    BY <2>1
  <2>3. /\ calls' \in ThreadType(Nat) /\ pc[t] = "idle" /\ PrintLine(t, 0, Err)
        /\ UNCHANGED <<shared, sinks, taken>>
    BY <1>7, <2>2 DEF ErrorLine, At, ThreadType
  <2> QED
    BY <2>3, PrintLineKeeps
<1>8. CASE EndError(t)
  BY <1>8, EndErrorMoves, QuietKeeps
<1> QED
  BY <1>1, <1>2, <1>3, <1>4, <1>5, <1>6, <1>7, <1>8 DEF Step

LEMMA CallsKeep ==
  ASSUME Careful, IInv, KeptInv, NEW t \in Threads, Begin(t)
  PROVE  KeptInv'
<1>1. ASSUME NEW h, NEW lev, PrintTo(t, h, lev) PROVE KeptInv'
  <2>1. /\ calls' \in ThreadType(Nat) /\ pc[t] = "idle" /\ PrintLine(t, h, lev)
        /\ UNCHANGED <<shared, sinks, taken>>
    BY <1>1, CallsTyped DEF PrintTo, IInv
  <2> QED
    BY <2>1, PrintLineKeeps
<1>2. ASSUME NEW h, NEW lev, Write(t, h, lev) PROVE KeptInv'
  BY <1>2, WriteKeeps
<1>3. ASSUME NEW h, NEW lev, OpenProxy(t, h, lev) PROVE KeptInv'
  BY <1>3, OpenProxyKeeps
<1>4. CASE Stream(t)
  BY <1>4, StreamKeeps
<1>5. CASE CloseProxy(t)
  BY <1>5, QuietKeeps DEF CloseProxy, Ready, At, Finish, Moves, shared, sinks
<1>6. CASE Str(t)
  BY <1>6, QuietKeeps DEF Str, At, Moves, shared, sinks
<1>7. CASE Take(t)
  BY <1>7, TakeKeeps
<1>8. ASSUME NEW e, Fail(t, e) PROVE KeptInv'
  BY <1>8, QuietKeeps DEF Fail, Moves, shared, sinks
<1>9. ASSUME NEW n, FindMissing(t, n) PROVE KeptInv'
  <2>1. /\ calls' \in ThreadType(Nat) /\ pc[t] = "idle" /\ PrintLine(t, 0, Err)
        /\ UNCHANGED <<shared, sinks, taken>>
    BY <1>9, CallsTyped DEF FindMissing, IInv
  <2> QED
    BY <2>1, PrintLineKeeps
<1>10. ASSUME NEW n, NEW lev, AddChannel(t, n, lev) PROVE KeptInv'
  BY <1>10, QuietKeeps DEF AddChannel, Moves, sinks
<1>11. ASSUME NEW lev, SetLevel(t, lev) PROVE KeptInv'
  BY <1>11, QuietKeeps DEF SetLevel, Moves, sinks
<1> QED
  BY <1>1, <1>2, <1>3, <1>4, <1>5, <1>6, <1>7, <1>8, <1>9, <1>10, <1>11 DEF Begin

LEMMA InitKept == Init => KeptInv
<1> SUFFICES ASSUME Init PROVE KeptInv
  OBVIOUS
<1>1. Text = <<>> /\ Logged = <<>>
  <2>1. SubSeq(<<>>, 1, 0) = <<>> /\ <<>> \o <<>> = <<>>
    OBVIOUS
  <2> QED
    BY <2>1 DEF Init, Text, Logged
<1>2. \A t \in Threads : Of(t, <<>>) = <<>>
  BY OfEmpty
<1>3. <<>> \o <<>> = <<>>
  OBVIOUS
<1>4. NothingLost
  BY <1>1, <1>2, <1>3 DEF Init, NothingLost
<1> QED
  BY <1>4 DEF Init, KeptInv, BuffersAreOwn, OwnText, PumpsAll, Pumping

LEMMA StepKept ==
  ASSUME Careful
  PROVE  IInv /\ CopiedOwn /\ KeptInv /\ [Next]_vars => KeptInv'
<1> SUFFICES ASSUME IInv, CopiedOwn, KeptInv, [Next]_vars PROVE KeptInv'
  OBVIOUS
<1>1. CASE UNCHANGED vars
  <2>1. UNCHANGED <<mode, store, pos, taken, term, buf, size, pc, said>>
    BY <1>1 DEF vars, shared, sinks
  <2>2. UNCHANGED Logged
    BY <2>1, SameLogged
  <2> QED
    BY <2>1, <2>2 DEF KeptInv, BuffersAreOwn, OwnText, PumpsAll, NothingLost
<1>2. ASSUME NEW t \in Threads, Step(t) PROVE KeptInv'
  BY <1>2, OwnStepsKeep
<1>3. ASSUME NEW t \in Threads, Begin(t) PROVE KeptInv'
  BY <1>3, CallsKeep
<1> QED
  BY <1>1, <1>2, <1>3 DEF Next

(* What each thread has to log arrives, once and in its order, or is still *)
(* in its buffer, whatever the other threads write and readers take away,  *)
(* if clients are careful (NothingLost of Log; pump, LogBuffer::write).    *)
THEOREM NothingIsLost ==
  ASSUME Careful
  PROVE  Spec => []NothingLost
<1>1. Init => KeptInv
  BY InitKept
<1>2. IInv /\ CopiedOwn /\ KeptInv /\ [Next]_vars => KeptInv'
  BY StepKept
<1>3. KeptInv => NothingLost
  BY DEF KeptInv
<1>4. Spec => []IInv /\ []CopiedOwn
  BY Inductive, CopiedIsOwn
<1> QED
  BY <1>1, <1>2, <1>3, <1>4, PTL DEF Spec, Safety

-----------------------------------------------------------------------------
(* What an error that aborts has shown.                                    *)

LEMMA AbortedIsStill ==
  ASSUME status # "run"
  PROVE  ~Next
<1>1. ASSUME NEW t \in Threads PROVE ~Step(t)
  BY DEF Step, PumpTerm, Lock, Copy, Advance, StrLock, Release, ErrorLine, EndError, At
<1>2. ASSUME NEW t \in Threads PROVE ~Begin(t)
  BY DEF Begin, PrintTo, Write, OpenProxy, Stream, CloseProxy, Str, Take, Fail, FindMissing,
         AddChannel, SetLevel, Calls, Ready, At
<1> QED
  BY <1>1, <1>2 DEF Next

LEMMA RunsOn ==
  ASSUME NEW t \in Threads, Step(t) \/ Begin(t), ~EndError(t)
  PROVE  UNCHANGED status
BY DEF Step, Begin, PumpTerm, Lock, Copy, Advance, StrLock, Release, ErrorLine, PrintTo, Write,
       OpenProxy, Stream, CloseProxy, Str, Take, Fail, FindMissing, AddChannel, SetLevel

(* A thread in an error prints nothing else, and has logged the error when *)
(* its buffer has been pumped, unless the main channel skips errors.       *)
ErrorsPrint == \A lev \in ChannelLevels : lev >= Err

Reported(t) == error[t] # None /\ "log" \in error[t].settings.flags /\ error[t].left < ErrorLines

ErrorsInv ==
  \A t \in Threads :
    /\ pc[t] = "str" => error[t] = None
    /\ Reported(t) /\ pc[t] = "idle" => buf[t] = <<>>

LEMMA FailsUnreported ==
  ASSUME TypeOK, NEW t \in Threads, NEW e, Fails(t, e)
  PROVE  ~Reported(t)' /\ \A u \in Threads \ {t} : error'[u] = error[u]
<1>1. error'[t] = [settings |-> e, left |-> IF "log" \in e.flags THEN ErrorLines ELSE 0]
  BY DEF Fails, TypeOK, ThreadType
<1>2. ErrorLines \in Nat
  BY LogAssumption
<1>3. ~Reported(t)'
  BY <1>1, <1>2 DEF Reported
<1> QED
  BY <1>3 DEF Fails, TypeOK, ThreadType

LEMMA OthersErrors ==
  ASSUME IInv, NEW t \in Threads, NEW u \in Threads \ {t}, Step(t) \/ Begin(t)
  PROVE  error'[u] = error[u]
<1>1. error \in [Threads -> [settings : ErrorChoices, left : 0 .. ErrorLines] \cup {None}] /\ TypeOK
  BY DEF IInv, TypeOK, ThreadType
<1>2. CASE UNCHANGED error
  BY <1>2
<1>3. CASE ErrorLine(t) \/ EndError(t)
  BY <1>1, <1>3 DEF ErrorLine, EndError
<1>4. ASSUME NEW e, Fails(t, e) PROVE error'[u] = error[u]
  BY <1>1, <1>4, FailsUnreported
<1>5. ASSUME NEW e, Fail(t, e) PROVE error'[u] = error[u]
  BY <1>4, <1>5 DEF Fail
<1>6. ASSUME NEW n, NEW lev, AddChannel(t, n, lev) PROVE error'[u] = error[u]
  BY <1>2, <1>4, <1>6 DEF AddChannel
<1>7. CASE Step(t)
  BY <1>2, <1>3, <1>7 DEF Step, PumpTerm, Lock, Copy, Advance, StrLock, Release
<1>8. CASE Begin(t)
  BY <1>2, <1>5, <1>6, <1>8 DEF Begin, PrintTo, Write, OpenProxy, Stream, CloseProxy, Str, Take,
     FindMissing, SetLevel
<1> QED
  BY <1>7, <1>8

(* What t does leaves the invariant of t true.                             *)
LEMMA OwnErrors ==
  ASSUME ErrorsPrint, IInv, ErrorsInv, NEW t \in Threads, Step(t) \/ Begin(t)
  PROVE  /\ pc'[t] = "str" => error'[t] = None
         /\ Reported(t)' /\ pc'[t] = "idle" => buf'[t] = <<>>
<1> DEFINE Goal == /\ pc'[t] = "str" => error'[t] = None
                   /\ Reported(t)' /\ pc'[t] = "idle" => buf'[t] = <<>>
<1> SUFFICES Goal
  OBVIOUS
<1>1. /\ pc \in [Threads -> Pcs] /\ TypeOK
      /\ error \in [Threads -> [settings : ErrorChoices, left : 0 .. ErrorLines] \cup {None}]
  BY DEF IInv, TypeOK, ThreadType, Pcs
<1>2. /\ pc[t] = "str" => error[t] = None
      /\ Reported(t) /\ pc[t] = "idle" => buf[t] = <<>>
  BY DEF ErrorsInv
<1>3. CASE UNCHANGED <<error, pc, buf>>
  BY <1>2, <1>3 DEF Reported
<1>4. CASE error[t] = None /\ UNCHANGED error
  BY <1>4 DEF Reported
<1>5. CASE UNCHANGED error /\ Pumped(t)
  BY <1>1, <1>5, PumpedMoves
<1>6. CASE UNCHANGED error /\ pc'[t] \notin {"idle", "str"}
  BY <1>6
<1>7. ASSUME NEW e, Fails(t, e), pc[t] = "idle", UNCHANGED pc PROVE Goal
  BY <1>1, <1>7, FailsUnreported
<1>8. CASE PumpTerm(t)
  BY <1>1, <1>5, <1>6, <1>8 DEF PumpTerm
<1>9. CASE Lock(t) \/ Copy(t)
  BY <1>1, <1>6, <1>9 DEF Lock, Copy
<1>10. CASE Advance(t)
  BY <1>5, <1>10 DEF Advance
<1>11. CASE StrLock(t)
  BY <1>2, <1>4, <1>11 DEF StrLock, At
<1>12. CASE Release(t)
  BY <1>3, <1>12 DEF Release
<1>13. CASE ErrorLine(t)
  <2>1. ~Skip(0, Err)
    <3>1. 0 \in 0 .. MaxChannels - 1
      BY LogAssumption
    <3>2. channels[0].level \in {Info} \cup ChannelLevels
      BY <1>1, <3>1 DEF TypeOK
    <3>3. PICK l : l = channels[0].level
      OBVIOUS
    <3>4. l \in Int /\ -2 <= l
      BY <3>2, <3>3, LogAssumption DEF ErrorsPrint, Err, Info
    <3> QED
      BY <3>3, <3>4 DEF Skip, Err
  <2>2. pc'[t] = "pump"
    BY <1>1, <1>13, <2>1 DEF ErrorLine, PrintLine, Pump
  <2> QED
    BY <2>2
<1>14. CASE EndError(t)
  <2>1. pc[t] = "idle" /\ UNCHANGED buf
    BY <1>14 DEF EndError, At
  <2>2. CASE Outcome(error[t].settings) = "abort"
    <3>1. UNCHANGED <<error, pc>>
      BY <1>14, <2>2 DEF EndError
    <3> QED
      BY <1>3, <2>1, <3>1
  <2>3. CASE Outcome(error[t].settings) # "abort"
    <3>1. error'[t] = None
      BY <1>1, <1>14, <2>3 DEF EndError
    <3> QED
      BY <3>1 DEF Reported
  <2> QED
    BY <2>2, <2>3
<1>15. CASE Step(t)
  BY <1>8, <1>9, <1>10, <1>11, <1>12, <1>13, <1>14, <1>15 DEF Step
<1>16. ASSUME NEW h, NEW lev, PrintTo(t, h, lev) \/ Write(t, h, lev) \/ OpenProxy(t, h, lev)
       PROVE  Goal
  BY <1>4, <1>16 DEF PrintTo, Write, OpenProxy, Calls, Ready
<1>17. CASE Stream(t) \/ CloseProxy(t) \/ Str(t)
  BY <1>4, <1>17 DEF Stream, CloseProxy, Str, Ready
<1>18. CASE Take(t)
  BY <1>3, <1>18 DEF Take
<1>19. ASSUME NEW e, Fail(t, e) PROVE Goal
  BY <1>7, <1>19 DEF Fail, Calls, Ready, At
<1>20. ASSUME NEW n, FindMissing(t, n) PROVE Goal
  BY <1>4, <1>20 DEF FindMissing, Calls, Ready
<1>21. ASSUME NEW n, NEW lev, AddChannel(t, n, lev) PROVE Goal
  BY <1>4, <1>7, <1>21 DEF AddChannel, Calls, Ready, At
<1>22. ASSUME NEW lev, SetLevel(t, lev) PROVE Goal
  BY <1>4, <1>22 DEF SetLevel, Calls, Ready
<1> HIDE DEF Goal
<1>23. CASE Begin(t)
  BY <1>16, <1>17, <1>18, <1>19, <1>20, <1>21, <1>22, <1>23 DEF Begin
<1> QED
  BY <1>15, <1>23

LEMMA StepErrors ==
  ASSUME ErrorsPrint
  PROVE  IInv /\ ErrorsInv /\ [Next]_vars => ErrorsInv'
<1> SUFFICES ASSUME IInv, ErrorsInv, [Next]_vars PROVE ErrorsInv'
  OBVIOUS
<1>1. CASE UNCHANGED vars
  BY <1>1 DEF vars, ErrorsInv, Reported
<1>2. ASSUME NEW t \in Threads, Step(t) \/ Begin(t) PROVE ErrorsInv'
  <2>1. ASSUME NEW u \in Threads \ {t}
        PROVE  error'[u] = error[u] /\ Leaves(u)
    BY <1>2, OthersErrors, OwnStepsLeave, CallsLeave
  <2>2. /\ pc'[t] = "str" => error'[t] = None
        /\ Reported(t)' /\ pc'[t] = "idle" => buf'[t] = <<>>
    BY <1>2, OwnErrors
  <2>3. ASSUME NEW u \in Threads \ {t}
        PROVE  /\ pc'[u] = "str" => error'[u] = None
               /\ Reported(u)' /\ pc'[u] = "idle" => buf'[u] = <<>>
    BY <2>1 DEF ErrorsInv, Reported, Leaves
  <2> QED
    BY <2>2, <2>3 DEF ErrorsInv
<1> QED
  BY <1>1, <1>2 DEF Next

LEMMA ErrorsAreLogged ==
  ASSUME ErrorsPrint
  PROVE  Spec => []ErrorsInv
<1>1. Init => ErrorsInv
  BY DEF Init, ErrorsInv, Reported
<1> QED
  BY <1>1, StepErrors, Inductive, PTL DEF Spec, Safety

(* The two parts of what AbortShown says of a thread.                      *)
Shown(t) ==
  status = t /\ "term" \in mode /\ "log" \in error[t].settings.flags =>
    Of(t, SubSeq(term, 1, shown)) \o buf[t] = said[t]

Emptied(t) ==
  status = t /\ "term" \in mode /\ "log" \in error[t].settings.flags => buf[t] = <<>>

AllShown == \A t \in Threads : Shown(t)
AllEmptied == \A t \in Threads : Emptied(t)

LEMMA AbortShows ==
  ASSUME IInv, KeptInv, NEW t \in Threads, EndError(t)
  PROVE  AllShown'
<1> SUFFICES ASSUME NEW u \in Threads, status' = u, "term" \in mode',
                    "log" \in error'[u].settings.flags
             PROVE  Of(u, SubSeq(term', 1, shown')) \o buf'[u] = said'[u]
  BY DEF AllShown, Shown
<1>1. status = "run"
  BY DEF EndError, At
<1>2. status' = t /\ UNCHANGED error
  BY <1>1, LogAssumption DEF EndError
<1>3. u = t /\ shown' = Len(term)
  BY <1>2 DEF EndError, Flushed
<1>4. UNCHANGED <<mode, term, buf, said>> /\ pc[t] = "idle"
  BY DEF EndError, At, shared
<1>5. SubSeq(term, 1, Len(term)) = term
  BY SubSeqFull DEF IInv, TypeOK
<1>6. Of(t, term) \o buf[t] = said[t]
  BY <1>4 DEF KeptInv, NothingLost
<1> QED
  BY <1>3, <1>4, <1>5, <1>6

LEMMA AbortEmpties ==
  ASSUME IInv, ErrorsInv, NEW t \in Threads, EndError(t)
  PROVE  AllEmptied'
<1> SUFFICES ASSUME NEW u \in Threads, status' = u, "log" \in error'[u].settings.flags
             PROVE  buf'[u] = <<>>
  BY DEF AllEmptied, Emptied
<1>1. status = "run"
  BY DEF EndError, At
<1>2. status' = t /\ UNCHANGED error
  BY <1>1, LogAssumption DEF EndError
<1>3. u = t
  BY <1>2
<1>4. UNCHANGED buf /\ pc[t] = "idle" /\ error[t] # None /\ error[t].left = 0
  BY DEF EndError, At
<1>5. 0 < ErrorLines
  BY LogAssumption
<1>6. Reported(t)
  BY <1>2, <1>3, <1>4, <1>5 DEF Reported
<1> QED
  BY <1>3, <1>4, <1>6 DEF ErrorsInv

(* The program is not aborted by anything else.                            *)
LEMMA OnlyErrorsAbort ==
  ASSUME [Next]_vars
  PROVE  \/ UNCHANGED vars
         \/ status' = "run"
         \/ \E t \in Threads : EndError(t)
<1> SUFFICES ASSUME Next, ~(\E t \in Threads : EndError(t)) PROVE status' = "run"
  OBVIOUS
<1>1. status = "run"
  BY AbortedIsStill
<1>2. PICK t \in Threads : Step(t) \/ Begin(t)
  BY DEF Next
<1> QED
  BY <1>1, <1>2, RunsOn

LEMMA StepShown ==
  IInv /\ KeptInv /\ AllShown /\ [Next]_vars => AllShown'
<1> SUFFICES ASSUME IInv, KeptInv, AllShown, [Next]_vars PROVE AllShown'
  OBVIOUS
<1>1. CASE UNCHANGED vars
  BY <1>1 DEF vars, shared, sinks, AllShown, Shown
<1>2. CASE status' = "run"
  BY <1>2, LogAssumption DEF AllShown, Shown
<1>3. ASSUME NEW t \in Threads, EndError(t) PROVE AllShown'
  BY <1>3, AbortShows
<1> QED
  BY <1>1, <1>2, <1>3, OnlyErrorsAbort

LEMMA StepEmptied ==
  IInv /\ ErrorsInv /\ AllEmptied /\ [Next]_vars => AllEmptied'
<1> SUFFICES ASSUME IInv, ErrorsInv, AllEmptied, [Next]_vars PROVE AllEmptied'
  OBVIOUS
<1>1. CASE UNCHANGED vars
  BY <1>1 DEF vars, shared, AllEmptied, Emptied
<1>2. CASE status' = "run"
  BY <1>2, LogAssumption DEF AllEmptied, Emptied
<1>3. ASSUME NEW t \in Threads, EndError(t) PROVE AllEmptied'
  BY <1>3, AbortEmpties
<1> QED
  BY <1>1, <1>2, <1>3, OnlyErrorsAbort

LEMMA AllIsEmptied ==
  ASSUME ErrorsPrint
  PROVE  Spec => []AllEmptied
<1>1. Init => AllEmptied
  BY LogAssumption DEF Init, AllEmptied, Emptied
<1> QED
  BY <1>1, StepEmptied, Inductive, ErrorsAreLogged, PTL DEF Spec, Safety

LEMMA AllIsShown ==
  ASSUME Careful
  PROVE  Spec => []AllShown
<1>1. Init => KeptInv
  BY InitKept
<1>2. IInv /\ CopiedOwn /\ KeptInv /\ [Next]_vars => KeptInv'
  BY StepKept
<1>3. Init => AllShown
  BY LogAssumption DEF Init, AllShown, Shown
<1>4. Spec => []IInv /\ []CopiedOwn
  BY Inductive, CopiedIsOwn
<1> QED
  BY <1>1, <1>2, <1>3, <1>4, StepShown, PTL DEF Spec, Safety

(* An error that aborts the program has put on the terminal what its       *)
(* thread had logged, and leaves nothing in its buffer unless the main     *)
(* channel may be set to skip errors (AbortShown of Log; handle_error).    *)
THEOREM AbortsAreShown ==
  ASSUME Careful
  PROVE  Spec => []AbortShown
<1>1. CASE ErrorsPrint
  <2>1. AllShown /\ AllEmptied => AbortShown
    BY DEF AllShown, Shown, AllEmptied, Emptied, AbortShown
  <2> QED
    BY <1>1, <2>1, AllIsShown, AllIsEmptied, PTL
<1>2. CASE ~ErrorsPrint
  <2>1. AllShown => AbortShown
    BY <1>2 DEF AllShown, Shown, AbortShown, ErrorsPrint
  <2> QED
    BY <2>1, AllIsShown, PTL
<1> QED
  BY <1>1, <1>2

-----------------------------------------------------------------------------
(* What a call prints stays together.                                      *)

CallOf(c) == <<c[1], c[2]>>
CallsIn(s) == {CallOf(s[i]) : i \in 1 .. Len(s)}

(* The characters of a call are next to each other, but of those in C.     *)
Together(s, C) ==
  \A i, k \in 1 .. Len(s) :
    CallOf(s[i]) = CallOf(s[k]) /\ CallOf(s[i]) \notin C => \A j \in i .. k : CallOf(s[j]) = CallOf(s[i])

LEMMA CallsInConcat ==
  ASSUME NEW a \in Seq(Chars), NEW b \in Seq(Chars)
  PROVE  CallsIn(a \o b) \subseteq CallsIn(a) \cup CallsIn(b)
<1>1. /\ Len(a \o b) = Len(a) + Len(b) /\ Len(a) \in Nat /\ Len(b) \in Nat
      /\ \A i \in 1 .. Len(a) + Len(b) :
           (a \o b)[i] = IF i <= Len(a) THEN a[i] ELSE b[i - Len(a)]
  BY ConcatProperties
<1>2. ASSUME NEW i \in 1 .. Len(a) + Len(b) PROVE CallOf((a \o b)[i]) \in CallsIn(a) \cup CallsIn(b)
  <2>1. CASE i <= Len(a)
    <3>1. i \in 1 .. Len(a) /\ (a \o b)[i] = a[i]
      BY <1>1, <2>1
    <3> QED
      BY <3>1 DEF CallsIn
  <2>2. CASE i > Len(a)
    <3>1. PICK j : j = i - Len(a)
      OBVIOUS
    <3>2. j \in 1 .. Len(b) /\ ~(i <= Len(a))
      BY <1>1, <2>2, <3>1
    <3>3. (a \o b)[i] = b[j]
      BY <1>1, <3>1, <3>2
    <3> QED
      BY <3>2, <3>3 DEF CallsIn
  <2> QED
    BY <1>1, <2>1, <2>2
<1> QED
  BY <1>1, <1>2 DEF CallsIn

LEMMA CallsInEmpty == CallsIn(<<>>) = {}
BY DEF CallsIn

LEMMA CallsInFirst ==
  ASSUME NEW s \in Seq(Chars), NEW n \in 0 .. Len(s)
  PROVE  CallsIn(SubSeq(s, 1, n)) \subseteq CallsIn(s)
<1>1. /\ Len(SubSeq(s, 1, n)) = n
      /\ \A i \in 1 .. n : SubSeq(s, 1, n)[i] = s[i] /\ i \in 1 .. Len(s)
  BY FirstChars
<1> QED
  BY <1>1 DEF CallsIn

LEMMA FirstTogether ==
  ASSUME NEW s \in Seq(Chars), NEW n \in 0 .. Len(s), NEW C, Together(s, C)
  PROVE  Together(SubSeq(s, 1, n), C)
<1> DEFINE r == SubSeq(s, 1, n)
<1>1. Len(r) = n /\ \A i \in 1 .. n : r[i] = s[i] /\ i \in 1 .. Len(s)
  BY FirstChars
<1> HIDE DEF r
<1>2. ASSUME NEW i \in 1 .. n, NEW k \in 1 .. n, CallOf(r[i]) = CallOf(r[k]), CallOf(r[i]) \notin C,
             NEW j \in i .. k
      PROVE  CallOf(r[j]) = CallOf(r[i])
  <2>1. j \in 1 .. n /\ i \in 1 .. Len(s) /\ k \in 1 .. Len(s)
    BY <1>1
  <2>2. CallOf(s[i]) = CallOf(s[k]) /\ CallOf(s[i]) \notin C
    BY <1>1, <1>2
  <2>3. CallOf(s[j]) = CallOf(s[i])
    BY <2>1, <2>2 DEF Together
  <2> QED
    BY <1>1, <2>1, <2>3
<1>3. Together(r, C)
  BY <1>1, <1>2 DEF Together
<1> QED
  BY <1>3 DEF r

LEMMA TogetherConcat ==
  ASSUME NEW a \in Seq(Chars), NEW b \in Seq(Chars), NEW C,
         Together(a, C), Together(b, C), CallsIn(a) \cap CallsIn(b) \subseteq C
  PROVE  Together(a \o b, C)
<1> DEFINE s == a \o b
           m == Len(a)
           n == Len(b)
<1>1. m \in Nat /\ n \in Nat
  OBVIOUS
<1>2. Len(s) = m + n
  BY ConcatProperties
<1>3. \A i \in 1 .. m : s[i] = a[i]
  BY <1>1, ConcatProperties
<1>4. \A i \in m + 1 .. m + n : s[i] = b[i - m] /\ i - m \in 1 .. n
  BY <1>1, ConcatProperties
<1> HIDE DEF s
<1>5. ASSUME NEW i \in 1 .. m, NEW k \in m + 1 .. m + n, CallOf(s[i]) = CallOf(s[k])
      PROVE  CallOf(s[i]) \in C
  <2>1. CallOf(s[i]) \in CallsIn(a)
    BY <1>3 DEF CallsIn
  <2>2. PICK l \in 1 .. n : s[k] = b[l]
    BY <1>4
  <2>3. CallOf(s[k]) \in CallsIn(b)
    BY <2>2 DEF CallsIn
  <2> QED
    BY <1>5, <2>1, <2>3
<1> HIDE DEF m, n
<1>6. ASSUME NEW i \in 1 .. m + n, NEW k \in 1 .. m + n, CallOf(s[i]) = CallOf(s[k]),
             CallOf(s[i]) \notin C, NEW j \in i .. k
      PROVE  CallOf(s[j]) = CallOf(s[i])
  <2>1. CASE i <= m /\ k <= m
    <3>1. i \in 1 .. m /\ k \in 1 .. m /\ j \in 1 .. m
      BY <1>1, <2>1
    <3>2. s[i] = a[i] /\ s[k] = a[k] /\ s[j] = a[j]
      BY <1>3, <3>1
    <3> QED
      BY <1>6, <3>1, <3>2 DEF Together, m
  <2>2. CASE i > m /\ k > m
    <3>1. PICK x, y, z : x = i - m /\ y = k - m /\ z = j - m
      OBVIOUS
    <3>2. i \in m + 1 .. m + n /\ k \in m + 1 .. m + n /\ j \in m + 1 .. m + n
      BY <1>1, <2>2
    <3>3. x \in 1 .. n /\ y \in 1 .. n /\ z \in x .. y
      BY <1>1, <3>1, <3>2
    <3>4. s[i] = b[x] /\ s[k] = b[y] /\ s[j] = b[z]
      BY <1>4, <3>1, <3>2
    <3> QED
      BY <1>6, <3>3, <3>4 DEF Together, n
  <2>3. CASE i <= m /\ k > m
    BY <1>1, <1>5, <1>6, <2>3
  <2>4. CASE i > m /\ k <= m
    BY <1>1, <2>4
  <2> QED
    BY <1>1, <2>1, <2>2, <2>3, <2>4
<1>7. Together(s, C)
  BY <1>2, <1>6 DEF Together
<1> QED
  BY <1>7 DEF s

(* What is of one call is together.                                        *)
LEMMA OneCall ==
  ASSUME NEW s \in Seq(Chars), NEW C, NEW x, CallsIn(s) \subseteq {x}
  PROVE  Together(s, C)
<1>1. ASSUME NEW i \in 1 .. Len(s) PROVE CallOf(s[i]) = x
  BY DEF CallsIn
<1>2. ASSUME NEW i \in 1 .. Len(s), NEW k \in 1 .. Len(s), NEW j \in i .. k
      PROVE  CallOf(s[j]) = CallOf(s[i])
  <2>1. j \in 1 .. Len(s)
    OBVIOUS
  <2> QED
    BY <1>1, <2>1
<1> QED
  BY <1>2 DEF Together

(* What was cut may be apart.                                              *)
LEMMA MoreCut ==
  ASSUME NEW s, NEW C, NEW D, C \subseteq D, Together(s, C)
  PROVE  Together(s, D)
BY DEF Together

LEMMA WholeIsTogether ==
  ASSUME NEW text \in Seq(Chars)
  PROVE  Whole(text) <=> Together(text, cut)
<1>1. DOMAIN text = 1 .. Len(text)
  OBVIOUS
<1> QED
  BY <1>1 DEF Whole, Together, CallOf

(* A call that is printing, or has printed, is one that has begun, and     *)
(* what it has yet to print goes after what it has printed, or is cut off. *)
BufferFits(t) ==
  /\ CallsIn(buf[t]) \subseteq {t} \X (0 .. calls[t])
  /\ CallsIn(buf[t]) \cap CallsIn(Logged) \subseteq cut
  /\ Together(buf[t], cut)

LoggedFits(t) == \A c \in Nat : <<t, c>> \in CallsIn(Logged) => c <= calls[t]

(* The call of an open proxy.                                              *)
Opened(t) == IF proxy[t] = None THEN {} ELSE {<<t, proxy[t].call>>}

ProxyFits(t) ==
  /\ proxy[t] # None => proxy[t].call \in 0 .. calls[t]
  /\ Opened(t) \cap CallsIn(Logged) \subseteq cut
  /\ IF pc[t] \in Pumping THEN Opened(t) \subseteq cut ELSE CallsIn(buf[t]) \subseteq Opened(t)

CallsFit(t) == BufferFits(t) /\ LoggedFits(t) /\ ProxyFits(t)

WholeInv == (\A t \in Threads : CallsFit(t)) /\ Together(Logged, cut)

(* A thread is not disturbed by what another logs.                         *)
LEMMA OthersFit ==
  ASSUME NEW t, NEW u, u # t, CallsFit(u), cut \subseteq cut',
         buf'[u] = buf[u], calls'[u] = calls[u], proxy'[u] = proxy[u], pc'[u] = pc[u],
         CallsIn(Logged') \subseteq CallsIn(Logged) \cup {t} \X Nat
  PROVE  CallsFit(u)'
<1> DEFINE L == CallsIn(Logged)
           M == CallsIn(Logged')
           B == CallsIn(buf[u])
<1>1. Opened(u)' = Opened(u)
  BY DEF Opened
<1>2. /\ B \subseteq {u} \X (0 .. calls[u])
      /\ B \cap L \subseteq cut /\ Together(buf[u], cut)
  BY DEF CallsFit, BufferFits
<1>3. \A c \in Nat : <<u, c>> \in L => c <= calls[u]
  BY DEF CallsFit, LoggedFits
<1>4. /\ proxy[u] # None => proxy[u].call \in 0 .. calls[u]
      /\ Opened(u) \cap L \subseteq cut
      /\ IF pc[u] \in Pumping THEN Opened(u) \subseteq cut ELSE B \subseteq Opened(u)
  BY DEF CallsFit, ProxyFits
<1>5. \A x \in M : x[1] = u => x \in L
  BY DEF L, M
<1>6. \A x \in Opened(u) : x[1] = u
  BY DEF Opened
<1> HIDE DEF L, M, B
<1>7. BufferFits(u)'
  <2>1. B \cap M \subseteq cut'
    BY <1>2, <1>5
  <2>2. Together(buf[u], cut')
    BY <1>2, MoreCut
  <2> QED
    BY <1>2, <2>1, <2>2 DEF BufferFits, B, M
<1>8. LoggedFits(u)'
  <2>1. \A c \in Nat : <<u, c>> \in M => c <= calls[u]
    BY <1>3, <1>5
  <2> QED
    BY <2>1 DEF LoggedFits, M
<1>9. ProxyFits(u)'
  <2>1. Opened(u)' \cap M \subseteq cut'
    BY <1>1, <1>4, <1>5, <1>6
  <2>2. proxy'[u] # None => proxy'[u].call \in 0 .. calls'[u]
    BY <1>4
  <2>3. IF pc'[u] \in Pumping THEN Opened(u)' \subseteq cut' ELSE CallsIn(buf'[u]) \subseteq Opened(u)'
    BY <1>1, <1>4 DEF B
  <2> QED
    BY <2>1, <2>2, <2>3 DEF ProxyFits, M
<1> QED
  BY <1>7, <1>8, <1>9 DEF CallsFit

(* A step of t that adds nothing to what is logged.                        *)
LEMMA UnloggedStep ==
  ASSUME WholeInv, Logged' = Logged, cut \subseteq cut', NEW t \in Threads, CallsFit(t)',
         \A u \in Threads \ {t} :
           buf'[u] = buf[u] /\ calls'[u] = calls[u] /\ proxy'[u] = proxy[u] /\ pc'[u] = pc[u]
  PROVE  WholeInv'
<1>1. ASSUME NEW u \in Threads \ {t} PROVE CallsFit(u)'
  <2>1. CallsFit(u)
    BY DEF WholeInv
  <2>2. CallsIn(Logged') \subseteq CallsIn(Logged) \cup {t} \X Nat
    OBVIOUS
  <2> QED
    BY <2>1, <2>2, OthersFit
<1>2. Together(Logged, cut')
  BY MoreCut DEF WholeInv
<1>3. Together(Logged', cut')
  BY <1>2
<1>4. \A u \in Threads : CallsFit(u)'
  BY <1>1
<1> QED
  BY <1>3, <1>4 DEF WholeInv

(* What t says in a call that it has just begun, and goes on to pump.      *)
LEMMA NewCallFits ==
  ASSUME IInv, WholeInv, NEW t \in Threads, pc[t] = "idle",
         calls' = [calls EXCEPT ![t] = @ + 1], UNCHANGED proxy,
         NEW text \in Seq(Chars), CallsIn(text) \subseteq {<<t, calls'[t]>>},
         Say(t, text), Cut(t), NEW n, Pump(t, n), UNCHANGED <<store, pos, taken>>
  PROVE  WholeInv'
<1>1. /\ buf \in [Threads -> Seq(Chars)] /\ calls \in [Threads -> Nat] /\ pc \in [Threads -> Pcs]
  BY DEF IInv, TypeOK, ThreadType, Pcs
<1>2. /\ buf'[t] = buf[t] \o text /\ calls'[t] = calls[t] + 1 /\ pc'[t] = "pump"
      /\ \A u \in Threads \ {t} :
           buf'[u] = buf[u] /\ calls'[u] = calls[u] /\ proxy'[u] = proxy[u] /\ pc'[u] = pc[u]
  BY <1>1 DEF Say, Pump
<1>3. Logged' = Logged
  BY SameLogged
<1>4. cut \subseteq cut' /\ Opened(t)' \subseteq cut'
  BY DEF Cut, Opened
<1>5. BufferFits(t) /\ LoggedFits(t) /\ ProxyFits(t)
  BY DEF WholeInv, CallsFit
<1>6. buf[t] \in Seq(Chars) /\ calls[t] \in Nat
  BY <1>1
<1>7. CallsIn(buf'[t]) \subseteq CallsIn(buf[t]) \cup {<<t, calls[t] + 1>>}
  BY <1>2, <1>6, CallsInConcat
<1>8. \A c : <<t, c>> \in CallsIn(buf[t]) => c \in 0 .. calls[t]
  BY <1>5 DEF BufferFits
<1>9. BufferFits(t)'
  <2>1. CallsIn(buf[t]) \subseteq {t} \X (0 .. calls[t] + 1)
    BY <1>5, <1>6 DEF BufferFits
  <2>2. <<t, calls[t] + 1>> \in {t} \X (0 .. calls[t] + 1)
    BY <1>6
  <2>3. CallsIn(buf'[t]) \subseteq {t} \X (0 .. calls'[t])
    BY <1>2, <1>7, <2>1, <2>2
  <2>4. <<t, calls[t] + 1>> \notin CallsIn(Logged)
    <3>1. calls[t] + 1 \in Nat /\ ~(calls[t] + 1 <= calls[t])
      BY <1>6
    <3> QED
      BY <1>5, <3>1 DEF LoggedFits
  <2>5. CallsIn(buf'[t]) \cap CallsIn(Logged') \subseteq cut'
    BY <1>3, <1>4, <1>5, <1>7, <2>4 DEF BufferFits
  <2>6. <<t, calls[t] + 1>> \notin CallsIn(buf[t])
    <3>1. ~(calls[t] + 1 \in 0 .. calls[t])
      BY <1>6
    <3> QED
      BY <1>8, <3>1
  <2>7. Together(buf[t], cut') /\ Together(text, cut')
    <3>1. Together(buf[t], cut')
      BY <1>4, <1>5, MoreCut DEF BufferFits
    <3>2. Together(text, cut')
      BY OneCall
    <3> QED
      BY <3>1, <3>2
  <2>8. CallsIn(buf[t]) \cap CallsIn(text) \subseteq cut'
    BY <1>2, <2>6
  <2>9. Together(buf'[t], cut')
    BY <1>2, <1>6, <2>7, <2>8, TogetherConcat
  <2> QED
    BY <2>3, <2>5, <2>9 DEF BufferFits
<1>10. LoggedFits(t)'
  <2>1. \A c \in Nat : <<t, c>> \in CallsIn(Logged') => c <= calls'[t]
    BY <1>2, <1>3, <1>5, <1>6 DEF LoggedFits
  <2> QED
    BY <2>1 DEF LoggedFits
<1>11. ProxyFits(t)'
  <2>1. proxy'[t] # None => proxy'[t].call \in 0 .. calls'[t]
    BY <1>2, <1>5, <1>6 DEF ProxyFits
  <2>2. pc'[t] \in Pumping
    BY <1>2 DEF Pumping
  <2> QED
    BY <1>4, <2>1, <2>2 DEF ProxyFits
<1> QED
  BY <1>2, <1>3, <1>4, <1>9, <1>10, <1>11, UnloggedStep DEF CallsFit

(* What t does without saying or logging anything: a proxy ends only where *)
(* its thread goes on to pump.                                             *)
LEMMA QuietFits ==
  ASSUME NEW t \in Threads, CallsFit(t), Logged' = Logged, cut' = cut, buf'[t] = buf[t],
         calls[t] \in Nat, calls'[t] \in {calls[t], calls[t] + 1},
         \/ proxy'[t] = proxy[t] /\ (pc'[t] \in Pumping <=> pc[t] \in Pumping)
         \/ proxy'[t] = None /\ pc'[t] \in Pumping
  PROVE  CallsFit(t)'
<1>1. BufferFits(t) /\ LoggedFits(t) /\ ProxyFits(t)
  BY DEF CallsFit
<1>2. 0 .. calls[t] \subseteq 0 .. calls'[t]
  OBVIOUS
<1>3. BufferFits(t)'
  <2>1. CallsIn(buf[t]) \subseteq {t} \X (0 .. calls'[t])
    BY <1>1, <1>2 DEF BufferFits
  <2> QED
    BY <1>1, <2>1 DEF BufferFits
<1>4. LoggedFits(t)'
  <2>1. \A c \in Nat : <<t, c>> \in CallsIn(Logged) => c <= calls'[t]
    BY <1>1 DEF LoggedFits
  <2> QED
    BY <2>1 DEF LoggedFits
<1>5. ProxyFits(t)'
  <2>1. CASE proxy'[t] = proxy[t] /\ (pc'[t] \in Pumping <=> pc[t] \in Pumping)
    <3>1. Opened(t)' = Opened(t)
      BY <2>1 DEF Opened
    <3>2. proxy'[t] # None => proxy'[t].call \in 0 .. calls'[t]
      BY <1>1, <1>2, <2>1 DEF ProxyFits
    <3> QED
      BY <1>1, <2>1, <3>1, <3>2 DEF ProxyFits
  <2>2. CASE proxy'[t] = None /\ pc'[t] \in Pumping
    <3>1. Opened(t)' = {}
      BY <2>2 DEF Opened
    <3> QED
      BY <2>2, <3>1 DEF ProxyFits
  <2> QED
    BY <2>1, <2>2
<1> QED
  BY <1>3, <1>4, <1>5 DEF CallsFit

(* What t adds to the proxy that is open when it has.                      *)
LEMMA ProxySaysFits ==
  ASSUME NEW t \in Threads, LoggedFits(t), Logged' = Logged, cut \subseteq cut',
         buf[t] \in Seq(Chars), NEW text \in Seq(Chars), buf'[t] = buf[t] \o text,
         calls[t] \in Nat, calls'[t] \in {calls[t], calls[t] + 1},
         proxy'[t] # None, proxy'[t].call \in 0 .. calls'[t],
         CallsIn(buf[t]) \subseteq Opened(t)', CallsIn(text) \subseteq Opened(t)',
         Opened(t)' \cap CallsIn(Logged) \subseteq cut,
         pc'[t] \in Pumping => Opened(t)' \subseteq cut'
  PROVE  CallsFit(t)'
<1>1. Opened(t)' = {<<t, proxy'[t].call>>}
  BY DEF Opened
<1>2. CallsIn(buf'[t]) \subseteq Opened(t)'
  BY CallsInConcat
<1>3. BufferFits(t)'
  <2>1. Together(buf'[t], cut')
    <3>1. buf'[t] \in Seq(Chars)
      OBVIOUS
    <3> QED
      BY <1>1, <1>2, <3>1, OneCall
  <2>2. CallsIn(buf'[t]) \subseteq {t} \X (0 .. calls'[t])
    BY <1>1, <1>2
  <2>3. CallsIn(buf'[t]) \cap CallsIn(Logged') \subseteq cut'
    BY <1>2
  <2> QED
    BY <2>1, <2>2, <2>3 DEF BufferFits
<1>4. LoggedFits(t)'
  <2>1. \A c \in Nat : <<t, c>> \in CallsIn(Logged) => c <= calls'[t]
    BY DEF LoggedFits
  <2> QED
    BY <2>1 DEF LoggedFits
<1>5. ProxyFits(t)'
  BY <1>2 DEF ProxyFits
<1> QED
  BY <1>3, <1>4, <1>5 DEF CallsFit

(* When the buffer of t has been pumped.                                   *)
LEMMA ClearedFits ==
  ASSUME NEW t \in Threads, CallsFit(t), pc[t] \in Pumping, calls[t] \in Nat,
         buf'[t] = <<>>, pc'[t] = "idle",
         calls'[t] = calls[t], proxy'[t] = proxy[t], cut' = cut,
         CallsIn(Logged') \subseteq CallsIn(Logged) \cup CallsIn(buf[t])
  PROVE  CallsFit(t)'
<1>1. BufferFits(t) /\ LoggedFits(t) /\ ProxyFits(t)
  BY DEF CallsFit
<1>2. CallsIn(buf'[t]) = {}
  BY CallsInEmpty
<1>3. BufferFits(t)'
  <2>1. Together(<<>>, cut)
    BY DEF Together
  <2> QED
    BY <1>2, <2>1 DEF BufferFits
<1>4. LoggedFits(t)'
  <2>1. \A c \in Nat : <<t, c>> \in CallsIn(buf[t]) => c <= calls[t]
    BY <1>1 DEF BufferFits
  <2>2. \A c \in Nat : <<t, c>> \in CallsIn(Logged') => c <= calls[t]
    BY <1>1, <2>1 DEF LoggedFits
  <2> QED
    BY <2>2 DEF LoggedFits
<1>5. ProxyFits(t)'
  <2>1. Opened(t)' = Opened(t) /\ Opened(t) \subseteq cut
    BY <1>1 DEF Opened, ProxyFits
  <2>2. pc'[t] \notin Pumping
    BY DEF Pumping
  <2>3. proxy'[t] # None => proxy'[t].call \in 0 .. calls'[t]
    BY <1>1 DEF ProxyFits
  <2> QED
    BY <1>2, <2>1, <2>2, <2>3 DEF ProxyFits
<1> QED
  BY <1>3, <1>4, <1>5 DEF CallsFit

LEMMA AdvanceWhole ==
  ASSUME IInv, CopiedOwn, WholeInv, NEW t \in Threads, Advance(t)
  PROVE  WholeInv'
<1>1. /\ pc[t] = "advance" /\ Pumped(t) /\ UNCHANGED <<calls, proxy, cut>>
  BY DEF Advance, At
<1>2. TypeOK /\ buf[t] \in Seq(Chars) /\ size[t] \in 0 .. Len(buf[t]) /\ calls[t] \in Nat
  <2>1. buf[t] \in Seq(Chars) /\ size[t] \in Nat /\ calls[t] \in Nat /\ TypeOK
    BY DEF IInv, TypeOK, ThreadType
  <2>2. size[t] <= Len(buf[t]) /\ Len(buf[t]) \in Nat
    BY <2>1 DEF IInv, SizesFit
  <2> QED
    BY <2>1, <2>2
<1>3. pc'[t] = "idle" /\ buf'[t] = <<>>
      /\ \A u \in Threads \ {t} : pc'[u] = pc[u] /\ buf'[u] = buf[u]
  BY <1>1, <1>2, PumpedMoves
<1>4. Logged' = Logged \o Chunk(t) /\ Logged \in Seq(Chars) /\ Chunk(t) \in Seq(Chars)
  BY <1>2, AdvanceLogs, LoggedIsText, ChunkIsText DEF IInv
<1>5. CallsIn(Chunk(t)) \subseteq CallsIn(buf[t]) /\ Together(Chunk(t), cut)
  <2>1. Together(buf[t], cut)
    BY DEF WholeInv, CallsFit, BufferFits
  <2> QED
    BY <1>2, <2>1, CallsInFirst, FirstTogether DEF Chunk
<1>6. CallsIn(Logged') \subseteq CallsIn(Logged) \cup CallsIn(buf[t])
  BY <1>4, <1>5, CallsInConcat
<1>7. CallsFit(t)'
  <2>1. CallsFit(t) /\ pc[t] \in Pumping
    BY <1>1 DEF WholeInv, Pumping
  <2> QED
    BY <1>1, <1>2, <1>3, <1>6, <2>1, ClearedFits
<1>8. ASSUME NEW u \in Threads \ {t} PROVE CallsFit(u)'
  <2>1. CallsFit(u) /\ CallsIn(buf[t]) \subseteq {t} \X (0 .. calls[t])
    BY DEF WholeInv, CallsFit, BufferFits
  <2>2. CallsIn(buf[t]) \subseteq {t} \X Nat
    BY <1>2, <2>1
  <2>3. CallsIn(Logged') \subseteq CallsIn(Logged) \cup {t} \X Nat
    BY <1>6, <2>2
  <2> QED
    BY <1>1, <1>3, <2>1, <2>3, OthersFit
<1>9. Together(Logged', cut')
  <2>1. CallsIn(Logged) \cap CallsIn(Chunk(t)) \subseteq cut /\ Together(Logged, cut)
    BY <1>5 DEF WholeInv, CallsFit, BufferFits
  <2>2. Together(Logged \o Chunk(t), cut)
    BY <1>4, <1>5, <2>1, TogetherConcat
  <2> QED
    BY <1>1, <1>4, <2>2
<1>10. \A u \in Threads : CallsFit(u)'
  BY <1>7, <1>8
<1> QED
  BY <1>9, <1>10 DEF WholeInv

LEMMA CallsCount ==
  ASSUME TypeOK, NEW t \in Threads, Calls(t)
  PROVE  calls[t] \in Nat /\ calls'[t] = calls[t] + 1 /\ pc[t] = "idle"
BY DEF TypeOK, ThreadType, Calls, Ready, At

LEMMA SpeechIsOneCall ==
  ASSUME NEW t \in Threads, NEW h, calls' \in ThreadType(Nat)
  PROVE  /\ CallsIn(Prefix(t, h)) \subseteq {<<t, calls'[t]>>}
         /\ CallsIn(Prefix(t, h) \o Line(t)) \subseteq {<<t, calls'[t]>>}
<1>1. Prefix(t, h) \in Seq(Chars) /\ Line(t) \in Seq(Chars) /\ Len(Line(t)) = Body
  BY SpeechIsOwn
<1>2. CallsIn(Prefix(t, h)) \subseteq {<<t, calls'[t]>>}
  <2>1. CallsIn(<<>>) = {}
    BY CallsInEmpty
  <2>2. CallsIn(<< <<t, calls'[t], 0>> >>) \subseteq {<<t, calls'[t]>>}
    BY DEF CallsIn, CallOf
  <2> QED
    BY <2>1, <2>2 DEF Prefix
<1>3. CallsIn(Line(t)) \subseteq {<<t, calls'[t]>>}
  <2>1. \A k \in 1 .. Body : Line(t)[k] = <<t, calls'[t], k>>
    BY DEF Line
  <2> QED
    BY <1>1, <2>1 DEF CallsIn, CallOf
<1> QED
  BY <1>1, <1>2, <1>3, CallsInConcat

LEMMA PrintLineWhole ==
  ASSUME IInv, WholeInv, NEW t \in Threads, NEW h, NEW lev, pc[t] = "idle",
         calls' = [calls EXCEPT ![t] = @ + 1], UNCHANGED proxy, PrintLine(t, h, lev),
         \A u \in Threads \ {t} : Leaves(u), UNCHANGED <<store, pos, taken>>
  PROVE  WholeInv'
<1>1. calls[t] \in Nat /\ calls'[t] = calls[t] + 1 /\ calls' \in ThreadType(Nat)
  <2>1. calls \in [Threads -> Nat]
    BY DEF IInv, TypeOK, ThreadType
  <2>2. calls' \in [Threads -> Nat]
    BY <2>1
  <2> QED
    BY <2>1, <2>2 DEF ThreadType
<1>2. CASE Skip(h, lev)
  <2>1. UNCHANGED <<buf, pc, cut>>
    BY <1>2 DEF PrintLine, Unpumped
  <2>2. Logged' = Logged /\ CallsFit(t)
    BY SameLogged DEF WholeInv
  <2>3. CallsFit(t)'
    BY <1>1, <2>1, <2>2, QuietFits
  <2> QED
    BY <2>1, <2>2, <2>3, UnloggedStep DEF Leaves
<1>3. CASE ~Skip(h, lev)
  <2>1. Say(t, Prefix(t, h) \o Line(t)) /\ Pump(t, Len(buf'[t])) /\ Cut(t)
    BY <1>3 DEF PrintLine
  <2>2. /\ Prefix(t, h) \o Line(t) \in Seq(Chars)
        /\ CallsIn(Prefix(t, h) \o Line(t)) \subseteq {<<t, calls'[t]>>}
    BY <1>1, SpeechIsOwn, SpeechIsOneCall
  <2> QED
    BY <2>1, <2>2, NewCallFits
<1> QED
  BY <1>2, <1>3

LEMMA WriteWhole ==
  ASSUME IInv, WholeInv, NEW t \in Threads, NEW h, NEW lev, Write(t, h, lev),
         \A u \in Threads \ {t} : Leaves(u)
  PROVE  WholeInv'
<1>1. /\ calls' = [calls EXCEPT ![t] = @ + 1] /\ UNCHANGED <<proxy, store, pos, taken>>
      /\ calls' \in ThreadType(Nat) /\ pc[t] = "idle"
      /\ calls[t] \in Nat /\ calls'[t] = calls[t] + 1
  BY CallsTyped, CallsCount DEF Write, Calls, IInv, sinks
<1>2. CASE Skip(h, lev)
  <2>1. UNCHANGED <<buf, pc, cut>>
    BY <1>2 DEF Write, Unpumped
  <2>2. Logged' = Logged /\ CallsFit(t)
    BY <1>1, SameLogged DEF WholeInv
  <2>3. CallsFit(t)'
    BY <1>1, <2>1, <2>2, QuietFits
  <2> QED
    BY <2>1, <2>2, <2>3, UnloggedStep DEF Leaves
<1>3. CASE ~Skip(h, lev)
  <2>1. Say(t, Prefix(t, h) \o Line(t)) /\ Pump(t, Body) /\ Cut(t)
    BY <1>3 DEF Write
  <2>2. /\ Prefix(t, h) \o Line(t) \in Seq(Chars)
        /\ CallsIn(Prefix(t, h) \o Line(t)) \subseteq {<<t, calls'[t]>>}
    BY <1>1, SpeechIsOwn, SpeechIsOneCall
  <2> QED
    BY <1>1, <2>1, <2>2, NewCallFits
<1> QED
  BY <1>2, <1>3

LEMMA OpenProxyWhole ==
  ASSUME IInv, WholeInv, NEW t \in Threads, NEW h, NEW lev, OpenProxy(t, h, lev),
         \A u \in Threads \ {t} : Leaves(u)
  PROVE  WholeInv'
<1>1. /\ calls' \in ThreadType(Nat) /\ pc[t] = "idle"
      /\ calls[t] \in Nat /\ calls'[t] = calls[t] + 1
      /\ proxy[t] = None /\ Say(t, Prefix(t, h)) /\ UNCHANGED <<pc, cut, store, pos, taken>>
  BY CallsTyped, CallsCount DEF OpenProxy, IInv, sinks
<1>2. buf[t] \in Seq(Chars) /\ buf'[t] = buf[t] \o Prefix(t, h)
      /\ proxy'[t] = [call |-> calls'[t], given |-> 0]
  BY <1>1 DEF Say, OpenProxy, IInv, TypeOK, ThreadType
<1>3. proxy'[t] # None
  <2>1. calls'[t] \in Nat /\ 0 \in 0 .. Body
    BY <1>1, LogAssumption
  <2>2. [call |-> calls'[t], given |-> 0] \in [call : Nat, given : 0 .. Body]
    BY <2>1
  <2> QED
    BY <1>2, <2>2, LogAssumption
<1>4. Prefix(t, h) \in Seq(Chars) /\ CallsIn(Prefix(t, h)) \subseteq {<<t, calls'[t]>>}
  BY <1>1, SpeechIsOwn, SpeechIsOneCall
<1>5. Logged' = Logged /\ LoggedFits(t) /\ ProxyFits(t)
  BY <1>1, SameLogged DEF WholeInv, CallsFit
<1>6. CallsIn(buf[t]) \subseteq {}
  BY <1>1, <1>5 DEF ProxyFits, Opened, Pumping
<1>7. Opened(t)' = {<<t, calls'[t]>>}
  BY <1>2, <1>3 DEF Opened
<1>8. <<t, calls'[t]>> \notin CallsIn(Logged)
  <2>1. calls'[t] \in Nat /\ ~(calls'[t] <= calls[t])
    BY <1>1
  <2> QED
    BY <1>5, <2>1 DEF LoggedFits
<1>9. proxy'[t].call \in 0 .. calls'[t]
  BY <1>1, <1>2
<1>10. pc'[t] \notin Pumping
  BY <1>1 DEF Pumping
<1>11. CallsFit(t)'
  BY <1>1, <1>2, <1>3, <1>4, <1>5, <1>6, <1>7, <1>8, <1>9, <1>10, ProxySaysFits
<1> QED
  BY <1>1, <1>5, <1>11, UnloggedStep DEF Leaves

LEMMA StreamWhole ==
  ASSUME IInv, WholeInv, NEW t \in Threads, Stream(t), \A u \in Threads \ {t} : Leaves(u)
  PROVE  WholeInv'
<1> DEFINE p == proxy[t]
           text == << <<t, p.call, p.given + 1>> >>
<1>1. /\ pc[t] = "idle" /\ p \in [call : Nat, given : 0 .. Body] /\ p # None
      /\ p.given \in 0 .. Body /\ p.given < Body /\ p.call \in Nat /\ Body \in Nat
  BY LogAssumption DEF Stream, Ready, At, IInv, TypeOK, ThreadType
<1>2. text \in Seq(Chars) /\ CallsIn(text) \subseteq {<<t, p.call>>}
  <2>1. p.given + 1 \in 0 .. Body
    BY <1>1
  <2>2. <<t, p.call, p.given + 1>> \in Chars
    BY <1>1, <2>1 DEF Chars
  <2> QED
    BY <2>2 DEF CallsIn, CallOf
<1>3. /\ Say(t, text) /\ UNCHANGED calls
      /\ \/ Pump(t, Len(buf'[t])) /\ Cut(t)
         \/ UNCHANGED <<size, pc, cut>>
  BY DEF Stream
<1>4. UNCHANGED <<store, pos, taken>>
  BY DEF Stream, sinks
<1>5. proxy'[t] = [p EXCEPT !.given = @ + 1]
  BY DEF Stream, IInv, TypeOK, ThreadType
<1>6. proxy'[t].call = p.call /\ proxy'[t] # None
  <2>1. p.given + 1 \in 0 .. Body
    BY <1>1
  <2>2. proxy'[t] \in [call : Nat, given : 0 .. Body] /\ proxy'[t].call = p.call
    BY <1>1, <1>5, <2>1
  <2> QED
    BY <2>2, LogAssumption
<1>7. Opened(t)' = {<<t, p.call>>} /\ Opened(t) = {<<t, p.call>>}
  BY <1>1, <1>6 DEF Opened
<1>8. Logged' = Logged /\ LoggedFits(t) /\ ProxyFits(t)
  BY <1>4, SameLogged DEF WholeInv, CallsFit
<1>9. CallsIn(buf[t]) \subseteq Opened(t)
  BY <1>1, <1>8 DEF ProxyFits, Pumping
<1>10. buf[t] \in Seq(Chars) /\ buf'[t] = buf[t] \o text /\ calls[t] \in Nat
  BY <1>3 DEF Say, IInv, TypeOK, ThreadType
<1>11. cut \subseteq cut' /\ (pc'[t] \in Pumping => Opened(t)' \subseteq cut')
  <2>1. CASE Cut(t)
    BY <1>1, <1>7, <2>1 DEF Cut
  <2>2. CASE UNCHANGED <<pc, cut>>
    BY <1>1, <2>2 DEF Pumping
  <2> QED
    BY <1>3, <2>1, <2>2
<1>12. Opened(t)' \cap CallsIn(Logged) \subseteq cut /\ proxy'[t].call \in 0 .. calls'[t]
  BY <1>1, <1>3, <1>6, <1>7, <1>8 DEF ProxyFits
<1> HIDE DEF text, p
<1>13. CallsFit(t)'
  BY <1>2, <1>3, <1>6, <1>7, <1>8, <1>9, <1>10, <1>11, <1>12, ProxySaysFits
<1> QED
  BY <1>8, <1>11, <1>13, UnloggedStep DEF Leaves

(* A step of t that says and logs nothing.                                 *)
LEMMA QuietWhole ==
  ASSUME IInv, WholeInv, NEW t \in Threads, UNCHANGED <<store, pos, taken, cut, buf>>,
         \/ UNCHANGED calls
         \/ calls' = [calls EXCEPT ![t] = @ + 1],
         \/ UNCHANGED <<proxy, pc>>
         \/ UNCHANGED proxy /\ (pc'[t] \in Pumping <=> pc[t] \in Pumping)
         \/ Finish(t),
         \A u \in Threads \ {t} : Leaves(u)
  PROVE  WholeInv'
<1>1. calls[t] \in Nat /\ calls'[t] \in {calls[t], calls[t] + 1}
  BY DEF IInv, TypeOK, ThreadType
<1>2. Logged' = Logged /\ CallsFit(t)
  BY SameLogged DEF WholeInv
<1>3. \/ proxy'[t] = proxy[t] /\ (pc'[t] \in Pumping <=> pc[t] \in Pumping)
      \/ proxy'[t] = None /\ pc'[t] \in Pumping
  BY DEF Finish, Pump, Pumping, IInv, TypeOK, ThreadType
<1>4. CallsFit(t)'
  BY <1>1, <1>2, <1>3, QuietFits
<1> QED
  BY <1>2, <1>4, UnloggedStep DEF Leaves

LEMMA PumpTermWhole ==
  ASSUME IInv, WholeInv, NEW t \in Threads, PumpTerm(t), \A u \in Threads \ {t} : Leaves(u)
  PROVE  WholeInv'
<1>1. /\ pc[t] = "pump" /\ UNCHANGED <<store, pos, taken, cut, calls, proxy>>
  BY DEF PumpTerm, At
<1>2. TypeOK
  BY DEF IInv
<1>3. CASE "str" \in mode
  <2>1. UNCHANGED buf /\ pc' = [pc EXCEPT ![t] = "lock"]
    BY <1>3 DEF PumpTerm
  <2>2. pc'[t] \in Pumping <=> pc[t] \in Pumping
    BY <1>1, <1>2, <2>1 DEF Pumping, TypeOK, ThreadType
  <2> QED
    BY <1>1, <2>1, <2>2, QuietWhole
<1>4. CASE "str" \notin mode
  <2>1. Pumped(t)
    BY <1>4 DEF PumpTerm
  <2>2. pc'[t] = "idle" /\ buf'[t] = <<>> /\ calls[t] \in Nat
    BY <1>2, <2>1, PumpedMoves DEF TypeOK, ThreadType
  <2>3. Logged' = Logged /\ CallsFit(t) /\ pc[t] \in Pumping
    BY <1>1, SameLogged DEF WholeInv, Pumping
  <2>4. CallsIn(Logged') \subseteq CallsIn(Logged) \cup CallsIn(buf[t])
    BY <2>3
  <2>5. CallsFit(t)'
    BY <1>1, <2>2, <2>3, <2>4, ClearedFits
  <2> QED
    BY <1>1, <2>3, <2>5, UnloggedStep DEF Leaves
<1> QED
  BY <1>3, <1>4

(* Neither what is copied nor what is taken away is logged by it.          *)
LEMMA SameWhole ==
  ASSUME WholeInv, Logged' = Logged, NEW t \in Threads, UNCHANGED <<cut, buf, calls, proxy>>,
         calls[t] \in Nat, pc'[t] \in Pumping <=> pc[t] \in Pumping,
         \A u \in Threads \ {t} : Leaves(u)
  PROVE  WholeInv'
<1>1. CallsFit(t)
  BY DEF WholeInv
<1>2. calls'[t] \in {calls[t], calls[t] + 1} /\ proxy'[t] = proxy[t]
  OBVIOUS
<1>3. CallsFit(t)'
  BY <1>1, <1>2, QuietFits
<1> QED
  BY <1>3, UnloggedStep DEF Leaves

LEMMA CopyWhole ==
  ASSUME IInv, WholeInv, NEW t \in Threads, Copy(t), \A u \in Threads \ {t} : Leaves(u)
  PROVE  WholeInv'
<1>1. UNCHANGED <<cut, buf, calls, proxy, taken>>
  BY DEF Copy
<1>2. calls[t] \in Nat /\ (pc'[t] \in Pumping <=> pc[t] \in Pumping)
  BY DEF Copy, At, Pumping, IInv, TypeOK, ThreadType
<1>3. Logged' = Logged
  BY <1>1, CopyLeavesText DEF Logged
<1> QED
  BY <1>1, <1>2, <1>3, SameWhole

LEMMA TakeWhole ==
  ASSUME IInv, WholeInv, NEW t \in Threads, Take(t), \A u \in Threads \ {t} : Leaves(u)
  PROVE  WholeInv'
<1>1. UNCHANGED <<cut, buf, calls, proxy, pc>>
  BY DEF Take
<1>2. calls[t] \in Nat
  BY DEF IInv, TypeOK, ThreadType
<1>3. Logged' = Logged
  BY TakeLogs
<1> QED
  BY <1>1, <1>2, <1>3, SameWhole

LEMMA OwnStepsWhole ==
  ASSUME IInv, CopiedOwn, WholeInv, NEW t \in Threads, Step(t)
  PROVE  WholeInv'
<1>1. \A u \in Threads \ {t} : Leaves(u)
  BY OwnStepsLeave
<1>2. pc \in [Threads -> Pcs]
  BY DEF IInv, TypeOK, ThreadType, Pcs
<1>3. CASE PumpTerm(t)
  BY <1>1, <1>3, PumpTermWhole
<1>4. CASE Lock(t)
  <2>1. UNCHANGED <<store, pos, taken, cut, buf, calls, proxy>>
    BY <1>4 DEF Lock, sinks
  <2>2. pc'[t] \in Pumping <=> pc[t] \in Pumping
    BY <1>2, <1>4 DEF Lock, At, Pumping
  <2> QED
    BY <1>1, <2>1, <2>2, QuietWhole
<1>5. CASE Copy(t)
  BY <1>1, <1>5, CopyWhole
<1>6. CASE Advance(t)
  BY <1>6, AdvanceWhole
<1>7. CASE StrLock(t)
  <2>1. UNCHANGED <<store, pos, taken, cut, buf, calls, proxy>>
    BY <1>7 DEF StrLock, sinks
  <2>2. pc'[t] \in Pumping <=> pc[t] \in Pumping
    BY <1>2, <1>7 DEF StrLock, At, Pumping
  <2> QED
    BY <1>1, <2>1, <2>2, QuietWhole
<1>8. CASE Release(t)
  <2>1. UNCHANGED <<store, pos, taken, cut, buf, calls, proxy, pc>>
    BY <1>8 DEF Release, sinks
  <2> QED
    BY <1>1, <2>1, QuietWhole
<1>9. CASE ErrorLine(t)
  <2>1. /\ pc[t] = "idle" /\ calls' = [calls EXCEPT ![t] = @ + 1] /\ UNCHANGED proxy
        /\ PrintLine(t, 0, Err) /\ UNCHANGED <<store, pos, taken>>
    BY <1>9 DEF ErrorLine, At, sinks
  <2> QED
    BY <1>1, <2>1, PrintLineWhole
<1>10. CASE EndError(t)
  <2>1. UNCHANGED <<store, pos, taken, cut, buf, calls>> /\ (UNCHANGED <<proxy, pc>> \/ Finish(t))
    BY <1>10 DEF EndError
  <2> QED
    BY <1>1, <2>1, QuietWhole
<1> QED
  BY <1>3, <1>4, <1>5, <1>6, <1>7, <1>8, <1>9, <1>10 DEF Step

LEMMA CallsWhole ==
  ASSUME IInv, WholeInv, NEW t \in Threads, Begin(t)
  PROVE  WholeInv'
<1>1. \A u \in Threads \ {t} : Leaves(u)
  BY CallsLeave
<1>2. pc \in [Threads -> Pcs]
  BY DEF IInv, TypeOK, ThreadType, Pcs
<1>3. ASSUME NEW h, NEW lev, PrintTo(t, h, lev) PROVE WholeInv'
  <2>1. /\ pc[t] = "idle" /\ calls' = [calls EXCEPT ![t] = @ + 1] /\ UNCHANGED proxy
        /\ PrintLine(t, h, lev) /\ UNCHANGED <<store, pos, taken>>
    BY <1>3 DEF PrintTo, Calls, Ready, At, sinks
  <2> QED
    BY <1>1, <2>1, PrintLineWhole
<1>4. ASSUME NEW h, NEW lev, Write(t, h, lev) PROVE WholeInv'
  BY <1>1, <1>4, WriteWhole
<1>5. ASSUME NEW h, NEW lev, OpenProxy(t, h, lev) PROVE WholeInv'
  BY <1>1, <1>5, OpenProxyWhole
<1>6. CASE Stream(t)
  BY <1>1, <1>6, StreamWhole
<1>7. CASE CloseProxy(t)
  <2>1. UNCHANGED <<store, pos, taken, cut, buf, calls>> /\ Finish(t)
    BY <1>7 DEF CloseProxy, sinks
  <2> QED
    BY <1>1, <2>1, QuietWhole
<1>8. CASE Str(t)
  <2>1. UNCHANGED <<store, pos, taken, cut, buf, proxy>> /\ calls' = [calls EXCEPT ![t] = @ + 1]
    BY <1>8 DEF Str, Calls, sinks
  <2>2. pc'[t] \in Pumping <=> pc[t] \in Pumping
    BY <1>2, <1>8 DEF Str, At, Pumping
  <2> QED
    BY <1>1, <2>1, <2>2, QuietWhole
<1>9. CASE Take(t)
  BY <1>1, <1>9, TakeWhole
<1>10. ASSUME NEW e, Fail(t, e) PROVE WholeInv'
  <2>1. /\ UNCHANGED <<store, pos, taken, cut, buf, proxy, pc>>
        /\ calls' = [calls EXCEPT ![t] = @ + 1]
    BY <1>10 DEF Fail, Calls, sinks
  <2> QED
    BY <1>1, <2>1, QuietWhole
<1>11. ASSUME NEW n, FindMissing(t, n) PROVE WholeInv'
  <2>1. /\ pc[t] = "idle" /\ calls' = [calls EXCEPT ![t] = @ + 1] /\ UNCHANGED proxy
        /\ PrintLine(t, 0, Err) /\ UNCHANGED <<store, pos, taken>>
    BY <1>11 DEF FindMissing, Calls, Ready, At, sinks
  <2> QED
    BY <1>1, <2>1, PrintLineWhole
<1>12. ASSUME NEW n, NEW lev, AddChannel(t, n, lev) PROVE WholeInv'
  <2>1. /\ UNCHANGED <<store, pos, taken, cut, buf, proxy, pc>>
        /\ calls' = [calls EXCEPT ![t] = @ + 1]
    BY <1>12 DEF AddChannel, Calls, sinks
  <2> QED
    BY <1>1, <2>1, QuietWhole
<1>13. ASSUME NEW lev, SetLevel(t, lev) PROVE WholeInv'
  <2>1. /\ UNCHANGED <<store, pos, taken, cut, buf, proxy, pc>>
        /\ calls' = [calls EXCEPT ![t] = @ + 1]
    BY <1>13 DEF SetLevel, Calls, sinks
  <2> QED
    BY <1>1, <2>1, QuietWhole
<1> QED
  BY <1>3, <1>4, <1>5, <1>6, <1>7, <1>8, <1>9, <1>10, <1>11, <1>12, <1>13 DEF Begin

LEMMA InitWhole == Init => WholeInv
<1> SUFFICES ASSUME Init PROVE WholeInv
  OBVIOUS
<1>1. Logged = <<>>
  <2>1. SubSeq(<<>>, 1, 0) = <<>> /\ <<>> \o <<>> = <<>>
    OBVIOUS
  <2> QED
    BY <2>1 DEF Init, Text, Logged
<1>2. CallsIn(<<>>) = {} /\ \A C : Together(<<>>, C)
  BY CallsInEmpty DEF Together
<1>3. ASSUME NEW t \in Threads PROVE CallsFit(t)
  <2>1. buf[t] = <<>> /\ proxy[t] = None /\ pc[t] = "idle" /\ calls[t] = 0
    BY DEF Init
  <2>2. BufferFits(t)
    BY <1>1, <1>2, <2>1 DEF BufferFits
  <2>3. LoggedFits(t)
    BY <1>1, <1>2 DEF LoggedFits
  <2>4. ProxyFits(t)
    BY <1>1, <1>2, <2>1 DEF ProxyFits, Opened, Pumping
  <2> QED
    BY <2>2, <2>3, <2>4 DEF CallsFit
<1>4. Together(Logged, cut)
  BY <1>1, <1>2
<1> QED
  BY <1>3, <1>4 DEF WholeInv

LEMMA StepWhole == IInv /\ CopiedOwn /\ WholeInv /\ [Next]_vars => WholeInv'
<1> SUFFICES ASSUME IInv, CopiedOwn, WholeInv, [Next]_vars PROVE WholeInv'
  OBVIOUS
<1>1. CASE UNCHANGED vars
  <2>1. UNCHANGED <<store, pos, taken, buf, calls, proxy, pc, cut>>
    BY <1>1 DEF vars, sinks
  <2>2. UNCHANGED Logged
    BY <2>1, SameLogged
  <2> QED
    BY <2>1, <2>2 DEF WholeInv, CallsFit, BufferFits, LoggedFits, ProxyFits, Opened
<1>2. ASSUME NEW t \in Threads, Step(t) PROVE WholeInv'
  BY <1>2, OwnStepsWhole
<1>3. ASSUME NEW t \in Threads, Begin(t) PROVE WholeInv'
  BY <1>3, CallsWhole
<1> QED
  BY <1>1, <1>2, <1>3 DEF Next

(* What a step adds to what its thread has to print: of the call that it   *)
(* begins, or of the proxy that is open.  A thread that has printed to the *)
(* terminal clears its buffer before it prints more.                       *)
Adds(t) ==
  /\ cut \subseteq cut' /\ calls'[t] \in {calls[t], calls[t] + 1}
  /\ CallsIn(buf'[t]) \subseteq CallsIn(buf[t]) \cup Opened(t) \cup {<<t, calls[t] + 1>>}
  /\ Opened(t)' \subseteq Opened(t) \cup {<<t, calls[t] + 1>>}
  /\ pc[t] \in Late => pc'[t] \in Late \/ buf'[t] = <<>>

LEMMA SayAdds ==
  ASSUME IInv, NEW t \in Threads, pc[t] = "idle",
         NEW text \in Seq(Chars), Say(t, text),
         CallsIn(text) \subseteq Opened(t) \cup {<<t, calls[t] + 1>>},
         Opened(t)' \subseteq Opened(t) \cup {<<t, calls[t] + 1>>},
         calls'[t] \in {calls[t], calls[t] + 1}, cut \subseteq cut'
  PROVE  Adds(t)
<1>1. buf[t] \in Seq(Chars) /\ buf'[t] = buf[t] \o text
  BY DEF IInv, TypeOK, ThreadType, Say
<1>2. CallsIn(buf'[t]) \subseteq CallsIn(buf[t]) \cup CallsIn(text)
  BY <1>1, CallsInConcat
<1>3. pc[t] \notin Late
  BY DEF Late
<1> QED
  BY <1>2, <1>3 DEF Adds

LEMMA QuietAdds ==
  ASSUME NEW t \in Threads, UNCHANGED <<cut, buf>>,
         calls'[t] \in {calls[t], calls[t] + 1},
         proxy'[t] = proxy[t] \/ proxy'[t] = None,
         pc[t] \in Late => pc'[t] \in Late
  PROVE  Adds(t)
<1>1. Opened(t)' \subseteq Opened(t)
  BY DEF Opened
<1> QED
  BY <1>1 DEF Adds

LEMMA PumpedAdds ==
  ASSUME TypeOK, NEW t \in Threads, Pumped(t), UNCHANGED <<cut, calls, proxy>>
  PROVE  Adds(t)
<1>1. buf'[t] = <<>> /\ CallsIn(buf'[t]) = {}
  BY PumpedMoves, CallsInEmpty
<1>2. Opened(t)' = Opened(t)
  BY DEF Opened
<1> QED
  BY <1>1, <1>2 DEF Adds

LEMMA PrintLineAdds ==
  ASSUME IInv, NEW t \in Threads, NEW h, NEW lev, pc[t] = "idle",
         calls' = [calls EXCEPT ![t] = @ + 1], UNCHANGED proxy, PrintLine(t, h, lev)
  PROVE  Adds(t)
<1>1. calls'[t] = calls[t] + 1 /\ calls' \in ThreadType(Nat)
  <2>1. calls \in [Threads -> Nat]
    BY DEF IInv, TypeOK, ThreadType
  <2>2. calls' \in [Threads -> Nat]
    BY <2>1
  <2> QED
    BY <2>1, <2>2 DEF ThreadType
<1>2. CASE Skip(h, lev)
  <2>1. UNCHANGED <<buf, pc, cut>>
    BY <1>2 DEF PrintLine, Unpumped
  <2> QED
    BY <1>1, <2>1, QuietAdds
<1>3. CASE ~Skip(h, lev)
  <2>1. Say(t, Prefix(t, h) \o Line(t)) /\ cut \subseteq cut'
    BY <1>3 DEF PrintLine, Cut
  <2>2. /\ Prefix(t, h) \o Line(t) \in Seq(Chars)
        /\ CallsIn(Prefix(t, h) \o Line(t)) \subseteq {<<t, calls'[t]>>}
    BY <1>1, SpeechIsOwn, SpeechIsOneCall
  <2>3. Opened(t)' = Opened(t)
    BY DEF Opened
  <2> QED
    BY <1>1, <2>1, <2>2, <2>3, SayAdds
<1> QED
  BY <1>2, <1>3

LEMMA WriteAdds ==
  ASSUME IInv, NEW t \in Threads, NEW h, NEW lev, Write(t, h, lev)
  PROVE  Adds(t)
<1>1. /\ UNCHANGED proxy /\ calls' \in ThreadType(Nat) /\ pc[t] = "idle"
      /\ calls'[t] = calls[t] + 1
  BY CallsTyped, CallsCount DEF Write, IInv
<1>2. CASE Skip(h, lev)
  <2>1. UNCHANGED <<buf, pc, cut>>
    BY <1>2 DEF Write, Unpumped
  <2> QED
    BY <1>1, <2>1, QuietAdds
<1>3. CASE ~Skip(h, lev)
  <2>1. Say(t, Prefix(t, h) \o Line(t)) /\ cut \subseteq cut'
    BY <1>3 DEF Write, Cut
  <2>2. /\ Prefix(t, h) \o Line(t) \in Seq(Chars)
        /\ CallsIn(Prefix(t, h) \o Line(t)) \subseteq {<<t, calls'[t]>>}
    BY <1>1, SpeechIsOwn, SpeechIsOneCall
  <2>3. Opened(t)' = Opened(t)
    BY <1>1 DEF Opened
  <2> QED
    BY <1>1, <2>1, <2>2, <2>3, SayAdds
<1> QED
  BY <1>2, <1>3

LEMMA OpenProxyAdds ==
  ASSUME IInv, NEW t \in Threads, NEW h, NEW lev, OpenProxy(t, h, lev)
  PROVE  Adds(t)
<1>1. /\ calls' \in ThreadType(Nat) /\ pc[t] = "idle" /\ calls'[t] = calls[t] + 1
      /\ Say(t, Prefix(t, h)) /\ UNCHANGED cut
  BY CallsTyped, CallsCount DEF OpenProxy, IInv
<1>2. proxy'[t].call = calls'[t]
  BY DEF OpenProxy, IInv, TypeOK, ThreadType
<1>3. Opened(t)' \subseteq {<<t, calls[t] + 1>>}
  BY <1>1, <1>2 DEF Opened
<1>4. Prefix(t, h) \in Seq(Chars) /\ CallsIn(Prefix(t, h)) \subseteq {<<t, calls'[t]>>}
  BY <1>1, SpeechIsOwn, SpeechIsOneCall
<1> QED
  BY <1>1, <1>3, <1>4, SayAdds

LEMMA StreamAdds ==
  ASSUME IInv, NEW t \in Threads, Stream(t)
  PROVE  Adds(t)
<1> DEFINE p == proxy[t]
           text == << <<t, p.call, p.given + 1>> >>
<1>1. /\ pc[t] = "idle" /\ p \in [call : Nat, given : 0 .. Body] /\ p # None
      /\ p.given \in 0 .. Body /\ p.given < Body /\ p.call \in Nat /\ Body \in Nat
  BY LogAssumption DEF Stream, Ready, At, IInv, TypeOK, ThreadType
<1>2. text \in Seq(Chars) /\ CallsIn(text) \subseteq {<<t, p.call>>}
  <2>1. p.given + 1 \in 0 .. Body
    BY <1>1
  <2>2. <<t, p.call, p.given + 1>> \in Chars
    BY <1>1, <2>1 DEF Chars
  <2> QED
    BY <2>2 DEF CallsIn, CallOf
<1>3. Say(t, text) /\ UNCHANGED calls /\ cut \subseteq cut'
  BY DEF Stream, Cut
<1>4. proxy'[t] = [p EXCEPT !.given = @ + 1]
  BY DEF Stream, IInv, TypeOK, ThreadType
<1>5. proxy'[t].call = p.call
  BY <1>1, <1>4
<1>6. Opened(t)' \subseteq {<<t, p.call>>} /\ Opened(t) = {<<t, p.call>>}
  BY <1>1, <1>5 DEF Opened
<1> HIDE DEF text, p
<1> QED
  BY <1>1, <1>2, <1>3, <1>6, SayAdds

LEMMA OwnStepsAdd ==
  ASSUME IInv, NEW t \in Threads, Step(t)
  PROVE  Adds(t)
<1>1. pc \in [Threads -> Pcs] /\ calls \in [Threads -> Nat] /\ TypeOK
  BY DEF IInv, TypeOK, ThreadType, Pcs
<1>2. CASE PumpTerm(t)
  <2>1. pc[t] = "pump" /\ UNCHANGED <<cut, calls, proxy>>
    BY <1>2 DEF PumpTerm, At
  <2>2. CASE "str" \in mode
    <3>1. UNCHANGED buf /\ pc[t] \notin Late
      BY <1>2, <2>1, <2>2 DEF PumpTerm, Late
    <3> QED
      BY <2>1, <3>1, QuietAdds
  <2>3. CASE "str" \notin mode
    <3>1. Pumped(t)
      BY <1>2, <2>3 DEF PumpTerm
    <3> QED
      BY <1>1, <2>1, <3>1, PumpedAdds
  <2> QED
    BY <2>2, <2>3
<1>3. CASE Lock(t)
  <2>1. UNCHANGED <<cut, buf, calls, proxy>> /\ pc'[t] \in Late
    BY <1>1, <1>3 DEF Lock, Late
  <2> QED
    BY <2>1, QuietAdds
<1>4. CASE Copy(t)
  <2>1. UNCHANGED <<cut, buf, calls, proxy>> /\ pc'[t] \in Late
    BY <1>1, <1>4 DEF Copy, Late
  <2> QED
    BY <2>1, QuietAdds
<1>5. CASE Advance(t)
  <2>1. UNCHANGED <<cut, calls, proxy>> /\ Pumped(t)
    BY <1>5 DEF Advance
  <2> QED
    BY <1>1, <2>1, PumpedAdds
<1>6. CASE StrLock(t) \/ Release(t)
  <2>1. UNCHANGED <<cut, buf, calls, proxy>> /\ pc[t] \notin Late
    BY <1>6 DEF StrLock, Release, At, Late
  <2> QED
    BY <2>1, QuietAdds
<1>7. CASE ErrorLine(t)
  <2>1. /\ pc[t] = "idle" /\ calls' = [calls EXCEPT ![t] = @ + 1] /\ UNCHANGED proxy
        /\ PrintLine(t, 0, Err)
    BY <1>7 DEF ErrorLine, At
  <2> QED
    BY <2>1, PrintLineAdds
<1>8. CASE EndError(t)
  <2>1. UNCHANGED <<cut, buf, calls>> /\ pc[t] \notin Late
    BY <1>8 DEF EndError, At, Late
  <2>2. proxy'[t] = proxy[t] \/ proxy'[t] = None
    BY <1>8 DEF EndError, Finish, IInv, TypeOK, ThreadType
  <2> QED
    BY <2>1, <2>2, QuietAdds
<1> QED
  BY <1>2, <1>3, <1>4, <1>5, <1>6, <1>7, <1>8 DEF Step

LEMMA CallsAdd ==
  ASSUME IInv, NEW t \in Threads, Begin(t)
  PROVE  Adds(t)
<1>1. calls \in [Threads -> Nat]
  BY DEF IInv, TypeOK, ThreadType
<1>2. ASSUME NEW h, NEW lev, PrintTo(t, h, lev) PROVE Adds(t)
  <2>1. /\ pc[t] = "idle" /\ calls' = [calls EXCEPT ![t] = @ + 1] /\ UNCHANGED proxy
        /\ PrintLine(t, h, lev)
    BY <1>2 DEF PrintTo, Calls, Ready, At
  <2> QED
    BY <2>1, PrintLineAdds
<1>3. ASSUME NEW h, NEW lev, Write(t, h, lev) PROVE Adds(t)
  BY <1>3, WriteAdds
<1>4. ASSUME NEW h, NEW lev, OpenProxy(t, h, lev) PROVE Adds(t)
  BY <1>4, OpenProxyAdds
<1>5. CASE Stream(t)
  BY <1>5, StreamAdds
<1>6. CASE CloseProxy(t)
  <2>1. UNCHANGED <<cut, buf, calls>> /\ pc[t] \notin Late /\ proxy'[t] = None
    BY <1>6 DEF CloseProxy, Ready, At, Finish, Late, IInv, TypeOK, ThreadType
  <2> QED
    BY <2>1, QuietAdds
<1>7. CASE Str(t)
  <2>1. UNCHANGED <<cut, buf, proxy>> /\ pc[t] \notin Late /\ calls'[t] = calls[t] + 1
    BY <1>1, <1>7 DEF Str, Calls, At, Late
  <2> QED
    BY <2>1, QuietAdds
<1>8. CASE Take(t)
  <2>1. UNCHANGED <<cut, buf, calls, proxy, pc>>
    BY <1>8 DEF Take
  <2> QED
    BY <2>1, QuietAdds
<1>9. ASSUME NEW e, Fail(t, e) PROVE Adds(t)
  <2>1. UNCHANGED <<cut, buf, proxy, pc>> /\ calls'[t] = calls[t] + 1
    BY <1>1, <1>9 DEF Fail, Calls
  <2> QED
    BY <2>1, QuietAdds
<1>10. ASSUME NEW n, FindMissing(t, n) PROVE Adds(t)
  <2>1. /\ pc[t] = "idle" /\ calls' = [calls EXCEPT ![t] = @ + 1] /\ UNCHANGED proxy
        /\ PrintLine(t, 0, Err)
    BY <1>10 DEF FindMissing, Calls, Ready, At
  <2> QED
    BY <2>1, PrintLineAdds
<1>11. ASSUME NEW n, NEW lev, AddChannel(t, n, lev) PROVE Adds(t)
  <2>1. UNCHANGED <<cut, buf, proxy, pc>> /\ calls'[t] = calls[t] + 1
    BY <1>1, <1>11 DEF AddChannel, Calls
  <2> QED
    BY <2>1, QuietAdds
<1>12. ASSUME NEW lev, SetLevel(t, lev) PROVE Adds(t)
  <2>1. UNCHANGED <<cut, buf, proxy, pc>> /\ calls'[t] = calls[t] + 1
    BY <1>1, <1>12 DEF SetLevel, Calls
  <2> QED
    BY <2>1, QuietAdds
<1> QED
  BY <1>2, <1>3, <1>4, <1>5, <1>6, <1>7, <1>8, <1>9, <1>10, <1>11, <1>12 DEF Begin

(* The same of the terminal, which gets the buffer before it is cleared.   *)
TermFits(t) ==
  /\ pc[t] \notin Late => CallsIn(buf[t]) \cap CallsIn(term) \subseteq cut
  /\ \A c \in Nat : <<t, c>> \in CallsIn(term) => c <= calls[t]
  /\ Opened(t) \cap CallsIn(term) \subseteq cut

TermInv == (\A t \in Threads : TermFits(t)) /\ Together(term, cut)

(* A thread is not disturbed by what another prints.                       *)
LEMMA OthersTermFits ==
  ASSUME NEW t, NEW u, u # t, TermFits(u), BufferFits(u), cut \subseteq cut', Leaves(u),
         CallsIn(term') \subseteq CallsIn(term) \cup {t} \X Nat
  PROVE  TermFits(u)'
<1>1. \A x \in CallsIn(term') : x[1] = u => x \in CallsIn(term)
  OBVIOUS
<1>2. Opened(u)' = Opened(u) /\ \A x \in Opened(u) : x[1] = u
  BY DEF Opened, Leaves
<1>3. \A x \in CallsIn(buf[u]) : x[1] = u
  BY DEF BufferFits
<1>4. pc'[u] \notin Late => CallsIn(buf'[u]) \cap CallsIn(term') \subseteq cut'
  <2>1. CASE pc[u] \in Late
    BY <2>1 DEF Leaves
  <2>2. CASE pc[u] \notin Late
    <3>1. CallsIn(buf[u]) \cap CallsIn(term) \subseteq cut /\ buf'[u] = buf[u]
      BY <2>2 DEF TermFits, Leaves
    <3> QED
      BY <1>1, <1>3, <3>1
  <2> QED
    BY <2>1, <2>2
<1>5. \A c \in Nat : <<u, c>> \in CallsIn(term') => c <= calls'[u]
  <2>1. \A c \in Nat : <<u, c>> \in CallsIn(term) => c <= calls[u]
    BY DEF TermFits
  <2> QED
    BY <1>1, <2>1 DEF Leaves
<1>6. Opened(u)' \cap CallsIn(term') \subseteq cut'
  <2>1. Opened(u) \cap CallsIn(term) \subseteq cut
    BY DEF TermFits
  <2> QED
    BY <1>1, <1>2, <2>1
<1> QED
  BY <1>4, <1>5, <1>6 DEF TermFits

(* A step that prints nothing to the terminal.                             *)
LEMMA UnprintedStep ==
  ASSUME IInv, WholeInv, TermInv, NEW t \in Threads, Adds(t), term' = term,
         \A u \in Threads \ {t} : Leaves(u)
  PROVE  TermInv'
<1> DEFINE new == <<t, calls[t] + 1>>
<1>1. calls[t] \in Nat /\ cut \subseteq cut' /\ calls'[t] \in {calls[t], calls[t] + 1}
  BY DEF IInv, TypeOK, ThreadType, Adds
<1>2. /\ pc[t] \notin Late => CallsIn(buf[t]) \cap CallsIn(term) \subseteq cut
      /\ \A c \in Nat : <<t, c>> \in CallsIn(term) => c <= calls[t]
      /\ Opened(t) \cap CallsIn(term) \subseteq cut
  BY DEF TermInv, TermFits
<1>3. new \notin CallsIn(term)
  <2>1. calls[t] + 1 \in Nat /\ ~(calls[t] + 1 <= calls[t])
    BY <1>1
  <2> QED
    BY <1>2, <2>1
<1>4. /\ CallsIn(buf'[t]) \subseteq CallsIn(buf[t]) \cup Opened(t) \cup {new}
      /\ Opened(t)' \subseteq Opened(t) \cup {new}
      /\ pc[t] \in Late => pc'[t] \in Late \/ buf'[t] = <<>>
  BY DEF Adds
<1> HIDE DEF new
<1>5. TermFits(t)'
  <2>1. pc'[t] \notin Late => CallsIn(buf'[t]) \cap CallsIn(term) \subseteq cut'
    <3>1. CASE buf'[t] = <<>>
      BY <3>1, CallsInEmpty
    <3>2. CASE pc[t] \notin Late
      BY <1>1, <1>2, <1>3, <1>4, <3>2
    <3> QED
      BY <1>4, <3>1, <3>2
  <2>2. \A c \in Nat : <<t, c>> \in CallsIn(term) => c <= calls'[t]
    BY <1>1, <1>2
  <2>3. Opened(t)' \cap CallsIn(term) \subseteq cut'
    BY <1>1, <1>2, <1>3, <1>4
  <2> QED
    BY <2>1, <2>2, <2>3 DEF TermFits
<1>6. ASSUME NEW u \in Threads \ {t} PROVE TermFits(u)'
  <2>1. TermFits(u) /\ BufferFits(u)
    BY DEF TermInv, WholeInv, CallsFit
  <2>2. CallsIn(term') \subseteq CallsIn(term) \cup {t} \X Nat
    OBVIOUS
  <2> QED
    BY <1>1, <2>1, <2>2, OthersTermFits
<1>7. Together(term', cut')
  BY <1>1, MoreCut DEF TermInv
<1>8. \A u \in Threads : TermFits(u)'
  BY <1>5, <1>6
<1> QED
  BY <1>7, <1>8 DEF TermInv

(* What is printed to the terminal at once stays together there.           *)
LEMMA PumpTermTogether ==
  ASSUME IInv, WholeInv, TermInv, NEW t \in Threads, PumpTerm(t), "term" \in mode,
         \A u \in Threads \ {t} : Leaves(u)
  PROVE  TermInv'
<1>1. pc[t] = "pump" /\ term' = term \o Chunk(t) /\ UNCHANGED <<cut, calls, proxy>>
  BY DEF PumpTerm, At
<1>2. /\ TypeOK /\ buf[t] \in Seq(Chars) /\ size[t] \in 0 .. Len(buf[t]) /\ calls[t] \in Nat
      /\ pc \in [Threads -> Pcs]
  <2>1. /\ buf[t] \in Seq(Chars) /\ size[t] \in Nat /\ calls[t] \in Nat /\ TypeOK
        /\ pc \in [Threads -> Pcs]
    BY DEF IInv, TypeOK, ThreadType, Pcs
  <2>2. size[t] <= Len(buf[t]) /\ Len(buf[t]) \in Nat
    BY <2>1 DEF IInv, SizesFit
  <2> QED
    BY <2>1, <2>2
<1>3. term \in Seq(Chars) /\ Chunk(t) \in Seq(Chars)
  BY <1>2, LoggedIsText, ChunkIsText DEF IInv
<1>4. BufferFits(t) /\ ProxyFits(t) /\ TermFits(t) /\ Together(term, cut)
  BY DEF WholeInv, CallsFit, TermInv
<1>5. CallsIn(Chunk(t)) \subseteq CallsIn(buf[t]) /\ Together(Chunk(t), cut)
  BY <1>2, <1>4, CallsInFirst, FirstTogether DEF Chunk, BufferFits
<1>6. CallsIn(term') \subseteq CallsIn(term) \cup CallsIn(buf[t])
  BY <1>1, <1>3, <1>5, CallsInConcat
<1>7. CallsIn(buf[t]) \subseteq {t} \X (0 .. calls[t])
  BY <1>4 DEF BufferFits
<1>8. TermFits(t)'
  <2>1. pc'[t] \in Late \/ buf'[t] = <<>>
    <3>1. CASE "str" \in mode
      BY <1>2, <3>1 DEF PumpTerm, Late
    <3>2. CASE "str" \notin mode
      <4>1. Pumped(t)
        BY <3>2 DEF PumpTerm
      <4> QED
        BY <1>2, <4>1, PumpedMoves
    <3> QED
      BY <3>1, <3>2
  <2>2. pc'[t] \notin Late => CallsIn(buf'[t]) \cap CallsIn(term') \subseteq cut'
    BY <2>1, CallsInEmpty
  <2>3. \A c \in Nat : <<t, c>> \in CallsIn(term') => c <= calls'[t]
    <3>1. \A c \in Nat : <<t, c>> \in CallsIn(term) => c <= calls[t]
      BY <1>4 DEF TermFits
    <3>2. \A c \in Nat : <<t, c>> \in CallsIn(buf[t]) => c <= calls[t]
      BY <1>7
    <3> QED
      BY <1>1, <1>6, <3>1, <3>2
  <2>4. Opened(t)' \subseteq cut'
    <3>1. pc[t] \in Pumping
      BY <1>1 DEF Pumping
    <3> QED
      BY <1>1, <1>4, <3>1 DEF ProxyFits, Opened
  <2> QED
    BY <2>2, <2>3, <2>4 DEF TermFits
<1>9. ASSUME NEW u \in Threads \ {t} PROVE TermFits(u)'
  <2>1. TermFits(u) /\ BufferFits(u)
    BY DEF TermInv, WholeInv, CallsFit
  <2>2. CallsIn(buf[t]) \subseteq {t} \X Nat
    BY <1>2, <1>7
  <2>3. CallsIn(term') \subseteq CallsIn(term) \cup {t} \X Nat
    BY <1>6, <2>2
  <2> QED
    BY <1>1, <2>1, <2>3, OthersTermFits
<1>10. Together(term', cut')
  <2>1. pc[t] \notin Late
    BY <1>1 DEF Late
  <2>2. CallsIn(term) \cap CallsIn(Chunk(t)) \subseteq cut
    BY <1>4, <1>5, <2>1 DEF TermFits
  <2>3. Together(term \o Chunk(t), cut)
    BY <1>3, <1>4, <1>5, <2>2, TogetherConcat
  <2> QED
    BY <1>1, <2>3
<1>11. \A u \in Threads : TermFits(u)'
  BY <1>8, <1>9
<1> QED
  BY <1>10, <1>11 DEF TermInv

LEMMA OnlyPumpPrints ==
  ASSUME NEW t \in Threads, Step(t) \/ Begin(t), ~PumpTerm(t)
  PROVE  term' = term
BY DEF Step, Begin, Lock, Copy, Advance, StrLock, Release, ErrorLine, EndError, PrintTo, Write,
       OpenProxy, Stream, CloseProxy, Str, Take, Fail, FindMissing, AddChannel, SetLevel, sinks

LEMMA StepTerm == IInv /\ WholeInv /\ TermInv /\ [Next]_vars => TermInv'
<1> SUFFICES ASSUME IInv, WholeInv, TermInv, [Next]_vars PROVE TermInv'
  OBVIOUS
<1>1. CASE UNCHANGED vars
  <2>1. UNCHANGED <<term, buf, calls, proxy, pc, cut>>
    BY <1>1 DEF vars, sinks
  <2> QED
    BY <2>1 DEF TermInv, TermFits, Opened
<1>2. ASSUME NEW t \in Threads, Step(t) \/ Begin(t) PROVE TermInv'
  <2>1. \A u \in Threads \ {t} : Leaves(u)
    BY <1>2, OwnStepsLeave, CallsLeave
  <2>2. CASE PumpTerm(t) /\ "term" \in mode
    BY <2>1, <2>2, PumpTermTogether
  <2>3. CASE term' = term
    <3>1. Adds(t)
      BY <1>2, OwnStepsAdd, CallsAdd
    <3> QED
      BY <2>1, <2>3, <3>1, UnprintedStep
  <2> QED
    BY <1>2, <2>2, <2>3, OnlyPumpPrints DEF PumpTerm
<1> QED
  BY <1>1, <1>2 DEF Next

LEMMA InitTerm == Init => TermInv
<1> SUFFICES ASSUME Init PROVE TermInv
  OBVIOUS
<1>1. CallsIn(term) = {} /\ Together(term, cut)
  BY CallsInEmpty DEF Init, Together
<1> QED
  BY <1>1 DEF TermInv, TermFits

(* What a call prints is together in the terminal and in the log string,   *)
(* careful client or not, unless it is of a proxy that was flushed before  *)
(* it ended (WholeMessages of Log; pump and Proxy of log.hpp).             *)
THEOREM MessagesStayWhole == Spec => []WholeMessages
<1>1. Init => WholeInv /\ TermInv
  BY InitWhole, InitTerm
<1>2. IInv /\ CopiedOwn /\ WholeInv /\ TermInv /\ [Next]_vars => WholeInv' /\ TermInv'
  BY StepWhole, StepTerm
<1>3. IInv /\ WholeInv /\ TermInv => WholeMessages
  <2> SUFFICES ASSUME IInv, WholeInv, TermInv PROVE WholeMessages
    OBVIOUS
  <2>1. Logged \in Seq(Chars) /\ term \in Seq(Chars)
    BY LoggedIsText DEF IInv
  <2>2. Whole(Logged) /\ Whole(term)
    BY <2>1, WholeIsTogether DEF WholeInv, TermInv
  <2> QED
    BY <2>2 DEF WholeMessages
<1>4. Spec => []IInv /\ []CopiedOwn
  BY Inductive, CopiedIsOwn
<1> QED
  BY <1>1, <1>2, <1>3, <1>4, PTL DEF Spec, Safety

-----------------------------------------------------------------------------
(* What readers took away.                                                 *)

TakenInv == CallsIn(taken) \cap CallsIn(Text) \subseteq cut

LEMMA CallsOfCallsIn ==
  ASSUME NEW text \in Seq(Chars)
  PROVE  CallsOf(text) = CallsIn(text)
<1>1. DOMAIN text = 1 .. Len(text)
  OBVIOUS
<1> QED
  BY <1>1 DEF CallsOf, CallsIn, CallOf

LEMMA CallsInFirstPart ==
  ASSUME NEW a \in Seq(Chars), NEW b \in Seq(Chars)
  PROVE  CallsIn(a) \subseteq CallsIn(a \o b)
<1>1. /\ Len(a \o b) = Len(a) + Len(b) /\ Len(a) \in Nat /\ Len(b) \in Nat
      /\ \A i \in 1 .. Len(a) : (a \o b)[i] = a[i]
  BY ConcatProperties
<1>2. \A i \in 1 .. Len(a) : i \in 1 .. Len(a \o b)
  BY <1>1
<1> QED
  BY <1>1, <1>2 DEF CallsIn

LEMMA TakenIsLogged ==
  ASSUME TypeOK
  PROVE  CallsIn(taken) \subseteq CallsIn(Logged)
<1>1. Text \in Seq(Chars) /\ taken \in Seq(Chars)
  BY LoggedIsText
<1>2. CallsIn(taken) \subseteq CallsIn(taken \o Text)
  BY <1>1, CallsInFirstPart
<1> QED
  BY <1>2 DEF Logged

LEMMA OnlyTakeTakes ==
  ASSUME NEW t \in Threads, Step(t) \/ Begin(t), ~Take(t)
  PROVE  taken' = taken
BY DEF Step, Begin, PumpTerm, Lock, Copy, Advance, StrLock, Release, ErrorLine, EndError, PrintTo,
       Write, OpenProxy, Stream, CloseProxy, Str, Fail, FindMissing, AddChannel, SetLevel

LEMMA StepTaken == IInv /\ CopiedOwn /\ WholeInv /\ TakenInv /\ [Next]_vars => TakenInv'
<1> SUFFICES ASSUME IInv, CopiedOwn, WholeInv, TakenInv, [Next]_vars PROVE TakenInv'
  OBVIOUS
<1>1. CASE UNCHANGED vars
  BY <1>1 DEF vars, sinks, TakenInv, Text
<1>2. ASSUME NEW t \in Threads, Step(t) \/ Begin(t) PROVE TakenInv'
  <2>1. cut \subseteq cut'
    BY <1>2, OwnStepsAdd, CallsAdd DEF Adds
  <2>2. CASE Take(t)
    <3>1. Text' = <<>>
      BY <2>2 DEF Take, Text
    <3> QED
      BY <3>1, CallsInEmpty DEF TakenInv
  <2>3. CASE Advance(t)
    <3>1. /\ buf[t] \in Seq(Chars) /\ size[t] \in 0 .. Len(buf[t])
          /\ Text \in Seq(Chars) /\ Chunk(t) \in Seq(Chars) /\ UNCHANGED taken
      <4>1. buf[t] \in Seq(Chars) /\ size[t] \in Nat /\ TypeOK
        BY DEF IInv, TypeOK, ThreadType
      <4>2. size[t] <= Len(buf[t]) /\ Len(buf[t]) \in Nat
        BY <4>1 DEF IInv, SizesFit
      <4> QED
        BY <2>3, <4>1, <4>2, LoggedIsText, ChunkIsText DEF IInv, Advance
    <3>2. Text' = Text \o Chunk(t)
      BY <2>3, AdvanceAddsText
    <3>3. CallsIn(Text') \subseteq CallsIn(Text) \cup CallsIn(buf[t])
      <4>1. CallsIn(Chunk(t)) \subseteq CallsIn(buf[t])
        BY <3>1, CallsInFirst DEF Chunk
      <4> QED
        BY <3>1, <3>2, <4>1, CallsInConcat
    <3>4. CallsIn(buf[t]) \cap CallsIn(Logged) \subseteq cut
      BY DEF WholeInv, CallsFit, BufferFits
    <3>5. CallsIn(taken) \subseteq CallsIn(Logged)
      BY TakenIsLogged DEF IInv
    <3> QED
      BY <2>1, <3>1, <3>3, <3>4, <3>5 DEF TakenInv
  <2>4. CASE ~Take(t) /\ ~Advance(t)
    <3>1. Text' = Text
      <4>1. CASE Copy(t)
        BY <4>1, CopyLeavesText
      <4>2. CASE ~Copy(t)
        BY <1>2, <2>4, <4>2, NotAdvancing DEF Text
      <4> QED
        BY <4>1, <4>2
    <3> QED
      BY <1>2, <2>1, <2>4, <3>1, OnlyTakeTakes DEF TakenInv
  <2> QED
    BY <2>2, <2>3, <2>4
<1> QED
  BY <1>1, <1>2 DEF Next

(* What a reader took away is whole: nothing of its calls is logged after  *)
(* it, careful client or not, but of proxies that were flushed before they *)
(* ended (TakenWhole of Log; StrReader::clear, pump).                      *)
THEOREM TakenStaysWhole == Spec => []TakenWhole
<1>1. Init => WholeInv /\ TakenInv
  <2>1. Init => TakenInv
    BY CallsInEmpty DEF Init, TakenInv
  <2> QED
    BY <2>1, InitWhole
<1>2. IInv /\ CopiedOwn /\ WholeInv /\ TakenInv /\ [Next]_vars => WholeInv' /\ TakenInv'
  BY StepWhole, StepTaken
<1>3. IInv /\ WholeInv /\ TakenInv => TakenWhole
  <2> SUFFICES ASSUME IInv, WholeInv, TakenInv PROVE TakenWhole
    OBVIOUS
  <2>1. /\ Text \in Seq(Chars) /\ taken \in Seq(Chars)
        /\ \A t \in Threads : buf[t] \in Seq(Chars)
    BY LoggedIsText DEF IInv, TypeOK, ThreadType
  <2>2. CallsOf(taken) = CallsIn(taken) /\ CallsOf(Text) = CallsIn(Text)
    BY <2>1, CallsOfCallsIn
  <2>3. CallsIn(taken) \subseteq CallsIn(Logged)
    BY TakenIsLogged DEF IInv
  <2>4. ASSUME NEW t \in Threads PROVE CallsIn(taken) \cap Unlogged(t) \subseteq cut
    <3>1. Unlogged(t) = CallsIn(buf[t]) \cup Opened(t)
      BY <2>1, CallsOfCallsIn DEF Unlogged, Opened
    <3>2. /\ CallsIn(buf[t]) \cap CallsIn(Logged) \subseteq cut
          /\ Opened(t) \cap CallsIn(Logged) \subseteq cut
      BY DEF WholeInv, CallsFit, BufferFits, ProxyFits
    <3> QED
      BY <2>3, <3>1, <3>2
  <2>5. CallsIn(taken) \cap CallsIn(Text) \subseteq cut
    BY DEF TakenInv
  <2> QED
    BY <2>2, <2>4, <2>5 DEF TakenWhole
<1>4. Spec => []IInv /\ []CopiedOwn
  BY Inductive, CopiedIsOwn
<1> QED
  BY <1>1, <1>2, <1>3, <1>4, PTL DEF Spec, Safety

=============================================================================
