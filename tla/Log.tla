---------------------------------- MODULE Log ----------------------------------
(***************************************************************************)
(* log.hpp and log.cpp, and handle_error of error.cpp, which logs: threads *)
(* that print to channels from a buffer of their own, through proxies or   *)
(* in one call, into the terminal and into a string that they share; and   *)
(* readers of that string.                                                 *)
(*                                                                         *)
(* A character is <<thread, call, k>>: the k-th of what that call of the   *)
(* thread prints, where 0 stands for the prefix.                           *)
(*                                                                         *)
(* A definition introduced by "Variant:" is no part of the specification:  *)
(* it is the definition that follows it as a slip in the code would have   *)
(* it.                                                                     *)
(***************************************************************************)
EXTENDS Integers, Sequences, Errors

CONSTANTS
  Threads,
  Configurer,    \* the thread that adds channels and sets their levels
  Names,         \* of channels
  PrefixOf,      \* <<m, n>> where the name m is a prefix of n
  MaxChannels,   \* C4_LOG_MAX_CHANNELS
  RefSize,       \* C4_LOG_BUFFER_REF_SIZE
  Modes,         \* the modes the log may be in
  ErrorChoices,  \* the error settings that may be in place
  Levels,        \* bound: the levels that clients print at
  ChannelLevels, \* bound: the levels that clients set
  ErrorLines,    \* bound: the lines an error prints, 3 in the code
  Body,          \* bound: the characters a call prints after the prefix
  MaxCalls,      \* bound: calls that a thread begins
  Careful,       \* whether clients avoid what the code does not support
  None

Always == -10   \* Level_e
Err    == -2
Info   == 0

ASSUME LogAssumption ==
  /\ Configurer \in Threads /\ "run" \notin Threads
  /\ None \notin Threads \cup {"run"} \cup [call : Nat, given : 0 .. Body]
  /\ \A n \in Names : <<n, n>> \in PrefixOf
  /\ {MaxChannels, RefSize, ErrorLines, Body, MaxCalls} \subseteq Nat \ {0}
  /\ Modes \subseteq SUBSET {"timestamp", "term", "str"}
  /\ ErrorChoices \subseteq ErrorSettings
  /\ Levels \cup ChannelLevels \subseteq Int

VARIABLES
  mode,             \* m_mode
  channels, added,  \* m_channels, and the names of those that were added
  store, pos,       \* m_strbuf: its characters, and where the next goes
  mutex, reader,    \* the owner of m_strbuf_mtx, and of the StrReader
  term, shown,      \* what was printed to the terminal, and how much flushed
  buf,              \* each thread's s_log_buffer, up to its pos
  size,             \* how much of it pump() was given
  proxy,            \* the thread's Proxy: its call, and what it was given
  calls,            \* the calls that the thread has begun
  error,            \* in handle_error: the settings, and the lines yet to log
  pc,
  status,           \* "run", or the thread that aborted the program
  said, taken, cut  \* history: what each thread had to log, what readers took
                    \* away, and the proxies printed before they ended

shared == <<mode, channels, added>>
sinks  == <<store, pos, term, shown>>
vars   == <<shared, sinks, mutex, reader, buf, size, proxy, calls, error, pc, status,
            said, taken, cut>>

Text == SubSeq(store, 1, pos)

Init ==
  /\ mode \in Modes
  /\ channels = [h \in 0 .. MaxChannels - 1 |-> [name |-> None, level |-> Info]]
  /\ added = <<>>
  /\ store = <<>> /\ pos = 0 /\ mutex = None /\ reader = None
  /\ term = <<>> /\ shown = 0
  /\ buf = [t \in Threads |-> <<>>] /\ size = [t \in Threads |-> 0]
  /\ proxy = [t \in Threads |-> None] /\ calls = [t \in Threads |-> 0]
  /\ error = [t \in Threads |-> None] /\ pc = [t \in Threads |-> "idle"]
  /\ status = "run"
  /\ said = [t \in Threads |-> <<>>] /\ taken = <<>> /\ cut = {}

(* A thread at rest between two calls, or two << of a proxy.  A careful    *)
(* client does not log while it reads what was logged.                     *)
At(t, l) == pc[t] = l /\ status = "run"
Ready(t) == At(t, "idle") /\ error[t] = None /\ (Careful => reader # t)
Calls(t) == Ready(t) /\ calls[t] < MaxCalls /\ calls' = [calls EXCEPT ![t] = @ + 1]

-----------------------------------------------------------------------------
(* Printing.                                                               *)

Skip(h, lev) == lev > channels[h].level /\ lev # Always

Prefix(t, h) ==
  IF "timestamp" \in mode \/ channels[h].name # None THEN << <<t, calls'[t], 0>> >> ELSE <<>>

Line(t) == [k \in 1 .. Body |-> <<t, calls'[t], k>>]

Say(t, text) ==
  /\ buf' = [buf EXCEPT ![t] = @ \o text]
  /\ said' = [said EXCEPT ![t] = @ \o text]

(* Goes on in pump() with the first n characters of the buffer.            *)
Pump(t, n) ==
  /\ size' = [size EXCEPT ![t] = n]
  /\ pc' = [pc EXCEPT ![t] = "pump"]

Cut(t) == cut' = IF proxy[t] = None THEN cut ELSE cut \cup {<<t, proxy[t].call>>}

Unpumped == UNCHANGED <<buf, said, size, pc, cut>>

(* The printf, print, cat and catsep families.                             *)
PrintLine(t, h, lev) ==
  IF Skip(h, lev) THEN Unpumped
  ELSE Say(t, Prefix(t, h) \o Line(t)) /\ Pump(t, Len(buf'[t])) /\ Cut(t)

PrintTo(t, h, lev) ==
  /\ Calls(t) /\ PrintLine(t, h, lev)
  /\ UNCHANGED <<shared, sinks, mutex, reader, proxy, error, status, taken>>

(* The write family gives pump() the size of what was written: a prefix,   *)
(* or what a proxy has yet to print, takes the place of the end of it.     *)
Write(t, h, lev) ==
  /\ Calls(t)
  /\ IF Skip(h, lev) THEN Unpumped
     ELSE /\ Careful => Prefix(t, h) = <<>> /\ buf[t] = <<>>
          /\ Say(t, Prefix(t, h) \o Line(t)) /\ Pump(t, Body) /\ Cut(t)
  /\ UNCHANGED <<shared, sinks, mutex, reader, proxy, error, status, taken>>

(* A Proxy, which prints nothing where its level is skipped.               *)
OpenProxy(t, h, lev) ==
  /\ Calls(t) /\ proxy[t] = None /\ ~Skip(h, lev)
  /\ Say(t, Prefix(t, h))
  /\ proxy' = [proxy EXCEPT ![t] = [call |-> calls'[t], given |-> 0]]
  /\ UNCHANGED <<shared, sinks, mutex, reader, size, error, pc, status, taken, cut>>

(* Variant: what a proxy is given is printed at once.                      *)
StreamAtOnce(t) ==
  LET p == proxy[t]
  IN /\ Ready(t) /\ p # None /\ p.given < Body
     /\ Say(t, << <<t, p.call, p.given + 1>> >>)
     /\ proxy' = [proxy EXCEPT ![t].given = @ + 1]
     /\ Pump(t, Len(buf'[t])) /\ UNCHANGED cut
     /\ UNCHANGED <<shared, sinks, mutex, reader, calls, error, status, taken>>

(* A proxy is given something, and flushes if its buffer gets big.         *)
Stream(t) ==
  LET p == proxy[t]
  IN /\ Ready(t) /\ p # None /\ p.given < Body
     /\ Say(t, << <<t, p.call, p.given + 1>> >>)
     /\ proxy' = [proxy EXCEPT ![t].given = @ + 1]
     /\ IF Len(buf'[t]) > RefSize THEN Pump(t, Len(buf'[t])) /\ Cut(t) ELSE UNCHANGED <<size, pc, cut>>
     /\ UNCHANGED <<shared, sinks, mutex, reader, calls, error, status, taken>>

(* Its destructor.                                                         *)
Finish(t) ==
  /\ proxy' = [proxy EXCEPT ![t] = None]
  /\ Pump(t, Len(buf[t]))

CloseProxy(t) ==
  /\ Ready(t) /\ proxy[t] # None /\ Finish(t)
  /\ UNCHANGED <<shared, sinks, mutex, reader, buf, calls, error, status, said, taken, cut>>

-----------------------------------------------------------------------------
(* pump().                                                                 *)

Chunk(t) == SubSeq(buf[t], 1, size[t])

(* Variant: the buffer is not cleared.                                     *)
NotCleared(t) ==
  /\ size' = [size EXCEPT ![t] = 0] /\ UNCHANGED buf
  /\ pc' = [pc EXCEPT ![t] = "idle"]

(* The buffer is cleared after pump() has returned.                        *)
Pumped(t) ==
  /\ buf' = [buf EXCEPT ![t] = <<>>] /\ size' = [size EXCEPT ![t] = 0]
  /\ pc' = [pc EXCEPT ![t] = "idle"]

PumpTerm(t) ==
  /\ At(t, "pump")
  /\ term' = IF "term" \in mode THEN term \o Chunk(t) ELSE term
  /\ IF "str" \in mode
     THEN pc' = [pc EXCEPT ![t] = "lock"] /\ UNCHANGED <<buf, size>>
     ELSE Pumped(t)
  /\ UNCHANGED <<shared, store, pos, shown, mutex, reader, proxy, calls, error, status,
                 said, taken, cut>>

(* Variant: C4_LOG_THREAD_SAFE is not defined.                             *)
NoLock(t) ==
  /\ At(t, "lock") /\ pc' = [pc EXCEPT ![t] = "copy"]
  /\ UNCHANGED <<shared, sinks, mutex, reader, buf, size, proxy, calls, error, status,
                 said, taken, cut>>

Lock(t) ==
  /\ At(t, "lock") /\ mutex = None /\ mutex' = t
  /\ pc' = [pc EXCEPT ![t] = "copy"]
  /\ UNCHANGED <<shared, sinks, reader, buf, size, proxy, calls, error, status,
                 said, taken, cut>>

(* Variant: pos counts the terminating null character.                     *)
PastNull(t) == pos + size[t] + 1

NextPos(t) == pos + size[t]

(* m_strbuf.write(): the characters are copied, then pos is advanced and   *)
(* the mutex is let go.                                                    *)
Copy(t) ==
  /\ At(t, "copy")
  /\ store' = Text \o Chunk(t)
  /\ pc' = [pc EXCEPT ![t] = "advance"]
  /\ UNCHANGED <<shared, pos, term, shown, mutex, reader, buf, size, proxy, calls, error, status,
                 said, taken, cut>>

Advance(t) ==
  /\ At(t, "advance")
  /\ pos' = NextPos(t) /\ mutex' = None
  /\ Pumped(t)
  /\ UNCHANGED <<shared, store, term, shown, reader, proxy, calls, error, status,
                 said, taken, cut>>

-----------------------------------------------------------------------------
(* Reading: str(), StrReader::clear, and the end of the reader.            *)

Str(t) ==
  /\ At(t, "idle") /\ error[t] = None /\ "str" \in mode
  /\ Calls(t) /\ pc' = [pc EXCEPT ![t] = "str"]
  /\ UNCHANGED <<shared, sinks, mutex, reader, buf, size, proxy, error, status, said, taken, cut>>

StrLock(t) ==
  /\ At(t, "str") /\ mutex = None /\ mutex' = t
  /\ reader' = t
  /\ pc' = [pc EXCEPT ![t] = "idle"]
  /\ UNCHANGED <<shared, sinks, buf, size, proxy, calls, error, status, said, taken, cut>>

Take(t) ==
  /\ At(t, "idle") /\ reader = t /\ Text # <<>>
  /\ taken' = taken \o Text
  /\ pos' = 0 /\ store' = <<>>
  /\ UNCHANGED <<shared, term, shown, mutex, reader, buf, size, proxy, calls, error, pc,
                 status, said, cut>>

(* Variant: the reader has not adopted the lock.                           *)
LetGoUnlocked == reader' = None /\ UNCHANGED mutex

LetGo == reader' = None /\ mutex' = None

Release(t) ==
  /\ At(t, "idle") /\ reader = t /\ LetGo
  /\ UNCHANGED <<shared, sinks, buf, size, proxy, calls, error, pc, status, said, taken, cut>>

-----------------------------------------------------------------------------
(* Errors: handle_error logs some lines, flushes, calls the callback and  *)
(* aborts, each if its flag is set.                                        *)

Fails(t, e) ==
  error' = [error EXCEPT ![t] =
              [settings |-> e, left |-> IF "log" \in e.flags THEN ErrorLines ELSE 0]]

Fail(t, e) ==
  /\ Calls(t) /\ Fails(t, e)
  /\ UNCHANGED <<shared, sinks, mutex, reader, buf, size, proxy, pc, status, said, taken, cut>>

ErrorLine(t) ==
  /\ At(t, "idle") /\ error[t] # None /\ error[t].left > 0
  /\ error' = [error EXCEPT ![t].left = @ - 1]
  /\ calls' = [calls EXCEPT ![t] = @ + 1]
  /\ PrintLine(t, 0, Err)
  /\ UNCHANGED <<shared, sinks, mutex, reader, proxy, status, taken>>

(* Variant: the error is not flushed.                                      *)
NotFlushed(e) == shown

(* What the terminal shows after flush().                                  *)
Flushed(e) == IF "log" \in e.flags THEN Len(term) ELSE shown

(* An exception from the callback destroys the thread's proxy and reader.  *)
EndError(t) ==
  LET e == error[t].settings
      throws == Outcome(e) = "throw"
  IN /\ At(t, "idle") /\ error[t] # None /\ error[t].left = 0
     /\ shown' = Flushed(e)
     /\ IF Outcome(e) = "abort"
        THEN status' = t /\ UNCHANGED error
        ELSE error' = [error EXCEPT ![t] = None] /\ UNCHANGED status
     /\ IF throws /\ proxy[t] # None THEN Finish(t) ELSE UNCHANGED <<proxy, size, pc>>
     /\ IF throws /\ reader = t THEN LetGo ELSE UNCHANGED <<reader, mutex>>
     /\ UNCHANGED <<shared, store, pos, term, buf, calls, said, taken, cut>>

-----------------------------------------------------------------------------
(* Channels.                                                               *)

(* Channel::cmp: whether the channel's name begins the given one.          *)
Cmp(h, n) == channels[h].name # None /\ <<channels[h].name, n>> \in PrefixOf

Matching(n) == {h \in 0 .. Len(added) - 1 : Cmp(h, n)}

(* add_channel(): the first one that is added is the main channel.  Where  *)
(* there is no place left it is an error; under settings that return from  *)
(* errors the code then writes past m_channels, which is left out.         *)
AddChannel(t, n, lev) ==
  LET h == Len(added)
  IN /\ t = Configurer /\ Calls(t)
     /\ \/ /\ h < MaxChannels
           /\ channels' = [channels EXCEPT ![h] = [name |-> n, level |-> lev]]
           /\ added' = Append(added, n)
           /\ UNCHANGED error
        \/ /\ h = MaxChannels /\ \E e \in ErrorChoices : Outcome(e) # "return" /\ Fails(t, e)
           /\ UNCHANGED <<channels, added>>
     /\ UNCHANGED <<mode, sinks, mutex, reader, buf, size, proxy, pc, status,
                    said, taken, cut>>

(* level(): of the channels that were added.                               *)
SetLevel(t, lev) ==
  /\ t = Configurer /\ Calls(t)
  /\ channels' = [h \in DOMAIN channels |->
                    IF h < Len(added) THEN [channels[h] EXCEPT !.level = lev] ELSE channels[h]]
  /\ UNCHANGED <<mode, added, sinks, mutex, reader, buf, size, proxy, error, pc,
                 status, said, taken, cut>>

(* channel(): a name that no channel has is an error in the log.           *)
FindMissing(t, n) ==
  /\ Calls(t) /\ Matching(n) = {} /\ PrintLine(t, 0, Err)
  /\ UNCHANGED <<shared, sinks, mutex, reader, proxy, error, status, taken>>

-----------------------------------------------------------------------------
(* What a thread does once it has begun.                                   *)
Step(t) ==
  \/ PumpTerm(t) \/ Lock(t) \/ Copy(t) \/ Advance(t)
  \/ StrLock(t) \/ Release(t) \/ ErrorLine(t) \/ EndError(t)

(* What it begins.                                                         *)
Begin(t) ==
  \/ \E h \in {0} \cup 0 .. Len(added) - 1, lev \in Levels :
       PrintTo(t, h, lev) \/ Write(t, h, lev) \/ OpenProxy(t, h, lev)
  \/ Stream(t) \/ CloseProxy(t) \/ Str(t) \/ Take(t)
  \/ \E e \in ErrorChoices : Fail(t, e)
  \/ \E n \in Names : FindMissing(t, n) \/ \E lev \in ChannelLevels : AddChannel(t, n, lev)
  \/ \E lev \in ChannelLevels : SetLevel(t, lev)

Next == \E t \in Threads : Step(t) \/ Begin(t)

Safety == Init /\ [][Next]_vars

(* Threads keep running, and readers let go of the log.                    *)
Spec == Safety /\ \A t \in Threads : WF_vars(Step(t))

-----------------------------------------------------------------------------
Chars == Threads \X Nat \X (0 .. Body)
ThreadType(S) == [Threads -> S]

(* Every variable holds what the code can store in it.                     *)
TypeOK ==
  /\ mode \in Modes
  /\ channels \in [0 .. MaxChannels - 1 -> [name : Names \cup {None}, level : {Info} \cup ChannelLevels]]
  /\ added \in Seq(Names) /\ Len(added) <= MaxChannels
  /\ store \in Seq(Chars) /\ pos \in 0 .. Len(store)
  /\ mutex \in Threads \cup {None} /\ reader \in Threads \cup {None}
  /\ term \in Seq(Chars) /\ shown \in 0 .. Len(term)
  /\ buf \in ThreadType(Seq(Chars)) /\ size \in ThreadType(Nat)
  /\ proxy \in ThreadType([call : Nat, given : 0 .. Body] \cup {None})
  /\ calls \in ThreadType(Nat) /\ error \in ThreadType([settings : ErrorChoices, left : 0 .. ErrorLines] \cup {None})
  /\ pc \in ThreadType({"idle", "pump", "lock", "copy", "advance", "str"})
  /\ status \in {"run"} \cup Threads
  /\ said \in ThreadType(Seq(Chars)) /\ taken \in Seq(Chars)
  /\ cut \subseteq Threads \X Nat

Logged == taken \o Text

(* The characters of a thread in a text, in their order.                   *)
Of(t, text) ==
  LET of[k \in 0 .. Len(text)] ==
        IF k = 0 THEN <<>>
        ELSE IF text[k][1] = t THEN Append(of[k - 1], text[k]) ELSE of[k - 1]
  IN of[Len(text)]

(* What each thread had to log is in the log string, or was read and taken *)
(* away, or is on its way there in its buffer: once, in its order, nothing *)
(* lost to another thread's write or to a reader (pump, LogBuffer::write). *)
NothingLost ==
  /\ "str" \in mode => \A t \in Threads : Of(t, Logged) \o buf[t] = said[t]
  /\ "term" \in mode => \A t \in Threads :
       Of(t, term) \o (IF pc[t] \in {"lock", "copy", "advance"} THEN <<>> ELSE buf[t]) = said[t]

(* What a call prints stays together, in the terminal and in the log       *)
(* string, whatever others print meanwhile; what a proxy is given, too,    *)
(* unless it gets big or its thread logs something else in between (pump;  *)
(* Proxy: "It will accumulate the calls and output once after the last     *)
(* call").                                                                 *)
Whole(text) ==
  LET Call(i) == <<text[i][1], text[i][2]>>
  IN \A i, k \in DOMAIN text :
       Call(i) = Call(k) /\ Call(i) \notin cut => \A j \in i .. k : Call(j) = Call(i)

WholeMessages == Whole(Logged) /\ Whole(term)

(* What a reader took away it took whole, and for good: nothing of the     *)
(* same call has stayed in the log string, is in a buffer or is yet to be  *)
(* given to a proxy, whenever the reader cleared the string and whichever  *)
(* threads were printing (StrReader::clear, LogBuffer::clear, pump).       *)
CallsOf(text) == {<<text[i][1], text[i][2]>> : i \in DOMAIN text}
Unlogged(t) ==
  CallsOf(buf[t]) \cup IF proxy[t] = None THEN {} ELSE {<<t, proxy[t].call>>}

TakenWhole ==
  CallsOf(taken) \cap (CallsOf(Text) \cup UNION {Unlogged(t) : t \in Threads}) \subseteq cut

(* The log string only grows, and does not change while it is read: every  *)
(* step of every thread is one of SharedText (pump, str, StrReader).       *)
Reading == INSTANCE SharedText WITH Readers <- Threads, text <- Text
ImplementsSharedText == Reading!Spec

(* When an error aborts the program, what its thread had logged before,    *)
(* and the error, are on the terminal.  Nothing is left in the thread's    *)
(* buffer, also of a proxy that it has not ended, unless the main channel  *)
(* may be set to skip errors (handle_error, Log::flush).                   *)
AbortShown ==
  \A t \in Threads :
    status = t /\ "term" \in mode /\ "log" \in error[t].settings.flags =>
      /\ Of(t, SubSeq(term, 1, shown)) \o buf[t] = said[t]
      /\ (\A lev \in ChannelLevels : lev >= Err) => buf[t] = <<>>

(* A thread that logs, or that waits for the log string or to report an    *)
(* error, gets through, unless the program is aborted.                     *)
GetsThrough ==
  \A t \in Threads :
    (pc[t] # "idle" \/ error[t] # None) ~> ((pc[t] = "idle" /\ error[t] = None) \/ status # "run")

=============================================================================
