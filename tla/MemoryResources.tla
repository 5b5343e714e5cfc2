--------------------------- MODULE MemoryResources ---------------------------
(***************************************************************************)
(* memory_resource.hpp and allocator.hpp: the global memory resource, the  *)
(* scopes that set it or count what goes through it, and containers whose  *)
(* allocators hold on to a resource.  The scopes of the error settings     *)
(* (error.hpp) nest with them, since the error settings decide what        *)
(* becomes of an allocation that fails.                                    *)
(*                                                                         *)
(* A resource is one of Bases, or the counter of an open scope, named by   *)
(* the scope's place in the stack: as in the code, an address that another *)
(* counter has later.                                                      *)
(*                                                                         *)
(* A definition introduced by "Variant:" is no part of the specification:  *)
(* it is the definition that follows it as a slip in the code would have   *)
(* it.                                                                     *)
(***************************************************************************)
EXTENDS Integers, Sequences, FiniteSetsExt, Errors

CONSTANTS
  Bases,        \* the resources that are no counters
  Malloc,       \* the one that is global at first
  Containers,   \* the objects that own an allocator
  Small,        \* those of them that own a SmallAllocator
  N,            \* the objects a SmallAllocator has place for
  MaxSize,      \* bound: no block is of more objects
  MaxScopes,    \* bound: no more scopes are open at once
  ErrorChoices,      \* the error settings that clients choose from
  Careful,      \* whether clients avoid what the code does not support
  None

ASSUME ResourcesAssumption ==
  /\ Malloc \in Bases /\ Bases \cap Nat = {} /\ None \notin Nat
  /\ IsFiniteSet(Containers)
  /\ Small \subseteq Containers /\ N \in Nat
  /\ MaxSize \in Nat /\ MaxScopes \in Nat
  /\ ErrorChoices \subseteq ErrorSettings /\ Careful \in BOOLEAN

VARIABLES
  global,   \* what get_memory_resource() returns
  errors,   \* the error settings
  scopes,   \* the open scopes, the innermost last
  owner,    \* the containers that exist
  balance,  \* curr of s_counts: what counters had left when they closed
  pc,       \* "run", "unwind" (an exception is on its way), "abort"
  handler,  \* how many scopes are open where the exception is caught
  faults    \* what a memory checker would have reported

vars == <<global, errors, scopes, owner, balance, pc, handler, faults>>

-----------------------------------------------------------------------------
(* AllocationCounts::Item.                                                 *)
Item == [allocs : Int, size : Int]
Zero == [allocs |-> 0, size |-> 0]

Add(it, n) == [allocs |-> it.allocs + 1, size |-> it.size + n]
Rem(it, n) == [allocs |-> it.allocs - 1, size |-> it.size - n]
Plus(a, b) == [allocs |-> a.allocs + b.allocs, size |-> a.size + b.size]
Larger(m, n) == IF m > n THEN m ELSE n
MaxOf(a, b) == [allocs |-> Larger(a.allocs, b.allocs), size |-> Larger(a.size, b.size)]

(* The resources an object can reach.                                      *)
Counters(ss) == {k \in DOMAIN ss : ss[k].kind = "counts"}
Alive(r) == r \in Bases \cup Counters(scopes)

(* The counters that a call of a resource passes through: itself if it is  *)
(* one, and those that the resource it has latched onto passes through.    *)
Through(r) == IF r \in DOMAIN scopes THEN scopes[r].through ELSE {}

(* Variant: the new block is counted before the old one is taken off.      *)
RecountedLate(s, gone, come) ==
  LET c == IF come = 0 THEN s.curr ELSE Add(s.curr, come)
      d == IF gone = 0 THEN c ELSE Rem(c, gone)
  IN [s EXCEPT !.curr = d, !.max = IF come = 0 THEN @ ELSE MaxOf(@, c)]

(* rem_counts of a block of gone objects, then add_counts of one of come.  *)
(* 0 stands for the null pointer, which is not counted.                    *)
Recounted(s, gone, come) ==
  LET c == IF gone = 0 THEN s.curr ELSE Rem(s.curr, gone)
      d == IF come = 0 THEN c ELSE Add(c, come)
  IN [s EXCEPT !.curr = d, !.max = IF come = 0 THEN @ ELSE MaxOf(@, d)]

(* Variant: a counter goes past the counter that it has latched onto.      *)
CountedOnce(r, gone, come) ==
  [k \in DOMAIN scopes |-> IF k = r THEN Recounted(scopes[k], gone, come) ELSE scopes[k]]

(* What a call of the resource r leaves in the counters it passes through. *)
Counted(r, gone, come) ==
  [k \in DOMAIN scopes |->
     IF k \in Through(r) THEN Recounted(scopes[k], gone, come) ELSE scopes[k]]

-----------------------------------------------------------------------------
(* A block: where it is, the resource that gave it, and the objects it is  *)
(* for.  What it holds is not modelled, but where it goes back to and what *)
(* is counted.                                                             *)
NoBlock == [place |-> "none", via |-> None, size |-> 0]

(* Variant: what is asked for is not what is counted.                      *)
PaddedHeap(r, n) == [place |-> "heap", via |-> r, size |-> n + 1]

Heap(r, n) == [place |-> "heap", via |-> r, size |-> n]
InPlace(n) == [place |-> "arr", via |-> None, size |-> n]

NoOwner == [resource |-> None, block |-> NoBlock, fresh |-> NoBlock]

Exists(c) == owner[c] # NoOwner
Settled == \A c \in Containers : owner[c].fresh = NoBlock

Init ==
  /\ global = Malloc /\ errors = DefaultErrors /\ scopes = <<>>
  /\ owner = [c \in Containers |-> NoOwner]
  /\ balance = Zero /\ pc = "run" /\ handler = 0 /\ faults = {}

Running == pc = "run" /\ Settled

-----------------------------------------------------------------------------
(* Scopes.                                                                 *)

(* A new scope saves the global that it is to restore; found is what the   *)
(* global resource was, original what its destructor goes back to.         *)
NewScope(kind, original, through) ==
  [kind |-> kind, original |-> original, through |-> through,
   found |-> IF kind = "errors" THEN Malloc ELSE global,
   errors |-> IF kind = "errors" THEN errors ELSE DefaultErrors,
   curr |-> Zero, max |-> Zero]

Entered(s) ==
  /\ Running /\ Len(scopes) < MaxScopes
  /\ scopes' = Append(scopes, s)
  /\ UNCHANGED <<owner, balance, pc, handler, faults>>

(* ScopedMemoryResource(r).                                                *)
EnterResource(r) ==
  /\ Alive(r)
  /\ Entered(NewScope("resource", global, {}))
  /\ global' = r /\ UNCHANGED errors

(* ScopedMemoryResourceCounts(), where the counter latches onto the global *)
(* resource, and ScopedMemoryResourceCounts(m).                            *)
EnterCounts(m) ==
  LET k == Len(scopes) + 1
  IN /\ Alive(m) /\ (Careful => m = global)
     /\ Entered(NewScope("counts", m, Through(m) \cup {k}))
     /\ global' = k /\ UNCHANGED errors

(* ScopedErrorSettings, with a callback, with flags, or with both.         *)
EnterErrors(new) ==
  /\ Entered(NewScope("errors", Malloc, {}))
  /\ errors' \in ScopedSettings(errors, new) /\ UNCHANGED global

(* set_memory_resource and set_error_flags, set_error_callback.            *)
SetResource(r) ==
  /\ Running /\ Alive(r) /\ global' = r
  /\ UNCHANGED <<errors, scopes, owner, balance, pc, handler, faults>>

SetErrors(new) ==
  /\ Running /\ errors' \in ScopedSettings(errors, new)
  /\ UNCHANGED <<global, scopes, owner, balance, pc, handler, faults>>

(* Variant: the default resource is what a scope goes back to.             *)
RestoresDefault(s) == IF s.kind = "errors" THEN global ELSE Malloc

(* Variant: the counter stays global.                                      *)
RestoresPlainScopes(s) == IF s.kind = "resource" THEN s.original ELSE global

(* What the destructor of a scope makes the global resource: the one it    *)
(* saved, or the one its counter has latched onto.                         *)
Restored(s) == IF s.kind = "errors" THEN global ELSE s.original

(* Variant: only the flags are restored.                                   *)
RestoredFlags(s) ==
  IF s.kind = "errors" THEN [errors EXCEPT !.flags = s.errors.flags] ELSE errors

RestoredErrors(s) == IF s.kind = "errors" THEN s.errors ELSE errors

(* The innermost scope is left, by its end or by an exception.  A careful  *)
(* client's containers are gone before the counter that they allocate      *)
(* from.                                                                   *)
Leave ==
  LET n == Len(scopes)
  IN /\ Settled /\ n > 0
     /\ pc = "run" \/ (pc = "unwind" /\ n > handler)
     /\ Careful => \A c \in Containers : owner[c].resource # n
     /\ global' = Restored(scopes[n])
     /\ errors' = RestoredErrors(scopes[n])
     /\ balance' = Plus(balance, scopes[n].curr)
     /\ scopes' = SubSeq(scopes, 1, n - 1)
     /\ UNCHANGED <<owner, pc, handler, faults>>

Catch ==
  /\ pc = "unwind" /\ Settled /\ Len(scopes) = handler
  /\ pc' = "run" /\ handler' = 0
  /\ UNCHANGED <<global, errors, scopes, owner, balance, faults>>

-----------------------------------------------------------------------------
(* Allocators.                                                             *)

(* An allocator is constructed on the global resource, on a given one, or  *)
(* as a copy of another.                                                   *)
Construct(c, r) ==
  /\ Running /\ ~Exists(c) /\ Alive(r)
  /\ owner' = [owner EXCEPT ![c] = [NoOwner EXCEPT !.resource = r]]
  /\ UNCHANGED <<global, errors, scopes, balance, pc, handler, faults>>

(* Whether SmallAllocator gives its array for n objects.                   *)
InArray(c, n) == c \in Small /\ n <= N

(* Variant: the resource is looked up when it is needed.                   *)
GlobalResource(c) == global

(* The resource that the calls of an allocator go to.                      *)
Resource(c) == owner[c].resource

(* An allocation failed.  posix_memalign leaves the pointer as it was, an  *)
(* uninitialized local, and aalloc_impl frees it unless it is null.        *)
Failed ==
  /\ \/ Outcome(errors) = "throw" /\ pc' = "unwind" /\ handler' \in 0 .. Len(scopes)
     \/ Outcome(errors) # "throw" /\ UNCHANGED handler
          /\ pc' = IF Outcome(errors) = "abort" THEN "abort" ELSE pc
  /\ \/ UNCHANGED faults
     \/ Outcome(errors) = "return" /\ faults' = faults \cup {"ub"}
  /\ UNCHANGED <<global, errors, balance>>

Succeeded == UNCHANGED <<global, errors, balance, pc, handler>>

(* Whether the resource is one that exists.                                *)
Checked(ok, what) == IF ok THEN {} ELSE {what}

(* allocate(n).                                                            *)
Allocate(c, n, slot) ==
  \/ /\ InArray(c, n)
     /\ owner' = [owner EXCEPT ![c][slot] = InPlace(n)]
     /\ Succeeded /\ UNCHANGED <<scopes, faults>>
  \/ /\ ~InArray(c, n)
     /\ owner' = [owner EXCEPT ![c][slot] = Heap(Resource(c), n)]
     /\ scopes' = Counted(Resource(c), 0, n)
     /\ faults' = faults \cup Checked(Alive(Resource(c)), "ub")
     /\ Succeeded
  \/ /\ ~InArray(c, n) /\ Failed /\ UNCHANGED <<owner, scopes>>

First(c, n) ==
  /\ Running /\ Exists(c) /\ owner[c].block = NoBlock
  /\ Allocate(c, n, "block")

(* A container that grows or shrinks has two blocks while it moves its     *)
(* objects.  A SmallAllocator gives its array as often as it is asked:     *)
(* where both blocks are the array, the objects are moved onto themselves. *)
Relocate(c, n) ==
  /\ Running /\ owner[c].block # NoBlock
  /\ Allocate(c, n, "fresh")

(* What deallocating a block of c does to the counters and the faults.     *)
Deallocated(c, b) ==
  /\ scopes' = IF b.place = "heap" THEN Counted(Resource(c), b.size, 0) ELSE scopes
  /\ faults' = faults \cup
       IF b.place = "heap"
       THEN Checked(Alive(Resource(c)), "ub") \cup Checked(b.via = Resource(c), "foreign")
       ELSE {}

(* Variant: the old block is not deallocated.                              *)
SettleLeaks(c) ==
  /\ pc = "run" /\ owner[c].fresh # NoBlock
  /\ owner' = [owner EXCEPT ![c].block = owner[c].fresh, ![c].fresh = NoBlock]
  /\ UNCHANGED <<global, errors, scopes, balance, pc, handler, faults>>

(* The objects are in the new block, and the old one is deallocated.       *)
Settle(c) ==
  LET o == owner[c]
  IN /\ pc = "run" /\ o.fresh # NoBlock
     /\ owner' = [owner EXCEPT ![c] =
                    [resource |-> Resource(c), block |-> o.fresh, fresh |-> NoBlock]]
     /\ Deallocated(c, o.block)
     /\ UNCHANGED <<global, errors, balance, pc, handler>>

Free(c) ==
  /\ Running /\ owner[c].block # NoBlock
  /\ owner' = [owner EXCEPT ![c].block = NoBlock]
  /\ Deallocated(c, owner[c].block)
  /\ UNCHANGED <<global, errors, balance, pc, handler>>

(* reallocate(n), from a heap block to a heap block.  A counter takes the  *)
(* old block off before it asks its resource for the new one, and leaves   *)
(* it off when that throws; arealloc_impl copies into what it got without  *)
(* a look at it.  Careful clients reallocate where errors abort.           *)
ReallocateHeap(c, n) ==
  LET b == owner[c].block
  IN /\ Careful => Outcome(errors) = "abort"
     /\ \/ /\ owner' = [owner EXCEPT ![c].block = Heap(Resource(c), n)]
           /\ scopes' = Counted(Resource(c), b.size, n)
           /\ faults' = faults \cup Checked(Alive(Resource(c)), "ub")
                               \cup Checked(b.via = Resource(c), "foreign")
           /\ Succeeded
        \/ /\ Failed /\ (Outcome(errors) = "return" => "ub" \in faults')
           /\ scopes' = Counted(Resource(c), b.size, 0) /\ UNCHANGED owner

(* SmallAllocator::reallocate to or from its array.                        *)
ReallocateSmall(c, n) ==
  LET b == owner[c].block
  IN \/ /\ InArray(c, n)
        /\ owner' = [owner EXCEPT ![c].block = InPlace(n)]
        /\ Deallocated(c, b)
        /\ Succeeded
     \/ /\ ~InArray(c, n) /\ InArray(c, b.size)
        /\ owner' = [owner EXCEPT ![c].block = Heap(Resource(c), n)]
        /\ scopes' = Counted(Resource(c), 0, n)
        /\ faults' = faults \cup Checked(Alive(Resource(c)), "ub")
        /\ Succeeded
     \/ ~InArray(c, n) /\ InArray(c, b.size) /\ Failed /\ UNCHANGED <<owner, scopes>>

Reallocate(c, n) ==
  LET b == owner[c].block
  IN /\ Running /\ b # NoBlock
     /\ IF InArray(c, n) \/ InArray(c, b.size) THEN ReallocateSmall(c, n) ELSE ReallocateHeap(c, n)

(* A container is assigned from another that moves: it frees its block and *)
(* takes over the other's allocator and block, which is not in its array.  *)
(* The assignment of allocators is the library's, the rest the client's: a *)
(* standard container would not do it, for it knows the trait by another   *)
(* name than propagate_on_container_move_assigment.                        *)
MoveAssign(c, d) ==
  /\ Running /\ c # d /\ Exists(c) /\ Exists(d)
  /\ (c \in Small) = (d \in Small) /\ owner[d].block.place # "arr"
  /\ Deallocated(c, owner[c].block)
  /\ owner' = [owner EXCEPT ![c] = owner[d], ![d].block = NoBlock]
  /\ UNCHANGED <<global, errors, balance, pc, handler>>

(* A container is destroyed, also by an exception.                         *)
Destroy(c) ==
  /\ pc \in {"run", "unwind"} /\ Settled /\ Exists(c)
  /\ Deallocated(c, owner[c].block)
  /\ owner' = [owner EXCEPT ![c] = NoOwner]
  /\ UNCHANGED <<global, errors, balance, pc, handler>>

Next ==
  \/ \E r \in Bases \cup Counters(scopes) :
       \/ EnterResource(r) \/ EnterCounts(r) \/ SetResource(r)
       \/ \E c \in Containers : Construct(c, r)
  \/ \E e \in ErrorChoices : EnterErrors(e) \/ SetErrors(e)
  \/ Leave \/ Catch
  \/ \E c \in Containers :
       \/ \E n \in 1 .. MaxSize : First(c, n) \/ Relocate(c, n) \/ Reallocate(c, n)
       \/ Settle(c) \/ Free(c) \/ Destroy(c)
       \/ \E d \in Containers : MoveAssign(c, d)

Spec == Init /\ [][Next]_vars

-----------------------------------------------------------------------------
BlockType ==
  [place : {"none", "heap", "arr"}, via : Bases \cup (1 .. MaxScopes) \cup {None},
   size : 0 .. MaxSize]

ScopeType ==
  [kind : {"resource", "counts", "errors"}, found : Bases \cup (1 .. MaxScopes),
   original : Bases \cup (1 .. MaxScopes), errors : ErrorSettings,
   through : SUBSET (1 .. MaxScopes), curr : Item, max : Item]

(* Every variable holds what the code can store in it.                     *)
TypeOK ==
  /\ global \in Bases \cup (1 .. MaxScopes) /\ errors \in ErrorSettings
  /\ scopes \in Seq(ScopeType) /\ Len(scopes) <= MaxScopes
  /\ owner \in [Containers -> [resource : Bases \cup (1 .. MaxScopes) \cup {None},
                               block : BlockType, fresh : BlockType]]
  /\ balance \in Item /\ pc \in {"run", "unwind", "abort"} /\ handler \in 0 .. MaxScopes
  /\ faults \subseteq {"ub", "foreign"}

(* Whatever is set or entered in between, and whether a scope ends or an   *)
(* exception leaves it, the global resource and the error settings are     *)
(* then what they were when it was entered (~ScopedMemoryResource,         *)
(* ~ScopedMemoryResourceCounts, ~ScopedErrorSettings).                     *)
Scoping == INSTANCE ScopedGlobals WITH
  Settings <- [resource |-> Bases \cup (1 .. MaxScopes), errors |-> ErrorSettings],
  value <- [resource |-> global, errors |-> errors],
  found <- [k \in DOMAIN scopes |->
              IF scopes[k].kind = "errors"
              THEN [global |-> "errors", was |-> scopes[k].errors]
              ELSE [global |-> "resource", was |-> scopes[k].found]]
ImplementsScopes == Scoping!Spec

(* The global resource and those that allocators hold on to exist: neither *)
(* the destructor of a scope nor a move leaves the pointer to a counter    *)
(* that is gone (memory_resource.hpp, AllocatorBase).                      *)
NoDangling == Alive(global) /\ \A c \in Containers : Exists(c) => Alive(owner[c].resource)

(* A block goes back to the resource it came from, whatever resource has   *)
(* become global meanwhile, and nothing else is freed (Allocator).         *)
BlocksGoHome == faults = {}

(* What the blocks sum up to that came through the counter k.              *)
Live(k) ==
  LET passing == {b \in Containers \X {"block", "fresh"} : k \in Through(owner[b[1]][b[2]].via)}
  IN [allocs |-> Cardinality(passing),
      size |-> MapThenSumSet(LAMBDA b : owner[b[1]][b[2]].size, passing)]

(* A counter counts the blocks that came through it and are still there:   *)
(* also those of counters nested in it, of containers that have been moved *)
(* and after allocations that failed (MemoryResourceCounts).               *)
CountsBalance == pc # "abort" => \A k \in Counters(scopes) : scopes[k].curr = Live(k)

(* The maximum of a counter is the most there ever was at one time, and no *)
(* more: a block that is reallocated is not there twice (do_reallocate).   *)
MaxTracksPeak ==
  [][\A k \in Counters(scopes) \cap Counters(scopes') :
       pc' # "abort" => scopes'[k].max = MaxOf(scopes[k].max, Live(k)')]_vars

(* A counter that goes out of scope has nothing left to hand on to the     *)
(* counts of its thread (~MemoryResourceCounts).                           *)
ClosedBalanced == balance = Zero

=============================================================================
