------------------------ MODULE MemoryResourcesProofs ------------------------
(***************************************************************************)
(* For any resources, containers and depth of scopes, and careful clients  *)
(* whose error settings end an allocation that fails: scopes restore what  *)
(* they found, no pointer to a counter dangles, blocks go back to the      *)
(* resource they came from, and every counter counts the blocks that are   *)
(* there and keeps the most there ever were.                               *)
(***************************************************************************)
EXTENDS MemoryResources, Recursion, SequenceTheorems, TLAPS

(* Clients that do not go on after an error.                               *)
ClientsStop == \A e \in ErrorChoices : "abort" \in e.flags

Resources == Bases \cup (1 .. MaxScopes)

(* What a pointer may point to where the scopes ss are open.               *)
Reachable(ss) == Bases \cup Counters(ss)

(* A scope goes back to what it found, which is older than the scope.      *)
SoundScope(ss, k) ==
  /\ "abort" \in ss[k].errors.flags
  /\ ss[k].kind # "errors" =>
       ss[k].original = ss[k].found /\ ss[k].original \in Bases \cup {j \in Counters(ss) : j < k}

SoundBlock(c, r, b) ==
  /\ b \in BlockType
  /\ b.place = "none" => b = NoBlock
  /\ b.place = "heap" => b.via = r /\ b.size > 0 /\ ~InArray(c, b.size)
  /\ b.place = "arr" => b.via = None /\ InArray(c, b.size)

SoundOwner(c, o, ss) ==
  \/ o = NoOwner
  \/ /\ o = [resource |-> o.resource, block |-> o.block, fresh |-> o.fresh]
     /\ o.resource \in Reachable(ss)
     /\ SoundBlock(c, o.resource, o.block) /\ SoundBlock(c, o.resource, o.fresh)

(* The inductive invariant.                                                *)
IInv ==
  /\ TypeOK
  /\ \A k \in DOMAIN scopes : SoundScope(scopes, k)
  /\ \A c \in Containers : SoundOwner(c, owner[c], scopes)
  /\ global \in Reachable(scopes)
  /\ "abort" \in errors.flags
  /\ faults = {}

-----------------------------------------------------------------------------
(* Two stacks of scopes that differ only in what their counters count.     *)
Alike(ss, tt) ==
  /\ ss \in Seq(ScopeType) /\ tt \in Seq(ScopeType) /\ Len(ss) = Len(tt)
  /\ \A k \in DOMAIN ss :
       /\ tt[k].kind = ss[k].kind /\ tt[k].found = ss[k].found
       /\ tt[k].original = ss[k].original /\ tt[k].errors = ss[k].errors
       /\ tt[k].through = ss[k].through

LEMMA RecountedTyped ==
  ASSUME NEW s \in ScopeType, NEW gone \in Nat, NEW come \in Nat
  PROVE  /\ Recounted(s, gone, come) \in ScopeType
         /\ Recounted(s, gone, come).kind = s.kind
         /\ Recounted(s, gone, come).found = s.found
         /\ Recounted(s, gone, come).original = s.original
         /\ Recounted(s, gone, come).errors = s.errors
         /\ Recounted(s, gone, come).through = s.through
  <1> DEFINE c == IF gone = 0 THEN s.curr ELSE Rem(s.curr, gone)
             d == IF come = 0 THEN c ELSE Add(c, come)
             m == IF come = 0 THEN s.max ELSE MaxOf(s.max, d)
  <1>1. s.curr \in Item /\ s.max \in Item
    BY DEF ScopeType
  <1>2. c \in Item
    BY <1>1 DEF Rem, Item
  <1>3. d \in Item
    BY <1>2 DEF Add, Item
  <1>4. m \in Item
    BY <1>1, <1>3 DEF MaxOf, Larger, Item
  <1>5. Recounted(s, gone, come) = [s EXCEPT !.curr = d, !.max = m]
    BY DEF Recounted
  <1> HIDE DEF d, m
  <1>6. QED
    BY <1>3, <1>4, <1>5 DEF ScopeType

LEMMA CountedAlike ==
  ASSUME scopes \in Seq(ScopeType), NEW r, NEW gone \in Nat, NEW come \in Nat
  PROVE  Alike(scopes, Counted(r, gone, come))
  <1> DEFINE tt == Counted(r, gone, come)
  <1>1. DOMAIN scopes = 1 .. Len(scopes) /\ Len(scopes) \in Nat
    OBVIOUS
  <1>2. DOMAIN tt = DOMAIN scopes
    BY DEF Counted
  <1>3. ASSUME NEW k \in DOMAIN scopes
        PROVE  /\ tt[k] \in ScopeType /\ tt[k].kind = scopes[k].kind /\ tt[k].found = scopes[k].found
               /\ tt[k].original = scopes[k].original /\ tt[k].errors = scopes[k].errors
               /\ tt[k].through = scopes[k].through
    <2>1. scopes[k] \in ScopeType
      OBVIOUS
    <2>2. tt[k] = Recounted(scopes[k], gone, come) \/ tt[k] = scopes[k]
      BY DEF Counted
    <2> HIDE DEF tt
    <2>3. CASE tt[k] = scopes[k]
      BY <2>1, <2>3
    <2>4. CASE tt[k] = Recounted(scopes[k], gone, come)
      <3>1. /\ Recounted(scopes[k], gone, come) \in ScopeType
            /\ Recounted(scopes[k], gone, come).kind = scopes[k].kind
            /\ Recounted(scopes[k], gone, come).found = scopes[k].found
            /\ Recounted(scopes[k], gone, come).original = scopes[k].original
            /\ Recounted(scopes[k], gone, come).errors = scopes[k].errors
            /\ Recounted(scopes[k], gone, come).through = scopes[k].through
        BY <2>1, RecountedTyped
      <3>2. QED
        BY <2>4, <3>1
    <2>5. QED
      BY <2>2, <2>3, <2>4
  <1>4. tt \in [1 .. Len(scopes) -> ScopeType]
    <2>1. tt = [k \in 1 .. Len(scopes) |-> tt[k]]
      BY <1>1 DEF Counted
    <2> HIDE DEF tt
    <2>2. QED
      BY <1>1, <1>3, <2>1
  <1> HIDE DEF tt
  <1>5. tt \in Seq(ScopeType) /\ Len(tt) = Len(scopes)
    BY <1>1, <1>4
  <1>6. Alike(scopes, tt)
    BY <1>3, <1>5 DEF Alike
  <1>7. QED
    BY <1>6 DEF tt

LEMMA AlikeSound ==
  ASSUME NEW ss, NEW tt, Alike(ss, tt)
  PROVE  /\ DOMAIN tt = DOMAIN ss
         /\ Counters(tt) = Counters(ss)
         /\ \A k \in DOMAIN ss : SoundScope(ss, k) => SoundScope(tt, k)
         /\ \A c, o : SoundOwner(c, o, ss) => SoundOwner(c, o, tt)
  <1>1. DOMAIN tt = DOMAIN ss
    BY DEF Alike
  <1>2. Counters(tt) = Counters(ss)
    BY <1>1 DEF Alike, Counters
  <1>3. QED
    BY <1>1, <1>2 DEF Alike, SoundScope, SoundOwner, Reachable

(* A step that leaves the scopes as they are up to what is counted, and    *)
(* sound containers, keeps the invariant.                                  *)
LEMMA ContainerStep ==
  ASSUME IInv, Alike(scopes, scopes') , \A c \in Containers : SoundOwner(c, owner'[c], scopes),
         owner' \in [Containers -> [resource : Resources \cup {None}, block : BlockType, fresh : BlockType]],
         faults' = {}, UNCHANGED <<global, errors, balance>>,
         pc' \in {"run", "unwind", "abort"}, handler' \in 0 .. MaxScopes
  PROVE  IInv'
  <1>1. TypeOK'
    BY DEF IInv, TypeOK, Alike, Resources
  <1>2. QED
    BY <1>1, AlikeSound DEF IInv, Reachable

-----------------------------------------------------------------------------
(* What the parts of the allocators' functions do in a sound state.        *)
Quiet ==
  /\ Alike(scopes, scopes') /\ faults' = {} /\ UNCHANGED <<global, errors, balance>>
  /\ pc' \in {"run", "unwind", "abort"} /\ handler' \in 0 .. MaxScopes

LEMMA AlikeSelf == TypeOK => Alike(scopes, scopes)
  BY DEF TypeOK, Alike

LEMMA ReachableTyped ==
  ASSUME TypeOK
  PROVE  /\ DOMAIN scopes = 1 .. Len(scopes) /\ Len(scopes) \in 0 .. MaxScopes
         /\ Reachable(scopes) \subseteq Resources
  <1>1. scopes \in Seq(ScopeType) /\ Len(scopes) <= MaxScopes /\ MaxScopes \in Nat
    BY ResourcesAssumption DEF TypeOK
  <1>2. DOMAIN scopes = 1 .. Len(scopes) /\ Len(scopes) \in 0 .. MaxScopes
    BY <1>1
  <1>3. Counters(scopes) \subseteq 1 .. MaxScopes
    <2>1. DOMAIN scopes \subseteq 1 .. MaxScopes
      BY <1>1, <1>2
    <2>2. QED
      BY <2>1 DEF Counters
  <1>4. QED
    BY <1>2, <1>3 DEF Reachable, Resources

LEMMA NoBlockSound == \A c, r : SoundBlock(c, r, NoBlock)
  BY ResourcesAssumption DEF SoundBlock, NoBlock, BlockType

LEMMA ResourceAlive ==
  ASSUME IInv, NEW c \in Containers, Exists(c)
  PROVE  /\ Alive(Resource(c))
         /\ SoundBlock(c, Resource(c), owner[c].block) /\ SoundBlock(c, Resource(c), owner[c].fresh)
  BY DEF IInv, Exists, SoundOwner, Resource, Alive, Reachable

LEMMA FailedQuiet ==
  ASSUME IInv, Failed
  PROVE  /\ faults' = {} /\ UNCHANGED <<global, errors, balance>>
         /\ pc' \in {"run", "unwind", "abort"} /\ handler' \in 0 .. MaxScopes
         /\ Outcome(errors) # "return"
  <1>1. Outcome(errors) # "return"
    BY DEF IInv, Outcome
  <1>2. Len(scopes) \in Nat /\ Len(scopes) <= MaxScopes /\ MaxScopes \in Nat
    BY ResourcesAssumption DEF IInv, TypeOK
  <1>3. QED
    BY <1>1, <1>2 DEF IInv, TypeOK, Failed

LEMMA SucceededQuiet ==
  ASSUME IInv, Succeeded, faults' = {}, Alike(scopes, scopes')
  PROVE  Quiet
  BY DEF IInv, TypeOK, Succeeded, Quiet

LEMMA DeallocatedQuiet ==
  ASSUME IInv, NEW c \in Containers, NEW b, SoundBlock(c, Resource(c), b),
         Exists(c) \/ b = NoBlock, Deallocated(c, b)
  PROVE  Alike(scopes, scopes') /\ faults' = {}
  <1>1. CASE b.place = "heap"
    <2>1. b.size \in Nat
      BY DEF SoundBlock, BlockType
    <2>2. scopes' = Counted(Resource(c), b.size, 0)
      BY <1>1 DEF Deallocated
    <2>3. Alike(scopes, scopes')
      BY <2>1, <2>2, CountedAlike DEF IInv, TypeOK
    <2>4. Alive(Resource(c)) /\ b.via = Resource(c)
      BY <1>1, ResourceAlive DEF SoundBlock, NoBlock
    <2>5. faults' = {}
      BY <1>1, <2>4 DEF Deallocated, Checked, IInv
    <2>6. QED
      BY <2>3, <2>5
  <1>2. CASE b.place # "heap"
    BY <1>2, AlikeSelf DEF Deallocated, IInv
  <1>3. QED
    BY <1>1, <1>2

LEMMA AllocateQuiet ==
  ASSUME IInv, NEW c \in Containers, Exists(c), NEW n \in 1 .. MaxSize,
         NEW slot \in {"block", "fresh"}, Allocate(c, n, slot)
  PROVE  /\ Quiet
         /\ \/ UNCHANGED owner
            \/ \E b : /\ owner' = [owner EXCEPT ![c][slot] = b]
                      /\ SoundBlock(c, Resource(c), b)
  <1>0. n \in Nat /\ n > 0 /\ n \in 0 .. MaxSize /\ 0 \in Nat /\ MaxSize \in Nat
    BY ResourcesAssumption
  <1>1. CASE InArray(c, n) /\ owner' = [owner EXCEPT ![c][slot] = InPlace(n)]
             /\ Succeeded /\ UNCHANGED <<scopes, faults>>
    <2>1. Quiet
      BY <1>1, AlikeSelf, SucceededQuiet DEF IInv
    <2>2. SoundBlock(c, Resource(c), InPlace(n))
      BY <1>0, <1>1 DEF SoundBlock, InPlace, BlockType
    <2>3. QED
      BY <1>1, <2>1, <2>2
  <1>2. CASE /\ ~InArray(c, n)
             /\ owner' = [owner EXCEPT ![c][slot] = Heap(Resource(c), n)]
             /\ scopes' = Counted(Resource(c), 0, n)
             /\ faults' = faults \cup Checked(Alive(Resource(c)), "ub")
             /\ Succeeded
    <2>1. Alike(scopes, scopes')
      BY <1>0, <1>2, CountedAlike DEF IInv, TypeOK
    <2>2. faults' = {}
      BY <1>2, ResourceAlive DEF Checked, IInv
    <2>3. Quiet
      BY <1>2, <2>1, <2>2, SucceededQuiet
    <2>4. Resource(c) \in Resources
      BY ResourceAlive, ReachableTyped DEF Alive, Reachable, IInv
    <2>5. SoundBlock(c, Resource(c), Heap(Resource(c), n))
      BY <1>0, <1>2, <2>4 DEF SoundBlock, Heap, BlockType, Resources
    <2>6. QED
      BY <1>2, <2>3, <2>5
  <1>3. CASE Failed /\ UNCHANGED <<owner, scopes>>
    BY <1>3, FailedQuiet, AlikeSelf DEF IInv, Quiet
  <1>4. QED
    BY <1>1, <1>2, <1>3 DEF Allocate

(* A step that changes only the container c, soundly.                      *)
LEMMA OneContainer ==
  ASSUME IInv, Quiet, NEW c \in Containers, NEW o,
         owner' = [owner EXCEPT ![c] = o], SoundOwner(c, o, scopes)
  PROVE  Quiet /\ IInv'
  <1>1. \A d \in Containers : SoundOwner(d, owner'[d], scopes)
    BY DEF IInv, TypeOK
  <1>2. o \in [resource : Resources \cup {None}, block : BlockType, fresh : BlockType]
    <2>1. NoOwner \in [resource : Resources \cup {None}, block : BlockType, fresh : BlockType]
      BY ResourcesAssumption DEF NoOwner, NoBlock, BlockType
    <2>2. Reachable(scopes) \subseteq Resources
      BY ReachableTyped DEF IInv
    <2>3. QED
      BY <2>1, <2>2 DEF SoundOwner, SoundBlock
  <1>3. owner' \in [Containers -> [resource : Resources \cup {None}, block : BlockType, fresh : BlockType]]
    BY <1>2 DEF IInv, TypeOK, Resources
  <1>4. QED
    BY <1>1, <1>3, ContainerStep DEF Quiet

-----------------------------------------------------------------------------
(* The actions of the containers.                                          *)

LEMMA ConstructLemma ==
  ASSUME IInv, NEW c \in Containers, NEW r, Construct(c, r)
  PROVE  Quiet /\ IInv'
  <1> DEFINE o == [NoOwner EXCEPT !.resource = r]
  <1>1. Quiet
    BY AlikeSelf DEF Construct, Quiet, IInv, TypeOK
  <1>2. SoundOwner(c, o, scopes)
    <2>1. o = [resource |-> r, block |-> NoBlock, fresh |-> NoBlock]
      BY DEF NoOwner
    <2>2. r \in Reachable(scopes)
      BY DEF Construct, Alive, Reachable
    <2>3. QED
      BY <2>1, <2>2, NoBlockSound DEF SoundOwner
  <1>3. owner' = [owner EXCEPT ![c] = o]
    BY DEF Construct
  <1> HIDE DEF o
  <1>4. QED
    BY <1>1, <1>2, <1>3, OneContainer

(* A block that a container has got is put where it was asked for.         *)
LEMMA PutLemma ==
  ASSUME IInv, NEW c \in Containers, Exists(c), NEW n \in 1 .. MaxSize,
         NEW slot \in {"block", "fresh"}, Allocate(c, n, slot)
  PROVE  Quiet /\ IInv'
  <1>1. Quiet
    BY AllocateQuiet
  <1>2. CASE UNCHANGED owner
    <2>1. SoundOwner(c, owner[c], scopes)
      BY DEF IInv
    <2>2. owner' = [owner EXCEPT ![c] = owner[c]]
      BY <1>2 DEF IInv, TypeOK
    <2>3. QED
      BY <1>1, <2>1, <2>2, OneContainer
  <1>3. ASSUME NEW b, owner' = [owner EXCEPT ![c][slot] = b],
               SoundBlock(c, Resource(c), b)
        PROVE  Quiet /\ IInv'
    <2> DEFINE o == [owner[c] EXCEPT ![slot] = b]
    <2>1. owner' = [owner EXCEPT ![c] = o]
      BY <1>3
    <2>2. /\ owner[c] = [resource |-> owner[c].resource, block |-> owner[c].block,
                          fresh |-> owner[c].fresh]
          /\ owner[c].resource \in Reachable(scopes)
          /\ SoundBlock(c, owner[c].resource, owner[c].block)
          /\ SoundBlock(c, owner[c].resource, owner[c].fresh)
      BY DEF IInv, SoundOwner, Exists
    <2>3. CASE slot = "block"
      <3>1. o = [resource |-> owner[c].resource, block |-> b, fresh |-> owner[c].fresh]
        BY <2>2, <2>3
      <3>2. QED
        BY <1>3, <2>1, <2>2, <2>3, <3>1, <1>1, OneContainer DEF SoundOwner, Resource
    <2>4. CASE slot = "fresh"
      <3>1. o = [resource |-> owner[c].resource, block |-> owner[c].block, fresh |-> b]
        BY <2>2, <2>4
      <3>2. QED
        BY <1>3, <2>1, <2>2, <2>4, <3>1, <1>1, OneContainer DEF SoundOwner, Resource
    <2>5. QED
      BY <2>3, <2>4
  <1>4. QED
    BY <1>2, <1>3, AllocateQuiet

LEMMA FirstLemma ==
  ASSUME IInv, NEW c \in Containers, NEW n \in 1 .. MaxSize, First(c, n)
  PROVE  Quiet /\ IInv'
  <1>1. Exists(c) /\ Allocate(c, n, "block")
    BY DEF First
  <1>2. QED
    BY <1>1, PutLemma

LEMMA RelocateLemma ==
  ASSUME IInv, NEW c \in Containers, NEW n \in 1 .. MaxSize, Relocate(c, n)
  PROVE  Quiet /\ IInv'
  <1>1. Allocate(c, n, "fresh") /\ owner[c].block # NoBlock
    BY DEF Relocate
  <1>2. Exists(c)
    BY <1>1 DEF Exists, NoOwner
  <1>3. QED
    BY <1>1, <1>2, PutLemma

(* A container gives a block back and has then the blocks b and NoBlock.   *)
LEMMA GiveBackLemma ==
  ASSUME IInv, NEW c \in Containers, NEW old, NEW b, NEW r,
         SoundBlock(c, Resource(c), old), Exists(c) \/ old = NoBlock, Deallocated(c, old),
         r \in Reachable(scopes), SoundBlock(c, r, b),
         owner' = [owner EXCEPT ![c] = [resource |-> r, block |-> b, fresh |-> NoBlock]],
         UNCHANGED <<global, errors, balance, pc, handler>>
  PROVE  Quiet /\ IInv'
  <1>1. Quiet
    BY DeallocatedQuiet DEF Quiet, IInv, TypeOK
  <1>2. SoundOwner(c, [resource |-> r, block |-> b, fresh |-> NoBlock], scopes)
    BY NoBlockSound DEF SoundOwner, NoBlock
  <1>3. QED
    BY <1>1, <1>2, OneContainer

LEMMA SettleLemma ==
  ASSUME IInv, NEW c \in Containers, Settle(c)
  PROVE  Quiet /\ IInv'
  <1>1. owner[c].fresh # NoBlock /\ Deallocated(c, owner[c].block)
        /\ owner' = [owner EXCEPT ![c] =
                       [resource |-> Resource(c), block |-> owner[c].fresh, fresh |-> NoBlock]]
        /\ UNCHANGED <<global, errors, balance, pc, handler>>
    BY DEF Settle
  <1>2. Exists(c)
    BY <1>1 DEF Exists, NoOwner
  <1>3. Resource(c) \in Reachable(scopes)
    BY <1>2, ResourceAlive DEF Alive, Reachable
  <1>4. QED
    BY <1>1, <1>2, <1>3, ResourceAlive, GiveBackLemma

LEMMA FreeLemma ==
  ASSUME IInv, NEW c \in Containers, Free(c)
  PROVE  Quiet /\ IInv'
  <1>1. owner[c].block # NoBlock /\ Deallocated(c, owner[c].block) /\ owner[c].fresh = NoBlock
        /\ owner' = [owner EXCEPT ![c] = [owner[c] EXCEPT !.block = NoBlock]]
        /\ UNCHANGED <<global, errors, balance, pc, handler>>
    BY DEF Free, Running, Settled
  <1>2. Exists(c)
    BY <1>1 DEF Exists, NoOwner
  <1>3. [owner[c] EXCEPT !.block = NoBlock]
          = [resource |-> Resource(c), block |-> NoBlock, fresh |-> NoBlock]
    <2>1. owner[c] = [resource |-> Resource(c), block |-> owner[c].block, fresh |-> NoBlock]
      BY <1>1, <1>2 DEF IInv, SoundOwner, Exists, Resource
    <2>2. PICK b : owner[c] = [resource |-> Resource(c), block |-> b, fresh |-> NoBlock]
      BY <2>1
    <2>3. QED
      BY <2>2
  <1>4. Resource(c) \in Reachable(scopes)
    BY <1>2, ResourceAlive DEF Alive, Reachable
  <1>5. QED
    BY <1>1, <1>2, <1>3, <1>4, ResourceAlive, NoBlockSound, GiveBackLemma

(* A container without a second block gets the block b, or keeps its own.  *)
LEMMA ReplaceLemma ==
  ASSUME IInv, Quiet, NEW c \in Containers, Exists(c), owner[c].fresh = NoBlock,
         NEW b, SoundBlock(c, Resource(c), b), owner' = [owner EXCEPT ![c].block = b]
  PROVE  Quiet /\ IInv'
  <1>1. owner[c] = [resource |-> Resource(c), block |-> owner[c].block, fresh |-> NoBlock]
    BY DEF IInv, SoundOwner, Exists, Resource
  <1>2. PICK x : owner[c] = [resource |-> Resource(c), block |-> x, fresh |-> NoBlock]
    BY <1>1
  <1>3. [owner[c] EXCEPT !.block = b] = [resource |-> Resource(c), block |-> b, fresh |-> NoBlock]
    BY <1>2
  <1>4. owner' = [owner EXCEPT ![c] = [resource |-> Resource(c), block |-> b, fresh |-> NoBlock]]
    BY <1>3
  <1>5. SoundOwner(c, [resource |-> Resource(c), block |-> b, fresh |-> NoBlock], scopes)
    BY ResourceAlive, NoBlockSound DEF SoundOwner, Alive, Reachable, NoBlock
  <1>6. QED
    BY <1>4, <1>5, OneContainer

LEMMA ReallocateLemma ==
  ASSUME IInv, NEW c \in Containers, NEW n \in 1 .. MaxSize, Reallocate(c, n)
  PROVE  Quiet /\ IInv'
  <1> DEFINE b == owner[c].block
             r == Resource(c)
  <1>1. /\ b # NoBlock /\ owner[c].fresh = NoBlock
        /\ IF InArray(c, n) \/ InArray(c, b.size) THEN ReallocateSmall(c, n) ELSE ReallocateHeap(c, n)
    BY DEF Reallocate, Running, Settled
  <1>2. Exists(c)
    BY <1>1 DEF Exists, NoOwner
  <1>3. SoundBlock(c, r, b) /\ Alive(r) /\ r \in Resources
    BY <1>2, ResourceAlive, ReachableTyped DEF Alive, Reachable, IInv
  <1>4. n \in Nat /\ n > 0 /\ n \in 0 .. MaxSize /\ b.size \in Nat /\ 0 \in Nat
    <2>1. MaxSize \in Nat
      BY ResourcesAssumption
    <2>2. b.size \in Nat
      BY <1>3, <2>1 DEF SoundBlock, BlockType
    <2>3. QED
      BY <2>1, <2>2
  <1>5. CASE InArray(c, n) /\ owner' = [owner EXCEPT ![c].block = InPlace(n)]
             /\ Deallocated(c, b) /\ Succeeded
    <2>1. SoundBlock(c, r, InPlace(n))
      BY <1>4, <1>5 DEF SoundBlock, InPlace, BlockType
    <2>2. Quiet
      BY <1>2, <1>3, <1>5, DeallocatedQuiet, SucceededQuiet
    <2>3. QED
      BY <1>1, <1>2, <1>5, <2>1, <2>2, ReplaceLemma
  (* A block from the heap, whether a block on the heap has been taken off   *)
  (* the counts for it or not.                                               *)
  <1>6. ASSUME NEW gone \in Nat, ~InArray(c, n), scopes' = Counted(r, gone, n), faults' = {},
               owner' = [owner EXCEPT ![c].block = Heap(r, n)], Succeeded
        PROVE  Quiet /\ IInv'
    <2>1. Alike(scopes, scopes')
      BY <1>4, <1>6, CountedAlike DEF IInv, TypeOK
    <2>2. Quiet
      BY <1>6, <2>1, SucceededQuiet
    <2>3. SoundBlock(c, r, Heap(r, n))
      BY <1>3, <1>4, <1>6 DEF SoundBlock, Heap, BlockType, Resources
    <2>4. QED
      BY <1>1, <1>2, <1>6, <2>2, <2>3, ReplaceLemma
  (* No block, and the old one is still there.                               *)
  <1>7. ASSUME Failed, Alike(scopes, scopes'), UNCHANGED owner
        PROVE  Quiet /\ IInv'
    <2>1. Quiet
      BY <1>7, FailedQuiet DEF Quiet
    <2>2. owner' = [owner EXCEPT ![c] = owner[c]] /\ SoundOwner(c, owner[c], scopes)
      BY <1>7 DEF IInv, TypeOK
    <2>3. QED
      BY <2>1, <2>2, OneContainer
  <1>8. CASE ~InArray(c, n) /\ InArray(c, b.size)
    <2>1. \/ /\ owner' = [owner EXCEPT ![c].block = Heap(r, n)]
             /\ scopes' = Counted(r, 0, n) /\ Succeeded
             /\ faults' = faults \cup Checked(Alive(r), "ub")
          \/ Failed /\ UNCHANGED <<owner, scopes>>
      BY <1>1, <1>8 DEF ReallocateSmall
    <2>2. Checked(Alive(r), "ub") = {} /\ faults = {}
      BY <1>3 DEF Checked, IInv
    <2>3. Alike(scopes, scopes)
      BY AlikeSelf DEF IInv, TypeOK
    <2> HIDE DEF b, r
    <2>4. QED
      BY <1>4, <1>6, <1>7, <1>8, <2>1, <2>2, <2>3
  <1>9. CASE ~InArray(c, n) /\ ~InArray(c, b.size)
    <2>1. \/ /\ owner' = [owner EXCEPT ![c].block = Heap(r, n)]
             /\ scopes' = Counted(r, b.size, n) /\ Succeeded
             /\ faults' = faults \cup Checked(Alive(r), "ub") \cup Checked(b.via = r, "foreign")
          \/ Failed /\ scopes' = Counted(r, b.size, 0) /\ UNCHANGED owner
      BY <1>1, <1>9 DEF ReallocateHeap
    <2>2. b.via = r
      BY <1>1, <1>3, <1>9 DEF SoundBlock, BlockType
    <2>3. Checked(Alive(r), "ub") = {} /\ Checked(b.via = r, "foreign") = {} /\ faults = {}
      BY <1>3, <2>2 DEF Checked, IInv
    <2>4. Alike(scopes, Counted(r, b.size, 0))
      BY <1>4, CountedAlike DEF IInv, TypeOK
    <2> HIDE DEF b, r
    <2>5. QED
      BY <1>4, <1>6, <1>7, <1>9, <2>1, <2>3, <2>4
  <1>10. CASE InArray(c, n)
    BY <1>1, <1>5, <1>10 DEF ReallocateSmall
  <1>11. QED
    BY <1>8, <1>9, <1>10

LEMMA MoveAssignLemma ==
  ASSUME IInv, NEW c \in Containers, NEW d \in Containers, MoveAssign(c, d)
  PROVE  Quiet /\ IInv'
  <1>1. /\ c # d /\ Exists(c) /\ Exists(d) /\ owner[d].block.place # "arr"
        /\ ((c \in Small) = (d \in Small))
        /\ owner[c].fresh = NoBlock /\ owner[d].fresh = NoBlock
        /\ Deallocated(c, owner[c].block)
        /\ owner' = [owner EXCEPT ![c] = owner[d], ![d] = [owner[d] EXCEPT !.block = NoBlock]]
        /\ UNCHANGED <<global, errors, balance, pc, handler>>
    BY DEF MoveAssign, Running, Settled, IInv, TypeOK
  <1>2. Quiet
    BY <1>1, ResourceAlive, DeallocatedQuiet DEF Quiet, IInv, TypeOK
  <1>3. owner[d] = [resource |-> Resource(d), block |-> owner[d].block, fresh |-> NoBlock]
    BY <1>1 DEF IInv, SoundOwner, Exists, Resource
  <1>4. PICK b : owner[d] = [resource |-> Resource(d), block |-> b, fresh |-> NoBlock]
    BY <1>3
  <1>5. [owner[d] EXCEPT !.block = NoBlock] = [resource |-> Resource(d), block |-> NoBlock, fresh |-> NoBlock]
    BY <1>4
  <1>6. Resource(d) \in Reachable(scopes) /\ SoundBlock(d, Resource(d), owner[d].block)
    BY <1>1, ResourceAlive DEF Alive, Reachable
  <1>7. SoundOwner(d, [resource |-> Resource(d), block |-> NoBlock, fresh |-> NoBlock], scopes)
    BY <1>6, NoBlockSound DEF SoundOwner, NoBlock
  <1>8. SoundOwner(c, owner[d], scopes)
    <2>1. SoundBlock(c, Resource(d), owner[d].block)
      BY <1>1, <1>6 DEF SoundBlock, InArray
    <2>2. owner[d].resource = Resource(d)
      BY DEF Resource
    <2>3. owner[d].fresh = NoBlock
      BY <1>1
    <2>4. SoundBlock(c, Resource(d), owner[d].fresh)
      BY <2>3, NoBlockSound
    <2>5. owner[d] = [resource |-> owner[d].resource, block |-> owner[d].block, fresh |-> owner[d].fresh]
      BY <1>3, <2>2, <2>3
    <2>6. QED
      BY <1>6, <2>1, <2>2, <2>3, <2>4, <2>5 DEF SoundOwner
  <1>9. \A x \in Containers : SoundOwner(x, owner'[x], scopes)
    BY <1>1, <1>5, <1>7, <1>8 DEF IInv, TypeOK
  <1>10. owner' \in [Containers -> [resource : Resources \cup {None}, block : BlockType, fresh : BlockType]]
    <2>1. owner[d] \in [resource : Resources \cup {None}, block : BlockType, fresh : BlockType]
      BY DEF IInv, TypeOK, Resources
    <2>2. [resource |-> Resource(d), block |-> NoBlock, fresh |-> NoBlock]
            \in [resource : Resources \cup {None}, block : BlockType, fresh : BlockType]
      BY <1>6, ReachableTyped, NoBlockSound DEF IInv, SoundBlock
    <2>3. QED
      BY <1>1, <1>5, <2>1, <2>2 DEF IInv, TypeOK, Resources
  <1>11. QED
    BY <1>2, <1>9, <1>10, ContainerStep DEF Quiet

LEMMA DestroyLemma ==
  ASSUME IInv, NEW c \in Containers, Destroy(c)
  PROVE  Quiet /\ IInv'
  <1>1. owner[c].fresh = NoBlock /\ Exists(c) /\ Deallocated(c, owner[c].block)
        /\ owner' = [owner EXCEPT ![c] = NoOwner]
        /\ UNCHANGED <<global, errors, balance, pc, handler>>
    BY DEF Destroy, Settled
  <1>2. Quiet
    BY <1>1, ResourceAlive, DeallocatedQuiet DEF Quiet, IInv, TypeOK
  <1>3. QED
    BY <1>1, <1>2, OneContainer DEF SoundOwner

-----------------------------------------------------------------------------
(* The actions of the scopes.                                              *)

LEMMA InitLemma == Init => IInv
  <1>1. scopes = <<>> => scopes \in Seq(ScopeType) /\ Len(scopes) = 0 /\ DOMAIN scopes = {}
    OBVIOUS
  <1>2. NoOwner \in [resource : Resources \cup {None}, block : BlockType, fresh : BlockType]
    BY ResourcesAssumption DEF NoOwner, NoBlock, BlockType
  <1>3. Zero \in Item /\ DefaultErrors \in ErrorSettings /\ "abort" \in DefaultErrors.flags
    BY DEF Zero, Item, DefaultErrors, ErrorSettings, ErrorFlags, Callbacks
  <1>4. QED
    BY <1>1, <1>2, <1>3, ResourcesAssumption
    DEF Init, IInv, TypeOK, SoundOwner, Reachable, Counters, Resources

(* A new scope that goes back to something older keeps the invariant.      *)
LEMMA EnteredLemma ==
  ASSUME IInv, NEW s \in ScopeType, Entered(s), "abort" \in s.errors.flags,
         s.kind # "errors" => s.original = s.found /\ s.original \in Reachable(scopes),
         errors' \in ErrorSettings, "abort" \in errors'.flags,
         global' \in Reachable(scopes) \/ (s.kind = "counts" /\ global' = Len(scopes) + 1)
  PROVE  IInv'
  <1> DEFINE n == Len(scopes)
  <1>1. /\ scopes \in Seq(ScopeType) /\ n \in Nat /\ n < MaxScopes /\ DOMAIN scopes = 1 .. n
        /\ scopes' = Append(scopes, s)
        /\ UNCHANGED <<owner, balance, pc, handler, faults>>
    BY DEF IInv, TypeOK, Entered
  <1>2. /\ scopes' \in Seq(ScopeType) /\ Len(scopes') = n + 1 /\ DOMAIN scopes' = 1 .. n + 1
        /\ scopes'[n + 1] = s /\ \A k \in 1 .. n : scopes'[k] = scopes[k]
    BY <1>1
  <1>3. Counters(scopes) \subseteq 1 .. n /\ Counters(scopes) \subseteq Counters(scopes')
        /\ (s.kind = "counts" => n + 1 \in Counters(scopes'))
    BY <1>1, <1>2 DEF Counters
  <1>4. Reachable(scopes) \subseteq Reachable(scopes') /\ global' \in Reachable(scopes')
    BY <1>3 DEF Reachable
  <1>5. ASSUME NEW k \in DOMAIN scopes'
        PROVE  SoundScope(scopes', k)
    <2>1. CASE k = n + 1
      <3>1. s.kind # "errors" => s.original \in Bases \cup {j \in Counters(scopes') : j < n + 1}
        BY <1>1, <1>3 DEF Reachable
      <3>2. QED
        BY <1>2, <2>1, <3>1 DEF SoundScope
    <2>2. CASE k \in 1 .. n
      <3>1. SoundScope(scopes, k) /\ scopes'[k] = scopes[k]
        BY <1>1, <1>2, <2>2 DEF IInv
      <3>2. QED
        BY <1>3, <3>1 DEF SoundScope
    <2>3. QED
      BY <1>1, <1>2, <2>1, <2>2
  <1>6. \A c \in Containers : SoundOwner(c, owner'[c], scopes')
    BY <1>1, <1>4 DEF IInv, SoundOwner
  <1>7. MaxScopes \in Nat /\ n + 1 <= MaxScopes
    BY <1>1, ResourcesAssumption
  <1>8. global' \in Bases \cup (1 .. MaxScopes)
    <2>1. Reachable(scopes) \subseteq Resources
      BY ReachableTyped DEF IInv
    <2>2. n + 1 \in 1 .. MaxScopes
      BY <1>1, <1>7
    <2>3. QED
      BY <2>1, <2>2 DEF Resources
  <1>9. TypeOK'
    BY <1>1, <1>2, <1>7, <1>8 DEF IInv, TypeOK
  <1>10. QED
    BY <1>1, <1>4, <1>5, <1>6, <1>9 DEF IInv

LEMMA ScopeTyped ==
  ASSUME IInv, NEW kind \in {"resource", "counts", "errors"}, NEW through \in SUBSET (1 .. MaxScopes)
  PROVE  LET r == IF kind = "errors" THEN Malloc ELSE global
             s == NewScope(kind, r, through)
         IN  /\ s \in ScopeType /\ "abort" \in s.errors.flags
             /\ s.kind = kind /\ s.found = r /\ s.original = r
             /\ kind = "errors" => s.errors = errors
  <1>1. DefaultErrors \in ErrorSettings /\ "abort" \in DefaultErrors.flags /\ Zero \in Item
    BY DEF Zero, Item, DefaultErrors, ErrorSettings, ErrorFlags, Callbacks
  <1>2. QED
    BY <1>1, ResourcesAssumption DEF IInv, TypeOK, NewScope, ScopeType

LEMMA EnterResourceLemma ==
  ASSUME IInv, NEW r, EnterResource(r)
  PROVE  IInv'
  <1> DEFINE s == NewScope("resource", global, {})
  <1>1. Entered(s) /\ global' = r /\ errors' = errors /\ r \in Reachable(scopes)
    BY DEF EnterResource, Alive, Reachable
  <1>2. {} \in SUBSET (1 .. MaxScopes)
    OBVIOUS
  <1>3. s \in ScopeType /\ "abort" \in s.errors.flags /\ s.found = global /\ s.original = global
    BY <1>2, ScopeTyped
  <1> HIDE DEF s
  <1>4. QED
    BY <1>1, <1>3, EnteredLemma DEF IInv, TypeOK

LEMMA EnterCountsLemma ==
  ASSUME IInv, Careful, NEW m, EnterCounts(m)
  PROVE  IInv'
  <1> DEFINE k == Len(scopes) + 1
             through == Through(m) \cup {k}
             s == NewScope("counts", global, through)
  <1>1. Entered(s) /\ global' = k /\ errors' = errors
    BY DEF EnterCounts
  <1>2. k \in 1 .. MaxScopes
    BY ResourcesAssumption DEF Entered, EnterCounts, IInv, TypeOK
  <1>3. Through(m) \subseteq 1 .. MaxScopes
    <2>1. ASSUME NEW j \in DOMAIN scopes PROVE scopes[j].through \subseteq 1 .. MaxScopes
      <3>1. scopes[j] \in ScopeType
        BY DEF IInv, TypeOK
      <3>2. QED
        BY <3>1 DEF ScopeType
    <2>2. QED
      BY <2>1 DEF Through
  <1>4. through \in SUBSET (1 .. MaxScopes)
    BY <1>2, <1>3
  <1> HIDE DEF through
  <1>5. s \in ScopeType /\ "abort" \in s.errors.flags /\ s.found = global /\ s.original = global
        /\ s.kind = "counts"
    BY <1>4, ScopeTyped
  <1> HIDE DEF s
  <1>6. QED
    BY <1>1, <1>5, EnteredLemma DEF IInv, TypeOK

LEMMA ScopedTyped ==
  ASSUME IInv, ClientsStop, NEW new \in ErrorChoices, NEW e \in ScopedSettings(errors, new)
  PROVE  e \in ErrorSettings /\ "abort" \in e.flags
  <1>1. new \in ErrorSettings /\ "abort" \in new.flags /\ errors \in ErrorSettings
        /\ "abort" \in errors.flags
    BY ResourcesAssumption DEF ClientsStop, IInv, TypeOK
  <1>2. QED
    BY <1>1 DEF ScopedSettings, ErrorSettings

LEMMA EnterErrorsLemma ==
  ASSUME IInv, ClientsStop, NEW new \in ErrorChoices, EnterErrors(new)
  PROVE  IInv'
  <1> DEFINE s == NewScope("errors", Malloc, {})
  <1>1. Entered(s) /\ global' = global /\ errors' \in ScopedSettings(errors, new)
    BY DEF EnterErrors
  <1>2. {} \in SUBSET (1 .. MaxScopes)
    OBVIOUS
  <1>3. s \in ScopeType /\ "abort" \in s.errors.flags /\ s.kind = "errors"
    BY <1>2, ScopeTyped
  <1> HIDE DEF s
  <1>4. QED
    BY <1>1, <1>3, ScopedTyped, EnteredLemma DEF IInv

LEMMA SetLemma ==
  ASSUME IInv, ClientsStop,
         \/ \E r : SetResource(r)
         \/ \E new \in ErrorChoices : SetErrors(new)
  PROVE  IInv'
  <1>1. ASSUME NEW r, SetResource(r) PROVE IInv'
    <2>1. r \in Reachable(scopes) /\ r \in Resources
      BY <1>1, ReachableTyped DEF SetResource, Alive, Reachable, IInv
    <2>2. QED
      BY <1>1, <2>1 DEF SetResource, IInv, TypeOK, Resources
  <1>2. ASSUME NEW new \in ErrorChoices, SetErrors(new) PROVE IInv'
    <2>1. errors' \in ErrorSettings /\ "abort" \in errors'.flags
      BY <1>2, ScopedTyped DEF SetErrors
    <2>2. QED
      BY <1>2, <2>1 DEF SetErrors, IInv, TypeOK
  <1>3. QED
    BY <1>1, <1>2

LEMMA LeaveLemma ==
  ASSUME IInv, Careful, Leave
  PROVE  IInv'
  <1> DEFINE n == Len(scopes)
  <1>1. /\ scopes \in Seq(ScopeType) /\ n \in Nat /\ n > 0 /\ n <= MaxScopes
        /\ DOMAIN scopes = 1 .. n /\ MaxScopes \in Nat
        /\ global' = Restored(scopes[n]) /\ errors' = RestoredErrors(scopes[n])
        /\ balance' = Plus(balance, scopes[n].curr)
        /\ scopes' = SubSeq(scopes, 1, n - 1) /\ UNCHANGED <<owner, pc, handler, faults>>
        /\ \A c \in Containers : owner[c].resource # n
    BY ResourcesAssumption DEF IInv, TypeOK, Leave
  <1>2. /\ scopes' \in Seq(ScopeType) /\ Len(scopes') = n - 1 /\ DOMAIN scopes' = 1 .. n - 1
        /\ \A k \in 1 .. n - 1 : scopes'[k] = scopes[k]
    BY <1>1
  <1>3. scopes[n] \in ScopeType /\ SoundScope(scopes, n)
    BY <1>1 DEF IInv
  <1>4. Counters(scopes') = {j \in Counters(scopes) : j < n}
        /\ (n \in Counters(scopes) <=> scopes[n].kind = "counts")
    BY <1>1, <1>2 DEF Counters
  <1>5. Counters(scopes) \subseteq 1 .. n /\ Reachable(scopes') = Reachable(scopes) \ {n}
    <2>1. Counters(scopes) \subseteq 1 .. n
      BY <1>1 DEF Counters
    <2>2. n \notin Bases
      BY <1>1, ResourcesAssumption
    <2>3. Counters(scopes') = Counters(scopes) \ {n}
      BY <1>1, <1>4, <2>1
    <2>4. QED
      BY <2>1, <2>2, <2>3 DEF Reachable
  <1>6. global' \in Reachable(scopes')
    <2>1. CASE scopes[n].kind = "errors"
      BY <1>1, <1>4, <1>5, <2>1, ResourcesAssumption DEF Restored, IInv, Reachable
    <2>2. CASE scopes[n].kind # "errors"
      BY <1>1, <1>3, <1>4, <2>2 DEF Restored, SoundScope, Reachable
    <2>3. QED
      BY <2>1, <2>2
  <1>7. errors' \in ErrorSettings /\ "abort" \in errors'.flags
    BY <1>1, <1>3 DEF RestoredErrors, SoundScope, ScopeType, IInv, TypeOK
  <1>8. \A k \in DOMAIN scopes' : SoundScope(scopes', k)
    <2>1. ASSUME NEW k \in 1 .. n - 1 PROVE SoundScope(scopes', k)
      <3>1. SoundScope(scopes, k) /\ scopes'[k] = scopes[k] /\ k < n
        BY <1>1, <1>2 DEF IInv
      <3>2. {j \in Counters(scopes) : j < k} \subseteq {j \in Counters(scopes') : j < k}
        BY <1>1, <1>4, <1>5
      <3>3. QED
        BY <3>1, <3>2 DEF SoundScope
    <2>2. QED
      BY <1>2, <2>1
  <1>9. \A c \in Containers : SoundOwner(c, owner'[c], scopes')
    BY <1>1, <1>5 DEF IInv, SoundOwner
  <1>10. balance' \in Item
    BY <1>1, <1>3 DEF Plus, Item, ScopeType, IInv, TypeOK
  <1>11. TypeOK'
    <2>1. global' \in Bases \cup (1 .. MaxScopes)
      BY <1>5, <1>6, ReachableTyped DEF IInv, Resources
    <2>2. QED
      BY <1>1, <1>2, <1>7, <1>10, <2>1 DEF IInv, TypeOK
  <1>12. QED
    BY <1>1, <1>6, <1>7, <1>8, <1>9, <1>11 DEF IInv

LEMMA CatchLemma ==
  ASSUME IInv, Catch
  PROVE  IInv'
  BY ResourcesAssumption DEF IInv, TypeOK, Catch

-----------------------------------------------------------------------------
(* The steps of the containers.                                            *)
Container ==
  \E c \in Containers :
    \/ \E r \in Reachable(scopes) : Construct(c, r)
    \/ \E n \in 1 .. MaxSize : First(c, n) \/ Relocate(c, n) \/ Reallocate(c, n)
    \/ Settle(c) \/ Free(c) \/ Destroy(c)
    \/ \E d \in Containers : MoveAssign(c, d)

LEMMA ContainerLemma ==
  ASSUME IInv, Careful, Container
  PROVE  Quiet /\ IInv'
  <1>1. PICK c \in Containers :
          \/ \E r \in Reachable(scopes) : Construct(c, r)
          \/ \E n \in 1 .. MaxSize : First(c, n) \/ Relocate(c, n) \/ Reallocate(c, n)
          \/ Settle(c) \/ Free(c) \/ Destroy(c)
          \/ \E d \in Containers : MoveAssign(c, d)
    BY DEF Container
  <1>2. ASSUME NEW r \in Reachable(scopes), Construct(c, r) PROVE Quiet /\ IInv'
    BY <1>2, ConstructLemma
  <1>3. ASSUME NEW n \in 1 .. MaxSize, First(c, n) PROVE Quiet /\ IInv'
    BY <1>3, FirstLemma
  <1>4. ASSUME NEW n \in 1 .. MaxSize, Relocate(c, n) PROVE Quiet /\ IInv'
    BY <1>4, RelocateLemma
  <1>5. ASSUME NEW n \in 1 .. MaxSize, Reallocate(c, n) PROVE Quiet /\ IInv'
    BY <1>5, ReallocateLemma
  <1>6. CASE Settle(c) \/ Free(c) \/ Destroy(c)
    BY <1>6, SettleLemma, FreeLemma, DestroyLemma
  <1>7. ASSUME NEW d \in Containers, MoveAssign(c, d) PROVE Quiet /\ IInv'
    BY <1>7, MoveAssignLemma
  <1>8. QED
    BY <1>1, <1>2, <1>3, <1>4, <1>5, <1>6, <1>7

(* A step is one of a container, or sets, enters, leaves or catches.       *)
LEMMA NextCases ==
  ASSUME Next
  PROVE  \/ Container
         \/ \E r \in Reachable(scopes) : EnterResource(r) \/ EnterCounts(r) \/ SetResource(r)
         \/ \E new \in ErrorChoices : EnterErrors(new) \/ SetErrors(new)
         \/ Leave \/ Catch
  BY DEF Next, Container, Reachable

LEMMA StepLemma ==
  ASSUME IInv, Careful, ClientsStop, [Next]_vars
  PROVE  IInv'
  <1>1. CASE UNCHANGED vars
    BY <1>1 DEF vars, IInv, TypeOK, SoundScope, SoundOwner, Reachable, Counters
  <1>2. CASE Next
    <2>1. CASE Container
      BY <2>1, ContainerLemma
    <2>2. ASSUME NEW r, EnterResource(r) \/ EnterCounts(r) \/ SetResource(r) PROVE IInv'
      BY <2>2, EnterResourceLemma, EnterCountsLemma, SetLemma
    <2>3. ASSUME NEW new \in ErrorChoices, EnterErrors(new) \/ SetErrors(new) PROVE IInv'
      BY <2>3, EnterErrorsLemma, SetLemma
    <2>4. CASE Leave \/ Catch
      BY <2>4, LeaveLemma, CatchLemma
    <2>5. QED
      BY <1>2, <2>1, <2>2, <2>3, <2>4, NextCases
  <1>3. QED
    BY <1>1, <1>2

THEOREM Inductive == Careful /\ ClientsStop /\ Spec => []IInv
  <1> SUFFICES ASSUME Careful, ClientsStop PROVE Spec => []IInv
    OBVIOUS
  <1>1. Init => IInv
    BY InitLemma
  <1>2. IInv /\ [Next]_vars => IInv'
    BY StepLemma
  <1>3. QED
    BY <1>1, <1>2, PTL DEF Spec

(* Every variable holds what the code can store in it, for careful clients *)
(* whose error settings end a failed allocation (memory_resource.hpp,      *)
(* allocator.hpp).                                                         *)
THEOREM TypeCorrect == Careful /\ ClientsStop /\ Spec => []TypeOK
  <1>1. IInv => TypeOK
    BY DEF IInv
  <1>2. QED
    BY <1>1, Inductive, PTL

(* For any depth and order of scopes, neither the global resource nor an   *)
(* allocator is a pointer to a counter that is gone (the destructors of    *)
(* memory_resource.hpp; AllocatorBase).                                    *)
THEOREM NeverDangling == Careful /\ ClientsStop /\ Spec => []NoDangling
  <1>1. IInv => NoDangling
    BY DEF IInv, NoDangling, SoundOwner, Exists, Alive, Reachable
  <1>2. QED
    BY <1>1, Inductive, PTL

(* Whatever becomes global between an allocation and the deallocation, the *)
(* block goes back where it came from (Allocator, SmallAllocator).         *)
THEOREM BlocksAlwaysGoHome == Careful /\ ClientsStop /\ Spec => []BlocksGoHome
  <1>1. IInv => BlocksGoHome
    BY DEF IInv, BlocksGoHome
  <1>2. QED
    BY <1>1, Inductive, PTL

-----------------------------------------------------------------------------
(* What ScopedGlobals sees: the globals, and what each scope is to restore. *)
Value == [resource |-> global, errors |-> errors]

SavedBy(s) ==
  IF s.kind = "errors" THEN [global |-> "errors", was |-> s.errors]
  ELSE [global |-> "resource", was |-> s.found]

Found(ss) == [k \in DOMAIN ss |-> SavedBy(ss[k])]

LEMMA FoundSeq ==
  ASSUME NEW ss \in Seq(ScopeType)
  PROVE  /\ Found(ss) \in Seq({SavedBy(s) : s \in ScopeType}) /\ Len(Found(ss)) = Len(ss)
         /\ DOMAIN Found(ss) = 1 .. Len(ss)
         /\ \A k \in 1 .. Len(ss) : Found(ss)[k] = SavedBy(ss[k])
  <1>1. DOMAIN ss = 1 .. Len(ss) /\ Len(ss) \in Nat /\ \A k \in 1 .. Len(ss) : ss[k] \in ScopeType
    OBVIOUS
  <1>2. Found(ss) = [k \in 1 .. Len(ss) |-> SavedBy(ss[k])]
    BY <1>1 DEF Found
  <1>3. Found(ss) \in [1 .. Len(ss) -> {SavedBy(s) : s \in ScopeType}]
    BY <1>1, <1>2
  <1>4. QED
    BY <1>1, <1>2, <1>3

LEMMA FoundAppend ==
  ASSUME NEW ss \in Seq(ScopeType), NEW s \in ScopeType
  PROVE  Found(Append(ss, s)) = Append(Found(ss), SavedBy(s))
  <1> DEFINE n == Len(ss)
             a == Found(Append(ss, s))
             b == Append(Found(ss), SavedBy(s))
  <1>1. Append(ss, s) \in Seq(ScopeType) /\ Len(Append(ss, s)) = n + 1 /\ n \in Nat
        /\ Append(ss, s)[n + 1] = s /\ \A k \in 1 .. n : Append(ss, s)[k] = ss[k]
    OBVIOUS
  <1>2. a \in Seq({SavedBy(t) : t \in ScopeType}) /\ Len(a) = n + 1
        /\ \A k \in 1 .. n + 1 : a[k] = SavedBy(Append(ss, s)[k])
    BY <1>1, FoundSeq
  <1>3. Found(ss) \in Seq({SavedBy(t) : t \in ScopeType}) /\ Len(Found(ss)) = n
        /\ \A k \in 1 .. n : Found(ss)[k] = SavedBy(ss[k])
    BY FoundSeq
  <1> DEFINE f == Found(ss)
             x == SavedBy(s)
  <1> HIDE DEF f, x, a
  <1>4. b \in Seq({SavedBy(t) : t \in ScopeType}) /\ Len(b) = n + 1
        /\ b[n + 1] = SavedBy(s) /\ \A k \in 1 .. n : b[k] = SavedBy(ss[k])
    <2>1. x \in {SavedBy(t) : t \in ScopeType} /\ x = SavedBy(s)
      BY DEF x
    <2>2. QED
      BY <1>1, <1>3, <2>1 DEF f
  <1> HIDE DEF b
  <1>5. \A k \in 1 .. n + 1 : a[k] = b[k]
    BY <1>1, <1>2, <1>4
  <1>6. a = b
    BY <1>2, <1>4, <1>5
  <1>7. QED
    BY <1>6 DEF a, b, f, x

LEMMA FoundRest ==
  ASSUME NEW ss \in Seq(ScopeType), Len(ss) > 0
  PROVE  Found(SubSeq(ss, 1, Len(ss) - 1)) = SubSeq(Found(ss), 1, Len(Found(ss)) - 1)
  <1> DEFINE n == Len(ss)
             rest == SubSeq(ss, 1, n - 1)
             f == Found(ss)
             a == Found(rest)
             b == SubSeq(f, 1, n - 1)
  <1>0. n \in Nat /\ n > 0
    OBVIOUS
  <1>1. rest \in Seq(ScopeType) /\ Len(rest) = n - 1 /\ n \in Nat
        /\ \A k \in 1 .. n - 1 : rest[k] = ss[k]
    <2>0. \A i \in 1 .. n - 1 : ss[i] \in ScopeType
      BY <1>0
    <2>1. rest \in Seq(ScopeType) /\ \A k \in 1 .. n - 1 - 1 + 1 : rest[k] = ss[1 + k - 1]
      BY <1>0, <2>0, SubSeqProperties
    <2>2. Len(rest) = IF 1 <= n - 1 THEN n - 1 - 1 + 1 ELSE 0
      BY <1>0, <2>0, SubSeqProperties
    <2> HIDE DEF rest, n
    <2>3. Len(rest) = n - 1
      BY <1>0, <2>2
    <2>4. ASSUME NEW k \in 1 .. n - 1 PROVE rest[k] = ss[k]
      <3>1. k \in 1 .. n - 1 - 1 + 1 /\ 1 + k - 1 = k
        BY <1>0
      <3>2. QED
        BY <2>1, <3>1
    <2>5. QED
      BY <1>0, <2>1, <2>3, <2>4
  <1>2. a \in Seq({SavedBy(t) : t \in ScopeType}) /\ Len(a) = n - 1
        /\ \A k \in 1 .. n - 1 : a[k] = SavedBy(rest[k])
    BY <1>1, FoundSeq
  <1>3. f \in Seq({SavedBy(t) : t \in ScopeType}) /\ Len(f) = n
        /\ \A k \in 1 .. n : f[k] = SavedBy(ss[k])
    BY FoundSeq
  <1> HIDE DEF rest, f, a
  <1>4. b \in Seq({SavedBy(t) : t \in ScopeType}) /\ Len(b) = n - 1
        /\ \A k \in 1 .. n - 1 : b[k] = f[k]
    BY <1>1, <1>3
  <1> HIDE DEF b
  <1>5. \A k \in 1 .. n - 1 : a[k] = b[k]
    BY <1>1, <1>2, <1>3, <1>4
  <1>6. a = b
    BY <1>2, <1>4, <1>5
  <1>7. QED
    BY <1>3, <1>6 DEF a, b, f, rest

LEMMA FoundAlike ==
  ASSUME NEW ss, NEW tt, Alike(ss, tt)
  PROVE  Found(ss) = Found(tt)
  <1>1. DOMAIN ss = DOMAIN tt
    BY AlikeSound
  <1>2. \A k \in DOMAIN ss : SavedBy(ss[k]) = SavedBy(tt[k])
    BY DEF Alike, SavedBy
  <1>3. QED
    BY <1>1, <1>2 DEF Found

(* The steps of ScopedGlobals in terms of the code's variables.            *)
LEMMA Setting ==
  ASSUME \/ \E r \in Resources : global' = r /\ errors' = errors
         \/ \E e \in ErrorSettings : global' = global /\ errors' = e,
         Found(scopes') = Found(scopes)
  PROVE  Scoping!Next
  <1>1. ASSUME NEW r \in Resources, global' = r, errors' = errors PROVE Scoping!Next
    <2>1. [resource |-> r, errors |-> errors] = [Value EXCEPT !["resource"] = r]
      BY DEF Value
    <2>2. Scoping!Set("resource", r)
      BY <1>1, <2>1 DEF Scoping!Set, Value, Found, SavedBy
    <2>3. QED
      BY <1>1, <2>2 DEF Scoping!Next, Scoping!Globals, Resources
  <1>2. ASSUME NEW e \in ErrorSettings, global' = global, errors' = e PROVE Scoping!Next
    <2>1. [resource |-> global, errors |-> e] = [Value EXCEPT !["errors"] = e]
      BY DEF Value
    <2>2. Scoping!Set("errors", e)
      BY <1>2, <2>1 DEF Scoping!Set, Value, Found, SavedBy
    <2>3. QED
      BY <1>2, <2>2 DEF Scoping!Next, Scoping!Globals
  <1>3. QED
    BY <1>1, <1>2

LEMMA Entering ==
  ASSUME scopes \in Seq(ScopeType), NEW s \in ScopeType, scopes' = Append(scopes, s),
         \/ s.kind # "errors" /\ s.found = global /\ global' \in Resources /\ errors' = errors
         \/ s.kind = "errors" /\ s.errors = errors /\ errors' \in ErrorSettings /\ global' = global
  PROVE  Scoping!Next
  <1>1. Found(scopes') = Append(Found(scopes), SavedBy(s))
    BY FoundAppend
  <1>2. ASSUME NEW r \in Resources, global' = r, s.kind # "errors", s.found = global, errors' = errors
        PROVE  Scoping!Next
    <2>1. Value' = [Value EXCEPT !["resource"] = r]
      BY <1>2 DEF Value
    <2>2. SavedBy(s) = [global |-> "resource", was |-> Value["resource"]]
      BY <1>2 DEF Value, SavedBy
    <2>3. Scoping!Enter("resource", r)
      BY <1>1, <2>1, <2>2 DEF Scoping!Enter, Value, Found, SavedBy
    <2>4. QED
      BY <1>2, <2>3 DEF Scoping!Next, Scoping!Globals, Resources
  <1>3. ASSUME NEW e \in ErrorSettings, errors' = e, s.kind = "errors", s.errors = errors,
               global' = global
        PROVE  Scoping!Next
    <2>1. Value' = [Value EXCEPT !["errors"] = e]
      BY <1>3 DEF Value
    <2>2. SavedBy(s) = [global |-> "errors", was |-> Value["errors"]]
      BY <1>3 DEF Value, SavedBy
    <2>3. Scoping!Enter("errors", e)
      BY <1>1, <2>1, <2>2 DEF Scoping!Enter, Value, Found, SavedBy
    <2>4. QED
      BY <1>3, <2>3 DEF Scoping!Next, Scoping!Globals
  <1>4. QED
    BY <1>2, <1>3

LEMMA Leaving ==
  ASSUME IInv, Leave
  PROVE  Scoping!Next
  <1> DEFINE n == Len(scopes)
             s == SavedBy(scopes[n])
  <1>1. /\ scopes \in Seq(ScopeType) /\ n \in Nat /\ n > 0 /\ n \in DOMAIN scopes
        /\ global' = Restored(scopes[n]) /\ errors' = RestoredErrors(scopes[n])
        /\ scopes' = SubSeq(scopes, 1, n - 1)
    BY DEF IInv, TypeOK, Leave
  <1>2. SoundScope(scopes, n)
    BY <1>1 DEF IInv
  <1>3. Len(Found(scopes)) = n /\ Found(scopes)[n] = s /\ Found(scopes) # <<>>
    <2>1. Len(Found(scopes)) = n /\ Found(scopes)[n] = s
      <3>1. /\ Len(Found(scopes)) = Len(scopes)
            /\ \A k \in 1 .. Len(scopes) : Found(scopes)[k] = SavedBy(scopes[k])
        BY <1>1, FoundSeq
      <3>2. n \in 1 .. Len(scopes)
        BY <1>1
      <3>3. QED
        BY <3>1, <3>2
    <2>2. Len(<<>>) = 0
      OBVIOUS
    <2>3. QED
      BY <1>1, <2>1, <2>2
  <1>4. Found(scopes') = SubSeq(Found(scopes), 1, Len(Found(scopes)) - 1)
    BY <1>1, FoundRest
  <1>5. Value' = [Value EXCEPT ![s.global] = s.was]
    <2>1. CASE scopes[n].kind = "errors"
      BY <1>1, <2>1 DEF Value, SavedBy, Restored, RestoredErrors
    <2>2. CASE scopes[n].kind # "errors"
      BY <1>1, <1>2, <2>2 DEF Value, SavedBy, Restored, RestoredErrors, SoundScope
    <2>3. QED
      BY <2>1, <2>2
  <1>6. Value' = [Value EXCEPT ![Found(scopes)[Len(Found(scopes))].global]
                                 = Found(scopes)[Len(Found(scopes))].was]
    BY <1>3, <1>5
  <1>7. Scoping!Leave
    BY <1>3, <1>4, <1>6 DEF Scoping!Leave, Value, Found, SavedBy
  <1>8. QED
    BY <1>7 DEF Scoping!Next

LEMMA Simulation ==
  ASSUME IInv, IInv', Careful, ClientsStop, [Next]_vars
  PROVE  [Scoping!Next]_<<Value, Found(scopes)>>
  <1>1. CASE UNCHANGED vars
    BY <1>1 DEF vars, Value, Found
  <1>2. CASE Container
    <2>1. Quiet
      BY <1>2, ContainerLemma
    <2>2. Found(scopes') = Found(scopes)
      BY <2>1, FoundAlike DEF Quiet
    <2>3. QED
      BY <2>1, <2>2 DEF Quiet, Value, Found
  <1>3. scopes \in Seq(ScopeType) /\ global' \in Resources /\ errors' \in ErrorSettings
    BY DEF IInv, TypeOK, Resources
  <1>4. ASSUME NEW r, EnterResource(r) PROVE Scoping!Next
    <2> DEFINE s == NewScope("resource", global, {})
    <2>1. s \in ScopeType /\ s.kind = "resource" /\ s.found = global
      BY ScopeTyped
    <2>2. scopes' = Append(scopes, s) /\ errors' = errors
      BY <1>4 DEF EnterResource, Entered
    <2> HIDE DEF s
    <2>3. QED
      BY <1>3, <2>1, <2>2, Entering
  <1>5. ASSUME NEW m, EnterCounts(m) PROVE Scoping!Next
    <2> DEFINE k == Len(scopes) + 1
               s == NewScope("counts", m, Through(m) \cup {k})
    <2>1. scopes' = Append(scopes, s) /\ errors' = errors
      BY <1>5 DEF EnterCounts, Entered
    <2>2. s.kind = "counts" /\ s.found = global
      BY DEF NewScope
    <2>3. scopes'[k] = s /\ k \in DOMAIN scopes'
      BY <1>3, <2>1
    <2>4. s \in ScopeType
      BY <2>3 DEF IInv, TypeOK
    <2> HIDE DEF s
    <2>5. QED
      BY <1>3, <2>1, <2>2, <2>4, Entering
  <1>6. ASSUME NEW new \in ErrorChoices, EnterErrors(new) PROVE Scoping!Next
    <2> DEFINE s == NewScope("errors", Malloc, {})
    <2>1. s \in ScopeType /\ s.kind = "errors" /\ s.errors = errors
      BY ScopeTyped
    <2>2. scopes' = Append(scopes, s) /\ global' = global
      BY <1>6 DEF EnterErrors, Entered
    <2> HIDE DEF s
    <2>3. QED
      BY <1>3, <2>1, <2>2, Entering
  <1>7. ASSUME \/ \E r : SetResource(r)
               \/ \E new \in ErrorChoices : SetErrors(new)
        PROVE  Scoping!Next
    BY <1>3, <1>7, Setting DEF SetResource, SetErrors
  <1>8. CASE Leave
    BY <1>8, Leaving
  <1>9. CASE Catch
    BY <1>9 DEF Catch, Value, Found
  <1>10. CASE Next
    BY <1>2, <1>4, <1>5, <1>6, <1>7, <1>8, <1>9, <1>10, NextCases
  <1>11. QED
    BY <1>1, <1>10

(* When a scope is left, in whatever way and whatever has been set since,  *)
(* the global that it bound is what it found: the three RAII classes       *)
(* implement ScopedGlobals (memory_resource.hpp, error.hpp).               *)
THEOREM ScopesRestore == Careful /\ ClientsStop /\ Spec => ImplementsScopes
  <1> SUFFICES ASSUME Careful, ClientsStop PROVE Spec => ImplementsScopes
    OBVIOUS
  <1>1. Init => Scoping!Init
    <2>1. Init => IInv
      BY InitLemma
    <2>2. Init => Found(scopes) = <<>>
      BY DEF Init, Found
    <2>3. IInv => \A g \in {"resource", "errors"} :
                    Value[g] \in [resource |-> Resources, errors |-> ErrorSettings][g]
      BY DEF IInv, TypeOK, Value, Resources
    <2>4. QED
      BY <2>1, <2>2, <2>3 DEF Scoping!Init, Scoping!Globals, Value, Found, SavedBy, Resources
  <1>2. IInv /\ IInv' /\ [Next]_vars => [Scoping!Next]_<<Value, Found(scopes)>>
    BY Simulation
  <1>3. Spec => []IInv
    BY Inductive
  <1>4. QED
    BY <1>1, <1>2, <1>3, PTL DEF Spec, ImplementsScopes, Scoping!Spec, Value, Found, SavedBy

-----------------------------------------------------------------------------
(* What is counted.  A block weighs on the counters that it came through,  *)
(* and what the blocks of all containers weigh is summed over the places   *)
(* where a container keeps one.                                            *)
Slots == Containers \X {"block", "fresh"}
At(own, x) == own[x[1]][x[2]]

ThroughIn(ss, r) == IF r \in DOMAIN ss THEN ss[r].through ELSE {}
Weight(ss, b, k) ==
  IF k \in ThroughIn(ss, b.via) THEN [allocs |-> 1, size |-> b.size] ELSE Zero

Calls(own, ss, k) == [x \in Slots |-> Weight(ss, At(own, x), k).allocs]
Sizes(own, ss, k) == [x \in Slots |-> Weight(ss, At(own, x), k).size]
Tally(own, ss, k) ==
  [allocs |-> Total(Calls(own, ss, k), Slots), size |-> Total(Sizes(own, ss, k), Slots)]

Owners(own) == \A x \in Slots : At(own, x).size \in Nat

LEMMA SlotsFinite == IsFiniteSet(Slots)
  <1>1. IsFiniteSet(Containers)
    BY ResourcesAssumption
  <1>2. IsFiniteSet({"block", "fresh"})
    <2>1. IsFiniteSet({"block"})
      BY FS_Singleton
    <2>2. {"block"} \cup {"fresh"} = {"block", "fresh"}
      OBVIOUS
    <2> QED
      BY <2>1, <2>2, FS_AddElement
  <1>3. IsFiniteSet(Containers \X {"block", "fresh"})
    BY <1>1, <1>2, FS_Product
  <1> QED
    BY <1>3 DEF Slots

LEMMA WeightsTyped ==
  ASSUME NEW own, Owners(own), NEW ss, NEW k
  PROVE  Calls(own, ss, k) \in [Slots -> Int] /\ Sizes(own, ss, k) \in [Slots -> Int]
  BY DEF Owners, Calls, Sizes, Weight, Zero

LEMMA OwnersTyped ==
  ASSUME NEW own \in [Containers -> [resource : Resources \cup {None},
                                     block : BlockType, fresh : BlockType]]
  PROVE  Owners(own)
  <1> SUFFICES ASSUME NEW c \in Containers, NEW f \in {"block", "fresh"} PROVE own[c][f].size \in Nat
    BY DEF Owners, Slots, At
  <1>1. own[c] \in [resource : Resources \cup {None}, block : BlockType, fresh : BlockType]
    OBVIOUS
  <1>2. own[c].block \in BlockType /\ own[c].fresh \in BlockType
    BY <1>1
  <1>3. own[c][f] \in BlockType
    BY <1>2
  <1>4. MaxSize \in Nat
    BY ResourcesAssumption
  <1> QED
    BY <1>3, <1>4 DEF BlockType

(* The sum in Live, as the fold is defined.                                *)
Folded(own, P) ==
  (CHOOSE iter : iter = [s \in SUBSET P |->
     IF s = {} THEN 0
     ELSE own[(CHOOSE x \in s : TRUE)[1]][(CHOOSE x \in s : TRUE)[2]].size
            + iter[s \ {CHOOSE x \in s : TRUE}]])[P]

Passing(own, ss, k) == {x \in Slots : k \in ThroughIn(ss, At(own, x).via)}

LEMMA FoldedTotal ==
  ASSUME NEW own, Owners(own), NEW ss, NEW k
  PROVE  Folded(own, Passing(own, ss, k)) = Total(Sizes(own, ss, k), Slots)
  <1> DEFINE P == Passing(own, ss, k)
             W == Sizes(own, ss, k)
             a(s) == CHOOSE x \in s : TRUE
             Good(h) == h = [s \in SUBSET P |-> IF s = {} THEN 0
                                                ELSE At(own, a(s)).size + h[s \ {a(s)}]]
  <1>1. P \in SUBSET Slots /\ IsFiniteSet(P) /\ IsFiniteSet(Slots)
    <2>1. P \in SUBSET Slots
      BY DEF Passing
    <2> QED
      BY <2>1, SlotsFinite, FS_Subset
  <1>2. \A x \in P : W[x] = At(own, x).size
    BY DEF Passing, Sizes, Weight
  <1>3. \A x \in Slots \ P : W[x] = 0
    BY DEF Passing, Sizes, Weight, Zero
  <1>4. W \in [Slots -> Int]
    BY WeightsTyped
  <1> HIDE DEF P, W
  <1>5. PICK g : Sums(g, W, Slots)
    BY <1>1, <1>4, SumExists
  <1> DEFINE f == [s \in SUBSET P |-> g[s]]
  <1>6. ASSUME NEW s \in SUBSET P, s # {} PROVE a(s) \in s /\ a(s) \in P
    BY <1>6
  <1>7. Good(f)
    <2>1. ASSUME NEW s \in SUBSET P
          PROVE  f[s] = IF s = {} THEN 0 ELSE At(own, a(s)).size + f[s \ {a(s)}]
      <3>1. CASE s = {}
        BY <1>5, <3>1 DEF Sums
      <3>2. CASE s # {}
        <4>1. a(s) \in s /\ a(s) \in P
          BY <1>6, <3>2
        <4> DEFINE x == a(s)
        <4> HIDE DEF x
        <4>2. x \in s /\ x \in P
          BY <4>1 DEF x
        <4>3. g[s] = W[x] + g[s \ {x}]
          BY <1>1, <1>5, <4>2 DEF Sums
        <4>4. f[s] = g[s] /\ f[s \ {x}] = g[s \ {x}]
          OBVIOUS
        <4>5. f[s] = At(own, x).size + f[s \ {x}]
          BY <1>2, <4>2, <4>3, <4>4
        <4> QED
          BY <3>2, <4>5 DEF x
      <3> QED
        BY <3>1, <3>2
    <2> QED
      BY <2>1
  <1> DEFINE h == CHOOSE h : Good(h)
  <1>8. Good(h)
    <2> HIDE DEF Good, f
    <2> QED
      BY <1>7
  <1>9. ASSUME NEW s \in SUBSET P
        PROVE  h[s] = IF s = {} THEN 0 ELSE At(own, a(s)).size + h[s \ {a(s)}]
    <2> HIDE DEF h
    <2> QED
      BY <1>8
  <1> HIDE DEF h, f, Good
  <1> DEFINE T == {n \in Nat : \A s \in SUBSET P : Cardinality(s) = n => h[s] = g[s]}
  <1>10. ASSUME NEW s \in SUBSET P PROVE IsFiniteSet(s) /\ Cardinality(s) \in Nat
    BY <1>1, FS_Subset, FS_CardinalityType
  <1>11. 0 \in T
    <2>1. ASSUME NEW s \in SUBSET P, Cardinality(s) = 0 PROVE h[s] = g[s]
      <3>1. s = {}
        BY <1>10, <2>1, FS_EmptySet
      <3> QED
        BY <1>5, <1>9, <3>1 DEF Sums
    <2> QED
      BY <2>1
  <1>12. ASSUME NEW n \in Nat, n \in T PROVE n + 1 \in T
    <2>1. ASSUME NEW s \in SUBSET P, Cardinality(s) = n + 1 PROVE h[s] = g[s]
      <3>1. s # {}
        <4>1. Cardinality({}) = 0 /\ n + 1 # 0
          BY FS_EmptySet
        <4> QED
          BY <2>1, <4>1
      <3> DEFINE x == a(s)
      <3>2. h[s] = At(own, x).size + h[s \ {x}] /\ x \in s /\ x \in P
        BY <1>6, <1>9, <3>1
      <3> HIDE DEF x
      <3>3. Cardinality(s \ {x}) = Cardinality(s) - 1
        BY <1>10, <3>2, FS_RemoveElement
      <3>4. Cardinality(s \ {x}) = n /\ s \ {x} \in SUBSET P
        BY <2>1, <3>3
      <3>5. h[s \ {x}] = g[s \ {x}]
        BY <1>12, <3>4
      <3>6. g[s] = W[x] + g[s \ {x}]
        BY <1>1, <1>5, <3>2 DEF Sums
      <3> QED
        BY <1>2, <3>2, <3>5, <3>6
    <2> QED
      BY <2>1
  <1>13. Cardinality(P) \in T
    <2> HIDE DEF T
    <2>1. \A n \in Nat : n \in T
      BY <1>11, <1>12, SetInduction
    <2> QED
      BY <1>10, <2>1
  <1>14. h[P] = g[P]
    BY <1>13
  <1>15. Total(W, Slots) = g[P]
    BY <1>1, <1>3, <1>5, TotalPart
  <1>16. Folded(own, P) = h[P]
    BY DEF Folded, h, Good, At
  <1> QED
    BY <1>14, <1>15, <1>16 DEF P, W

LEMMA PassingTotal ==
  ASSUME NEW own, NEW ss, NEW k
  PROVE  Cardinality(Passing(own, ss, k)) = Total(Calls(own, ss, k), Slots)
  <1> DEFINE P == Passing(own, ss, k)
  <1>1. P \in SUBSET Slots
    BY DEF Passing
  <1>2. Calls(own, ss, k) = [x \in Slots |-> IF x \in P THEN 1 ELSE 0]
    BY DEF Passing, Calls, Weight, Zero
  <1> HIDE DEF P
  <1>3. Cardinality(P) = Total([x \in Slots |-> IF x \in P THEN 1 ELSE 0], Slots)
    BY <1>1, SlotsFinite, CardinalitySum
  <1> QED
    BY <1>2, <1>3 DEF P

(* Live is such a sum, before a step and after it.                         *)
LEMMA LiveTally ==
  ASSUME Owners(owner), NEW k
  PROVE  Live(k) = Tally(owner, scopes, k)
  <1>1. Live(k) = [allocs |-> Cardinality(Passing(owner, scopes, k)),
                   size |-> Folded(owner, Passing(owner, scopes, k))]
    BY DEF Live, Passing, Folded, Slots, At, ThroughIn, Through, MapThenSumSet, MapThenFoldSet
  <1> QED
    BY <1>1, FoldedTotal, PassingTotal DEF Tally

LEMMA LiveTallyNext ==
  ASSUME Owners(owner'), NEW k
  PROVE  Live(k)' = Tally(owner', scopes', k)
  <1>1. Live(k)' = [allocs |-> Cardinality(Passing(owner', scopes', k)),
                    size |-> Folded(owner', Passing(owner', scopes', k))]
    BY DEF Live, Passing, Folded, Slots, At, ThroughIn, Through, MapThenSumSet, MapThenFoldSet
  <1> QED
    BY <1>1, FoldedTotal, PassingTotal DEF Tally

-----------------------------------------------------------------------------
(* How the sum changes.                                                    *)
(* What a call for n objects adds to the counter k, or takes off it.       *)
Share(r, n, k) ==
  IF k \in Through(r) /\ n # 0 THEN [allocs |-> 1, size |-> n] ELSE Zero

(* The objects that a block is counted for.                                *)
Amount(b) == IF b.place = "heap" THEN b.size ELSE 0

LEMMA WeightShare ==
  ASSUME IInv, NEW c, NEW r, NEW b, SoundBlock(c, r, b), NEW k
  PROVE  Weight(scopes, b, k) = Share(r, Amount(b), k)
  <1>1. None \notin DOMAIN scopes
    BY ResourcesAssumption, ReachableTyped DEF IInv
  <1>2. CASE b.place = "heap"
    <2>1. b.via = r /\ b.size # 0
      BY <1>2, ResourcesAssumption DEF SoundBlock, BlockType
    <2> QED
      BY <1>2, <2>1 DEF Weight, Share, Amount, ThroughIn, Through
  <1>3. CASE b.place # "heap"
    <2>1. b.via = None
      BY <1>3 DEF SoundBlock, BlockType, NoBlock
    <2> QED
      BY <1>1, <1>3, <2>1 DEF Weight, Share, Amount, ThroughIn, Through
  <1> QED
    BY <1>2, <1>3

(* Two items of which each part of the one is that of the other.           *)
Shifted(new, old, off, on) ==
  /\ new.allocs = old.allocs - off.allocs + on.allocs
  /\ new.size = old.size - off.size + on.size

LEMMA TallyChanges ==
  ASSUME NEW own, NEW new, Owners(own), Owners(new), NEW ss, NEW k,
         NEW x \in Slots, NEW y \in Slots, x # y,
         \A z \in Slots \ {x, y} : At(new, z) = At(own, z)
  PROVE  LET off == Plus(Weight(ss, At(own, x), k), Weight(ss, At(own, y), k))
             on == Plus(Weight(ss, At(new, x), k), Weight(ss, At(new, y), k))
         IN  Shifted(Tally(new, ss, k), Tally(own, ss, k), off, on)
  <1> DEFINE A == Calls(own, ss, k)
             B == Calls(new, ss, k)
             C == Sizes(own, ss, k)
             D == Sizes(new, ss, k)
  <1>1. A \in [Slots -> Int] /\ B \in [Slots -> Int] /\ C \in [Slots -> Int] /\ D \in [Slots -> Int]
    BY WeightsTyped
  <1>2. \A z \in Slots \ {x, y} : B[z] = A[z] /\ D[z] = C[z]
    BY DEF Calls, Sizes
  <1>3. /\ A[x] = Weight(ss, At(own, x), k).allocs /\ A[y] = Weight(ss, At(own, y), k).allocs
        /\ B[x] = Weight(ss, At(new, x), k).allocs /\ B[y] = Weight(ss, At(new, y), k).allocs
        /\ C[x] = Weight(ss, At(own, x), k).size /\ C[y] = Weight(ss, At(own, y), k).size
        /\ D[x] = Weight(ss, At(new, x), k).size /\ D[y] = Weight(ss, At(new, y), k).size
    BY DEF Calls, Sizes
  <1>4. Tally(own, ss, k) = [allocs |-> Total(A, Slots), size |-> Total(C, Slots)]
        /\ Tally(new, ss, k) = [allocs |-> Total(B, Slots), size |-> Total(D, Slots)]
    BY DEF Tally
  <1> HIDE DEF A, B, C, D
  <1>5. Total(B, Slots) = Total(A, Slots) - A[x] - A[y] + B[x] + B[y]
    BY <1>1, <1>2, SlotsFinite, TotalChanges
  <1>6. Total(D, Slots) = Total(C, Slots) - C[x] - C[y] + D[x] + D[y]
    BY <1>1, <1>2, SlotsFinite, TotalChanges
  <1>7. Total(A, Slots) \in Int /\ Total(C, Slots) \in Int
    <2>1. PICK g : Sums(g, A, Slots)
      BY <1>1, SlotsFinite, SumExists
    <2>2. PICK h : Sums(h, C, Slots)
      BY <1>1, SlotsFinite, SumExists
    <2> QED
      BY <2>1, <2>2, SlotsFinite, TotalSum
  <1>8. A[x] \in Int /\ A[y] \in Int /\ B[x] \in Int /\ B[y] \in Int
        /\ C[x] \in Int /\ C[y] \in Int /\ D[x] \in Int /\ D[y] \in Int
    BY <1>1
  <1> QED
    BY <1>3, <1>4, <1>5, <1>6, <1>7, <1>8 DEF Shifted, Plus

LEMMA TallyTyped ==
  ASSUME NEW own, Owners(own), NEW ss, NEW k
  PROVE  Tally(own, ss, k) \in Item
  <1>1. Calls(own, ss, k) \in [Slots -> Int] /\ Sizes(own, ss, k) \in [Slots -> Int]
    BY WeightsTyped
  <1>2. PICK g : Sums(g, Calls(own, ss, k), Slots)
    BY <1>1, SlotsFinite, SumExists
  <1>3. PICK h : Sums(h, Sizes(own, ss, k), Slots)
    BY <1>1, SlotsFinite, SumExists
  <1>4. Total(Calls(own, ss, k), Slots) \in Int /\ Total(Sizes(own, ss, k), Slots) \in Int
    BY <1>2, <1>3, SlotsFinite, TotalSum
  <1> QED
    BY <1>4 DEF Tally, Item

(* A counter through which no block came counts none.                      *)
LEMMA TallyZero ==
  ASSUME NEW own, NEW ss, NEW k, \A x \in Slots : k \notin ThroughIn(ss, At(own, x).via)
  PROVE  Tally(own, ss, k) = Zero
  <1> DEFINE W == [x \in Slots |-> 0]
             g == [A \in SUBSET Slots |-> 0]
  <1>1. Calls(own, ss, k) = W /\ Sizes(own, ss, k) = W
    BY DEF Calls, Sizes, Weight, Zero
  <1>2. Sums(g, W, Slots)
    BY DEF Sums
  <1>3. g[Slots] = 0
    OBVIOUS
  <1> HIDE DEF W, g
  <1>4. Total(W, Slots) = 0
    BY <1>2, <1>3, SlotsFinite, TotalSum
  <1> QED
    BY <1>1, <1>4 DEF Tally, Zero

(* Scopes that differ where no block came through count the same.          *)
LEMMA TallySame ==
  ASSUME NEW own, NEW ss, NEW tt, NEW k,
         \A x \in Slots : ThroughIn(ss, At(own, x).via) = ThroughIn(tt, At(own, x).via)
  PROVE  Tally(own, ss, k) = Tally(own, tt, k)
  BY DEF Tally, Calls, Sizes, Weight

(* A step of a container takes a block of gone objects off the counters of *)
(* r, and adds one of come to them.                                        *)
Effect(r, gone, come) ==
  /\ scopes' = Counted(r, gone, come)
  /\ \A k \in DOMAIN scopes :
       Shifted(Tally(owner', scopes, k), Tally(owner, scopes, k),
               Share(r, gone, k), Share(r, come, k))

LEMMA CountedNothing ==
  ASSUME scopes \in Seq(ScopeType), NEW r
  PROVE  Counted(r, 0, 0) = scopes
  <1>1. ASSUME NEW k \in DOMAIN scopes PROVE Recounted(scopes[k], 0, 0) = scopes[k]
    <2>1. scopes[k] \in ScopeType
      OBVIOUS
    <2> QED
      BY <2>1 DEF Recounted, ScopeType
  <1>2. scopes = [k \in DOMAIN scopes |-> scopes[k]]
    OBVIOUS
  <1>3. Counted(r, 0, 0) = [k \in DOMAIN scopes |-> scopes[k]]
    BY <1>1 DEF Counted
  <1> QED
    BY <1>2, <1>3

LEMMA ShareTyped ==
  ASSUME NEW r, NEW n \in Nat, NEW k
  PROVE  Share(r, n, k).allocs \in Nat /\ Share(r, n, k).size \in Nat
  BY DEF Share, Zero

(* What becomes of a container's two blocks is all that the counters see.  *)
LEMMA BlocksWeigh ==
  ASSUME IInv, IInv', NEW c \in Containers, NEW o, owner' = [owner EXCEPT ![c] = o], NEW k
  PROVE  Shifted(Tally(owner', scopes, k), Tally(owner, scopes, k),
                 Plus(Weight(scopes, owner[c].block, k), Weight(scopes, owner[c].fresh, k)),
                 Plus(Weight(scopes, o.block, k), Weight(scopes, o.fresh, k)))
  <1> DEFINE x == <<c, "block">>
             y == <<c, "fresh">>
  <1>1. x \in Slots /\ y \in Slots /\ x # y
    BY DEF Slots
  <1>2. /\ owner \in [Containers -> [resource : Resources \cup {None}, block : BlockType, fresh : BlockType]]
        /\ owner' \in [Containers -> [resource : Resources \cup {None}, block : BlockType, fresh : BlockType]]
    BY DEF IInv, TypeOK, Resources
  <1>3. Owners(owner) /\ Owners(owner')
    BY <1>2, OwnersTyped
  <1>4. ASSUME NEW z \in Slots \ {x, y} PROVE At(owner', z) = At(owner, z)
    <2>1. PICK d \in Containers, f \in {"block", "fresh"} : z = <<d, f>>
      BY DEF Slots
    <2>2. d # c
      BY <2>1
    <2>3. owner'[d] = owner[d]
      BY <1>2, <2>2
    <2> QED
      BY <2>1, <2>3 DEF At
  <1>5. owner'[c] = o
    BY <1>2
  <1>6. At(owner, x) = owner[c].block /\ At(owner, y) = owner[c].fresh
        /\ At(owner', x) = o.block /\ At(owner', y) = o.fresh
    BY <1>5 DEF At
  <1> HIDE DEF x, y
  <1> QED
    BY <1>1, <1>3, <1>4, <1>6, TallyChanges

LEMMA AmountTyped ==
  ASSUME NEW c, NEW r, NEW b, SoundBlock(c, r, b)
  PROVE  Amount(b) \in Nat
  BY ResourcesAssumption DEF SoundBlock, BlockType, Amount

LEMMA NoBlockAmount == Amount(NoBlock) = 0
  BY DEF Amount, NoBlock

LEMMA DeallocatedCounts ==
  ASSUME IInv, NEW c \in Containers, NEW r, NEW b, SoundBlock(c, r, b), Deallocated(c, b)
  PROVE  scopes' = Counted(Resource(c), Amount(b), 0)
  <1>1. scopes \in Seq(ScopeType)
    BY DEF IInv, TypeOK
  <1>2. Counted(Resource(c), 0, 0) = scopes
    BY <1>1, CountedNothing
  <1> QED
    BY <1>2 DEF Deallocated, Amount

(* A container with blocks of the amounts a and b, and of m and n after    *)
(* the step, has got a block, or let go of its first one, or replaced it.  *)
Exchange(a, b, m, n, gone, come) ==
  \/ gone = 0 /\ m = a /\ b = 0 /\ n = come
  \/ gone = 0 /\ n = b /\ a = 0 /\ m = come
  \/ gone = a /\ come = 0 /\ m = b /\ n = 0
  \/ gone = a /\ b = 0 /\ m = come /\ n = 0

LEMMA OneEffect ==
  ASSUME IInv, IInv', NEW c \in Containers, NEW o, owner' = [owner EXCEPT ![c] = o], NEW r,
         SoundBlock(c, r, owner[c].block), SoundBlock(c, r, owner[c].fresh),
         SoundBlock(c, r, o.block), SoundBlock(c, r, o.fresh),
         NEW gone \in Nat, NEW come \in Nat, scopes' = Counted(r, gone, come),
         Exchange(Amount(owner[c].block), Amount(owner[c].fresh), Amount(o.block), Amount(o.fresh),
                  gone, come)
  PROVE  Effect(r, gone, come)
  <1> SUFFICES ASSUME NEW k \in DOMAIN scopes
               PROVE  Shifted(Tally(owner', scopes, k), Tally(owner, scopes, k),
                              Share(r, gone, k), Share(r, come, k))
    BY DEF Effect
  <1> DEFINE a == Amount(owner[c].block)
             b == Amount(owner[c].fresh)
             m == Amount(o.block)
             n == Amount(o.fresh)
             S(i) == Share(r, i, k)
  <1>1. Shifted(Tally(owner', scopes, k), Tally(owner, scopes, k), Plus(S(a), S(b)), Plus(S(m), S(n)))
    <2>1. /\ Weight(scopes, owner[c].block, k) = S(a) /\ Weight(scopes, owner[c].fresh, k) = S(b)
          /\ Weight(scopes, o.block, k) = S(m) /\ Weight(scopes, o.fresh, k) = S(n)
      BY WeightShare
    <2> QED
      BY <2>1, BlocksWeigh
  <1>2. a \in Nat /\ b \in Nat /\ m \in Nat /\ n \in Nat
    BY AmountTyped
  <1>3. Exchange(a, b, m, n, gone, come)
    OBVIOUS
  <1> HIDE DEF a, b, m, n
  <1>4. S(0) = Zero
    BY DEF Share
  <1>5. Tally(owner, scopes, k) \in Item
    <2>1. Owners(owner)
      BY OwnersTyped DEF IInv, TypeOK, Resources
    <2> QED
      BY <2>1, TallyTyped
  <1>6. /\ S(a).allocs \in Nat /\ S(a).size \in Nat /\ S(b).allocs \in Nat /\ S(b).size \in Nat
        /\ S(m).allocs \in Nat /\ S(m).size \in Nat /\ S(n).allocs \in Nat /\ S(n).size \in Nat
    BY <1>2, ShareTyped
  <1> HIDE DEF S
  <1>7. Shifted(Tally(owner', scopes, k), Tally(owner, scopes, k), S(gone), S(come))
    BY <1>1, <1>3, <1>4, <1>5, <1>6 DEF Exchange, Shifted, Plus, Zero, Item
  <1> QED
    BY <1>7 DEF S

-----------------------------------------------------------------------------
(* What the steps of the containers do to the counters.                    *)
SomeEffect ==
  \/ pc' = "abort"
  \/ \E r : \E gone \in Nat, come \in Nat : Effect(r, gone, come)

LEMMA SoundBlocks ==
  ASSUME IInv, NEW c \in Containers
  PROVE  SoundBlock(c, Resource(c), owner[c].block) /\ SoundBlock(c, Resource(c), owner[c].fresh)
  <1>1. CASE Exists(c)
    BY <1>1, ResourceAlive
  <1>2. CASE ~Exists(c)
    BY <1>2, NoBlockSound DEF Exists, NoOwner
  <1> QED
    BY <1>1, <1>2

LEMMA ConstructEffect ==
  ASSUME IInv, IInv', NEW c \in Containers, NEW r, Construct(c, r)
  PROVE  SomeEffect
  <1> DEFINE o == [NoOwner EXCEPT !.resource = r]
  <1>1. /\ owner' = [owner EXCEPT ![c] = o] /\ owner[c] = NoOwner /\ scopes' = scopes
        /\ scopes \in Seq(ScopeType)
    BY DEF Construct, Exists, IInv, TypeOK
  <1>2. /\ owner[c].block = NoBlock /\ owner[c].fresh = NoBlock /\ o.block = NoBlock /\ o.fresh = NoBlock
    BY <1>1 DEF NoOwner
  <1>3. scopes' = Counted(r, 0, 0)
    BY <1>1, CountedNothing
  <1> HIDE DEF o
  <1>4. /\ SoundBlock(c, r, owner[c].block) /\ SoundBlock(c, r, owner[c].fresh)
        /\ SoundBlock(c, r, o.block) /\ SoundBlock(c, r, o.fresh)
    BY <1>2, NoBlockSound
  <1>5. Exchange(Amount(owner[c].block), Amount(owner[c].fresh), Amount(o.block), Amount(o.fresh), 0, 0)
    BY <1>2, NoBlockAmount DEF Exchange
  <1>6. Effect(r, 0, 0)
    BY <1>1, <1>3, <1>4, <1>5, OneEffect
  <1> QED
    BY <1>6 DEF SomeEffect

LEMMA UntouchedEffect ==
  ASSUME IInv, IInv', UNCHANGED <<owner, scopes>>
  PROVE  SomeEffect
  <1>1. scopes \in Seq(ScopeType) /\ Owners(owner)
    BY OwnersTyped DEF IInv, TypeOK, Resources
  <1>2. scopes' = Counted(None, 0, 0)
    BY <1>1, CountedNothing
  <1>3. ASSUME NEW k
        PROVE  Shifted(Tally(owner', scopes, k), Tally(owner, scopes, k),
                       Share(None, 0, k), Share(None, 0, k))
    <2>1. Tally(owner, scopes, k) \in Item
      BY <1>1, TallyTyped
    <2> QED
      BY <2>1 DEF Shifted, Share, Zero, Item
  <1> QED
    BY <1>2, <1>3 DEF Effect, SomeEffect

LEMMA AllocateEffect ==
  ASSUME IInv, IInv', NEW c \in Containers, NEW n \in 1 .. MaxSize, NEW slot \in {"block", "fresh"},
         owner[c][slot] = NoBlock, Allocate(c, n, slot)
  PROVE  SomeEffect
  <1> DEFINE r == Resource(c)
  <1>0. /\ n \in Nat /\ scopes \in Seq(ScopeType)
        /\ owner \in [Containers -> [resource : Resources \cup {None}, block : BlockType, fresh : BlockType]]
        /\ owner' \in [Containers -> [resource : Resources \cup {None}, block : BlockType, fresh : BlockType]]
    BY DEF IInv, TypeOK, Resources
  <1>1. ASSUME NEW b, owner' = [owner EXCEPT ![c][slot] = b], SoundBlock(c, r, b),
               NEW come \in Nat, Amount(b) = come, scopes' = Counted(r, 0, come)
        PROVE  SomeEffect
    <2> DEFINE o == [owner[c] EXCEPT ![slot] = b]
    <2>1. owner' = [owner EXCEPT ![c] = o]
      BY <1>1
    <2>2. SoundBlock(c, r, owner[c].block) /\ SoundBlock(c, r, owner[c].fresh)
      BY SoundBlocks
    <2>3. owner[c] \in [resource : Resources \cup {None}, block : BlockType, fresh : BlockType]
      BY <1>0
    <2>4. /\ slot = "block" => o.block = b /\ o.fresh = owner[c].fresh
          /\ slot = "fresh" => o.fresh = b /\ o.block = owner[c].block
      BY <2>3
    <2> HIDE DEF o, r
    <2>5. SoundBlock(c, r, o.block) /\ SoundBlock(c, r, o.fresh)
      BY <1>1, <2>2, <2>4
    <2>6. Exchange(Amount(owner[c].block), Amount(owner[c].fresh), Amount(o.block), Amount(o.fresh),
                   0, come)
      <3>1. CASE slot = "block"
        BY <1>1, <2>4, <3>1, NoBlockAmount DEF Exchange
      <3>2. CASE slot = "fresh"
        BY <1>1, <2>4, <3>2, NoBlockAmount DEF Exchange
      <3> QED
        BY <3>1, <3>2
    <2>7. Effect(r, 0, come)
      BY <1>1, <2>1, <2>2, <2>5, <2>6, OneEffect
    <2> QED
      BY <2>7 DEF SomeEffect
  <1>2. CASE owner' = [owner EXCEPT ![c][slot] = InPlace(n)] /\ scopes' = scopes
             /\ InArray(c, n)
    <2>1. SoundBlock(c, r, InPlace(n))
      BY <1>0, <1>2, ResourcesAssumption DEF SoundBlock, InPlace, BlockType
    <2>2. Amount(InPlace(n)) = 0
      BY DEF Amount, InPlace
    <2>3. scopes' = Counted(r, 0, 0)
      BY <1>0, <1>2, CountedNothing
    <2> DEFINE b == InPlace(n)
    <2>4. owner' = [owner EXCEPT ![c][slot] = b]
      BY <1>2
    <2>5. 0 \in Nat
      OBVIOUS
    <2> HIDE DEF r, b
    <2>6. SoundBlock(c, r, b) /\ Amount(b) = 0
      BY <2>1, <2>2 DEF b
    <2> QED
      BY <1>1, <2>3, <2>4, <2>5, <2>6
  <1>3. CASE owner' = [owner EXCEPT ![c][slot] = Heap(r, n)] /\ scopes' = Counted(r, 0, n)
    <2>1. owner'[c][slot] = Heap(r, n)
      <3>1. owner[c] \in [resource : Resources \cup {None}, block : BlockType, fresh : BlockType]
        BY <1>0
      <3> QED
        BY <1>0, <1>3, <3>1
    <2>2. SoundBlock(c, Resource(c)', owner'[c][slot])
      <3>1. SoundBlock(c, Resource(c)', owner'[c].block) /\ SoundBlock(c, Resource(c)', owner'[c].fresh)
        <4>1. CASE owner'[c] = NoOwner
          BY <4>1, NoBlockSound DEF NoOwner
        <4>2. CASE owner'[c] # NoOwner
          BY <4>2 DEF IInv, SoundOwner, Resource
        <4> QED
          BY <4>1, <4>2
      <3> QED
        BY <3>1
    <2>3. Resource(c)' = r
      <3>1. owner[c] \in [resource : Resources \cup {None}, block : BlockType, fresh : BlockType]
        BY <1>0
      <3> QED
        BY <1>0, <1>3, <3>1 DEF Resource
    <2>4. Amount(Heap(r, n)) = n
      BY DEF Amount, Heap
    <2> QED
      BY <1>0, <1>1, <1>3, <2>1, <2>2, <2>3, <2>4
  <1>4. CASE UNCHANGED <<owner, scopes>>
    BY <1>4, UntouchedEffect
  <1> QED
    BY <1>2, <1>3, <1>4 DEF Allocate

(* A container lets go of the block it has, and has the blocks of o.       *)
LEMMA LetGoEffect ==
  ASSUME IInv, IInv', NEW c \in Containers, NEW o, owner' = [owner EXCEPT ![c] = o],
         Deallocated(c, owner[c].block),
         o.block = owner[c].fresh \/ (o.block = NoBlock /\ owner[c].fresh = NoBlock),
         o.fresh = NoBlock
  PROVE  SomeEffect
  <1> DEFINE r == Resource(c)
             gone == Amount(owner[c].block)
  <1>1. SoundBlock(c, r, owner[c].block) /\ SoundBlock(c, r, owner[c].fresh)
    BY SoundBlocks
  <1>2. SoundBlock(c, r, o.block) /\ SoundBlock(c, r, o.fresh)
    BY <1>1, NoBlockSound
  <1>3. gone \in Nat /\ 0 \in Nat
    BY <1>1, AmountTyped
  <1>4. scopes' = Counted(r, gone, 0)
    BY <1>1, DeallocatedCounts
  <1>5. Exchange(gone, Amount(owner[c].fresh), Amount(o.block), Amount(o.fresh), gone, 0)
    BY NoBlockAmount DEF Exchange
  <1> HIDE DEF r
  <1>6. Effect(r, gone, 0)
    BY <1>1, <1>2, <1>3, <1>4, <1>5, OneEffect
  <1> HIDE DEF gone
  <1> QED
    BY <1>3, <1>6 DEF SomeEffect

LEMMA ReleaseEffect ==
  ASSUME IInv, IInv', NEW c \in Containers, Settle(c) \/ Free(c) \/ Destroy(c)
  PROVE  SomeEffect
  <1>1. CASE Settle(c)
    <2> DEFINE o == [resource |-> Resource(c), block |-> owner[c].fresh, fresh |-> NoBlock]
    <2>1. owner' = [owner EXCEPT ![c] = o] /\ Deallocated(c, owner[c].block)
      BY <1>1 DEF Settle
    <2>2. o.block = owner[c].fresh /\ o.fresh = NoBlock
      OBVIOUS
    <2> HIDE DEF o
    <2> QED
      BY <2>1, <2>2, LetGoEffect
  <1>2. CASE Free(c)
    <2> DEFINE o == [owner[c] EXCEPT !.block = NoBlock]
    <2>1. owner' = [owner EXCEPT ![c] = o] /\ Deallocated(c, owner[c].block)
          /\ owner[c].fresh = NoBlock
      BY <1>2 DEF Free, Running, Settled
    <2>2. owner[c] \in [resource : Resources \cup {None}, block : BlockType, fresh : BlockType]
      BY DEF IInv, TypeOK, Resources
    <2>3. o.block = NoBlock /\ o.fresh = NoBlock
      BY <2>1, <2>2
    <2> HIDE DEF o
    <2> QED
      BY <2>1, <2>3, LetGoEffect
  <1>3. CASE Destroy(c)
    <2>1. owner' = [owner EXCEPT ![c] = NoOwner] /\ Deallocated(c, owner[c].block)
          /\ owner[c].fresh = NoBlock
      BY <1>3 DEF Destroy, Settled
    <2>2. NoOwner.block = NoBlock /\ NoOwner.fresh = NoBlock
      BY DEF NoOwner
    <2> QED
      BY <2>1, <2>2, LetGoEffect
  <1> QED
    BY <1>1, <1>2, <1>3

LEMMA ReallocateEffect ==
  ASSUME IInv, IInv', Careful, NEW c \in Containers, NEW n \in 1 .. MaxSize, Reallocate(c, n)
  PROVE  SomeEffect
  <1> DEFINE b == owner[c].block
             r == Resource(c)
  <1>1. /\ b # NoBlock /\ owner[c].fresh = NoBlock
        /\ IF InArray(c, n) \/ InArray(c, b.size) THEN ReallocateSmall(c, n) ELSE ReallocateHeap(c, n)
    BY DEF Reallocate, Running, Settled
  <1>2. SoundBlock(c, r, b) /\ SoundBlock(c, r, owner[c].fresh)
    BY SoundBlocks
  <1>3. owner[c] \in [resource : Resources \cup {None}, block : BlockType, fresh : BlockType]
        /\ owner \in [Containers -> [resource : Resources \cup {None}, block : BlockType, fresh : BlockType]]
    BY DEF IInv, TypeOK, Resources
  <1>4. Amount(b) \in Nat /\ n \in Nat /\ 0 \in Nat
    BY <1>2, AmountTyped
  <1>5. ASSUME NEW x, owner' = [owner EXCEPT ![c].block = x],
               NEW come \in Nat, Amount(x) = come, scopes' = Counted(r, Amount(b), come)
        PROVE  SomeEffect
    <2> DEFINE o == [owner[c] EXCEPT !.block = x]
    <2>1. owner' = [owner EXCEPT ![c] = o]
      BY <1>5
    <2>2. o.block = x /\ o.fresh = NoBlock /\ o.resource = owner[c].resource
      BY <1>1, <1>3
    <2>3. owner'[c] = o
      BY <1>3, <2>1
    <2> HIDE DEF o
    <2>4. SoundBlock(c, r, o.block) /\ SoundBlock(c, r, o.fresh)
      <3>1. CASE o = NoOwner
        BY <3>1, NoBlockSound DEF NoOwner
      <3>2. CASE o # NoOwner
        BY <2>2, <2>3, <3>2 DEF IInv, SoundOwner, Resource
      <3> QED
        BY <3>1, <3>2
    <2>5. Exchange(Amount(b), Amount(owner[c].fresh), Amount(o.block), Amount(o.fresh), Amount(b), come)
      BY <1>1, <1>5, <2>2, NoBlockAmount DEF Exchange
    <2> HIDE DEF r
    <2>6. Effect(r, Amount(b), come)
      BY <1>2, <1>4, <1>5, <2>1, <2>4, <2>5, OneEffect
    <2> HIDE DEF b
    <2> QED
      BY <1>4, <1>5, <2>6 DEF SomeEffect
  <1>6. CASE InArray(c, n)
    <2> DEFINE x == InPlace(n)
    <2>1. owner' = [owner EXCEPT ![c].block = x] /\ Deallocated(c, b)
      BY <1>1, <1>6 DEF ReallocateSmall
    <2>2. Amount(x) = 0
      BY DEF Amount, InPlace
    <2>3. scopes' = Counted(r, Amount(b), 0)
      BY <1>2, <2>1, DeallocatedCounts
    <2> HIDE DEF x, b, r
    <2> QED
      BY <1>4, <1>5, <2>1, <2>2, <2>3
  <1>7. CASE ~InArray(c, n) /\ InArray(c, b.size)
    <2> DEFINE x == Heap(r, n)
    <2>1. \/ owner' = [owner EXCEPT ![c].block = x] /\ scopes' = Counted(r, 0, n)
          \/ UNCHANGED <<owner, scopes>>
      BY <1>1, <1>7 DEF ReallocateSmall
    <2>2. Amount(b) = 0
      BY <1>2, <1>7 DEF SoundBlock, Amount
    <2>3. Amount(x) = n
      BY DEF Amount, Heap
    <2> HIDE DEF x, b, r
    <2> QED
      BY <1>4, <1>5, <2>1, <2>2, <2>3, UntouchedEffect
  <1>8. CASE ~InArray(c, n) /\ ~InArray(c, b.size)
    <2>1. ReallocateHeap(c, n)
      BY <1>1, <1>8
    <2>2. CASE owner' = [owner EXCEPT ![c].block = Heap(r, n)]
               /\ scopes' = Counted(r, b.size, n)
      <3> DEFINE x == Heap(r, n)
      <3>1. b.place = "heap"
        BY <1>1, <1>2, <1>8 DEF SoundBlock, BlockType
      <3>2. Amount(b) = b.size /\ Amount(x) = n
        BY <3>1 DEF Amount, Heap
      <3>3. owner' = [owner EXCEPT ![c].block = x]
        BY <2>2
      <3> HIDE DEF x, b, r
      <3> QED
        BY <1>4, <1>5, <2>2, <3>2, <3>3
    <2>3. CASE Failed
      BY <2>1, <2>3 DEF Failed, ReallocateHeap, SomeEffect
    <2> QED
      BY <2>1, <2>2, <2>3 DEF ReallocateHeap
  <1> QED
    BY <1>6, <1>7, <1>8

LEMMA MoveAssignEffect ==
  ASSUME IInv, IInv', NEW c \in Containers, NEW d \in Containers, MoveAssign(c, d)
  PROVE  SomeEffect
  <1> DEFINE r == Resource(c)
             gone == Amount(owner[c].block)
             x == <<c, "block">>
             y == <<d, "block">>
  <1>1. /\ c # d /\ owner[c].fresh = NoBlock /\ owner[d].fresh = NoBlock
        /\ Deallocated(c, owner[c].block)
        /\ owner' = [owner EXCEPT ![c] = owner[d], ![d] = [owner[d] EXCEPT !.block = NoBlock]]
    BY DEF MoveAssign, Running, Settled, IInv, TypeOK
  <1>2. SoundBlock(c, r, owner[c].block)
    BY SoundBlocks
  <1>3. gone \in Nat /\ scopes' = Counted(r, gone, 0)
    BY <1>1, <1>2, AmountTyped, DeallocatedCounts
  <1>4. /\ owner \in [Containers -> [resource : Resources \cup {None}, block : BlockType, fresh : BlockType]]
        /\ owner' \in [Containers -> [resource : Resources \cup {None}, block : BlockType, fresh : BlockType]]
    BY DEF IInv, TypeOK, Resources
  <1>5. Owners(owner) /\ Owners(owner')
    BY <1>4, OwnersTyped
  <1>6. x \in Slots /\ y \in Slots /\ x # y
    BY <1>1 DEF Slots
  <1>7. /\ owner'[c] = owner[d] /\ owner'[d].block = NoBlock /\ owner'[d].fresh = NoBlock
        /\ \A e \in Containers \ {c, d} : owner'[e] = owner[e]
    <2>1. owner'[c] = owner[d] /\ owner'[d] = [owner[d] EXCEPT !.block = NoBlock]
          /\ \A e \in Containers \ {c, d} : owner'[e] = owner[e]
      BY <1>1, <1>4
    <2>2. owner[d] \in [resource : Resources \cup {None}, block : BlockType, fresh : BlockType]
      BY <1>4
    <2>3. [owner[d] EXCEPT !.block = NoBlock].block = NoBlock
          /\ [owner[d] EXCEPT !.block = NoBlock].fresh = NoBlock
      BY <1>1, <2>2
    <2> QED
      BY <2>1, <2>3
  <1>8. ASSUME NEW z \in Slots \ {x, y} PROVE At(owner', z) = At(owner, z)
    <2>1. PICK e \in Containers, f \in {"block", "fresh"} : z = <<e, f>>
      BY DEF Slots
    <2>2. CASE e \in {c, d}
      <3>1. f = "fresh"
        BY <2>1, <2>2
      <3>2. owner'[e].fresh = owner[e].fresh
        BY <1>1, <1>7, <2>2
      <3> QED
        BY <2>1, <3>1, <3>2 DEF At
    <2>3. CASE e \notin {c, d}
      BY <1>7, <2>1, <2>3 DEF At
    <2> QED
      BY <2>2, <2>3
  <1>9. /\ At(owner, x) = owner[c].block /\ At(owner, y) = owner[d].block
        /\ At(owner', x) = owner[d].block /\ At(owner', y) = NoBlock
    BY <1>7 DEF At
  <1> HIDE DEF x, y
  <1>10. ASSUME NEW k \in DOMAIN scopes
         PROVE  Shifted(Tally(owner', scopes, k), Tally(owner, scopes, k),
                        Share(r, gone, k), Share(r, 0, k))
    <2> DEFINE v == Weight(scopes, owner[c].block, k)
               w == Weight(scopes, owner[d].block, k)
               t == Tally(owner, scopes, k)
               u == Tally(owner', scopes, k)
    <2>1. Shifted(u, t, Plus(v, w), Plus(w, Weight(scopes, NoBlock, k)))
      BY <1>5, <1>6, <1>8, <1>9, TallyChanges
    <2>2. v = Share(r, gone, k) /\ Weight(scopes, NoBlock, k) = Zero /\ Share(r, 0, k) = Zero
      BY <1>2, WeightShare, NoBlockSound, NoBlockAmount DEF Share
    <2>3. t \in Item
      BY <1>5, TallyTyped
    <2>4. v.allocs \in Nat /\ v.size \in Nat
      BY <1>3, <2>2, ShareTyped
    <2>5. w.allocs \in Int /\ w.size \in Int
      <3>1. SoundBlock(d, Resource(d), owner[d].block)
        BY SoundBlocks
      <3>2. w = Share(Resource(d), Amount(owner[d].block), k) /\ Amount(owner[d].block) \in Nat
        BY <3>1, WeightShare, AmountTyped
      <3> QED
        BY <3>2, ShareTyped
    <2> HIDE DEF v, w, t, u, r, gone
    <2>6. Shifted(u, t, v, Zero)
      BY <2>1, <2>2, <2>3, <2>4, <2>5 DEF Shifted, Plus, Zero, Item
    <2> QED
      BY <2>2, <2>6 DEF t, u
  <1>11. Effect(r, gone, 0)
    BY <1>3, <1>10 DEF Effect
  <1>12. 0 \in Nat
    OBVIOUS
  <1> HIDE DEF r, gone
  <1> QED
    BY <1>3, <1>11, <1>12 DEF SomeEffect

-----------------------------------------------------------------------------
(* The invariant of the counters: until the program aborts, each counts    *)
(* what weighs on it, and its maximum is no less.  A scope that is no      *)
(* counter counts nothing, and nothing comes through a later scope.        *)
Balanced(s, t) == s.curr = t /\ t.allocs <= s.max.allocs /\ t.size <= s.max.size

BInv ==
  /\ \A k \in DOMAIN scopes : scopes[k].through \subseteq 1 .. k
  /\ pc # "abort" => \A k \in DOMAIN scopes : Balanced(scopes[k], Tally(owner, scopes, k))
  /\ balance = Zero

Peak ==
  pc' # "abort" =>
    \A k \in DOMAIN scopes \cap DOMAIN scopes' :
      scopes'[k].max = MaxOf(scopes[k].max, Tally(owner', scopes', k))

(* The maximum that does not rise.                                         *)
LEMMA StillMax ==
  ASSUME NEW m \in Item, NEW t \in Item, t.allocs <= m.allocs, t.size <= m.size
  PROVE  MaxOf(m, t) = m
  BY DEF MaxOf, Larger, Item

LEMMA RecountedBalanced ==
  ASSUME NEW s \in ScopeType, NEW t, NEW u \in Item, Balanced(s, t),
         NEW gone \in Nat, NEW come \in Nat, NEW k, NEW r, k \in Through(r),
         Shifted(u, t, Share(r, gone, k), Share(r, come, k))
  PROVE  /\ Balanced(Recounted(s, gone, come), u)
         /\ Recounted(s, gone, come).max = MaxOf(s.max, u)
  <1> DEFINE c == IF gone = 0 THEN s.curr ELSE Rem(s.curr, gone)
             d == IF come = 0 THEN c ELSE Add(c, come)
             m == IF come = 0 THEN s.max ELSE MaxOf(s.max, d)
  <1>1. s.curr \in Item /\ s.max \in Item
    BY DEF ScopeType
  <1>2. c = [allocs |-> t.allocs - Share(r, gone, k).allocs, size |-> t.size - Share(r, gone, k).size]
    <2>1. CASE gone = 0
      BY <1>1, <2>1 DEF Balanced, Share, Zero, Item
    <2>2. CASE gone # 0
      BY <1>1, <2>2 DEF Balanced, Share, Rem, Item
    <2> QED
      BY <2>1, <2>2
  <1>3. c \in Item
    BY <1>1 DEF Rem, Item
  <1>4. d \in Item
    BY <1>3 DEF Add, Item
  <1>5. d.allocs = c.allocs + Share(r, come, k).allocs /\ d.size = c.size + Share(r, come, k).size
    BY <1>3 DEF Add, Item, Share, Zero
  <1>6. Recounted(s, gone, come) = [s EXCEPT !.curr = d, !.max = m]
    BY DEF Recounted
  <1> HIDE DEF c, d
  <1>7. d = u
    BY <1>2, <1>4, <1>5 DEF Shifted, Item
  <1>8. come = 0 => u.allocs <= s.max.allocs /\ u.size <= s.max.size
    <2>1. SUFFICES ASSUME come = 0 PROVE u.allocs <= s.max.allocs /\ u.size <= s.max.size
      OBVIOUS
    <2>2. Share(r, come, k) = Zero
      BY <2>1 DEF Share
    <2>3. Share(r, gone, k).allocs \in Nat /\ Share(r, gone, k).size \in Nat
      BY ShareTyped
    <2> QED
      BY <1>1, <2>2, <2>3 DEF Balanced, Shifted, Zero, Item
  <1>9. m = MaxOf(s.max, u)
    BY <1>1, <1>7, <1>8, StillMax
  <1>10. u.allocs <= m.allocs /\ u.size <= m.size
    BY <1>1, <1>9 DEF MaxOf, Larger, Item
  <1>11. Recounted(s, gone, come).curr = d /\ Recounted(s, gone, come).max = m
    <2> HIDE DEF m
    <2> QED
      BY <1>6 DEF ScopeType
  <1> HIDE DEF m
  <1> QED
    BY <1>7, <1>9, <1>10, <1>11 DEF Balanced

LEMMA EffectLemma ==
  ASSUME IInv, IInv', BInv, pc # "abort", Quiet, SomeEffect
  PROVE  BInv' /\ Peak
  <1>1. Alike(scopes, scopes') /\ balance' = balance
    BY DEF Quiet
  <1>2. /\ DOMAIN scopes' = DOMAIN scopes
        /\ \A k \in DOMAIN scopes : scopes'[k].through = scopes[k].through
    BY <1>1, AlikeSound DEF Alike
  <1>3. (\A k \in DOMAIN scopes' : scopes'[k].through \subseteq 1 .. k) /\ balance' = Zero
    BY <1>1, <1>2 DEF BInv
  <1>4. CASE pc' = "abort"
    BY <1>3, <1>4 DEF BInv, Peak
  <1>5. ASSUME NEW r, NEW gone \in Nat, NEW come \in Nat, Effect(r, gone, come)
        PROVE  \A k \in DOMAIN scopes :
                 /\ Balanced(scopes'[k], Tally(owner', scopes', k))
                 /\ scopes'[k].max = MaxOf(scopes[k].max, Tally(owner', scopes', k))
    <2> SUFFICES ASSUME NEW k \in DOMAIN scopes
                 PROVE  /\ Balanced(scopes'[k], Tally(owner', scopes', k))
                        /\ scopes'[k].max = MaxOf(scopes[k].max, Tally(owner', scopes', k))
      OBVIOUS
    <2> DEFINE s == scopes[k]
               t == Tally(owner, scopes, k)
               u == Tally(owner', scopes', k)
    <2>1. Tally(owner', scopes, k) = u
      <3>1. \A x : ThroughIn(scopes', x) = ThroughIn(scopes, x)
        BY <1>2 DEF ThroughIn
      <3> QED
        BY <3>1, TallySame
    <2>2. Shifted(u, t, Share(r, gone, k), Share(r, come, k))
      BY <1>5, <2>1 DEF Effect
    <2>3. s \in ScopeType /\ scopes'[k] = IF k \in Through(r) THEN Recounted(s, gone, come) ELSE s
      BY <1>5 DEF Effect, Counted, IInv, TypeOK
    <2>4. Balanced(s, t)
      BY DEF BInv
    <2>5. t \in Item /\ u \in Item
      <3>1. /\ owner \in [Containers -> [resource : Resources \cup {None}, block : BlockType, fresh : BlockType]]
            /\ owner' \in [Containers -> [resource : Resources \cup {None}, block : BlockType, fresh : BlockType]]
        BY DEF IInv, TypeOK, Resources
      <3>2. Owners(owner) /\ Owners(owner')
        BY <3>1, OwnersTyped
      <3> QED
        BY <3>2, TallyTyped
    <2> HIDE DEF s, t, u
    <2>6. CASE k \in Through(r)
      <3>1. Balanced(Recounted(s, gone, come), u) /\ Recounted(s, gone, come).max = MaxOf(s.max, u)
        BY <2>2, <2>3, <2>4, <2>5, <2>6, RecountedBalanced
      <3> QED
        BY <2>3, <2>6, <3>1 DEF s, u
    <2>7. CASE k \notin Through(r)
      <3>1. Share(r, gone, k) = Zero /\ Share(r, come, k) = Zero
        BY <2>7 DEF Share
      <3>2. u = t
        BY <2>2, <2>5, <3>1 DEF Shifted, Zero, Item
      <3>3. scopes'[k] = s /\ s.max \in Item
        BY <2>3, <2>7 DEF ScopeType
      <3>4. MaxOf(s.max, u) = s.max
        BY <2>4, <2>5, <3>2, <3>3, StillMax DEF Balanced
      <3> QED
        BY <2>4, <3>2, <3>3, <3>4 DEF s, u
    <2> QED
      BY <2>6, <2>7
  <1>6. CASE pc' # "abort"
    <2>0. PICK r : \E gone \in Nat, come \in Nat : Effect(r, gone, come)
      BY <1>6 DEF SomeEffect
    <2>1. PICK gone \in Nat, come \in Nat : Effect(r, gone, come)
      BY <2>0
    <2>2. \A k \in DOMAIN scopes :
            /\ Balanced(scopes'[k], Tally(owner', scopes', k))
            /\ scopes'[k].max = MaxOf(scopes[k].max, Tally(owner', scopes', k))
      BY <1>5, <2>1
    <2>3. BInv'
      BY <1>2, <1>3, <2>2 DEF BInv
    <2> QED
      BY <2>2, <2>3 DEF Peak
  <1> QED
    BY <1>4, <1>6

LEMMA ContainerBalance ==
  ASSUME IInv, BInv, Careful, Container
  PROVE  BInv' /\ Peak
  <1>1. Quiet /\ IInv'
    BY ContainerLemma
  <1>2. PICK c \in Containers :
          \/ \E r \in Reachable(scopes) : Construct(c, r)
          \/ \E n \in 1 .. MaxSize : First(c, n) \/ Relocate(c, n) \/ Reallocate(c, n)
          \/ Settle(c) \/ Free(c) \/ Destroy(c)
          \/ \E d \in Containers : MoveAssign(c, d)
    BY DEF Container
  <1>3. pc # "abort"
    BY <1>2 DEF Construct, First, Relocate, Reallocate, Settle, Free, Destroy, MoveAssign, Running
  <1>4. SomeEffect
    <2>1. ASSUME NEW r, Construct(c, r) PROVE SomeEffect
      BY <1>1, <2>1, ConstructEffect
    <2>2. ASSUME NEW n \in 1 .. MaxSize, First(c, n) PROVE SomeEffect
      <3>1. owner[c].block = NoBlock /\ Allocate(c, n, "block")
        BY <2>2 DEF First
      <3>2. owner[c]["block"] = NoBlock
        BY <3>1
      <3> QED
        BY <1>1, <3>1, <3>2, AllocateEffect
    <2>3. ASSUME NEW n \in 1 .. MaxSize, Relocate(c, n) PROVE SomeEffect
      <3>1. owner[c].fresh = NoBlock /\ Allocate(c, n, "fresh")
        BY <2>3 DEF Relocate, Running, Settled
      <3>2. owner[c]["fresh"] = NoBlock
        BY <3>1
      <3> QED
        BY <1>1, <3>1, <3>2, AllocateEffect
    <2>4. ASSUME NEW n \in 1 .. MaxSize, Reallocate(c, n) PROVE SomeEffect
      BY <1>1, <2>4, ReallocateEffect
    <2>5. CASE Settle(c) \/ Free(c) \/ Destroy(c)
      BY <1>1, <2>5, ReleaseEffect
    <2>6. ASSUME NEW d \in Containers, MoveAssign(c, d) PROVE SomeEffect
      BY <1>1, <2>6, MoveAssignEffect
    <2> QED
      BY <1>2, <2>1, <2>2, <2>3, <2>4, <2>5, <2>6
  <1> QED
    BY <1>1, <1>3, <1>4, EffectLemma

-----------------------------------------------------------------------------
(* The steps of the scopes.                                                *)

(* A block is of no resource, or of one that can be reached.               *)
LEMMA ViasReachable ==
  ASSUME IInv, NEW x \in Slots
  PROVE  \/ At(owner, x).via = None
         \/ \E c \in Containers : /\ owner[c].resource \in Reachable(scopes)
                                  /\ At(owner, x).via = owner[c].resource
  <1>1. PICK c \in Containers, f \in {"block", "fresh"} : x = <<c, f>>
    BY DEF Slots
  <1>2. At(owner, x) = owner[c][f]
    BY <1>1 DEF At
  <1>3. CASE Exists(c)
    <2>1. owner[c].resource \in Reachable(scopes) /\ Resource(c) = owner[c].resource
      BY <1>3, ResourceAlive DEF Alive, Reachable, Resource
    <2>2. SoundBlock(c, owner[c].resource, owner[c].block)
          /\ SoundBlock(c, owner[c].resource, owner[c].fresh)
      BY <1>3, <2>1, ResourceAlive
    <2>3. SoundBlock(c, owner[c].resource, owner[c][f])
      BY <2>2
    <2>4. owner[c][f].via = None \/ owner[c][f].via = owner[c].resource
      BY <2>3 DEF SoundBlock, BlockType, NoBlock
    <2> QED
      BY <1>2, <2>1, <2>4
  <1>4. CASE ~Exists(c)
    <2>1. owner[c].block = NoBlock /\ owner[c].fresh = NoBlock
      BY <1>4 DEF Exists, NoOwner
    <2>2. owner[c][f] = NoBlock
      BY <2>1
    <2> QED
      BY <1>2, <2>2 DEF NoBlock
  <1> QED
    BY <1>3, <1>4

LEMMA EnteredBalance ==
  ASSUME IInv, IInv', BInv, NEW s, Entered(s), s.curr = Zero, s.max = Zero,
         s.through \subseteq 1 .. Len(scopes) + 1
  PROVE  BInv' /\ Peak
  <1> DEFINE n == Len(scopes)
  <1>1. /\ scopes \in Seq(ScopeType) /\ n \in Nat /\ DOMAIN scopes = 1 .. n /\ pc = "run"
        /\ scopes' = Append(scopes, s) /\ UNCHANGED <<owner, balance, pc, handler, faults>>
    BY DEF IInv, TypeOK, Entered, Running
  <1>2. /\ DOMAIN scopes' = 1 .. n + 1 /\ scopes'[n + 1] = s
        /\ \A k \in 1 .. n : scopes'[k] = scopes[k]
    <2>1. Len(scopes') = n + 1 /\ scopes' \in Seq(ScopeType)
      BY <1>1 DEF IInv, TypeOK
    <2> QED
      BY <1>1, <2>1
  <1>3. ASSUME NEW x \in Slots
        PROVE  /\ ThroughIn(scopes', At(owner, x).via) = ThroughIn(scopes, At(owner, x).via)
               /\ n + 1 \notin ThroughIn(scopes, At(owner, x).via)
    <2> DEFINE v == At(owner, x).via
    <2>1. v # n + 1
      <3>1. CASE v = None
        BY <1>1, <3>1, ResourcesAssumption
      <3>2. CASE v \in Reachable(scopes)
        BY <1>1, <3>2, ResourcesAssumption DEF Reachable, Counters
      <3> QED
        BY <3>1, <3>2, ViasReachable
    <2>2. ThroughIn(scopes', v) = ThroughIn(scopes, v)
      BY <1>1, <1>2, <2>1 DEF ThroughIn
    <2>3. n + 1 \notin ThroughIn(scopes, v)
      <3>1. CASE v \in DOMAIN scopes
        <4>1. scopes[v].through \subseteq 1 .. v /\ v \in 1 .. n
          BY <1>1, <3>1 DEF BInv
        <4> QED
          BY <1>1, <3>1, <4>1 DEF ThroughIn
      <3>2. CASE v \notin DOMAIN scopes
        BY <3>2 DEF ThroughIn
      <3> QED
        BY <3>1, <3>2
    <2> QED
      BY <2>2, <2>3
  <1>4. \A k : Tally(owner, scopes', k) = Tally(owner, scopes, k)
    BY <1>3, TallySame
  <1>5. Tally(owner, scopes, n + 1) = Zero
    BY <1>3, TallyZero
  <1>6. Balanced(s, Zero)
    BY DEF Balanced, Zero
  <1>7. ASSUME NEW k \in 1 .. n + 1
        PROVE  /\ scopes'[k].through \subseteq 1 .. k
               /\ Balanced(scopes'[k], Tally(owner', scopes', k))
    <2>1. CASE k = n + 1
      BY <1>1, <1>2, <1>4, <1>5, <1>6, <2>1
    <2>2. CASE k \in 1 .. n
      BY <1>1, <1>2, <1>4, <2>2 DEF BInv
    <2> QED
      BY <1>1, <2>1, <2>2
  <1>8. BInv'
    BY <1>1, <1>2, <1>7 DEF BInv
  <1>9. ASSUME NEW k \in 1 .. n
        PROVE  scopes'[k].max = MaxOf(scopes[k].max, Tally(owner', scopes', k))
    <2>1. Balanced(scopes[k], Tally(owner, scopes, k)) /\ scopes[k] \in ScopeType
      BY <1>1 DEF BInv
    <2>2. scopes[k].max \in Item /\ Tally(owner, scopes, k) \in Item
      BY <2>1 DEF ScopeType, Balanced
    <2>3. MaxOf(scopes[k].max, Tally(owner, scopes, k)) = scopes[k].max
      BY <2>1, <2>2, StillMax DEF Balanced
    <2> QED
      BY <1>1, <1>2, <1>4, <2>3
  <1>10. DOMAIN scopes \cap DOMAIN scopes' = 1 .. n
    BY <1>1, <1>2
  <1> QED
    BY <1>8, <1>9, <1>10 DEF Peak

LEMMA LeaveBalance ==
  ASSUME IInv, IInv', BInv, Careful, Leave
  PROVE  BInv' /\ Peak
  <1> DEFINE n == Len(scopes)
  <1>1. /\ scopes \in Seq(ScopeType) /\ n \in Nat /\ n > 0 /\ DOMAIN scopes = 1 .. n /\ pc # "abort"
        /\ balance' = Plus(balance, scopes[n].curr) /\ UNCHANGED <<owner, pc, handler, faults>>
        /\ scopes' = SubSeq(scopes, 1, n - 1)
        /\ \A c \in Containers : owner[c].resource # n
    BY DEF IInv, TypeOK, Leave
  <1>2. DOMAIN scopes' = 1 .. n - 1 /\ \A k \in 1 .. n - 1 : scopes'[k] = scopes[k]
    <2>1. Len(scopes') = n - 1 /\ scopes' \in Seq(ScopeType)
      BY <1>1 DEF IInv, TypeOK
    <2> QED
      BY <1>1, <2>1
  <1>3. ASSUME NEW x \in Slots
        PROVE  /\ ThroughIn(scopes', At(owner, x).via) = ThroughIn(scopes, At(owner, x).via)
               /\ n \notin ThroughIn(scopes, At(owner, x).via)
    <2> DEFINE v == At(owner, x).via
    <2>1. v # n
      BY <1>1, ViasReachable, ResourcesAssumption
    <2>2. ThroughIn(scopes', v) = ThroughIn(scopes, v)
      BY <1>1, <1>2, <2>1 DEF ThroughIn
    <2>3. n \notin ThroughIn(scopes, v)
      <3>1. CASE v \in DOMAIN scopes
        <4>1. scopes[v].through \subseteq 1 .. v /\ v \in 1 .. n
          BY <1>1, <3>1 DEF BInv
        <4> QED
          BY <1>1, <2>1, <3>1, <4>1 DEF ThroughIn
      <3>2. CASE v \notin DOMAIN scopes
        BY <3>2 DEF ThroughIn
      <3> QED
        BY <3>1, <3>2
    <2> QED
      BY <2>2, <2>3
  <1>4. \A k : Tally(owner, scopes', k) = Tally(owner, scopes, k)
    BY <1>3, TallySame
  <1>5. Tally(owner, scopes, n) = Zero
    BY <1>3, TallyZero
  <1>6. balance' = Zero
    <2>1. n \in DOMAIN scopes
      BY <1>1
    <2>2. Balanced(scopes[n], Zero)
      BY <1>1, <1>5, <2>1 DEF BInv
    <2>3. balance = Zero
      BY DEF BInv
    <2> QED
      BY <1>1, <2>2, <2>3 DEF Balanced, Plus, Zero
  <1>7. ASSUME NEW k \in 1 .. n - 1
        PROVE  /\ scopes'[k].through \subseteq 1 .. k
               /\ Balanced(scopes'[k], Tally(owner', scopes', k))
               /\ scopes'[k].max = MaxOf(scopes[k].max, Tally(owner', scopes', k))
    <2>1. k \in DOMAIN scopes /\ scopes'[k] = scopes[k]
      BY <1>1, <1>2
    <2>2. /\ scopes[k].through \subseteq 1 .. k /\ Balanced(scopes[k], Tally(owner, scopes, k))
          /\ scopes[k] \in ScopeType
      BY <1>1, <2>1 DEF BInv
    <2>3. scopes[k].max \in Item /\ Tally(owner, scopes, k) \in Item
      BY <2>2 DEF ScopeType, Balanced
    <2>4. MaxOf(scopes[k].max, Tally(owner, scopes, k)) = scopes[k].max
      BY <2>2, <2>3, StillMax DEF Balanced
    <2> QED
      BY <1>1, <1>4, <2>1, <2>2, <2>4
  <1>8. BInv'
    BY <1>2, <1>6, <1>7 DEF BInv
  <1>9. DOMAIN scopes \cap DOMAIN scopes' = 1 .. n - 1
    BY <1>1, <1>2
  <1> QED
    BY <1>7, <1>8, <1>9 DEF Peak

(* A step that leaves the scopes and the containers alone.                 *)
LEMMA StillBalance ==
  ASSUME IInv, BInv, UNCHANGED <<scopes, owner, balance>>, pc = "abort" => pc' = "abort"
  PROVE  BInv' /\ Peak
  <1>1. BInv'
    BY DEF BInv
  <1>2. ASSUME pc' # "abort", NEW k \in DOMAIN scopes
        PROVE  scopes'[k].max = MaxOf(scopes[k].max, Tally(owner', scopes', k))
    <2>1. Balanced(scopes[k], Tally(owner, scopes, k)) /\ scopes[k] \in ScopeType
      BY <1>2 DEF BInv, IInv, TypeOK
    <2>2. scopes[k].max \in Item /\ Tally(owner, scopes, k) \in Item
      BY <2>1 DEF ScopeType, Balanced
    <2>3. MaxOf(scopes[k].max, Tally(owner, scopes, k)) = scopes[k].max
      BY <2>1, <2>2, StillMax DEF Balanced
    <2> QED
      BY <2>3
  <1> QED
    BY <1>1, <1>2 DEF Peak

LEMMA ScopesBalance ==
  ASSUME IInv, IInv', BInv, Careful,
         \/ \E r : EnterResource(r) \/ EnterCounts(r) \/ SetResource(r)
         \/ \E new : EnterErrors(new) \/ SetErrors(new)
         \/ Leave \/ Catch
  PROVE  BInv' /\ Peak
  <1>0. Len(scopes) \in Nat
    BY DEF IInv, TypeOK
  <1>1. ASSUME NEW r, EnterResource(r) PROVE BInv' /\ Peak
    <2> DEFINE s == NewScope("resource", global, {})
    <2>1. Entered(s)
      BY <1>1 DEF EnterResource
    <2>2. s.curr = Zero /\ s.max = Zero /\ s.through = {}
      BY DEF NewScope
    <2> HIDE DEF s
    <2> QED
      BY <2>1, <2>2, EnteredBalance
  <1>2. ASSUME NEW m, EnterCounts(m) PROVE BInv' /\ Peak
    <2> DEFINE k == Len(scopes) + 1
               s == NewScope("counts", m, Through(m) \cup {k})
    <2>1. Entered(s)
      BY <1>2 DEF EnterCounts
    <2>2. s.curr = Zero /\ s.max = Zero /\ s.through = Through(m) \cup {k}
      BY DEF NewScope
    <2>3. Through(m) \subseteq 1 .. k
      <3>1. CASE m \in DOMAIN scopes
        <4>1. m \in 1 .. Len(scopes) /\ scopes[m].through \subseteq 1 .. m
          BY <3>1 DEF BInv, IInv, TypeOK
        <4> QED
          BY <1>0, <3>1, <4>1 DEF Through
      <3>2. CASE m \notin DOMAIN scopes
        BY <3>2 DEF Through
      <3> QED
        BY <3>1, <3>2
    <2>4. k \in 1 .. k
      BY <1>0
    <2> HIDE DEF s, k
    <2>5. s.through \subseteq 1 .. k
      BY <2>2, <2>3, <2>4
    <2> USE DEF k
    <2> QED
      BY <2>1, <2>2, <2>5, EnteredBalance
  <1>3. ASSUME NEW new, EnterErrors(new) PROVE BInv' /\ Peak
    <2> DEFINE s == NewScope("errors", Malloc, {})
    <2>1. Entered(s)
      BY <1>3 DEF EnterErrors
    <2>2. s.curr = Zero /\ s.max = Zero /\ s.through = {}
      BY DEF NewScope
    <2> HIDE DEF s
    <2> QED
      BY <2>1, <2>2, EnteredBalance
  <1>4. ASSUME NEW r, SetResource(r) PROVE BInv' /\ Peak
    BY <1>4, StillBalance DEF SetResource
  <1>5. ASSUME NEW new, SetErrors(new) PROVE BInv' /\ Peak
    BY <1>5, StillBalance DEF SetErrors
  <1>6. CASE Leave
    BY <1>6, LeaveBalance
  <1>7. CASE Catch
    BY <1>7, StillBalance DEF Catch
  <1> QED
    BY <1>1, <1>2, <1>3, <1>4, <1>5, <1>6, <1>7

LEMMA BalanceStep ==
  ASSUME IInv, BInv, Careful, ClientsStop, [Next]_vars
  PROVE  BInv' /\ Peak
  <1>1. CASE UNCHANGED vars
    BY <1>1, StillBalance DEF vars
  <1>2. CASE Next
    <2>1. IInv'
      BY StepLemma
    <2> QED
      BY <1>2, <2>1, NextCases, ContainerBalance, ScopesBalance
  <1> QED
    BY <1>1, <1>2

LEMMA BalanceInit == Init => BInv
  <1>1. DOMAIN <<>> = {}
    OBVIOUS
  <1> QED
    BY <1>1 DEF Init, BInv

THEOREM BalanceInductive == Careful /\ ClientsStop /\ Spec => [](IInv /\ BInv) /\ [][Peak]_vars
  <1> SUFFICES ASSUME Careful, ClientsStop PROVE Spec => [](IInv /\ BInv) /\ [][Peak]_vars
    OBVIOUS
  <1>1. Init => IInv /\ BInv
    BY InitLemma, BalanceInit
  <1>2. IInv /\ BInv /\ [Next]_vars => IInv' /\ BInv' /\ Peak
    BY StepLemma, BalanceStep
  <1> QED
    BY <1>1, <1>2, PTL DEF Spec

LEMMA OwnersKnown == IInv => Owners(owner)
  BY OwnersTyped DEF IInv, TypeOK, Resources

(* A counter counts the blocks that came through it and are still there,   *)
(* also those of counters nested in it, of containers that have been moved *)
(* and after allocations that failed, for any number of containers and any *)
(* depth of scopes (MemoryResourceCounts, allocator.hpp).                  *)
THEOREM CountersBalance == Careful /\ ClientsStop /\ Spec => []CountsBalance
  <1>1. IInv /\ BInv => CountsBalance
    <2> SUFFICES ASSUME IInv, BInv, pc # "abort", NEW k \in Counters(scopes)
                 PROVE  scopes[k].curr = Live(k)
      BY DEF CountsBalance
    <2>1. k \in DOMAIN scopes
      BY DEF Counters
    <2>2. Live(k) = Tally(owner, scopes, k)
      BY OwnersKnown, LiveTally
    <2> QED
      BY <2>1, <2>2 DEF BInv, Balanced
  <1> QED
    BY <1>1, BalanceInductive, PTL

(* A counter that goes out of scope has nothing left to hand on to the     *)
(* counts of its thread (~MemoryResourceCounts).                           *)
THEOREM CountersCloseEmpty == Careful /\ ClientsStop /\ Spec => []ClosedBalanced
  <1>1. BInv => ClosedBalanced
    BY DEF BInv, ClosedBalanced
  <1> QED
    BY <1>1, BalanceInductive, PTL

(* No step takes the maximum of a counter beyond the most that there was   *)
(* at one time, and none misses it: a block that is reallocated is not     *)
(* there twice (add_counts and rem_counts of memory_resource.hpp).         *)
THEOREM MaximaArePeaks == Careful /\ ClientsStop /\ Spec => MaxTracksPeak
  <1> SUFFICES ASSUME Careful, ClientsStop PROVE Spec => MaxTracksPeak
    OBVIOUS
  <1>1. IInv' /\ Peak =>
          \A k \in Counters(scopes) \cap Counters(scopes') :
            pc' # "abort" => scopes'[k].max = MaxOf(scopes[k].max, Live(k)')
    <2> SUFFICES ASSUME IInv', Peak, NEW k \in Counters(scopes) \cap Counters(scopes'), pc' # "abort"
                 PROVE  scopes'[k].max = MaxOf(scopes[k].max, Live(k)')
      OBVIOUS
    <2>1. k \in DOMAIN scopes \cap DOMAIN scopes'
      BY DEF Counters
    <2>2. owner' \in [Containers -> [resource : Resources \cup {None}, block : BlockType, fresh : BlockType]]
      BY DEF IInv, TypeOK, Resources
    <2>3. Live(k)' = Tally(owner', scopes', k)
      BY <2>2, OwnersTyped, LiveTallyNext
    <2> QED
      BY <2>1, <2>3 DEF Peak
  <1>2. Spec => [](IInv /\ BInv) /\ [][Peak]_vars
    BY BalanceInductive
  <1> QED
    BY <1>1, <1>2, PTL DEF MaxTracksPeak

=============================================================================
