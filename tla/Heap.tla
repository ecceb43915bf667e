-------------------------------- MODULE Heap --------------------------------
(***************************************************************************)
(* The kernel heap: direct_alloc and direct_free of kernel/src/memory.rs   *)
(* over the slub allocator of memory/slub.rs and the buddy allocator.      *)
(* Callers keep what they were given (live) and give it back once.  The    *)
(* locks are IrqLocks, taken in the order slub, buddy, so every call is    *)
(* one step.  A FrameInfo's BuddyList and SlabList share memory: a slab's  *)
(* frame has no order, and a frame that is not a slab has no SlabList.     *)
(***************************************************************************)
EXTENDS Buddy

CONSTANTS
  FRAME_SIZE,
  SIZE_CLASSES,   \* object sizes of the slab caches, ascending
  Layouts,        \* layouts callers ask for, [size, align]
  Ranges,         \* ranges handed to buddy_add_range, <<first, end>>;
                  \* bootstrap::init keeps frame 0 reserved
  MaxLive         \* bound: allocations a caller holds

ASSUME HeapAssumption ==
  /\ FRAME_SIZE \in Nat /\ MaxLive \in Nat
  /\ \A r \in Ranges : r[1] \in Frame \ {0} /\ r[2] \in 1 .. NFrames /\ r[1] < r[2]
  /\ \A r, s \in Ranges : r # s => r[2] <= s[1] \/ s[2] <= r[1]

VARIABLES
  buddy,    \* BUDDY_ALLOCATOR and the FrameInfos it uses
  slab,     \* the SlabList of each frame: its cache and its free objects
  caches,   \* SlubAllocator.slabs: the list of partly free slabs per class
  live,     \* allocations the callers hold: frame, object in it, layout
  added     \* ranges given to the buddy allocator so far

vars == <<buddy, slab, caches, live, added>>

Class == DOMAIN SIZE_CLASSES
NoSlab == [class |-> None, free |-> <<>>]

Init ==
  /\ buddy = BuddyInit
  /\ slab = [f \in Frame |-> NoSlab]
  /\ caches = [c \in Class |-> <<>>]
  /\ live = {}
  /\ added = {}

(* bootstrap::init, and Reclaimer::drop once the boot memory is no longer used. *)
AddMemory(r) ==
  /\ r \notin added
  /\ buddy' = AddRange(buddy, r[1], r[2])
  /\ added' = added \cup {r}
  /\ UNCHANGED <<slab, caches, live>>

-----------------------------------------------------------------------------
(* Sizes *)

clog2(x) == Min({k \in 0 .. x : x <= 2^k})

LowestOne(x) == Max({2^k : k \in {j \in 0 .. x : x % 2^j = 0}})

SLUB_MAX == SIZE_CLASSES[Len(SIZE_CLASSES)]
BUDDY_MAX == FRAME_SIZE * 2^MAX_ORDER
MaxFreeCount(c) == FRAME_SIZE \div SIZE_CLASSES[c]

(* init_size_lookup: the first class that values of this clog2 may fit in. *)
SIZE_LOOKUP(i) == Min({c \in Class : i <= clog2(SIZE_CLASSES[c])})

(* Bug: the alignment is not looked at. *)
BugIgnoresAlign(layout) ==
  Min({c \in SIZE_LOOKUP(clog2(layout.size)) .. Len(SIZE_CLASSES) :
         layout.size <= SIZE_CLASSES[c]})

find_class(layout) ==
  Min({c \in SIZE_LOOKUP(clog2(layout.size)) .. Len(SIZE_CLASSES) :
         layout.size <= SIZE_CLASSES[c] /\ layout.align <= LowestOne(SIZE_CLASSES[c])})

EffectiveSize(layout) == Max({layout.size, layout.align})

(* The order direct_alloc asks for. *)
OrderFor(layout) == Min({o \in Order : EffectiveSize(layout) <= FRAME_SIZE * 2^o})

-----------------------------------------------------------------------------
(* SlubAllocator *)

(* init_slab: all objects free, lowest first. *)
InitSlab(c) == [class |-> c, free |-> [i \in 1 .. MaxFreeCount(c) |-> i - 1]]

(* alloc, once grab_slab has the slab s in frame f: the first free object  *)
(* is taken, and a slab with none left is unlinked from its cache.         *)
TakeObject(f, s, list, layout) ==
  /\ slab' = [slab EXCEPT ![f] = [s EXCEPT !.free = Tail(@)]]
  /\ caches' = [caches EXCEPT ![s.class] = IF Len(s.free) = 1 THEN Remove(list, f) ELSE list]
  /\ live' = live \cup {[frame |-> f, object |-> Head(s.free), layout |-> layout]}

SlubAlloc(layout) ==
  LET c == find_class(layout)
  IN  \/ /\ caches[c] # <<>>
         /\ TakeObject(Head(caches[c]), slab[Head(caches[c])], caches[c], layout)
         /\ UNCHANGED buddy
      \/ /\ caches[c] = <<>>
         /\ CanAlloc(buddy, 0)
         /\ LET f == AllocatedFrame(buddy, 0)
            IN  /\ TakeObject(f, InitSlab(c), <<f>>, layout)
                /\ buddy' = [BuddyAlloc(buddy, 0) EXCEPT !.ty[f] = "Slab", !.order[f] = None]

(* Bug: put_slab returns an empty slab that is still in its cache. *)
BugEmptyStaysCached(a) ==
  LET f == a.frame
      c == slab[f].class
      n == Len(slab[f].free) + 1
  IN  /\ caches' = [caches EXCEPT ![c] = IF n = 1 THEN Append(@, f) ELSE @]
      /\ IF n = MaxFreeCount(c)
         THEN /\ slab' = [slab EXCEPT ![f] = NoSlab]
              /\ buddy' = BuddyFree(buddy, f, 0)
         ELSE /\ slab' = [slab EXCEPT ![f].free = <<a.object>> \o @]
              /\ UNCHANGED buddy

(* free: the object becomes the first free one.  put_slab links the slab   *)
(* when it had none and returns it to the buddy allocator when it is empty.*)
SlubFree(a) ==
  LET f == a.frame
      c == slab[f].class
      n == Len(slab[f].free) + 1
  IN  \/ /\ n = MaxFreeCount(c) /\ n # 1
         /\ slab' = [slab EXCEPT ![f] = NoSlab]
         /\ caches' = [caches EXCEPT ![c] = Remove(@, f)]
         /\ buddy' = BuddyFree(buddy, f, 0)
      \/ /\ n # MaxFreeCount(c) \/ n = 1
         /\ slab' = [slab EXCEPT ![f].free = <<a.object>> \o @]
         /\ caches' = [caches EXCEPT ![c] = IF n = 1 THEN Append(@, f) ELSE @]
         /\ UNCHANGED buddy

-----------------------------------------------------------------------------
(* Where an allocation is in the direct map. *)
Address(a) ==
  a.frame * FRAME_SIZE + (IF a.object = None THEN 0 ELSE a.object * SIZE_CLASSES[slab[a.frame].class])

(* What an allocation of size zero is given: the address of frame 0. *)
ZST_SENTINEL == 0

(* direct_alloc; a call that fails changes nothing. *)
DirectAlloc(layout) ==
  /\ Cardinality(live) < MaxLive
  /\ \/ /\ layout.size = 0
        /\ live' = live \cup {[frame |-> 0, object |-> None, layout |-> layout]}
        /\ UNCHANGED <<buddy, slab, caches>>
     \/ /\ layout.size > 0 /\ EffectiveSize(layout) <= SLUB_MAX
        /\ SlubAlloc(layout)
     \/ /\ layout.size > 0
        /\ EffectiveSize(layout) > SLUB_MAX /\ EffectiveSize(layout) <= BUDDY_MAX
        /\ CanAlloc(buddy, OrderFor(layout))
        /\ live' = live \cup {[frame |-> AllocatedFrame(buddy, OrderFor(layout)),
                               object |-> None, layout |-> layout]}
        /\ buddy' = BuddyAlloc(buddy, OrderFor(layout))
        /\ UNCHANGED <<slab, caches>>
  /\ UNCHANGED added

(* direct_free: nothing is at the sentinel.  Elsewhere the frame's type    *)
(* says whose the allocation is, and for the buddy allocator the FrameInfo *)
(* says how large it is.                                                   *)
DirectFree(a) ==
  /\ live' = live \ {a}
  /\ \/ /\ Address(a) = ZST_SENTINEL
        /\ UNCHANGED <<buddy, slab, caches>>
     \/ /\ Address(a) # ZST_SENTINEL
        /\ buddy.ty[a.frame] = "BuddyAllocated"
        /\ buddy' = BuddyFree(buddy, a.frame, buddy.order[a.frame])
        /\ UNCHANGED <<slab, caches>>
     \/ /\ Address(a) # ZST_SENTINEL
        /\ buddy.ty[a.frame] = "Slab"
        /\ SlubFree(a)
  /\ UNCHANGED added

Next ==
  \/ \E r \in Ranges : AddMemory(r)
  \/ \E layout \in Layouts : DirectAlloc(layout)
  \/ \E a \in live : DirectFree(a)

Spec == Init /\ [][Next]_vars

-----------------------------------------------------------------------------
(* Every variable stays in its type. *)
TypeOK ==
  /\ buddy.ty \in [Frame -> FrameType]
  /\ buddy.order \in [Frame -> Order \cup {None}]
  /\ buddy.heads \in [Order -> Seq(Frame)]
  /\ \A f \in Frame : slab[f].class \in Class \cup {None} /\ slab[f].free \in Seq(Nat)
  /\ caches \in [Class -> Seq(Frame)]
  /\ added \subseteq Ranges

FreeBlocks == UNION {{<<f, o>> : f \in ToSet(buddy.heads[o])} : o \in Order}
LiveBlocks ==
  {<<a.frame, OrderFor(a.layout)>> : a \in {a \in live : a.object = None /\ a.layout.size > 0}}
SlabBlocks == {<<f, 0>> : f \in {f \in Frame : buddy.ty[f] = "Slab"}}

(* Whatever is freed next, merge() does not reach its panic "buddy tail    *)
(* found in merge -- shouldn't happen".                                    *)
MergeNeverPanics ==
  \A b \in LiveBlocks \cup SlabBlocks : ~ MergePanics(buddy, b[1], b[2])

(* The FrameInfos and the free lists agree: a frame of type Buddy is in    *)
(* the list of the order its node records, once, and in no other, and its  *)
(* block is aligned; so no merge() panics.                                 *)
FreeListsExact ==
  /\ TypeOK
  /\ MergeNeverPanics
  /\ \A o \in Order :
       /\ Cardinality(ToSet(buddy.heads[o])) = Len(buddy.heads[o])
       /\ ToSet(buddy.heads[o]) = {f \in Frame : buddy.ty[f] = "Buddy" /\ buddy.order[f] = o}
       /\ \A f \in ToSet(buddy.heads[o]) : f % 2^o = 0

(* Every frame of the memory given to the allocator is in exactly one      *)
(* place: in one free block, in one block a caller holds or in one slab.   *)
(* No frame outside is in any.  So nothing is handed out twice and nothing *)
(* is lost, however blocks are split and merged, and the FrameInfos that   *)
(* merge() decides by stay true.                                           *)
FramesPartitioned ==
  /\ FreeListsExact
  /\ \A f \in Frame :
       Cardinality({b \in FreeBlocks \cup LiveBlocks \cup SlabBlocks : f \in Block(b[1], b[2])})
         = IF \E r \in added : f \in r[1] .. r[2] - 1 THEN 1 ELSE 0

(* For everything a caller holds, direct_free finds the right allocator    *)
(* and, in the FrameInfo, the order the block was allocated with; what it  *)
(* takes for an allocation of size zero is one.                            *)
FreeFindsOwner ==
  \A a \in live :
    IF a.layout.size = 0 \/ Address(a) = ZST_SENTINEL
    THEN a.layout.size = 0 /\ Address(a) = ZST_SENTINEL
    ELSE IF a.object = None
    THEN buddy.ty[a.frame] = "BuddyAllocated" /\ buddy.order[a.frame] = OrderFor(a.layout)
    ELSE buddy.ty[a.frame] = "Slab"

(* Every object of a slab is either free or held by one caller.  A slab is *)
(* in its cache's list exactly while it has a free object, and one without *)
(* a caller is not kept.  So what direct_free goes by is right.            *)
SlabsExact ==
  /\ FreeFindsOwner
  /\ \A f \in Frame :
       LET s    == slab[f]
           held == {a \in live : a.frame = f /\ a.object # None}
       IN  IF buddy.ty[f] = "Slab"
           THEN /\ held # {}
                /\ Cardinality(held) + Len(s.free) = MaxFreeCount(s.class)
                /\ {a.object : a \in held} \cup ToSet(s.free) = 0 .. MaxFreeCount(s.class) - 1
           ELSE held = {}
  /\ \A c \in Class :
       /\ Cardinality(ToSet(caches[c])) = Len(caches[c])
       /\ ToSet(caches[c]) = {f \in Frame : slab[f].class = c /\ slab[f].free # <<>>}

(* What a caller holds is as large and as aligned as its layout asked for, *)
(* and an object does not leave its frame.                                 *)
AllocationsFit ==
  \A a \in live :
    LET size == IF a.object = None THEN FRAME_SIZE * 2^OrderFor(a.layout)
                                   ELSE SIZE_CLASSES[slab[a.frame].class]
    IN  /\ a.layout.size <= size
        /\ Address(a) % a.layout.align = 0
        /\ a.object # None => Address(a) + size <= (a.frame + 1) * FRAME_SIZE
=============================================================================
