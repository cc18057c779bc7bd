---------------------------- MODULE MemoryManager ----------------------------
(***************************************************************************)
(* The enclave's mmap and munmap: MemoryManager keeps a region for each    *)
(* block it got from memalign and frees the block once all of the region   *)
(* was unmapped.  memalign and free are called outside the lock, so other  *)
(* threads run between them and the changes of regions_.  The callers map  *)
(* any number of bytes, at an address of their own or at any, and unmap    *)
(* what they have mapped in pages, never parts of two mappings at once.    *)
(***************************************************************************)
EXTENDS Integers, FiniteSets, FiniteSetsExt

CONSTANTS MemThreads,       \* the threads that call mmap and munmap
          MemPages,         \* pages of memory that memalign can hand out
          page_size,        \* bytes of a page
          MmapSizes,        \* the sizes in bytes that callers ask for
          MemCalls          \* how many calls are made

ASSUME MemoryAssumption ==
    /\ {MemPages, page_size} \subseteq Nat \ {0} /\ MemCalls \in Nat
    /\ MmapSizes \subseteq Nat \ {0}

VARIABLES
    blocks,         \* the blocks that malloc holds: address -> bytes
    regions_,       \* address -> the MemoryRegion
    mapped,         \* addresses of the pages that callers have mapped
    memCall,        \* thread -> the block that its call has in hand, or none
    memCalls,       \* calls made so far
    remapped,       \* history: a page that had been unmapped was mapped again
    dangling        \* history: pages still mapped when their region was freed

memVars == <<blocks, regions_, mapped, memCall, memCalls, remapped, dangling>>

MemIdle == [at |-> "idle"]
Rounded(size) == ((size + page_size - 1) \div page_size) * page_size
Pages(base, bytes) == {base + i * page_size : i \in 0 .. (bytes \div page_size) - 1}
Held == UNION {Pages(b, blocks[b]) : b \in DOMAIN blocks}
Without(f, x) == [y \in DOMAIN f \ {x} |-> f[y]]
With(f, x, v) == [y \in DOMAIN f \cup {x} |-> IF y = x THEN v ELSE f[y]]

MemStep(t, call) == memCalls < MemCalls /\ memCalls' = memCalls + 1 /\ memCall[t] = MemIdle
                    /\ memCall' = [memCall EXCEPT ![t] = call]

-----------------------------------------------------------------------------
MemoryRegion(size) == [initial_size_ |-> Rounded(size), committed_ |-> Rounded(size)]

(* The region that lower_bound and the step back from it lead to.           *)
NearestAfter(p) ==                      \* mutant: no step back
    LET after == {r \in DOMAIN regions_ : r >= p}
    IN  IF after # {} THEN Min(after) ELSE Max(DOMAIN regions_)
Nearest(p) ==
    LET before == {r \in DOMAIN regions_ : r <= p}
    IN  IF before # {} THEN Max(before) ELSE Min(DOMAIN regions_)
WithinRegion(r, p, size) == r <= p /\ r + regions_[r].initial_size_ >= p + size

(* alloc: memalign first, then the region is entered under the lock.  When  *)
(* memory is exhausted, or the region cannot be made, nothing is mapped.    *)
AllocMemory(t, size) ==
    \E base \in {k * page_size : k \in 1 .. MemPages} :
        /\ Pages(base, Rounded(size)) \subseteq Pages(page_size, MemPages * page_size) \ Held
        /\ MemStep(t, [at |-> "insert", base |-> base, size |-> size])
        /\ blocks' = With(blocks, base, Rounded(size))
        /\ UNCHANGED <<regions_, mapped, remapped, dangling>>
Exhausted(t, size) ==
    /\ \A base \in {k * page_size : k \in 1 .. MemPages} :
           ~(Pages(base, Rounded(size)) \subseteq Pages(page_size, MemPages * page_size) \ Held)
    /\ MemStep(t, MemIdle)
    /\ UNCHANGED <<blocks, regions_, mapped, remapped, dangling>>

InsertRegion(t) ==
    LET c == memCall[t]
    IN  /\ c.at = "insert"
        /\ memCall' = [memCall EXCEPT ![t] = MemIdle]
        /\ regions_' = With(regions_, c.base, MemoryRegion(c.size))
        /\ mapped' = mapped \cup Pages(c.base, Rounded(c.size))
        /\ UNCHANGED <<blocks, memCalls, remapped, dangling>>
RegionThrows(t) ==                      \* the block is lost
    /\ memCall[t].at = "insert"
    /\ memCall' = [memCall EXCEPT ![t] = MemIdle]
    /\ UNCHANGED <<blocks, regions_, mapped, memCalls, remapped, dangling>>

(* alloc at an address that the caller gives: the region stays as it is,    *)
(* although the pages may have been uncommitted.  Elsewhere it throws.      *)
AllocAt(p, size) ==
    IF regions_ # <<>> /\ WithinRegion(Nearest(p), p, size) THEN p ELSE -1
MmapAt(t, p, size) ==
    LET pages == IF AllocAt(p, size) = p THEN Pages(p, Rounded(size)) ELSE {}
    IN  /\ MemStep(t, MemIdle)
        /\ mapped' = mapped \cup pages
        /\ remapped' = (remapped \/ ~(pages \subseteq mapped))
        /\ UNCHANGED <<blocks, regions_, dangling>>

(* free: the pages are uncommitted under the lock; a region with none left  *)
(* leaves the map, and its block is freed when the call ends.               *)
Munmap(t, p, size) ==
    LET r == Nearest(p)
        left == regions_[r].committed_ - size
        found == regions_ # <<>> /\ WithinRegion(r, p, size) /\ left >= 0
    IN  /\ \E b \in DOMAIN blocks : Pages(p, size) \subseteq mapped \cap Pages(b, blocks[b])
        /\ MemStep(t, IF found /\ left = 0 THEN [at |-> "release", base |-> r] ELSE MemIdle)
        /\ mapped' = mapped \ Pages(p, size)
        /\ regions_' = CASE ~found -> regions_
                         [] found /\ left = 0 -> Without(regions_, r)
                         [] OTHER -> [regions_ EXCEPT ![r].committed_ = left]
        /\ dangling' = IF found /\ left = 0 THEN dangling \cup (mapped' \cap Pages(r, blocks[r])) ELSE dangling
        /\ UNCHANGED <<blocks, remapped>>
ReleaseBlock(t) ==
    /\ memCall[t].at = "release"
    /\ blocks' = Without(blocks, memCall[t].base)
    /\ memCall' = [memCall EXCEPT ![t] = MemIdle]
    /\ UNCHANGED <<regions_, mapped, memCalls, remapped, dangling>>

MemInit ==
    /\ blocks = <<>> /\ regions_ = <<>> /\ mapped = {}
    /\ memCall = [t \in MemThreads |-> MemIdle] /\ memCalls = 0
    /\ remapped = FALSE /\ dangling = {}

MemNext ==
    \E t \in MemThreads :
        \/ \E size \in MmapSizes : AllocMemory(t, size) \/ Exhausted(t, size)
        \/ InsertRegion(t) \/ RegionThrows(t) \/ ReleaseBlock(t)
        \/ \E p \in Pages(page_size, MemPages * page_size), size \in MmapSizes : MmapAt(t, p, size)
        \/ \E p \in mapped, n \in 1 .. MemPages : Munmap(t, p, n * page_size)

MemSpec == MemInit /\ [][MemNext]_memVars

-----------------------------------------------------------------------------
(* alloc and free: unless a page was mapped again, no region is freed under *)
(* a mapped page; and as long as none was, a page that a caller has mapped  *)
(* lies in a region whose block malloc still holds, however the calls of    *)
(* the threads mix, and the search for its address ends at that region.     *)
(* Unless a page was mapped again a region stays for exactly as long as one *)
(* of its pages is mapped.                                                  *)
PagesBacked ==
    /\ ~remapped => dangling = {}
    /\ dangling = {} =>
          /\ \A a \in mapped : \E r \in DOMAIN regions_ : WithinRegion(r, a, page_size)
          /\ \A a \in mapped : AllocAt(a, page_size) = a
          /\ \A r \in DOMAIN regions_ :
                 /\ r \in DOMAIN blocks /\ blocks[r] = regions_[r].initial_size_
                 /\ regions_[r].committed_ > 0
                 /\ ~remapped => regions_[r].committed_ = page_size * Cardinality(mapped \cap Pages(r, blocks[r]))

(* uncommit: "we leave it allocated until the entire region is freed".  A   *)
(* region is freed only when none of its pages is mapped.                   *)
FreedWhenUnmapped == dangling = {}
=============================================================================
