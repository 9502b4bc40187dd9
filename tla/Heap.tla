-------------------------------- MODULE Heap --------------------------------
(***************************************************************************)
(* heap.c: a memory heap that hands out pieces of a chain of blocks, used  *)
(* like a stack: the newest piece, or everything above a remembered top,   *)
(* can be given back.  One action per call; the two calls that walk the    *)
(* chain backwards take one action per block.                              *)
(*                                                                         *)
(* A pointer is a pair of a block and an offset into it.  A block is a     *)
(* place malloc may hand out: free makes it available again and leaves     *)
(* what it holds in place until then, which is what a read through a       *)
(* dangling pointer finds.  The model follows the program until an         *)
(* assertion fails, free is given a block that is free already, or the     *)
(* free of a block wraps around below zero.                                *)
(***************************************************************************)
EXTENDS LstOps, Integers, Sequences, FiniteSets, FiniteSetsExt

CONSTANTS
  Blocks,        (* bound: the places malloc has                           *)
  Alignment,     (* MEM_ALIGNMENT                                          *)
  Header,        (* MEM_BLOCK_HEADER_SIZE                                  *)
  StartSize,     (* MEM_BLOCK_START_SIZE                                   *)
  StandardSize,  (* MEM_BLOCK_STANDARD_SIZE                                *)
  CreateSizes,   (* sizes given to mem_heap_create                         *)
  Sizes,         (* sizes given to mem_heap_alloc                          *)
  MaxPieces,     (* bound: how many pieces are handed out at a time        *)
  MaxBlindCalls  (* bound: how many calls are made with a dangling pointer *)

ASSUME HeapAssumption ==
  /\ NoNode \notin Blocks
  /\ IsFiniteSet(Blocks)
  /\ Alignment \in Nat \ {0}
  /\ StartSize \in Nat \ {0}
  /\ StandardSize \in Nat \ {0}
  /\ Header \in Nat \ {0}
  /\ Header % Alignment = 0
  /\ CreateSizes \subseteq Nat
  /\ Sizes \subseteq Nat
  /\ MaxPieces \in Nat
  /\ MaxBlindCalls \in Nat

VARIABLES
  heap,      (* the handle mem_heap_create returned, NoNode without a heap *)
  base,      (* heap->base                                                 *)
  total,     (* heap->total_size                                           *)
  links,     (* list of every block                                        *)
  len,       (* len of every block                                         *)
  free,      (* free of every block; start is always the header size       *)
  live,      (* the blocks malloc has handed out                           *)
  op,        (* the call under way: "none", "free" or "free_heap_top"      *)
  cursor,    (* the block that call looks at                               *)
  oldTop,    (* the argument of mem_heap_free_heap_top                     *)
  outcome,   (* "running", or what stopped the program: "undercounted"     *)
             (* (heap.c:61), "assertion" (heap.c:156 or 184), "double      *)
             (* free" or "wrapped"                                         *)
  pieces,    (* ghost: the pieces in use, oldest first                     *)
  dangling,  (* ghost: a block was freed that base.last still points to    *)
  blind      (* ghost: calls made since then                               *)

chain == <<heap, base, total, links, live>>
vars == <<chain, len, free, op, cursor, oldTop, outcome, pieces, dangling, blind>>

(* calc_align, hence MEM_SPACE_NEEDED.                                     *)
NeededDown(n) == (n \div Alignment) * Alignment   \* mutant: rounds down

Needed(n) == ((n + Alignment - 1) \div Alignment) * Alignment

NoPointer == <<NoNode, 0>>

Init ==
  /\ heap = NoNode
  /\ base = EmptyList
  /\ total = 0
  /\ links = [b \in Blocks |-> Detached]
  /\ len = [b \in Blocks |-> 0]
  /\ free = [b \in Blocks |-> 0]
  /\ live = {}
  /\ op = "none"
  /\ cursor = NoNode
  /\ oldTop = NoPointer
  /\ outcome = "running"
  /\ pieces = <<>>
  /\ dangling = FALSE
  /\ blind = 0

(* A call begins on a heap that exists.                                    *)
Begin ==
  /\ outcome = "running" /\ op = "none" /\ heap # NoNode
  /\ blind < MaxBlindCalls
  /\ blind' = IF dangling THEN blind + 1 ELSE blind

(***************************************************************************)
(* mem_heap_create                                                         *)
(***************************************************************************)
Malloc(b, size) ==
  /\ b \notin live
  /\ live' = live \cup {b}
  /\ len' = [len EXCEPT ![b] = size]

Create(n, b) ==
  LET size == Header + Needed(IF n = 0 THEN StartSize ELSE n)
      r    == ListAddFirst(EmptyList, links, b)
  IN  /\ outcome = "running" /\ op = "none" /\ heap = NoNode
      /\ Malloc(b, size)
      /\ free' = [free EXCEPT ![b] = Header]
      /\ heap' = b
      /\ total' = size
      /\ base' = r.list
      /\ links' = r.links
      /\ UNCHANGED <<op, cursor, oldTop, outcome, pieces, dangling, blind>>

(***************************************************************************)
(* mem_heap_alloc, with mem_heap_add_block and mem_heap_create_block       *)
(***************************************************************************)
Fits(n) == len[base.last] >= free[base.last] + Needed(n)

Piece(b, offset, n) == [block |-> b, offset |-> offset, size |-> n]

AllocHereUnaligned(n) ==       \* mutant: free is advanced by n, not MEM_SPACE_NEEDED(n)
  LET b == base.last
  IN  /\ Begin /\ Len(pieces) < MaxPieces
      /\ Fits(n)
      /\ free' = [free EXCEPT ![b] = @ + n]
      /\ pieces' = Append(pieces, Piece(b, free[b], n))
      /\ UNCHANGED <<chain, len, op, cursor, oldTop, outcome, dangling>>

AllocHere(n) ==
  LET b == base.last
  IN  /\ Begin /\ Len(pieces) < MaxPieces
      /\ Fits(n)
      /\ free' = [free EXCEPT ![b] = @ + Needed(n)]
      /\ pieces' = Append(pieces, Piece(b, free[b], n))
      /\ UNCHANGED <<chain, len, op, cursor, oldTop, outcome, dangling>>

(* The size of the block mem_heap_add_block asks for: twice the last one,  *)
(* at most the standard size, at least what is needed now.                 *)
AddedSize(n) ==
  LET doubled == 2 * len[base.last]
  IN  Max({n, IF doubled > StandardSize THEN StandardSize ELSE doubled})

AllocAdding(n, b) ==
  LET size == Header + Needed(AddedSize(n))
      r    == ListInsertAfter(base, links, base.last, b)
  IN  /\ Begin /\ Len(pieces) < MaxPieces
      /\ ~Fits(n)
      /\ Malloc(b, size)
      /\ total' = total + size
      /\ base' = r.list
      /\ links' = r.links
      /\ free' = [free EXCEPT ![b] = Header + Needed(n)]
      /\ pieces' = Append(pieces, Piece(b, Header, n))
      /\ UNCHANGED <<heap, op, cursor, oldTop, outcome, dangling>>

(***************************************************************************)
(* mem_heap_block_free.  LIST_REMOVE is given block->base, which is        *)
(* heap->base only when the block is the one the heap lives in; any other  *)
(* block has a base of its own that nobody reads.                          *)
(***************************************************************************)
BlockFree(b) ==
  LET r == ListRemove(base, links, b)
  IN  /\ links' = r.links
      /\ base' = IF b = heap THEN r.list ELSE base
      /\ dangling' = (dangling \/ (b # heap /\ base.last = b))
      /\ \/ /\ total < len[b]
            /\ outcome' = "undercounted"
            /\ UNCHANGED <<total, live>>
         \/ /\ total >= len[b]
            /\ outcome' = IF b \in live THEN "running" ELSE "double free"
            /\ total' = total - len[b]
            /\ live' = live \ {b}

(***************************************************************************)
(* mem_heap_free                                                           *)
(***************************************************************************)
FreeCall ==
  /\ Begin
  /\ op' = "free"
  /\ cursor' = base.last
  /\ pieces' = <<>>
  /\ UNCHANGED <<chain, len, free, oldTop, outcome, dangling>>

FreeStepTooLate ==             \* mutant: prev is read after LIST_REMOVE cleared it
  /\ outcome = "running" /\ op = "free" /\ cursor # NoNode
  /\ cursor' = ListRemove(base, links, cursor).links[cursor].prev
  /\ BlockFree(cursor)
  /\ UNCHANGED <<heap, len, free, op, oldTop, pieces, blind>>

FreeStep ==
  /\ outcome = "running" /\ op = "free" /\ cursor # NoNode
  /\ cursor' = links[cursor].prev
  /\ BlockFree(cursor)
  /\ UNCHANGED <<heap, len, free, op, oldTop, pieces, blind>>

(* With the heap gone nothing points to its blocks any more, so what they  *)
(* held can be forgotten.                                                  *)
FreeReturn ==
  /\ outcome = "running" /\ op = "free" /\ cursor = NoNode
  /\ op' = "none"
  /\ heap' = NoNode
  /\ dangling' = FALSE
  /\ blind' = 0
  /\ base' = EmptyList
  /\ total' = 0
  /\ links' = [b \in Blocks |-> Detached]
  /\ len' = [b \in Blocks |-> 0]
  /\ free' = [b \in Blocks |-> 0]
  /\ UNCHANGED <<live, cursor, oldTop, outcome, pieces>>

(***************************************************************************)
(* mem_heap_get_heap_top, mem_heap_get_top.                                *)
(***************************************************************************)
GetHeapTop == <<base.last, free[base.last]>>

GetTop(n) == <<base.last, free[base.last] - Needed(n)>>

(* The top there was when only the first k pieces existed: what a client   *)
(* remembers to return to.  With k = 0 it is the argument mem_heap_empty   *)
(* computes.                                                               *)
TopAfter(k) ==
  IF k = 0 THEN <<heap, Header>>
           ELSE <<pieces[k].block, pieces[k].offset + Needed(pieces[k].size)>>

(***************************************************************************)
(* mem_heap_free_heap_top and mem_heap_empty                               *)
(***************************************************************************)
FreeHeapTopCall(k) ==
  /\ Begin
  /\ op' = "free_heap_top"
  /\ cursor' = base.last
  /\ oldTop' = TopAfter(k)
  /\ pieces' = SubSeq(pieces, 1, k)
  /\ UNCHANGED <<chain, len, free, outcome, dangling>>

Includes(b, pointer) == pointer[1] = b /\ pointer[2] <= free[b]

FreeHeapTopStepTooLate ==      \* mutant: prev is read after LIST_REMOVE cleared it
  /\ outcome = "running" /\ op = "free_heap_top" /\ cursor # NoNode
  /\ ~Includes(cursor, oldTop)
  /\ cursor' = ListRemove(base, links, cursor).links[cursor].prev
  /\ BlockFree(cursor)
  /\ UNCHANGED <<heap, len, free, op, oldTop, pieces, blind>>

FreeHeapTopStep ==
  /\ outcome = "running" /\ op = "free_heap_top" /\ cursor # NoNode
  /\ ~Includes(cursor, oldTop)
  /\ cursor' = links[cursor].prev
  /\ BlockFree(cursor)
  /\ UNCHANGED <<heap, len, free, op, oldTop, pieces, blind>>

FreeHeapTopReturn ==
  /\ outcome = "running" /\ op = "free_heap_top" /\ cursor # NoNode
  /\ Includes(cursor, oldTop)
  /\ free' = [free EXCEPT ![cursor] = oldTop[2]]
  /\ op' = "none"
  /\ cursor' = NoNode
  /\ oldTop' = NoPointer
  /\ \/ /\ cursor # heap /\ oldTop[2] = Header
        /\ BlockFree(cursor)
     \/ /\ cursor = heap \/ oldTop[2] # Header
        /\ outcome' = IF oldTop[2] < Header THEN "assertion" ELSE outcome
        /\ UNCHANGED <<base, total, links, live, dangling>>
  /\ UNCHANGED <<heap, len, pieces, blind>>

(***************************************************************************)
(* mem_heap_free_top, given the size of the newest piece                   *)
(***************************************************************************)
FreeTop ==
  LET b      == base.last
      n      == pieces[Len(pieces)].size
      lowest == free[b] - Needed(n)
  IN  /\ Begin /\ pieces # <<>>
      /\ free' = [free EXCEPT ![b] = lowest]
      /\ pieces' = SubSeq(pieces, 1, Len(pieces) - 1)
      /\ \/ /\ b # heap /\ lowest = Header
            /\ BlockFree(b)
         \/ /\ b = heap \/ lowest # Header
            /\ outcome' = IF lowest >= Header THEN "running"
                          ELSE IF lowest >= 0 THEN "assertion" ELSE "wrapped"
            /\ UNCHANGED <<base, total, links, live, dangling>>
      /\ UNCHANGED <<heap, len, op, cursor, oldTop>>

-----------------------------------------------------------------------------
Alloc(n) == AllocHere(n) \/ \E b \in Blocks : AllocAdding(n, b)

Next ==
  \/ \E n \in CreateSizes, b \in Blocks : Create(n, b)
  \/ \E n \in Sizes : Alloc(n)
  \/ FreeCall \/ FreeStep \/ FreeReturn
  \/ \E k \in 0..Len(pieces) : FreeHeapTopCall(k)
  \/ FreeHeapTopStep \/ FreeHeapTopReturn
  \/ FreeTop

Spec == Init /\ [][Next]_vars
-----------------------------------------------------------------------------
(***************************************************************************)
(* Correctness.  "~dangling" excludes the heaps heap.c:59 has damaged.     *)
(***************************************************************************)
Intact == outcome = "running" /\ heap # NoNode /\ op = "none" /\ ~dangling

(* Every piece in use lies between the header and the free mark of a block *)
(* malloc has handed out, starts aligned, and overlaps no other, however   *)
(* the chain grew and whatever was given back before.                      *)
PiecesApart ==
  Intact =>
    /\ \A i \in DOMAIN pieces :
         LET p == pieces[i]
         IN  /\ p.block \in live
             /\ p.offset >= Header
             /\ p.offset % Alignment = 0
             /\ p.offset + p.size <= free[p.block]
             /\ free[p.block] <= len[p.block]
    /\ \A i, j \in DOMAIN pieces :
         i < j /\ pieces[i].block = pieces[j].block =>
           pieces[i].offset + pieces[i].size <= pieces[j].offset

(* The newest piece is where the two getters look for it, so giving it     *)
(* back or returning to a remembered top frees exactly what came later.    *)
NewestOnTop ==
  Intact =>
    /\ GetHeapTop = TopAfter(Len(pieces))
    /\ pieces # <<>> =>
         LET p == pieces[Len(pieces)]
         IN  GetTop(p.size) = <<p.block, p.offset>>

(* The chain that starts at the heap holds every block, once, its last     *)
(* block is the one base.last names, and mem_heap_get_size counts every    *)
(* byte of them and no other.                                              *)
ChainIsWhole ==
  Intact =>
    LET at == Visited(base, links)
    IN  /\ {at[i] : i \in 1..base.count} = live
        /\ base.count = Cardinality(live)
        /\ at[1] = heap /\ at[base.count] = base.last
        /\ links[base.last].next = NoNode
        /\ total = MapThenSumSet(LAMBDA b : len[b], live)

(* When mem_heap_free has come to its end it has freed every block, even   *)
(* of a damaged heap: damage never turns into a silent leak.               *)
NothingLeaks ==
  outcome = "running" /\ heap = NoNode => live = {}

(* A remembered top is always found again: the walk of                     *)
(* mem_heap_free_heap_top ends in a block, so heap.c:152 (assert(block))   *)
(* holds, or, on a damaged heap, is never reached.                         *)
TopIsFound ==
  outcome = "running" /\ op = "free_heap_top" => cursor # NoNode

(* heap.c:61, "assert(heap->total_size >= block->len)": the size the heap  *)
(* counts covers every block it is about to free.                          *)
SizeCoversBlock == outcome # "undercounted"
=============================================================================
