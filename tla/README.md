# A verification development for wheelib

wheelib is a small C library: synchronisation objects over pthreads, a
stack-like memory heap on intrusive lists, containers, and helpers for numbers
and time. There is no `main` and no I/O; its clients are the tests under
`src/test` and whatever links `libwheelib.so`. This directory models the parts
with state worth checking, checks the models with TLC and proves their main
properties with TLAPS. Paths below are relative to `src/`, so `src/sema.c` is
the semaphore.

## 1. Inventory

| Component | State | Operations | Used by / uses |
|---|---|---|---|
| `mutex`, `cond` | a pthread mutex, a pthread condition | lock, unlock, try/timed lock; wait, timedwait, signal, broadcast | wrapped by `sema`, `event` |
| `sema` | `value`, mutex, cond | init, destroy, post, wait, trywait, timedwait | `mutex`, `cond`, `sec` |
| `event` | `is_set`, mutex, cond | init, destroy, set, reset, wait, timedwait | `mutex`, `cond`, `sec` |
| `sec` | none (timevals of the caller) | now, from_usec, add_usec, timespec_from_timeval | the deadlines of `sema`, `event` |
| `lst` | header (count, first, last), links in the nodes | add first/last, insert after, remove, walk | `heap`, `dyn` |
| `heap` | chain of blocks with `len`, `free`; `total_size` | create, free, alloc, get/free top, get/free heap top, empty, size | `lst`, `calc` (alignment); `dyn` |
| `dyn` | first block inline, later ones on a heap | open/close, push, get element, size | `heap`, `lst` |
| `list` | ring of malloc'ed nodes through an end node | the interface of C++ `std::list` | libc only |
| `vec`, `stack` | start, finish, end of storage | the interface of `std::vector`; push, pop, top | libc only |
| `hash` | cells, chains through a member of the nodes | create, clear, free, insert, delete, search, search all, migrate | `calc` (prime size, folds) |
| `calc` | none | alignment, logarithm, power of two, prime, folds, checked arithmetic | `heap`, `hash` |
| `sort` | none | bubble, selection, insertion and shell sort (six more are only declared) | — |
| `byte` | none | big-endian reads and writes of 1, 2, 4, 8 bytes | `dyn`'s clients |
| `rwlock`, `thread` | a pthread object | one pthread call each | — |
| `rbtree`, `type.h` | — | types only | — |
| `list_old`, `vec_old` | — | superseded, commented out | — |

How they interact. Threads meet only in `sema` and `event`; each is a monitor:
the mutex guards one variable, the condition announces changes of it. A timed
wait computes an absolute deadline with `sec` before it asks for the mutex.
Everything else is sequential and shares memory through pointers: `heap`
threads its blocks on an `lst`, `dyn` takes blocks from a heap, `hash` takes
its size from `calc_find_prime`.

What is hard about each, and what makes it correct:

- **sema, event**: threads that barge in between a signal and the return of the
  wait it ends; spurious wakeups; a timeout that races a signal, or ends the
  loop without another look at the variable; destruction by a released thread
  while the one that released it is still inside the call. Correct when the
  calls are linearizable, no wakeup is lost and nobody waits for ever beside
  what it waits for.
- **sec**: carries at exactly a second, units. Correct when a deadline is exact
  and one `pthread_cond_timedwait` accepts.
- **lst, list, hash**: pointer surgery at the ends, in the middle, on ranges
  that touch the position, and reading the next node before the current one is
  freed or relinked. Correct when the structure is whole afterwards and holds
  the right sequence.
- **vec**: capacity against size at every insertion, elements that move while an
  argument points at one of them, blocks that are replaced. Correct when the
  vector holds the right sequence and owns exactly one live block.
- **dyn, byte**: a part of the buffer is handed out and closed at another place;
  which block a write goes to. Correct when every field reads back from where
  it was put.
- **heap**: pieces that end exactly at the end of a block, blocks added and
  freed again, tops remembered across both. Correct when pieces are aligned,
  inside their blocks and disjoint, and a top is found again.
- **calc**: the corners of the integer types, wrap-around, loops that must end.
- **sort**: loop bounds and gaps. Correct when the result is the argument,
  rearranged, in ascending order.

## 2. Modules

Each modelled component is one module; its abstract specification, where it has
one, is another; an `MC` module and a `.cfg` give the constants their values;
theorems are in `...Proofs` modules.

| Source | Module | Abstract specification | Proofs |
|---|---|---|---|
| `mutex.c`, `cond.c` | `Monitor` (extended by the next two) | | |
| `sema.c` | `Sema` | `Semaphore` | `SemaProofs` |
| `event.c` | `Event` | `EventFlag` | `EventProofs` |
| `sec.c` | `Sec` | | `UtilitiesProofs` |
| `lst.h` | `LstOps` (operators), `Lst` (calls) | `ListOrder` | `Lemmas`, `UtilitiesProofs` |
| `heap.c` | `Heap` (extends `LstOps`) | | `HeapProofs` |
| `list.c` | `List` | `ValueLists` | `ListProofs` |
| `hash.h` | `Hash` | `KeyIndex` | `HashProofs` |
| `vec.c`, `vec.h`, `stack.c` | `Vec` | `ValueArrays` | `VecProofs` |
| `dyn.c`, `byte.c` | `Dyn` | | `HeapProofs` (second part) |
| `calc.c`, `calc.h` | `Calc`, `Overflow` | | `UtilitiesProofs` |
| `sort.c` | `Sort` | | `UtilitiesProofs` |
| `calc`, `sec`, `lst`, `sort` together | `Utilities` | | `UtilitiesProofs` |

`Lemmas` holds what several proof modules rest on: induction, recursion, sums,
and the macros of `lst.h` on the list they thread.

**Monitor.** `owner` is the mutex. A condition wait is split where POSIX splits
it: `CondBlock` releases the mutex and blocks in one atomic step; a signal, a
timeout or nothing at all (`SpuriousWakeup`) unblocks the thread; `CondReturn`
takes the mutex again. `sleeping` holds the threads on the condition,
`signalled` those a signal took off it, `expired` the timed calls whose deadline
is past, `timedout` those that will report `ETIMEDOUT`. `CondTimeout` may hit a
thread that was already signalled: POSIX lets a timeout consume a signal.

**Sema, Event.** `pc[t]` is the line a thread is at, named after the call
(`wait_test` is the loop condition of `sema_wait`). One action per step between
two points where another thread may run; the steps inside the mutex are kept
apart too, so that exclusion is a result and not an assumption. `TimedExpire`
may happen from the call on, because `timeval_now` comes before `mutex_lock`.
`posted`, `acquired`, `swallowed`, `sets` and `released` are ghosts: they count
calls for the properties and for the rule that a client destroys an object only
when it is done with it. `Semaphore` and `EventFlag` give every call one atomic
effect; the refinement maps the `pc` of a thread to the state of its call
(`CallOf`).

**Sec.** One action per function; `due` is a ghost holding the time the timeval
has to stand for.

**LstOps, Lst.** A header is a record, the links a function from nodes to
`prev` and `next`; each macro is an operator that returns both. The assignments
are in the order of the macro. `Lst` calls them in any order;
`ListOrder` is a sequence without repetition.

**Heap.** A pointer is a block and an offset. `len`, `free`, `base` and `total`
are the fields of the C structures, `live` the blocks malloc has handed out.
`mem_heap_free` and `mem_heap_free_heap_top` take a step per block; other calls
are one action. `mem_heap_block_free` calls `LIST_REMOVE` with the base of the
block it frees (`heap.c:59`), so `base` changes only if that block is the one
the heap lives in: the model follows the code, sets the ghost `dangling` when
`base.last` is left pointing to a freed block, and goes on for `MaxBlindCalls`
calls to see what becomes of it.

**List.** A list is its end node; memory is a record of `next`, `prev`, `data`
and the allocated nodes, and each function of `list.c` an operator on it, loops
included. A loop is its body as a function on the loop's variables (`Cursors`,
`Pairs`, `SortStates`), which changes nothing once the condition is false, and
`Loop` runs it for as many rounds as there can be: no node is met twice, so
`Rounds` is the number of allocated nodes. Freed nodes lose their links, so a use
after free is an evaluation error. Values are numbers whose tens are compared and whose units tell equal
ones apart, which is how stability of the merges and sorts becomes visible.
`list_merge` and `list_sort` are `list_merge1` and `list_sort1` with another
comparison. `call` is a ghost with the function, its arguments as positions and
its result, and `ValueLists` says what each call makes of the sequences.
`list_unique1` compares with the data of the end node (`list.c:308`); both
levels say so.

A `Scopes` constant says what the client may do: which lists it has, which
values, how many elements and which functions it calls. `scope` is chosen
in the initial state and never changes, so one run checks clients that edit,
move values about and sort without their product. `MaxLeaks` bounds the end nodes
that `list_sort` may leave behind.

**Vec.** A header is the block the vector lives in, its size and its capacity;
positions count elements, as `pos - start` does. Each function is one action:
the loops `copy`, `copy_backward`, `fill` are operators that go element by
element, because an argument may point *into* the vector and is read while the
elements move (`Element(j)`, as against `Outside(x)`). `ValueArrays` says
what each call makes of sequences with a capacity, including what the code
really does with such an argument (`Found`) and when there is no room
(`AfterInsert1`). The program stops where it reads through NULL or an assertion
of `vector_at` fails on an element the client has reason to expect (`expected`).

**Dyn.** The arrays of a client, each a block of `DataSize` bytes, and the client's
protocol: open for some bytes, write fields at the pointer, close behind
the last. `BigEndian` and `Number` are the reads and writes of `byte.c`, with the
8-byte forms made of halves as there. `kept` is a ghost with the fields the
client wrote; where they have to lie follows from it. The block a push looks at
(`dyn.c:91`) is a choice between every array and an address that ends the
program. `heap` of an array is NULL for good (`dyn.c:30` creates it only when it
is there), so the code for more than one block cannot be reached: a second
block ends the program, and the model with it.

**Hash.** `cell[t]` is the array of a table (its domain is `0..n_cells-1`),
`name` the link of each node, with `Invalid` for the -1 `HASH_DELETE` leaves. A
migrated table is `stale` until it is cleared or freed. `KeyIndex` keeps the
nodes of each key, oldest first. `HASH_MIGRATE` needs `hash_get_n_cells`, which
nothing defines; the model takes it to return `n_cells`.

**Calc, Overflow.** A call of a looping function is one step per round, and
`size_t` wraps at `SizeModulus` wherever the code computes in it. `calc_find_prime`
has two loops, `PrimePowerRound` for `pow2` and `PrimeRound` for the search
(phase `"searching"`); between them it computes in `double`. A `double` is
modelled by the integers it can hold, those with a significand below
`Significand`, and `Rounded` rounds to the nearest of them, ties to even; the
decimal constants are `Factor`s of their `RANDOM_` digits, rounded likewise. A
product and its conversion back are `Scaled`.
Functions of 8, 16 and 32 bits differ only in width, so `Overflow` models the
three ways the code detects an overflow (compute in twice the width; look at the
operands first; look at the wrapped result) at one width. For the folds what
matters is which bytes are folded and in what order (`folded`), not what
`calc_fold_pair` makes of them.

**Sort.** One step per round of an inner loop or turn of an outer one;
`insertion_sort` is the inner part of `shell_sort` with a gap of 1.

**Utilities.** Calc, Overflow, Sec, Lst and Sort share no state. `Utilities`
extends all five; `part`, chosen in the initial state, is the one that moves.

## 3. Runs

| Run | Instance | Shows |
|---|---|---|
| `sema` | 3 threads, value 0, 2 posts; 96,376 states | conservation of tokens, no token taken that is not there, wakeups kept, safe destruction, refinement of `Semaphore`, and under fairness that waiters are served and timed waits return |
| `event` | 3 threads, 2 sets; 63,994 states | the same for the flag: nobody sleeps through a set, a broadcast is never false, refinement of `EventFlag`, release of waiters |
| `heap_safety` | 4 blocks, alignment 2, 6 pieces; 1,334,882 states | pieces aligned, inside their blocks and disjoint; chain whole and size exact; nothing leaks; tops found again |
| `heap_assertions` | 3 blocks, 5 pieces, 1 call after the damage | **violation**: legal calls fail `heap.c:61` |
| `utilities` | see below; 203,046 states | alignment, rounding, primes, folds and overflow tests are exact; deadlines are valid and conversions exact; the lists of `lst.h` agree in both directions and implement a sequence; the sorts sort; every loop ends |
| `calc_log` | `size_t` of 11 bits | **violation**: `calc_2_log(1)` |
| `list` | editing and moving: 2 lists, 3 values between them, NULL included; sorting: 1 list of up to 5 values with ties, 3 counters; one leaking call on up to 4; 31,136 states | every function keeps the rings intact and does to the sequences what it should; both sorts are stable and lose no node, but for the leak of `list_sort` |
| `hash` | 2 tables of 2 or 3 cells, 4 nodes, 3 keys; 37,640 states | whole chains and a correct index through collisions, deletion, reinsertion and migration |
| `vec` | 2 vectors, 4 elements, room for 5; 230,332 states | every function does what `ValueArrays` says, with arguments inside and outside the vector; no storage shared, lost or freed twice |
| `vec_assertions` | 1 vector, 3 elements, room for 4 | **violation**: `vector_at` fails on an element inserted by `vector_insert1` |
| `dyn` | 2 arrays of 8 bytes, 4 fields of 1 to 8 bytes; 292,912 states | fields lie where they were put, read back and compare as their numbers do, as long as no push goes astray |
| `dyn_assertions` | same | **violation**: a push that goes to another array leaves the field out of reach |

**Why the bounds are enough.** Three threads are the smallest number with a
sleeper, one that barges in and one that posts, and two sleepers for one poster.
Two posts reach `value = 2`, a second signal beside an unconsumed one, and
a post on a value that is not zero. Two sets give set–reset–set around a waiter
that is slow to wake. With four blocks, alignment 2 and sizes 0, 1, 4 and 7
pieces fill blocks exactly, need rounding, force a new block of standard or of
larger size, and a chain has an interior. Three list elements between two lists
give ranges before, at and after the position and lists that are empty, single
and neither (all functions with NULL and one value, those that move or compare
values with NULL and two); `Counters = 3` holds the binary counter of a sort of up to seven
values, and five values carry twice. The hash functions of the keys collide in
a table of two cells and not in one of three. Four elements and room for five
have more and fewer elements behind a position than are inserted, exact fits
and both kinds of growth (`MaxCapacity` is what stops further growth). Eight
bytes are exactly the widest field, so every array is filled to the brim by one
field, by several and by strings; bytes of two bits have fields that differ only
in a low half, a high half or the order of their bytes. After a push that went
astray the client only reads (`Sound`): a damaged array is observed, not written
further.

`utilities`: a `size_t` of 11 bits with every argument for the loops and for
primes, which takes `n + 100` past half the range and past its top; significands
of 9 bits, so that numbers above 512 and every product are rounded; all powers of two up to 128 for alignments; the mask of the
folds cuts at 128 and lengths go to 130, on both sides of it; `Overflow` has
integers of 6 bits (halves of 32, narrow halves of 4), all operands; seconds of
5 µs and microseconds of 3 ns leave every carry in place; five nodes have an
interior with an interior; arrays of up to five of three numbers have ties, and
`shell_sort` passes through gaps 2 and 1.

`list`, `hash` and `vec` use a `VIEW` without `call`: it only records what was
called, no guard reads it, and the refinement is checked on every transition,
not on every state. Symmetry is used only where all properties are invariants
or, in `vec`, an action property that treats vectors and values alike; never
together with liveness.

`CHECK_DEADLOCK FALSE` stands where the system may stop: the clients of a
semaphore or event may have made all their calls, everybody may wait, an
assertion of the heap has failed, or a bound leaves a client no call.

**Fairness.** `Sema` and `Event` assume that a thread that can run eventually
runs and that deadlines pass (weak fairness), and, strong, that a thread whose
deadline is past is not woken spuriously for ever before it times out: a
`pthread_cond_timedwait` entered after its deadline returns `ETIMEDOUT`. The
mutex is not assumed fair: the liveness properties say so, by only promising
something when the others leave the mutex alone (`TimedWaitReturns`,
`WaiterReleased`) or about the token and not the thread (`WaiterServed`).
`Utilities` assumes, weakly, that a loop of `Calc` or `Sort` that runs goes on
running: these are single-threaded functions without waits.

## 4. Findings

Each is a run that ends in a counterexample to what the repository itself says.

1. **`heap.c:59`** (run `heap_assertions`). Freeing a block that is not the
   heap's own updates the unused list header of that block. Create, allocate,
   allocate into a second block, free the newest piece, which frees that block
   again, then free the heap: `mem_heap_free` starts from the freed block, and
   its length is more than `total_size` has left, so `heap.c:61` fails. (A second
   `mem_heap_free_top` instead would move `free` of the freed block down, below
   `start` if the first piece has any bytes, which is `heap.c:184`.) Run
   `heap_safety` shows that all is well until then, and that the damage never
   becomes a leak.
2. **`calc.c:18`** (run `calc_log`). `calc_2_log(1)` returns 1, where
   `calc.h:30` promises the logarithm rounded upward.
3. **`vec.c:202`** (run `vec_assertions`). The growing branch of
   `vector_insert1` is the `else` of `count != 0`, not of the test for room: with
   too little room nothing is inserted, and inserting nothing allocates. Also
   `vector_resize1`. After `vector_init` and `vector_insert1` of one element
   `vector_at(0)` fails `vec.c:119`.
4. **`dyn.c:91`** (run `dyn_assertions`). `dyn_array_push` reads `block->used`
   before `block` has a value. When the slot still holds another array that one
   takes the bytes, and asking the right one for its second field fails
   `dyn.c:125`.

Observations without a run of their own:

- A `sema_timedwait` that reports `ETIMEDOUT` may have consumed a signal; the
  token it announced stays, but another sleeper is not woken for it until the
  next post. `NoLostWakeup` bounds the loss by the number of such timeouts and
  `WaiterServed` excludes them.
- `list_sort` never destroys its temporary lists (the ghost `leaked`);
  `list_unique1` compares with the end node. `list_insert1` and `list_insert2`
  have no return statement.
- `calc_2_power_up` does not return for more than half the range of `size_t`,
  `calc_align` wraps near its top (`CanReturn`, the premise of `AlignIsTight`).
- `calc_find_prime` does not return either once `n + 100` is more than half the
  range: `pow2` wraps to 0. For the last hundred arguments `n + 100` itself wraps,
  and what it returns is a small prime, or 0 or 1, which its search takes for
  primes (`CanReturn`, `PrimeIsFound`).
- `hash_create` allocates `sizeof(hash_cell_t)` for a `hash_table_t`.
- `vector_insert` multiplies an offset in bytes by the size of an element again
  (`vec.c:175`): the pointer it returns is past the array. `ValueArrays` states
  the offset as it is.
- An argument that points into the vector is read after the elements have moved:
  from `count` places behind the position on, the inserted value is not the one
  the caller pointed at (`Found`).
- `vector_insert1` of no element, and so `vector_resize1` to the size a vector
  already has, replaces the block by one of twice the *size*, whatever the
  capacity was. `vector_resize` to more elements, with room for them, copies
  them from NULL, as does `vector_insert` of a NULL before the end.
- The test at `dyn.c:30` is inverted: a `dyn_array` never has more than one
  block, and the next one dereferences NULL.
- `calc_fold_binary` masks the length with 0xFFFFFFF8: beyond 2^32 bytes whole
  rounds would be skipped (`MaskModulus`, the premise of `FoldsEveryByte`).
- The 8-bit functions of `calc.c` use `CHAR_MIN` and `CHAR_MAX`; `Overflow`
  takes `char` to be signed, as gcc on x86 does.

## 5. Proofs

TLC checks the instances above; the theorems hold for every value of the
constants that meets the named assumptions. `MonitorAssumption`: finitely many
threads. `HeapAssumption`: finitely many blocks, sizes and alignment positive.
`HashAssumption`: finitely
many nodes, among which are neither NULL nor -1; hash values are natural numbers and
tables have at least one cell. `VecAssumption`: more blocks than vectors, so that malloc finds one; null and
the mark of a dead vector are no blocks, values or headers. `CalcAssumption`: a
`size_t` counts to a power of two, which is what its bits make it, and without
which `calc_2_power_up` need not meet a power of two before it wraps; it has 10
bits at least and the significand of a `double` 9 (C99 gives them 16 and more).
`PrimeAssumption`: the last quarter of `size_t` has a prime that is less than a
square in the range. It holds at every width a `size_t` has had: from three
quarters of the range up to its largest square there are always primes (for 16
bits 49,157 and 255², and by far more at 32 and 64). TLC evaluates both at
11 bits.
`ListAssumption`: malloc has a node for every value there is room for, for the
end nodes of the lists and of a sort, and for those `list_sort` leaves behind; a
client keeps fewer values than 2^`Counters`, which for the 64 counters of the code
no memory could hold. `SemaAssumption`, `EventAssumption`, `OverflowAssumption`, `SecAssumption`,
`SortAssumption`, `LstAssumption`, `DynAssumption`: ranges of the parameters.
Theorems about a part of `Utilities` are about its own specification
(`SortSpec`, `CalcSpec`, ...), which is what moves in the run when `part` says
so; `PartsAreRight` draws the conclusion for `Utilities`.

- **Lemmas.** The library's induction and recursion theorems take an operator
  as a parameter, so the ones here take sets and functions. `AllNaturals`: a set
  that has 0 and the successor of every member has every number (by
  well-foundedness of `<`, whose theorem takes a set). `LeastExists` follows in
  the same way. `Iterates` and `Recursion` give the functions that a recursive
  definition names (`CHOOSE`) their existence and their equation. `SumOf` and
  what follows it unfold `MapThenSumSet` in any order. The rest is about `LstOps`: a
  *path* is a function with null at both ends and the nodes of the list between; a
  header and links are `Along` a path. Every macro that adds a node widens the path
  at one place (`AddFirstWidens`, `AddLastWidens`, `InsertAfterWidens`),
  `LIST_REMOVE` narrows it (`RemoveNarrows`); the walks of `LIST_FOREACH` and of
  `heap.c` visit the path (`VisitedIsPath`).
- **SemaProofs.** `TypeCorrect` carries the facts that tie the sets of the
  monitor to `pc`, which every later proof needs. `Exclusion` (the mutex is held
  by exactly the thread in a critical section) is inductive on top of it.
  `NoPhantomToken` needs exclusion: a thread between test and decrement is alone.
  `Conservation` counts the threads between an update of `value` and its ghost,
  with `CountAt` for what a move of one thread does to such a count.
  `WakeupsKept` proves that the threads under way and the swallowed signals
  cover the tokens. `SafeDestroy` needs that a poster still inside has no lock
  to take when all tokens are back. `Refinement` maps initial states to initial
  states and every step to a step of `Semaphore` or to none.
- **EventProofs.** The same shape: `TypeCorrect`, `Exclusion`,
  `SetWakesEverybody` (a sleeper under a raised flag has a broadcast on its
  way), `BroadcastSeesFlag`, `SetterFirst` (while the setter has not broadcast,
  nobody else is inside), `SafeDestroy`, `Refinement`.
- **HeapProofs.** A heap is not always whole: its blocks are freed one by one, and
  `heap.c:59` damages it. `HeapInv` says that, while the program runs, the heap
  has one of five shapes. `NoHeap`. `IsWhole`: base is along a path of exactly the
  live blocks, `total_size` is the sum of their lengths, and the newest piece ends at the
  top. `IsUnwinding`: a call is freeing the blocks of a path whose end base has already
  lost. `IsEmptied`: all are freed, `mem_heap_free` is about to return. `IsAstray`:
  base.last was left behind in a freed block. The chain backwards from there
  never reaches the block of the heap, and comes to a block that is free before it
  could end; so `mem_heap_free` of such a heap never gets past its loop, which is why
  `NothingLeaks` and `TopIsFound` need no premise, while the other three hold until
  the damage is done. `Stacked` says that a piece begins where the one before it ends
  or in a block of its own; with `Disjoint` and `Inside` it gives `PiecesApart` and
  `NewestOnTop`.
- **VecProofs.** `StorageInv` (`StorageIsOwned`): sizes within capacities, every
  vector with room has a live block of its own with that many cells, nothing
  else is live. malloc finds a block because there are more blocks than vectors.
  The loops `copy`, `copy_backward` and `fill` get a closed form first, by
  induction over their rounds, also for ranges that overlap and for an argument
  inside the vector. `ArraysKeepValues`: under `StorageInv` the headers and blocks
  are seen as sequences (`Image`) and capacities (`Rooms`), and there is one lemma
  per call: it takes the step of `ValueArrays` of that name.
- **HeapProofs, dyn.** The arrays come after the heap in the same module. `DynInv` has three parts: `Types`, `Protocol` (an array that
  is open is a created one, and no string is on its way into it; one that is not
  created has no fields) and, while no push went astray, `Stays`: the fields lie one behind the
  other, each as the bytes `byte.c` makes of its number. `FieldsStayInPlace` adds
  that these bytes read back as the number (`ReadsBack`: digits by division, by
  induction, and `HalvesMakeWhole` for `write8b`), for bytes of any width.
  `FieldsStayOrdered` rests on `BytesAreOrdered`: of two numbers the one with the
  smaller byte at the first place where they differ is the smaller one.
- **HashProofs.** The chains are a family of sequences, one per cell of a table in
  use: each node links to the next one and the last to NULL, and no node is in two
  places (`Family`). `HashInv` says that there is such a family with every node in
  the cell of its key (`Knows`): it is the witness the walks of the macros are
  compared with. `HASH_INSERT` appends to one sequence (`Appended`),
  `HASH_DELETE` takes one node out (`Popped`, `Unlinked`), `HASH_MIGRATE` does
  both, by an induction over the nodes of a chain inside one over the cells. The
  walks have a closed form first (`ChainIs`, `UntilFinds`), which shows that as many
  rounds as there are nodes are enough. For `HashImplements` the nodes of a key are
  the ones of a chain that have it, in order (`WithKey`): what a macro does to a
  chain becomes what `KeyIndex` does to the nodes of one key.
- **ListProofs.** `ListsStayRings` (`RingsIntact`) for every function of `list.c`,
  both sorts included. `ListInv` says that there is a function `o` that gives every
  allocated node the end node of its list, such that (`Rings`) `next` and `prev`
  stay among the nodes of one owner and are inverse to each other, and a set of nodes
  that `next` does not lead out of has an end node: a ring is one circle and not
  several. The end nodes are those of the lists the client keeps and the leaked
  ones, which are alone. With `o` as witness the assignments of `list_insert`,
  `list_erase` and `transfer` are checked without a path in hand; only positions and
  the walk of `Ring` need the circle as a sequence (`Trail`, `Circle`). A loop has an
  invariant that counts the rounds it has left (`Clearing`, `Merging`, `Turning`...),
  which also shows that `Rounds` is enough. `list_clear` and `list_reverse` break the
  rings on their way, so theirs say which links are still the old ones. The lemma of an
  operator says what memory it `Becomes`: whole again, with owners changed only
  among the lists it was given (`Confined`). For the sorts the counters are a binary
  number: counter j is empty or holds 2^(j-1) values (`Filled`), so that a carry never
  goes past the last one, which is why the list must be shorter than 2^`Counters`;
  in the end one counter holds all values (`Collected`), and every other
  temporary list is empty.
- **UtilitiesProofs** has a section per part.
  *Overflow.* `Exactness`: at every width each operation reports an
  overflow exactly when the result is not in the type. The invariant adds that
  the operands are in the type (`CallIsLegal`); the work is in the lemmas about
  the code's tests, of which `MulOverflowsExactly` (bounds by truncating
  division, and the shortcut for operands of half the width) and
  `ProductWrapsExactly` (dividing the wrapped product again) are the ones to
  read.
  *Sec.* `ValidDeadline`, `ExactDeadline`, `ExactConversion` from one
  invariant: normalised, exact, and a timespec in range.
  *Sort.* `Sorting`: for every size and all numbers, each of the four
  functions returns the numbers it was given in ascending order. The invariant
  `IInv` has three parts. `Filled` puts `tmp` back into the hole of an insertion:
  with it every step of every function is an exchange or nothing
  (`RearrangesSwapped`, `HoleExchanges`). `BubbleInv`, `SelectionInv` and `GapInv`
  say what each loop has put in place; for the insertions only the pass with gap
  1 matters, so `GapInv` is silent about wider gaps. The locals stay in
  their ranges, which also shows that no index leaves the array.
  *Calc.* `Alignment`: the alignment macros are exact at every width of
  `size_t`, for every alignment that divides its range, as long as the addition
  does not wrap. `Folding`: the folds take every byte once, in order, whatever
  the length leaves over from the rounds of eight. `Rounding`: in every round the
  variable of `calc_2_power_up` is a power of two below twice the argument, and the
  argument of `calc_2_log` lies between two neighbouring multiples of the power it has come to. `Primes` is about `calc_find_prime` as the machine computes it, at every width of
  `size_t` and significand. Rounding moves a number by less than one part in 512
  and each factor raises it by more than one in a hundred, so the candidate is
  not below `n + 100`; where the first loop ends `n + 100` is at most half the
  range, so the candidate is at most three quarters of it and no product leaves
  `size_t`. The search stops at the prime of `PrimeAssumption` at the latest, so
  `n++` never wraps, and the squares it compares with stay in range. A number
  without a divisor up to its root has none, because the least divisor is not
  above the root. Where `n + 100` wraps the candidate may be 0 or 1, which have no
  divisor to find.
  *Lst.* `ListsStayWhole` and the refinement `ListsKeepOrder`: there is always a
  path that header and links are along, and it is the witness for the sequence
  of `ListOrder`.

Only model-checked:

- all liveness (`WaiterServed`, `WaiterReleased`, `TimedWaitReturns`,
  `CallsReturn`, `SortsReturn`): the prover does not handle `ENABLED`;
- the values in the lists of `list.c` (`ImplementsValueLists`): that the rings hold
  the sequences `ValueLists` says, and that the merges and sorts are stable. The proof
  that they are rings follows owners, not order.

## 6. Not modelled

- `mutex_trylock` and `mutex_timedlock`: nothing in the repository calls them.
- `rwlock`, `thread`: each function is one pthread call and an assertion on its
  result; a model would be one of POSIX. `thread_sleep` is declared but commented
  out.
- `rbtree`, `type.h`: types, no operations.
- `list_old`, `vec_old`: superseded, and commented out.
- Of `calc.c`: `calc_2_exp`, `calc_2pow_remainder`, `uint64_create` and the mixing
  inside `calc_fold_pair`, single expressions without control.
- Of `dyn.c`: the code behind the NULL dereference of a second block, which no
  execution reaches. The six functions of `sort.h` without a body.
- Integers of `sema` and times of `sec` are unbounded: `value++` overflows only
  after 2^31 - 1 unconsumed posts. malloc never fails (the code asserts it).
- Undefined behaviour is modelled where the code runs into it by itself: the
  dangling pointer of `heap.c`, the unset block of `dyn.c`, fresh memory in `vec.c`
  (`Junk`). Elsewhere the preconditions of the actions exclude it.

Two hazards have no property. The NULL heap of `dyn.c:30` ends the program, and
nothing in the code says otherwise. `HASH_INSERT` of a node that is already in a
chain is a rule for the client that no comment states, and the model's client
keeps it.

## 7. Plan

Written in this order: the monitor and what is built on it; `lst` and the heap
it carries; the arithmetic; `list`; `hash`; `vec`; `dyn` and `byte`; `sort`; then
the composition of the independent parts; then the proofs, the largest last. What
is left is one proof, the refinement `ImplementsValueLists`: `ListProofs` has the nodes
of a ring as a sequence (`Circle`), and what each operator does to that sequence would
have to be said beside what it does to the owners.
