-------------------------------- MODULE Vec --------------------------------
(***************************************************************************)
(* vec.c: arrays that grow, and stack.c, whose functions are those of      *)
(* vec.c under other names (stack_push is vector_push_back, stack_pop      *)
(* vector_pop_back, stack_swap vector_swap).                               *)
(*                                                                         *)
(* A header holds the block its vector lives in and, in elements, how much *)
(* of it is used (finish - start) and how much there is (end_of_storage -  *)
(* start).  Elements are numbered from 0, as offsets from start are.  A    *)
(* call is one action; calls do not overlap.  The model follows the        *)
(* program until it reads through NULL or an assertion fails.              *)
(***************************************************************************)
EXTENDS Integers, FiniteSets, FiniteSetsExt

CONSTANTS
  Vectors,       (* the vectors the client keeps                           *)
  Blocks,        (* bound: the places malloc has                           *)
  Values,        (* what an element may hold                               *)
  Null,          (* NULL                                                   *)
  Junk,          (* what fresh memory holds                                *)
  Gone,          (* a vector that is not initialised                       *)
  SizeOfValue,   (* sizeof_value, the same for all: vector_swap leaves it  *)
  MaxElements,   (* bound: how many elements the vectors hold together     *)
  MaxCapacity    (* bound: how many they have room for together            *)

(* A header; malloc finds a place: a call needs one block more than the    *)
(* other vectors have, until it has freed the one it replaces.             *)
Header == [start : Blocks \cup {Null}, size : Nat, cap : Nat]

ASSUME VecAssumption ==
  /\ Null \notin Blocks /\ Null \notin Values /\ Junk \notin Values \cup {Null}
  /\ Gone \notin Header
  /\ IsFiniteSet(Vectors)
  /\ IsFiniteSet(Blocks) /\ Cardinality(Blocks) > Cardinality(Vectors)
  /\ SizeOfValue \in Nat \ {0}
  /\ MaxElements \in Nat
  /\ MaxCapacity \in Nat

VARIABLES
  mem,        (* the elements every block has room for                     *)
  live,       (* the blocks malloc has handed out                          *)
  vec,        (* the headers: [start, size, cap], or Gone                  *)
  expected,   (* how many elements the client has reason to expect         *)
  outcome,    (* "running", or what stopped the program: "null pointer" or *)
              (* "assertion"                                               *)
  call        (* ghost: the last call, as ValueArrays records it           *)

vars == <<mem, live, vec, expected, outcome, call>>

(* What the next call depends on.                                          *)
State == <<mem, live, vec, expected, outcome>>

NoElements == [k \in {} |-> Junk]

Malloced(cap) == [k \in 0..(cap - 1) |-> Junk]

Alive == {v \in Vectors : vec[v] # Gone}

Cells(v) == mem[vec[v].start]
Size(v)  == vec[v].size
Cap(v)   == vec[v].cap
Full(v)  == Size(v) = Cap(v)

Elements  == MapThenSumSet(Size, Alive)
Capacity  == MapThenSumSet(Cap, Alive)

Init ==
  /\ mem = [b \in Blocks \cup {Null} |-> NoElements]
  /\ live = {}
  /\ vec = [v \in Vectors |-> Gone]
  /\ expected = [v \in Vectors |-> 0]
  /\ outcome = "running"
  /\ call = [fn |-> "none", vec |-> Gone, args |-> <<>>, ret |-> 0]

(* The argument "value" points to a value of the client, to an element of  *)
(* the vector itself, or nowhere.                                          *)
Outside(x) == <<"outside", x>>
Element(j) == <<"element", j>>
NullArg    == Outside(Null)

Args(v) == {Outside(x) : x \in Values} \cup {Element(j) : j \in 0..(Size(v) - 1)}

Read(c, w) == IF w[1] = "element" THEN c[w[2]] ELSE w[2]

(***************************************************************************)
(* copy, copy_backward, fill and fill_n (first to last - 1), construct     *)
(***************************************************************************)
Copy(c, first, last, to) ==
  LET after[k \in 0..(last - first)] ==
        IF k = 0 THEN c
        ELSE [after[k - 1] EXCEPT ![to + k - 1] = after[k - 1][first + k - 1]]
  IN  after[last - first]

CopyBackward(c, first, last, to) ==
  LET after[k \in 0..(last - first)] ==
        IF k = 0 THEN c
        ELSE [after[k - 1] EXCEPT ![to - k] = after[k - 1][last - k]]
  IN  after[last - first]

(* copy from one block to another.                                         *)
CopyOver(c, first, last, d, to) ==
  [k \in DOMAIN d |-> IF k \in to..(to + last - first - 1) THEN c[k - to + first] ELSE d[k]]

Fill(c, first, last, w) ==
  LET after[k \in 0..(last - first)] ==
        IF k = 0 THEN c
        ELSE [after[k - 1] EXCEPT ![first + k - 1] = Read(after[k - 1], w)]
  IN  after[last - first]

Construct(d, pos, c, w) ==
  IF w = NullArg THEN d ELSE [d EXCEPT ![pos] = Read(c, w)]

(***************************************************************************)
(* What a call may do to its vector and to the heap.                       *)
(***************************************************************************)
Called(fn, v, args, ret, size) ==
  /\ call' = [fn |-> fn, vec |-> v, args |-> args, ret |-> ret]
  /\ expected' = [expected EXCEPT ![v] = size]

(* The vector stays where it is.                                           *)
Stays(v, cells, size) ==
  /\ mem' = [mem EXCEPT ![vec[v].start] = cells]
  /\ vec' = [vec EXCEPT ![v].size = size]
  /\ UNCHANGED <<live, outcome>>

Fresh == CHOOSE b \in Blocks : b \notin live

(* malloc, the old block (if there is one) is freed, the header follows.   *)
MovesLeaking(v, cells, size, cap) ==   \* mutant: the old block is not freed
  /\ Capacity - Cap(v) + cap <= MaxCapacity
  /\ mem' = [mem EXCEPT ![Fresh] = cells]
  /\ live' = live \cup {Fresh}
  /\ vec' = [vec EXCEPT ![v] = [start |-> Fresh, size |-> size, cap |-> cap]]
  /\ UNCHANGED outcome

Moves(v, cells, size, cap) ==
  /\ Capacity - Cap(v) + cap <= MaxCapacity
  /\ mem' = [mem EXCEPT ![vec[v].start] = NoElements, ![Fresh] = cells]
  /\ live' = (live \cup {Fresh}) \ {vec[v].start}
  /\ vec' = [vec EXCEPT ![v] = [start |-> Fresh, size |-> size, cap |-> cap]]
  /\ UNCHANGED outcome

(* memcpy from NULL ends the program.                                      *)
Crashes ==
  /\ outcome' = "null pointer"
  /\ UNCHANGED <<mem, live, vec, expected, call>>

(* The client makes a call while the vectors hold what it expects.         *)
Ready ==
  /\ outcome = "running"
  /\ \A v \in Alive : expected[v] = Size(v)

Room == MaxElements - Elements

(***************************************************************************)
(* vector_init, vector_init1, vector_init2, vector_destroy                 *)
(***************************************************************************)
VectorInit(v) ==
  /\ Ready /\ v \notin Alive
  /\ vec' = [vec EXCEPT ![v] = [start |-> Null, size |-> 0, cap |-> 0]]
  /\ Called("init", v, <<0, 0>>, 0, 0)
  /\ UNCHANGED <<mem, live, outcome>>

(* vector_init2 fills the room vector_init1 makes.                         *)
VectorInitRoom(v) ==
  /\ Ready /\ v \notin Alive
  /\ \E cap \in 1..(MaxCapacity - Capacity), x \in Values \cup {Junk} :
       LET size == IF x = Junk THEN 0 ELSE cap
       IN  /\ size <= Room
           /\ mem' = [mem EXCEPT ![Fresh] = Fill(Malloced(cap), 0, size, Outside(x))]
           /\ live' = live \cup {Fresh}
           /\ vec' = [vec EXCEPT ![v] = [start |-> Fresh, size |-> size, cap |-> cap]]
           /\ Called(IF x = Junk THEN "init1" ELSE "init2", v, <<cap, x>>, 0, size)
  /\ UNCHANGED outcome

VectorDestroy(v) ==
  /\ Ready
  /\ mem' = [mem EXCEPT ![vec[v].start] = NoElements]
  /\ live' = live \ {vec[v].start}
  /\ vec' = [vec EXCEPT ![v] = Gone]
  /\ Called("destroy", v, <<>>, 0, 0)
  /\ UNCHANGED outcome

(***************************************************************************)
(* vector_reserve                                                          *)
(***************************************************************************)
VectorReserve(v) ==
  /\ Ready
  /\ \E cap \in 0..MaxCapacity :
       /\ Called("reserve", v, <<cap>>, 0, Size(v))
       /\ \/ /\ Cap(v) < cap
             /\ Moves(v, CopyOver(Cells(v), 0, Size(v), Malloced(cap), 0), Size(v), cap)
          \/ /\ Cap(v) >= cap
             /\ Stays(v, Cells(v), Size(v))

(***************************************************************************)
(* vector_insert_aux, vector_insert, vector_push_back                      *)
(***************************************************************************)
(* Room for one more: the last element is copied past the end, the others  *)
(* from position i on move up, and only then value is read.                *)
ShiftedUpwards(c, i, size, w) ==       \* mutant: copy where copy_backward is meant
  [Copy([c EXCEPT ![size] = c[size - 1]], i, size - 1, i + 1) EXCEPT ![i] = Read(c, w)]

Shifted(c, i, size, w) ==
  LET moved == CopyBackward([c EXCEPT ![size] = c[size - 1]], i, size - 1, size)
  IN  [moved EXCEPT ![i] = Read(moved, w)]

(* No room: twice the storage; value is read before the old one is freed.  *)
Regrown(c, i, size, w) ==
  LET d == CopyOver(c, 0, i, Malloced(IF size = 0 THEN 1 ELSE 2 * size), 0)
  IN  CopyOver(c, i, size, Construct(d, i, c, w), i + 1)

Grows(v, i, w) ==
  Moves(v, Regrown(Cells(v), i, Size(v), w), Size(v) + 1,
        IF Size(v) = 0 THEN 1 ELSE 2 * Size(v))

Appends(v, w) ==
  Stays(v, Construct(Cells(v), Size(v), Cells(v), w), Size(v) + 1)

VectorPushBack(v) ==
  /\ Ready /\ Room > 0
  /\ \E w \in Args(v) \cup {NullArg} :
       /\ IF Full(v) THEN Grows(v, Size(v), w) ELSE Appends(v, w)
       /\ Called("push_back", v, <<w>>, 0, Size(v) + 1)

(* What vector_insert returns, as an offset in bytes: n is one already     *)
(* when it is multiplied by the size again.                                *)
ReturnedOffset(i) == (i * SizeOfValue) * SizeOfValue

VectorInsert(v) ==
  /\ Ready /\ Room > 0
  /\ \E i \in 0..Size(v), w \in Args(v) \cup {NullArg} :
       \/ /\ \/ Full(v) /\ Grows(v, i, w)
             \/ ~Full(v) /\ i = Size(v) /\ Appends(v, w)
             \/ /\ ~Full(v) /\ i < Size(v) /\ w # NullArg
                /\ Stays(v, Shifted(Cells(v), i, Size(v), w), Size(v) + 1)
          /\ Called("insert", v, <<i, w>>, ReturnedOffset(i), Size(v) + 1)
       \/ ~Full(v) /\ i < Size(v) /\ w = NullArg /\ Crashes

(***************************************************************************)
(* vector_insert1                                                          *)
(***************************************************************************)
(* There is room for count more: with more than count elements behind the  *)
(* position their tail is moved first, otherwise the copies go first.      *)
Opened(c, i, size, count, w) ==
  IF size - i > count
  THEN LET tail  == Copy(c, size - count, size, size)
           moved == CopyBackward(tail, i, size - count, size)
       IN  Fill(moved, i, i + count, w)
  ELSE LET ahead == Fill(c, size, i + count, w)
           moved == Copy(ahead, i, size, i + count)
       IN  Fill(moved, i, size, w)

(* The branch that allocates belongs to count = 0 (vec.c:202): it makes    *)
(* room for twice the size and adds nothing.                               *)
InsertMany(v, i, count, w) ==
  IF count = 0
  THEN Moves(v, CopyOver(Cells(v), 0, Size(v), Malloced(2 * Size(v)), 0),
             Size(v), 2 * Size(v))
  ELSE IF Cap(v) - Size(v) >= count
  THEN Stays(v, Opened(Cells(v), i, Size(v), count, w), Size(v) + count)
  ELSE Stays(v, Cells(v), Size(v))

VectorInsert1(v) ==
  /\ Ready
  /\ \E i \in 0..Size(v), count \in 0..Room, w \in Args(v) :
       /\ InsertMany(v, i, count, w)
       /\ Called("insert1", v, <<i, count, w>>, 0, Size(v) + count)

(***************************************************************************)
(* vector_erase, vector_erase2, vector_clear, vector_pop_back              *)
(***************************************************************************)
Erases(v, i, j) ==
  Stays(v, Copy(Cells(v), j, Size(v), i), Size(v) - (j - i))

VectorErase(v) ==
  /\ Ready
  /\ \E i \in 0..(Size(v) - 1) :
       /\ Erases(v, i, i + 1)
       /\ Called("erase", v, <<i>>, i, Size(v) - 1)

VectorErase2(v) ==
  /\ Ready
  /\ \E i, j \in 0..Size(v) :
       /\ i <= j
       /\ Erases(v, i, j)
       /\ Called("erase2", v, <<i, j>>, i, Size(v) - (j - i))

VectorClear(v) ==
  /\ Ready
  /\ Erases(v, 0, Size(v))
  /\ Called("clear", v, <<>>, 0, 0)

VectorPopBack(v) ==
  /\ Ready /\ Size(v) > 0
  /\ Stays(v, Cells(v), Size(v) - 1)
  /\ Called("pop_back", v, <<>>, 0, Size(v) - 1)

(***************************************************************************)
(* vector_resize1, and vector_resize, which passes NULL as the value       *)
(***************************************************************************)
VectorResize1(v) ==
  /\ Ready
  /\ \E count \in 0..(Size(v) + Room), w \in Args(v) :
       /\ IF count < Size(v) THEN Erases(v, count, Size(v))
          ELSE InsertMany(v, Size(v), count - Size(v), w)
       /\ Called("resize1", v, <<count, w>>, 0, count)

VectorResize(v) ==
  /\ Ready
  /\ \E count \in 0..(Size(v) + Room) :
       IF count > Size(v) /\ count <= Cap(v) THEN Crashes
       ELSE /\ IF count < Size(v) THEN Erases(v, count, Size(v))
               ELSE InsertMany(v, Size(v), count - Size(v), NullArg)
            /\ Called("resize", v, <<count>>, 0, count)

VectorSwap(v, o) ==
  /\ Ready
  /\ vec' = [vec EXCEPT ![v] = vec[o], ![o] = vec[v]]
  /\ expected' = [expected EXCEPT ![v] = expected[o], ![o] = expected[v]]
  /\ call' = [fn |-> "swap", vec |-> v, args |-> <<o>>, ret |-> 0]
  /\ UNCHANGED <<mem, live, outcome>>

(* vector_at, with a position the client has reason to expect.             *)
VectorAt(v) ==
  /\ outcome = "running"
  /\ \E pos \in 0..(expected[v] - 1) :
       IF pos < Size(v)
       THEN /\ Called("at", v, <<pos>>, Cells(v)[pos], expected[v])
            /\ UNCHANGED <<mem, live, vec, outcome>>
       ELSE /\ outcome' = "assertion"
            /\ UNCHANGED <<mem, live, vec, expected, call>>

Next ==
  \/ \E v \in Vectors : VectorInit(v) \/ VectorInitRoom(v)
  \/ \E v \in Alive :
       \/ VectorDestroy(v) \/ VectorReserve(v)
       \/ VectorPushBack(v) \/ VectorInsert(v) \/ VectorInsert1(v)
       \/ VectorErase(v) \/ VectorErase2(v) \/ VectorClear(v) \/ VectorPopBack(v)
       \/ VectorResize1(v) \/ VectorResize(v)
       \/ VectorAt(v)
       \/ \E o \in Alive \ {v} : VectorSwap(v, o)

Spec == Init /\ [][Next]_vars
-----------------------------------------------------------------------------
(* Growing, reserving and swapping leave every vector a block of its own   *)
(* that has room for what it holds, and nothing else is allocated: no      *)
(* block is shared, freed twice, used after it was freed, or lost.         *)
StorageOwned ==
  /\ \A v \in Alive : /\ Size(v) <= Cap(v)
                      /\ DOMAIN Cells(v) = 0..(Cap(v) - 1)
  /\ \A v, o \in Alive : v # o /\ vec[v].start = vec[o].start => vec[v].start = Null
  /\ live = {vec[v].start : v \in Alive} \ {Null}

(* The assertion of vector_at (vec.c:119, "pos < vector_size(vec)") holds  *)
(* for every element the client has put into the vector.                   *)
AssertionsHold == outcome # "assertion"

(* The functions of vec.c do to their sequence of values and to the room   *)
(* there is what ValueArrays says.                                         *)
Contents(v) == [k \in 1..Size(v) |-> Cells(v)[k - 1]]

Abstract == INSTANCE ValueArrays WITH
  content  <- [v \in Vectors |-> IF v \in Alive THEN Contents(v) ELSE Gone],
  capacity <- [v \in Vectors |-> IF v \in Alive THEN Cap(v) ELSE 0]

ImplementsValueArrays == Abstract!Spec
=============================================================================
