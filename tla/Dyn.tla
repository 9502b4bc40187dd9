-------------------------------- MODULE Dyn --------------------------------
(***************************************************************************)
(* dyn.c: arrays of bytes, and byte.c, the big-endian numbers a client     *)
(* writes into them.  The client opens an array for a few bytes, writes    *)
(* fields at the pointer it gets and closes the array behind the last of   *)
(* them, or pushes a single field or a string.                             *)
(*                                                                         *)
(* An array starts as one block, itself, and heap is NULL.  dyn_array_     *)
(* add_block sets heap only when it is set already (dyn.c:30), so it is    *)
(* NULL for good: the last block of an array is the array, and where a     *)
(* second one is due the program dereferences NULL.  The code for more     *)
(* blocks is never reached and is not modelled.                            *)
(*                                                                         *)
(* dyn_array_push reads block->used before block is set (dyn.c:91).  The   *)
(* slot holds what earlier calls left there: the address of an array, this *)
(* one or another, or an address that ends the program.                    *)
(***************************************************************************)
EXTENDS Integers, Sequences, SequencesExt

CONSTANTS
  Arrays,         (* the arrays of the client                              *)
  DataSize,       (* DYN_ARRAY_DATA_SIZE                                   *)
  ByteModulus,    (* 2 to the width of a byte                              *)
  Fields,         (* the fields it writes: [width, value], width 1, 2, 4, 8 *)
  OpenSizes,      (* the sizes it opens an array for                       *)
  Strings,        (* the strings it pushes, sequences of bytes             *)
  Unset,          (* a byte that is not initialised                        *)
  MaxFields       (* bound: no write once the arrays hold so many fields   *)

Byte == 0 .. (ByteModulus - 1)

(* 2 to the width of k bytes.                                              *)
Radix[k \in Nat] == IF k = 0 THEN 1 ELSE ByteModulus * Radix[k - 1]

ASSUME DynAssumption ==
  /\ DataSize \in Nat \ {0}
  /\ ByteModulus \in Nat \ {0, 1}
  /\ \A f \in Fields : /\ f.width \in {1, 2, 4, 8}
                       /\ f.value \in 0 .. (Radix[f.width] - 1)
  /\ OpenSizes \subseteq 1..DataSize
  /\ Strings \subseteq Seq(Byte)
  /\ Unset \notin Byte
  /\ MaxFields \in Nat

VARIABLES
  used,      (* used of every array, or -1: the array is not created       *)
  data,      (* its bytes                                                  *)
  open,      (* [at, end] of the part the client has open, or Closed       *)
  str,       (* what dyn_push_string has still to push to every array      *)
  kept,      (* ghost: the fields the client has written, in order         *)
  astray,    (* ghost: a push has gone to the block of another array       *)
  stopped    (* "running", or what stopped the program: "null pointer",    *)
             (* "wild pointer" or "assertion"                              *)

dynVars == <<used, data, open, str, kept, astray, stopped>>

Closed   == [at |-> 0, end |-> 0]
NoString == [a \in Arrays |-> <<>>]
Blank    == [k \in 0..(DataSize - 1) |-> Unset]

Alive == {a \in Arrays : used[a] >= 0}

DynInit ==
  /\ used = [a \in Arrays |-> -1]
  /\ data = [a \in Arrays |-> Blank]
  /\ open = [a \in Arrays |-> Closed]
  /\ str = NoString
  /\ kept = [a \in Arrays |-> <<>>]
  /\ astray = FALSE
  /\ stopped = "running"

(***************************************************************************)
(* byte.c: write1b to write8b, read1b to read8b                            *)
(***************************************************************************)
LittleEndian(n, width) ==      \* mutant: the lowest byte first
  [k \in 1..width |-> (n \div Radix[k - 1]) % ByteModulus]

BigEndian(n, width) ==
  [k \in 1..width |-> (n \div Radix[width - k]) % ByteModulus]

(* The number that the first k bytes make.                                 *)
Numbers(bytes) ==
  LET read[k \in 0..Len(bytes)] == IF k = 0 THEN 0 ELSE ByteModulus * read[k - 1] + bytes[k]
  IN  read

Number(bytes) == Numbers(bytes)[Len(bytes)]

Write(f) ==
  IF f.width = 8
  THEN BigEndian(f.value \div Radix[4], 4) \o BigEndian(f.value, 4)
  ELSE BigEndian(f.value, f.width)

Read(bytes) ==
  IF Len(bytes) = 8
  THEN Number(SubSeq(bytes, 1, 4)) * Radix[4] + Number(SubSeq(bytes, 5, 8))
  ELSE Number(bytes)

(***************************************************************************)
(* The bytes of a block, and where the fields of an array lie in it        *)
(***************************************************************************)
Stored(block, at, bytes) ==
  [k \in DOMAIN block |->
     IF k \in at..(at + Len(bytes) - 1) THEN bytes[k - at + 1] ELSE block[k]]

Loaded(block, at, width) == [k \in 1..width |-> block[at + k - 1]]

(* Where the i-th field ends when they lie one behind the other.           *)
Ends(fields) ==
  LET end[i \in 0..Len(fields)] == IF i = 0 THEN 0 ELSE end[i - 1] + fields[i].width
  IN  end

Total(fields) == Ends(fields)[Len(fields)]

Offset(a, i) == Ends(kept[a])[i - 1]

AsFields(bytes) == [k \in DOMAIN bytes |-> [width |-> 1, value |-> bytes[k]]]

MayWrite == FoldSet(LAMBDA a, sum : sum + Len(kept[a]), 0, Arrays) < MaxFields

(* Between two calls: dyn_push_string is under way until nothing is left.  *)
Ready == stopped = "running" /\ str = NoString

(* Bound: after a push that went astray the client only reads.             *)
Sound == Ready /\ ~astray

Stops(reason) ==
  /\ stopped' = reason
  /\ UNCHANGED <<used, data, open, str, kept, astray>>

-----------------------------------------------------------------------------
DynArrayCreate(a) ==
  /\ Sound /\ used[a] = -1
  /\ used' = [used EXCEPT ![a] = 0]
  /\ UNCHANGED <<data, open, str, kept, astray, stopped>>

(* There is no heap to free; the client does not use the array any more.   *)
DynArrayFree(a) ==
  /\ Sound /\ open[a] = Closed
  /\ used' = [used EXCEPT ![a] = -1]
  /\ data' = [data EXCEPT ![a] = Blank]
  /\ kept' = [kept EXCEPT ![a] = <<>>]
  /\ UNCHANGED <<open, str, astray, stopped>>

(***************************************************************************)
(* dyn_array_open, the writes of the client, dyn_array_close               *)
(***************************************************************************)
NoRoom(block, size) == used[block] + size > DataSize

DynArrayOpen(a) ==
  /\ Sound /\ open[a] = Closed
  /\ \E size \in OpenSizes :
       /\ IF NoRoom(a, size) THEN Stops("null pointer")
          ELSE /\ open' = [open EXCEPT ![a] = [at |-> used[a], end |-> used[a] + size]]
               /\ UNCHANGED <<used, data, str, kept, astray, stopped>>

WriteField(a) ==
  /\ Sound /\ MayWrite /\ open[a] # Closed
  /\ \E f \in Fields :
       /\ open[a].at + f.width <= open[a].end
       /\ data' = [data EXCEPT ![a] = Stored(@, open[a].at, Write(f))]
       /\ open' = [open EXCEPT ![a].at = @ + f.width]
       /\ kept' = [kept EXCEPT ![a] = Append(@, f)]
  /\ UNCHANGED <<used, str, astray, stopped>>

CloseAtEnd(a) ==               \* mutant: used grows by what open was asked for
  /\ Sound /\ open[a] # Closed
  /\ used' = [used EXCEPT ![a] = open[a].end]
  /\ open' = [open EXCEPT ![a] = Closed]
  /\ UNCHANGED <<data, str, kept, astray, stopped>>

DynArrayClose(a) ==
  /\ Sound /\ open[a] # Closed
  /\ used' = [used EXCEPT ![a] = open[a].at]
  /\ open' = [open EXCEPT ![a] = Closed]
  /\ UNCHANGED <<data, str, kept, astray, stopped>>

(***************************************************************************)
(* dyn_array_push, of one field or of the next piece of a string           *)
(***************************************************************************)
(* The block that is read first, unset, may be one of any array.           *)
Push(a, bytes) ==
  \/ Stops("wild pointer")
  \/ \E unset \in Alive :
       LET block == IF NoRoom(unset, Len(bytes)) THEN a ELSE unset
       IN  IF NoRoom(block, Len(bytes)) THEN Stops("null pointer")
           ELSE /\ data' = [data EXCEPT ![block] = Stored(@, used[block], bytes)]
                /\ used' = [used EXCEPT ![block] = @ + Len(bytes)]
                /\ astray' = (astray \/ block # a)
                /\ UNCHANGED <<open, stopped>>

DynArrayPush(a) ==
  /\ Sound /\ MayWrite /\ open[a] = Closed
  /\ \E f \in Fields :
       /\ Push(a, Write(f))
       /\ stopped' = "running" =>
            /\ kept' = [kept EXCEPT ![a] = Append(@, f)]
            /\ UNCHANGED str

DynPushString(a) ==
  /\ Sound /\ MayWrite /\ open[a] = Closed
  /\ \E s \in Strings :
       str' = [str EXCEPT ![a] = s]
  /\ UNCHANGED <<used, data, open, kept, astray, stopped>>

(* n_copied: a string longer than a block goes in pieces.                  *)
PushPiece(a) ==
  LET n == IF Len(str[a]) > DataSize THEN DataSize ELSE Len(str[a])
      piece == SubSeq(str[a], 1, n)
  IN  /\ stopped = "running" /\ ~astray /\ str[a] # <<>>
      /\ Push(a, piece)
      /\ stopped' = "running" =>
           /\ str' = [str EXCEPT ![a] = SubSeq(@, n + 1, Len(@))]
           /\ kept' = [kept EXCEPT ![a] = @ \o AsFields(piece)]

(* dyn_array_get_element, with the position of a field the client wrote.   *)
DynArrayGetElement(a) ==
  /\ Ready /\ open[a] = Closed
  /\ \E i \in DOMAIN kept[a] :
       IF used[a] >= Offset(a, i) THEN UNCHANGED dynVars ELSE Stops("assertion")

DynNext ==
  \/ \E a \in Arrays : DynArrayCreate(a)
  \/ \E a \in Alive :
       \/ DynArrayFree(a)
       \/ DynArrayOpen(a) \/ WriteField(a) \/ DynArrayClose(a)
       \/ DynArrayPush(a) \/ DynPushString(a) \/ PushPiece(a)
       \/ DynArrayGetElement(a)

DynSpec == DynInit /\ [][DynNext]_dynVars
-----------------------------------------------------------------------------
Reach(a) == IF open[a] = Closed THEN used[a] ELSE open[a].at

(* As long as no push went astray, opening, writing, closing and pushing   *)
(* in any order, on several arrays at a time, leave every field where it   *)
(* was put: its position is what was written before it, its bytes read     *)
(* back as the number that was written, and the data size counts them all  *)
(* and never exceeds the block (the assertions at dyn.c:66, 80 and 101).   *)
FieldsReadBack ==
  ~astray =>
    \A a \in Alive :
      /\ Reach(a) = Total(kept[a]) /\ Reach(a) <= DataSize
      /\ \A i \in DOMAIN kept[a] :
           LET f == kept[a][i] IN Read(Loaded(data[a], Offset(a, i), f.width)) = f.value

(* Fields of one width compare byte by byte, as memcmp would compare them, *)
(* the way their numbers compare, whichever arrays they are in: what the   *)
(* order of bytes is for.                                                  *)
Precedes(s, t) ==
  \E k \in DOMAIN s : s[k] < t[k] /\ \A j \in 1..(k - 1) : s[j] = t[j]

FieldsOrdered ==
  ~astray =>
    \A a, b \in Alive : \A i \in DOMAIN kept[a], j \in DOMAIN kept[b] :
      LET f == kept[a][i]
          g == kept[b][j]
      IN  f.width = g.width =>
            (f.value < g.value <=>
             Precedes(Loaded(data[a], Offset(a, i), f.width),
                      Loaded(data[b], Offset(b, j), g.width)))

(* The assertion of dyn_array_get_element (dyn.c:125,                      *)
(* "dyn_block_get_used(block) >= pos") holds for the position of every     *)
(* field the client has put into the array.                                *)
DynAssertionsHold == stopped # "assertion"
=============================================================================
