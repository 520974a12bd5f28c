------------------------------- MODULE Buffer -------------------------------
(***************************************************************************)
(* rtc::BufferT (rtc_base/buffer.h): a block of memory with a size and a   *)
(* capacity.  A ZeroOnFreeBuffer, which holds keys, overwrites what it     *)
(* gives up.  After the operations: such a buffer with another one that it *)
(* moves to and swaps with, then handles of one that is copied on write.   *)
(***************************************************************************)
EXTENDS Integers, Sequences, FiniteSets

CONSTANTS
  Data,        \* values of an element that somebody writes, positive
  MaxCapacity  \* bound: elements of a block

ASSUME BufferAssumption == Data \subseteq Nat \ {0} /\ MaxCapacity \in Nat

Zero == 0
Uninitialized == -1     \* new memory is not initialized

Larger(i, j) == IF i >= j THEN i ELSE j
Smaller(i, j) == IF i <= j THEN i ELSE j

Fill(n, x) == [i \in 1 .. n |-> x]

(* cells is data_, as long as capacity_. *)
EmptyBuffer == [size |-> 0, cells |-> << >>]

Capacity(b) == Len(b.cells)
Contents(b) == SubSeq(b.cells, 1, b.size)

NewBuffer(data, capacity) ==
  [size |-> Len(data),
   cells |-> data \o Fill(Larger(Len(data), capacity) - Len(data), Uninitialized)]

(* EnsureCapacityWithHeadroom. *)
EnsureCapacity(b, capacity, extra_headroom) ==
  IF capacity <= Capacity(b) THEN b
  ELSE NewBuffer(Contents(b),
         IF extra_headroom THEN Larger(capacity, Capacity(b) + Capacity(b) \div 2)
         ELSE capacity)

(* memcpy behind the first elements. *)
Overwrite(b, at, data) ==
  [b EXCEPT !.cells = [i \in DOMAIN @ |-> IF i > at /\ i <= at + Len(data)
                                          THEN data[i - at] ELSE @[i]]]

AppendData(b, data) ==
  [Overwrite(EnsureCapacity(b, b.size + Len(data), TRUE), b.size, data)
     EXCEPT !.size = b.size + Len(data)]

(* ZeroTrailingData. *)
ZeroTrailing(b, n) == Overwrite(b, b.size, Fill(n, Zero))

SetSize(b, n, zero) ==
  LET c == [EnsureCapacity(b, n, TRUE) EXCEPT !.size = n]
  IN  IF zero /\ n < b.size THEN ZeroTrailing(c, b.size - n) ELSE c

SetData(b, data, zero) ==
  LET c == AppendData([b EXCEPT !.size = 0], data)
  IN  IF zero /\ c.size < b.size THEN ZeroTrailing(c, b.size - c.size) ELSE c

Clear(b, zero) ==
  [size |-> 0, cells |-> IF zero THEN Fill(Capacity(b), Zero) ELSE b.cells]

-----------------------------------------------------------------------------
VARIABLES zbuf,   \* two ZeroOnFreeBuffers
          freed,  \* what was in memory when it was given back
          zval    \* history: the elements that each should have

zbufVars == <<zbuf, freed, zval>>

Zs == {"z1", "z2"}

ZbufInit == /\ zbuf = [z \in Zs |-> EmptyBuffer]
            /\ freed = {} /\ zval = [z \in Zs |-> << >>]

(* MaybeZeroCompleteBuffer, then the block is given back. *)
Released(b) == { Clear(b, TRUE).cells[i] : i \in DOMAIN b.cells }

Store(z, b, v) ==
  /\ Capacity(b) <= MaxCapacity
  /\ zbuf' = [zbuf EXCEPT ![z] = b]
  /\ zval' = [zval EXCEPT ![z] = v]
  /\ freed' = IF Capacity(b) = Capacity(zbuf[z]) THEN freed
              ELSE freed \union Released(zbuf[z])

(* The setter of AppendData and SetData writes to a part of what it asked for:
   the size goes up and down again, without ZeroTrailing. *)
WithSetter(b, max, data) ==
  [Overwrite(SetSize(b, b.size + max, TRUE), b.size, data)
     EXCEPT !.size = b.size + Len(data)]

ZAppend(z, data, spare) ==
  Store(z, IF spare = 0 THEN AppendData(zbuf[z], data)
           ELSE WithSetter(zbuf[z], Len(data) + spare, data), zval[z] \o data)

ZSetData(z, data) == Store(z, SetData(zbuf[z], data, TRUE), data)

ZSetSize(z, n) ==
  LET b == SetSize(zbuf[z], n, TRUE)
      kept == Smaller(n, zbuf[z].size)
  IN  Store(z, b, SubSeq(zval[z], 1, kept) \o SubSeq(Contents(b), kept + 1, n))

ZReserve(z, n) == Store(z, EnsureCapacity(zbuf[z], n, FALSE), zval[z])

ZClear(z) == Store(z, Clear(zbuf[z], TRUE), << >>)

(* operator=(BufferT&&): OnMovedFrom leaves the other one empty. *)
ZMove(z, from) ==
  /\ z # from
  /\ zbuf' = [zbuf EXCEPT ![z] = zbuf[from], ![from] = EmptyBuffer]
  /\ zval' = [zval EXCEPT ![z] = zval[from], ![from] = << >>]
  /\ freed' = freed \union Released(zbuf[z])

ZSwap ==
  /\ zbuf' = [z \in Zs |-> zbuf[CHOOSE o \in Zs : o # z]]
  /\ zval' = [z \in Zs |-> zval[CHOOSE o \in Zs : o # z]]
  /\ UNCHANGED freed

Pieces == { <<x>> : x \in Data } \union { <<x, y>> : x, y \in Data }

ZbufNext ==
  \/ \E z \in Zs :
       \/ \E data \in Pieces : ZSetData(z, data) \/ \E spare \in 0 .. 1 : ZAppend(z, data, spare)
       \/ \E n \in 0 .. MaxCapacity : ZSetSize(z, n) \/ ZReserve(z, n)
       \/ ZClear(z)
       \/ \E from \in Zs : ZMove(z, from)
  \/ ZSwap

ZbufSpec == ZbufInit /\ [][ZbufNext]_zbufVars

-----------------------------------------------------------------------------
(***************************************************************************)
(* What the comment at MaybeZeroCompleteBuffer relies on: the unused part  *)
(* of a ZeroOnFreeBuffer never holds an element that was written, so that  *)
(* nothing written outlives the size of the buffer, however it is grown,   *)
(* shrunk, set, moved and swapped; and the elements below its size are the *)
(* ones that were put there last.                                          *)
(***************************************************************************)
NothingLeftBehind ==
  /\ \A z \in Zs :
       /\ zbuf[z].size <= Capacity(zbuf[z])
       /\ \A i \in zbuf[z].size + 1 .. Capacity(zbuf[z]) : zbuf[z].cells[i] \notin Data
       /\ Contents(zbuf[z]) = zval[z]
  /\ freed \subseteq {Zero}

-----------------------------------------------------------------------------
(***************************************************************************)
(* rtc::CopyOnWriteBuffer (rtc_base/copy_on_write_buffer.h, .cc): handles  *)
(* that share a counted Buffer (ref_counted_object.h, scoped_refptr.h)     *)
(* until one of them writes.                                               *)
(***************************************************************************)
CONSTANTS
  Handles,   \* CopyOnWriteBuffer objects
  MaxSize    \* bound: elements of one of them

ASSUME CowAssumption == IsFiniteSet(Handles) /\ MaxSize \in Nat

Null == 0
Blocks == 1 .. Cardinality(Handles) + 1

VARIABLES buffer,   \* handle -> block, or Null
          heap,     \* block -> Buffer
          refs,     \* block -> ref_count_; 0 is a block that was deleted
          value     \* history: what each handle should show

cowVars == <<buffer, heap, refs, value>>

CowInit ==
  /\ buffer = [h \in Handles |-> Null]
  /\ heap = [b \in Blocks |-> EmptyBuffer]
  /\ refs = [b \in Blocks |-> 0]
  /\ value = [h \in Handles |-> << >>]

HasOneRef(b) == refs[b] = 1

(* scoped_refptr: the new block is counted before the old one is let go. *)
Repoint(h, b) ==
  /\ buffer' = [buffer EXCEPT ![h] = b]
  /\ refs' = [x \in Blocks |-> refs[x] + (IF x = b THEN 1 ELSE 0)
                                       - (IF x = buffer[h] THEN 1 ELSE 0)]

(* new RefCountedObject<Buffer>: a block that no one refers to. *)
FreeBlock == CHOOSE b \in Blocks : refs[b] = 0

NewBlock(h, b) == Repoint(h, FreeBlock) /\ heap' = [heap EXCEPT ![FreeBlock] = b]

InPlace(h, b) == heap' = [heap EXCEPT ![buffer[h]] = b] /\ UNCHANGED <<buffer, refs>>

Shows(h, v) == value' = [value EXCEPT ![h] = v]

MyBuffer(h) == heap[buffer[h]]

Bounded(n) == n <= MaxSize

(* Mutant: the block is written to although others share it. *)
WriteInPlace(h, alone, copied) == InPlace(h, alone)

(* CloneDataIfReferenced, and the same test in SetSize, SetData and Clear:
   what to do when the block is this handle's alone, and the block to make
   when it is not. *)
WriteTo(h, alone, copied) ==
  IF HasOneRef(buffer[h]) THEN InPlace(h, alone) ELSE NewBlock(h, copied)

CopySetData(h, data) ==
  /\ Shows(h, data)
  /\ IF buffer[h] # Null
     THEN WriteTo(h, SetData(MyBuffer(h), data, FALSE),
                     NewBuffer(data, Capacity(MyBuffer(h))))
     ELSE IF data # << >> THEN NewBlock(h, NewBuffer(data, Len(data)))
     ELSE UNCHANGED <<buffer, heap, refs>>

CopyAppend(h, data) ==
  LET n == Len(value[h]) + Len(data) IN
  /\ Bounded(n) /\ Shows(h, value[h] \o data)
  /\ IF buffer[h] = Null THEN NewBlock(h, NewBuffer(data, Len(data)))
     ELSE WriteTo(h, AppendData(MyBuffer(h), data),
                  AppendData(NewBuffer(Contents(MyBuffer(h)),
                                       Larger(Capacity(MyBuffer(h)), n)), data))

(* The new part of a larger buffer is whatever is there. *)
CopySetSize(h, n) ==
  LET kept == SubSeq(value[h], 1, Smaller(n, Len(value[h])))
      b == IF buffer[h] = Null THEN NewBuffer(Fill(n, Uninitialized), n)
           ELSE IF HasOneRef(buffer[h]) THEN SetSize(MyBuffer(h), n, FALSE)
           ELSE SetSize(NewBuffer(kept, Larger(Capacity(MyBuffer(h)), n)), n, FALSE)
  IN
  /\ Bounded(n) /\ Shows(h, kept \o SubSeq(Contents(b), Len(kept) + 1, n))
  /\ IF buffer[h] # Null THEN WriteTo(h, b, b)
     ELSE IF n > 0 THEN NewBlock(h, b) ELSE UNCHANGED <<buffer, heap, refs>>

CopyEnsureCapacity(h, n) ==
  /\ UNCHANGED value
  /\ IF buffer[h] = Null
     THEN IF n > 0 THEN NewBlock(h, NewBuffer(<< >>, n)) ELSE UNCHANGED <<buffer, heap, refs>>
     ELSE IF n <= Capacity(MyBuffer(h)) THEN UNCHANGED <<buffer, heap, refs>>
     ELSE WriteTo(h, EnsureCapacity(MyBuffer(h), n, FALSE),
                     NewBuffer(Contents(MyBuffer(h)), n))

CopyClear(h) ==
  /\ Shows(h, << >>)
  /\ IF buffer[h] = Null THEN UNCHANGED <<buffer, heap, refs>>
     ELSE WriteTo(h, Clear(MyBuffer(h), FALSE), NewBuffer(<< >>, Capacity(MyBuffer(h))))

(* data() of a handle that is not const, and a write through it. *)
CopyWrite(h, i, x) ==
  /\ i \in DOMAIN value[h] /\ Shows(h, [value[h] EXCEPT ![i] = x])
  /\ WriteTo(h, Overwrite(MyBuffer(h), i - 1, <<x>>),
                Overwrite(NewBuffer(Contents(MyBuffer(h)), Capacity(MyBuffer(h))), i - 1, <<x>>))

(* Copy construction, assignment and SetData of another handle. *)
CopyFrom(h, from) ==
  /\ h # from /\ Shows(h, value[from])
  /\ Repoint(h, buffer[from]) /\ UNCHANGED heap

MoveFrom(h, from) ==
  /\ h # from
  /\ value' = [value EXCEPT ![h] = value[from], ![from] = << >>]
  /\ buffer' = [buffer EXCEPT ![h] = buffer[from], ![from] = Null]
  /\ refs' = [b \in Blocks |-> IF b = buffer[h] THEN refs[b] - 1 ELSE refs[b]]
  /\ UNCHANGED heap

Swap(h, with) ==
  /\ h # with
  /\ value' = [value EXCEPT ![h] = value[with], ![with] = value[h]]
  /\ buffer' = [buffer EXCEPT ![h] = buffer[with], ![with] = buffer[h]]
  /\ UNCHANGED <<heap, refs>>

CowNext ==
  \E h \in Handles :
    \/ \E data \in Pieces \union {<< >>} : CopySetData(h, data) \/ CopyAppend(h, data)
    \/ \E n \in 0 .. MaxSize : CopySetSize(h, n) \/ CopyEnsureCapacity(h, n)
    \/ \E i \in 1 .. MaxSize, x \in Data : CopyWrite(h, i, x)
    \/ \E o \in Handles : CopyFrom(h, o) \/ MoveFrom(h, o) \/ Swap(h, o)
    \/ CopyClear(h)

CowSpec == CowInit /\ [][CowNext]_cowVars

-----------------------------------------------------------------------------
(***************************************************************************)
(* Every handle behaves as if it had a buffer of its own: a write through  *)
(* one of them never shows through another, however they were copied,      *)
(* moved and swapped; and a block counts the handles that share it, so     *)
(* none is deleted while it is used and none is kept when it is not.       *)
(***************************************************************************)
HandlesAreIndependent ==
  /\ \A h \in Handles :
       value[h] = IF buffer[h] = Null THEN << >> ELSE Contents(MyBuffer(h))
  /\ \A b \in Blocks : refs[b] = Cardinality({ h \in Handles : buffer[h] = b })

(* What a handle or a buffer is given, it keeps, and it keeps nothing else. *)
BuffersKeepBytes == NothingLeftBehind /\ HandlesAreIndependent
=============================================================================
