----------------------------- MODULE ByteBuffer -----------------------------
(***************************************************************************)
(* ByteBufferWriter and ByteBufferReader (rtc_base/byte_buffer.h, .cc):    *)
(* integers of 1, 2, 3, 4 and 8 bytes in network order, integers of as     *)
(* many bytes as they need (7 bits a byte, the eighth says that another    *)
(* follows), and plain bytes.                                              *)
(*                                                                         *)
(* The size of a byte is a parameter: 256 in the program.                  *)
(***************************************************************************)
EXTENDS Integers, Sequences, SequencesExt

CONSTANTS
  Radix,      \* values of a byte (256)
  VarBytes,   \* bytes a varint may have (10: 64 bits by 7)
  Values,     \* integers that are written
  MaxItems,   \* bound: writes
  MaxReads    \* bound: reads

ASSUME ByteAssumption ==
  /\ Radix \in Nat /\ Radix % 2 = 0 /\ Radix > 2
  /\ VarBytes \in Nat /\ MaxItems \in Nat /\ MaxReads \in Nat
  /\ Values \subseteq 0 .. Radix^8 - 1

Widths == {1, 2, 3, 4, 8}      \* UInt8, UInt16, UInt24, UInt32, UInt64
Varint == 0                    \* the width that stands for a varint
Half == Radix \div 2
Failed == -1                   \* the value of a read that fails
Raw == -2                      \* the value of bytes that are not looked at

VARIABLES items,   \* history: what was written, <<width, value>>
          buffer_, \* bytes of the writer
          size_,   \* bytes the reader was made for, -1 before
          start_,  \* its position
          got      \* what it read, <<width, value>>

byteVars == <<items, buffer_, size_, start_, got>>

ByteInit == items = << >> /\ buffer_ = << >> /\ size_ = -1 /\ start_ = 0 /\ got = << >>

(* HostToNetwork: the most significant byte first; WriteUInt24 skips the
   first of four. *)
BigEndian(n, val) == [i \in 1 .. n |-> (val \div Radix^(n - i)) % Radix]

(* WriteUVarint: least significant digit first. *)
VarBytesOf(val) ==
  LET n == CHOOSE k \in 1 .. VarBytes :
             val < Half^k /\ \A j \in 1 .. k - 1 : val >= Half^j
  IN  [i \in 1 .. n |-> ((val \div Half^(i - 1)) % Half) + (IF i < n THEN Half ELSE 0)]

Encode(w, val) == IF w = Varint THEN VarBytesOf(val) ELSE BigEndian(w, val)

Write(w, val) ==
  /\ size_ = -1 /\ Len(items) < MaxItems
  /\ items' = Append(items, <<w, val>>)
  /\ buffer_' = buffer_ \o Encode(w, val)
  /\ UNCHANGED <<size_, start_, got>>

(* Clear, and Resize to fewer bytes. *)
Resize(n) ==
  /\ size_ = -1 /\ n <= Len(buffer_) /\ items # << >>
  /\ buffer_' = SubSeq(buffer_, 1, n)
  /\ items' = IF n = 0 THEN << >> ELSE <<<<n, Raw>>>>
  /\ UNCHANGED <<size_, start_, got>>

(* A reader refers to the writer's bytes: Construct. *)
Construct ==
  /\ size_ = -1 /\ size_' = Len(buffer_) /\ start_' = 0
  /\ UNCHANGED <<items, buffer_, got>>

Length == size_ - start_

ByteAt(i) == buffer_[start_ + i]

Upcoming(n) == SubSeq(buffer_, start_ + 1, start_ + n)

(* NetworkToHost. *)
FromBigEndian(bytes) == FoldLeft(LAMBDA v, b : v * Radix + b, 0, bytes)

FromVarint(bytes) == FoldRight(LAMBDA b, v : v * Half + (b % Half), bytes, 0)

Result(w, val) == got' = Append(got, <<w, val>>)

(* ReadUInt8 ... ReadUInt64, by ReadBytes: nothing is read of a value that
   is not there as a whole. *)
ReadUInt(w) ==
  /\ size_ # -1 /\ Len(got) < MaxReads
  /\ start_' = IF w > Length THEN start_ ELSE start_ + w
  /\ Result(w, IF w > Length THEN Failed ELSE FromBigEndian(Upcoming(w)))
  /\ UNCHANGED <<items, buffer_, size_>>

(* ReadUVarint reads byte by byte: one that is cut short, or too long, has
   moved the position when it fails. *)
ReadUVarint ==
  LET ends == { i \in 1 .. Length : i <= VarBytes /\ ByteAt(i) < Half }
      n == CHOOSE i \in ends : \A j \in ends : i <= j
  IN
  /\ size_ # -1 /\ Len(got) < MaxReads
  /\ start_' = start_ + (IF ends # {} THEN n
                         ELSE IF Length < VarBytes THEN Length ELSE VarBytes)
  /\ Result(Varint, IF ends # {} THEN FromVarint(Upcoming(n)) ELSE Failed)
  /\ UNCHANGED <<items, buffer_, size_>>

(* Consume, and ReadString without its string. *)
Consume(n) ==
  /\ size_ # -1 /\ Len(got) < MaxReads
  /\ start_' = IF n > Length THEN start_ ELSE start_ + n
  /\ Result(n, IF n > Length THEN Failed ELSE Raw)
  /\ UNCHANGED <<items, buffer_, size_>>

ByteNext ==
  \/ \E w \in Widths \union {Varint}, val \in Values : Write(w, val)
  \/ \E n \in 0 .. 2 : Resize(n)
  \/ Construct
  \/ \E w \in Widths : ReadUInt(w)
  \/ ReadUVarint
  \/ \E n \in 1 .. 2 : Consume(n)

-----------------------------------------------------------------------------
Kept(item) == IF item[1] = Varint \/ item[2] = Raw THEN item[2]
              ELSE item[2] % Radix^item[1]

SizeOf(item) == IF item[2] = Raw THEN item[1] ELSE Len(Encode(item[1], item[2]))

(* The reads that moved the position. *)
Moved == SelectSeq(got, LAMBDA r : r[2] # Failed \/ r[1] = Varint)

(* They asked for what was written, in order. *)
InStep ==
  /\ Len(Moved) <= Len(items)
  /\ \A i \in DOMAIN Moved : Moved[i][1] = items[i][1] /\ (Moved[i][2] = Raw <=> items[i][2] = Raw)

(***************************************************************************)
(* A reader that asks for the kinds that were written, in their order,     *)
(* gets the values that were written, less the bits that a narrower write  *)
(* drops, with reads of integers that are too wide for the bytes that are  *)
(* left in between, which fail and change nothing.  Whatever is asked for, *)
(* in any order, the position stays within the reader's bytes.             *)
(***************************************************************************)
ReadsWhatWasWritten ==
  /\ size_ # -1 => start_ \in 0 .. size_ /\ size_ = Len(buffer_)
  /\ InStep => /\ \A i \in DOMAIN Moved : Moved[i][2] = Kept(items[i])
               /\ start_ = FoldLeft(LAMBDA n, item : n + SizeOf(item), 0,
                                    SubSeq(items, 1, Len(Moved)))
=============================================================================
