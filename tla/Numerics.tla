------------------------------ MODULE Numerics ------------------------------
(***************************************************************************)
(* rtc_base/numerics: comparison, conversion and clamping of C++ integers  *)
(* whose types differ.  A type has a sign and a size; a byte has ByteBits  *)
(* bits, so that all the borders of all the types can be visited.  Enums   *)
(* are their underlying types, and floating point, which the templates     *)
(* hand to the language, is left out.                                      *)
(***************************************************************************)
EXTENDS Integers, Sequences, FiniteSets, SequencesExt

CONSTANT ByteBits    \* bits of a byte

ASSUME BitsAssumption == ByteBits \in Nat \ {0}

VARIABLE numTypes    \* the types of the three arguments of a call

numVars == <<numTypes>>

Sizes == {1, 2, 4, 8}
IntTypes == [signed : BOOLEAN, size : Sizes]

SInt(n) == [signed |-> TRUE, size |-> n]
UInt(n) == [signed |-> FALSE, size |-> n]
IntType == SInt(4)       \* int
PointerSize == 8         \* sizeof(int*)

BitsOf(t) == t.size * ByteBits
Lowest(t)  == IF t.signed THEN -(2 ^ (BitsOf(t) - 1)) ELSE 0
Highest(t) == IF t.signed THEN 2 ^ (BitsOf(t) - 1) - 1 ELSE 2 ^ BitsOf(t) - 1

(* static_cast<t>(v): modulo 2^bits, in the range of t. *)
Cast(v, t) == Lowest(t) + ((v - Lowest(t)) % (2 ^ BitsOf(t)))

-----------------------------------------------------------------------------
(* safe_compare.h *)

(* LargerInt<T1, T2>: the signed type twice the size of T1, if there is one and
   it is no larger than T2 or a pointer. *)
HasLarger(t1, t2) == t1.size # 8 /\ (t1.size < t2.size \/ t1.size < PointerSize)
LargerInt(t1) == SInt(2 * t1.size)

(* Unary plus promotes what is smaller than an int. *)
Promoted(t) == IF t.size < IntType.size THEN IntType ELSE t

(* What the language compares when both operands are converted to one type. *)
Common(t1, t2) ==
  CASE t1.size > t2.size -> t1
    [] t2.size > t1.size -> t2
    [] OTHER             -> IF t1.signed THEN t2 ELSE t1

(* The operators that the templates are instantiated with here: < and ==. *)
Compare(op, a, b) == IF op = "lt" THEN a < b ELSE a = b

LangOp(op, c, a, b) == Compare(op, Cast(a, c), Cast(b, c))

(* The type that an operand of type t is cast to beside one of the other sign:
   a larger signed type for both if there is one, else unsigned. *)
OperandType(t, other) ==
  CASE t.signed = other.signed                -> t
    [] ~t.signed /\ HasLarger(t, other)       -> LargerInt(t)
    [] t.signed /\ ~HasLarger(other, t)       -> UInt(t.size)
    [] OTHER                                  -> t

CmpAs(op, c1, a, c2, b) ==
  CASE a < 0 /\ ~c1.signed -> Compare(op, -1, 0)
    [] b < 0 /\ ~c2.signed -> Compare(op, 0, -1)
    [] OTHER -> LangOp(op, Common(c1, c2), Cast(a, c1), Cast(b, c2))

CmpTypes(op, t1, a, t2, b) == CmpAs(op, OperandType(t1, t2), a, OperandType(t2, t1), b)

SafeCmp(op, t1, a, t2, b) == CmpTypes(op, Promoted(t1), a, Promoted(t2), b)

SafeLt(t1, a, t2, b) == SafeCmp("lt", t1, a, t2, b)
SafeEq(t1, a, t2, b) == SafeCmp("eq", t1, a, t2, b)
SafeLe(t1, a, t2, b) == ~SafeLt(t2, b, t1, a)

-----------------------------------------------------------------------------
(* safe_conversions.h *)

MaxExponent(t) == IF t.signed THEN BitsOf(t) - 1 ELSE BitsOf(t)

(* StaticRangeCheck: every value of src is one of dst. *)
ContainsRange(dst, src) ==
  /\ dst.signed \/ ~src.signed
  /\ MaxExponent(dst) >= MaxExponent(src)

InUpper(dst, src, v) == v <= Cast(Highest(dst), src)
InLower(dst, src, v) == v >= Cast(Lowest(dst), src)

(* RangeCheckImpl::Check: which of the two bounds the value breaks. *)
RangeCheck(dst, src, v) ==
  LET upper == CASE ContainsRange(dst, src) -> TRUE
                 [] ~dst.signed /\ src.signed -> MaxExponent(dst) >= MaxExponent(src) \/ InUpper(dst, src, v)
                 [] OTHER -> InUpper(dst, src, v)
      lower == CASE ContainsRange(dst, src) -> TRUE
                 [] dst.signed /\ src.signed -> InLower(dst, src, v)
                 [] ~dst.signed /\ src.signed -> v >= 0
                 [] OTHER -> TRUE
  IN  [over |-> ~upper, under |-> ~lower]

IsValueInRangeForNumericType(dst, src, v) ==
  LET r == RangeCheck(dst, src, v) IN ~r.over /\ ~r.under

(* checked_cast stops the program where IsValueInRange... is false;
   dchecked_cast only where checks are compiled in. *)
saturated_cast(dst, src, v) ==
  LET r == RangeCheck(dst, src, v)
  IN  CASE ~r.over /\ ~r.under -> Cast(v, dst)
        [] ~r.over /\ r.under  -> Lowest(dst)
        [] OTHER               -> Highest(dst)

-----------------------------------------------------------------------------
(* safe_minmax.h *)

(* MType: the types that hold the smaller and the larger of two values. *)
MinType == [t1, t2 \in IntTypes |->
  CASE SafeLt(t1, Lowest(t1), t2, Lowest(t2)) -> t1
    [] SafeLt(t2, Lowest(t2), t1, Lowest(t1)) -> t2
    [] OTHER -> IF SafeLe(t1, Highest(t1), t2, Highest(t2)) THEN t1 ELSE t2]

MaxType == [t1, t2 \in IntTypes |->
  IF SafeLe(t2, Highest(t2), t1, Highest(t1)) THEN t1 ELSE t2]

SafeMin(t1, a, t2, b) == Cast(IF SafeLt(t1, a, t2, b) THEN a ELSE b, MinType[t1, t2])
SafeMax(t1, a, t2, b) == Cast(IF SafeLt(t2, b, t1, a) THEN a ELSE b, MaxType[t1, t2])

(* ClampType: a type for the result of SafeClamp, as small as possible, with the
   sign of the first argument if that will do. *)
ResultRange == [t, l, h \in IntTypes |->
  [minType |-> MaxType[l, MinType[h, t]],
   maxType |-> MinType[h, MaxType[l, t]],
   min |-> SafeMax(l, Lowest(l), MinType[h, t], SafeMin(h, Lowest(h), t, Lowest(t))),
   max |-> SafeMin(h, Highest(h), MaxType[l, t], SafeMax(l, Highest(l), t, Highest(t)))]]

Holds(a, r) == SafeLe(a, Lowest(a), r.minType, r.min) /\ SafeLe(r.maxType, r.max, a, Highest(a))

Acceptable(a, t, l, h) ==
  /\ a.size <= l.size \/ a.size <= h.size \/ a.size <= t.size
  /\ Holds(a, ResultRange[t, l, h])

Best(signed, t, l, h) ==
  [signed |-> signed,
   size |-> CHOOSE n \in Sizes :
              /\ n = 8 \/ Acceptable([signed |-> signed, size |-> n], t, l, h)
              /\ \A k \in {1, 2, 4} :
                   k < n => ~Acceptable([signed |-> signed, size |-> k], t, l, h)]

ClampType == [t, l, h \in IntTypes |->
  CHOOSE r \in {Best(signed, t, l, h) : signed \in BOOLEAN} :
    r.signed = t.signed <=> Acceptable(Best(t.signed, t, l, h), t, l, h)]

(* The result type r is ClampType, or one that holds it. *)
SafeClamp(r, t, x, l, min, h, max) ==
  Cast(CASE SafeLe(t, x, l, min) -> min
         [] SafeLe(h, max, t, x) -> max
         [] OTHER                -> x, r)

-----------------------------------------------------------------------------
NumInit == numTypes = [x |-> IntType, lo |-> IntType, hi |-> IntType]

(* A call with one argument of another type. *)
CallWith(arg, t) == numTypes' = [numTypes EXCEPT ![arg] = t]

NumNext == \E arg \in {"x", "lo", "hi"}, t \in IntTypes : CallWith(arg, t)

Borders(t) == {v \in {Lowest(t), Lowest(t) + 1, -1, 0, 1, Highest(t) - 1, Highest(t)} :
                 Lowest(t) <= v /\ v <= Highest(t)}

SmallerOf(a, b) == IF a < b THEN a ELSE b
LargerOf(a, b)  == IF a > b THEN a ELSE b

(* Whatever the types of their arguments, the comparisons answer as for the
   integers themselves, saturated_cast finds the nearest value of the
   destination, and SafeMin, SafeMax and SafeClamp pick a type that holds their
   result (safe_minmax.h:304 asserts that one exists); the language's own rules
   would turn -1 into the largest unsigned value. *)
NumbersKeepValue ==
  LET t == numTypes.x
      l == numTypes.lo
      h == numTypes.hi
  IN  /\ \A a \in Borders(t), b \in Borders(l) :
           /\ SafeLt(t, a, l, b) <=> a < b
           /\ SafeEq(t, a, l, b) <=> a = b
           /\ SafeMin(t, a, l, b) = SmallerOf(a, b)
           /\ SafeMax(t, a, l, b) = LargerOf(a, b)
      /\ \A a \in Borders(t) :
           /\ saturated_cast(l, t, a) = SmallerOf(LargerOf(a, Lowest(l)), Highest(l))
           /\ IsValueInRangeForNumericType(l, t, a) <=> (a >= Lowest(l) /\ a <= Highest(l))
      /\ \E r \in {ClampType[t, l, h]} :
           /\ Acceptable(r, t, l, h)
           /\ \A x \in Borders(t), min \in Borders(l), max \in Borders(h) :
                min <= max => SafeClamp(r, t, x, l, min, h, max) = SmallerOf(LargerOf(x, min), max)

-----------------------------------------------------------------------------
(***************************************************************************)
(* rtc_base/numerics: MovingMedianFilter over PercentileFilter, which      *)
(* keeps an iterator into a sorted multiset and, apart from it, the index  *)
(* it believes the iterator to have.                                       *)
(*                                                                         *)
(* The multiset is a sorted sequence; the iterator is where it really is,  *)
(* which insertions and erasures before it move.  The percentile is the    *)
(* fraction num/den.                                                       *)
(***************************************************************************)
CONSTANTS Samples,      \* values that are observed
          WindowSize,   \* window_size_ of the filter
          Percentiles,  \* fractions [num, den] in 0 .. 1
          MaxSamples    \* observations in a row

ASSUME WindowAssumption == WindowSize \in Nat \ {0}

VARIABLES
  percentile,   \* percentile_
  sorted,       \* set_
  iter,         \* position of percentile_it_ in set_; Len(set_) + 1 is end()
  pfIndex,      \* percentile_index_
  samples,      \* samples_, the latest window
  observed      \* observations so far

filterVars == <<percentile, sorted, iter, pfIndex, samples, observed>>

FilterInit ==
  /\ percentile \in Percentiles
  /\ sorted = << >> /\ iter = 1 /\ pfIndex = 0
  /\ samples = << >> /\ observed = 0

-----------------------------------------------------------------------------
CountBelow(s, v) == Cardinality({i \in DOMAIN s : s[i] < v})
CountUpTo(s, v)  == Cardinality({i \in DOMAIN s : s[i] <= v})

(* UpdatePercentileIterator: move the iterator by the distance between the
   index it should have and the one it is believed to have. *)
UpdatePercentileIterator(f) ==
  LET target == (percentile.num * (Len(f.set) - 1)) \div percentile.den
  IN  IF f.set = << >> THEN f
      ELSE [f EXCEPT !.it = @ + (target - f.idx), !.idx = target]

(* Insert: behind the values equal to it. *)
PfInsert(f, v) ==
  LET at  == CountUpTo(f.set, v) + 1
      set == InsertAt(f.set, at, v)
      it  == IF at <= f.it THEN f.it + 1 ELSE f.it
  IN  UpdatePercentileIterator(
        IF Len(set) = 1 THEN [set |-> set, it |-> 1, idx |-> 0]
        ELSE [set |-> set, it |-> it,
              idx |-> IF v < set[it] THEN f.idx + 1 ELSE f.idx])

(* As PfErase, with < where values equal to the erased one are counted. *)
PfEraseStrict(f, v) ==
  LET at  == CountBelow(f.set, v) + 1
      set == RemoveAt(f.set, at)
  IN  CASE at > Len(f.set) \/ (at <= Len(f.set) /\ f.set[at] # v) -> f
        [] at = f.it -> UpdatePercentileIterator([f EXCEPT !.set = set])
        [] OTHER ->
             LET it == IF at < f.it THEN f.it - 1 ELSE f.it
             IN  UpdatePercentileIterator(
                   [set |-> set, it |-> it,
                    idx |-> IF v < set[it] THEN f.idx - 1 ELSE f.idx])

(* Erase the first of the values equal to v, and leave a value that is not
   there alone.  Erasing under the iterator leaves it at the next value. *)
PfErase(f, v) ==
  LET at  == CountBelow(f.set, v) + 1
      set == RemoveAt(f.set, at)
  IN  CASE at > Len(f.set) \/ (at <= Len(f.set) /\ f.set[at] # v) -> f
        [] at = f.it -> UpdatePercentileIterator([f EXCEPT !.set = set])
        [] OTHER ->
             LET it == IF at < f.it THEN f.it - 1 ELSE f.it
             IN  UpdatePercentileIterator(
                   [set |-> set, it |-> it,
                    idx |-> IF v <= set[it] THEN f.idx - 1 ELSE f.idx])

Filter == [set |-> sorted, it |-> iter, idx |-> pfIndex]

SetFilter(f) == sorted' = f.set /\ iter' = f.it /\ pfIndex' = f.idx

(* MovingMedianFilter::Insert: the new sample in, then the oldest out. *)
FilterInsert(v) ==
  LET in  == PfInsert(Filter, v)
      all == Append(samples, v)
  IN  /\ observed < MaxSamples
      /\ observed' = observed + 1
      /\ IF Len(all) > WindowSize
         THEN SetFilter(PfErase(in, Head(all))) /\ samples' = Tail(all)
         ELSE SetFilter(in) /\ samples' = all
      /\ UNCHANGED percentile

FilterReset ==
  /\ samples # << >>
  /\ SetFilter([set |-> << >>, it |-> 1, idx |-> 0])
  /\ samples' = << >>
  /\ UNCHANGED <<percentile, observed>>

FilterNext == FilterReset \/ \E v \in Samples : FilterInsert(v)

(* GetPercentileValue, GetFilteredValue *)
GetPercentileValue == IF sorted = << >> THEN 0 ELSE sorted[iter]

-----------------------------------------------------------------------------
(* After any sequence of samples, equal ones included, and although iterator
   and index are only ever adjusted by what one insertion and one erasure
   changed, the filter answers the percentile of the latest window
   (percentile_filter.h:68-109). *)
FilterAnswersPercentile ==
  LET n    == Len(samples)
      rank == (percentile.num * (n - 1)) \div percentile.den
      v    == GetPercentileValue
  IN  /\ Len(sorted) = n
      /\ n > 0 => /\ iter = pfIndex + 1
                  /\ CountBelow(samples, v) <= rank
                  /\ CountUpTo(samples, v) > rank
      /\ n = 0 => v = 0
=============================================================================
