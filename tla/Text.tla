-------------------------------- MODULE Text --------------------------------
(***************************************************************************)
(* The conversions of texts that the program's messages go through:        *)
(* SUtil::split and toCompactString (utils/sutil.cpp), rtc::split,         *)
(* tokenize, join and the hexadecimal digits of fingerprints               *)
(* (rtc_base/string_encode.cc), Base64 (rtc_base/base64/base64.cc),        *)
(* StringToNumber (rtc_base/string_to_number.h, .cc) and                   *)
(* SimpleStringBuilder (rtc_base/strings/string_builder.cc).               *)
(*                                                                         *)
(* A character is a number: a digit is its value, and in each alphabet the *)
(* numbers after the digits are its other characters.                      *)
(***************************************************************************)
EXTENDS Integers, Sequences, SequencesExt

CONSTANTS
  Alphabet,   \* alphabet -> the characters of it that are tried
  MaxText,    \* bound: characters
  MaxNumber   \* numeric_limits<T>::max of StringToNumber

VARIABLES alphabet, text, built
textVars == <<alphabet, text, built>>

TextInit == alphabet = "none" /\ text = << >> /\ built = << >>

-----------------------------------------------------------------------------
(* Separators are 9, blanks 8, quotes 7. *)
Sep == 9
Blank == 8
Quote == 7

(* rtc::split: every separator ends a field. *)
Split(s) ==
  LET step(f, c) == IF c = Sep THEN Append(f, << >>)
                    ELSE [f EXCEPT ![Len(f)] = Append(@, c)]
  IN  FoldLeft(step, <<<< >>>>, s)

Join(fields) ==
  FoldLeft(LAMBDA s, i : s \o (IF i > 1 THEN <<Sep>> ELSE << >>) \o fields[i],
           << >>, [i \in DOMAIN fields |-> i])

(* SUtil::split and rtc::tokenize: the position of the next separator from
   offset on; what is in between is kept when it is not empty, and so is the
   rest after the last one. *)
SplitFrom(s) ==
  LET step(a, i) ==
        IF s[i] # Sep THEN a
        ELSE [offset |-> i + 1,
              vecs |-> IF i > a.offset THEN Append(a.vecs, SubSeq(s, a.offset, i - 1)) ELSE a.vecs]
      a == FoldLeft(step, [offset |-> 1, vecs |-> << >>], [i \in DOMAIN s |-> i])
  IN  IF a.offset <= Len(s) THEN Append(a.vecs, SubSeq(s, a.offset, Len(s))) ELSE a.vecs

(* tokenize_first: what is before the first separator and what is after the
   last one of those that follow it. *)
TokenizeFirst(s) ==
  LET l == SelectInSeq(s, LAMBDA c : c = Sep)
      r == CHOOSE i \in l + 1 .. Len(s) + 1 :
             /\ i > Len(s) \/ s[i] # Sep
             /\ \A j \in l + 1 .. i - 1 : s[j] = Sep
  IN  IF l = 0 THEN <<>> ELSE <<SubSeq(s, 1, l - 1), SubSeq(s, r, Len(s))>>

(* toCompactString and toCompactStringWith: blanks go, except in quotes. *)
Compact(s) ==
  FoldLeft(LAMBDA a, c :
             IF c = Blank /\ ~a.in_string THEN a
             ELSE [out |-> Append(a.out, c), in_string |-> a.in_string # (c = Quote)],
           [out |-> << >>, in_string |-> FALSE], s).out

-----------------------------------------------------------------------------
(* Hexadecimal digits are 0 to 15, 16 the delimiter. *)
Delimiter == 16

(* hex_encode_with_delimiter: none after the last byte. *)
HexEncode(bytes) ==
  FoldLeft(LAMBDA s, i : s \o <<bytes[i] \div 16, bytes[i] % 16>>
                           \o (IF i < Len(bytes) THEN <<Delimiter>> ELSE << >>),
           << >>, [i \in DOMAIN bytes |-> i])

(* hex_decode_with_delimiter: nothing (0) for a buffer that is too small, an
   odd digit at the end, and any other character. *)
HexDecode(s, buflen) ==
  IF buflen = 0 \/ buflen < (Len(s) + 1) \div 3 THEN << >>
  ELSE IF /\ Len(s) % 3 = 2
          /\ \A i \in DOMAIN s : IF i % 3 = 0 THEN s[i] = Delimiter ELSE s[i] < 16
       THEN [k \in 1 .. (Len(s) + 1) \div 3 |-> s[3 * k - 2] * 16 + s[3 * k - 1]]
       ELSE << >>

-----------------------------------------------------------------------------
(* Base64: 0 to 63, then the pad, white space and other characters. *)
Pad == 64
White == 65

(* EncodeFromArray: three bytes at a time. *)
Base64Encode(bytes) ==
  LET n == Len(bytes)
      At(i) == IF i <= n THEN bytes[i] ELSE 0
      Quantum(i) == <<At(i) \div 4,
                      (At(i) % 4) * 16 + At(i + 1) \div 16,
                      IF i + 1 > n THEN Pad ELSE (At(i + 1) % 16) * 4 + At(i + 2) \div 64,
                      IF i + 2 > n THEN Pad ELSE At(i + 2) % 64>>
  IN  FlattenSeq([k \in 1 .. (n + 2) \div 3 |-> Quantum(3 * k - 2)])

(* GetNextQuantum from dpos on: up to four digits q and the pads behind them.
   parse is what it does with other characters: "strict", "white", "any". *)
QuantumStart(dpos) == [pos |-> dpos, q |-> << >>, pads |-> 0, padAt |-> 0, stop |-> FALSE]

QuantumStep(a, c, parse, nopads) ==
  LET Stop == [a EXCEPT !.stop = TRUE]
      Skip == [a EXCEPT !.pos = @ + 1]
      other == c > White \/ (nopads /\ c = Pad)
      early == Len(a.q) < 2 \/ Len(a.q) + a.pads >= 4
  IN  CASE a.stop \/ Len(a.q) = 4  -> a
        [] other                   -> IF parse = "any" THEN Skip ELSE Stop
        [] ~other /\ c = White     -> IF parse = "strict" THEN Stop ELSE Skip
        [] ~other /\ c = Pad /\ early  -> IF parse = "any" THEN Skip ELSE Stop
        [] ~other /\ c = Pad /\ ~early ->
             [Skip EXCEPT !.pads = @ + 1, !.padAt = IF a.pads = 0 THEN a.pos ELSE @]
        [] OTHER -> IF a.pads > 0 /\ parse # "any" THEN Stop
                    ELSE [Skip EXCEPT !.pads = 0, !.q = Append(@, c)]

QuantumEnd(r) ==
  LET padded == Len(r.q) + r.pads = 4
  IN  [q |-> r.q, padded |-> padded, pos |-> IF ~padded /\ r.pads > 0 THEN r.padAt ELSE r.pos]

NextQuantum(s, dpos, parse, nopads) ==
  QuantumEnd(FoldLeft(LAMBDA a, c : QuantumStep(a, c, parse, nopads),
                      QuantumStart(dpos), SubSeq(s, dpos, Len(s))))

(* The bytes of a quantum, of which a short one keeps fewer. *)
QuantumBytes(q) ==
  LET At(i) == IF i <= Len(q) THEN q[i] ELSE 0
  IN  <<At(1) * 4 + At(2) \div 16, (At(2) % 16) * 16 + At(3) \div 4,
        (At(3) % 4) * 64 + At(4)>>

BytesKept(q) == IF Len(q) < 2 THEN 0 ELSE Len(q) - 1

(* One round of DecodeFromArrayTemplate; flags: parse, pad ("yes", "any", "no")
   and term ("buffer", "char", "any").  The last quantum is the first that is
   short. *)
DecodeRound(a, n, pad, term) ==
  [pos |-> n.pos, done |-> Len(n.q) < 4,
   out |-> a.out \o SubSeq(QuantumBytes(n.q), 1, BytesKept(n.q)),
   ok |-> Len(n.q) < 4 => /\ term # "any" => QuantumBytes(n.q)[BytesKept(n.q) + 1] = 0
                          /\ pad = "yes" => n.padded]

DecodeEnd(s, r, term) ==
  [out |-> r.out, ok |-> r.ok /\ (term = "buffer" => r.pos = Len(s) + 1)]

Base64Decode(s, parse, pad, term) ==
  DecodeEnd(s, FoldLeft(LAMBDA a, i :
                          IF a.done \/ a.pos > Len(s) THEN a
                          ELSE DecodeRound(a, NextQuantum(s, a.pos, parse, pad = "no"), pad, term),
                        [pos |-> 1, done |-> FALSE, out |-> << >>, ok |-> TRUE],
                        [i \in DOMAIN s |-> i]),
            term)

-----------------------------------------------------------------------------
(* Numbers: 0 to 9, 10 is a minus sign. *)
Minus == 10
Digits(s) == s # << >> /\ \A i \in DOMAIN s : s[i] < 10
Value(s) == FoldLeft(LAMBDA v, d : v * 10 + d, 0, s)

(* ParseUnsigned, ParseSigned and the range of the type; -1 is no number. *)
StringToNumber(s) ==
  LET neg == s # << >> /\ s[1] = Minus
      d == IF neg THEN Tail(s) ELSE s
  IN  IF Digits(d) /\ (neg => Value(d) = 0) /\ Value(d) <= MaxNumber THEN Value(d) ELSE -1

NumberText(v) ==
  LET n == CHOOSE k \in 1 .. 9 : v < 10^k /\ \A j \in 1 .. k - 1 : v >= 10^j
  IN  [i \in 1 .. n |-> (v \div 10^(n - i)) % 10]

(* SimpleStringBuilder::Append: as much as there is room for. *)
BuilderSize == 3
BuilderAppend(s) ==
  built \o SubSeq(s, 1, IF Len(s) <= BuilderSize - Len(built) THEN Len(s)
                        ELSE BuilderSize - Len(built))

Type(a, c) ==
  /\ alphabet \in {"none", a} /\ Len(text) < MaxText
  /\ alphabet' = a /\ text' = Append(text, c) /\ built' = BuilderAppend(<<c>>)

TextNext == \E a \in DOMAIN Alphabet : \E c \in Alphabet[a] : Type(a, c)

-----------------------------------------------------------------------------
SplitsAgree ==
  alphabet = "fields" =>
    LET fields == Split(text) IN
    /\ Join(fields) = text
    /\ SplitFrom(text) = SelectSeq(fields, LAMBDA f : f # << >>)
    /\ Compact(Compact(text)) = Compact(text)
    /\ TokenizeFirst(text) # << >> =>
         SplitFrom(text) = SplitFrom(TokenizeFirst(text)[1]) \o SplitFrom(TokenizeFirst(text)[2])

(* A text that the strict decoder accepts. *)
StrictReadsBack(strict) ==
  strict.ok => /\ Base64Encode(strict.out) = text
               /\ Base64Decode(text, "any", "any", "char") = strict

EncodingsReadBack ==
  /\ alphabet = "bytes" =>
       /\ HexDecode(HexEncode(text), Len(text)) = text
       /\ Base64Decode(Base64Encode(text), "strict", "yes", "buffer") = [out |-> text, ok |-> TRUE]
  /\ alphabet = "hex" =>
       LET b == HexDecode(text, MaxText) IN b # << >> => HexEncode(b) = text
  /\ alphabet = "base64" => StrictReadsBack(Base64Decode(text, "strict", "yes", "buffer"))
  /\ alphabet = "number" =>
       LET v == StringToNumber(text) IN
       v # -1 => /\ StringToNumber(NumberText(v)) = v
                 /\ text[1] \in 1 .. 9 => NumberText(v) = text

(***************************************************************************)
(* Conversions agree with each other for every short text: joining what    *)
(* was split gives the text, the two splitters differ by empty fields      *)
(* only, what hex, Base64 and numbers encode decodes to the same bytes,    *)
(* and a text that the strict decoders accept is the one that encoding     *)
(* their result gives (up to the case of hexadecimal letters).  A          *)
(* builder keeps the beginning of what was appended.                       *)
(***************************************************************************)
TextsConvert ==
  /\ SplitsAgree /\ EncodingsReadBack
  /\ built = SubSeq(text, 1, IF Len(text) <= BuilderSize THEN Len(text) ELSE BuilderSize)
=============================================================================
