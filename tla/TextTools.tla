------------------------------ MODULE TextTools ------------------------------
(***************************************************************************)
(* The helpers on text: split_view_func() and the trims (nstl/nstl/        *)
(* string.hpp), range_print() (range_print.hpp), safe_basename_view()      *)
(* (safe_basename.hpp), parse_view<bool>() (parse.hpp), base64 (base64.hpp)*)
(* and hash_to_hex() (datahash.cpp).  They keep no state: a text grows     *)
(* piece by piece, and what they make of it is compared with what it is.   *)
(***************************************************************************)
EXTENDS Integers, Sequences, SequencesExt

CONSTANTS
  Pieces,             \* sequences of characters a text is put together from
  Code,               \* the code of each character, 0..255
  Delim,              \* the delimiter, and the separator of paths
  Spaces,             \* characters isspace() accepts
  TrueValues, FalseValues,  \* the literals of from_chars<bool>
  MaxLength,          \* characters in a text, at most
  Threw               \* the call ended with an exception

TextAssumption ==
  /\ \A c \in DOMAIN Code : Code[c] \in 0..255
  /\ {Delim} \cup Spaces \subseteq DOMAIN Code
  /\ \A p \in Pieces \cup TrueValues \cup FalseValues : p \in Seq(DOMAIN Code)
  /\ MaxLength \in Nat

VARIABLE text

Init == text = <<>>

Next ==
  \E p \in Pieces :
    /\ Len(text) + Len(p) <= MaxLength
    /\ text' = text \o p

Spec == Init /\ [][Next]_text
-----------------------------------------------------------------------------
(* Views.                                                                  *)

Item(item, skip) == IF skip /\ item = <<>> THEN <<>> ELSE <<item>>

\* Mutant: nothing is reported after a delimiter that ends the text.
SplitDropsLast(v, skip) ==
  LET from[prev \in 0..Len(v)] ==
        LET found == {i \in (prev + 1)..Len(v) : v[i] = Delim}
        IN IF found = {}
           THEN Item(SubSeq(v, prev + 1, Len(v)), skip \/ prev > 0)
           ELSE Item(SubSeq(v, prev + 1, Min(found) - 1), skip) \o from[Min(found)]
  IN from[0]

\* The items the callback gets; the part after the last delimiter is one.
Split(v, skip) ==
  LET from[prev \in 0..Len(v)] ==
        LET found == {i \in (prev + 1)..Len(v) : v[i] = Delim}
        IN IF found = {}
           THEN Item(SubSeq(v, prev + 1, Len(v)), skip)
           ELSE Item(SubSeq(v, prev + 1, Min(found) - 1), skip) \o from[Min(found)]
  IN from[0]

RightTrim(v) ==
  LET upto[n \in 0..Len(v)] ==
        IF n = 0 \/ v[n] \notin Spaces THEN SubSeq(v, 1, n) ELSE upto[n - 1]
  IN upto[Len(v)]

LeftTrim(v) ==
  LET after[n \in 0..Len(v)] ==
        IF n = Len(v) \/ v[n + 1] \notin Spaces THEN SubSeq(v, n + 1, Len(v)) ELSE after[n + 1]
  IN after[0]

Trim(v) == RightTrim(LeftTrim(v))

Basename(v) ==
  LET found == {i \in 1..Len(v) : v[i] = Delim}
  IN IF found = {} THEN v ELSE SubSeq(v, Max(found) + 1, Len(v))

RangePrint(items, delim) ==
  LET upto[n \in 0..Len(items)] ==
        CASE n = 0 -> <<>>
          [] n = 1 -> items[1]
          [] OTHER -> upto[n - 1] \o delim \o items[n]
  IN upto[Len(items)]

\* A literal need only be a prefix; parse_view() then asks for the whole view.
FromChars(v) ==
  LET starts(values) == {l \in values : IsPrefix(l, v)}
  IN CASE starts(TrueValues) # {} ->
            [value |-> TRUE, read |-> Len(CHOOSE l \in starts(TrueValues) : TRUE)]
       [] starts(TrueValues) = {} /\ starts(FalseValues) # {} ->
            [value |-> FALSE, read |-> Len(CHOOSE l \in starts(FalseValues) : TRUE)]
       [] OTHER -> [value |-> Threw, read |-> 0]

ParseBool(v) ==
  IF v = <<>> \/ FromChars(v).read # Len(v) THEN Threw ELSE FromChars(v).value
-----------------------------------------------------------------------------
(* Bytes.                                                                  *)

Bytes(v) == [i \in 1..Len(v) |-> Code[v[i]]]

Pad == 64             \* the character '=', beside the 64 of the alphabet

\* transform_width: the bits, regrouped.
Bits(s, width) ==
  [i \in 1..(Len(s) * width) |->
     (s[(i - 1) \div width + 1] \div 2^(width - 1 - ((i - 1) % width))) % 2]

Number(bits, first, width) ==
  LET upto[k \in 0..width] ==
        IF k = 0 THEN 0
        ELSE 2 * upto[k - 1] + (IF first + k - 1 <= Len(bits) THEN bits[first + k - 1] ELSE 0)
  IN upto[width]

\* Bits that are left over are filled up with zeros when encoding, dropped when decoding.
Regroup(s, from, to) ==
  LET bits == Bits(s, from)
      count == IF from > to THEN (Len(bits) + to - 1) \div to ELSE Len(bits) \div to
  IN [i \in 1..count |-> Number(bits, to * (i - 1) + 1, to)]

ToBase64(bytes) ==
  Regroup(bytes, 8, 6) \o [i \in 1..((3 - (Len(bytes) % 3)) % 3) |-> Pad]

FromBase64(chars) ==
  LET unpadded[n \in 0..Len(chars)] ==
        IF n = 0 \/ chars[n] # Pad THEN SubSeq(chars, 1, n) ELSE unpadded[n - 1]
  IN Regroup(unpadded[Len(chars)], 6, 8)

HashToHex(bytes) == FlattenSeq([i \in 1..Len(bytes) |-> <<bytes[i] \div 16, bytes[i] % 16>>])
-----------------------------------------------------------------------------
(* Properties.                                                             *)

\* The items, joined by range_print(), are the text; none holds the delimiter, the last
\* is the base name, and skipping leaves out the empty ones.
SplitIsExact ==
  LET items == Split(text, FALSE)
  IN /\ RangePrint(items, <<Delim>>) = text
     /\ \A i \in 1..Len(items) : ~Contains(items[i], Delim)
     /\ Last(items) = Basename(text)
     /\ Split(text, TRUE) = SelectSeq(items, LAMBDA item : item # <<>>)

\* The trimmed view begins and ends with the first and the last character that is no space.
TrimIsExact ==
  LET kept == {i \in 1..Len(text) : text[i] \notin Spaces}
  IN Trim(text) = IF kept = {} THEN <<>> ELSE SubSeq(text, Min(kept), Max(kept))

\* The four literals and nothing else are Booleans.
BoolIsExact ==
  ParseBool(text) = CASE text \in TrueValues -> TRUE
                      [] text \in FalseValues -> FALSE
                      [] OTHER -> Threw

\* Bytes survive base64, in groups of four characters, and hexadecimal digits.
BytesAreKept ==
  LET bytes == Bytes(text)
      encoded == ToBase64(bytes)
      digits == HashToHex(bytes)
  IN /\ FromBase64(encoded) = bytes
     /\ Len(encoded) % 4 = 0
     /\ Len(digits) = 2 * Len(bytes)
     /\ \A i \in 1..Len(bytes) : bytes[i] = 16 * digits[2 * i - 1] + digits[2 * i]

(***************************************************************************)
(* The helpers lose nothing and add nothing, at every boundary: texts that *)
(* are empty, begin or end with a delimiter, are all spaces, hold a        *)
(* literal and more, or fill the last group of three bytes or do not.      *)
(***************************************************************************)
TextIsKept == SplitIsExact /\ TrimIsExact /\ BoolIsExact /\ BytesAreKept
=============================================================================
