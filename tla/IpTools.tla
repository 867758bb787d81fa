------------------------------- MODULE IpTools -------------------------------
(***************************************************************************)
(* Address ranges (nstl/nstl/ip_tools.hpp and .cpp): a program parses      *)
(* ranges, keeps them in a list and asks which addresses the list          *)
(* contains.                                                               *)
(*                                                                         *)
(* An address is a sequence of bytes; V4 and V6 bytes of Width bits stand  *)
(* for 4 and 16 bytes of 8 bits.  The text of a range is what its parts    *)
(* parse to: inet_pton and from_chars are external.                        *)
(***************************************************************************)
EXTENDS Integers, Sequences, Bitwise, FiniteSetsExt

CONSTANTS
  Width,              \* bytes_in_bits
  V4, V6,             \* ipv4_size and ipv6_size
  MaxRanges           \* bound: the ranges of the list

IpAssumption ==
  /\ {Width, V4, V6} \subseteq Nat \ {0} /\ V4 < V6
  /\ MaxRanges \in Nat

VARIABLES
  ranges,             \* the list: ip and mask
  significant         \* history: the bits (from 1) each range was meant to compare

ipVars == <<ranges, significant>>

Byte == 0..(2^Width - 1)
Addresses(size) == [1..size -> Byte]

Init == ranges = <<>> /\ significant = <<>>
-----------------------------------------------------------------------------
AndArrays(a, b) == [i \in DOMAIN a |-> a[i] & b[i]]

\* Mutant: the byte is shifted to the right.
CreateMaskRight(size, mask) ==
  [i \in 1..size |->
     LET left == Max({mask - Width * (i - 1), 0})
         bits == Min({Width, left})
     IN  (2^Width - 1) \div 2^(Width - bits)]

\* Mask bytes from the left, each with as many bits as are left of the prefix.
CreateMask(size, mask) ==
  [i \in 1..size |->
     LET left == Max({mask - Width * (i - 1), 0})
         bits == Min({Width, left})
     IN  IF left = 0 THEN 0 ELSE ((2^Width - 1) * 2^(Width - bits)) % 2^Width]

\* from_chars with the limit of the family.
ParseMask(size, num) == num \in 0..(size * Width)

\* What may stand behind an address: nothing, "/" and a number, "/" and an address of
\* either family (any of the short ones, a mask with gaps of the long ones).
Suffixes(size) ==
  [kind : {"none"}]
    \cup [kind : {"prefix"}, num : 0..(size * Width + 1)]
    \cup [kind : {"mask"}, mask : Addresses(V4) \cup {[i \in 1..V6 |-> 1]}]

\* parse_ip_range: the range, or none if the number is too large or the mask is one of
\* the other family.
ParseRange(ip, m) ==
  LET size == Len(ip) IN
  CASE m.kind = "none" -> {[ip |-> ip, mask |-> CreateMask(size, size * Width)]}
    [] m.kind = "prefix" -> {[ip |-> ip, mask |-> CreateMask(size, n)] :
                               n \in {n \in {m.num} : ParseMask(size, n)}}
    [] m.kind = "mask" -> {[ip |-> ip, mask |-> a] : a \in {m.mask} \cap Addresses(size)}

Bit(a, k) ==
  (a[(k - 1) \div Width + 1] \div 2^(Width - 1 - ((k - 1) % Width))) % 2

\* The bits a text means to compare.
Meant(ip, m) ==
  CASE m.kind = "none" -> 1..(Len(ip) * Width)
    [] m.kind = "prefix" -> 1..m.num
    [] m.kind = "mask" -> {k \in 1..(Len(ip) * Width) : Bit(m.mask, k) = 1}

Add(ip, m) ==
  /\ Len(ranges) < MaxRanges
  /\ \E r \in ParseRange(ip, m) : ranges' = Append(ranges, r)
  /\ significant' = Append(significant, Meant(ip, m))

\* ip_range_base::contains
RangeContains(range, ip) == AndArrays(range.mask, ip) = AndArrays(range.mask, range.ip)

\* address_checker: a range of the other family contains nothing.
Checker(ip, range) == Len(ip) = Len(range.ip) /\ RangeContains(range, ip)

\* contains over a list of both families
Contains(list, ip) == \E i \in DOMAIN list : Checker(ip, list[i])

-----------------------------------------------------------------------------
(* ip_range_less: addresses and ranges in one order, as a set of ranges that *)
(* is searched for an address needs it.  An address is an item without mask. *)

\* operator< of std::array
ArrayLess(a, b) ==
  \E i \in DOMAIN a : a[i] < b[i] /\ \A j \in 1..(i - 1) : a[j] = b[j]

Less(l, r) ==
  \/ Len(l.ip) < Len(r.ip)
  \/ Len(l.ip) = Len(r.ip) /\ ArrayLess(l.ip, r.ip)

Items ==
  UNION {[ip : Addresses(size)] \cup [ip : Addresses(size), mask : {CreateMask(size, n) : n \in {0, size}}] :
         size \in {V4, V6}}

Value(a) == FoldSet(LAMBDA i, sum : sum + a[i] * 2^(Width * (Len(a) - i)), 0, DOMAIN a)

(***************************************************************************)
(* The order is that of the family and the numeric value of the address,   *)
(* between addresses, ranges and both: a strict weak order in which a      *)
(* range and the address it begins with are equivalent, whatever the mask. *)
(***************************************************************************)
LessOrdersByValue ==
  \A l, r \in Items :
    Less(l, r) <=>
      \/ Len(l.ip) < Len(r.ip)
      \/ Len(l.ip) = Len(r.ip) /\ Value(l.ip) < Value(r.ip)
-----------------------------------------------------------------------------
Next ==
  \E size \in {V4, V6} : \E ip \in Addresses(size), m \in Suffixes(size) : Add(ip, m)
-----------------------------------------------------------------------------
(***************************************************************************)
(* An address is contained in a list exactly if some range of its family   *)
(* has the same bits where that range's prefix or mask has them, for every *)
(* length from none to all the bits and whatever is left in the other bits *)
(* of the range's own address.                                             *)
(***************************************************************************)
PrefixMatch ==
  \A size \in {V4, V6} : \A ip \in Addresses(size) :
    Contains(ranges, ip) <=>
      \E i \in DOMAIN ranges :
        /\ Len(ranges[i].ip) = size
        /\ \A k \in significant[i] : Bit(ip, k) = Bit(ranges[i].ip, k)
=============================================================================
