------------------------------ MODULE DnsTools ------------------------------
(***************************************************************************)
(* The DNS lookups (nstl/nstl/dns_tools.cpp, dns_tools_posix.cpp and       *)
(* dns_tools_w32.cpp).  One thread makes lookups one after another; on     *)
(* POSIX they share the thread's DnsClient and its answer buffer, which    *)
(* grows and is kept.  The resolver and the servers are external: every    *)
(* query may bring a different answer, or none.                            *)
(*                                                                         *)
(* A record holds what the zone says, with what the code sees of its wire  *)
(* form: the bytes of its strings or parameters, the size a name takes in  *)
(* the message (less than its text when it is compressed) and cut, the     *)
(* bytes that are missing at its end.                                      *)
(***************************************************************************)
EXTENDS Integers, Sequences, SequencesExt

CONSTANTS
  Platforms,          \* a subset of {"posix", "w32"}
  Answers,            \* sequences of records an answer may hold
  Lengths,            \* sizes an answer message may have, in bytes
  BufferSize,         \* DnsClient::buff_size
  None,               \* no value: std::nullopt, a value that is not well formed
  Threw               \* the lookup ended with an exception

DnsAssumption ==
  /\ Platforms \subseteq {"posix", "w32"}
  /\ Lengths \subseteq Nat \ {0}
  /\ BufferSize \in Nat \ {0}

VARIABLES
  platform,
  buffer,             \* _response.size()
  op,                 \* the lookup under way or made last
  pc,                 \* "idle", "query" or "done"
  answer,             \* the records of the last answer
  reply               \* what the lookup returned: a sequence, None or Threw

vars == <<platform, buffer, op, pc, answer, reply>>

ResolverOps == {"mx", "txt", "cname", "srv", "svcb"}
AddressOps == {"canonical", "ips"}

Init ==
  /\ platform \in Platforms
  /\ buffer = BufferSize
  /\ op = "mx"
  /\ pc = "idle"
  /\ answer = <<>>
  /\ reply = None
-----------------------------------------------------------------------------
(* The rdata of a record.                                                  *)

Get16(b, p) == 256 * b[p] + b[p + 1]

\* Mutant: off by one, a string may not end where the data ends.
CountedShort(b) ==
  LET from[p \in 1..(Len(b) + 1)] ==
        IF p > Len(b) THEN <<>>
        ELSE LET next == p + 1 + b[p]
             IN IF next > Len(b) THEN <<None>>
                ELSE <<SubSeq(b, p + 1, next - 1)>> \o from[next]
  IN from[1]

\* Strings with a length byte each; one that reaches past the end makes the last item None.
Counted(b) ==
  LET from[p \in 1..(Len(b) + 1)] ==
        IF p > Len(b) THEN <<>>
        ELSE LET next == p + 1 + b[p]
             IN IF next > Len(b) + 1 THEN <<None>>
                ELSE <<SubSeq(b, p + 1, next - 1)>> \o from[next]
  IN from[1]

WellFormed(strings) == strings = <<>> \/ Last(strings) # None

Groups(b, n) == [i \in 1..(Len(b) \div n) |-> SubSeq(b, n * (i - 1) + 1, n * i)]

\* The value of one SVCB parameter, or None if it is unknown or not well formed.
ParamValue(key, v) ==
  CASE key = 1 /\ WellFormed(Counted(v)) -> Counted(v)
    [] key = 3 /\ Len(v) = 2 -> <<Get16(v, 1)>>
    [] key = 0 /\ Len(v) % 2 = 0 -> [i \in 1..(Len(v) \div 2) |-> Get16(v, 2 * i - 1)]
    [] key = 4 /\ Len(v) % 4 = 0 -> Groups(v, 4)
    [] key = 6 /\ Len(v) % 16 = 0 -> Groups(v, 16)
    [] key = 2 -> <<>>
    [] key = 7 -> v
    [] OTHER -> None

Param(key, v) ==
  IF ParamValue(key, v) = None THEN <<>> ELSE <<[key |-> key, value |-> ParamValue(key, v)]>>

\* A parameter that reaches past the end ends the list.
ResolveParams(b) ==
  LET from[p \in 1..(Len(b) + 1)] ==
        IF p + 3 > Len(b) THEN <<>>
        ELSE LET next == p + 4 + Get16(b, p + 2)
             IN IF next > Len(b) + 1 THEN <<>>
                ELSE Param(Get16(b, p), SubSeq(b, p + 4, next - 1)) \o from[next]
  IN from[1]

\* dn_expand() returns the size of the name in the message; the text is then cut to that.
ExpandedTo(name) == SubSeq(name.text, 1, Min({Len(name.text), name.wire}))

\* Bytes before the name.
Fixed(r) == CASE r.type = "mx" -> 2 [] r.type = "srv" -> 6 [] r.type = "svcb" -> 2 [] OTHER -> 0

Rdlen(r) ==
  (IF r.type = "txt" THEN 0 ELSE Fixed(r) + r.name.wire) + Len(r.bytes) - r.cut

Rdata(r, n) == SubSeq(r.bytes, 1, n)

\* Each gives the item a record adds to the reply, or None if it adds nothing.
MxItem(r) ==
  IF Rdlen(r) < 3 \/ ~r.name.valid THEN None
  ELSE [address |-> ExpandedTo(r.name), priority |-> r.priority]

TxtItem(r) ==
  LET strings == Counted(Rdata(r, Rdlen(r)))
  IN IF WellFormed(strings) THEN [text |-> FlattenSeq(strings)] ELSE None

CnameItem(r) == IF ~r.name.valid THEN None ELSE [address |-> ExpandedTo(r.name)]

SrvItem(r) ==
  IF Rdlen(r) <= 6 \/ ~r.name.valid THEN None
  ELSE [address |-> ExpandedTo(r.name), priority |-> r.priority, port |-> r.port,
        weight |-> r.weight]

SvcbItem(r) ==
  IF Rdlen(r) < 2 \/ ~r.name.valid THEN None
  ELSE [address |-> IF r.name.text = <<>> THEN <<".">> ELSE r.name.text,
        priority |-> r.priority,
        params |-> ResolveParams(Rdata(r, Rdlen(r) - 2 - r.name.wire))]

PosixItem(r) ==
  CASE r.type = "mx" -> MxItem(r)
    [] r.type = "txt" -> TxtItem(r)
    [] r.type = "cname" -> CnameItem(r)
    [] r.type = "srv" -> SrvItem(r)
    [] r.type = "svcb" -> SvcbItem(r)

\* The loop over the answer: other types and records that do not parse are passed over.
Matching(r) == r.parses /\ r.type = op

Collected(items) == IF items = <<>> THEN None ELSE items

PosixReply(rs) ==
  Collected(SelectSeq([i \in 1..Len(rs) |-> IF Matching(rs[i]) THEN PosixItem(rs[i]) ELSE None],
                      LAMBDA item : item # None))
-----------------------------------------------------------------------------
(* Windows hands out parsed records.                                       *)

ConvertParam(p) == IF p.value = None THEN <<>> ELSE <<[key |-> p.key, value |-> p.value]>>

ConvertData(r) ==
  [address |-> r.name.text, priority |-> r.priority,
   params |-> FlattenSeq([i \in 1..Len(r.params) |-> ConvertParam(r.params[i])])]

W32Item(r) ==
  CASE r.type = "mx" -> [address |-> r.name.text, priority |-> r.priority]
    [] r.type = "txt" -> [text |-> FlattenSeq(r.strings)]
    [] r.type = "cname" -> [address |-> r.name.text]
    [] r.type = "srv" ->
         [address |-> r.name.text, priority |-> r.priority, port |-> r.port, weight |-> r.weight]
    [] r.type = "svcb" -> ConvertData(r)

\* A list of parsed records; one whose wire form is damaged is not in it.
W32Records(rs) ==
  SelectSeq(rs, LAMBDA r : r.type # "addr" /\ r.parses /\ r.cut = 0
                             /\ (r.type # "txt" => r.name.valid))

W32Matching(r) == r.type = op

W32Reply(rs) ==
  Collected(LET matching == SelectSeq(W32Records(rs), W32Matching)
            IN [i \in 1..Len(matching) |-> W32Item(matching[i])])
-----------------------------------------------------------------------------
(* The lookups.                                                            *)

Call(o) ==
  /\ pc = "idle"
  /\ op' = o
  /\ pc' = "query"
  /\ UNCHANGED <<platform, buffer, answer, reply>>

\* stack_name() refuses an empty name and one of 256 bytes or more.
BadName(o) ==
  /\ pc = "idle"
  /\ op' = o
  /\ pc' = "done"
  /\ reply' = Threw
  /\ UNCHANGED <<platform, buffer, answer>>

\* The program has used the reply.
Drop ==
  /\ pc = "done"
  /\ op' = "mx"
  /\ pc' = "idle"
  /\ answer' = <<>>
  /\ reply' = None
  /\ UNCHANGED <<platform, buffer>>

Return(r) == pc' = "done" /\ reply' = r /\ UNCHANGED <<platform, op>>

\* res_nquery() finds nothing, or ns_initparse() does not accept the message.
QueryFails ==
  /\ pc = "query"
  /\ op \in ResolverOps
  /\ Return(None)
  /\ UNCHANGED <<buffer, answer>>

\* The answer did not fit: the buffer grows and the question is asked again.
QueryGrows(length) ==
  /\ pc = "query"
  /\ platform = "posix"
  /\ op \in ResolverOps
  /\ buffer <= length
  /\ buffer' = length + 1
  /\ UNCHANGED <<platform, op, pc, answer, reply>>

QueryFits(rs, length) ==
  /\ pc = "query"
  /\ platform = "posix"
  /\ op \in ResolverOps
  /\ buffer > length
  /\ answer' = rs
  /\ Return(PosixReply(rs))
  /\ UNCHANGED buffer

QueryW32(rs) ==
  /\ pc = "query"
  /\ platform = "w32"
  /\ op \in ResolverOps
  /\ answer' = rs
  /\ Return(W32Reply(rs))
  /\ UNCHANGED buffer

\* getaddrinfo(): an unknown host is no value, every other error an exception.
AddressFails(status) ==
  /\ pc = "query"
  /\ op \in AddressOps
  /\ Return(IF status = "noname" THEN None ELSE Threw)
  /\ UNCHANGED <<buffer, answer>>

Canonical(rs) ==
  LET named == SelectSeq(rs, LAMBDA r : r.canonname # None)
  IN IF named = <<>> THEN None ELSE <<named[1].canonname>>

Ips(rs) ==
  LET known == SelectSeq(rs, LAMBDA r : r.family \in {"inet", "inet6"})
  IN Collected([i \in 1..Len(known) |-> [family |-> known[i].family, bytes |-> known[i].bytes]])

Addresses(rs) ==
  /\ pc = "query"
  /\ op \in AddressOps
  /\ rs # <<>>
  /\ \A i \in 1..Len(rs) : rs[i].type = "addr"
  /\ answer' = rs
  /\ Return(IF op = "canonical" THEN Canonical(rs) ELSE Ips(rs))
  /\ UNCHANGED buffer

Next ==
  \/ \E o \in ResolverOps \cup AddressOps : Call(o) \/ BadName(o)
  \/ Drop
  \/ QueryFails
  \/ \E length \in Lengths : QueryGrows(length)
  \/ \E rs \in Answers :
       \/ \E length \in Lengths : QueryFits(rs, length)
       \/ QueryW32(rs)
       \/ Addresses(rs)
  \/ \E status \in {"noname", "again"} : AddressFails(status)

Spec == Init /\ [][Next]_vars
-----------------------------------------------------------------------------
(* Properties.                                                             *)

\* What the zone says.
Meaning(r) ==
  LET named == [address |-> r.name.text]
      ranked == named @@ [priority |-> r.priority]
      known == SelectSeq(r.params, LAMBDA p : p.value # None)
  IN CASE r.type = "mx" -> ranked
       [] r.type = "txt" -> [text |-> FlattenSeq(r.strings)]
       [] r.type = "cname" -> named
       [] r.type = "srv" -> ranked @@ [port |-> r.port, weight |-> r.weight]
       [] r.type = "svcb" ->
            ranked @@ [params |-> [i \in DOMAIN known |->
                                     [key |-> known[i].key, value |-> known[i].value]]]

\* The root is written as an empty name or, by svcb_name() on POSIX, as a dot.
SameName(a, b) == a = b \/ {a, b} = {<<>>, <<".">>}

Items == IF reply \in {None, Threw} THEN <<>> ELSE reply

\* The message holds the record as the zone has it.
Sound(r) == r.parses /\ r.cut = 0 /\ (r.type # "txt" => r.name.valid)

Whole(r, field) ==
  IF field = "address" THEN platform = "w32" \/ r.name.wire >= Len(r.name.text) ELSE Sound(r)

\* What an item says is what the zone says, as far as the message goes.
Agrees(item, r) ==
  \A field \in DOMAIN Meaning(r) :
    IF field \in {"address", "text", "params"} /\ ~Whole(r, field)
    THEN IsPrefix(item[field], Meaning(r)[field])
    ELSE IF field = "address" THEN SameName(item.address, Meaning(r).address)
    ELSE item[field] = Meaning(r)[field]

Heeded == SelectSeq(answer, LAMBDA r : Matching(r) /\ (Sound(r) \/ PosixItem(r) # None))

Parsed == IF platform = "w32" THEN SelectSeq(answer, LAMBDA r : Matching(r) /\ Sound(r)) ELSE Heeded

(***************************************************************************)
(* A lookup reports the records of its type in the last answer, all of it, *)
(* in order and with the values they have in the zone, whatever the buffer *)
(* held before and whatever else the message contains.  A record that is   *)
(* cut short is left out or gives a prefix, and does not disturb the       *)
(* others; no record at all is nullopt.                                    *)
(***************************************************************************)
LookupIsAnswer ==
  pc = "done" /\ op \in ResolverOps /\ reply # Threw =>
    /\ reply # <<>>
    /\ Len(Items) = Len(Parsed)
    /\ \A i \in 1..Len(Items) : Agrees(Items[i], Parsed[i])

(***************************************************************************)
(* The name a record points to is reported whole, as the lookups' tests    *)
(* expect of c_name() and srv_name().                                      *)
(***************************************************************************)
NamesAreWhole ==
  pc = "done" /\ op \in {"mx", "cname", "srv", "svcb"} /\ Len(Items) = Len(Parsed) =>
    \A i \in 1..Len(Items) : SameName(Items[i].address, Meaning(Parsed[i]).address)
=============================================================================
