------------------------------- MODULE MCValues -------------------------------
(***************************************************************************)
(* The library's value types and helpers for TLC.  They share no state:    *)
(* the initial state chooses the one that is used, and the variables of    *)
(* the others keep one initial value.                                      *)
(***************************************************************************)
EXTENDS Integers, Sequences, FiniteSets, SequencesExt, TLC

CONSTANTS
  o1, o2,                       \* objects: vectors, clients, temporary files
  x, y,                         \* elements, values of variables, arguments
  b1, b2, b3,                   \* blocks of memory
  Null, Threw, Undefined, NotFinite,
  Flag, Esc, Coma, Quote, Hash, Nl, N, letter

VARIABLES
  part,
  vector, heap, contents, released,
  config, lines, at, columns, values, reader, rows, got,
  ranges, significant,
  argv, argc, index, found, loop, given,
  env, guards,
  disk, temp, fds,
  client, options, liveLists, request, asked, cleared,
  dnsPlatform, buffer, op, pc, answer, reply,
  platform, alive, context, home, hashed, added, clipped, digest,
  size, reading, buffersize, position, opened, atEnd,
  text,
  win32, offset, summer, late, now,
  number, rounding, target, errexcept,
  held, armed, raw, open

\* Of single bytes: a capacity of 2 can be doubled, one of 3 or more wraps around, and the
\* fifth element is one too many; three blocks let two vectors grow.
Vec == INSTANCE Vector WITH
  Objects <- {o1, o2}, Values <- {x, y}, Blocks <- {b1, b2, b3}, Junk <- "junk",
  First <- 2, SizeOf <- 1, Modulus <- 5, MaxSize <- 3

\* Fields with the characters that matter and their neighbours, in rows of one and of
\* two fields; three lines leave room for a line that is refused between two others.
CsvRows ==
  {<<f>> : f \in {<<>>, <<letter>>, <<Hash>>, <<Esc>>, <<Coma>>, <<Esc, N>>, <<Quote, Coma>>,
                  <<Nl, Quote>>, <<Hash, Nl>>, <<letter, Hash>>}}
    \cup {<<<<letter>>, <<N>>>>, <<<<>>, <<letter>>>>, <<<<Coma>>, <<Esc, Quote>>>>,
          <<<<Hash>>, <<letter>>>>, <<<<Nl>>, <<>>>>, <<<<letter>>, <<letter>>>>}

Flags(h, e, s, c) ==
  [parseHeaders |-> h, skipEmptyLines |-> e, checkColumnsSize |-> s, comment |-> c]

Csv == INSTANCE CsvDictReader WITH
  Rows <- CsvRows, MaxLines <- 3, None <- Null,
  Configs <- {Flags(TRUE, TRUE, TRUE, TRUE), Flags(TRUE, FALSE, FALSE, TRUE),
              Flags(FALSE, TRUE, TRUE, FALSE)}

\* Addresses of one and of two bytes, of two bits each.
Ip == INSTANCE IpTools WITH Width <- 2, V4 <- 1, V6 <- 2, MaxRanges <- 2

Args == INSTANCE ArgsEditor WITH Entries <- {Flag, x, y, Null}, MaxArgs <- 4

Env == INSTANCE EnvVarRaii WITH
  Names <- {"n1", "n2"}, Values <- {"v1", "v2"}, Unset <- Null, MaxGuards <- 2

Temp == INSTANCE TempDir WITH
  Files <- {o1, o2}, Dirs <- {"dir"}, Names <- {"n1", "n2"}, Descriptors <- 0..2, None <- Null

Http == INSTANCE HttpClient WITH
  Clients <- {o1, o2}, Handles <- {x, y}, Lists <- {b1, b2},
  Callbacks <- {"cb"}, DefaultPeriod <- 10, Timeouts <- {0, 1}

-----------------------------------------------------------------------------
(* Answers of name servers.                                                *)

\* SVCB parameters, as they are in a message and as they read.
P(key, v, meaning) == [key |-> key, v |-> v, value |-> meaning]
SvcbParams == {
  P(0, <<0, 1, 0, 3>>, <<1, 3>>),
  P(1, <<2, 104, 51, 1, 104>>, <<<<104, 51>>, <<104>>>>), P(1, <<>>, <<>>),
  P(2, <<>>, <<>>),
  P(3, <<1, 187>>, <<443>>),
  P(4, <<1, 2, 3, 4, 5, 6, 7, 8>>, <<<<1, 2, 3, 4>>, <<5, 6, 7, 8>>>>),
  P(6, [i \in 1..16 |-> i], <<[i \in 1..16 |-> i]>>),
  P(7, <<47>>, <<47>>),
  P(5, <<9>>, Null), P(3, <<1>>, Null), P(1, <<5, 1>>, Null), P(4, <<1, 2, 3>>, Null)}

\* A name that is compressed, one that is not, the root, and one that is not a name.
Compressed == [text |-> <<"a", ".", "b">>, wire |-> 2, valid |-> TRUE]
Plain == [text |-> <<"a", ".", "b">>, wire |-> 5, valid |-> TRUE]
Root == [text |-> <<>>, wire |-> 1, valid |-> TRUE]
Broken == [text |-> <<"a", ".", "b">>, wire |-> 5, valid |-> FALSE]

NameRecord(t, n) ==
  [type |-> t, parses |-> TRUE, cut |-> 0, bytes |-> <<>>, name |-> n,
   priority |-> 7, port |-> 5, weight |-> 9]

TxtRecord(ss) ==
  [type |-> "txt", parses |-> TRUE, cut |-> 0, strings |-> ss,
   bytes |-> FlattenSeq([i \in 1..Len(ss) |-> <<Len(ss[i])>> \o ss[i]])]

SvcbRecord(n, ps) ==
  [type |-> "svcb", parses |-> TRUE, cut |-> 0, name |-> n, priority |-> 7, params |-> ps,
   bytes |-> FlattenSeq([i \in 1..Len(ps) |-> <<0, ps[i].key, 0, Len(ps[i].v)>> \o ps[i].v])]

AddrRecord(f, n) ==
  [type |-> "addr", parses |-> TRUE, cut |-> 0, family |-> f, bytes |-> <<1>>, canonname |-> n]

Cut(records, k) == {[r EXCEPT !.cut = k] : r \in {s \in records : Len(s.bytes) >= k}}

NameRecords ==
  {NameRecord(t, n) : t \in {"mx", "cname", "srv"}, n \in {Compressed, Plain, Root, Broken}}
TxtRecords == {TxtRecord(ss) : ss \in BoundedSeq({<<>>, <<65>>, <<66, 67>>}, 2)}
SvcbRecords ==
  {SvcbRecord(Compressed, ps) : ps \in BoundedSeq(SvcbParams, 2)}
    \cup {SvcbRecord(n, ps) : n \in {Root, Broken}, ps \in BoundedSeq(SvcbParams, 1)}
AddrRecords == {AddrRecord("inet", Null), AddrRecord("inet6", "name"), AddrRecord("unix", Null)}

\* Records of different types, whole, cut and unreadable, to be mixed in one answer.
Mixed ==
  {NameRecord("mx", Compressed), NameRecord("cname", Plain), TxtRecord(<<<<66, 67>>>>),
   [TxtRecord(<<<<65>>>>) EXCEPT !.cut = 1], [TxtRecord(<<<<65>>>>) EXCEPT !.parses = FALSE],
   SvcbRecord(Root, <<P(3, <<1, 187>>, <<443>>)>>)}

\* Each record alone, whole and cut; two records; none.
DnsAnswers ==
  {<<>>}
    \cup {<<r>> : r \in NameRecords \cup TxtRecords \cup SvcbRecords \cup AddrRecords}
    \cup {<<[r EXCEPT !.cut = r.name.wire]>> : r \in {s \in NameRecords : s.type # "cname"}}
    \cup {<<r>> : r \in UNION {Cut(TxtRecords \cup SvcbRecords, k) : k \in {1, 2, 5}}}
    \cup {<<r, s>> : r, s \in Mixed}
    \cup {<<r, s>> : r, s \in AddrRecords}

\* The first buffer holds the small message only.
Dns == INSTANCE DnsTools WITH
  Platforms <- {"posix", "w32"}, Answers <- DnsAnswers, Lengths <- {1, 3}, BufferSize <- 2,
  None <- Null, platform <- dnsPlatform
-----------------------------------------------------------------------------
\* A size of 3 is 0 in an unsigned int, one of 4 is 1.
Digest == INSTANCE DataHash WITH
  Platforms <- {"openssl", "win32", "macos"}, Threads <- {o1, o2},
  Inputs <- {<<x>>, <<x, y>>, <<x, y, x, x>>}, MaxAdded <- 6,
  Word <- 3, BufferSizes <- 0..4, MaxFile <- 4, None <- Null

\* A delimiter, a space, a letter and the literals of a Boolean; bytes of every kind.
Letters == {",", " ", "a", "1", "0"}

Txt == INSTANCE TextTools WITH
  Pieces <- {<<d>> : d \in Letters} \cup {<<"t", "r">>, <<"f", "s">>},
  Code <- [d \in Letters \cup {"t", "r", "f", "s"} |->
             CASE d = "," -> 44 [] d = " " -> 0 [] d = "a" -> 255 [] OTHER -> 178],
  Delim <- ",", Spaces <- {" "},
  TrueValues <- {<<"1">>, <<"t", "r">>}, FalseValues <- {<<"0">>, <<"f", "s">>},
  MaxLength <- 4

\* Zones behind, at and ahead of UTC; summers after and across 1970, and none; the clock
\* starts before and ends after the library's dates.
Tz == INSTANCE CTimezone WITH
  Offsets <- {-2, 0, 1}, Hour <- 2, Ticks <- 2, From <- -6, Until <- 8,
  Earliest <- -5, Latest <- 7,
  Summers <- {[begin |-> 2, end |-> 5], [begin |-> -4, end |-> 1], [begin |-> 9, end |-> 9]}

\* Targets narrower than long long, as wide, and values that neither holds.
Round == INSTANCE MathRound WITH
  LongBits <- 4, TargetBits <- 2..4, MaxValue <- 40, value <- number

Raii == INSTANCE HandleRaii WITH
  Objects <- {o1, o2}, Guards <- {"guard"}, Handles <- 0..2, None <- Null

ASSUME Vec!VectorAssumption
ASSUME Csv!CsvAssumption
ASSUME Ip!IpAssumption
ASSUME Ip!LessOrdersByValue
ASSUME Args!ArgsAssumption
ASSUME Env!EnvAssumption
ASSUME Temp!TempAssumption
ASSUME Http!HttpAssumption
ASSUME Dns!DnsAssumption
ASSUME Digest!HashAssumption
ASSUME Txt!TextAssumption
ASSUME Tz!TimezoneAssumption
ASSUME Round!RoundAssumption
ASSUME Raii!HandleAssumption

\* Objects, elements and blocks are interchangeable.
Interchangeable ==
  Permutations({o1, o2}) \cup Permutations({x, y}) \cup Permutations({b1, b2, b3})
-----------------------------------------------------------------------------
vecVars == <<vector, heap, contents, released>>
csvVars == <<config, lines, at, columns, values, reader, rows, got>>
ipVars == <<ranges, significant>>
argsVars == <<argv, argc, index, found, loop, given>>
envVars == <<env, guards>>
tempVars == <<disk, temp, fds>>
httpVars == <<client, options, liveLists, request, asked, cleared>>
typesVars == <<vecVars, csvVars, ipVars, argsVars, envVars, tempVars, httpVars>>
dnsVars == <<dnsPlatform, buffer, op, pc, answer, reply>>
hashVars == <<platform, alive, context, home, hashed, added, clipped, digest,
              size, reading, buffersize, position, opened, atEnd>>
tzVars == <<win32, offset, summer, late, now>>
roundVars == <<number, rounding, target, errexcept>>
raiiVars == <<held, armed, raw, open>>
toolsVars == <<dnsVars, hashVars, text, tzVars, roundVars, raiiVars>>

TypesInit ==
  /\ Csv!Init /\ (part # "csv" => config = Flags(TRUE, TRUE, TRUE, TRUE))
  /\ Args!Init /\ (part # "args" => argc = 0)
  /\ Env!Init /\ (part # "env" => \A n \in DOMAIN env : env[n] = Null)
  /\ Temp!Init /\ (part # "temp" => fds = {0} /\ \A n \in DOMAIN disk : disk[n] = Null)
  /\ Vec!Init /\ Ip!Init /\ Http!Init

\* The hasher and hash_file() do not meet: one of them runs.
ToolsInit ==
  /\ Dns!Init /\ (part # "dns" => dnsPlatform = "posix")
  /\ Digest!Init /\ (part # "hasher" => platform = "openssl")
  /\ (part # "file" => size = 0)
  /\ Tz!Init /\ (part # "zone" => ~win32 /\ offset = 0 /\ summer.begin = 2 /\ late)
  /\ Round!Init
  /\ part # "round" =>
       number = NotFinite /\ rounding = "val" /\ target.bits = 2 /\ target.signed /\ errexcept
  /\ Txt!Init /\ Raii!Init

AllInit ==
  /\ part \in {"vector", "csv", "ip", "args", "env", "temp", "http",
                "dns", "hasher", "file", "text", "zone", "round", "handles"}
  /\ TypesInit /\ ToolsInit

TypesNext ==
  \/ /\ part = "vector" /\ Vec!Next
     /\ UNCHANGED <<csvVars, ipVars, argsVars, envVars, tempVars, httpVars>>
  \/ /\ part = "csv" /\ Csv!Next
     /\ UNCHANGED <<vecVars, ipVars, argsVars, envVars, tempVars, httpVars>>
  \/ /\ part = "ip" /\ Ip!Next
     /\ UNCHANGED <<vecVars, csvVars, argsVars, envVars, tempVars, httpVars>>
  \/ /\ part = "args" /\ Args!Next
     /\ UNCHANGED <<vecVars, csvVars, ipVars, envVars, tempVars, httpVars>>
  \/ /\ part = "env" /\ Env!Next
     /\ UNCHANGED <<vecVars, csvVars, ipVars, argsVars, tempVars, httpVars>>
  \/ /\ part = "temp" /\ Temp!Next
     /\ UNCHANGED <<vecVars, csvVars, ipVars, argsVars, envVars, httpVars>>
  \/ /\ part = "http" /\ Http!Next
     /\ UNCHANGED <<vecVars, csvVars, ipVars, argsVars, envVars, tempVars>>

ToolsNext ==
  \/ /\ part = "dns" /\ Dns!Next
     /\ UNCHANGED <<hashVars, text, tzVars, roundVars, raiiVars>>
  \/ /\ part = "hasher" /\ Digest!HasherStep
     /\ UNCHANGED <<dnsVars, text, tzVars, roundVars, raiiVars>>
  \/ /\ part = "file" /\ Digest!FileStep
     /\ UNCHANGED <<dnsVars, text, tzVars, roundVars, raiiVars>>
  \/ /\ part = "text" /\ Txt!Next
     /\ UNCHANGED <<dnsVars, hashVars, tzVars, roundVars, raiiVars>>
  \/ /\ part = "zone" /\ Tz!Next
     /\ UNCHANGED <<dnsVars, hashVars, text, roundVars, raiiVars>>
  \/ /\ part = "round" /\ Round!Next
     /\ UNCHANGED <<dnsVars, hashVars, text, tzVars, raiiVars>>
  \/ /\ part = "handles" /\ Raii!Next
     /\ UNCHANGED <<dnsVars, hashVars, text, tzVars, roundVars>>

AllNext ==
  \/ TypesNext /\ UNCHANGED <<toolsVars, part>>
  \/ ToolsNext /\ UNCHANGED <<typesVars, part>>
-----------------------------------------------------------------------------
(* Properties.                                                             *)

\* A vector is the sequence of the calls made on it, and its memory its own.
VectorIsSequence == Vec!VectorIsSequence

\* The reader returns the rows that were written.
CsvRoundTrip == Csv!CsvRoundTrip

\* An address is in a list of ranges iff it has the prefix of one of them.
PrefixMatch == Ip!PrefixMatch

\* Every occurrence of the flag leaves argv, and nothing else does.
ArgsAreFiltered == Args!ArgsAreFiltered

\* Guards that end in reverse order leave the environment as it was.
EnvIsRestored == Env!EnvIsRestored

\* A file that is going to be removed, and a handle that is going to be closed, are one
\* owner's own, however they travel between objects, guards and the program.
OnlyOwnReleased == Temp!OnlyOwnFilesRemoved /\ Raii!HandleClosedOnce

\* A client's handle and headers are its own, and so is what a request is sent with.
ClientOwnsWhatItSends == Http!ClientOwnsWhatItSends

\* A lookup reports the records of its type in the last answer, as the zone has them.
LookupIsAnswer == Dns!LookupIsAnswer

\* A digest is that of the bytes added since reset(), or of the file as it was at its end.
DigestIsOfData == Digest!DigestIsOfAdded /\ Digest!FileDigestIsWhole


\* The name a record points to is reported whole.
NamesAreWhole == Dns!NamesAreWhole

\* README.md:84: the headers and the error buffer of a request are its client's.
PointersAreTheClients == Http!PointersAreTheClients

\* README.md:57: every row that is written is read back.
CsvLosesNothing == Csv!CsvLosesNothing
=============================================================================
