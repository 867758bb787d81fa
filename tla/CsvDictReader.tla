--------------------------- MODULE CsvDictReader ---------------------------
(***************************************************************************)
(* nstl::csv (nstl/nstl/csv_dict_reader.cpp): a writer puts rows into a    *)
(* file, one line each, and csv_dict_reader reads them back.               *)
(*                                                                         *)
(* Characters are Esc, Coma, Quote, Hash (the comment character), Nl, N    *)
(* (the letter n, which means something after Esc) and letters without a   *)
(* meaning: the code tells no others apart.  Only lines of write_row are   *)
(* read.                                                                   *)
(***************************************************************************)
EXTENDS Integers, SequencesExt

CONSTANTS
  Esc, Coma, Quote, Hash, Nl, N,
  Rows,               \* the rows that may be written: sequences of fields
  MaxLines,           \* bound: the lines of a file
  Configs,            \* the flags of csv_parse_config that may be chosen; comment: not '\0'
  None

CsvAssumption ==
  /\ MaxLines \in Nat
  /\ Configs \subseteq [parseHeaders : BOOLEAN, skipEmptyLines : BOOLEAN,
                         checkColumnsSize : BOOLEAN, comment : BOOLEAN]

VARIABLES
  config,             \* _config
  lines,              \* the lines of the file
  at,                 \* the lines getline has taken
  columns,            \* _columns: the header's index by name, or None
  values,             \* _values, or None
  reader,             \* "none", "open", "end" (next() was FALSE) or "thrown"
  rows,               \* history: the rows behind the lines
  got                 \* history: the rows next() has returned

csvVars == <<config, lines, at, columns, values, reader, rows, got>>

Init ==
  /\ config \in Configs
  /\ lines = <<>> /\ rows = <<>>
  /\ at = 0
  /\ columns = None /\ values = None
  /\ reader = "none"
  /\ got = <<>>
-----------------------------------------------------------------------------
(* write_field and write_row                                               *)

\* Mutant: the escape character itself is written as it is.
EscapedQuoteOnly(ch) ==
  IF ch = Quote THEN <<Esc, ch>>
  ELSE IF ch = Nl THEN <<Esc, N>>
  ELSE <<ch>>

Escaped(ch) ==
  IF ch \in {Esc, Quote} THEN <<Esc, ch>>
  ELSE IF ch = Nl THEN <<Esc, N>>
  ELSE <<ch>>

WriteField(field) ==
  IF Range(field) \cap {Esc, Coma, Quote, Nl} = {}
  THEN field
  ELSE <<Quote>> \o FlattenSeq([i \in DOMAIN field |-> Escaped(field[i])]) \o <<Quote>>

WriteRow(row) ==
  FlattenSeq([i \in DOMAIN row |-> IF i = 1 THEN WriteField(row[i])
                                   ELSE <<Coma>> \o WriteField(row[i])])

\* A row and the caller's line end.
Write(row) ==
  /\ reader = "none"
  /\ Len(lines) < MaxLines
  /\ lines' = Append(lines, WriteRow(row))
  /\ rows' = Append(rows, row)
  /\ UNCHANGED <<config, at, columns, values, reader, got>>
-----------------------------------------------------------------------------
(* boost::escaped_list_separator (external), one character at a time.      *)

SepStart == [tokens |-> <<>>, tok |-> <<>>, quoted |-> FALSE, esc |-> FALSE, ok |-> TRUE]

SepEscaped(s, ch) ==
  IF ch = N THEN [s EXCEPT !.tok = Append(@, Nl), !.esc = FALSE]
  ELSE IF ch \in {Esc, Coma, Quote} THEN [s EXCEPT !.tok = Append(@, ch), !.esc = FALSE]
  ELSE [s EXCEPT !.ok = FALSE]

SepStep(s, ch) ==
  IF ~s.ok THEN s
  ELSE IF s.esc THEN SepEscaped(s, ch)
  ELSE IF ch = Esc THEN [s EXCEPT !.esc = TRUE]
  ELSE IF ch = Coma /\ ~s.quoted THEN [s EXCEPT !.tokens = Append(@, s.tok), !.tok = <<>>]
  ELSE IF ch = Quote THEN [s EXCEPT !.quoted = ~@]
  ELSE [s EXCEPT !.tok = Append(@, ch)]

\* The tokens of a line; None if the separator throws.
Tokens(data) ==
  LET s == FoldLeft(SepStep, SepStart, data) IN
  IF data = <<>> THEN <<>>
  ELSE IF s.ok /\ ~s.esc THEN Append(s.tokens, s.tok)
  ELSE None
-----------------------------------------------------------------------------
(* csv_dict_reader                                                         *)

Mapping(names) == [n \in Range(names) |-> CHOOSE i \in DOMAIN names : names[i] = n]

\* The constructor and parse_columns: a header that is missing, duplicated or malformed
\* is an exception.
Open ==
  /\ reader = "none"
  /\ IF ~config.parseHeaders
     THEN reader' = "open" /\ UNCHANGED <<at, columns>>
     ELSE LET names == IF lines = <<>> THEN None ELSE Tokens(lines[1])
          IN  IF names # None /\ IsInjective(names)
              THEN reader' = "open" /\ at' = 1 /\ columns' = Mapping(names)
              ELSE reader' = "thrown" /\ UNCHANGED <<at, columns>>
  /\ UNCHANGED <<config, lines, rows, values, got>>

Skipped(data) ==
  \/ config.skipEmptyLines /\ data = <<>>
  \/ config.comment /\ data # <<>> /\ Head(data) = Hash

\* The next line that is no comment and, perhaps, not empty; 0 at the end of the file.
NextLine ==
  LET rest == {i \in (at + 1)..Len(lines) : ~Skipped(lines[i])} IN
  IF rest = {} THEN 0 ELSE Min(rest)

WrongSize(row) == columns # None /\ config.checkColumnsSize /\ Len(row) # Cardinality(DOMAIN columns)

\* next(): a row of the wrong size is an exception, after which reading may go on.
NextRow ==
  /\ reader = "open"
  /\ NextLine # 0
  /\ at' = NextLine
  /\ values' = Tokens(lines[NextLine])
  /\ got' = IF WrongSize(values') THEN got ELSE Append(got, values')
  /\ UNCHANGED <<config, lines, rows, columns, reader>>

NextEnd ==
  /\ reader = "open"
  /\ NextLine = 0
  /\ at' = Len(lines)
  /\ values' = None
  /\ reader' = "end"
  /\ UNCHANGED <<config, lines, rows, columns, got>>

\* get_field(col)
GetField(col) ==
  IF values = None \/ columns = None THEN None
  ELSE IF col \in DOMAIN columns /\ columns[col] <= Len(values) THEN values[columns[col]]
  ELSE None

\* get_data(): the fields of the current row by name.
GetData == [col \in {col \in DOMAIN columns : columns[col] <= Len(values)} |-> values[columns[col]]]

Next == (\E row \in Rows : Write(row)) \/ Open \/ NextRow \/ NextEnd
-----------------------------------------------------------------------------
\* The first row that is data, and whether the number of a row's fields is accepted.
FirstRow == IF config.parseHeaders THEN 2 ELSE 1

Fits(row, header) ==
  config.parseHeaders /\ config.checkColumnsSize => Len(row) = Len(header)

(***************************************************************************)
(* README.md:57: "write correctly quoted/escaped CSV output".  At the end  *)
(* of a file the rows that were written and have the header's size have    *)
(* been read back: all rows of one empty field or at least all others, the *)
(* weaker of the two claims, so that what refutes it refutes both.         *)
(***************************************************************************)
CsvLosesNothing ==
  LET FitsHeader(row) == Fits(row, rows[1])
      Blank(row) == row = <<(<<>>)>>
      Text(row) == row \notin {<<>>, <<(<<>>)>>}
      data == SelectSeq(SubSeq(rows, FirstRow, Len(rows)), FitsHeader)
  IN  reader = "end" =>
        \/ SelectSeq(got, Blank) = SelectSeq(data, Blank)
        \/ SelectSeq(got, Text) = SelectSeq(data, Text)

(***************************************************************************)
(* Of the rows that write_row can express, next() returns every field with *)
(* its characters and in its column, whatever commas, quotes, escapes and  *)
(* line ends it has.  The rows it cannot express are the ones that refute  *)
(* CsvLosesNothing, and they harm no other: a row of one empty field is an *)
(* empty line, and one that begins with the comment character, unquoted,   *)
(* is a comment.  A row of another size than the header is refused and     *)
(* does no harm to those after it.  By name, a field is found in the       *)
(* header's column.                                                        *)
(***************************************************************************)
CsvRoundTrip ==
  LET Comment(row) == /\ config.comment
                      /\ row[1] # <<>> /\ row[1][1] = Hash
                      /\ Range(row[1]) \cap {Esc, Coma, Quote, Nl} = {}
      Read(row) == IF row = <<(<<>>)>> THEN <<>> ELSE row
      Kept(row) == /\ ~Comment(row)
                   /\ config.skipEmptyLines => Read(row) # <<>>
                   /\ Fits(Read(row), Read(rows[1]))
      taken == SelectSeq(SubSeq(rows, FirstRow, at), Kept)
  IN  /\ reader \in {"open", "end"} => got = [i \in DOMAIN taken |-> Read(taken[i])]
      /\ columns # None /\ got # <<>> /\ values = Last(got) =>
           \A i \in DOMAIN Read(rows[1]) :
             /\ GetField(rows[1][i]) = (IF i <= Len(Last(got)) THEN Last(got)[i] ELSE None)
             /\ rows[1][i] \in DOMAIN GetData <=> i <= Len(Last(got))
=============================================================================
