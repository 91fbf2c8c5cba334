------------------------------- MODULE Offsets -------------------------------
(***************************************************************************)
(* graphrag.scip.offsets and the ranges of scip.read: an occurrence of a   *)
(* SCIP index, given as lines and columns in the units of its indexer, as  *)
(* UTF-8 bytes from the start of the file.                                 *)
(*                                                                         *)
(* A text is a sequence of characters, and of a character only its widths  *)
(* matter.  The separator is U+2028: Python's splitlines breaks at it.     *)
(***************************************************************************)
EXTENDS Integers, Sequences, SequencesExt, FiniteSetsExt

Utf8 == [ascii |-> 1, newline |-> 1, latin |-> 2, separator |-> 3, astral |-> 4]
Char == DOMAIN Utf8

Utf16 == [c \in Char |-> IF c = "astral" THEN 2 ELSE 1]

\* How many units the characters of a text take.
Total(width, chars) ==
    LET upTo[n \in 0 .. Len(chars)] == IF n = 0 THEN 0 ELSE upTo[n - 1] + width[chars[n]]
    IN  upTo[Len(chars)]
BytesIn(chars) == Total(Utf8, chars)
UnitsIn(chars) == Total(Utf16, chars)
Until(chars, n) == SubSeq(chars, 1, IF n < Len(chars) THEN n ELSE Len(chars))

\* What a tool that declares nothing counts its columns in.
DefaultEncoding ==
    LET bytes == {"scip-go", "scip-clang", "scip-ruby", "scip-php"}
        units == {"scip-python", "scip-typescript", "scip-java", "scip-kotlin", "scip-dotnet",
                  "scip-dart", "rust-analyzer"}
    IN  [t \in bytes \cup units |-> IF t \in bytes THEN "utf8" ELSE "utf16"]

\* A declared encoding wins; a tool the table lacks is an error.
EncodingFor(tool, declared) ==
    IF declared # "unspecified" THEN declared
    ELSE IF tool \in DOMAIN DefaultEncoding THEN DefaultEncoding[tool] ELSE "EncodingError"

\* A slip: characters are counted where the column counts UTF-16 units.
ByteInLineByCharacters(line, column, encoding) ==
    IF column <= 0 THEN 0
    ELSE IF encoding = "utf8" THEN Min({column, BytesIn(line)})
    ELSE BytesIn(Until(line, column))

\* _byte_in_line: a column past the line is its end, one inside a surrogate pair
\* the end of the pair.
ByteInLine(line, column, encoding) ==
    CASE column <= 0 -> 0
      [] column > 0 /\ encoding = "utf8"  -> Min({column, BytesIn(line)})
      [] column > 0 /\ encoding = "utf32" -> BytesIn(Until(line, column))
      [] OTHER ->
           BytesIn(Until(line, Min({n \in 0 .. Len(line) :
                                       UnitsIn(Until(line, n)) >= column \/ n = Len(line)})))

\* Offsets.build: split at the newline and nothing else; a line starts one byte
\* behind the line before it.
Build(text) ==
    LET split[n \in 0 .. Len(text)] ==
          IF n = 0 THEN << <<>> >>
          ELSE IF text[n] = "newline" THEN Append(split[n - 1], <<>>)
          ELSE [split[n - 1] EXCEPT ![Len(split[n - 1])] = Append(@, text[n])]
        lines == split[Len(text)]
        offset[k \in 0 .. Len(lines)] ==
          IF k = 0 THEN 0 ELSE offset[k - 1] + BytesIn(lines[k]) + 1
    IN  [lines |-> lines, starts |-> [k \in DOMAIN lines |-> offset[k - 1]]]

\* Offsets.byte, with lines counted from 0.
ByteOf(table, line, column, encoding) ==
    CASE line < 0 -> 0
      [] line >= Len(table.lines) -> Last(table.starts) + BytesIn(Last(table.lines))
      [] OTHER -> table.starts[line + 1] + ByteInLine(table.lines[line + 1], column, encoding)

SpanOf(table, range, encoding) ==
    LET start == ByteOf(table, range.start_line, range.start_char, encoding)
        end == ByteOf(table, range.end_line, range.end_char, encoding)
    IN  <<start, Max({start, end})>>

----------------------------------------------------------------------------
(* The three shapes a range is written in                                   *)

RangeAt(startLine, startChar, endLine, endChar) ==
    [start_line |-> startLine, start_char |-> startChar, end_line |-> endLine, end_char |-> endChar]

NoRange == <<>>

\* _typed_range: the fields of a message, where protobuf leaves a zero out.
TypedRange(fields, multiline) ==
    LET one(n) == IF n \in DOMAIN fields THEN fields[n] ELSE 0
    IN  IF multiline THEN RangeAt(one(1), one(2), one(3), one(4))
        ELSE RangeAt(one(1), one(2), one(1), one(3))

DeprecatedRange(v) ==
    CASE Len(v) = 3 -> RangeAt(v[1], v[2], v[1], v[3])
      [] Len(v) = 4 -> RangeAt(v[1], v[2], v[3], v[4])
      [] OTHER -> NoRange

\* _occurrence: the typed range wins where both are set.
RangeRead(occurrence) ==
    IF occurrence.typed # NoRange
    THEN TypedRange(occurrence.typed.fields, occurrence.typed.multiline)
    ELSE DeprecatedRange(occurrence.flat)

----------------------------------------------------------------------------
(* What an indexer writes: external                                         *)

\* The line and the column of the place after n characters of a text.
LineAt(text, n) == Cardinality({i \in 1 .. n : text[i] = "newline"})
ColumnAt(text, n, encoding) ==
    LET breaks == {0} \cup {i \in 1 .. n : text[i] = "newline"}
        before == SubSeq(text, Max(breaks) + 1, n)
    IN  CASE encoding = "utf8" -> BytesIn(before)
          [] encoding = "utf16" -> UnitsIn(before)
          [] encoding = "utf32" -> Len(before)

WithoutZeros(v) == [i \in {j \in DOMAIN v : v[j] # 0} |-> v[i]]

\* Every way to write the occurrence between two places of a text.
Occurrences(text, i, j, encoding) ==
    LET at == <<LineAt(text, i), ColumnAt(text, i, encoding),
                LineAt(text, j), ColumnAt(text, j, encoding)>>
        short == <<at[1], at[2], at[4]>>
        typed(v, multiline) == [fields |-> WithoutZeros(v), multiline |-> multiline]
    IN  {[typed |-> NoRange, flat |-> at], [typed |-> typed(at, TRUE), flat |-> <<>>],
         [typed |-> typed(at, TRUE), flat |-> <<0, 0, 0>>]}
        \cup IF at[1] # at[3] THEN {}
             ELSE {[typed |-> NoRange, flat |-> short], [typed |-> typed(short, FALSE), flat |-> at]}
=============================================================================
