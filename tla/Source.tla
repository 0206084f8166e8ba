------------------------------- MODULE Source -------------------------------
(***************************************************************************)
(* How a place in the source text is shown in an error message:            *)
(* SourceObject::getHightlightedPosition() in src/src/source.cpp.          *)
(* Arithmetic on size_t wraps around.                                      *)
(***************************************************************************)
EXTENDS Text

CONSTANT SizeValues   \* the number of values of size_t, 2 ^ 64 in the program

ASSUME SizeValuesAssumption == SizeValues \in Nat \ {0}

Wrap(n) == n % SizeValues

\* What is shown: the line and the column of the mark below it; or nothing,
\* when std::out_of_range is thrown.
Line(line, mark) == [ok |-> TRUE, line |-> line, mark |-> mark]
OutOfRange == [ok |-> FALSE, line |-> <<>>, mark |-> 0]

\* Mutant: the line begins with the newline that ends the one before.
lineBeginAtNewline(text, position) ==
  Max({0, FindBackFrom(text, position, {"\n"})})

lineBegin(text, position) == FindBackFrom(text, position, {"\n"}) + 1

\* Mutant: the last line goes up to the end of the text.
lineEndOfText(text, position) == FindFrom(text, position, {"\n"})

lineEnd(text, position) ==
  LET newline == FindFrom(text, position, {"\n"})
  IN  IF newline = Len(text) THEN Len(text) - 1 ELSE newline

getHightlightedPosition(text, position) ==
  LET begin == lineBegin(text, position)
      length == Wrap(lineEnd(text, position) - begin)
      line == Slice(text, begin, Min({begin + length, Len(text)}))
      relativeTokenPosition == Wrap(position - begin)
  IN  IF \/ position >= Len(text)
         \/ relativeTokenPosition >= Len(line)
        THEN OutOfRange
        ELSE Line(line, relativeTokenPosition)
=============================================================================
