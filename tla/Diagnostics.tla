----------------------------- MODULE Diagnostics -----------------------------
(***************************************************************************)
(* Error messages about tokens: the tokenizer gives every token its        *)
(* position, the parser (parser.cpp:38-42), the semantic analysis          *)
(* (sema.cpp:10-14) and the code generator (codegen.cpp:115-119) show the  *)
(* place by SourceObject::getHightlightedPosition().                       *)
(***************************************************************************)
EXTENDS Tokenizer, Source

\* The length of a std::string is a size_t.
ASSUME TextsAssumption == \A text \in Sources : Len(text) < SizeValues

VARIABLE shown      \* the token of the message and what was shown, or nothing

NotShown == [token |-> 0, result |-> OutOfRange]

DiagnosticsInit == Init /\ shown = NotShown

\* Any token may be the one a message is about.
ShowToken ==
  /\ status = "done"
  /\ shown = NotShown
  /\ \E k \in DOMAIN tokens :
       shown' = [token |-> k,
                 result |-> getHightlightedPosition(in, tokens[k].position)]
  /\ UNCHANGED vars

DiagnosticsNext == (Next /\ UNCHANGED shown) \/ ShowToken

DiagnosticsSpec ==
  DiagnosticsInit /\ [][DiagnosticsNext]_<<in, i, state, identifierStr, tokens,
                                          status, shown>>

-----------------------------------------------------------------------------
(* Properties. *)

\* The mark stands below the first character of the token, and what is shown
\* is its line from the beginning to the newline, or to the last character of
\* the text, which is cut off (source.cpp:23).
MarkBelowToken ==
  shown.result.ok =>
    LET position == tokens[shown.token].position
        line == shown.result.line
        begin == position - shown.result.mark
        end == begin + Len(line)
    IN  /\ line = Slice(in, begin, end)
        /\ \A k \in DOMAIN line : line[k] # "\n"
        /\ begin = 0 \/ At(begin - 1) = "\n"
        /\ end = Size - 1 \/ At(end) = "\n"

\* The parser as the module Parser describes it, after this tokenizer.
lastTokenAtEnd ==
  /\ Len(tokens) > 1
  /\ tokens[Len(tokens) - 1].position = Size - 1

P == INSTANCE Parser WITH
       Inputs <- {}, Start <- "parse",
       tokens <- [k \in DOMAIN tokens |-> tokens[k].id],
       exposed <- lastTokenAtEnd,
       cursor <- 0, stack <- <<>>, ret <- 0

\* A message fails to show its place, and std::out_of_range ends the program
\* in its stead, for exactly the tokens that the model of the parser takes to
\* be so: the Eof token and a token at the last character of a text that does
\* not end with a newline.
PlacesShownAsParserSays ==
  shown # NotShown =>
    (shown.result.ok <=> P!Highlightable(shown.token - 1))
=============================================================================
