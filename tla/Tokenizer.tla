------------------------------ MODULE Tokenizer ------------------------------
(***************************************************************************)
(* The tokenizer of unzig: tokenize() in src/src/tokenizer.cpp.            *)
(*                                                                         *)
(* One action is one pass through the body of the for loop, split by the   *)
(* branches of its switch statements.  `i' is the loop variable at the     *)
(* head of the loop, so a branch that ends in `i--' leaves it alone (the   *)
(* character is read again in the state Begin) and one that does `++i'     *)
(* moves it by two.                                                        *)
(*                                                                         *)
(* A definition marked `Mutant' is a plausible mistake in the definition   *)
(* that follows it.  No specification uses it; PROJECT.json says which     *)
(* property notices when it takes the place of the right one.              *)
(***************************************************************************)
EXTENDS Text, Tokens

CONSTANT Sources    \* the source texts considered, sequences of characters

ASSUME SourcesAssumption == Sources \subseteq Seq(STRING)

-----------------------------------------------------------------------------
VARIABLES
  in,               \* the raw source, chosen once
  i,                \* the loop variable, 0 .. in.size() + 1
  state,            \* TokenizeState
  identifierStr,    \* the text of the word or number in progress
  tokens,           \* the tokens pushed so far
  status            \* "running", "done" (returned) or "fatal" (exited)

vars == <<in, i, state, identifierStr, tokens, status>>

\* in.size(), in.at(k), and the character of the iteration: a blank closes
\* whatever is in progress at the end of the source.
Size == Len(in)
At(k) == CharAt(in, k)
c == IF i = Size THEN " " ELSE At(i)

\* Mutant: the check is made outside comments only.
isKnownCharOfCode == state = "Comment" \/ c \in KnownChars

isKnownChar == c \in KnownChars

Init ==
  /\ in \in Sources
  /\ i = 0
  /\ state = "Begin"
  /\ identifierStr = <<>>
  /\ tokens = <<>>
  /\ status = "running"

\* The head of an iteration whose character passed isKnownChar.
Iterate(s) ==
  /\ status = "running"
  /\ i <= Size
  /\ isKnownChar
  /\ state = s
  /\ UNCHANGED <<in, status>>

Push(token) == tokens' = Append(tokens, token)

\* fatalLexerError("unknown char"): the check precedes the switch on state.
UnknownChar ==
  /\ status = "running"
  /\ i <= Size
  /\ ~isKnownChar
  /\ status' = "fatal"
  /\ UNCHANGED <<in, i, state, identifierStr, tokens>>

(* state Begin *)

BeginSkip ==
  /\ Iterate("Begin")
  /\ c \in Skip
  /\ i' = i + 1
  /\ identifierStr' = <<>>
  /\ UNCHANGED <<state, tokens>>

\* Any special character directly before a slash opens a comment.
OpensComment == i + 1 < Size /\ At(i + 1) = "/"

\* Mutant: the bound of the look-ahead is one too small.
OpensTwoCharsTooEarly ==
  i + 2 < Size /\ <<c, At(i + 1)>> \in DOMAIN twoCharsTokenIds

OpensTwoChars == i + 1 < Size /\ <<c, At(i + 1)>> \in DOMAIN twoCharsTokenIds

BeginComment ==
  /\ Iterate("Begin")
  /\ c \in Special
  /\ OpensComment
  /\ i' = i + 2
  /\ state' = "Comment"
  /\ identifierStr' = <<>>
  /\ UNCHANGED tokens

BeginTwoChars ==
  /\ Iterate("Begin")
  /\ c \in Special
  /\ ~OpensComment
  /\ OpensTwoChars
  /\ i' = i + 2
  /\ identifierStr' = <<>>
  /\ Push(Token(twoCharsTokenIds[<<c, At(i + 1)>>], <<>>, i))
  /\ UNCHANGED state

BeginSingleChar ==
  /\ Iterate("Begin")
  /\ c \in Special
  /\ ~OpensComment
  /\ ~OpensTwoChars
  /\ i' = i + 1
  /\ identifierStr' = <<>>
  /\ Push(Token(singleCharTokenIds[c], <<>>, i))
  /\ UNCHANGED state

\* Mutant: the text of the previous lexeme is not cleared.
BeginLexemeUncleared(class, s) ==
  /\ Iterate("Begin")
  /\ c \in class
  /\ i' = i + 1
  /\ identifierStr' = Append(identifierStr, c)
  /\ state' = s
  /\ UNCHANGED tokens

\* A letter or a digit opens a word or a number.
BeginLexeme(class, s) ==
  /\ Iterate("Begin")
  /\ c \in class
  /\ i' = i + 1
  /\ identifierStr' = <<c>>
  /\ state' = s
  /\ UNCHANGED tokens

BeginAlpha == BeginLexeme(Alpha, "Identifier")
BeginDigit == BeginLexeme(Digit, "Number")

\* The default branch: of the known characters only a dot gets here.
BeginOther ==
  /\ Iterate("Begin")
  /\ c \notin Skip \cup Special \cup AlphaDigit
  /\ i' = i + 1
  /\ identifierStr' = <<>>
  /\ UNCHANGED <<state, tokens>>

(* states Identifier and Number *)

Extend(s, class) ==
  /\ Iterate(s)
  /\ c \in class
  /\ i' = i + 1
  /\ identifierStr' = Append(identifierStr, c)
  /\ UNCHANGED <<state, tokens>>

\* Mutant: the position of the last character, not of the first.
tokenPositionAtEnd == i - 1

tokenPosition == i - Len(identifierStr)

ExtendIdentifier == Extend("Identifier", AlphaDigit)
ExtendNumber == Extend("Number", Digit \cup Dot)

\* Mutant: no i--, the character that ends a word is swallowed.
EndIdentifierSwallows ==
  /\ Iterate("Identifier")
  /\ c \notin AlphaDigit
  /\ Push(getKeywordOrIdentifierTokenFromString(identifierStr, tokenPosition))
  /\ state' = "Begin"
  /\ i' = i + 1
  /\ UNCHANGED identifierStr

\* i-- and the loop's ++i cancel: the character is read again in Begin.
EndIdentifier ==
  /\ Iterate("Identifier")
  /\ c \notin AlphaDigit
  /\ Push(getKeywordOrIdentifierTokenFromString(identifierStr, tokenPosition))
  /\ state' = "Begin"
  /\ UNCHANGED <<i, identifierStr>>

\* Mutant: i-- without leaving the state Number.
EndNumberStays ==
  /\ Iterate("Number")
  /\ c \notin Digit \cup Dot
  /\ Push(numberToken(identifierStr, tokenPosition))
  /\ UNCHANGED <<i, state, identifierStr>>

EndNumber ==
  /\ Iterate("Number")
  /\ c \notin Digit \cup Dot
  /\ Push(numberToken(identifierStr, tokenPosition))
  /\ state' = "Begin"
  /\ UNCHANGED <<i, identifierStr>>

(* state Comment *)

\* Mutant: an extra ++i, as in the branches that look ahead.
CommentStepByTwo ==
  /\ Iterate("Comment")
  /\ i' = i + 2
  /\ state' = IF c \in Newline THEN "Begin" ELSE "Comment"
  /\ UNCHANGED <<identifierStr, tokens>>

CommentStep ==
  /\ Iterate("Comment")
  /\ i' = i + 1
  /\ state' = IF c \in Newline THEN "Begin" ELSE "Comment"
  /\ UNCHANGED <<identifierStr, tokens>>

\* Mutant: the tokens are returned without an Eof.
FinishWithoutEof ==
  /\ status = "running"
  /\ i > Size
  /\ status' = "done"
  /\ UNCHANGED <<in, i, state, identifierStr, tokens>>

\* The loop is over: the Eof token sits one past the last character.
Finish ==
  /\ status = "running"
  /\ i > Size
  /\ Push(Token("Eof", <<>>, Size))
  /\ status' = "done"
  /\ UNCHANGED <<in, i, state, identifierStr>>

Next ==
  \/ UnknownChar
  \/ BeginSkip \/ BeginComment \/ BeginTwoChars \/ BeginSingleChar
  \/ BeginAlpha \/ BeginDigit \/ BeginOther
  \/ ExtendIdentifier \/ ExtendNumber \/ EndIdentifier \/ EndNumber
  \/ CommentStep
  \/ Finish

Spec == Init /\ [][Next]_vars

\* tokenize() runs on one thread and is never suspended.
FairSpec == Spec /\ WF_vars(Next)
-----------------------------------------------------------------------------
(* Properties. *)

TokenRecord == [id : TokenId, value : Seq(KnownChars), position : Nat]

\* The variables have the values the declarations promise.
TypeOK ==
  /\ in \in Sources
  /\ i \in 0 .. Size + 1
  /\ state \in {"Begin", "Identifier", "Number", "Comment"}
  /\ identifierStr \in Seq(KnownChars)
  /\ tokens \in Seq(TokenRecord)
  /\ status \in {"running", "done", "fatal"}

\* Where the next piece of the text starts.  Inside a comment that is its end.
lexemePos ==
  CASE state \in {"Identifier", "Number"} -> tokenPosition
    [] state = "Comment" /\ i <= Size -> FindFrom(in, i, Newline)
    [] OTHER -> IF i <= Size THEN i ELSE Size

Lex == INSTANCE Lexemes WITH pos <- lexemePos

\* The automaton, with its look-ahead, its i-- and its blank after the last
\* character, cuts the text into the pieces Lexemes describes, and returns or
\* exits when Lexemes accepts or rejects (tokenizer.cpp:304-394).
CutsIntoLexemes == Lex!Spec

\* The control state and the text in progress fit the source: a word or a
\* number in progress is the text before i, and never outlives the source
\* (tokenizer.cpp:350-381).
InProgressFits ==
  state \in {"Identifier", "Number"} =>
    /\ i <= Size
    /\ Len(identifierStr) \in 1 .. i
    /\ identifierStr = Slice(in, tokenPosition, i)
    /\ state = "Identifier" => /\ identifierStr[1] \in Alpha
                               /\ identifierStr \in Seq(AlphaDigit)
    /\ state = "Number" => /\ identifierStr[1] \in Digit
                           /\ identifierStr \in Seq(Digit \cup Dot)

\* The first unknown character ends the run wherever it is, those the
\* look-ahead steps over included, and only a source of known characters is
\* tokenized (tokenizer.cpp:314-316).  Known is what the code knows: see
\* CharactersOfGrammarAreKnown for the grammar.
RejectsFirstUnknown ==
  /\ \A k \in 0 .. i - 1 : k < Size => At(k) \in KnownChars
  /\ status = "fatal" => i < Size /\ At(i) \notin KnownChars
  /\ status = "done" => i > Size

\* The parser never reads past the end of the tokens because there is exactly
\* one Eof token, it is the last, and it is there when tokenize() returns
\* (tokenizer.cpp:394, relied on by parser.hpp:15-18).
EofClosesTokens ==
  \A k \in 1 .. Len(tokens) :
    tokens[k].id = "Eof" <=> status = "done" /\ k = Len(tokens)

\* The texts that stand for themselves, with the ids of their tokens.
fixedTexts ==
  {<<<<>>, "Eof">>}
    \cup {<<s, keywordTokenIds[s]>> : s \in DOMAIN keywordTokenIds}
    \cup {<<s, twoCharsTokenIds[s]>> : s \in DOMAIN twoCharsTokenIds}
    \cup {<<<<ch>>, singleCharTokenIds[ch]>> : ch \in Special}

\* The text a token stands for.
spelling(token) ==
  IF token.value # <<>>
    THEN token.value
    ELSE (CHOOSE row \in fixedTexts : row[2] = token.id)[1]

tokenEnd(token) == token.position + Len(spelling(token))

\* Error messages point at the right place: every token is spelled in the
\* source at its position, and the next one starts where it ends or later.
TokensSpelledInOrder ==
  \A k \in 1 .. Len(tokens) :
    LET limit == IF k < Len(tokens) THEN tokens[k + 1].position ELSE lexemePos
    IN  /\ tokenEnd(tokens[k]) <= limit
        /\ Slice(in, tokens[k].position, tokenEnd(tokens[k]))
             = spelling(tokens[k])

\* No code is lost: when tokenize() returns, a character that is neither blank
\* nor a dot belongs to a token or comes after the opening of a comment on the
\* same line (tokenizer.cpp:320-389).
NothingLost ==
  status = "done" =>
    \A k \in 0 .. Size - 1 :
      \/ At(k) \in Skip \cup Dot
      \/ \E t \in 1 .. Len(tokens) : tokens[t].position <= k
                                       /\ k < tokenEnd(tokens[t])
      \/ \E s \in 0 .. k :
           /\ s + 1 < Size /\ At(s) \in Special /\ At(s + 1) = "/"
           /\ \A t \in 1 .. Len(tokens) :
                s \notin tokens[t].position .. tokenEnd(tokens[t]) - 1
           /\ \A l \in s .. k : At(l) \notin Newline

\* Every iteration comes nearer to the end, although two branches undo the
\* loop's ++i: they leave a state they cannot be in on the same character
\* again (tokenizer.cpp:359, 378).
distance == 2 * (Size + 1 - i) + (IF state = "Begin" THEN 0 ELSE 1)
                               + (IF status = "running" THEN 1 ELSE 0)

AlwaysNearer == [][distance' < distance]_vars

\* spec/grammar.y:75 `comment <- '//' [^\n]*': a comment opens with two
\* slashes.
CommentsOpenWithTwoSlashes ==
  [][state # "Comment" /\ state' = "Comment" => c = "/"]_vars

\* A character the grammar has a place for is not taken for an unknown one:
\* spec/grammar.y:75 `comment <- '//' [^\n]*' lets any text follow on the line
\* of a comment, and :81 `IDENTIFIER <- !keyword [A-Za-z_] [A-Za-z0-9_]*' has
\* the underscore in names.
CharactersOfGrammarAreKnown ==
  status = "fatal" => state # "Comment" /\ c # "_"
=============================================================================
