------------------------------- MODULE Tokens -------------------------------
(***************************************************************************)
(* The vocabulary of unzig's tokenizer: the character classes, the keyword *)
(* and symbol tables and the Token record of src/src/tokenizer.{hpp,cpp}.  *)
(*                                                                         *)
(* A character is a one-character string, a piece of text is a sequence of *)
(* characters; positions count from 0 as they do in the code.              *)
(***************************************************************************)
EXTENDS Integers, Sequences

Alpha == {"a", "b", "c", "d", "e", "f", "g", "h", "i", "j", "k", "l", "m",
          "n", "o", "p", "q", "r", "s", "t", "u", "v", "w", "x", "y", "z",
          "A", "B", "C", "D", "E", "F", "G", "H", "I", "J", "K", "L", "M",
          "N", "O", "P", "Q", "R", "S", "T", "U", "V", "W", "X", "Y", "Z"}

Digit == {"0", "1", "2", "3", "4", "5", "6", "7", "8", "9"}

AlphaDigit == Alpha \cup Digit

Special == {"*", ":", ",", "=", "{", "(", "-", "+", "}", ")", "!", ">", "<",
            "/", ";"}

Newline == {"\r", "\n"}

Skip == Newline \cup {" "}

\* A std::map written as the set of its <<key, value>> rows.
MapOf(rows) ==
  [key \in {row[1] : row \in rows} |-> (CHOOSE row \in rows : row[1] = key)[2]]

keywordTokenIds == MapOf({
  <<<<"f", "n">>, "KwFn">>,
  <<<<"p", "u", "b">>, "KwPub">>,
  <<<<"r", "e", "t", "u", "r", "n">>, "KwReturn">>,
  <<<<"v", "a", "r">>, "KwVar">>,
  <<<<"i", "f">>, "KwIf">>,
  <<<<"e", "l", "s", "e">>, "KwElse">>,
  <<<<"t", "r", "u", "e">>, "KwTrue">>,
  <<<<"f", "a", "l", "s", "e">>, "KwFalse">>,
  <<<<"a", "n", "d">>, "KwAnd">>,
  <<<<"o", "r">>, "KwOr">>})

twoCharsTokenIds == MapOf({
  <<<<"=", "=">>, "EqualEqual">>, <<<<">", "=">>, "RArrowEqual">>,
  <<<<"<", "=">>, "LArrowEqual">>, <<<<"!", "=">>, "ExclamationMarkEqual">>})

singleCharTokenIds == [ch \in Special |->
  CASE ch = "*" -> "Asterisk"   [] ch = ":" -> "Colon"
    [] ch = "," -> "Comma"      [] ch = "=" -> "Equal"
    [] ch = "{" -> "LBrace"     [] ch = "(" -> "LParen"
    [] ch = "-" -> "Minus"      [] ch = "+" -> "Plus"
    [] ch = "}" -> "RBrace"     [] ch = ")" -> "RParen"
    [] ch = ";" -> "Semicolon"  [] ch = "/" -> "Slash"
    [] ch = ">" -> "RArrow"     [] ch = "<" -> "LArrow"
    [] ch = "!" -> "ExclamationMark"]

Dot == {"."}

KnownChars == Special \cup Skip \cup Alpha \cup Dot \cup Digit

TokenId ==
  {"Eof", "FloatLiteral", "IntegerLiteral", "Identifier", "Asterisk", "Colon",
   "Comma", "Equal", "LBrace", "LParen", "Minus", "Plus", "RBrace", "RParen",
   "Semicolon", "Slash", "LArrow", "RArrow", "RArrowEqual", "LArrowEqual",
   "EqualEqual", "ExclamationMark", "ExclamationMarkEqual", "KwFn", "KwPub",
   "KwReturn", "KwVar", "KwIf", "KwElse", "KwTrue", "KwFalse", "KwAnd", "KwOr"}

Token(id, value, position) ==
  [id |-> id, value |-> value, position |-> position]

\* The token of a word: a keyword carries no value, an identifier its text.
getKeywordOrIdentifierTokenFromString(s, position) ==
  IF s \in DOMAIN keywordTokenIds
    THEN Token(keywordTokenIds[s], <<>>, position)
    ELSE Token("Identifier", s, position)

\* The token of a number: a dot anywhere in it makes it a float.
numberToken(s, position) ==
  LET isFloat == \E k \in 1 .. Len(s) : s[k] \in Dot
  IN  Token(IF isFloat THEN "FloatLiteral" ELSE "IntegerLiteral", s, position)
=============================================================================
