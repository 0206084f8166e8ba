------------------------------ MODULE MCParser ------------------------------
(***************************************************************************)
(* Token lists for model-checking Parser.                                  *)
(***************************************************************************)
EXTENDS Grammar

Close(list) == list \o <<"Eof">>
UpTo(n, alphabet) == UNION {[1 .. m -> alphabet] : m \in 0 .. n}
Closed(lists) == {Close(list) : list \in lists}

\* Expressions, as the initial values of variables: short ones over the kinds of
\* tokens that play different parts, chains of operators, calls, and short ones
\* over the remaining kinds.
Exprs ==
  UpTo(4, {"Identifier", "LParen", "RParen", "Comma", "Minus", "Asterisk",
           "IntegerLiteral", "KwOr"})
  \cup UpTo(7, {"Identifier", "Minus", "Asterisk"})
  \cup UpTo(6, {"Identifier", "LParen", "RParen", "Comma"})
  \cup UpTo(3, {"Identifier", "KwTrue", "FloatLiteral", "ExclamationMark",
                "Slash", "Plus", "KwAnd", "Semicolon", "EqualEqual"})

Initialisations ==
  {<<"KwVar", "Identifier", "Colon", "Identifier", "Equal">> \o list \o <<"Semicolon">> :
     list \in Exprs}

\* Programs: a list, and everything one edit away from it.
Edits(list, kinds) ==
  LET cut(k) == SubSeq(list, 1, k - 1)
      rest(k) == SubSeq(list, k, Len(list))
  IN  {cut(k) : k \in 1 .. Len(list) + 1}
        \cup {cut(k) \o rest(k + 1) : k \in 1 .. Len(list)}
        \cup {cut(k) \o <<kind>> \o rest(k) :
                k \in 1 .. Len(list) + 1, kind \in kinds}
        \cup {cut(k) \o <<kind>> \o rest(k + 1) :
                k \in 1 .. Len(list), kind \in kinds}

\* var a : t = f ( a , 1 ) ;
Declaration ==
  <<"KwVar", "Identifier", "Colon", "Identifier", "Equal", "Identifier",
    "LParen", "Identifier", "Comma", "IntegerLiteral", "RParen", "Semicolon">>

\* fn f ( a : t , b : t ) t { return a ; return ; }
Function ==
  <<"KwFn", "Identifier", "LParen", "Identifier", "Colon", "Identifier",
    "Comma", "Identifier", "Colon", "Identifier", "RParen", "Identifier",
    "LBrace", "KwReturn", "Identifier", "Semicolon", "KwReturn", "Semicolon",
    "RBrace">>

\* fn f ( ) t { if ( a or ! b ) { a = 1 ; } else if ( a ) { } var a : t ; }
Branches ==
  <<"KwFn", "Identifier", "LParen", "RParen", "Identifier", "LBrace", "KwIf",
    "LParen", "Identifier", "KwOr", "ExclamationMark", "Identifier", "RParen",
    "LBrace", "Identifier", "Equal", "IntegerLiteral", "Semicolon", "RBrace",
    "KwElse", "KwIf", "LParen", "Identifier", "RParen", "LBrace", "RBrace",
    "KwVar", "Identifier", "Colon", "Identifier", "Semicolon", "RBrace">>

Kinds == {"Identifier", "IntegerLiteral", "Comma", "Colon", "Equal", "LParen",
          "RParen", "LBrace", "RBrace", "Semicolon", "KwVar", "KwFn", "KwIf",
          "KwElse", "KwReturn", "Minus"}

Punctuation == {"Comma", "RParen", "Semicolon"}

Programs == Closed(
  Initialisations
  \cup UNION {Edits(list, Kinds) : list \in {Declaration, Function, Branches}}
  \cup UNION {Edits(list, Punctuation) :
                list \in Edits(Declaration, Punctuation)})

BrokenPrograms == Closed(Edits(Declaration, {"Comma", "Semicolon"})
                           \cup Edits(Function, {"Comma", "RBrace"}))
CommaPrograms == Closed(Edits(Declaration, {"Comma"}) \cup Edits(Function, {"Comma"}))
CompareTexts == Closed(UpTo(3, {"Identifier", "EqualEqual"}))
=============================================================================
