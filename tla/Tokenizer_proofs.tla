-------------------------- MODULE Tokenizer_proofs --------------------------
(***************************************************************************)
(* Proofs about the tokenizer, for every set of source texts: its types    *)
(* and its progress; that it implements Lexemes, so that its automaton     *)
(* cuts every source text into the longest blanks, comments, words,        *)
(* numbers and symbols; and that its tokens spell the text.                *)
(***************************************************************************)
EXTENDS Tokenizer, SequenceTheorems, WellFoundedInduction, TLAPS

-----------------------------------------------------------------------------
(* The tables. *)

\* A map yields one of the values it was given.
LEMMA MapOfRange ==
  ASSUME NEW rows, NEW key \in DOMAIN MapOf(rows)
  PROVE  MapOf(rows)[key] \in {row[2] : row \in rows}
BY DEF MapOf

\* No keyword, symbol or special character has the id of the closing token.
LEMMA KeywordIds ==
  \A s \in DOMAIN keywordTokenIds : keywordTokenIds[s] \in TokenId \ {"Eof"}
BY MapOfRange DEF keywordTokenIds, TokenId

LEMMA TwoCharsIds ==
  \A s \in DOMAIN twoCharsTokenIds : twoCharsTokenIds[s] \in TokenId \ {"Eof"}
BY MapOfRange DEF twoCharsTokenIds, TokenId

LEMMA SingleCharIds ==
  \A s \in Special : singleCharTokenIds[s] \in TokenId \ {"Eof"}
BY DEF singleCharTokenIds, Special, TokenId

\* Every symbol of two characters ends in an equals sign.
LEMMA TwoCharsEnd ==
  \A s \in DOMAIN twoCharsTokenIds : s[2] = "="
BY DEF twoCharsTokenIds, MapOf

\* The blank appended to the source is only ever a blank.
LEMMA BlankClass ==
  /\ " " \in Skip
  /\ " " \in KnownChars
  /\ " " \notin Special
  /\ " " \notin AlphaDigit
  /\ " " \notin Dot
BY DEF Skip, Dot, KnownChars, Alpha, Digit, AlphaDigit, Special

\* The tokens of words and numbers are well formed and never Eof.
LEMMA LexemeTokens ==
  ASSUME NEW s \in Seq(KnownChars), NEW p \in Nat
  PROVE  /\ getKeywordOrIdentifierTokenFromString(s, p) \in TokenRecord
         /\ getKeywordOrIdentifierTokenFromString(s, p).id # "Eof"
         /\ numberToken(s, p) \in TokenRecord
         /\ numberToken(s, p).id # "Eof"
<1>1. getKeywordOrIdentifierTokenFromString(s, p).id \in TokenId \ {"Eof"}
  BY KeywordIds
  DEF getKeywordOrIdentifierTokenFromString, Token, TokenId
<1>2. numberToken(s, p).id \in TokenId \ {"Eof"}
  BY DEF numberToken, Token, TokenId
<1>3. getKeywordOrIdentifierTokenFromString(s, p).value \in Seq(KnownChars)
  BY EmptySeq DEF getKeywordOrIdentifierTokenFromString, Token
<1> QED
  BY <1>1, <1>2, <1>3
  DEF getKeywordOrIdentifierTokenFromString, numberToken, Token, TokenRecord

-----------------------------------------------------------------------------
(* Slices of a text. *)

\* The slice of one character.
LEMMA SliceOne ==
  ASSUME NEW S, NEW text \in Seq(S), NEW k \in 0 .. Len(text) - 1
  PROVE  Slice(text, k, k + 1) = <<text[k + 1]>>
<1>1. /\ Slice(text, k, k + 1) \in Seq(S)
      /\ Len(Slice(text, k, k + 1)) = 1
      /\ Slice(text, k, k + 1)[1] = text[k + 1]
  <2> DEFINE m == k + 1
  <2>1. m \in Int /\ \A j \in m .. m : text[j] \in S
    OBVIOUS
  <2> HIDE DEF m
  <2>2. /\ SubSeq(text, m, m) \in Seq(S)
        /\ Len(SubSeq(text, m, m)) = 1
        /\ SubSeq(text, m, m)[1] = text[m]
    BY <2>1, SubSeqProperties
  <2> QED
    BY <2>2 DEF Slice, m
<1>2. <<text[k + 1]>> \in Seq(S)
  OBVIOUS
<1> QED
  BY <1>1, <1>2, SeqEqual

\* A slice grows by the character that follows it.
LEMMA SliceExtend ==
  ASSUME NEW S, NEW text \in Seq(S), NEW p \in Nat, NEW q \in p .. Len(text) - 1
  PROVE  Slice(text, p, q + 1) = Append(Slice(text, p, q), text[q + 1])
BY SubSeqProperties, AppendProperties DEF Slice

-----------------------------------------------------------------------------
(* Type correctness. *)

LEMMA SourceType ==
  ASSUME in \in Sources
  PROVE  in \in Seq(STRING) /\ Size \in Nat
BY SourcesAssumption DEF Size

\* Reading the character of an iteration.
LEMMA CharType ==
  ASSUME TypeOK, i <= Size
  PROVE  /\ Size \in Nat
         /\ i \in 0 .. Size
         /\ c \in Special \cup AlphaDigit \cup Dot => i < Size
         /\ i < Size => c = At(i)
<1>1. Size \in Nat /\ i \in 0 .. Size
  BY SourceType DEF TypeOK
<1>2. ASSUME i = Size PROVE c \notin Special \cup AlphaDigit \cup Dot
  <2>1. c = " "
    BY <1>2 DEF c
  <2> QED
    BY <2>1, BlankClass
<1>3. i # Size => c = At(i)
  BY Zenon DEF c
<1> QED
  BY <1>1, <1>2, <1>3

\* The position of the text in progress is a natural number.
LEMMA PositionType ==
  ASSUME TypeOK, InProgressFits, state \in {"Identifier", "Number"}
  PROVE  tokenPosition \in Nat
BY DEF TypeOK, InProgressFits, tokenPosition

\* The invariant that is preserved by every step: the position of the token
\* that ends is a natural number only because the text in progress fits.
IInv == TypeOK /\ InProgressFits /\ RejectsFirstUnknown

LEMMA InitIInv == Init => IInv
<1> SUFFICES ASSUME Init PROVE IInv
  OBVIOUS
<1> USE SourceType DEF Init
<1>1. TypeOK
  BY EmptySeq DEF TypeOK
<1>2. InProgressFits
  BY DEF InProgressFits
<1>3. RejectsFirstUnknown
  BY DEF RejectsFirstUnknown
<1> QED
  BY <1>1, <1>2, <1>3 DEF IInv

\* A step that only moves on: i goes on by one or two over known characters
\* and the automaton is in a state without text in progress.
LEMMA MoveOn ==
  ASSUME IInv, NEW n \in {1, 2}, i' = i + n, i + n <= Size + 1,
         status = "running",
         \A k \in i .. i + n - 1 : k < Size => At(k) \in KnownChars,
         state' \in {"Begin", "Comment"}, identifierStr' \in Seq(KnownChars),
         UNCHANGED <<in, status>>, tokens' \in Seq(TokenRecord)
  PROVE  IInv'
<1>1. Size \in Nat /\ Size' = Size /\ \A k : At(k)' = At(k)
  BY SourceType DEF IInv, TypeOK, Size, At, CharAt
<1>2. TypeOK'
  BY <1>1 DEF IInv, TypeOK
<1>3. InProgressFits'
  BY DEF InProgressFits
<1>4. RejectsFirstUnknown'
  <2>1. ASSUME NEW k \in 0 .. i' - 1, k < Size PROVE At(k) \in KnownChars
    <3>1. k \in 0 .. i - 1 \/ k \in i .. i + n - 1
      BY <1>1 DEF IInv, TypeOK
    <3> QED
      BY <2>1, <3>1 DEF IInv, RejectsFirstUnknown
  <2> QED
    BY <1>1, <2>1 DEF RejectsFirstUnknown
<1> QED
  BY <1>2, <1>3, <1>4 DEF IInv

\* The character of an iteration that passed the check is known to the end.
LEMMA IterateKnown ==
  ASSUME IInv, NEW s, Iterate(s)
  PROVE  /\ c \in KnownChars
         /\ i < Size => At(i) \in KnownChars
         /\ i \in 0 .. Size
         /\ Size \in Nat
         /\ status = "running"
         /\ state = s
         /\ UNCHANGED <<in, status>>
BY CharType DEF IInv, Iterate, isKnownChar

\* A step that reads a character into the text in progress.
LEMMA ReadOn ==
  ASSUME IInv, NEW s \in {"Identifier", "Number"}, c \in KnownChars, i < Size,
         i' = i + 1, state' = s, UNCHANGED <<in, tokens, status>>,
         status = "running",
         \/ identifierStr' = <<c>> /\ c \in IF s = "Number" THEN Digit ELSE Alpha
         \/ /\ state = s /\ identifierStr' = Append(identifierStr, c)
            /\ c \in IF s = "Number" THEN Digit \cup Dot ELSE AlphaDigit
  PROVE  IInv'
<1> USE DEF IInv
<1>1. Size \in Nat /\ Size' = Size /\ i \in 0 .. Size - 1 /\ in \in Seq(STRING)
  BY SourceType DEF TypeOK, Size
<1>2. c = in[i + 1] /\ c = At(i) /\ \A k : At(k)' = At(k)
  BY <1>1, CharType DEF At, CharAt
<1>3. TypeOK'
  <2>1. identifierStr \in Seq(KnownChars)
    BY DEF TypeOK
  <2>2. <<c>> \in Seq(KnownChars)
    OBVIOUS
  <2>3. Append(identifierStr, c) \in Seq(KnownChars)
    BY <2>1, AppendProperties
  <2>4. identifierStr' \in Seq(KnownChars)
    BY <2>2, <2>3
  <2>5. i' \in 0 .. Size' + 1 /\ in' \in Sources /\ tokens' \in Seq(TokenRecord)
    BY <1>1 DEF TypeOK
  <2> QED
    BY <2>4, <2>5 DEF TypeOK
<1>4. RejectsFirstUnknown'
  <2>1. ASSUME NEW k \in 0 .. i' - 1, k < Size PROVE At(k) \in KnownChars
    BY <1>1, <1>2 DEF RejectsFirstUnknown
  <2> QED
    BY <1>1, <1>2, <2>1 DEF RejectsFirstUnknown
<1>5. InProgressFits'
  <2>1. CASE identifierStr' = <<c>> /\ c \in IF s = "Number" THEN Digit ELSE Alpha
    <3>1. Len(identifierStr') = 1 /\ identifierStr'[1] = c
      BY <2>1
    <3>2. tokenPosition' = i
      BY <1>1, <3>1 DEF tokenPosition
    <3>3. Slice(in, i, i + 1) = <<c>>
      BY <1>1, <1>2, SliceOne DEF Size
    <3>4. /\ s = "Identifier" => identifierStr' \in Seq(AlphaDigit)
          /\ s = "Number" => identifierStr' \in Seq(Digit \cup Dot)
      BY <2>1 DEF AlphaDigit
    <3> QED
      BY <1>1, <2>1, <3>1, <3>2, <3>3, <3>4 DEF InProgressFits
  <2>2. CASE /\ state = s /\ identifierStr' = Append(identifierStr, c)
             /\ c \in IF s = "Number" THEN Digit \cup Dot ELSE AlphaDigit
    <3> DEFINE p == tokenPosition
    <3>1. /\ identifierStr \in Seq(KnownChars)
          /\ Len(identifierStr) \in 1 .. i
          /\ identifierStr = Slice(in, p, i)
          /\ p \in Nat
          /\ p = i - Len(identifierStr)
      BY <1>1, <2>2, PositionType DEF InProgressFits, TypeOK, tokenPosition
    <3>2. /\ Len(identifierStr') = Len(identifierStr) + 1
          /\ identifierStr'[1] = identifierStr[1]
      BY <2>2, <3>1, AppendProperties
    <3>3. tokenPosition' = p
      BY <1>1, <3>1, <3>2 DEF tokenPosition
    <3>4. Slice(in, p, i + 1) = Append(Slice(in, p, i), c)
      <4>1. p \in Nat /\ i \in p .. Len(in) - 1
        BY <1>1, <3>1 DEF Size
      <4> QED
        BY <1>1, <1>2, <4>1, SliceExtend
    <3>5. /\ s = "Identifier" => identifierStr' \in Seq(AlphaDigit)
          /\ s = "Number" => identifierStr' \in Seq(Digit \cup Dot)
      BY <2>2, AppendProperties DEF InProgressFits
    <3> QED
      BY <1>1, <2>2, <3>1, <3>2, <3>3, <3>4, <3>5 DEF InProgressFits
  <2> QED
    BY <2>1, <2>2
<1> QED
  BY <1>3, <1>4, <1>5

\* A step that ends the text in progress.
LEMMA EndLexeme ==
  ASSUME IInv, NEW token \in TokenRecord, Push(token), state' = "Begin",
         UNCHANGED <<in, i, identifierStr, status>>
  PROVE  IInv'
<1>1. Size' = Size /\ \A k : At(k)' = At(k)
  BY DEF Size, At, CharAt
<1>2. TypeOK'
  BY <1>1, AppendProperties DEF IInv, TypeOK, Push
<1>3. InProgressFits'
  BY DEF InProgressFits
<1>4. RejectsFirstUnknown'
  BY <1>1 DEF IInv, RejectsFirstUnknown
<1> QED
  BY <1>2, <1>3, <1>4 DEF IInv

-----------------------------------------------------------------------------
(* The invariant. *)

\* Every step of the tokenizer preserves the invariant.
LEMMA NextIInv == IInv /\ [Next]_vars => IInv'
<1> SUFFICES ASSUME IInv, [Next]_vars PROVE IInv'
  OBVIOUS
<1>1. tokens \in Seq(TokenRecord) /\ identifierStr \in Seq(KnownChars)
  BY DEF IInv, TypeOK
<1>2. i \in Int /\ Size \in Nat
  BY SourceType DEF IInv, TypeOK
<1>3. CASE UnknownChar
  <2>1. i < Size /\ c = At(i) /\ status = "running"
    <3>1. i <= Size /\ c \notin KnownChars /\ status = "running"
      BY <1>3 DEF UnknownChar, isKnownChar
    <3>2. ASSUME i = Size PROVE c \in KnownChars
      <4>1. c = " "
        BY <3>2 DEF c
      <4> QED
        BY <4>1, BlankClass
    <3> QED
      BY <1>2, <3>1, <3>2, CharType DEF IInv
  <2> QED
    BY <1>3, <2>1
    DEF UnknownChar, isKnownChar, IInv, TypeOK, InProgressFits, tokenPosition,
        RejectsFirstUnknown, Size, At, CharAt
<1>4. CASE BeginSkip
  <2>1. i \in 0 .. Size /\ (i < Size => At(i) \in KnownChars)
          /\ status = "running" /\ state = "Begin" /\ UNCHANGED <<in, status>>
    BY <1>4, IterateKnown DEF BeginSkip
  <2> QED
    BY <1>1, <1>2, <1>4, <2>1, MoveOn, EmptySeq DEF BeginSkip
<1>5. CASE BeginComment
  <2>1. (i < Size => At(i) \in KnownChars) /\ i \in 0 .. Size
          /\ status = "running" /\ UNCHANGED <<in, status>>
    BY <1>5, IterateKnown DEF BeginComment
  <2>2. i + 1 < Size /\ At(i + 1) \in KnownChars
    BY <1>5 DEF BeginComment, OpensComment, KnownChars, Special
  <2> QED
    BY <1>1, <1>2, <1>5, <2>1, <2>2, MoveOn, EmptySeq DEF BeginComment
<1>6. CASE BeginTwoChars
  <2>1. (i < Size => At(i) \in KnownChars) /\ i \in 0 .. Size /\ state = "Begin"
          /\ status = "running" /\ UNCHANGED <<in, status>>
    BY <1>6, IterateKnown DEF BeginTwoChars
  <2>2. i + 1 < Size /\ At(i + 1) \in KnownChars
    <3>1. <<c, At(i + 1)>>[2] = "="
      BY <1>6, TwoCharsEnd, Zenon DEF BeginTwoChars, OpensTwoChars
    <3> QED
      BY <1>6, <3>1 DEF BeginTwoChars, OpensTwoChars, KnownChars, Special
  <2>3. Token(twoCharsTokenIds[<<c, At(i + 1)>>], <<>>, i) \in TokenRecord
    BY <1>6, <2>1, TwoCharsIds, EmptySeq
    DEF BeginTwoChars, OpensTwoChars, Token, TokenRecord
  <2>4. tokens' \in Seq(TokenRecord)
    BY <1>1, <1>6, <2>3, AppendProperties DEF BeginTwoChars, Push
  <2> QED
    BY <1>2, <1>6, <2>1, <2>2, <2>4, MoveOn, EmptySeq DEF BeginTwoChars
<1>7. CASE BeginSingleChar
  <2>1. (i < Size => At(i) \in KnownChars) /\ i \in 0 .. Size /\ state = "Begin"
          /\ status = "running" /\ UNCHANGED <<in, status>>
    BY <1>7, IterateKnown DEF BeginSingleChar
  <2>2. Token(singleCharTokenIds[c], <<>>, i) \in TokenRecord
    BY <1>7, <2>1, SingleCharIds, EmptySeq
    DEF BeginSingleChar, Token, TokenRecord
  <2>3. tokens' \in Seq(TokenRecord)
    BY <1>1, <1>7, <2>2, AppendProperties DEF BeginSingleChar, Push
  <2> QED
    BY <1>2, <1>7, <2>1, <2>3, MoveOn, EmptySeq DEF BeginSingleChar
<1>8. CASE BeginAlpha
  <2>1. c \in KnownChars /\ status = "running" /\ UNCHANGED <<in, status>>
    BY <1>8, IterateKnown DEF BeginAlpha, BeginLexeme
  <2>2. i <= Size
    BY <1>8, IterateKnown DEF BeginAlpha, BeginLexeme
  <2>3. i < Size
    BY <1>8, <2>2, CharType DEF IInv, BeginAlpha, BeginLexeme, AlphaDigit
  <2> QED
    BY <1>8, <2>1, <2>3, ReadOn DEF BeginAlpha, BeginLexeme
<1>9. CASE BeginDigit
  <2>1. c \in KnownChars /\ status = "running" /\ UNCHANGED <<in, status>>
    BY <1>9, IterateKnown DEF BeginDigit, BeginLexeme
  <2>2. i <= Size
    BY <1>9, IterateKnown DEF BeginDigit, BeginLexeme
  <2>3. i < Size
    BY <1>9, <2>2, CharType DEF IInv, BeginDigit, BeginLexeme, AlphaDigit
  <2> QED
    BY <1>9, <2>1, <2>3, ReadOn DEF BeginDigit, BeginLexeme
<1>10. CASE BeginOther
  <2>1. i \in 0 .. Size /\ (i < Size => At(i) \in KnownChars)
          /\ status = "running" /\ state = "Begin" /\ UNCHANGED <<in, status>>
    BY <1>10, IterateKnown DEF BeginOther
  <2> QED
    BY <1>1, <1>2, <1>10, <2>1, MoveOn, EmptySeq DEF BeginOther
<1>11. CASE ExtendIdentifier
  <2>1. c \in KnownChars /\ status = "running" /\ UNCHANGED <<in, status>>
          /\ i <= Size /\ state = "Identifier"
    BY <1>11, IterateKnown DEF ExtendIdentifier, Extend
  <2>2. i < Size
    BY <1>11, <2>1, CharType DEF IInv, ExtendIdentifier, Extend
  <2> QED
    BY <1>11, <2>1, <2>2, ReadOn DEF ExtendIdentifier, Extend
<1>12. CASE ExtendNumber
  <2>1. c \in KnownChars /\ status = "running" /\ UNCHANGED <<in, status>>
          /\ i <= Size /\ state = "Number"
    BY <1>12, IterateKnown DEF ExtendNumber, Extend
  <2>2. i < Size
    BY <1>12, <2>1, CharType DEF IInv, ExtendNumber, Extend, AlphaDigit
  <2> QED
    BY <1>12, <2>1, <2>2, ReadOn DEF ExtendNumber, Extend
<1>13. CASE EndIdentifier
  <2>1. state = "Identifier" /\ UNCHANGED <<in, status>>
    BY <1>13 DEF EndIdentifier, Iterate
  <2>2. tokenPosition \in Nat
    BY <2>1, PositionType DEF IInv
  <2> QED
    BY <1>1, <1>13, <2>1, <2>2, LexemeTokens, EndLexeme DEF EndIdentifier
<1>14. CASE EndNumber
  <2>1. state = "Number" /\ UNCHANGED <<in, status>>
    BY <1>14 DEF EndNumber, Iterate
  <2>2. tokenPosition \in Nat
    BY <2>1, PositionType DEF IInv
  <2> QED
    BY <1>1, <1>14, <2>1, <2>2, LexemeTokens, EndLexeme DEF EndNumber
<1>15. CASE CommentStep
  <2>1. i \in 0 .. Size /\ (i < Size => At(i) \in KnownChars)
          /\ status = "running" /\ UNCHANGED <<in, status>>
    BY <1>15, IterateKnown DEF CommentStep
  <2> QED
    BY <1>1, <1>2, <1>15, <2>1, MoveOn DEF CommentStep
<1>16. CASE Finish
  <2>1. Token("Eof", <<>>, Size) \in TokenRecord
    BY <1>2, EmptySeq DEF Token, TokenRecord, TokenId
  <2>2. tokens' \in Seq(TokenRecord)
    BY <1>1, <1>16, <2>1, AppendProperties DEF Finish, Push
  <2> QED
    BY <1>16, <2>2
    DEF Finish, IInv, TypeOK, InProgressFits, tokenPosition,
        RejectsFirstUnknown, Size, At, CharAt
<1>17. CASE UNCHANGED vars
  BY <1>17
  DEF vars, IInv, TypeOK, InProgressFits, tokenPosition, RejectsFirstUnknown,
      Size, At, CharAt
<1> QED
  BY <1>3, <1>4, <1>5, <1>6, <1>7, <1>8, <1>9, <1>10, <1>11, <1>12, <1>13,
     <1>14, <1>15, <1>16, <1>17
  DEF Next

\* The invariant holds in every state of the tokenizer.
THEOREM Invariance == Spec => []IInv
<1> QED
  BY InitIInv, NextIInv, PTL DEF Spec

\* The variables always have the values their declarations promise.
THEOREM TypeCorrect == Spec => []TypeOK
<1>1. IInv => TypeOK
  BY DEF IInv
<1> QED
  BY <1>1, Invariance, PTL

\* The text in progress is always the text before the character read.
THEOREM TextInProgress == Spec => []InProgressFits
<1>1. IInv => InProgressFits
  BY DEF IInv
<1> QED
  BY <1>1, Invariance, PTL

\* tokenize() exits at the first unknown character and returns otherwise.
THEOREM Rejection == Spec => []RejectsFirstUnknown
<1>1. IInv => RejectsFirstUnknown
  BY DEF IInv
<1> QED
  BY <1>1, Invariance, PTL

-----------------------------------------------------------------------------
(* Progress. *)

\* A step brings the tokenizer nearer to the end, or changes nothing.
LEMMA StepNearer == IInv /\ [Next]_vars => distance' < distance \/ UNCHANGED vars
<1> SUFFICES ASSUME IInv, Next PROVE distance' < distance
  BY DEF vars
<1> DEFINE InState(s) == IF s = "Begin" THEN 0 ELSE 1
<1>1. i \in Int /\ Size \in Int /\ InState(state) \in 0 .. 1
        /\ InState(state') \in 0 .. 1
  BY SourceType DEF IInv, TypeOK
<1>2. distance = 2 * (Size + 1 - i) + InState(state)
                   + (IF status = "running" THEN 1 ELSE 0)
  BY DEF distance
<1>3. distance' = 2 * (Size' + 1 - i') + InState(state')
                    + (IF status' = "running" THEN 1 ELSE 0)
  BY DEF distance
<1>4. status = "running" /\ Size' = Size
  BY DEF Next, UnknownChar, BeginSkip, BeginComment, BeginTwoChars,
         BeginSingleChar, BeginAlpha, BeginDigit, BeginLexeme, BeginOther,
         ExtendIdentifier, ExtendNumber, Extend, EndIdentifier, EndNumber,
         CommentStep, Finish, Iterate, Size
<1> HIDE DEF InState
<1>5. CASE UnknownChar \/ Finish
  <2>1. i' = i /\ state' = state /\ status' # "running"
    BY <1>5 DEF UnknownChar, Finish
  <2> QED
    BY <1>1, <1>2, <1>3, <1>4, <2>1
<1>6. CASE EndIdentifier \/ EndNumber
  <2>1. i' = i /\ status' = status /\ state # "Begin" /\ state' = "Begin"
    BY <1>6 DEF EndIdentifier, EndNumber, Iterate
  <2>2. InState(state) = 1 /\ InState(state') = 0
    BY <2>1 DEF InState
  <2> QED
    BY <1>1, <1>2, <1>3, <1>4, <2>1, <2>2
<1>7. CASE ~(UnknownChar \/ Finish \/ EndIdentifier \/ EndNumber)
  <2>1. (i' = i + 1 \/ i' = i + 2) /\ status' = status
    BY <1>7
    DEF Next, BeginSkip, BeginComment, BeginTwoChars, BeginSingleChar,
        BeginAlpha, BeginDigit, BeginLexeme, BeginOther, ExtendIdentifier,
        ExtendNumber, Extend, CommentStep, Iterate
  <2> QED
    BY <1>1, <1>2, <1>3, <1>4, <2>1
<1> QED
  BY <1>5, <1>6, <1>7

\* No iteration undoes the progress of an earlier one: since the distance to
\* the end is a natural number, tokenize() cannot loop.
THEOREM Nearer == Spec => AlwaysNearer
<1>1. IInv /\ [Next]_vars => [distance' < distance]_vars
  BY StepNearer
<1> QED
  BY <1>1, Invariance, PTL DEF Spec, AlwaysNearer

\* The distance of AlwaysNearer cannot fall below zero.
THEOREM DistanceBounded == Spec => [](distance \in Nat)
<1>1. TypeOK => distance \in Nat
  <2> SUFFICES ASSUME TypeOK PROVE distance \in Nat
    OBVIOUS
  <2>1. Size \in Nat /\ i \in 0 .. Size + 1
    BY SourceType DEF TypeOK
  <2>2. (IF state = "Begin" THEN 0 ELSE 1) \in 0 .. 1
          /\ (IF status = "running" THEN 1 ELSE 0) \in 0 .. 1
    OBVIOUS
  <2> QED
    BY <2>1, <2>2 DEF distance
<1> QED
  BY <1>1, TypeCorrect, PTL

-----------------------------------------------------------------------------
(* The closing token. *)

\* Appending a token that is not Eof keeps the tokens free of Eof.
LEMMA AppendLexeme ==
  ASSUME TypeOK, EofClosesTokens, status = "running", status' = "running",
         NEW token \in TokenRecord, token.id # "Eof", Push(token)
  PROVE  EofClosesTokens'
<1>1. /\ Len(tokens') = Len(tokens) + 1
      /\ \A k \in 1 .. Len(tokens) : tokens'[k] = tokens[k]
      /\ tokens'[Len(tokens) + 1] = token
  BY AppendProperties DEF TypeOK, Push
<1>2. Len(tokens) \in Nat
  BY DEF TypeOK
<1>3. ASSUME NEW k \in 1 .. Len(tokens') PROVE tokens'[k].id # "Eof"
  <2>1. k \in 1 .. Len(tokens) \/ k = Len(tokens) + 1
    BY <1>1, <1>2
  <2> QED
    BY <1>1, <2>1 DEF EofClosesTokens
<1> QED
  BY <1>3 DEF EofClosesTokens

LEMMA NextEof ==
  IInv /\ EofClosesTokens /\ [Next]_vars => EofClosesTokens'
<1> SUFFICES ASSUME IInv, EofClosesTokens, [Next]_vars PROVE EofClosesTokens'
  OBVIOUS
<1>1. TypeOK /\ i \in Nat /\ identifierStr \in Seq(KnownChars)
  BY SourceType DEF IInv, TypeOK
<1>2. CASE UNCHANGED tokens /\ (status' = status \/ status' = "fatal")
  <2>1. status' = "done" => status = "done"
    BY <1>2
  <2>2. CASE status' = status
    BY <1>2, <2>2 DEF EofClosesTokens
  <2>3. CASE status' = "fatal" /\ status = "running"
    BY <1>2, <2>3 DEF EofClosesTokens
  <2> QED
    BY <1>2, <2>2, <2>3
    DEF Next, vars, UnknownChar, BeginSkip, BeginComment, BeginTwoChars,
        BeginSingleChar, BeginAlpha, BeginDigit, BeginLexeme, BeginOther,
        ExtendIdentifier, ExtendNumber, Extend, EndIdentifier, EndNumber,
        CommentStep, Finish, Iterate
<1>3. CASE BeginTwoChars
  <2>1. Token(twoCharsTokenIds[<<c, At(i + 1)>>], <<>>, i) \in TokenRecord
          /\ Token(twoCharsTokenIds[<<c, At(i + 1)>>], <<>>, i).id # "Eof"
    BY <1>1, <1>3, TwoCharsIds, EmptySeq
    DEF BeginTwoChars, OpensTwoChars, Token, TokenRecord
  <2> QED
    BY <1>1, <1>3, <2>1, AppendLexeme DEF BeginTwoChars, Iterate
<1>4. CASE BeginSingleChar
  <2>1. Token(singleCharTokenIds[c], <<>>, i) \in TokenRecord
          /\ Token(singleCharTokenIds[c], <<>>, i).id # "Eof"
    BY <1>1, <1>4, SingleCharIds, EmptySeq
    DEF BeginSingleChar, Token, TokenRecord
  <2> QED
    BY <1>1, <1>4, <2>1, AppendLexeme DEF BeginSingleChar, Iterate
<1>5. CASE EndIdentifier
  <2>1. tokenPosition \in Nat
    BY <1>5, PositionType DEF IInv, EndIdentifier, Iterate
  <2> QED
    BY <1>1, <1>5, <2>1, LexemeTokens, AppendLexeme DEF EndIdentifier, Iterate
<1>6. CASE EndNumber
  <2>1. tokenPosition \in Nat
    BY <1>6, PositionType DEF IInv, EndNumber, Iterate
  <2> QED
    BY <1>1, <1>6, <2>1, LexemeTokens, AppendLexeme DEF EndNumber, Iterate
<1>7. CASE Finish
  <2>1. Size \in Nat
    BY <1>1, SourceType DEF TypeOK
  <2>2. Token("Eof", <<>>, Size) \in TokenRecord
          /\ Token("Eof", <<>>, Size).id = "Eof"
    BY <2>1, EmptySeq DEF Token, TokenRecord, TokenId
  <2>3. /\ Len(tokens') = Len(tokens) + 1 /\ Len(tokens) \in Nat
        /\ \A k \in 1 .. Len(tokens) : tokens'[k] = tokens[k]
        /\ tokens'[Len(tokens) + 1].id = "Eof"
    BY <1>1, <1>7, <2>2, AppendProperties DEF TypeOK, Finish, Push
  <2>4. \A k \in 1 .. Len(tokens) : tokens[k].id # "Eof"
    BY <1>7 DEF Finish, EofClosesTokens
  <2>5. ASSUME NEW k \in 1 .. Len(tokens')
        PROVE  tokens'[k].id = "Eof" <=> k = Len(tokens')
    <3>1. k \in 1 .. Len(tokens) \/ k = Len(tokens) + 1
      BY <2>3
    <3> QED
      BY <2>3, <2>4, <3>1
  <2> QED
    BY <1>7, <2>5 DEF Finish, EofClosesTokens
<1> QED
  BY <1>2, <1>3, <1>4, <1>5, <1>6, <1>7
  DEF Next, vars, UnknownChar, BeginSkip, BeginComment, BeginAlpha, BeginDigit,
      BeginLexeme, BeginOther, ExtendIdentifier, ExtendNumber, Extend,
      CommentStep, Iterate

\* The tokens are closed by their only Eof exactly when tokenize() returns.
THEOREM EofCloses == Spec => []EofClosesTokens
<1>1. Init => EofClosesTokens
  BY DEF Init, EofClosesTokens
<1> QED
  BY <1>1, NextEof, Invariance, PTL DEF Spec

-----------------------------------------------------------------------------
(* The instance Lex has its own copies of the vocabulary. *)

LEMMA SameClasses ==
  /\ Lex!Alpha = Alpha
  /\ Lex!Digit = Digit
  /\ Lex!AlphaDigit = AlphaDigit
  /\ Lex!Dot = Dot
  /\ Lex!Special = Special
  /\ Lex!Newline = Newline
  /\ Lex!Skip = Skip
  /\ Lex!KnownChars = KnownChars
<1>1. Lex!Alpha = Alpha /\ Lex!Digit = Digit
  BY Zenon DEF Lex!Alpha, Alpha, Lex!Digit, Digit
<1>2. Lex!Dot = Dot /\ Lex!Special = Special /\ Lex!Newline = Newline
  BY Zenon DEF Lex!Dot, Dot, Lex!Special, Special, Lex!Newline, Newline
<1>3. Lex!AlphaDigit = AlphaDigit
  BY <1>1, Zenon DEF Lex!AlphaDigit, AlphaDigit
<1>4. Lex!Skip = Skip
  BY <1>2, Zenon DEF Lex!Skip, Skip
<1>5. Lex!KnownChars = KnownChars
  BY <1>1, <1>2, <1>4, Zenon DEF Lex!KnownChars, KnownChars
<1> QED
  BY <1>1, <1>2, <1>3, <1>4, <1>5

LEMMA SameText ==
  /\ \A t, k : Lex!CharAt(t, k) = CharAt(t, k)
  /\ \A t, p, q : Lex!Slice(t, p, q) = Slice(t, p, q)
  /\ \A t, p, s : Lex!FindFrom(t, p, s) = FindFrom(t, p, s)
<1>1. \A t, k : Lex!CharAt(t, k) = CharAt(t, k)
  BY Zenon DEF Lex!CharAt, CharAt
<1>2. \A t, p, q : Lex!Slice(t, p, q) = Slice(t, p, q)
  BY Zenon DEF Lex!Slice, Slice
<1>3. \A t, p, s : Lex!FindFrom(t, p, s) = FindFrom(t, p, s)
  BY Zenon DEF Lex!FindFrom, FindFrom, Lex!CharAt, CharAt, Lex!Min, Min
<1> QED
  BY <1>1, <1>2, <1>3

LEMMA SameTokens ==
  /\ Lex!twoCharsTokenIds = twoCharsTokenIds
  /\ Lex!singleCharTokenIds = singleCharTokenIds
  /\ \A d, v, p : Lex!Token(d, v, p) = Token(d, v, p)
  /\ \A s, p : Lex!getKeywordOrIdentifierTokenFromString(s, p)
                 = getKeywordOrIdentifierTokenFromString(s, p)
  /\ \A s, p : Lex!numberToken(s, p) = numberToken(s, p)
<1>1. \A d, v, p : Lex!Token(d, v, p) = Token(d, v, p)
  BY Zenon DEF Lex!Token, Token
<1>2. Lex!twoCharsTokenIds = twoCharsTokenIds
  BY Zenon DEF Lex!twoCharsTokenIds, twoCharsTokenIds, Lex!MapOf, MapOf
<1>3. Lex!keywordTokenIds = keywordTokenIds
  BY Zenon DEF Lex!keywordTokenIds, keywordTokenIds, Lex!MapOf, MapOf
<1>4. Lex!singleCharTokenIds = singleCharTokenIds
  BY Zenon
  DEF Lex!singleCharTokenIds, singleCharTokenIds, Lex!Special, Special
<1>5. \A s, p : Lex!getKeywordOrIdentifierTokenFromString(s, p)
                  = getKeywordOrIdentifierTokenFromString(s, p)
  BY <1>1, <1>3, Zenon
  DEF Lex!getKeywordOrIdentifierTokenFromString,
      getKeywordOrIdentifierTokenFromString
<1>6. \A s, p : Lex!numberToken(s, p) = numberToken(s, p)
  BY <1>1, Zenon DEF Lex!numberToken, numberToken, Lex!Dot, Dot
<1> QED
  BY <1>1, <1>2, <1>4, <1>5, <1>6

-----------------------------------------------------------------------------
(* Finding a character. *)

\* The search stops where it starts when it finds what it looks for there.
LEMMA FindFromHere ==
  ASSUME NEW text, Len(text) \in Nat, NEW p \in 0 .. Len(text), NEW class,
         p < Len(text) => CharAt(text, p) \in class
  PROVE  FindFrom(text, p, class) = p
<1> DEFINE found == {Len(text)} \cup
              {k \in p .. Len(text) - 1 : CharAt(text, k) \in class}
<1>1. p \in found /\ \A k \in found : k \in Int /\ p <= k
  OBVIOUS
<1> HIDE DEF found
<1>2. Min(found) \in found /\ \A k \in found : Min(found) <= k
  BY <1>1, Zenon DEF Min
<1>3. Min(found) = p
  <2>1. Min(found) <= p /\ p <= Min(found) /\ Min(found) \in Int
    BY <1>1, <1>2
  <2> QED
    BY <2>1
<1> QED
  BY <1>3 DEF FindFrom, found

\* The search goes on when it does not find what it looks for.
LEMMA FindFromNext ==
  ASSUME NEW text, Len(text) \in Nat, NEW p \in 0 .. Len(text) - 1, NEW class,
         CharAt(text, p) \notin class
  PROVE  FindFrom(text, p, class) = FindFrom(text, p + 1, class)
<1>1. {k \in p .. Len(text) - 1 : CharAt(text, k) \in class}
        = {k \in p + 1 .. Len(text) - 1 : CharAt(text, k) \in class}
  OBVIOUS
<1> QED
  BY <1>1, Zenon DEF FindFrom

-----------------------------------------------------------------------------
(* Where the next piece starts. *)

\* With no text in progress and outside comments it starts at i.
LEMMA PosInBegin ==
  ASSUME TypeOK, state = "Begin"
  PROVE  lexemePos = IF i <= Size THEN i ELSE Size
BY DEF lexemePos

LEMMA PosInLexeme ==
  ASSUME state \in {"Identifier", "Number"}
  PROVE  lexemePos = tokenPosition
BY DEF lexemePos

LEMMA PosInComment ==
  ASSUME state = "Comment"
  PROVE  lexemePos = IF i <= Size THEN FindFrom(in, i, Newline) ELSE Size
BY DEF lexemePos

\* The tokenizer starts where Lexemes does.
LEMMA InitLex == Init => Lex!Init
<1> SUFFICES ASSUME Init PROVE Lex!Init
  OBVIOUS
<1>1. Size \in Nat
  BY SourceType DEF Init
<1>2. lexemePos = 0
  BY <1>1 DEF Init, lexemePos
<1> QED
  BY <1>2 DEF Init, Lex!Init

\* A blank, or a dot between tokens.
LEMMA BlankStep ==
  ASSUME IInv, i \in 0 .. Size, Size \in Nat, c \in Skip \cup Dot,
         status = "running", state' = "Begin", i' = i + 1,
         lexemePos = i, UNCHANGED <<in, tokens, status>>
  PROVE  Lex!Blank \/ UNCHANGED Lex!vars
<1>1. Size' = Size
  BY DEF Size
<1>2. lexemePos' = IF i + 1 <= Size THEN i + 1 ELSE Size
  BY <1>1 DEF lexemePos
<1>3. CASE i < Size
  <2>1. CharAt(in, i) \in Skip \cup Dot
    BY <1>3, CharType DEF IInv, At
  <2> QED
    BY <1>2, <1>3, <2>1, SameClasses, SameText DEF Lex!Blank, Lex!Drop, Size
<1>4. CASE i = Size
  BY <1>2, <1>4 DEF Lex!vars
<1> QED
  BY <1>3, <1>4

\* A character read into the text in progress does not show.
LEMMA ReadStep ==
  ASSUME i \in Nat, state' \in {"Identifier", "Number"}, i' = i + 1,
         Len(identifierStr) \in Nat, Len(identifierStr') \in Nat,
         i' - Len(identifierStr') = lexemePos,
         UNCHANGED <<in, tokens, status>>
  PROVE  UNCHANGED Lex!vars
BY DEF lexemePos, tokenPosition, Lex!vars

LEMMA AppendPair ==
  ASSUME NEW a, NEW b
  PROVE  Append(<<a>>, b) = <<a, b>>
<1>1. /\ <<a>> \in Seq({a, b}) /\ <<a, b>> \in Seq({a, b})
      /\ Len(<<a, b>>) = 2 /\ <<a, b>>[1] = a /\ <<a, b>>[2] = b
  OBVIOUS
<1>2. /\ Append(<<a>>, b) \in Seq({a, b})
      /\ Len(Append(<<a>>, b)) = 2
      /\ Append(<<a>>, b)[1] = a
      /\ Append(<<a>>, b)[2] = b
  BY <1>1, AppendProperties
<1>3. \A k \in 1 .. 2 : Append(<<a>>, b)[k] = <<a, b>>[k]
  <2>1. \A k \in 1 .. 2 : k = 1 \/ k = 2
    OBVIOUS
  <2> QED
    BY <1>1, <1>2, <2>1
<1> QED
  BY <1>1, <1>2, <1>3, SeqEqual

\* The slice of two characters.
LEMMA SliceTwo ==
  ASSUME NEW S, NEW text \in Seq(S), NEW k \in 0 .. Len(text) - 2
  PROVE  Slice(text, k, k + 2) = <<text[k + 1], text[k + 2]>>
<1>1. Slice(text, k, k + 1) = <<text[k + 1]>>
  BY SliceOne
<1>2. Slice(text, k, (k + 1) + 1) = Append(Slice(text, k, k + 1), text[(k + 1) + 1])
  BY SliceExtend
<1>3. (k + 1) + 1 = k + 2
  OBVIOUS
<1>4. Append(<<text[k + 1]>>, text[k + 2]) = <<text[k + 1], text[k + 2]>>
  BY AppendPair
<1> QED
  BY <1>1, <1>2, <1>3, <1>4

\* The characters of a slice are those of the text.
LEMMA SliceAt ==
  ASSUME NEW S, NEW text \in Seq(S), NEW q \in 0 .. Len(text),
         NEW p \in 0 .. q, NEW k \in p .. q - 1
  PROVE  k - p + 1 \in 1 .. q - p /\ CharAt(text, k) = Slice(text, p, q)[k - p + 1]
<1> DEFINE m == p + 1
<1>1. m \in Int /\ \A j \in m .. q : text[j] \in S
  OBVIOUS
<1>2. k - p + 1 \in 1 .. q - m + 1 /\ m + (k - p + 1) - 1 = k + 1
  OBVIOUS
<1> HIDE DEF m
<1>3. \A j \in 1 .. q - m + 1 : SubSeq(text, m, q)[j] = text[m + j - 1]
  BY <1>1, SubSeqProperties
<1>4. SubSeq(text, m, q)[k - p + 1] = text[m + (k - p + 1) - 1]
  BY <1>2, <1>3
<1>5. SubSeq(text, m, q)[k - p + 1] = text[k + 1]
  BY <1>2, <1>4
<1>6. k - p + 1 \in 1 .. q - p
  OBVIOUS
<1> QED
  BY <1>5, <1>6, Zenon DEF CharAt, Slice, m

\* A lexeme that ends is the longest run of its class.
LEMMA EndedRun ==
  ASSUME IInv, state \in {"Identifier", "Number"}, NEW class,
         identifierStr \in Seq(class), c \notin class
  PROVE  /\ lexemePos \in 0 .. Size
         /\ i \in lexemePos + 1 .. Size
         /\ CharAt(in, lexemePos) = identifierStr[1]
         /\ \A k \in lexemePos .. i - 1 : CharAt(in, k) \in class
         /\ i = Size \/ CharAt(in, i) \notin class
         /\ identifierStr = Slice(in, lexemePos, i)
         /\ lexemePos = tokenPosition
<1>1. lexemePos = tokenPosition
  BY PosInLexeme
<1>2. /\ in \in Seq(STRING) /\ Size \in Nat /\ i \in Nat
      /\ i <= Size
      /\ Len(identifierStr) \in 1 .. i
      /\ identifierStr = Slice(in, tokenPosition, i)
  BY SourceType DEF IInv, InProgressFits, TypeOK
<1>3. tokenPosition \in 0 .. i - 1 /\ i - tokenPosition = Len(identifierStr)
  BY <1>2 DEF tokenPosition
<1>4. ASSUME NEW k \in tokenPosition .. i - 1
      PROVE  /\ k - tokenPosition + 1 \in 1 .. Len(identifierStr)
             /\ CharAt(in, k) = identifierStr[k - tokenPosition + 1]
  <2>1. /\ k - tokenPosition + 1 \in 1 .. i - tokenPosition
        /\ CharAt(in, k) = Slice(in, tokenPosition, i)[k - tokenPosition + 1]
    BY <1>2, <1>3, SliceAt DEF Size
  <2> QED
    BY <1>2, <1>3, <2>1
<1>5. CharAt(in, tokenPosition) = identifierStr[1]
  BY <1>3, <1>4
<1>6. \A k \in tokenPosition .. i - 1 : CharAt(in, k) \in class
  BY <1>4
<1>7. i = Size \/ CharAt(in, i) \notin class
  BY <1>2, CharType DEF IInv, At
<1> QED
  BY <1>1, <1>2, <1>3, <1>5, <1>6, <1>7

-----------------------------------------------------------------------------
(* Every step is a step of Lexemes, or one it does not see. *)

LEMMA NextLex == IInv /\ [Next]_vars => [Lex!Next]_(Lex!vars)
<1> SUFFICES ASSUME IInv, [Next]_vars
             PROVE  Lex!Next \/ UNCHANGED Lex!vars
  OBVIOUS
<1> USE SameClasses, SameText, SameTokens
<1>1. /\ in \in Seq(STRING) /\ Size \in Nat /\ Size = Len(in) /\ i \in Nat
      /\ identifierStr \in Seq(KnownChars) /\ Len(identifierStr) \in Nat
  BY SourceType DEF IInv, TypeOK, Size
<1>2. TypeOK /\ InProgressFits
  BY DEF IInv
<1>3. CASE UnknownChar
  <2>1. i < Size /\ At(i) \notin KnownChars
    <3>1. (UnknownChar => IInv') /\ (UnknownChar => status' = "fatal")
      BY NextIInv DEF UnknownChar, Next
    <3> QED
      BY <1>3, <3>1
      DEF UnknownChar, IInv, RejectsFirstUnknown, Size, At, CharAt
  <2>2. lexemePos' = lexemePos
    BY <1>3 DEF UnknownChar, lexemePos, tokenPosition, Size
  <2> QED
    BY <1>1, <1>3, <2>1, <2>2
    DEF UnknownChar, Lex!Next, Lex!Reject, Lex!Known, At
<1>4. CASE BeginSkip
  <2>1. i \in 0 .. Size /\ status = "running" /\ state = "Begin"
          /\ UNCHANGED <<in, status>>
    BY <1>4, IterateKnown DEF BeginSkip
  <2>2. lexemePos = i
    BY <2>1, PosInBegin, <1>2
  <2> QED
    BY <1>1, <1>4, <2>1, <2>2, BlankStep DEF BeginSkip, Lex!Next
<1>5. CASE BeginComment
  <2>1. i \in 0 .. Size /\ status = "running" /\ state = "Begin"
          /\ UNCHANGED <<in, status>>
    BY <1>5, IterateKnown DEF BeginComment
  <2>2. lexemePos = i /\ i + 1 < Size /\ At(i + 1) = "/" /\ c = At(i)
    BY <1>1, <1>2, <1>5, <2>1, PosInBegin, CharType
    DEF BeginComment, OpensComment
  <2>3. lexemePos' = FindFrom(in, i + 2, Newline)
    BY <1>1, <1>5, <2>1, <2>2 DEF BeginComment, lexemePos, Size
  <2>4. Lex!OpensComment
    BY <1>1, <1>5, <2>2 DEF BeginComment, Lex!OpensComment, At
  <2> QED
    BY <1>5, <2>1, <2>2, <2>3, <2>4
    DEF BeginComment, Lex!Next, Lex!Comment, Lex!Drop
<1>6. CASE BeginTwoChars
  <2>1. i \in 0 .. Size /\ status = "running" /\ state = "Begin"
          /\ UNCHANGED <<in, status>>
    BY <1>6, IterateKnown DEF BeginTwoChars
  <2>2. /\ lexemePos = i /\ i + 1 < Size /\ c = At(i)
        /\ <<c, At(i + 1)>> \in DOMAIN twoCharsTokenIds
    BY <1>1, <1>2, <1>6, <2>1, PosInBegin, CharType
    DEF BeginTwoChars, OpensTwoChars
  <2>3. Slice(in, i, i + 2) = <<c, At(i + 1)>>
    <3>1. i \in 0 .. Len(in) - 2 /\ (i + 1) + 1 = i + 2
      BY <1>1, <2>1, <2>2
    <3>2. Slice(in, i, i + 2) = <<in[i + 1], in[i + 2]>>
      BY <1>1, <3>1, SliceTwo
    <3>3. c = in[i + 1] /\ At(i + 1) = in[i + 2]
      BY <2>2, <3>1, Zenon DEF At, CharAt
    <3> QED
      BY <3>2, <3>3
  <2>4. lexemePos' = i + 2
    BY <1>1, <1>6, <2>1, <2>2 DEF BeginTwoChars, lexemePos, Size
  <2>5. ~Lex!OpensComment
    BY <1>1, <1>6, <2>2
    DEF BeginTwoChars, OpensComment, Lex!OpensComment, At
  <2>6. Lex!OpensTwoChars
    BY <1>1, <2>2, <2>3 DEF Lex!OpensTwoChars
  <2> QED
    BY <1>6, <2>1, <2>2, <2>3, <2>4, <2>5, <2>6
    DEF BeginTwoChars, Push, Lex!Next, Lex!TwoChars, Lex!Take
<1>7. CASE BeginSingleChar
  <2>1. i \in 0 .. Size /\ status = "running" /\ state = "Begin"
          /\ UNCHANGED <<in, status>>
    BY <1>7, IterateKnown DEF BeginSingleChar
  <2>2. lexemePos = i /\ i < Size /\ c = At(i)
    BY <1>1, <1>2, <1>7, <2>1, PosInBegin, CharType DEF BeginSingleChar
  <2>3. lexemePos' = i + 1
    BY <1>1, <1>7, <2>1, <2>2 DEF BeginSingleChar, lexemePos, Size
  <2>4. ~Lex!OpensComment
    BY <1>1, <1>7, <2>2
    DEF BeginSingleChar, OpensComment, Lex!OpensComment, At
  <2>5. ~Lex!OpensTwoChars
    <3>1. ASSUME i + 1 < Size PROVE Slice(in, i, i + 2) = <<c, At(i + 1)>>
      <4>1. i \in 0 .. Len(in) - 2 /\ (i + 1) + 1 = i + 2
        BY <1>1, <2>1, <3>1
      <4>2. Slice(in, i, i + 2) = <<in[i + 1], in[i + 2]>>
        BY <1>1, <4>1, SliceTwo
      <4>3. c = in[i + 1] /\ At(i + 1) = in[i + 2]
        BY <2>2, <4>1, Zenon DEF At, CharAt
      <4> QED
        BY <4>2, <4>3
    <3> QED
      BY <1>1, <1>7, <2>2, <3>1
      DEF BeginSingleChar, OpensTwoChars, Lex!OpensTwoChars
  <2> QED
    BY <1>1, <1>7, <2>1, <2>2, <2>3, <2>4, <2>5
    DEF BeginSingleChar, Push, Lex!Next, Lex!SingleChar, Lex!Take, At
<1>8. CASE BeginAlpha \/ BeginDigit
  <2>1. /\ state = "Begin" /\ i <= Size
        /\ state' \in {"Identifier", "Number"}
        /\ i' = i + 1 /\ identifierStr' = <<c>>
        /\ UNCHANGED <<in, tokens, status>>
    BY <1>8 DEF BeginAlpha, BeginDigit, BeginLexeme, Iterate
  <2>2. lexemePos = i /\ Len(identifierStr') = 1
    BY <1>2, <2>1, PosInBegin
  <2> QED
    BY <1>1, <2>1, <2>2, ReadStep
<1>9. CASE BeginOther
  <2>1. i \in 0 .. Size /\ status = "running" /\ state = "Begin"
          /\ c \in KnownChars /\ UNCHANGED <<in, status>>
    BY <1>9, IterateKnown DEF BeginOther
  <2>2. lexemePos = i
    BY <2>1, PosInBegin, <1>2
  <2>3. c \in Skip \cup Dot
    BY <1>9, <2>1 DEF BeginOther, KnownChars, AlphaDigit
  <2> QED
    BY <1>1, <1>9, <2>1, <2>2, <2>3, BlankStep DEF BeginOther, Lex!Next
<1>10. CASE ExtendIdentifier \/ ExtendNumber
  <2>1. /\ state \in {"Identifier", "Number"} /\ state' = state
        /\ i' = i + 1 /\ identifierStr' = Append(identifierStr, c)
        /\ c \in KnownChars
        /\ UNCHANGED <<in, tokens, status>>
    BY <1>10
    DEF ExtendIdentifier, ExtendNumber, Extend, Iterate, isKnownChar
  <2>2. Len(identifierStr') = Len(identifierStr) + 1
    BY <1>1, <2>1, AppendProperties
  <2>3. lexemePos = i - Len(identifierStr)
    BY <2>1, PosInLexeme DEF tokenPosition
  <2> QED
    BY <1>1, <2>1, <2>2, <2>3, ReadStep
<1>11. CASE EndIdentifier
  <2>1. /\ state = "Identifier" /\ state' = "Begin" /\ status = "running"
        /\ c \notin AlphaDigit /\ UNCHANGED <<in, i, status>>
        /\ tokens' = Append(tokens,
             getKeywordOrIdentifierTokenFromString(identifierStr, tokenPosition))
    BY <1>11 DEF EndIdentifier, Iterate, Push
  <2>2. identifierStr \in Seq(AlphaDigit) /\ identifierStr[1] \in Alpha
    BY <1>2, <2>1 DEF InProgressFits
  <2>3. /\ i \in lexemePos + 1 .. Size
        /\ CharAt(in, lexemePos) = identifierStr[1]
        /\ \A k \in lexemePos .. i - 1 : CharAt(in, k) \in AlphaDigit
        /\ i = Size \/ CharAt(in, i) \notin AlphaDigit
        /\ identifierStr = Slice(in, lexemePos, i)
        /\ lexemePos = tokenPosition
    BY <2>1, <2>2, EndedRun
  <2>4. lexemePos' = i
    BY <1>1, <2>1, <2>3 DEF lexemePos, Size
  <2>5. Lex!LongestRun(i, AlphaDigit)
    BY <1>1, <2>3 DEF Lex!LongestRun
  <2>6. Lex!Take(i, getKeywordOrIdentifierTokenFromString(
                      Slice(in, lexemePos, i), lexemePos))
    BY <2>1, <2>3, <2>4 DEF Lex!Take
  <2> QED
    BY <1>1, <2>2, <2>3, <2>5, <2>6 DEF Lex!Next, Lex!Word
<1>12. CASE EndNumber
  <2>1. /\ state = "Number" /\ state' = "Begin" /\ status = "running"
        /\ c \notin Digit \cup Dot /\ UNCHANGED <<in, i, status>>
        /\ tokens' = Append(tokens, numberToken(identifierStr, tokenPosition))
    BY <1>12 DEF EndNumber, Iterate, Push
  <2>2. identifierStr \in Seq(Digit \cup Dot) /\ identifierStr[1] \in Digit
    BY <1>2, <2>1 DEF InProgressFits
  <2>3. /\ i \in lexemePos + 1 .. Size
        /\ CharAt(in, lexemePos) = identifierStr[1]
        /\ \A k \in lexemePos .. i - 1 : CharAt(in, k) \in Digit \cup Dot
        /\ i = Size \/ CharAt(in, i) \notin Digit \cup Dot
        /\ identifierStr = Slice(in, lexemePos, i)
        /\ lexemePos = tokenPosition
    BY <2>1, <2>2, EndedRun
  <2>4. lexemePos' = i
    BY <1>1, <2>1, <2>3 DEF lexemePos, Size
  <2>5. Lex!LongestRun(i, Digit \cup Dot)
    BY <1>1, <2>3 DEF Lex!LongestRun
  <2>6. Lex!Take(i, numberToken(Slice(in, lexemePos, i), lexemePos))
    BY <2>1, <2>3, <2>4 DEF Lex!Take
  <2> QED
    BY <1>1, <2>2, <2>3, <2>5, <2>6 DEF Lex!Next, Lex!Number
<1>13. CASE CommentStep
  <2>1. /\ i \in 0 .. Size /\ status = "running" /\ state = "Comment"
        /\ i' = i + 1 /\ UNCHANGED <<in, tokens, status>> /\ Size' = Size
        /\ state' = IF c \in Newline THEN "Begin" ELSE "Comment"
    BY <1>13, IterateKnown DEF CommentStep, Size
  <2>2. lexemePos = FindFrom(in, i, Newline)
    BY <2>1, PosInComment
  <2>3. CASE i = Size
    <3>1. FindFrom(in, i, Newline) = Size
      BY <1>1, <2>3, FindFromHere
    <3>2. lexemePos' = Size
      BY <1>1, <2>1, <2>3 DEF lexemePos
    <3> QED
      BY <2>1, <2>2, <3>1, <3>2 DEF Lex!vars
  <2>4. CASE i < Size /\ c \in Newline
    <3>1. CharAt(in, i) \in Newline
      <4>1. i <= Size
        BY <1>1, <2>4
      <4>2. c = At(i)
        BY <1>2, <2>4, <4>1, CharType
      <4> QED
        BY <2>4, <4>2, Zenon DEF At
    <3>2. lexemePos = i
      BY <1>1, <2>1, <2>2, <2>4, <3>1, FindFromHere
    <3>3. c \in Skip \cup Dot
      BY <2>4 DEF Skip
    <3> QED
      BY <1>1, <2>1, <2>4, <3>2, <3>3, BlankStep DEF Lex!Next
  <2>5. CASE i < Size /\ c \notin Newline
    <3>1. CharAt(in, i) \notin Newline
      <4>1. i <= Size
        BY <1>1, <2>5
      <4>2. c = At(i)
        BY <1>2, <2>5, <4>1, CharType
      <4> QED
        BY <2>5, <4>2, Zenon DEF At
    <3>2. FindFrom(in, i, Newline) = FindFrom(in, i + 1, Newline)
      BY <1>1, <2>1, <2>5, <3>1, FindFromNext
    <3>3. lexemePos' = FindFrom(in, i + 1, Newline)
      BY <1>1, <2>1, <2>5 DEF lexemePos
    <3> QED
      BY <2>1, <2>2, <3>2, <3>3 DEF Lex!vars
  <2> QED
    BY <1>1, <2>1, <2>3, <2>4, <2>5
<1>14. CASE Finish
  <2>1. /\ i > Size /\ status = "running" /\ status' = "done"
        /\ tokens' = Append(tokens, Token("Eof", <<>>, Size))
        /\ UNCHANGED <<in, i, state, identifierStr>>
    BY <1>14 DEF Finish, Push
  <2>2. state \notin {"Identifier", "Number"}
    BY <1>1, <1>2, <2>1 DEF InProgressFits
  <2>3. lexemePos = Size
    BY <1>1, <2>1, <2>2 DEF lexemePos
  <2>4. lexemePos' = lexemePos
    BY <2>1 DEF lexemePos, tokenPosition, Size
  <2>5. \A k \in 0 .. Size - 1 : CharAt(in, k) \in KnownChars
    BY <1>1, <2>1 DEF IInv, RejectsFirstUnknown, At
  <2> QED
    BY <1>1, <2>1, <2>3, <2>4, <2>5 DEF Lex!Next, Lex!Accept, Lex!Known
<1>15. CASE UNCHANGED vars
  BY <1>15 DEF vars, Lex!vars, lexemePos, tokenPosition, Size
<1> QED
  BY <1>3, <1>4, <1>5, <1>6, <1>7, <1>8, <1>9, <1>10, <1>11, <1>12, <1>13,
     <1>14, <1>15
  DEF Next

\* The tokenizer implements the longest-match specification.
THEOREM Refinement == Spec => CutsIntoLexemes
<1> QED
  BY InitLex, NextLex, Invariance, PTL DEF Spec, CutsIntoLexemes, Lex!Spec
-----------------------------------------------------------------------------
(* The text a token stands for. *)

\* A map takes a key to what stands beside it in one of its rows.
LEMMA MapRow ==
  ASSUME NEW rows, NEW key \in DOMAIN MapOf(rows)
  PROVE  \E row \in rows : row[1] = key /\ row[2] = MapOf(rows)[key]
<1>1. \E row \in rows : row[1] = key
  BY DEF MapOf
<1>2. MapOf(rows)[key] = (CHOOSE row \in rows : row[1] = key)[2]
  BY DEF MapOf
<1> QED
  BY <1>1, <1>2

\* A table whose rows have different values has a different value for every key.
LEMMA MapInjective ==
  ASSUME NEW rows,
         \A row, other \in rows : row[2] = other[2] => row[1] = other[1],
         NEW s \in DOMAIN MapOf(rows), NEW t \in DOMAIN MapOf(rows),
         MapOf(rows)[s] = MapOf(rows)[t]
  PROVE  s = t
<1>1. PICK row \in rows : row[1] = s /\ row[2] = MapOf(rows)[s]
  BY MapRow
<1>2. PICK other \in rows : other[1] = t /\ other[2] = MapOf(rows)[t]
  BY MapRow
<1> QED
  BY <1>1, <1>2, Zenon

KeywordIdSet == {"KwFn", "KwPub", "KwReturn", "KwVar", "KwIf", "KwElse",
                 "KwTrue", "KwFalse", "KwAnd", "KwOr"}

TwoCharsIdSet ==
  {"EqualEqual", "RArrowEqual", "LArrowEqual", "ExclamationMarkEqual"}

LEMMA KeywordTable ==
  /\ \A s \in DOMAIN keywordTokenIds : keywordTokenIds[s] \in KeywordIdSet
  /\ \A s, t \in DOMAIN keywordTokenIds :
       keywordTokenIds[s] = keywordTokenIds[t] => s = t
<1>1. \A s \in DOMAIN keywordTokenIds : keywordTokenIds[s] \in KeywordIdSet
  BY MapOfRange DEF keywordTokenIds, KeywordIdSet
<1>2. \A s, t \in DOMAIN keywordTokenIds :
        keywordTokenIds[s] = keywordTokenIds[t] => s = t
  BY MapInjective DEF keywordTokenIds
<1> QED
  BY <1>1, <1>2

LEMMA TwoCharsTable ==
  /\ \A s \in DOMAIN twoCharsTokenIds : twoCharsTokenIds[s] \in TwoCharsIdSet
  /\ \A s, t \in DOMAIN twoCharsTokenIds :
       twoCharsTokenIds[s] = twoCharsTokenIds[t] => s = t
<1>1. \A s \in DOMAIN twoCharsTokenIds : twoCharsTokenIds[s] \in TwoCharsIdSet
  BY MapOfRange DEF twoCharsTokenIds, TwoCharsIdSet
<1>2. \A s, t \in DOMAIN twoCharsTokenIds :
        twoCharsTokenIds[s] = twoCharsTokenIds[t] => s = t
  BY MapInjective DEF twoCharsTokenIds
<1> QED
  BY <1>1, <1>2

LEMMA SingleCharTable ==
  /\ \A s \in Special :
       singleCharTokenIds[s] \notin KeywordIdSet \cup TwoCharsIdSet \cup {"Eof"}
  /\ \A s, t \in Special : singleCharTokenIds[s] = singleCharTokenIds[t] => s = t
<1>1. \A s \in Special :
        singleCharTokenIds[s] \notin KeywordIdSet \cup TwoCharsIdSet \cup {"Eof"}
  BY DEF singleCharTokenIds, Special, KeywordIdSet, TwoCharsIdSet
<1>2. /\ singleCharTokenIds["*"] = "Asterisk"
      /\ singleCharTokenIds[":"] = "Colon"
      /\ singleCharTokenIds[","] = "Comma"
      /\ singleCharTokenIds["="] = "Equal"
      /\ singleCharTokenIds["{"] = "LBrace"
      /\ singleCharTokenIds["("] = "LParen"
      /\ singleCharTokenIds["-"] = "Minus"
      /\ singleCharTokenIds["+"] = "Plus"
      /\ singleCharTokenIds["}"] = "RBrace"
      /\ singleCharTokenIds[")"] = "RParen"
      /\ singleCharTokenIds[";"] = "Semicolon"
      /\ singleCharTokenIds["/"] = "Slash"
      /\ singleCharTokenIds[">"] = "RArrow"
      /\ singleCharTokenIds["<"] = "LArrow"
      /\ singleCharTokenIds["!"] = "ExclamationMark"
  BY DEF singleCharTokenIds, Special
<1>3. ASSUME NEW s \in Special, NEW t \in Special,
             singleCharTokenIds[s] = singleCharTokenIds[t]
      PROVE  s = t
  <2> DEFINE some == {"*", ":", ",", "=", "{", "(", "-"}
             others == {"+", "}", ")", "!", ">", "<", "/", ";"}
  <2>1. CASE s \in some /\ t \in some
    BY <1>2, <1>3, <2>1
  <2>2. CASE s \in others /\ t \in others
    BY <1>2, <1>3, <2>2
  <2>3. ~(s \in some /\ t \in others) /\ ~(s \in others /\ t \in some)
    BY <1>2, <1>3
  <2> QED
    BY <2>1, <2>2, <2>3 DEF Special
<1> QED
  BY <1>1, <1>3

\* The id of a token without a value tells its text.
LEMMA FixedSpelling ==
  ASSUME NEW token, token.value = <<>>, NEW s, <<s, token.id>> \in fixedTexts
  PROVE  spelling(token) = s
<1>1. ASSUME NEW row \in fixedTexts, row[2] = token.id
      PROVE  row[1] = s
  BY <1>1, KeywordTable, TwoCharsTable, SingleCharTable
  DEF fixedTexts, KeywordIdSet, TwoCharsIdSet
<1>2. (CHOOSE row \in fixedTexts : row[2] = token.id)[1] = s
  BY <1>1
<1> QED
  BY <1>2 DEF spelling

\* The text of a word, a number or a symbol is spelled as it was read.
LEMMA WordSpelling ==
  ASSUME NEW s, s # <<>>, NEW p
  PROVE  spelling(getKeywordOrIdentifierTokenFromString(s, p)) = s
<1>1. CASE s \in DOMAIN keywordTokenIds
  <2> DEFINE t == Token(keywordTokenIds[s], <<>>, p)
  <2>1. t.value = <<>> /\ <<s, t.id>> \in fixedTexts
    BY <1>1 DEF Token, fixedTexts
  <2>2. spelling(t) = s
    BY <2>1, FixedSpelling
  <2> QED
    BY <1>1, <2>2 DEF getKeywordOrIdentifierTokenFromString
<1>2. CASE s \notin DOMAIN keywordTokenIds
  BY <1>2 DEF getKeywordOrIdentifierTokenFromString, Token, spelling
<1> QED
  BY <1>1, <1>2

LEMMA NumberSpelling ==
  ASSUME NEW s, s # <<>>, NEW p
  PROVE  spelling(numberToken(s, p)) = s
BY DEF numberToken, Token, spelling

LEMMA TwoCharsSpelling ==
  ASSUME NEW s \in DOMAIN twoCharsTokenIds, NEW p
  PROVE  spelling(Token(twoCharsTokenIds[s], <<>>, p)) = s
<1> DEFINE t == Token(twoCharsTokenIds[s], <<>>, p)
<1>1. t.value = <<>> /\ <<s, t.id>> \in fixedTexts
  BY DEF Token, fixedTexts
<1> QED
  BY <1>1, FixedSpelling

LEMMA SingleCharSpelling ==
  ASSUME NEW ch \in Special, NEW p
  PROVE  spelling(Token(singleCharTokenIds[ch], <<>>, p)) = <<ch>>
<1> DEFINE t == Token(singleCharTokenIds[ch], <<>>, p)
<1>1. t.value = <<>> /\ <<<<ch>>, t.id>> \in fixedTexts
  BY DEF Token, fixedTexts
<1> QED
  BY <1>1, FixedSpelling

LEMMA EofSpelling ==
  ASSUME NEW p
  PROVE  spelling(Token("Eof", <<>>, p)) = <<>>
<1> DEFINE t == Token("Eof", <<>>, p)
<1>1. t.value = <<>> /\ <<<<>>, t.id>> \in fixedTexts
  BY DEF Token, fixedTexts
<1> QED
  BY <1>1, FixedSpelling

-----------------------------------------------------------------------------
(* Tokens are spelled in order and nothing is lost, up to a position p. *)

\* The tokens ts stand in the text as they are spelled, one after the other.
SpelledUpTo(text, ts, p) ==
  \A k \in 1 .. Len(ts) :
    /\ ts[k].position \in Nat
    /\ tokenEnd(ts[k]) \in ts[k].position .. p
    /\ Slice(text, ts[k].position, tokenEnd(ts[k])) = spelling(ts[k])
    /\ k < Len(ts) => tokenEnd(ts[k]) <= ts[k + 1].position

Within(ts, k) ==
  \E t \in 1 .. Len(ts) : ts[t].position <= k /\ k < tokenEnd(ts[t])

\* Position k is behind the opening of a comment on its line.
InComment(text, ts, k) ==
  \E s \in 0 .. k :
    /\ s + 1 < Len(text) /\ CharAt(text, s) \in Special
    /\ CharAt(text, s + 1) = "/"
    /\ \A t \in 1 .. Len(ts) : s \notin ts[t].position .. tokenEnd(ts[t]) - 1
    /\ \A l \in s .. k : CharAt(text, l) \notin Newline

CoveredUpTo(text, ts, p) ==
  \A k \in 0 .. p - 1 : \/ CharAt(text, k) \in Skip \cup Dot
                        \/ Within(ts, k)
                        \/ InComment(text, ts, k)

LEMMA SpelledFurther ==
  ASSUME NEW text, NEW ts, NEW p \in Nat, NEW q \in Nat, p <= q,
         SpelledUpTo(text, ts, p)
  PROVE  SpelledUpTo(text, ts, q)
BY DEF SpelledUpTo

\* The places of a sequence that has grown by one.
LEMMA Grown ==
  ASSUME NEW T, NEW ts \in Seq(T), NEW token
  PROVE  /\ Len(ts) \in Nat
         /\ Len(Append(ts, token)) = Len(ts) + 1
         /\ \A k \in 1 .. Len(ts) : Append(ts, token)[k] = ts[k]
         /\ Append(ts, token)[Len(ts) + 1] = token
<1> DEFINE S == T \cup {token}
<1>1. ts \in Seq(S) /\ token \in S
  OBVIOUS
<1> HIDE DEF S
<1> QED
  BY <1>1, AppendProperties, LenProperties

LEMMA SpelledMore ==
  ASSUME NEW text, NEW T, NEW ts \in Seq(T), NEW token,
         NEW p \in Nat, NEW q \in Nat, p <= q,
         token.position = p, tokenEnd(token) = q,
         Slice(text, p, q) = spelling(token),
         SpelledUpTo(text, ts, p)
  PROVE  SpelledUpTo(text, Append(ts, token), q)
<1> DEFINE more == Append(ts, token)
           count == Len(ts)
<1>1. /\ count \in Nat /\ Len(more) = count + 1
      /\ \A k \in 1 .. count : more[k] = ts[k]
      /\ more[count + 1] = token
  BY Grown
<1>2. \A k \in 1 .. count :
        /\ ts[k].position \in Nat
        /\ tokenEnd(ts[k]) \in ts[k].position .. p
        /\ Slice(text, ts[k].position, tokenEnd(ts[k])) = spelling(ts[k])
        /\ k < count => tokenEnd(ts[k]) <= ts[k + 1].position
  BY DEF SpelledUpTo
<1> HIDE DEF more, count
<1>3. ASSUME NEW k \in 1 .. count + 1
      PROVE  /\ more[k].position \in Nat
             /\ tokenEnd(more[k]) \in more[k].position .. q
             /\ Slice(text, more[k].position, tokenEnd(more[k]))
                  = spelling(more[k])
             /\ k < count + 1 => tokenEnd(more[k]) <= more[k + 1].position
  <2>1. CASE k = count + 1
    BY <1>1, <2>1
  <2>2. CASE k \in 1 .. count
    <3>1. /\ more[k] = ts[k] /\ ts[k].position \in Nat
          /\ tokenEnd(ts[k]) \in ts[k].position .. p
          /\ Slice(text, ts[k].position, tokenEnd(ts[k])) = spelling(ts[k])
      BY <1>1, <1>2, <2>2
    <3>2. tokenEnd(more[k]) <= more[k + 1].position
      <4>1. CASE k = count
        BY <1>1, <3>1, <4>1
      <4>2. CASE k < count
        <5>1. k + 1 \in 1 .. count
          BY <1>1, <2>2, <4>2
        <5> QED
          BY <1>1, <1>2, <2>2, <3>1, <4>2, <5>1
      <4> QED
        BY <1>1, <2>2, <4>1, <4>2
    <3> QED
      BY <3>1, <3>2
  <2> QED
    BY <1>1, <1>3, <2>1, <2>2
<1> QED
  BY <1>1, <1>3 DEF SpelledUpTo, more

\* What is covered stays covered when a token is added behind it.
LEMMA CoveredMore ==
  ASSUME NEW text, NEW T, NEW ts \in Seq(T), NEW token,
         NEW p \in Nat, NEW q \in Nat, p <= q,
         token.position = p, tokenEnd(token) = q,
         SpelledUpTo(text, ts, p), CoveredUpTo(text, ts, p)
  PROVE  CoveredUpTo(text, Append(ts, token), q)
<1> DEFINE more == Append(ts, token)
           count == Len(ts)
<1>1. /\ count \in Nat /\ Len(more) = count + 1
      /\ \A k \in 1 .. count : more[k] = ts[k]
      /\ more[count + 1] = token
  BY Grown
<1>2. \A k \in 0 .. p - 1 : \/ CharAt(text, k) \in Skip \cup Dot
                            \/ Within(ts, k)
                            \/ InComment(text, ts, k)
  BY DEF CoveredUpTo
<1>3. ASSUME NEW k \in 0 .. p - 1, Within(ts, k)
      PROVE  Within(more, k)
  <2>1. PICK t \in 1 .. count : ts[t].position <= k /\ k < tokenEnd(ts[t])
    BY <1>3 DEF Within
  <2>2. t \in 1 .. Len(more) /\ more[t] = ts[t]
    BY <1>1, <2>1
  <2> HIDE DEF more
  <2> QED
    BY <2>1, <2>2 DEF Within
<1>4. ASSUME NEW k \in 0 .. p - 1, InComment(text, ts, k)
      PROVE  InComment(text, more, k)
  <2>1. PICK s \in 0 .. k :
          /\ s + 1 < Len(text) /\ CharAt(text, s) \in Special
          /\ CharAt(text, s + 1) = "/"
          /\ \A t \in 1 .. count : s \notin ts[t].position .. tokenEnd(ts[t]) - 1
          /\ \A l \in s .. k : CharAt(text, l) \notin Newline
    BY <1>4 DEF InComment
  <2> HIDE DEF more, count
  <2>2. ASSUME NEW t \in 1 .. Len(more)
        PROVE  s \notin more[t].position .. tokenEnd(more[t]) - 1
    <3>1. CASE t \in 1 .. count
      BY <1>1, <2>1, <3>1
    <3>2. CASE t = count + 1
      BY <1>1, <3>2
    <3> QED
      BY <1>1, <3>1, <3>2
  <2> QED
    BY <2>1, <2>2 DEF InComment
<1>5. ASSUME NEW k \in p .. q - 1
      PROVE  Within(more, k)
  <2> HIDE DEF more, count
  <2>1. count + 1 \in 1 .. Len(more) /\ more[count + 1].position <= k
          /\ k < tokenEnd(more[count + 1])
    BY <1>1
  <2> QED
    BY <2>1 DEF Within
<1>6. \A k \in 0 .. q - 1 : k \in 0 .. p - 1 \/ k \in p .. q - 1
  OBVIOUS
<1> HIDE DEF more
<1>7. CoveredUpTo(text, more, q)
  BY <1>2, <1>3, <1>4, <1>5, <1>6 DEF CoveredUpTo
<1> QED
  BY <1>7 DEF more

\* A blank or a dot needs no cover.
LEMMA CoveredBlank ==
  ASSUME NEW text, NEW ts, NEW p \in Nat, CoveredUpTo(text, ts, p),
         CharAt(text, p) \in Skip \cup Dot
  PROVE  CoveredUpTo(text, ts, p + 1)
BY DEF CoveredUpTo

\* A non-empty set of naturals has a least element.
LEMMA MinOfNaturals ==
  ASSUME NEW S \in SUBSET Nat, S # {}
  PROVE  Min(S) \in S /\ \A k \in S : Min(S) <= k
<1> DEFINE R == OpToRel(<, Nat)
<1>1. \A j, k \in Nat : j < k => <<j, k>> \in R
  BY DEF OpToRel
<1>2. PICK m \in S : \A k \in S : ~(<<k, m>> \in R)
  <2>1. IsWellFoundedOn(R, Nat)
    BY NatLessThanWellFounded
  <2> HIDE DEF R
  <2> QED
    BY <2>1, WFMin
<1> HIDE DEF R
<1>3. ASSUME NEW k \in S PROVE m <= k
  <2>1. m \in Nat /\ k \in Nat /\ ~(k < m)
    BY <1>1, <1>2
  <2> QED
    BY <2>1
<1> QED
  BY <1>3, Zenon DEF Min

\* The search stops at the end of the text, or where it finds the class first.
LEMMA FindFromBounds ==
  ASSUME NEW text, Len(text) \in Nat, NEW p \in 0 .. Len(text), NEW class
  PROVE  /\ FindFrom(text, p, class) \in p .. Len(text)
         /\ \A k \in p .. FindFrom(text, p, class) - 1 :
              CharAt(text, k) \notin class
<1> DEFINE size == Len(text)
           found == {size} \cup {k \in p .. size - 1 : CharAt(text, k) \in class}
<1>1. found \subseteq p .. size /\ found # {} /\ size \in found
  OBVIOUS
<1>2. \A k \in p .. size - 1 : CharAt(text, k) \in class => k \in found
  OBVIOUS
<1> HIDE DEF found, size
<1>3. size \in Nat
  BY DEF size
<1>4. Min(found) \in found /\ \A k \in found : Min(found) <= k
  BY <1>1, <1>3, MinOfNaturals
<1>5. Min(found) \in p .. size
        /\ \A k \in p .. Min(found) - 1 : CharAt(text, k) \notin class
  <2> DEFINE m == Min(found)
  <2>1. m \in p .. size
    BY <1>1, <1>4
  <2>2. ASSUME NEW k \in p .. m - 1 PROVE CharAt(text, k) \notin class
    <3> HIDE DEF m
    <3>1. k \in p .. size - 1 /\ ~(m <= k)
      BY <1>3, <2>1, <2>2
    <3>2. k \notin found
      BY <1>4, <3>1 DEF m
    <3> QED
      BY <1>2, <3>1, <3>2
  <2> QED
    BY <2>1, <2>2
<1> QED
  BY <1>5 DEF FindFrom, found, size

\* A comment covers what it drops.
LEMMA CoveredComment ==
  ASSUME NEW text, Len(text) \in Nat, NEW ts, NEW p \in Nat,
         SpelledUpTo(text, ts, p), CoveredUpTo(text, ts, p),
         p + 1 < Len(text), CharAt(text, p) \in Special,
         CharAt(text, p + 1) = "/"
  PROVE  /\ FindFrom(text, p + 2, Newline) \in p + 2 .. Len(text)
         /\ CoveredUpTo(text, ts, FindFrom(text, p + 2, Newline))
<1> DEFINE q == FindFrom(text, p + 2, Newline)
           size == Len(text)
<1>1. /\ q \in p + 2 .. size
      /\ \A k \in p + 2 .. q - 1 : CharAt(text, k) \notin Newline
  BY FindFromBounds
<1>2. CharAt(text, p) \notin Newline /\ CharAt(text, p + 1) \notin Newline
  BY DEF Special, Newline
<1>3. size \in Nat /\ p + 1 < size
  OBVIOUS
<1> HIDE DEF q
<1>4. \A l \in p .. q - 1 : CharAt(text, l) \notin Newline
  <2>1. \A l \in p .. q - 1 : l = p \/ l = p + 1 \/ l \in p + 2 .. q - 1
    BY <1>1, <1>3
  <2> QED
    BY <1>1, <1>2, <2>1
<1>5. \A t \in 1 .. Len(ts) : p \notin ts[t].position .. tokenEnd(ts[t]) - 1
  BY DEF SpelledUpTo
<1>6. ASSUME NEW k \in p .. q - 1
      PROVE  InComment(text, ts, k)
  <2>1. p \in 0 .. k /\ \A l \in p .. k : l \in p .. q - 1
    BY <1>1, <1>3
  <2> QED
    BY <1>4, <1>5, <2>1, <1>3 DEF InComment, size
<1>7. \A k \in 0 .. q - 1 : k \in 0 .. p - 1 \/ k \in p .. q - 1
  BY <1>1, <1>3
<1>8. CoveredUpTo(text, ts, q)
  BY <1>6, <1>7 DEF CoveredUpTo
<1> QED
  BY <1>1, <1>8 DEF q, size

-----------------------------------------------------------------------------
(* The invariant: it is about the steps of Lexemes, where no automaton is. *)

CutInv ==
  /\ lexemePos \in 0 .. Size
  /\ SpelledUpTo(in, tokens, lexemePos)
  /\ CoveredUpTo(in, tokens, lexemePos)
  /\ status = "done" => lexemePos = Size

LEMMA InitCut == Init => CutInv
<1> SUFFICES ASSUME Init PROVE CutInv
  OBVIOUS
<1>1. Size \in Nat /\ tokens = <<>> /\ status = "running"
  BY SourceType DEF Init
<1>2. lexemePos = 0
  BY <1>1 DEF Init, lexemePos
<1> QED
  BY <1>1, <1>2 DEF CutInv, SpelledUpTo, CoveredUpTo

\* A step that takes the text from lexemePos to q as a token.
LEMMA TakeCut ==
  ASSUME CutInv, in \in Seq(STRING), tokens \in Seq(TokenRecord),
         NEW q \in lexemePos .. Size, NEW token,
         token.position = lexemePos, spelling(token) = Slice(in, lexemePos, q),
         tokens' = Append(tokens, token), lexemePos' = q, in' = in,
         status' = "done" => q = Size
  PROVE  CutInv'
<1> DEFINE p == lexemePos
<1>1. /\ Size \in Nat /\ p \in 0 .. Size /\ p \in Nat /\ q \in Nat /\ p <= q
      /\ Size' = Size
  BY DEF CutInv, Size
<1>2. tokenEnd(token) = q
  <2> DEFINE m == p + 1
  <2>1. m \in Int /\ m <= q + 1 /\ \A j \in m .. q : in[j] \in STRING
    BY <1>1 DEF Size
  <2> HIDE DEF m
  <2>2. Len(SubSeq(in, m, q)) = q - m + 1
    BY <1>1, <2>1, SubSeqProperties
  <2>3. Len(spelling(token)) = q - p
    BY <1>1, <2>2 DEF Slice, m
  <2> HIDE DEF p
  <2> QED
    BY <1>1, <2>3 DEF tokenEnd, p
<1>3. SpelledUpTo(in, tokens, p) /\ CoveredUpTo(in, tokens, p)
  BY DEF CutInv
<1> HIDE DEF p
<1>4. token.position = p /\ Slice(in, p, q) = spelling(token)
  BY DEF p
<1>5. SpelledUpTo(in, Append(tokens, token), q)
  BY <1>1, <1>2, <1>3, <1>4, SpelledMore
<1>6. CoveredUpTo(in, Append(tokens, token), q)
  BY <1>1, <1>2, <1>3, <1>4, CoveredMore
<1> QED
  BY <1>1, <1>5, <1>6 DEF CutInv

\* A step that drops the text from lexemePos to q.
LEMMA DropCut ==
  ASSUME CutInv, Size \in Nat, NEW q \in lexemePos .. Size,
         CoveredUpTo(in, tokens, q), status = "running",
         lexemePos' = q, UNCHANGED <<in, tokens, status>>
  PROVE  CutInv'
<1>1. Size' = Size /\ lexemePos \in Nat /\ q \in Nat /\ lexemePos <= q
  BY DEF Size, CutInv
<1>2. SpelledUpTo(in, tokens, q)
  BY <1>1, SpelledFurther DEF CutInv
<1> QED
  BY <1>1, <1>2 DEF CutInv

\* A piece that is not empty.
LEMMA PieceNotEmpty ==
  ASSUME NEW S, NEW text \in Seq(S), NEW p \in Nat, NEW q \in p + 1 .. Len(text)
  PROVE  Slice(text, p, q) # <<>>
<1> DEFINE m == p + 1
<1>1. m \in Int /\ m <= q /\ q \in Int /\ \A j \in m .. q : text[j] \in S
  OBVIOUS
<1> HIDE DEF m
<1>2. Len(SubSeq(text, m, q)) = q - m + 1
  BY <1>1, SubSeqProperties
<1>3. SubSeq(text, m, q) # <<>>
  BY <1>1, <1>2
<1> QED
  BY <1>3 DEF Slice, m

LEMMA StepCut ==
  IInv /\ CutInv /\ [Lex!Next]_(Lex!vars) => CutInv'
<1> SUFFICES ASSUME IInv, CutInv, [Lex!Next]_(Lex!vars)
             PROVE  CutInv'
  OBVIOUS
<1> USE SameClasses, SameText, SameTokens
<1>1. /\ in \in Seq(STRING) /\ Size \in Nat /\ Size = Len(in)
      /\ tokens \in Seq(TokenRecord)
      /\ lexemePos \in 0 .. Size
      /\ SpelledUpTo(in, tokens, lexemePos)
      /\ CoveredUpTo(in, tokens, lexemePos)
  BY SourceType DEF IInv, TypeOK, Size, CutInv
<1>2. CASE Lex!Blank
  <2>1. /\ lexemePos < Size /\ CharAt(in, lexemePos) \in Skip \cup Dot
        /\ status = "running" /\ lexemePos' = lexemePos + 1
        /\ UNCHANGED <<in, tokens, status>>
    BY <1>1, <1>2 DEF Lex!Blank, Lex!Drop
  <2>2. CoveredUpTo(in, tokens, lexemePos + 1)
    BY <1>1, <2>1, CoveredBlank
  <2> QED
    BY <1>1, <2>1, <2>2, DropCut
<1>3. CASE Lex!Comment
  <2>1. /\ lexemePos + 1 < Size /\ CharAt(in, lexemePos) \in Special
        /\ CharAt(in, lexemePos + 1) = "/" /\ status = "running"
        /\ lexemePos' = FindFrom(in, lexemePos + 2, Newline)
        /\ UNCHANGED <<in, tokens, status>>
    BY <1>1, <1>3 DEF Lex!Comment, Lex!OpensComment, Lex!Drop
  <2>2. /\ FindFrom(in, lexemePos + 2, Newline) \in lexemePos + 2 .. Size
        /\ CoveredUpTo(in, tokens, FindFrom(in, lexemePos + 2, Newline))
    BY <1>1, <2>1, CoveredComment
  <2>3. FindFrom(in, lexemePos + 2, Newline) \in lexemePos .. Size
    BY <1>1, <2>2
  <2> QED
    BY <1>1, <2>1, <2>2, <2>3, DropCut
<1>4. CASE Lex!Word
  <2>1. PICK q \in lexemePos + 1 .. Size :
          Lex!Take(q, getKeywordOrIdentifierTokenFromString(
                        Slice(in, lexemePos, q), lexemePos))
    BY <1>1, <1>4 DEF Lex!Word
  <2> DEFINE text == Slice(in, lexemePos, q)
             token == getKeywordOrIdentifierTokenFromString(text, lexemePos)
  <2>2. text # <<>>
    BY <1>1, PieceNotEmpty
  <2>3. spelling(token) = text
    BY <2>2, WordSpelling
  <2>4. token.position = lexemePos
    BY DEF getKeywordOrIdentifierTokenFromString, Token
  <2>5. /\ tokens' = Append(tokens, token) /\ lexemePos' = q
        /\ in' = in /\ status' = "running"
    BY <2>1 DEF Lex!Take
  <2>6. q \in lexemePos .. Size
    BY <1>1
  <2> HIDE DEF token
  <2> QED
    BY <1>1, <2>3, <2>4, <2>5, <2>6, TakeCut
<1>5. CASE Lex!Number
  <2>1. PICK q \in lexemePos + 1 .. Size :
          Lex!Take(q, numberToken(Slice(in, lexemePos, q), lexemePos))
    BY <1>1, <1>5 DEF Lex!Number
  <2> DEFINE text == Slice(in, lexemePos, q)
             token == numberToken(text, lexemePos)
  <2>2. text # <<>>
    BY <1>1, PieceNotEmpty
  <2>3. spelling(token) = text
    BY <2>2, NumberSpelling
  <2>4. token.position = lexemePos
    BY DEF numberToken, Token
  <2>5. /\ tokens' = Append(tokens, token) /\ lexemePos' = q
        /\ in' = in /\ status' = "running"
    BY <2>1 DEF Lex!Take
  <2>6. q \in lexemePos .. Size
    BY <1>1
  <2> HIDE DEF token
  <2> QED
    BY <1>1, <2>3, <2>4, <2>5, <2>6, TakeCut
<1>6. CASE Lex!TwoChars
  <2> DEFINE text == Slice(in, lexemePos, lexemePos + 2)
             token == Token(twoCharsTokenIds[text], <<>>, lexemePos)
  <2>1. /\ lexemePos + 1 < Size /\ text \in DOMAIN twoCharsTokenIds
        /\ tokens' = Append(tokens, token) /\ lexemePos' = lexemePos + 2
        /\ in' = in /\ status' = "running"
    BY <1>1, <1>6 DEF Lex!TwoChars, Lex!OpensTwoChars, Lex!Take
  <2>2. spelling(token) = text
    BY <2>1, TwoCharsSpelling
  <2>3. token.position = lexemePos
    BY DEF Token
  <2>4. lexemePos + 2 \in lexemePos .. Size
    BY <1>1, <2>1
  <2> HIDE DEF token
  <2> QED
    BY <1>1, <2>1, <2>2, <2>3, <2>4, TakeCut
<1>7. CASE Lex!SingleChar
  <2> DEFINE ch == CharAt(in, lexemePos)
             token == Token(singleCharTokenIds[ch], <<>>, lexemePos)
  <2>1. /\ lexemePos < Size /\ ch \in Special
        /\ tokens' = Append(tokens, token) /\ lexemePos' = lexemePos + 1
        /\ in' = in /\ status' = "running"
    BY <1>1, <1>7 DEF Lex!SingleChar, Lex!Take
  <2>2. Slice(in, lexemePos, lexemePos + 1) = <<ch>>
    BY <1>1, <2>1, SliceOne DEF CharAt
  <2>3. spelling(token) = <<ch>>
    BY <2>1, SingleCharSpelling
  <2>4. token.position = lexemePos
    BY DEF Token
  <2>5. lexemePos + 1 \in lexemePos .. Size
    BY <1>1, <2>1
  <2> HIDE DEF token
  <2> QED
    BY <1>1, <2>1, <2>2, <2>3, <2>4, <2>5, TakeCut
<1>8. CASE Lex!Accept
  <2> DEFINE token == Token("Eof", <<>>, Size)
  <2>1. /\ lexemePos = Size /\ tokens' = Append(tokens, token)
        /\ lexemePos' = Size /\ in' = in
    BY <1>1, <1>8 DEF Lex!Accept
  <2>2. Slice(in, lexemePos, Size) = <<>>
    BY <1>1, <2>1 DEF Slice
  <2>3. spelling(token) = <<>>
    BY EofSpelling
  <2>4. token.position = lexemePos
    BY <2>1 DEF Token
  <2>5. Size \in lexemePos .. Size
    BY <1>1, <2>1
  <2> HIDE DEF token
  <2> QED
    BY <1>1, <2>1, <2>2, <2>3, <2>4, <2>5, TakeCut
<1>9. CASE Lex!Reject
  BY <1>9 DEF Lex!Reject, CutInv, Size
<1>10. CASE UNCHANGED Lex!vars
  BY <1>10 DEF Lex!vars, CutInv, Size
<1> QED
  BY <1>2, <1>3, <1>4, <1>5, <1>6, <1>7, <1>8, <1>9, <1>10 DEF Lex!Next

LEMMA CutAlways == Spec => []CutInv
<1>1. IInv /\ CutInv /\ [Next]_vars => CutInv'
  BY NextLex, StepCut
<1> QED
  BY <1>1, InitCut, Invariance, PTL DEF Spec

\* Every token is spelled in the source at its position, and the next one
\* starts where it ends or later (tokenizer.cpp:304-394).
THEOREM SpelledInOrder == Spec => []TokensSpelledInOrder
<1>1. IInv /\ CutInv => TokensSpelledInOrder
  BY DEF IInv, TypeOK, CutInv, SpelledUpTo, TokensSpelledInOrder
<1> QED
  BY <1>1, CutAlways, Invariance, PTL

\* When tokenize() returns, every character of the source is a blank or a
\* dot, in a token, or in a comment (tokenizer.cpp:320-389).
THEOREM NothingIsLost == Spec => []NothingLost
<1>1. CutInv => NothingLost
  BY DEF CutInv, CoveredUpTo, Within, InComment, NothingLost, At, Size
<1> QED
  BY <1>1, CutAlways, PTL
=============================================================================
