-------------------------- MODULE Diagnostics_proofs --------------------------
(***************************************************************************)
(* Proofs about the places shown in error messages, for every set of texts *)
(* whose length is a size_t.                                               *)
(***************************************************************************)
EXTENDS Diagnostics, Tokenizer_proofs

-----------------------------------------------------------------------------
(* Searching a text. *)

\* A non-empty set of integers up to p has a greatest element.
LEMMA MaxOfIntegers ==
  ASSUME NEW p \in Int, NEW S, S # {}, \A k \in S : k \in Int /\ k <= p
  PROVE  Max(S) \in S /\ \A k \in S : k <= Max(S)
<1> DEFINE D == {p - k : k \in S}
<1>1. D \in SUBSET Nat /\ D # {}
  OBVIOUS
<1>2. \A k \in S : p - k \in D
  OBVIOUS
<1>3. \A d \in D : \E k \in S : d = p - k
  OBVIOUS
<1> HIDE DEF D
<1>4. Min(D) \in D /\ \A d \in D : Min(D) <= d
  BY <1>1, MinOfNaturals
<1>5. PICK m \in S : Min(D) = p - m
  BY <1>3, <1>4
<1>6. ASSUME NEW k \in S PROVE m >= k
  <2>1. p - m <= p - k
    BY <1>2, <1>4, <1>5
  <2> QED
    BY <2>1
<1>7. Max(S) \in S /\ \A k \in S : Max(S) >= k
  BY <1>6, Zenon DEF Max
<1>8. ASSUME NEW k \in S PROVE k <= Max(S)
  BY <1>7
<1> QED
  BY <1>7, <1>8

\* The search back stops before the text, or where it finds the class first.
LEMMA FindBackBounds ==
  ASSUME NEW text, NEW p \in Nat, NEW class
  PROVE  LET m == FindBackFrom(text, p, class)
         IN  /\ m \in -1 .. p
             /\ m # -1 => CharAt(text, m) \in class
             /\ \A k \in m + 1 .. p : CharAt(text, k) \notin class
<1> DEFINE found == {-1} \cup {k \in 0 .. p : CharAt(text, k) \in class}
           m == Max(found)
<1>1. /\ \A k \in found : k \in Int /\ k <= p /\ k >= -1
      /\ \A k \in found : k # -1 => CharAt(text, k) \in class
      /\ -1 \in found
  OBVIOUS
<1>2. \A k \in 0 .. p : CharAt(text, k) \in class => k \in found
  OBVIOUS
<1> HIDE DEF found
<1>3. m \in found /\ \A k \in found : k <= m
  BY <1>1, MaxOfIntegers
<1> HIDE DEF m
<1>4. m \in -1 .. p
  BY <1>1, <1>3
<1>5. ASSUME NEW k \in m + 1 .. p PROVE CharAt(text, k) \notin class
  <2>1. k \in 0 .. p /\ ~(k <= m)
    BY <1>4
  <2> QED
    BY <1>2, <1>3, <2>1
<1> QED
  BY <1>1, <1>3, <1>4, <1>5 DEF FindBackFrom, found, m

\* What the search stops at before the end of the text is of the class.
LEMMA FindFromFinds ==
  ASSUME NEW text, Len(text) \in Nat, NEW p \in 0 .. Len(text), NEW class,
         FindFrom(text, p, class) # Len(text)
  PROVE  CharAt(text, FindFrom(text, p, class)) \in class
<1> DEFINE found == {Len(text)} \cup
              {k \in p .. Len(text) - 1 : CharAt(text, k) \in class}
<1>1. found \in SUBSET Nat /\ found # {}
  OBVIOUS
<1>2. \A k \in found : k # Len(text) => CharAt(text, k) \in class
  OBVIOUS
<1> HIDE DEF found
<1>3. Min(found) \in found
  BY <1>1, MinOfNaturals
<1> QED
  BY <1>2, <1>3 DEF FindFrom, found

-----------------------------------------------------------------------------
(* getHightlightedPosition(). *)

\* The line around a character that is no newline, without its newline or the
\* last character of the text; the position may be that character.
LEMMA LineBounds ==
  ASSUME NEW text \in Seq(STRING), NEW position \in 0 .. Len(text) - 1,
         CharAt(text, position) # "\n"
  PROVE  LET begin == lineBegin(text, position)
             end == lineEnd(text, position)
         IN  /\ begin \in 0 .. position
             /\ begin = 0 \/ CharAt(text, begin - 1) = "\n"
             /\ end \in position .. Len(text) - 1
             /\ end = Len(text) - 1 \/ CharAt(text, end) = "\n"
             /\ end = position <=> position = Len(text) - 1
             /\ \A k \in begin .. end - 1 : CharAt(text, k) # "\n"
<1> DEFINE size == Len(text)
           back == FindBackFrom(text, position, {"\n"})
           newline == FindFrom(text, position, {"\n"})
           begin == back + 1
           end == IF newline = size THEN size - 1 ELSE newline
<1>1. size \in Nat /\ position \in 0 .. size - 1 /\ position \in Nat
  OBVIOUS
<1>2. /\ back \in -1 .. position
      /\ back # -1 => CharAt(text, back) = "\n"
      /\ \A k \in back + 1 .. position : CharAt(text, k) # "\n"
  BY <1>1, FindBackBounds
<1>3. /\ newline \in position .. size
      /\ \A k \in position .. newline - 1 : CharAt(text, k) # "\n"
  BY <1>1, FindFromBounds
<1>4. newline # size => CharAt(text, newline) = "\n"
  BY <1>1, FindFromFinds
<1>5. begin = lineBegin(text, position) /\ end = lineEnd(text, position)
  BY DEF lineBegin, lineEnd
<1> HIDE DEF back, newline, size
<1>6. begin \in 0 .. position /\ (begin = 0 \/ CharAt(text, begin - 1) = "\n")
  <2>1. back \in Int /\ back # position
    BY <1>1, <1>2
  <2>2. begin - 1 = back
    BY <2>1
  <2> QED
    BY <1>1, <1>2, <2>1, <2>2
<1>7. end \in position .. size - 1 /\ (end = size - 1 \/ CharAt(text, end) = "\n")
  BY <1>1, <1>3, <1>4
<1>8. newline # position
  BY <1>1, <1>4
<1>9. end = position <=> position = size - 1
  BY <1>1, <1>3, <1>8
<1>10. ASSUME NEW k \in begin .. end - 1 PROVE CharAt(text, k) # "\n"
  <2>1. k \in back + 1 .. position \/ k \in position .. newline - 1
    BY <1>1, <1>2, <1>3
  <2> QED
    BY <1>2, <1>3, <2>1
<1> QED
  BY <1>5, <1>6, <1>7, <1>9, <1>10 DEF size

\* The part of a text between two positions.
LEMMA SliceChars ==
  ASSUME NEW S, NEW text \in Seq(S), NEW p \in 0 .. Len(text), NEW q \in p .. Len(text)
  PROVE  /\ Len(Slice(text, p, q)) = q - p
         /\ DOMAIN Slice(text, p, q) = 1 .. q - p
         /\ \A k \in 1 .. q - p : Slice(text, p, q)[k] = CharAt(text, p + k - 1)
<1> DEFINE m == p + 1
           size == Len(text)
           line == SubSeq(text, m, q)
<1>1. size \in Nat /\ \A j \in 1 .. size : text[j] \in S
  OBVIOUS
<1> HIDE DEF size
<1>2. m \in Int /\ q \in Int /\ p \in Int /\ m <= q + 1 /\ \A j \in m .. q : text[j] \in S
  BY <1>1 DEF size
<1>3. m = p + 1
  OBVIOUS
<1> HIDE DEF m
<1>4. /\ line \in Seq(S)
      /\ Len(line) = IF m <= q THEN q - m + 1 ELSE 0
      /\ \A k \in 1 .. q - m + 1 : line[k] = text[m + k - 1]
  BY <1>2, SubSeqProperties
<1>5. Len(line) = q - p /\ q - m + 1 = q - p
  BY <1>2, <1>3, <1>4
<1>6. DOMAIN line = 1 .. q - p
  BY <1>4, <1>5, LenProperties
<1>7. ASSUME NEW k \in 1 .. q - p PROVE line[k] = CharAt(text, p + k - 1)
  <2>1. m + k - 1 = p + k - 1 + 1
    BY <1>2, <1>3
  <2> QED
    BY <1>4, <1>5, <2>1 DEF CharAt
<1> QED
  BY <1>5, <1>6, <1>7 DEF Slice, m

\* What is shown of a character that is no newline: its line, unless it is the
\* last one of the text.  No computation wraps around.
LEMMA PlaceShown ==
  ASSUME NEW text \in Seq(STRING), Len(text) < SizeValues,
         NEW position \in 0 .. Len(text) - 1, CharAt(text, position) # "\n"
  PROVE  getHightlightedPosition(text, position)
           = IF position = Len(text) - 1 THEN OutOfRange
             ELSE Line(Slice(text, lineBegin(text, position), lineEnd(text, position)),
                       position - lineBegin(text, position))
<1> DEFINE size == Len(text)
           begin == lineBegin(text, position)
           end == lineEnd(text, position)
           length == Wrap(end - begin)
           stop == Min({begin + length, size})
           mark == Wrap(position - begin)
           line == Slice(text, begin, stop)
<1>1. /\ begin \in 0 .. position /\ end \in position .. size - 1
      /\ end = position <=> position = size - 1
  BY LineBounds
<1>2. size \in Nat /\ position \in 0 .. size - 1 /\ size < SizeValues
  OBVIOUS
<1>3. getHightlightedPosition(text, position)
        = IF position >= size \/ mark >= Len(line) THEN OutOfRange ELSE Line(line, mark)
  BY DEF getHightlightedPosition
<1> HIDE DEF begin, end, size
<1>4. end - begin \in 0 .. SizeValues - 1 /\ position - begin \in 0 .. SizeValues - 1
  BY <1>1, <1>2, SizeValuesAssumption
<1>5. \A number \in 0 .. SizeValues - 1 : Wrap(number) = number
  BY SizeValuesAssumption DEF Wrap
<1>6. length = end - begin /\ mark = position - begin
  BY <1>4, <1>5
<1> HIDE DEF length, mark
<1>7. stop = end
  <2>1. begin + length = end
    BY <1>1, <1>2, <1>6
  <2> DEFINE ends == {end, size}
  <2>2. ends \in SUBSET Nat /\ ends # {} /\ end \in ends /\ size \in ends
          /\ \A k \in ends : k = end \/ k = size
    BY <1>1, <1>2
  <2> HIDE DEF ends
  <2>3. Min(ends) \in ends /\ \A k \in ends : Min(ends) <= k
    BY <2>2, MinOfNaturals
  <2>4. Min(ends) = end
    <3>1. (Min(ends) = end \/ Min(ends) = size) /\ Min(ends) <= end
      BY <2>2, <2>3
    <3>2. end < size
      BY <1>1, <1>2
    <3>3. Min(ends) # size
      BY <1>1, <1>2, <3>1, <3>2
    <3> QED
      BY <3>1, <3>3
  <2> QED
    BY <2>1, <2>4 DEF ends
<1>8. Len(line) = end - begin
  <2>1. begin \in 0 .. Len(text) /\ end \in begin .. Len(text)
    BY <1>1, <1>2 DEF size
  <2>2. Len(Slice(text, begin, end)) = end - begin
    BY <2>1, SliceChars
  <2> QED
    BY <1>7, <2>2
<1>9. mark >= Len(line) <=> position = size - 1
  BY <1>1, <1>2, <1>6, <1>8
<1>10. ~(position >= size)
  BY <1>2
<1>11. line = Slice(text, begin, end)
  BY <1>7
<1> HIDE DEF line
<1>12. getHightlightedPosition(text, position)
         = IF position = size - 1 THEN OutOfRange
           ELSE Line(Slice(text, begin, end), position - begin)
  BY <1>3, <1>6, <1>9, <1>10, <1>11
<1> QED
  BY <1>12 DEF size, begin, end

\* Behind the text nothing is shown.
LEMMA NothingBehindText ==
  ASSUME NEW text, Len(text) \in Nat
  PROVE  getHightlightedPosition(text, Len(text)) = OutOfRange
BY DEF getHightlightedPosition

-----------------------------------------------------------------------------
(* Where tokens begin. *)

\* The tokens ascend, none begins at the end of a line, and only the Eof token
\* lies behind the text.
StartsInv ==
  /\ \A k \in 1 .. Len(tokens) :
       IF status = "done" /\ k = Len(tokens) THEN tokens[k].position = Size
       ELSE /\ tokens[k].position \in 0 .. lexemePos - 1
            /\ At(tokens[k].position) \notin Newline
  /\ \A k, l \in 1 .. Len(tokens) : k < l => tokens[k].position < tokens[l].position

\* A step that takes the text from lexemePos to q as a token.
LEMMA TakeStarts ==
  ASSUME StartsInv, CutInv, Size \in Nat, tokens \in Seq(TokenRecord),
         status = "running", status' = "running", in' = in,
         NEW token, tokens' = Append(tokens, token), token.position = lexemePos,
         lexemePos < Size, CharAt(in, lexemePos) \notin Newline,
         NEW q \in Int, lexemePos < q, lexemePos' = q
  PROVE  StartsInv'
<1> DEFINE count == Len(tokens)
           R == TokenRecord \cup {token}
<1>1. /\ Len(tokens') = count + 1 /\ count \in Nat
      /\ \A k \in 1 .. count : tokens'[k] = tokens[k]
      /\ tokens'[count + 1] = token
  <2>1. tokens \in Seq(R) /\ token \in R
    BY SeqMonotonic
  <2> HIDE DEF R
  <2> QED
    BY <2>1, AppendProperties
<1>2. \A k \in 1 .. count : /\ tokens[k].position \in 0 .. lexemePos - 1
                           /\ At(tokens[k].position) \notin Newline
  BY DEF StartsInv
<1>3. \A k, l \in 1 .. count : k < l => tokens[k].position < tokens[l].position
  BY DEF StartsInv
<1>4. lexemePos \in 0 .. Size
  BY DEF CutInv
<1> HIDE DEF count
<1> DEFINE p == lexemePos
<1>5. ASSUME NEW k \in 1 .. count + 1
      PROVE  /\ tokens'[k].position \in 0 .. p
             /\ CharAt(in, tokens'[k].position) \notin Newline
  <2>1. k \in 1 .. count \/ k = count + 1
    BY <1>1
  <2>2. CASE k \in 1 .. count
    BY <1>1, <1>2, <1>4, <2>2 DEF At
  <2>3. CASE k = count + 1
    BY <1>1, <1>4, <2>3
  <2> QED
    BY <2>1, <2>2, <2>3
<1>6. ASSUME NEW k \in 1 .. count + 1, NEW l \in 1 .. count + 1, k < l
      PROVE  tokens'[k].position < tokens'[l].position
  <2>1. k \in 1 .. count /\ (l \in 1 .. count \/ l = count + 1)
    BY <1>1, <1>6
  <2>2. CASE l \in 1 .. count
    BY <1>1, <1>3, <1>6, <2>1, <2>2
  <2>3. CASE l = count + 1
    BY <1>1, <1>2, <1>4, <2>1, <2>3
  <2> QED
    BY <2>1, <2>2, <2>3
<1>7. ASSUME NEW k \in 1 .. count + 1
      PROVE  /\ tokens'[k].position \in 0 .. lexemePos' - 1
             /\ CharAt(in', tokens'[k].position) \notin Newline
  <2>1. \A r \in 0 .. p : r \in 0 .. q - 1
    BY <1>4
  <2>2. tokens'[k].position \in 0 .. q - 1
    BY <1>5, <2>1
  <2> QED
    BY <1>5, <2>2
<1> QED
  BY <1>1, <1>6, <1>7 DEF StartsInv, At

\* A step that goes on to q.
LEMMA DropStarts ==
  ASSUME StartsInv, CutInv, Size \in Nat, status # "done", status' # "done",
         UNCHANGED <<in, tokens>>, NEW q \in Int, lexemePos <= q, lexemePos' = q
  PROVE  StartsInv'
<1>1. \A k \in 1 .. Len(tokens) : /\ tokens[k].position \in 0 .. lexemePos - 1
                                 /\ At(tokens[k].position) \notin Newline
  BY DEF StartsInv
<1>2. lexemePos \in Int
  BY DEF CutInv
<1> DEFINE p == lexemePos
<1>3. \A r \in 0 .. p - 1 : r \in 0 .. q - 1
  BY <1>2
<1> QED
  BY <1>1, <1>3 DEF StartsInv, At

\* The first characters of words, numbers and symbols are no newlines.
LEMMA FirstChars ==
  /\ \A ch \in Alpha \cup Digit \cup Special : ch \notin Newline
  /\ \A s \in DOMAIN twoCharsTokenIds : s[1] \in Special
<1>1. Alpha \cap Newline = {} /\ Digit \cap Newline = {} /\ Special \cap Newline = {}
  BY DEF Alpha, Digit, Special, Newline
<1>2. \A s \in DOMAIN twoCharsTokenIds : s[1] \in Special
  <2>1. \A s \in DOMAIN twoCharsTokenIds : s[1] = "=" \/ s[1] = ">" \/ s[1] = "<" \/ s[1] = "!"
    BY DEF twoCharsTokenIds, MapOf
  <2> QED
    BY <2>1 DEF Special
<1> QED
  BY <1>1, <1>2

\* The Eof token is put behind the others.
LEMMA LastStarts ==
  ASSUME StartsInv, CutInv, Size \in Nat, tokens \in Seq(TokenRecord),
         status = "running", status' = "done", in' = in, Size' = Size,
         NEW token, tokens' = Append(tokens, token), token.position = Size,
         lexemePos = Size, lexemePos' = lexemePos
  PROVE  StartsInv'
<1> DEFINE count == Len(tokens)
           R == TokenRecord \cup {token}
<1>1. /\ Len(tokens') = count + 1 /\ count \in Nat
      /\ \A k \in 1 .. count : tokens'[k] = tokens[k]
      /\ tokens'[count + 1] = token
  <2>1. tokens \in Seq(R) /\ token \in R
    BY SeqMonotonic
  <2> HIDE DEF R
  <2> QED
    BY <2>1, AppendProperties
<1>2. \A k \in 1 .. count : /\ tokens[k].position \in 0 .. Size - 1
                           /\ CharAt(in, tokens[k].position) \notin Newline
  BY DEF StartsInv, At
<1>3. \A k, l \in 1 .. count : k < l => tokens[k].position < tokens[l].position
  BY DEF StartsInv
<1> HIDE DEF count
<1>4. \A k \in 1 .. count + 1 : k \in 1 .. count \/ k = count + 1
  BY <1>1
<1>5. ASSUME NEW k \in 1 .. count + 1, NEW l \in 1 .. count + 1, k < l
      PROVE  tokens'[k].position < tokens'[l].position
  <2>1. k \in 1 .. count /\ (l \in 1 .. count \/ l = count + 1)
    BY <1>1, <1>5
  <2>2. CASE l \in 1 .. count
    BY <1>1, <1>3, <1>5, <2>1, <2>2
  <2>3. CASE l = count + 1
    BY <1>1, <1>2, <2>1, <2>3
  <2> QED
    BY <2>1, <2>2, <2>3
<1>6. ASSUME NEW k \in 1 .. count + 1
      PROVE  IF k = count + 1 THEN tokens'[k].position = Size
             ELSE /\ tokens'[k].position \in 0 .. Size - 1
                  /\ CharAt(in, tokens'[k].position) \notin Newline
  BY <1>1, <1>2, <1>4
<1> QED
  BY <1>1, <1>5, <1>6 DEF StartsInv, At

LEMMA StepStarts ==
  ASSUME IInv, CutInv, StartsInv, [Lex!Next]_(Lex!vars)
  PROVE  StartsInv'
<1> USE SameClasses, SameText, SameTokens
<1>1. /\ in \in Seq(STRING) /\ Size \in Nat /\ Size = Len(in)
      /\ tokens \in Seq(TokenRecord)
      /\ lexemePos \in 0 .. Size
  BY SourceType DEF IInv, TypeOK, Size, CutInv
<1>2. lexemePos \in Int /\ lexemePos + 1 \in Int /\ lexemePos + 2 \in Int
        /\ lexemePos < lexemePos + 1 /\ lexemePos < lexemePos + 2
  BY <1>1
<1>3. CASE Lex!Blank
  <2>1. /\ status = "running" /\ lexemePos' = lexemePos + 1
        /\ UNCHANGED <<in, tokens, status>>
    BY <1>3 DEF Lex!Blank, Lex!Drop
  <2>2. lexemePos <= lexemePos + 1
    BY <1>1
  <2> QED
    BY <1>1, <1>2, <2>1, <2>2, DropStarts
<1>4. CASE Lex!Comment
  <2>1. /\ lexemePos + 1 < Size /\ status = "running"
        /\ lexemePos' = FindFrom(in, lexemePos + 2, Newline)
        /\ UNCHANGED <<in, tokens, status>>
    BY <1>1, <1>4 DEF Lex!Comment, Lex!OpensComment, Lex!Drop
  <2>2. lexemePos + 2 \in 0 .. Len(in)
    BY <1>1, <2>1
  <2>3. FindFrom(in, lexemePos + 2, Newline) \in lexemePos + 2 .. Len(in)
    BY <1>1, <2>2, FindFromBounds
  <2>4. FindFrom(in, lexemePos + 2, Newline) \in Int
          /\ lexemePos <= FindFrom(in, lexemePos + 2, Newline)
    BY <1>1, <2>3
  <2> QED
    BY <1>1, <2>1, <2>4, DropStarts
<1>5. CASE Lex!Word
  <2>1. PICK q \in lexemePos + 1 .. Size :
          /\ CharAt(in, lexemePos) \in Alpha
          /\ Lex!Take(q, getKeywordOrIdentifierTokenFromString(
                           Slice(in, lexemePos, q), lexemePos))
    BY <1>1, <1>5 DEF Lex!Word
  <2> DEFINE token == getKeywordOrIdentifierTokenFromString(
                        Slice(in, lexemePos, q), lexemePos)
  <2>2. token.position = lexemePos
    BY DEF getKeywordOrIdentifierTokenFromString, Token
  <2>3. /\ tokens' = Append(tokens, token) /\ lexemePos' = q
        /\ in' = in /\ status = "running" /\ status' = "running"
    BY <2>1 DEF Lex!Take
  <2>4. q \in Int /\ lexemePos < q /\ lexemePos < Size
    BY <1>1
  <2>5. CharAt(in, lexemePos) \notin Newline
    BY <2>1, FirstChars
  <2> HIDE DEF token
  <2> QED
    BY <1>1, <2>2, <2>3, <2>4, <2>5, TakeStarts
<1>6. CASE Lex!Number
  <2>1. PICK q \in lexemePos + 1 .. Size :
          /\ CharAt(in, lexemePos) \in Digit
          /\ Lex!Take(q, numberToken(Slice(in, lexemePos, q), lexemePos))
    BY <1>1, <1>6 DEF Lex!Number
  <2> DEFINE token == numberToken(Slice(in, lexemePos, q), lexemePos)
  <2>2. token.position = lexemePos
    BY DEF numberToken, Token
  <2>3. /\ tokens' = Append(tokens, token) /\ lexemePos' = q
        /\ in' = in /\ status = "running" /\ status' = "running"
    BY <2>1 DEF Lex!Take
  <2>4. q \in Int /\ lexemePos < q /\ lexemePos < Size
    BY <1>1
  <2>5. CharAt(in, lexemePos) \notin Newline
    BY <2>1, FirstChars
  <2> HIDE DEF token
  <2> QED
    BY <1>1, <2>2, <2>3, <2>4, <2>5, TakeStarts
<1>7. CASE Lex!TwoChars
  <2> DEFINE text == Slice(in, lexemePos, lexemePos + 2)
             token == Token(twoCharsTokenIds[text], <<>>, lexemePos)
  <2>1. /\ lexemePos + 1 < Size /\ text \in DOMAIN twoCharsTokenIds
        /\ tokens' = Append(tokens, token) /\ lexemePos' = lexemePos + 2
        /\ in' = in /\ status = "running" /\ status' = "running"
    BY <1>1, <1>7 DEF Lex!TwoChars, Lex!OpensTwoChars, Lex!Take
  <2>2. token.position = lexemePos
    BY DEF Token
  <2>3. CharAt(in, lexemePos) \notin Newline
    <3>1. lexemePos \in 0 .. Len(in) - 2
      BY <1>1, <2>1
    <3>2. text = <<in[lexemePos + 1], in[lexemePos + 2]>>
      BY <1>1, <3>1, SliceTwo
    <3>3. text[1] = CharAt(in, lexemePos)
      BY <3>2 DEF CharAt
    <3> HIDE DEF text
    <3> QED
      BY <2>1, <3>3, FirstChars
  <2>4. lexemePos < Size
    BY <1>1, <2>1
  <2> HIDE DEF token
  <2> QED
    BY <1>1, <1>2, <2>1, <2>2, <2>3, <2>4, TakeStarts
<1>8. CASE Lex!SingleChar
  <2> DEFINE ch == CharAt(in, lexemePos)
             token == Token(singleCharTokenIds[ch], <<>>, lexemePos)
  <2>1. /\ lexemePos < Size /\ ch \in Special
        /\ tokens' = Append(tokens, token) /\ lexemePos' = lexemePos + 1
        /\ in' = in /\ status = "running" /\ status' = "running"
    BY <1>1, <1>8 DEF Lex!SingleChar, Lex!Take
  <2>2. token.position = lexemePos
    BY DEF Token
  <2>3. CharAt(in, lexemePos) \notin Newline
    BY <2>1, FirstChars
  <2> HIDE DEF token
  <2> QED
    BY <1>1, <1>2, <2>1, <2>2, <2>3, TakeStarts
<1>9. CASE Lex!Accept
  <2> DEFINE token == Token("Eof", <<>>, Size)
  <2>1. /\ lexemePos = Size /\ tokens' = Append(tokens, token) /\ status = "running"
        /\ lexemePos' = lexemePos /\ in' = in /\ status' = "done" /\ Size' = Size
    BY <1>1, <1>9 DEF Lex!Accept, Size
  <2>2. token.position = Size
    BY DEF Token
  <2> HIDE DEF token
  <2> QED
    BY <1>1, <2>1, <2>2, LastStarts
<1>10. CASE Lex!Reject
  <2>1. /\ status = "running" /\ status' = "fatal"
        /\ UNCHANGED <<in, tokens>> /\ lexemePos' = lexemePos
    BY <1>10 DEF Lex!Reject
  <2>2. lexemePos <= lexemePos
    BY <1>2
  <2> QED
    BY <1>1, <1>2, <2>1, <2>2, DropStarts
<1>11. CASE UNCHANGED Lex!vars
  BY <1>11 DEF Lex!vars, StartsInv, Size, At
<1> QED
  BY <1>3, <1>4, <1>5, <1>6, <1>7, <1>8, <1>9, <1>10, <1>11 DEF Lex!Next

LEMMA StartsAlways == Spec => []StartsInv
<1>1. Init => StartsInv
  BY DEF Init, StartsInv
<1>2. IInv /\ CutInv /\ StartsInv /\ [Next]_vars => StartsInv'
  BY NextLex, StepStarts
<1> QED
  BY <1>1, <1>2, CutAlways, Invariance, PTL DEF Spec

-----------------------------------------------------------------------------
(* What is shown. *)

Visible(position) == position \in 0 .. Size - 1 /\ At(position) # "\n"

\* A message is about a token of a finished list, and shows its position.
ShownInv ==
  shown # NotShown =>
    /\ status = "done"
    /\ shown.token \in DOMAIN tokens
    /\ shown.result = getHightlightedPosition(in, tokens[shown.token].position)

LEMMA ShownStep ==
  ASSUME ShownInv, [DiagnosticsNext]_<<in, i, state, identifierStr, tokens, status, shown>>
  PROVE  ShownInv'
<1>1. CASE Next /\ UNCHANGED shown
  <2>1. status = "running"
    BY <1>1 DEF Next, UnknownChar, BeginSkip, BeginComment, BeginTwoChars,
         BeginSingleChar, BeginAlpha, BeginDigit, BeginLexeme, BeginOther,
         ExtendIdentifier, ExtendNumber, Extend, EndIdentifier, EndNumber,
         CommentStep, Finish, Iterate
  <2> QED
    BY <1>1, <2>1 DEF ShownInv
<1>2. CASE ShowToken
  BY <1>2 DEF ShowToken, ShownInv, vars
<1>3. CASE UNCHANGED <<in, i, state, identifierStr, tokens, status, shown>>
  BY <1>3 DEF ShownInv
<1> QED
  BY <1>1, <1>2, <1>3 DEF DiagnosticsNext

\* What is known whenever a message shows a place.
PlacesInv == IInv /\ CutInv /\ StartsInv /\ ShownInv

LEMMA PlacesAlways == DiagnosticsSpec => []PlacesInv
<1>1. DiagnosticsInit => Init /\ ShownInv
  BY DEF DiagnosticsInit, ShownInv
<1>2. [DiagnosticsNext]_<<in, i, state, identifierStr, tokens, status, shown>> => [Next]_vars
  BY DEF DiagnosticsNext, ShowToken, vars
<1>3. ShownInv /\ [DiagnosticsNext]_<<in, i, state, identifierStr, tokens, status, shown>>
        => ShownInv'
  BY ShownStep
<1>4. DiagnosticsSpec => Spec
  BY <1>1, <1>2, PTL DEF DiagnosticsSpec, Spec
<1>5. DiagnosticsSpec => []ShownInv
  BY <1>1, <1>3, PTL DEF DiagnosticsSpec
<1> QED
  BY <1>4, <1>5, Invariance, CutAlways, StartsAlways, PTL DEF PlacesInv

\* A position where something is shown.
LEMMA TokenShown ==
  ASSUME PlacesInv, NEW k \in 1 .. Len(tokens), status = "done",
         NEW result, result = getHightlightedPosition(in, tokens[k].position)
  PROVE  LET position == tokens[k].position
             begin == lineBegin(in, position)
             end == lineEnd(in, position)
         IN  /\ position \in 0 .. Size
             /\ position = Size <=> k = Len(tokens)
             /\ result.ok <=> position < Size - 1
             /\ result.ok =>
                  /\ position < Size /\ At(position) # "\n"
                  /\ result.line = Slice(in, begin, end)
                  /\ result.mark = position - begin
<1> DEFINE position == tokens[k].position
           begin == lineBegin(in, position)
           end == lineEnd(in, position)
<1>1. /\ in \in Seq(STRING) /\ Size \in Nat /\ Size = Len(in) /\ Len(in) < SizeValues
      /\ lexemePos \in 0 .. Size
  BY SourceType, TextsAssumption DEF PlacesInv, IInv, TypeOK, Size, CutInv
<1>2. IF k = Len(tokens) THEN position = Size
      ELSE position \in 0 .. lexemePos - 1 /\ At(position) \notin Newline
  BY DEF PlacesInv, StartsInv
<1>3. result = getHightlightedPosition(in, position)
  OBVIOUS
<1> HIDE DEF position
<1>4. CASE k = Len(tokens)
  <2>1. position = Size
    BY <1>2, <1>4
  <2>2. result = OutOfRange
    BY <1>1, <1>3, <2>1, NothingBehindText
  <2>3. ~result.ok
    BY <2>2 DEF OutOfRange
  <2> QED
    BY <1>1, <1>4, <2>1, <2>3 DEF position
<1>5. CASE k # Len(tokens)
  <2>1. position \in 0 .. Size - 1 /\ At(position) # "\n"
    BY <1>1, <1>2, <1>5 DEF Newline
  <2>2. result = IF position = Len(in) - 1 THEN OutOfRange
                 ELSE Line(Slice(in, begin, end), position - begin)
    BY <1>1, <1>3, <2>1, PlaceShown DEF At
  <2>3. CASE position = Size - 1
    <3>1. ~result.ok
      BY <1>1, <2>2, <2>3 DEF OutOfRange
    <3>2. ~(position < Size - 1) /\ position # Size /\ position \in 0 .. Size
      BY <1>1, <2>1, <2>3
    <3> QED
      BY <1>5, <3>1, <3>2 DEF position
  <2>4. CASE position # Size - 1
    <3>1. result.ok /\ result.line = Slice(in, begin, end) /\ result.mark = position - begin
      BY <1>1, <2>2, <2>4 DEF Line
    <3>2. position < Size - 1 /\ position < Size /\ position # Size /\ position \in 0 .. Size
      BY <1>1, <2>1, <2>4
    <3> QED
      BY <1>5, <2>1, <3>1, <3>2 DEF position
  <2> QED
    BY <2>3, <2>4
<1> QED
  BY <1>4, <1>5

\* The mark of an error message stands below the token, and its line is the one
\* of the text, cut off at its newline or before the last character of the text
\* (getHightlightedPosition() in source.cpp).
THEOREM MarkIsBelow == DiagnosticsSpec => []MarkBelowToken
<1>1. PlacesInv => MarkBelowToken
  <2> SUFFICES ASSUME PlacesInv, shown.result.ok PROVE MarkBelowToken
    BY DEF MarkBelowToken
  <2> DEFINE k == shown.token
             position == tokens[k].position
             line == shown.result.line
             begin == lineBegin(in, position)
             end == lineEnd(in, position)
  <2>1. shown # NotShown
    BY DEF NotShown, OutOfRange
  <2>2. /\ status = "done" /\ k \in 1 .. Len(tokens)
        /\ shown.result = getHightlightedPosition(in, position)
    <3>1. tokens \in Seq(TokenRecord)
      BY DEF PlacesInv, IInv, TypeOK
    <3>2. DOMAIN tokens = 1 .. Len(tokens)
      BY <3>1, LenProperties
    <3> QED
      BY <2>1, <3>2 DEF PlacesInv, ShownInv
  <2>3. /\ position \in 0 .. Size /\ position < Size /\ At(position) # "\n"
        /\ line = Slice(in, begin, end) /\ shown.result.mark = position - begin
    BY <2>2, TokenShown
  <2>4. in \in Seq(STRING) /\ Size \in Nat /\ Size = Len(in)
    BY SourceType DEF PlacesInv, IInv, TypeOK, Size
  <2> HIDE DEF position, line
  <2>5. position \in 0 .. Len(in) - 1 /\ CharAt(in, position) # "\n"
    BY <2>3, <2>4 DEF At
  <2>6. /\ begin \in 0 .. position
        /\ begin = 0 \/ CharAt(in, begin - 1) = "\n"
        /\ end \in position .. Len(in) - 1
        /\ end = Len(in) - 1 \/ CharAt(in, end) = "\n"
        /\ \A m \in begin .. end - 1 : CharAt(in, m) # "\n"
    BY <2>4, <2>5, LineBounds
  <2> HIDE DEF begin, end
  <2>7. begin \in 0 .. Len(in) /\ end \in begin .. Len(in)
    BY <2>4, <2>5, <2>6
  <2>8. /\ Len(line) = end - begin /\ DOMAIN line = 1 .. end - begin
        /\ \A m \in 1 .. end - begin : line[m] = CharAt(in, begin + m - 1)
    <3> DEFINE part == Slice(in, begin, end)
    <3>1. /\ Len(part) = end - begin /\ DOMAIN part = 1 .. end - begin
          /\ \A m \in 1 .. end - begin : part[m] = CharAt(in, begin + m - 1)
      BY <2>4, <2>7, SliceChars
    <3>2. line = part
      BY <2>3
    <3> HIDE DEF part
    <3> QED
      BY <3>1, <3>2
  <2>9. position - shown.result.mark = begin /\ begin + Len(line) = end
    BY <2>3, <2>4, <2>6, <2>8
  <2>10. \A m \in DOMAIN line : line[m] # "\n"
    <3> SUFFICES ASSUME NEW m \in 1 .. end - begin PROVE line[m] # "\n"
      BY <2>8
    <3>1. begin + m - 1 \in begin .. end - 1
      BY <2>7
    <3> QED
      BY <2>6, <2>8, <3>1
  <2> QED
    BY <2>3, <2>4, <2>6, <2>9, <2>10 DEF MarkBelowToken, At, position, line
<1> QED
  BY <1>1, PlacesAlways, PTL

\* The exception that ends the program in place of a message comes for exactly
\* the tokens for which the model of the parser has it: the Eof token, and one
\* that is the last character of the text (source.cpp:10, 23).
THEOREM ParserIsRight == DiagnosticsSpec => []PlacesShownAsParserSays
<1>1. PlacesInv => PlacesShownAsParserSays
  <2> SUFFICES ASSUME PlacesInv, shown # NotShown
               PROVE  shown.result.ok <=> P!Highlightable(shown.token - 1)
    BY DEF PlacesShownAsParserSays
  <2> DEFINE k == shown.token
             count == Len(tokens)
  <2>1. tokens \in Seq(TokenRecord) /\ DOMAIN tokens = 1 .. count /\ count \in Nat
    BY LenProperties DEF PlacesInv, IInv, TypeOK
  <2>2. /\ status = "done" /\ k \in 1 .. count
        /\ shown.result = getHightlightedPosition(in, tokens[k].position)
    BY <2>1 DEF PlacesInv, ShownInv
  <2>3. /\ tokens[k].position \in 0 .. Size
        /\ tokens[k].position = Size <=> k = count
        /\ shown.result.ok <=> tokens[k].position < Size - 1
    BY <2>2, TokenShown
  <2>4. Size \in Nat /\ lexemePos \in 0 .. Size
    BY SourceType DEF PlacesInv, IInv, TypeOK, Size, CutInv
  <2>5. P!Size = count
    <3> DEFINE ids == [l \in DOMAIN tokens |-> tokens[l].id]
    <3>1. ids \in Seq({tokens[l].id : l \in DOMAIN tokens}) /\ DOMAIN ids = 1 .. count
      BY <2>1, SeqDef
    <3>2. Len(ids) = count
      BY <2>1, <3>1, LenProperties
    <3> QED
      BY <3>2 DEF P!Size
  <2>6. lastTokenAtEnd <=> count > 1 /\ tokens[count - 1].position = Size - 1
    BY DEF lastTokenAtEnd
  <2> HIDE DEF k, count
  <2>7. P!Highlightable(k - 1)
          <=> k # count /\ ~(lastTokenAtEnd /\ k = count - 1)
    <3>1. k - 1 = count - 1 <=> k = count
      BY <2>1, <2>2
    <3>2. k - 1 = count - 2 <=> k = count - 1
      BY <2>1, <2>2
    <3> QED
      BY <2>5, <3>1, <3>2 DEF P!Highlightable
  <2>8. CASE k = count
    <3>1. ~(tokens[k].position < Size - 1)
      BY <2>3, <2>4, <2>8 DEF k
    <3>2. ~shown.result.ok
      BY <2>3, <3>1 DEF k
    <3> QED
      BY <2>7, <2>8, <3>2 DEF k
  <2>9. CASE k = count - 1
    <3>1. k # count /\ count > 1
      BY <2>1, <2>2, <2>9
    <3>2. tokens[k].position < Size - 1 <=> tokens[k].position # Size - 1
      BY <2>3, <2>4, <3>1
    <3> QED
      BY <2>3, <2>6, <2>7, <2>9, <3>1, <3>2 DEF k
  <2>10. CASE k # count /\ k # count - 1
    <3>1. count - 1 \in 1 .. count /\ count - 1 # count /\ k < count - 1
      BY <2>1, <2>2, <2>10
    <3>2. tokens[k].position < tokens[count - 1].position
      BY <2>2, <3>1 DEF PlacesInv, StartsInv, count
    <3>3. tokens[count - 1].position \in 0 .. lexemePos - 1
      BY <2>2, <3>1 DEF PlacesInv, StartsInv, count
    <3>4. tokens[k].position < Size - 1
      BY <2>3, <2>4, <3>2, <3>3
    <3> QED
      BY <2>3, <2>7, <2>10, <3>4 DEF k
  <2> QED
    BY <2>7, <2>8, <2>9, <2>10 DEF k
<1> QED
  BY <1>1, PlacesAlways, PTL

=============================================================================
