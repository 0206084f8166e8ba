------------------------------- MODULE Lexemes -------------------------------
(***************************************************************************)
(* What the tokenizer promises: the source is cut from left to right into  *)
(* blanks, comments, words, numbers and symbols, each step taking the      *)
(* longest piece there is, and every word, number and symbol becomes one   *)
(* token.  The text is accepted when all of its characters are known and   *)
(* rejected otherwise.  There is no automaton, no look-ahead and no        *)
(* re-reading here: the module Tokenizer implements it with those.         *)
(***************************************************************************)
EXTENDS Text, Tokens

CONSTANT Sources

VARIABLES
  in,       \* the source text
  pos,      \* the position where the next piece starts
  tokens,   \* the tokens of the pieces taken so far
  status    \* "running", "done" or "fatal"

vars == <<in, pos, tokens, status>>

Init ==
  /\ in \in Sources
  /\ pos = 0
  /\ tokens = <<>>
  /\ status = "running"

\* [pos, q) is a run of characters of a class that cannot be extended.
LongestRun(q, class) ==
  /\ \A k \in pos .. q - 1 : CharAt(in, k) \in class
  /\ q = Len(in) \/ CharAt(in, q) \notin class

OpensComment ==
  /\ pos + 1 < Len(in)
  /\ CharAt(in, pos) \in Special
  /\ CharAt(in, pos + 1) = "/"

OpensTwoChars ==
  /\ pos + 1 < Len(in)
  /\ Slice(in, pos, pos + 2) \in DOMAIN twoCharsTokenIds

Drop(q) ==
  /\ status = "running"
  /\ pos' = q
  /\ UNCHANGED <<in, tokens, status>>

Take(q, token) ==
  /\ status = "running"
  /\ pos' = q
  /\ tokens' = Append(tokens, token)
  /\ UNCHANGED <<in, status>>

Blank ==
  /\ pos < Len(in)
  /\ CharAt(in, pos) \in Skip \cup Dot
  /\ Drop(pos + 1)

\* A comment runs up to the end of its line.
Comment == OpensComment /\ Drop(FindFrom(in, pos + 2, Newline))

Word ==
  \E q \in pos + 1 .. Len(in) :
    /\ CharAt(in, pos) \in Alpha
    /\ LongestRun(q, AlphaDigit)
    /\ Take(q, getKeywordOrIdentifierTokenFromString(Slice(in, pos, q), pos))

Number ==
  \E q \in pos + 1 .. Len(in) :
    /\ CharAt(in, pos) \in Digit
    /\ LongestRun(q, Digit \cup Dot)
    /\ Take(q, numberToken(Slice(in, pos, q), pos))

TwoChars ==
  /\ ~OpensComment
  /\ OpensTwoChars
  /\ Take(pos + 2,
          Token(twoCharsTokenIds[Slice(in, pos, pos + 2)], <<>>, pos))

SingleChar ==
  /\ pos < Len(in)
  /\ CharAt(in, pos) \in Special
  /\ ~OpensComment
  /\ ~OpensTwoChars
  /\ Take(pos + 1, Token(singleCharTokenIds[CharAt(in, pos)], <<>>, pos))

Known(k) == CharAt(in, k) \in KnownChars

Accept ==
  /\ pos = Len(in)
  /\ status = "running"
  /\ \A k \in 0 .. Len(in) - 1 : Known(k)
  /\ tokens' = Append(tokens, Token("Eof", <<>>, Len(in)))
  /\ status' = "done"
  /\ UNCHANGED <<in, pos>>

Reject ==
  /\ status = "running"
  /\ \E k \in 0 .. Len(in) - 1 : ~Known(k)
  /\ status' = "fatal"
  /\ UNCHANGED <<in, pos, tokens>>

Next ==
  \/ Blank \/ Comment \/ Word \/ Number \/ TwoChars \/ SingleChar
  \/ Accept \/ Reject

Spec == Init /\ [][Next]_vars
=============================================================================
