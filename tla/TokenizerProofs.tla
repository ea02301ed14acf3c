---------------------------- MODULE TokenizerProofs ----------------------------
(***************************************************************************)
(* Types and places of the tokens, for every text and every set of control *)
(* characters.                                                             *)
(***************************************************************************)
EXTENDS Tokenizer, Integers, SequenceTheorems, WellFoundedInduction, TLAPS

-----------------------------------------------------------------------------
(* Tokens as sequences, whatever state they are of *)

\* Each token stands where its first character does.
Placed(seen, txt) ==
    \A i \in 1 .. Len(seen) :
        /\ seen[i].line \in 1 .. Len(txt)
        /\ seen[i].column \in 1 .. Len(Content(txt[seen[i].line]))
        /\ seen[i].text # <<>>
        /\ Content(txt[seen[i].line])[seen[i].column] = seen[i].text[1]

Ascending(seen) == \A i \in 1 .. Len(seen) - 1 : Before(seen[i], seen[i + 1])

\* All tokens begin before the given place.
Passed(seen, ln, col) ==
    \A i \in 1 .. Len(seen) :
        seen[i].line < ln \/ (seen[i].line = ln /\ seen[i].column < col)

LEMMA TokenFields ==
  ASSUME NEW seen \in Seq(TokenType), NEW i \in 1 .. Len(seen)
  PROVE  seen[i].line \in Nat /\ seen[i].column \in Nat
  <1>1. seen[i] \in TokenType
    BY ElementOfSeq
  <1> QED
    BY <1>1 DEF TokenType

\* What the reader has passed stays as it is when it goes on.
LEMMA PassedMonotone ==
  ASSUME NEW seen \in Seq(TokenType), NEW ln \in Nat, NEW col \in Nat,
         NEW ln2 \in Nat, NEW col2 \in Nat,
         ln < ln2 \/ (ln = ln2 /\ col <= col2), Passed(seen, ln, col)
  PROVE  Passed(seen, ln2, col2)
  <1> SUFFICES ASSUME NEW i \in 1 .. Len(seen)
               PROVE  \/ seen[i].line < ln2
                      \/ seen[i].line = ln2 /\ seen[i].column < col2
    BY DEF Passed
  <1>1. seen[i].line \in Nat /\ seen[i].column \in Nat
    BY TokenFields
  <1> QED
    BY <1>1 DEF Passed

\* A further token, at a place that the others are before.
LEMMA AppendPlaced ==
  ASSUME NEW seen \in Seq(TokenType), NEW token \in TokenType, NEW txt,
         Placed(seen, txt), Ascending(seen), Passed(seen, token.line, token.column),
         Placed(<<token>>, txt)
  PROVE  /\ Placed(Append(seen, token), txt)
         /\ Ascending(Append(seen, token))
         /\ Passed(Append(seen, token), token.line, token.column + 1)
  <1> DEFINE more == Append(seen, token)
  <1>1. /\ Len(more) = Len(seen) + 1
        /\ more[Len(seen) + 1] = token
        /\ \A i \in 1 .. Len(seen) : more[i] = seen[i]
        /\ Len(seen) \in Nat
    BY AppendProperties, LenProperties
  <1>2. token.line \in Nat /\ token.column \in Nat
    BY DEF TokenType
  <1>3. <<token>>[1] = token /\ Len(<<token>>) = 1
    OBVIOUS
  <1>4. Placed(more, txt)
    BY <1>1, <1>3 DEF Placed
  <1>5. Ascending(more)
    <2> SUFFICES ASSUME NEW i \in 1 .. Len(more) - 1 PROVE Before(more[i], more[i + 1])
      BY DEF Ascending
    <2>1. CASE i = Len(seen)
      BY <1>1, <2>1 DEF Passed, Before
    <2>2. CASE i # Len(seen)
      <3>1. i \in 1 .. Len(seen) - 1 /\ i \in 1 .. Len(seen) /\ i + 1 \in 1 .. Len(seen)
        BY <1>1, <2>2
      <3> QED
        BY <1>1, <3>1 DEF Ascending
    <2> QED
      BY <2>1, <2>2
  <1>6. Passed(more, token.line, token.column + 1)
    <2> SUFFICES ASSUME NEW i \in 1 .. Len(more)
                 PROVE  \/ more[i].line < token.line
                        \/ more[i].line = token.line /\ more[i].column < token.column + 1
      BY DEF Passed
    <2>1. CASE i = Len(seen) + 1
      BY <1>1, <1>2, <2>1
    <2>2. CASE i # Len(seen) + 1
      <3>1. i \in 1 .. Len(seen)
        BY <1>1, <2>2
      <3>2. seen[i].line \in Nat /\ seen[i].column \in Nat
        BY <3>1, TokenFields
      <3> QED
        BY <1>1, <1>2, <3>1, <3>2 DEF Passed
    <2> QED
      BY <2>1, <2>2
  <1> QED
    BY <1>4, <1>5, <1>6

\* A last token whose text grows stays where it is.
LEMMA GrowPlaced ==
  ASSUME NEW tokens0 \in Seq(TokenType), NEW last \in TokenType, NEW grown \in TokenType,
         grown.line = last.line, grown.column = last.column,
         last.text # <<>> => grown.text # <<>> /\ grown.text[1] = last.text[1],
         NEW txt, NEW ln, NEW col,
         Placed(Append(tokens0, last), txt), Ascending(Append(tokens0, last)),
         Passed(Append(tokens0, last), ln, col)
  PROVE  /\ Placed(Append(tokens0, grown), txt)
         /\ Ascending(Append(tokens0, grown))
         /\ Passed(Append(tokens0, grown), ln, col)
  <1> DEFINE old == Append(tokens0, last)
             new == Append(tokens0, grown)
  <1>1. /\ Len(old) = Len(new)
        /\ \A i \in 1 .. Len(new) : /\ new[i].line = old[i].line
                                    /\ new[i].column = old[i].column
                                    /\ old[i].text # <<>> =>
                                         new[i].text # <<>> /\ new[i].text[1] = old[i].text[1]
    BY AppendProperties, LenProperties
  <1>2. Len(new) \in Nat
    BY AppendProperties, LenProperties
  <1>3. Placed(new, txt)
    BY <1>1 DEF Placed
  <1>4. Ascending(new)
    <2> SUFFICES ASSUME NEW i \in 1 .. Len(new) - 1 PROVE Before(new[i], new[i + 1])
      BY DEF Ascending
    <2>1. i \in 1 .. Len(new) /\ i + 1 \in 1 .. Len(new)
      BY <1>2
    <2>2. Before(old[i], old[i + 1])
      BY <1>1 DEF Ascending
    <2> QED
      BY <1>1, <2>1, <2>2 DEF Before
  <1>5. Passed(new, ln, col)
    BY <1>1 DEF Passed
  <1> QED
    BY <1>3, <1>4, <1>5

-----------------------------------------------------------------------------
(* Lines and types *)

LEMMA LeastExists ==
  ASSUME NEW T, T \subseteq Nat, T # {}
  PROVE  \E m \in T : \A n \in T : m <= n
  <1>1. PICK m \in T : \A n \in T : ~ (<<n, m>> \in OpToRel(<, Nat))
    BY NatLessThanWellFounded, WFMin
  <1>2. \A n \in T : ~ (n < m)
    BY <1>1 DEF OpToRel
  <1> QED
    BY <1>2

\* Without its one-line comment a line is still one.
LEMMA ContentIsLine ==
  ASSUME NEW l \in Seq(STRING)
  PROVE  Content(l) \in Seq(STRING)
  <1>1. CASE LineComments(l) = {}
    BY <1>1 DEF Content
  <1>2. CASE LineComments(l) # {}
    <2> DEFINE first == CHOOSE i \in LineComments(l) : \A j \in LineComments(l) : i <= j
    <2>1. Len(l) \in Nat
      BY LenProperties
    <2>2. LineComments(l) \subseteq Nat
      BY <2>1 DEF LineComments
    <2>3. \E i \in LineComments(l) : \A j \in LineComments(l) : i <= j
      BY <1>2, <2>2, LeastExists
    <2>4. first \in LineComments(l)
      BY <2>3
    <2>5. first \in 1 .. Len(l) - 1
      BY <2>4 DEF LineComments
    <2>6. SubSeq(l, 1, first - 1) \in Seq(STRING)
      <3>1. \A i \in 1 .. first - 1 : l[i] \in STRING
        BY <2>1, <2>5, ElementOfSeq
      <3> QED
        BY <2>1, <2>5, <3>1, SubSeqProperties
    <2> QED
      BY <1>2, <2>6 DEF Content
  <1> QED
    BY <1>1, <1>2

\* What the reader has before it is a character of the text.
LEMMA CharIsString ==
  ASSUME TokenizerTypeOK, InLine
  PROVE  /\ Char \in STRING
         /\ line \in 1 .. Len(text)
         /\ column \in 1 .. Len(Content(text[line]))
  <1>1. Len(text) \in Nat
    BY LenProperties DEF TokenizerTypeOK
  <1>2. line \in 1 .. Len(text)
    BY <1>1 DEF TokenizerTypeOK, InLine
  <1>3. Content(text[line]) \in Seq(STRING)
    <2>1. text[line] \in Seq(STRING)
      BY <1>2, ElementOfSeq DEF TokenizerTypeOK
    <2> QED
      BY <2>1, ContentIsLine
  <1>4. column \in 1 .. Len(Content(text[line]))
    <2>1. Len(Content(text[line])) \in Nat
      BY <1>3, LenProperties
    <2> QED
      BY <2>1 DEF TokenizerTypeOK, InLine
  <1>5. Content(text[line])[column] \in STRING
    BY <1>3, <1>4, ElementOfSeq
  <1> QED
    BY <1>2, <1>4, <1>5 DEF Char

\* Completing a token moves it: what has been seen stays.
LEMMA CompletionKeepsSeen ==
  ASSUME TokenizerTypeOK
  PROVE  /\ Seen \in Seq(TokenType)
         /\ Seen \o <<>> = Seen
  BY ConcatProperties, EmptySeq DEF TokenizerTypeOK, Seen

\* No token is waiting to grow, or one.
LEMMA PreviousIsOne ==
  ASSUME TokenizerTypeOK
  PROVE  \/ previous = <<>>
         \/ previous[1] \in TokenType /\ previous = <<previous[1]>>
  <1>1. previous \in Seq(TokenType) /\ Len(previous) \in Nat /\ Len(previous) <= 1
    BY LenProperties DEF TokenizerTypeOK
  <1>2. CASE Len(previous) = 0
    BY <1>1, <1>2, EmptySeq
  <1>3. CASE Len(previous) = 1
    <2>1. previous[1] \in TokenType
      BY <1>1, <1>3, ElementOfSeq
    <2>2. <<previous[1]>> \in Seq(TokenType) /\ Len(<<previous[1]>>) = 1
      BY <2>1
    <2>3. \A i \in 1 .. Len(previous) : previous[i] = <<previous[1]>>[i]
      BY <1>3
    <2> QED
      BY <1>1, <1>3, <2>1, <2>2, <2>3, SeqEqual
  <1> QED
    BY <1>1, <1>2, <1>3

-----------------------------------------------------------------------------
(* The invariant *)

\* Between the places of the tokens and the place of the reader: without the
\* last part a step could put a token in front of one that is there already.
IInv == TokenizerTypeOK /\ TokensLocated /\ Passed(Seen, line, column)

LEMMA LocatedIsPlaced == TokensLocated <=> Placed(Seen, text) /\ Ascending(Seen)
  BY DEF TokensLocated, Placed, Ascending

LEMMA LocatedIsPlacedNext == TokensLocated' <=> Placed(Seen', text') /\ Ascending(Seen')
  BY DEF TokensLocated, Placed, Ascending, Seen

LEMMA InitEstablishes == Init => IInv
  <1> SUFFICES ASSUME Init PROVE IInv
    OBVIOUS
  <1>1. text \in Seq(Seq(STRING))
    BY TextsAssumption DEF Init
  <1>2. Len(text) \in Nat
    BY <1>1, LenProperties
  <1>3. tokens = <<>> /\ previous = <<>> /\ Seen = <<>> /\ Len(Seen) = 0
    BY DEF Init, Seen
  <1>4. TokenizerTypeOK
    <2>1. line \in 1 .. Len(text) + 1 /\ column \in Nat \ {0}
      BY <1>2 DEF Init
    <2>3. isBlockComment \in BOOLEAN
      BY DEF Init
    <2>2. tokens \in Seq(TokenType) /\ previous \in Seq(TokenType) /\ Len(previous) <= 1
      BY <1>3, EmptySeq
    <2> QED
      BY <1>1, <2>1, <2>2, <2>3 DEF TokenizerTypeOK
  <1>5. TokensLocated
    BY <1>3 DEF TokensLocated
  <1>6. Passed(Seen, line, column)
    BY <1>3 DEF Passed
  <1> QED
    BY <1>4, <1>5, <1>6 DEF IInv

\* A step on which the tokens that were seen stay the same ones.
LEMMA SeenKept ==
  ASSUME IInv, TokenizerTypeOK', Seen' = Seen, text' = text,
         line < line' \/ (line = line' /\ column <= column')
  PROVE  IInv'
  <1>1. line \in Nat /\ column \in Nat /\ line' \in Nat /\ column' \in Nat
    <2>1. Len(text) \in Nat /\ Len(text') \in Nat
      BY LenProperties DEF IInv, TokenizerTypeOK
    <2> QED
      BY <2>1 DEF IInv, TokenizerTypeOK
  <1>2. Seen \in Seq(TokenType)
    BY CompletionKeepsSeen DEF IInv
  <1>3. Passed(Seen, line', column')
    BY <1>1, <1>2, PassedMonotone DEF IInv
  <1>4. Passed(Seen, line, column)'
    BY <1>3 DEF Passed, Seen
  <1>5. TokensLocated'
    BY LocatedIsPlaced, LocatedIsPlacedNext DEF IInv
  <1> QED
    BY <1>4, <1>5 DEF IInv

\* A token completed at a blank or at the end of a line, and nothing grows.
LEMMA CompletePrevious ==
  ASSUME TokenizerTypeOK, tokens' = tokens \o previous, previous' = <<>>
  PROVE  /\ Seen' = Seen
         /\ tokens' \in Seq(TokenType)
         /\ previous' \in Seq(TokenType) /\ Len(previous') <= 1
  <1>1. tokens' = Seen /\ Seen' = Seen \o <<>>
    BY DEF Seen
  <1>2. Seen \in Seq(TokenType) /\ Seen \o <<>> = Seen
    BY CompletionKeepsSeen
  <1>3. previous' \in Seq(TokenType) /\ Len(previous') <= 1
    BY EmptySeq
  <1> QED
    BY <1>1, <1>2, <1>3

\* Text that is put behind another one leaves its first character.
LEMMA GrownText ==
  ASSUME NEW old \in Seq(STRING), NEW more \in Seq(STRING), old # <<>>
  PROVE  old \o more # <<>> /\ (old \o more)[1] = old[1]
  <1>1. Len(old) \in Nat \ {0} /\ Len(more) \in Nat
    BY EmptySeq, LenProperties
  <1>2. Len(old \o more) = Len(old) + Len(more) /\ (old \o more)[1] = old[1]
    BY <1>1, ConcatProperties
  <1>3. Len(old \o more) # 0
    BY <1>1, <1>2
  <1> QED
    BY <1>2, <1>3, EmptySeq

\* The character that is read makes a token of its own, or the last text grows.
LEMMA AppendKeepsInvariant ==
  ASSUME IInv, InLine, NEW kind \in {"text", "separator"},
         AppendToken(Token(kind, Char)), column' = column + 1,
         UNCHANGED <<text, line, isBlockComment>>
  PROVE  IInv'
  <1> DEFINE token == Token(kind, Char)
  <1> USE DEF IInv
  <1>1. /\ Char \in STRING
        /\ line \in 1 .. Len(text)
        /\ column \in 1 .. Len(Content(text[line]))
    BY CharIsString
  <1>2. line \in Nat \ {0} /\ column \in Nat \ {0} /\ Len(text) \in Nat
    BY LenProperties DEF TokenizerTypeOK
  <1>3. /\ token.kind = kind /\ token.line = line /\ token.column = column
        /\ token.text = <<Char>>
    BY DEF Token
  <1>4. token \in TokenType
    <2>1. <<Char>> \in Seq(STRING)
      BY <1>1
    <2> QED
      BY <1>2, <2>1 DEF Token, TokenType
  <1>5. Seen \in Seq(TokenType) /\ tokens \in Seq(TokenType)
    BY CompletionKeepsSeen DEF TokenizerTypeOK
  <1>6. Placed(Seen, text) /\ Ascending(Seen) /\ Passed(Seen, line, column)
    BY LocatedIsPlaced
  <1>7. SUFFICES /\ tokens' \in Seq(TokenType)
                 /\ previous' \in Seq(TokenType) /\ Len(previous') <= 1
                 /\ Placed(Seen', text) /\ Ascending(Seen')
                 /\ Passed(Seen', line, column + 1)
    <2>1. TokenizerTypeOK'
      <3>1. text' \in Seq(Seq(STRING)) /\ line' \in 1 .. Len(text') + 1
        BY DEF TokenizerTypeOK
      <3>2. column' \in Nat \ {0}
        BY <1>2
      <3>3. isBlockComment' \in BOOLEAN
        BY DEF TokenizerTypeOK
      <3> QED
        BY <1>7, <3>1, <3>2, <3>3 DEF TokenizerTypeOK
    <2>2. TokensLocated'
      BY <1>7, LocatedIsPlacedNext
    <2>3. Passed(Seen, line, column)'
      BY <1>7 DEF Passed, Seen
    <2> QED
      BY <2>1, <2>2, <2>3
  <1>8. CASE Grows(token)
    <2> DEFINE last == previous[1]
               grown == [last EXCEPT !.text = last.text \o token.text]
    <2>1. last \in TokenType /\ previous = <<last>>
      BY <1>8, PreviousIsOne DEF Grows
    <2>2. tokens' = tokens /\ previous' = <<grown>>
      BY <1>8 DEF AppendToken
    <2>3. last.text \in Seq(STRING) /\ token.text \in Seq(STRING)
      BY <1>4, <2>1 DEF TokenType
    <2>4. grown.text = last.text \o token.text /\ grown.text \in Seq(STRING)
      BY <2>1, <2>3, ConcatProperties DEF TokenType
    <2>5. grown \in TokenType /\ grown.line = last.line /\ grown.column = last.column
      BY <2>1, <2>4 DEF TokenType
    <2>6. last.text # <<>> => grown.text # <<>> /\ grown.text[1] = last.text[1]
      <3> SUFFICES ASSUME last.text # <<>>
                   PROVE  grown.text # <<>> /\ grown.text[1] = last.text[1]
        OBVIOUS
      <3> QED
        BY <2>3, <2>4, GrownText
    <2>7. Seen = Append(tokens, last) /\ Seen' = Append(tokens, grown)
      BY <1>5, <2>1, <2>2, <2>5, AppendIsConcat DEF Seen
    <2>8. /\ Placed(Append(tokens, grown), text) /\ Ascending(Append(tokens, grown))
          /\ Passed(Append(tokens, grown), line, column)
      BY <1>5, <1>6, <2>1, <2>5, <2>6, <2>7, GrowPlaced
    <2>9. Append(tokens, grown) \in Seq(TokenType)
      BY <1>5, <2>5, AppendProperties
    <2>10. Passed(Append(tokens, grown), line, column + 1)
      <3>1. line \in Nat /\ column \in Nat /\ column + 1 \in Nat /\ column <= column + 1
        BY <1>2
      <3> HIDE DEF grown
      <3> QED
        BY <2>8, <2>9, <3>1, PassedMonotone
    <2>11. previous' \in Seq(TokenType) /\ Len(previous') <= 1
      BY <2>2, <2>5
    <2> QED
      BY <1>5, <2>2, <2>7, <2>8, <2>10, <2>11
  <1>9. CASE ~Grows(token)
    <2>1. tokens' = Seen /\ previous' = <<token>>
      BY <1>9 DEF AppendToken, Seen
    <2>2. Seen' = Append(Seen, token)
      BY <1>4, <1>5, <2>1, AppendIsConcat DEF Seen
    <2>3. Placed(<<token>>, text)
      <3>1. <<token>>[1] = token /\ Len(<<token>>) = 1
        OBVIOUS
      <3>2. token.text # <<>> /\ token.text[1] = Char
        BY <1>3
      <3>3. Content(text[line])[column] = token.text[1]
        BY <3>2 DEF Char
      <3> HIDE DEF token
      <3> SUFFICES ASSUME NEW i \in 1 .. Len(<<token>>)
                   PROVE  /\ <<token>>[i].line \in 1 .. Len(text)
                          /\ <<token>>[i].column \in 1 .. Len(Content(text[<<token>>[i].line]))
                          /\ <<token>>[i].text # <<>>
                          /\ Content(text[<<token>>[i].line])[<<token>>[i].column]
                               = <<token>>[i].text[1]
        BY DEF Placed
      <3>4. <<token>>[i] = token
        BY <3>1
      <3> QED
        BY <1>1, <1>3, <3>2, <3>3, <3>4
    <2>4. /\ Placed(Append(Seen, token), text) /\ Ascending(Append(Seen, token))
          /\ Passed(Append(Seen, token), line, column + 1)
      BY <1>3, <1>4, <1>5, <1>6, <2>3, AppendPlaced
    <2>5. previous' \in Seq(TokenType) /\ Len(previous') <= 1
      BY <1>4, <2>1
    <2> QED
      BY <1>5, <2>1, <2>2, <2>4, <2>5
  <1> QED
    BY <1>8, <1>9

-----------------------------------------------------------------------------
(* Each action *)

LEMMA StepKeepsInvariant == IInv /\ [Tokenize]_tokenizerVars => IInv'
  <1> SUFFICES ASSUME IInv, [Tokenize]_tokenizerVars PROVE IInv'
    OBVIOUS
  <1> DEFINE content == Content(text[line])
  <1>1. TokenizerTypeOK /\ Seen \in Seq(TokenType)
    BY CompletionKeepsSeen DEF IInv
  <1>2. line \in Nat \ {0} /\ column \in Nat \ {0} /\ Len(text) \in Nat
    BY <1>1, LenProperties DEF TokenizerTypeOK
  <1>3. ASSUME Seen' = Seen, text' = text, line' = line, column' \in {column + 1, column + 2},
               isBlockComment' \in BOOLEAN, tokens' \in Seq(TokenType),
               previous' \in Seq(TokenType), Len(previous') <= 1
        PROVE  IInv'
    <2>1. column' \in Nat \ {0} /\ column <= column'
      BY <1>2, <1>3
    <2>2. TokenizerTypeOK'
      BY <1>1, <1>3, <2>1 DEF TokenizerTypeOK
    <2> QED
      BY <1>3, <2>1, <2>2, SeenKept
  <1>4. ASSUME text' = text, line' = line, column' \in {column + 1, column + 2},
               isBlockComment' \in BOOLEAN, UNCHANGED <<previous, tokens>>
        PROVE  IInv'
    <2>1. Seen' = Seen
      BY <1>4 DEF Seen
    <2>2. tokens' \in Seq(TokenType) /\ previous' \in Seq(TokenType) /\ Len(previous') <= 1
      BY <1>1, <1>4 DEF TokenizerTypeOK
    <2> QED
      BY <1>3, <1>4, <2>1, <2>2
  <1>5. CASE ReadSeparator
    BY <1>5, AppendKeepsInvariant DEF ReadSeparator
  <1>6. CASE OpenComment
    BY <1>4, <1>6 DEF OpenComment
  <1>7. CASE CloseComment
    BY <1>4, <1>7 DEF CloseComment
  <1>8. CASE SkipCommented
    <2>1. isBlockComment' \in BOOLEAN
      BY <1>1, <1>8 DEF SkipCommented, TokenizerTypeOK
    <2> QED
      BY <1>4, <1>8, <2>1 DEF SkipCommented
  <1>9. CASE ReadLetter
    BY <1>9, AppendKeepsInvariant DEF ReadLetter
  <1>10. CASE ReadBlank
    <2>1. isBlockComment' \in BOOLEAN
      BY <1>1, <1>10 DEF ReadBlank, TokenizerTypeOK
    <2>2. tokens' = tokens \o previous /\ previous' = <<>>
      BY <1>10 DEF ReadBlank
    <2> QED
      BY <1>1, <1>3, <1>10, <2>1, <2>2, CompletePrevious DEF ReadBlank
  <1>11. CASE IgnoreControl
    <2>1. isBlockComment' \in BOOLEAN
      BY <1>1, <1>11 DEF IgnoreControl, TokenizerTypeOK
    <2> QED
      BY <1>4, <1>11, <2>1 DEF IgnoreControl
  <1>12. CASE EndLine
    <2>1. /\ Seen' = Seen
          /\ tokens' \in Seq(TokenType)
          /\ previous' \in Seq(TokenType) /\ Len(previous') <= 1
      BY <1>1, <1>12, CompletePrevious DEF EndLine
    <2>2. line' \in 1 .. Len(text) + 1 /\ line < line' /\ column' \in Nat \ {0}
      BY <1>2, <1>12 DEF EndLine
    <2>3. text' = text /\ isBlockComment' = isBlockComment
      BY <1>12 DEF EndLine
    <2>4. TokenizerTypeOK'
      BY <1>1, <2>1, <2>2, <2>3 DEF TokenizerTypeOK
    <2> QED
      BY <2>1, <2>2, <2>3, <2>4, SeenKept
  <1>13. CASE UNCHANGED tokenizerVars
    <2>1. UNCHANGED <<text, line, column, isBlockComment, previous, tokens>>
      BY <1>13 DEF tokenizerVars
    <2> QED
      BY <2>1 DEF IInv, TokenizerTypeOK, TokensLocated, Passed, Seen
  <1> QED
    BY <1>5, <1>6, <1>7, <1>8, <1>9, <1>10, <1>11, <1>12, <1>13 DEF Tokenize

\* Whatever the text, the state of the tokenizer keeps its types; above all
\* its position never leaves the lines and at most one token is unfinished.
THEOREM TokenizerTyped == TokenizerSpec => []TokenizerTypeOK
  <1>1. IInv => TokenizerTypeOK
    BY DEF IInv
  <1> QED
    BY <1>1, InitEstablishes, StepKeepsInvariant, PTL DEF TokenizerSpec

\* Whatever the text and the control characters, each token names the line
\* and column where its first character stands, and the tokens are in the
\* order of the text (Tokenizer::parse, Token::append).
THEOREM TokensStayLocated == TokenizerSpec => []TokensLocated
  <1>1. IInv => TokensLocated
    BY DEF IInv
  <1> QED
    BY <1>1, InitEstablishes, StepKeepsInvariant, PTL DEF TokenizerSpec
=============================================================================
