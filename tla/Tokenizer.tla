------------------------------ MODULE Tokenizer ------------------------------
(***************************************************************************)
(* Tokenizer::parse of src/asn1rs-model/src/parser.rs: from the text of an *)
(* ASN.1 module to its tokens.  A text is a sequence of lines, a line a    *)
(* sequence of characters; a keyword stands for one letter, since letters  *)
(* that follow each other are only ever put together.  One action per arm  *)
(* of the match, and one for the end of a line.                            *)
(***************************************************************************)
EXTENDS Naturals, Sequences

CONSTANTS
    Texts,      \* the texts to choose from
    Control     \* the control characters other than blanks

Separators == {":", ";", "=", "(", ")", "{", "}", ".", ",", "[", "]", "'", "\""}
Blanks == {" ", "tab", "cr"}

ASSUME TextsAssumption == Texts \subseteq Seq(Seq(STRING))
ASSUME ControlAssumption == Control \cap (Blanks \cup Separators) = {}

VARIABLES
    text,            \* the text that is read
    line,            \* the line reached, from 1
    column,          \* the next character of its content, from 1
    isBlockComment,
    previous,        \* no token or the one that may still grow
    tokens           \* the tokens that are complete

tokenizerVars == <<text, line, column, isBlockComment, previous, tokens>>

-----------------------------------------------------------------------------

\* Where the first "--" of a line begins, if it has one.
LineComments(l) == {i \in 1 .. Len(l) - 1 : l[i] = "-" /\ l[i + 1] = "-"}

\* A line without its one-line comment.
Content(l) ==
    IF LineComments(l) = {} THEN l
    ELSE SubSeq(l, 1, (CHOOSE i \in LineComments(l) :
                          \A j \in LineComments(l) : i <= j) - 1)

Token(kind, char) == [kind |-> kind, line |-> line, column |-> column, text |-> <<char>>]

\* Token::append with the hand-over around it: a text goes on growing, any
\* other token completes the one before.
Grows(token) ==
    previous # <<>> /\ previous[1].kind = "text" /\ token.kind = "text"

\* Mutant: the text moves to where its last letter is.
AppendMoved(token) ==
    IF Grows(token)
    THEN /\ previous' = <<[token EXCEPT !.text = previous[1].text \o @]>>
         /\ tokens' = tokens
    ELSE /\ previous' = <<token>>
         /\ tokens' = tokens \o previous
AppendToken(token) ==
    IF Grows(token)
    THEN /\ previous' = <<[previous[1] EXCEPT !.text = @ \o token.text]>>
         /\ tokens' = tokens
    ELSE /\ previous' = <<token>>
         /\ tokens' = tokens \o previous

-----------------------------------------------------------------------------

InLine == line <= Len(text) /\ column <= Len(Content(text[line]))
Char == Content(text[line])[column]

\* The next character of the same line is c.
Peeks(c) == column < Len(Content(text[line])) /\ Content(text[line])[column + 1] = c

OpensComment == ~isBlockComment /\ Char = "/" /\ Peeks("*")
ClosesComment == isBlockComment /\ Char = "*" /\ Peeks("/")

Init ==
    /\ text \in Texts
    /\ line = 1 /\ column = 1
    /\ isBlockComment = FALSE
    /\ previous = <<>> /\ tokens = <<>>

ReadSeparator ==
    /\ InLine /\ ~isBlockComment /\ Char \in Separators
    /\ AppendToken(Token("separator", Char))
    /\ column' = column + 1
    /\ UNCHANGED <<text, line, isBlockComment>>

OpenComment ==
    /\ InLine /\ OpensComment
    /\ isBlockComment' = TRUE
    /\ column' = column + 1
    /\ UNCHANGED <<text, line, previous, tokens>>

\* The slash is consumed with the asterisk.  Mutant: it is left to be read.
CloseCommentOnly ==
    /\ InLine /\ ClosesComment
    /\ isBlockComment' = FALSE
    /\ column' = column + 1
    /\ UNCHANGED <<text, line, previous, tokens>>
CloseComment ==
    /\ InLine /\ ClosesComment
    /\ isBlockComment' = FALSE
    /\ column' = column + 2
    /\ UNCHANGED <<text, line, previous, tokens>>

SkipCommented ==
    /\ InLine /\ isBlockComment /\ ~ClosesComment
    /\ column' = column + 1
    /\ UNCHANGED <<text, line, isBlockComment, previous, tokens>>

ReadLetter ==
    /\ InLine /\ ~isBlockComment /\ ~OpensComment
    /\ Char \notin Separators \cup Blanks \cup Control
    /\ AppendToken(Token("text", Char))
    /\ column' = column + 1
    /\ UNCHANGED <<text, line, isBlockComment>>

\* A blank completes the token before it.
ReadBlank ==
    /\ InLine /\ ~isBlockComment /\ Char \in Blanks
    /\ tokens' = tokens \o previous
    /\ previous' = <<>>
    /\ column' = column + 1
    /\ UNCHANGED <<text, line, isBlockComment>>

\* Any other control character is ignored; a text goes on behind it.
IgnoreControl ==
    /\ InLine /\ ~isBlockComment /\ Char \in Control
    /\ column' = column + 1
    /\ UNCHANGED <<text, line, isBlockComment, previous, tokens>>

\* The end of a line completes the token before it, inside a comment too.
\* Behind the last line nothing is left to complete.
\* Mutant: the token goes on in the next line.
EndLineKept ==
    /\ line <= Len(text) /\ column > Len(Content(text[line]))
    /\ line' = line + 1
    /\ column' = 1
    /\ UNCHANGED <<text, isBlockComment, previous, tokens>>
EndLine ==
    /\ line <= Len(text) /\ column > Len(Content(text[line]))
    /\ tokens' = tokens \o previous
    /\ previous' = <<>>
    /\ line' = line + 1
    /\ column' = 1
    /\ UNCHANGED <<text, isBlockComment>>

Tokenized == line > Len(text)

Tokenize ==
    \/ ReadSeparator \/ OpenComment \/ CloseComment \/ SkipCommented
    \/ ReadLetter \/ ReadBlank \/ IgnoreControl \/ EndLine

TokenizerSpec == Init /\ [][Tokenize]_tokenizerVars

-----------------------------------------------------------------------------

TokenType == [kind : {"text", "separator"}, line : Nat \ {0}, column : Nat \ {0},
              text : Seq(STRING)]

\* Type invariant of the tokenizer's state.
TokenizerTypeOK ==
    /\ text \in Seq(Seq(STRING))
    /\ line \in 1 .. Len(text) + 1
    /\ column \in Nat \ {0}
    /\ isBlockComment \in BOOLEAN
    /\ tokens \in Seq(TokenType)
    /\ previous \in Seq(TokenType) /\ Len(previous) <= 1

\* The tokens of the text up to here, the growing one included.
Seen == tokens \o previous

\* A location is before another one in the text.
Before(a, b) == a.line < b.line \/ (a.line = b.line /\ a.column < b.column)

\* Locations are what error messages and the blanks inside a string literal
\* are made from (parser.rs:21-23 counts them from one): a token's location
\* is where its first character stands, and tokens come in the order of the
\* text, also where a comment or a control character inside a word was
\* skipped.
TokensLocated ==
    /\ \A i \in 1 .. Len(Seen) :
           /\ Seen[i].line \in 1 .. Len(text)
           /\ Seen[i].column \in 1 .. Len(Content(text[Seen[i].line]))
           /\ Seen[i].text # <<>>
           /\ Content(text[Seen[i].line])[Seen[i].column] = Seen[i].text[1]
    /\ \A i \in 1 .. Len(Seen) - 1 : Before(Seen[i], Seen[i + 1])
=============================================================================
