---------------------------- MODULE SessionCodec ----------------------------
(***************************************************************************)
(* How a text is written to session.toml and read back: the Debug format   *)
(* serialize_session writes it with, and unescape_toml_str, which undoes   *)
(* the escapes by one replacement over the whole text after another.       *)
(* A text is the sequence of its characters; only those an escape or a     *)
(* replacement looks at are told apart, and of these the carriage return   *)
(* and the tab are left out, which go as the line feed does, by r and t.   *)
(*                                                                         *)
(* Debug writes two kinds of characters with escapes unescape_toml_str     *)
(* does not know, and what was escaped so stays escaped: the null          *)
(* character, and those it will not print or that extend the one before.   *)
(***************************************************************************)
EXTENDS Naturals, Sequences, SequencesExt

Backslash == "backslash"
Quote == "quote"
Newline == "newline"
Null == "null"
Unprintable == "unprintable"   \* and the grapheme extenders
LetterN == "n"
LetterU == "u"
Zero == "0"
Letter == "x"                  \* every other character
Characters ==
  {Backslash, Quote, Newline, Null, Unprintable, LetterN, LetterU, Zero, Letter}

\* {:?}, between the quotes it adds.  The braces and digits of \u{..} are letters
\* like any other to the replacements: one stands for them.
EscapeChar(c) ==
  CASE c \in {Backslash, Quote} -> <<Backslash, c>>
    [] c = Newline -> <<Backslash, LetterN>>
    [] c = Null -> <<Backslash, Zero>>
    [] c = Unprintable -> <<Backslash, LetterU, Letter>>
    [] OTHER -> <<c>>

Encode(text) == FlattenSeq([i \in DOMAIN text |-> EscapeChar(text[i])])

\* str::replace of the two characters a, b by c, from the left.
Replace(text, a, b, c) ==
  LET from[i \in 1..(Len(text) + 1)] ==
        IF i > Len(text) THEN <<>>
        ELSE IF i < Len(text) /\ text[i] = a /\ text[i + 1] = b
          THEN <<c>> \o from[i + 2]
          ELSE <<text[i]>> \o from[i + 1]
  IN from[1]

\* unescape_toml_str
Decode(text) ==
  LET backslashes == Replace(text, Backslash, Backslash, Backslash)
      quotes == Replace(backslashes, Backslash, Quote, Quote)
  IN Replace(quotes, Backslash, LetterN, Newline)

\* What a text that was saved is read back as.
RoundTrip(text) == Decode(Encode(text))

\* The texts that are read back as they were: those without a character Debug
\* writes as \0 or \u{..}, and without a backslash before a letter n.
Faithful(text) ==
  /\ \A i \in DOMAIN text : text[i] \notin {Null, Unprintable}
  /\ \A i \in DOMAIN text : text[i] = Backslash /\ i < Len(text) => text[i + 1] # LetterN
=============================================================================
