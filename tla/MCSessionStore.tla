--------------------------- MODULE MCSessionStore ---------------------------
(* An instance of SessionStore for TLC. *)
EXTENDS SessionStore

\* An address with the characters Debug escapes and unescape_toml_str knows, and
\* a private one.
Normal == {<<Quote, Backslash>>}
Private == {<<Letter>>}

\* Of the texts of at most MaxLength characters the Faithful ones, and no others,
\* are read back as they were.
MaxLength == 4
ASSUME FaithfulAssumption ==
  \A n \in 0..MaxLength : \A text \in [1..n -> Characters] :
    RoundTrip(text) = text <=> Faithful(text)
=============================================================================
