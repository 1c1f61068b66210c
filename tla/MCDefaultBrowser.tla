-------------------------- MODULE MCDefaultBrowser --------------------------
(* An instance of DefaultBrowser for TLC: a product under two names, one of *)
(* them also in capitals.                                                   *)
EXTENDS DefaultBrowser, TLC

CONSTANTS Sample, SAMPLE, Other

\* The registry compares the first two names as one.
Spellings == Sample :> Sample @@ SAMPLE :> Sample @@ Other :> Other
=============================================================================
