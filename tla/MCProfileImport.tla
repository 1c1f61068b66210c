-------------------------- MODULE MCProfileImport ---------------------------
(* Two profiles to import, three rows, two refused saves. *)
EXTENDS ProfileImport

\* "a" and "a/" are two addresses of one page.
MCPage == [a |-> 1, as |-> 1, b |-> 2]
MCPlace == [a |-> 1, as |-> 2, b |-> 3]

\* The first query is the address "a/" itself, which "a" only matches by its
\* title; the second matches the start of "b" and of nothing else.
MCBonus == <<[a |-> 100, as |-> 2100, b |-> NoMatch], [a |-> 200, as |-> 200, b |-> 700]>>

MCProfiles ==
  {[bookmarks |-> TRUE, visits |-> <<[address |-> "a", at |-> 1], [address |-> "a", at |-> 0]>>],
   [bookmarks |-> FALSE, visits |-> <<[address |-> "b", at |-> 3]>>]}

MCOpenTabs == {<<>>, <<"a">>, <<"b", "a">>}
MCBookmarked == <<"as">>
=============================================================================
