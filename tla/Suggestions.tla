---------------------------- MODULE Suggestions -----------------------------
(***************************************************************************)
(* What the address bar suggests (evreos-shell/src/suggest.rs): the pages  *)
(* of open tabs, bookmarks and history that match what was typed, one      *)
(* suggestion for each page, the best first.                               *)
(*                                                                         *)
(* Texts are abstracted to what the ranking compares: Page gives the page  *)
(* an address is of (normalize_address), Bonus what a match adds to its    *)
(* source's base score (score_match), NoMatch when there is none, and      *)
(* Place the order of addresses as text.                                   *)
(***************************************************************************)
EXTENDS Naturals, Sequences, FiniteSets, Functions

CONSTANTS
  Page,     \* normalize_address
  Bonus,    \* Bonus[q][a]: what address a gains when it matches the query q
  NoMatch,  \* no bonus: neither the address nor its title matches
  Place     \* an address's place in the order of text

\* What score_match adds at most.
MaxBonus == 2100

Texts == DOMAIN Place

ASSUME SuggestionsAssumption ==
  /\ NoMatch \notin 0..MaxBonus
  /\ \A q \in DOMAIN Bonus : Bonus[q] \in [Texts -> 0..MaxBonus \cup {NoMatch}]
  /\ Place \in [Texts -> Nat] /\ \A a, b \in Texts : Place[a] = Place[b] => a = b

Sources == {"History", "Bookmark", "OpenTab"}

\* SuggestionSource::priority, and the base score in thousands
Priority(source) ==
  CASE source = "OpenTab" -> 3 [] source = "Bookmark" -> 2 [] source = "History" -> 1

Score(q, address, source) == 1000 * Priority(source) + Bonus[q][address]

Candidate(q, address, source) ==
  [address |-> address, source |-> source, score |-> Score(q, address, source)]

\* What one source offers, in its order.
Offered(addresses, source) ==
  [i \in DOMAIN addresses |-> [address |-> addresses[i], source |-> source]]

\* Mutant: the better score takes the page, whatever its source.
BetterByScore(new, existing) == new.score > existing.score

\* insert_or_replace_better: the better source, then the better score.
Better(new, existing) ==
  \/ Priority(new.source) > Priority(existing.source)
  \/ new.source = existing.source /\ new.score > existing.score

\* The map of candidates by page with one candidate more.
Insert(new, held) ==
  LET page == Page[new.address]
  IN [p \in DOMAIN held \cup {page} |->
        IF p = page /\ (page \in DOMAIN held => Better(new, held[page])) THEN new ELSE held[p]]

\* What is offered goes into the map when it matches.
Match(q, offer, held) ==
  IF Bonus[q][offer.address] = NoMatch THEN held
  ELSE Insert(Candidate(q, offer.address, offer.source), held)

Before(s, t) == s.score > t.score \/ (s.score = t.score /\ Place[s.address] < Place[t.address])

\* The elements of a finite set one after the other, in a strict order.
Sorted(S, Precedes(_, _)) ==
  CHOOSE f \in [1..Cardinality(S) -> S] : \A i, j \in DOMAIN f : i < j => Precedes(f[i], f[j])

\* What the three sources offer, one after the other.
AllOffers(tabs, bookmarks, history) ==
  Offered(tabs, "OpenTab") \o Offered(bookmarks, "Bookmark") \o Offered(history, "History")

\* query_with_limit, for a query that is not blank
Query(q, limit, tabs, bookmarks, history) ==
  LET offered == AllOffers(tabs, bookmarks, history)
      held[n \in 0..Len(offered)] ==
        IF n = 0 THEN [p \in {} |-> {}] ELSE Match(q, offered[n], held[n - 1])
      ranked == Sorted(Range(held[Len(offered)]), Before)
  IN SubSeq(ranked, 1, IF limit < Len(ranked) THEN limit ELSE Len(ranked))

(***************************************************************************)
(* What an answer must be, without saying how it is found                  *)
(***************************************************************************)

\* What a source offers to the query.
OffersOf(q, addresses, source) ==
  {Candidate(q, a, source) : a \in {b \in Range(addresses) : Bonus[q][b] # NoMatch}}

Offers(q, tabs, bookmarks, history) ==
  OffersOf(q, tabs, "OpenTab") \cup OffersOf(q, bookmarks, "Bookmark")
    \cup OffersOf(q, history, "History")

\* The source first, then the score.
Rank(c) == Priority(c.source) * 10000 + c.score

\* No offer of its page ranks above it.
IsBest(c, offers) ==
  \A d \in offers : Page[d.address] = Page[c.address] => Rank(d) <= Rank(c)

\* Each page once, from the best source that offers it and by that source's
\* best match; in order; and a page left out matches no better than the last
\* one shown of a full answer.
IsAnswer(answer, limit, offers) ==
  /\ Len(answer) <= limit
  /\ \A i \in DOMAIN answer : answer[i] \in offers /\ IsBest(answer[i], offers)
  /\ \A i, j \in DOMAIN answer : i < j => /\ Before(answer[i], answer[j])
                                          /\ Page[answer[i].address] # Page[answer[j].address]
  /\ \A c \in offers :
       \/ \E i \in DOMAIN answer : Page[answer[i].address] = Page[c.address]
       \/ /\ Len(answer) = limit
          /\ \E d \in offers : /\ Page[d.address] = Page[c.address]
                               /\ IsBest(d, offers)
                               /\ \A i \in DOMAIN answer : ~Before(d, answer[i])
=============================================================================
