---------------------------- MODULE Tabs_proofs ----------------------------
(***************************************************************************)
(* Proofs about the tabs of the windows (TabStrip), the session file       *)
(* (SessionStore) and what a tab shows of its navigations (TabNavigation), *)
(* for any number of windows, tabs and addresses.                          *)
(*                                                                         *)
(* Of the strip and the file, inductive is what holds of every window: its *)
(* tabs in place, no id twice or yet to be minted, the active tab one of   *)
(* them, and only addresses of its own kind; together with what holds of   *)
(* every text in a file.  The argument is by operation, over what          *)
(* inserting, removing and reindexing do to a sequence of tabs, and over   *)
(* the recursive functions that sort, filter and restore.                  *)
(***************************************************************************)
EXTENDS SessionStore, TabNavigation, SequenceTheorems, FiniteSetTheorems, WellFoundedInduction, TLAPS

Lifecycles == {"Loading", "Live", "Suspended", "RestoredNotLoaded"}
Kinds == {"Normal", "Private"}
Tab == [id : Nat, position : Nat, address : Addresses, lifecycle : Lifecycles]
StoredTab(texts) == [address : texts, position : Nat, active : BOOLEAN]
Window == [kind : Kinds, tabs : Seq(Tab), active : Nat \cup {NoTab}]
(***************************************************************************)
(* What holds of a window: its type, its tabs in place, no id twice, all   *)
(* ids below the next to be minted, and the active tab.                    *)
(***************************************************************************)
InPlace(tabs) == \A i \in DOMAIN tabs : tabs[i].position = i - 1
Distinct(tabs) == \A i, j \in DOMAIN tabs : tabs[i].id = tabs[j].id => i = j
Minted(tabs, next) == \A i \in DOMAIN tabs : tabs[i].id < next
Texts(tabs) == {tabs[i].address : i \in DOMAIN tabs}
ActiveOK(tabs, active) == IF tabs = <<>> THEN active = NoTab ELSE active \in Ids(tabs)

WindowOK(win, next) ==
  /\ win \in Window
  /\ InPlace(win.tabs) /\ Distinct(win.tabs) /\ Minted(win.tabs, next)
  /\ ActiveOK(win.tabs, win.active)
  /\ Texts(win.tabs) \subseteq AddressesOf(win.kind)

Inv ==
  /\ nextTab \in Nat
  /\ windows \in Seq(Window)
  /\ \A w \in DOMAIN windows : WindowOK(windows[w], nextTab)

(***************************************************************************)
(* Sequences                                                               *)
(***************************************************************************)

LEMMA InsertedAt ==
  ASSUME NEW S, NEW s \in Seq(S), NEW k \in 1..(Len(s) + 1), NEW e \in S
  PROVE  /\ InsertAt(s, k, e) \in Seq(S)
         /\ Len(InsertAt(s, k, e)) = Len(s) + 1
         /\ \A j \in 1..(Len(s) + 1) :
              InsertAt(s, k, e)[j] = IF j < k THEN s[j] ELSE IF j = k THEN e ELSE s[j - 1]
<1> DEFINE a == SubSeq(s, 1, k - 1)
           b == SubSeq(s, k, Len(s))
<1>1. Len(s) \in Nat /\ \A i \in 1..Len(s) : s[i] \in S
  BY LenProperties
<1>2. a \in Seq(S) /\ Len(a) = k - 1 /\ \A i \in 1..(k - 1) : a[i] = s[i]
  BY <1>1, SubSeqProperties
<1>3. b \in Seq(S) /\ Len(b) = Len(s) - k + 1 /\ \A i \in 1..(Len(s) - k + 1) : b[i] = s[k + i - 1]
  BY <1>1, SubSeqProperties
<1> HIDE DEF a, b
<1> DEFINE c == a \o <<e>>
<1>4. /\ c \in Seq(S) /\ Len(c) = k
      /\ \A i \in 1..(k - 1) : c[i] = s[i]
      /\ c[k] = e
  BY <1>2
<1> HIDE DEF c
<1>5. /\ c \o b \in Seq(S)
      /\ Len(c \o b) = Len(s) + 1
      /\ \A j \in 1..(Len(s) + 1) : (c \o b)[j] = IF j <= k THEN c[j] ELSE b[j - k]
  <2>1. /\ c \o b \in Seq(S)
        /\ Len(c \o b) = Len(c) + Len(b)
        /\ \A j \in 1..(Len(c) + Len(b)) :
             (c \o b)[j] = IF j <= Len(c) THEN c[j] ELSE b[j - Len(c)]
    BY <1>3, <1>4, ConcatProperties
  <2>2. Len(c) + Len(b) = Len(s) + 1
    BY <1>1, <1>3, <1>4
  <2>3. QED BY <1>4, <2>1, <2>2
<1> DEFINE d == c \o b
<1> HIDE DEF d
<1>6. \A j \in 1..(Len(s) + 1) :
        d[j] = IF j < k THEN s[j] ELSE IF j = k THEN e ELSE s[j - 1]
  <2> TAKE j \in 1..(Len(s) + 1)
  <2>1. CASE j < k
    BY <1>4, <1>5, <2>1 DEF d
  <2>2. CASE j = k
    BY <1>4, <1>5, <2>2 DEF d
  <2>3. CASE j > k
    <3>1. j - k \in 1..(Len(s) - k + 1) /\ k + (j - k) - 1 = j - 1
      BY <1>1, <2>3
    <3>2. b[j - k] = s[j - 1]
      BY <1>3, <3>1
    <3>3. QED BY <1>5, <2>3, <3>2 DEF d
  <2>4. QED BY <1>1, <2>1, <2>2, <2>3
<1>7. QED BY <1>5, <1>6 DEF InsertAt, a, b, c, d

LEMMA RemovedAt ==
  ASSUME NEW S, NEW s \in Seq(S), NEW k \in 1..Len(s)
  PROVE  /\ RemoveAt(s, k) \in Seq(S)
         /\ Len(RemoveAt(s, k)) = Len(s) - 1
         /\ \A j \in 1..(Len(s) - 1) : RemoveAt(s, k)[j] = IF j < k THEN s[j] ELSE s[j + 1]
<1> DEFINE a == SubSeq(s, 1, k - 1)
           b == SubSeq(s, k + 1, Len(s))
<1>1. Len(s) \in Nat /\ \A i \in 1..Len(s) : s[i] \in S
  BY LenProperties
<1>2. a \in Seq(S) /\ Len(a) = k - 1 /\ \A i \in 1..(k - 1) : a[i] = s[i]
  BY <1>1, SubSeqProperties
<1>3. b \in Seq(S) /\ Len(b) = Len(s) - k /\ \A i \in 1..(Len(s) - k) : b[i] = s[k + i]
  BY <1>1, SubSeqProperties
<1> HIDE DEF a, b
<1>4. /\ a \o b \in Seq(S)
      /\ Len(a \o b) = Len(s) - 1
      /\ \A j \in 1..(Len(s) - 1) : (a \o b)[j] = IF j <= k - 1 THEN a[j] ELSE b[j - (k - 1)]
  <2>1. /\ a \o b \in Seq(S)
        /\ Len(a \o b) = Len(a) + Len(b)
        /\ \A j \in 1..(Len(a) + Len(b)) :
             (a \o b)[j] = IF j <= Len(a) THEN a[j] ELSE b[j - Len(a)]
    BY <1>2, <1>3, ConcatProperties
  <2>2. Len(a) + Len(b) = Len(s) - 1
    BY <1>1, <1>2, <1>3
  <2>3. QED BY <1>2, <2>1, <2>2
<1> DEFINE d == a \o b
<1> HIDE DEF d
<1>5. \A j \in 1..(Len(s) - 1) : d[j] = IF j < k THEN s[j] ELSE s[j + 1]
  <2> TAKE j \in 1..(Len(s) - 1)
  <2>1. CASE j < k
    BY <1>2, <1>4, <2>1 DEF d
  <2>2. CASE j >= k
    <3>1. j - (k - 1) \in 1..(Len(s) - k) /\ k + (j - (k - 1)) = j + 1
      BY <1>1, <2>2
    <3>2. b[j - (k - 1)] = s[j + 1]
      BY <1>3, <3>1
    <3>3. QED BY <1>4, <2>2, <3>2 DEF d
  <2>3. QED BY <1>1, <2>1, <2>2
<1>6. QED BY <1>4, <1>5 DEF RemoveAt, a, b, d

(* Inserting a tab of a new id adds the id, wherever it goes.              *)
LEMMA InsertKeeps ==
  ASSUME NEW s \in Seq(Tab), NEW k \in 1..(Len(s) + 1), NEW e \in Tab,
         Distinct(s), e.id \notin Ids(s)
  PROVE  /\ Distinct(InsertAt(s, k, e))
         /\ Ids(InsertAt(s, k, e)) = Ids(s) \cup {e.id}
         /\ Texts(InsertAt(s, k, e)) \subseteq Texts(s) \cup {e.address}
         /\ InsertAt(s, k, e) # <<>>
<1> DEFINE t == InsertAt(s, k, e)
<1>1. /\ t \in Seq(Tab) /\ Len(s) \in Nat /\ DOMAIN s = 1..Len(s) /\ DOMAIN t = 1..(Len(s) + 1)
      /\ \A j \in 1..(Len(s) + 1) :
           t[j] = IF j < k THEN s[j] ELSE IF j = k THEN e ELSE s[j - 1]
  <2>1. /\ t \in Seq(Tab) /\ Len(t) = Len(s) + 1
        /\ \A j \in 1..(Len(s) + 1) :
             t[j] = IF j < k THEN s[j] ELSE IF j = k THEN e ELSE s[j - 1]
    <3>1. t \in Seq(Tab)
      BY InsertedAt
    <3>2. Len(t) = Len(s) + 1
      BY InsertedAt
    <3>3. ASSUME NEW j \in 1..(Len(s) + 1)
          PROVE  t[j] = IF j < k THEN s[j] ELSE IF j = k THEN e ELSE s[j - 1]
      BY InsertedAt
    <3>4. QED BY <3>1, <3>2, <3>3
  <2> HIDE DEF t
  <2>2. Len(s) \in Nat /\ DOMAIN s = 1..Len(s) /\ DOMAIN t = 1..Len(t)
    BY <2>1, LenProperties
  <2>3. QED BY <2>1, <2>2
<1> HIDE DEF t
<1>2. Distinct(t)
  <2> SUFFICES ASSUME NEW i \in DOMAIN t, NEW j \in DOMAIN t, t[i].id = t[j].id PROVE i = j
    BY DEF Distinct
  <2> DEFINE from(n) == IF n < k THEN n ELSE n - 1
  <2>1. ASSUME NEW n \in DOMAIN t, n # k PROVE from(n) \in DOMAIN s /\ t[n] = s[from(n)]
    BY <1>1, <2>1
  <2>2. ASSUME NEW n \in DOMAIN t, n # k PROVE t[n].id # e.id
    BY <2>1, <2>2 DEF Ids
  <2>3. k \in DOMAIN t /\ t[k] = e
    BY <1>1
  <2>4. CASE i = k \/ j = k
    BY <2>2, <2>3, <2>4
  <2>5. CASE i # k /\ j # k
    <3>1. from(i) = from(j)
      BY <2>1, <2>5 DEF Distinct
    <3>2. QED BY <1>1, <2>5, <3>1
  <2>6. QED BY <2>4, <2>5
<1>3. Ids(t) \subseteq Ids(s) \cup {e.id} /\ Texts(t) \subseteq Texts(s) \cup {e.address}
  <2>1. \A j \in DOMAIN t : t[j] = e \/ \E i \in DOMAIN s : t[j] = s[i]
    <3> TAKE j \in DOMAIN t
    <3>1. CASE j < k
      <4>1. j \in DOMAIN s /\ t[j] = s[j]
        BY <1>1, <3>1
      <4>2. QED BY <4>1
    <3>2. CASE j = k
      BY <1>1, <3>2
    <3>3. CASE j > k
      <4>1. j - 1 \in DOMAIN s /\ t[j] = s[j - 1]
        BY <1>1, <3>3
      <4>2. QED BY <4>1
    <3>4. QED BY <1>1, <3>1, <3>2, <3>3
  <2>2. QED BY <2>1 DEF Ids, Texts
<1>4. e.id \in Ids(t)
  <2>1. k \in DOMAIN t /\ t[k] = e
    BY <1>1
  <2>2. QED BY <2>1 DEF Ids
<1>5. ASSUME NEW i \in DOMAIN s PROVE s[i].id \in Ids(t)
  <2>1. CASE i < k
    BY <1>1, <2>1 DEF Ids
  <2>2. CASE ~(i < k)
    <3>1. i + 1 \in DOMAIN t /\ t[i + 1] = s[i]
      BY <1>1, <2>2
    <3>2. QED BY <3>1 DEF Ids
  <2>3. QED BY <2>1, <2>2
<1>6. t # <<>>
  BY <1>1
<1>7. QED BY <1>2, <1>3, <1>4, <1>5, <1>6 DEF t, Ids

(* Removing a tab takes its id, and no other.                              *)
LEMMA RemoveKeeps ==
  ASSUME NEW s \in Seq(Tab), NEW k \in 1..Len(s), Distinct(s)
  PROVE  /\ Distinct(RemoveAt(s, k))
         /\ Ids(RemoveAt(s, k)) = Ids(s) \ {s[k].id}
         /\ Texts(RemoveAt(s, k)) \subseteq Texts(s)
<1> DEFINE t == RemoveAt(s, k)
<1>1. /\ t \in Seq(Tab) /\ Len(s) \in Nat /\ DOMAIN s = 1..Len(s) /\ DOMAIN t = 1..(Len(s) - 1)
      /\ \A j \in 1..(Len(s) - 1) : t[j] = IF j < k THEN s[j] ELSE s[j + 1]
  <2>1. /\ t \in Seq(Tab) /\ Len(t) = Len(s) - 1
        /\ \A j \in 1..(Len(s) - 1) : t[j] = IF j < k THEN s[j] ELSE s[j + 1]
    BY RemovedAt
  <2> HIDE DEF t
  <2>2. Len(s) \in Nat /\ DOMAIN s = 1..Len(s) /\ DOMAIN t = 1..Len(t)
    BY <2>1, LenProperties
  <2>3. QED BY <2>1, <2>2
<1> HIDE DEF t
<1>2. Distinct(t)
  <2> SUFFICES ASSUME NEW i \in DOMAIN t, NEW j \in DOMAIN t, t[i].id = t[j].id PROVE i = j
    BY DEF Distinct
  <2> DEFINE from(n) == IF n < k THEN n ELSE n + 1
  <2>1. from(i) \in DOMAIN s /\ from(j) \in DOMAIN s /\ t[i] = s[from(i)] /\ t[j] = s[from(j)]
    BY <1>1
  <2>2. from(i) = from(j)
    BY <2>1 DEF Distinct
  <2>3. QED BY <1>1, <2>2
<1>3. Ids(t) \subseteq Ids(s) \ {s[k].id} /\ Texts(t) \subseteq Texts(s)
  <2>1. \A j \in DOMAIN t : \E i \in DOMAIN s : i # k /\ t[j] = s[i]
    BY <1>1
  <2>2. Ids(t) \subseteq Ids(s) \ {s[k].id}
    BY <2>1 DEF Ids, Distinct
  <2>3. Texts(t) \subseteq Texts(s)
    BY <2>1 DEF Texts
  <2>4. QED BY <2>2, <2>3
<1>4. ASSUME NEW i \in DOMAIN s, i # k PROVE s[i].id \in Ids(t)
  <2>1. CASE i < k
    BY <1>1, <2>1 DEF Ids
  <2>2. CASE ~(i < k)
    <3>1. i - 1 \in DOMAIN t /\ t[i - 1] = s[i]
      BY <1>1, <1>4, <2>2
    <3>2. QED BY <3>1 DEF Ids
  <2>3. QED BY <2>1, <2>2
<1>5. QED BY <1>2, <1>3, <1>4 DEF t, Ids

(* reindex_positions puts every tab in place and changes nothing else.     *)
LEMMA Reindexed ==
  ASSUME NEW s \in Seq(Tab)
  PROVE  /\ Reindex(s) \in Seq(Tab)
         /\ DOMAIN Reindex(s) = DOMAIN s /\ Len(Reindex(s)) = Len(s)
         /\ \A i \in DOMAIN s : Reindex(s)[i].id = s[i].id /\ Reindex(s)[i].address = s[i].address
         /\ InPlace(Reindex(s))
<1>1. DOMAIN s = 1..Len(s) /\ Len(s) \in Nat /\ \A i \in DOMAIN s : s[i] \in Tab
  BY LenProperties
<1>2. ASSUME NEW i \in DOMAIN s
      PROVE  /\ [s[i] EXCEPT !.position = i - 1] \in Tab
             /\ [s[i] EXCEPT !.position = i - 1].id = s[i].id
             /\ [s[i] EXCEPT !.position = i - 1].address = s[i].address
             /\ [s[i] EXCEPT !.position = i - 1].position = i - 1
  <2>1. s[i] \in Tab /\ i - 1 \in Nat
    BY <1>1
  <2>2. QED BY <2>1 DEF Tab
<1>3. /\ DOMAIN Reindex(s) = 1..Len(s)
      /\ \A i \in DOMAIN s : Reindex(s)[i] = [s[i] EXCEPT !.position = i - 1]
      /\ Reindex(s) \in [1..Len(s) -> Tab]
  BY <1>1, <1>2 DEF Reindex
<1>4. Reindex(s) \in Seq(Tab) /\ Len(Reindex(s)) = Len(s)
  BY <1>1, <1>3
<1>5. QED BY <1>1, <1>2, <1>3, <1>4 DEF InPlace

LEMMA ReindexKeeps ==
  ASSUME NEW s \in Seq(Tab), Distinct(s)
  PROVE  /\ Distinct(Reindex(s)) /\ Ids(Reindex(s)) = Ids(s) /\ Texts(Reindex(s)) = Texts(s)
         /\ Reindex(s) = <<>> <=> s = <<>>
<1>1. /\ DOMAIN Reindex(s) = DOMAIN s
      /\ \A i \in DOMAIN s : Reindex(s)[i].id = s[i].id /\ Reindex(s)[i].address = s[i].address
  BY Reindexed
<1>2. Distinct(Reindex(s)) /\ Ids(Reindex(s)) = Ids(s) /\ Texts(Reindex(s)) = Texts(s)
  BY <1>1 DEF Distinct, Ids, Texts
<1>3. Reindex(s) = <<>> <=> s = <<>>
  BY Reindexed
<1>4. QED BY <1>2, <1>3

LEMMA IdsAreNat == ASSUME NEW s \in Seq(Tab) PROVE Ids(s) \subseteq Nat
<1>1. \A i \in DOMAIN s : s[i] \in Tab
  BY LenProperties
<1>2. QED BY <1>1 DEF Ids, Tab

LEMMA IndexOfIs ==
  ASSUME NEW s \in Seq(Tab), NEW id \in Ids(s)
  PROVE  IndexOf(s, id) \in 1..Len(s) /\ s[IndexOf(s, id)].id = id
<1>1. \E i \in DOMAIN s : s[i].id = id
  BY DEF Ids
<1>2. QED BY <1>1 DEF IndexOf

LEMMA MintedIds ==
  ASSUME NEW s \in Seq(Tab), NEW next \in Nat
  PROVE  Minted(s, next) <=> \A id \in Ids(s) : id < next
BY DEF Minted, Ids

LEMMA WindowWith ==
  ASSUME NEW win \in Window, NEW tabs, NEW active
  PROVE  [win EXCEPT !.tabs = tabs, !.active = active] =
           [kind |-> win.kind, tabs |-> tabs, active |-> active]
<1>1. [win EXCEPT !.tabs = tabs] = [kind |-> win.kind, tabs |-> tabs, active |-> win.active]
  BY DEF Window
<1>2. [[kind |-> win.kind, tabs |-> tabs, active |-> win.active] EXCEPT !.active = active]
        = [kind |-> win.kind, tabs |-> tabs, active |-> active]
  OBVIOUS
<1>3. [win EXCEPT !.tabs = tabs, !.active = active]
        = [[win EXCEPT !.tabs = tabs] EXCEPT !.active = active]
  OBVIOUS
<1>4. QED BY <1>1, <1>2, <1>3

LEMMA WindowWithTabs ==
  ASSUME NEW win \in Window, NEW tabs
  PROVE  [win EXCEPT !.tabs = tabs] = [kind |-> win.kind, tabs |-> tabs, active |-> win.active]
BY DEF Window

(* A window is as it should be when its tabs were reindexed last.          *)
LEMMA ReindexedWindow ==
  ASSUME NEW next \in Nat, NEW kind \in Kinds, NEW s \in Seq(Tab), NEW active,
         Distinct(s), \A id \in Ids(s) : id < next, ActiveOK(s, active),
         Texts(s) \subseteq AddressesOf(kind)
  PROVE  WindowOK([kind |-> kind, tabs |-> Reindex(s), active |-> active], next)
<1> DEFINE win == [kind |-> kind, tabs |-> Reindex(s), active |-> active]
<1>1. active \in Nat \cup {NoTab}
  <2>1. QED BY IdsAreNat DEF ActiveOK
<1>2. win \in Window /\ InPlace(win.tabs)
  BY <1>1, Reindexed DEF Window
<1>3. /\ Distinct(win.tabs) /\ ActiveOK(win.tabs, win.active) /\ Minted(win.tabs, next)
      /\ Texts(win.tabs) \subseteq AddressesOf(kind)
  BY ReindexKeeps, Reindexed, MintedIds DEF ActiveOK
<1>4. QED BY <1>2, <1>3 DEF WindowOK

(***************************************************************************)
(* The operations on a window                                              *)
(***************************************************************************)

LEMMA AddressesOfKind == ASSUME NEW kind PROVE AddressesOf(kind) \subseteq Addresses
BY DEF AddressesOf, Addresses

LEMMA OpenKeeps ==
  ASSUME NEW next \in Nat, NEW win, WindowOK(win, next), NEW address \in AddressesOf(win.kind)
  PROVE  WindowOK(OpenTab(win, next, address), next + 1)
<1> DEFINE s == win.tabs
           e == [id |-> next, position |-> Len(s), address |-> address, lifecycle |-> "Loading"]
           active == IF win.active = NoTab THEN next ELSE win.active
<1>1. /\ win.kind \in Kinds /\ s \in Seq(Tab) /\ Len(s) \in Nat /\ e \in Tab
      /\ OpenTab(win, next, address) = [kind |-> win.kind, tabs |-> Append(s, e), active |-> active]
  <2>1. win \in Window
    BY DEF WindowOK
  <2>2. win.kind \in Kinds /\ s \in Seq(Tab) /\ Len(s) \in Nat
    BY <2>1, LenProperties DEF Window
  <2>3. e \in Tab
    BY <2>2, AddressesOfKind DEF Tab, Lifecycles
  <2>4. OpenTab(win, next, address) = [kind |-> win.kind, tabs |-> Append(s, e), active |-> active]
    BY <2>1, WindowWith DEF OpenTab
  <2>5. QED BY <2>2, <2>3, <2>4
<1>2. /\ Append(s, e) \in Seq(Tab) /\ DOMAIN Append(s, e) = 1..(Len(s) + 1) /\ DOMAIN s = 1..Len(s)
      /\ \A i \in 1..Len(s) : Append(s, e)[i] = s[i]
      /\ Append(s, e)[Len(s) + 1] = e
  BY <1>1, AppendProperties
<1>3. e.id = next /\ e.position = Len(s) /\ e.address = address
  OBVIOUS
<1>4. /\ InPlace(s) /\ Distinct(s) /\ Minted(s, next) /\ ActiveOK(s, win.active)
      /\ Texts(s) \subseteq AddressesOf(win.kind)
  BY DEF WindowOK
<1>5. active \in Nat
  BY DEF WindowOK, Window
<1> HIDE DEF s, e
<1>6. InPlace(Append(s, e)) /\ Distinct(Append(s, e)) /\ Minted(Append(s, e), next + 1)
  <2>1. InPlace(Append(s, e))
    BY <1>1, <1>2, <1>3, <1>4 DEF InPlace
  <2>2. \A i \in 1..Len(s) : s[i].id \in Nat /\ s[i].id < next
    <3>1. \A i \in 1..Len(s) : s[i] \in Tab
      BY <1>1, LenProperties
    <3>2. QED BY <1>2, <1>4, <3>1 DEF Minted, Tab
  <2>3. Distinct(Append(s, e))
    BY <1>1, <1>2, <1>3, <1>4, <2>2 DEF Distinct
  <2>4. Minted(Append(s, e), next + 1)
    BY <1>1, <1>2, <1>3, <2>2 DEF Minted
  <2>5. QED BY <2>1, <2>3, <2>4
<1>7. ActiveOK(Append(s, e), active)
  <2>1. next \in Ids(Append(s, e)) /\ Ids(s) \subseteq Ids(Append(s, e))
    BY <1>1, <1>2, <1>3 DEF Ids
  <2>2. win.active = NoTab \/ win.active \in Ids(s)
    BY <1>4 DEF ActiveOK
  <2>3. Append(s, e) # <<>>
    BY <1>1, <1>2
  <2>4. QED BY <2>1, <2>2, <2>3 DEF ActiveOK
<1>8. [kind |-> win.kind, tabs |-> Append(s, e), active |-> active] \in Window
  BY <1>1, <1>2, <1>5 DEF Window
<1>9. Texts(Append(s, e)) \subseteq AddressesOf(win.kind)
  BY <1>1, <1>2, <1>3, <1>4 DEF Texts
<1>10. QED BY <1>1, <1>6, <1>7, <1>8, <1>9 DEF WindowOK

LEMMA CardinalityUpTo ==
  ASSUME NEW n \in Nat
  PROVE  IsFiniteSet(1..n) /\ Cardinality(1..n) = n
<1>1. Cardinality(1..n) = IF 1 > n THEN 0 ELSE n - 1 + 1
  BY FS_Interval
<1>2. QED BY <1>1, FS_Interval

(* Where a stable sort by position puts a tab is a place there is.         *)
LEMMA ByPosition ==
  ASSUME NEW S, NEW s \in Seq(S), NEW e
  PROVE  \E k \in 1..(Len(s) + 1) : InsertByPosition(s, e) = InsertAt(s, k, e)
<1> DEFINE before == {i \in DOMAIN s : s[i].position <= e.position}
<1>1. DOMAIN s = 1..Len(s) /\ Len(s) \in Nat
  BY LenProperties
<1>2. IsFiniteSet(1..Len(s)) /\ Cardinality(1..Len(s)) = Len(s)
  BY <1>1, CardinalityUpTo
<1>3. before \in SUBSET (1..Len(s))
  BY <1>1
<1>4. Cardinality(before) <= Len(s) /\ IsFiniteSet(before)
  BY <1>2, <1>3, FS_Subset
<1>5. Cardinality(before) \in Nat
  BY <1>4, FS_CardinalityType
<1>6. Cardinality(before) + 1 \in 1..(Len(s) + 1)
  BY <1>1, <1>4, <1>5
<1>7. InsertByPosition(s, e) = InsertAt(s, Cardinality(before) + 1, e)
  BY DEF InsertByPosition
<1>8. QED BY <1>6, <1>7

LEMMA RestoreKeeps ==
  ASSUME NEW next \in Nat, NEW win, WindowOK(win, next),
         NEW address \in AddressesOf(win.kind), NEW stored \in StoredTab({address})
  PROVE  WindowOK(RestoreTab(win, next, stored), next + 1)
<1> DEFINE s == win.tabs
           e == [id |-> next, position |-> stored.position, address |-> stored.address,
                 lifecycle |-> "RestoredNotLoaded"]
           active == IF stored.active \/ win.active = NoTab THEN next ELSE win.active
<1>1. /\ win \in Window /\ win.kind \in Kinds /\ s \in Seq(Tab) /\ e \in Tab
      /\ Distinct(s) /\ ActiveOK(s, win.active) /\ \A id \in Ids(s) : id < next
      /\ Texts(s) \subseteq AddressesOf(win.kind)
  <2>1. /\ win \in Window /\ Distinct(s) /\ Minted(s, next) /\ ActiveOK(s, win.active)
        /\ Texts(s) \subseteq AddressesOf(win.kind)
    BY DEF WindowOK
  <2>2. win.kind \in Kinds /\ s \in Seq(Tab)
    BY <2>1 DEF Window
  <2>3. e \in Tab
    BY AddressesOfKind DEF Tab, StoredTab, Lifecycles
  <2>4. QED BY <2>1, <2>2, <2>3, MintedIds
<1>2. PICK k \in 1..(Len(s) + 1) : InsertByPosition(s, e) = InsertAt(s, k, e)
  BY <1>1, ByPosition
<1> DEFINE t == InsertAt(s, k, e)
<1>3. RestoreTab(win, next, stored) = [kind |-> win.kind, tabs |-> Reindex(t), active |-> active]
  BY <1>1, <1>2, WindowWith DEF RestoreTab
<1>4. e.id = next /\ next \notin Ids(s) /\ e.address \in AddressesOf(win.kind)
  BY <1>1 DEF StoredTab
<1> HIDE DEF e
<1>5. /\ t \in Seq(Tab) /\ Distinct(t) /\ t # <<>>
      /\ Ids(t) = Ids(s) \cup {next} /\ Texts(t) \subseteq AddressesOf(win.kind)
  <2>1. t \in Seq(Tab)
    BY <1>1, <1>4, InsertedAt
  <2>2. /\ Distinct(t) /\ t # <<>> /\ Ids(t) = Ids(s) \cup {next}
        /\ Texts(t) \subseteq Texts(s) \cup {e.address}
    <3> HIDE DEF s
    <3>1. QED BY <1>1, <1>4, InsertKeeps
  <2>3. QED BY <1>1, <1>4, <2>1, <2>2
<1>6. \A id \in Ids(t) : id < next + 1
  BY <1>1, <1>5, IdsAreNat
<1>7. ActiveOK(t, active)
  BY <1>1, <1>5 DEF ActiveOK
<1> HIDE DEF t, active
<1>8. QED BY <1>1, <1>3, <1>5, <1>6, <1>7, ReindexedWindow

LEMMA CloseKeeps ==
  ASSUME NEW next \in Nat, NEW win, WindowOK(win, next), NEW id \in Ids(win.tabs)
  PROVE  WindowOK(CloseTab(win, id), next)
<1> DEFINE s == win.tabs
           i == IndexOf(s, id)
           t == RemoveAt(s, i)
           rest == Reindex(t)
           active == IF win.active # id THEN win.active
                     ELSE IF rest = <<>> THEN NoTab
                     ELSE IF i <= Len(rest) THEN rest[i].id
                     ELSE rest[Len(rest)].id
<1>1. /\ win \in Window /\ win.kind \in Kinds /\ s \in Seq(Tab)
      /\ Distinct(s) /\ ActiveOK(s, win.active) /\ \A x \in Ids(s) : x < next
      /\ Texts(s) \subseteq AddressesOf(win.kind)
  <2>1. /\ win \in Window /\ Distinct(s) /\ Minted(s, next) /\ ActiveOK(s, win.active)
        /\ Texts(s) \subseteq AddressesOf(win.kind)
    BY DEF WindowOK
  <2>2. win.kind \in Kinds /\ s \in Seq(Tab)
    BY <2>1 DEF Window
  <2>3. QED BY <2>1, <2>2, MintedIds
<1>2. i \in 1..Len(s) /\ s[i].id = id
  BY <1>1, IndexOfIs
<1>3. CloseTab(win, id) = [kind |-> win.kind, tabs |-> rest, active |-> active]
  BY <1>1, WindowWith DEF CloseTab
<1>4. /\ t \in Seq(Tab) /\ Distinct(t) /\ Ids(t) = Ids(s) \ {id}
      /\ Texts(t) \subseteq AddressesOf(win.kind)
  BY <1>1, <1>2, RemovedAt, RemoveKeeps
<1>5. ActiveOK(t, active)
  <2>1. /\ Ids(rest) = Ids(t) /\ (rest = <<>> <=> t = <<>>)
        /\ rest \in Seq(Tab) /\ DOMAIN rest = 1..Len(rest) /\ Len(rest) \in Nat
    BY <1>4, Reindexed, ReindexKeeps, LenProperties
  <2>2. CASE win.active # id
    <3>1. s # <<>> /\ win.active \in Ids(s)
      BY <1>1, <1>2 DEF ActiveOK
    <3>2. win.active \in Ids(t)
      BY <1>4, <2>2, <3>1
    <3>3. t # <<>>
      BY <3>2 DEF Ids
    <3>4. QED BY <2>2, <3>2, <3>3 DEF ActiveOK
  <2>3. CASE win.active = id /\ rest = <<>>
    BY <2>1, <2>3 DEF ActiveOK
  <2>4. CASE win.active = id /\ rest # <<>>
    <3>1. Len(rest) \in 1..Len(rest)
      BY <2>1, <2>4, EmptySeq
    <3>2. \A k \in 1..Len(rest) : rest[k].id \in Ids(rest)
      BY <2>1 DEF Ids
    <3>3. active \in Ids(rest)
      BY <1>2, <2>4, <3>1, <3>2
    <3>4. QED BY <2>1, <2>4, <3>3 DEF ActiveOK
  <2>5. QED BY <2>2, <2>3, <2>4
<1>6. \A x \in Ids(t) : x < next
  BY <1>1, <1>4
<1> HIDE DEF t, active
<1>7. QED BY <1>1, <1>3, <1>4, <1>5, <1>6, ReindexedWindow

LEMMA ReorderKeeps ==
  ASSUME NEW next \in Nat, NEW win, WindowOK(win, next), NEW id \in Ids(win.tabs),
         NEW target \in 0..(Len(win.tabs) - 1)
  PROVE  WindowOK(ReorderTab(win, id, target), next)
<1> DEFINE s == win.tabs
           i == IndexOf(s, id)
           r == RemoveAt(s, i)
           t == InsertAt(r, target + 1, s[i])
<1>1. /\ win \in Window /\ win.kind \in Kinds /\ s \in Seq(Tab)
      /\ Distinct(s) /\ ActiveOK(s, win.active) /\ \A x \in Ids(s) : x < next
      /\ Texts(s) \subseteq AddressesOf(win.kind)
  <2>1. /\ win \in Window /\ Distinct(s) /\ Minted(s, next) /\ ActiveOK(s, win.active)
        /\ Texts(s) \subseteq AddressesOf(win.kind)
    BY DEF WindowOK
  <2>2. win.kind \in Kinds /\ s \in Seq(Tab)
    BY <2>1 DEF Window
  <2>3. QED BY <2>1, <2>2, MintedIds
<1>2. i \in 1..Len(s) /\ s[i].id = id /\ s[i] \in Tab /\ Len(s) \in Nat
  BY <1>1, IndexOfIs, LenProperties
<1>3. /\ r \in Seq(Tab) /\ Len(r) = Len(s) - 1 /\ Distinct(r) /\ Ids(r) = Ids(s) \ {id}
      /\ Texts(r) \subseteq AddressesOf(win.kind)
  <2> HIDE DEF s, i
  <2>1. r \in Seq(Tab) /\ Len(r) = Len(s) - 1
    BY <1>1, <1>2, RemovedAt
  <2>2. Distinct(r) /\ Ids(r) = Ids(s) \ {s[i].id} /\ Texts(r) \subseteq Texts(s)
    BY <1>1, <1>2, RemoveKeeps
  <2>3. QED BY <1>1, <1>2, <2>1, <2>2 DEF s
<1>4. /\ target + 1 \in 1..(Len(r) + 1) /\ s[i].id \notin Ids(r)
      /\ s[i].address \in AddressesOf(win.kind)
  <2>1. s[i].address \in Texts(s)
    BY <1>1, <1>2, LenProperties DEF Texts
  <2>2. QED BY <1>1, <1>2, <1>3, <2>1
<1> HIDE DEF r
<1>5. /\ t \in Seq(Tab) /\ Distinct(t) /\ t # <<>> /\ Ids(t) = Ids(r) \cup {s[i].id}
      /\ Texts(t) \subseteq AddressesOf(win.kind)
  BY <1>2, <1>3, <1>4, InsertedAt, InsertKeeps
<1>6. Ids(t) = Ids(s)
  BY <1>2, <1>3, <1>5
<1>7. ActiveOK(t, win.active)
  <2>1. s # <<>>
    BY <1>2
  <2>2. QED BY <1>1, <1>5, <1>6, <2>1 DEF ActiveOK
<1>8. ReorderTab(win, id, target) = [kind |-> win.kind, tabs |-> Reindex(t), active |-> win.active]
  <2>1. ReorderTab(win, id, target) = [win EXCEPT !.tabs = Reindex(t)]
    BY DEF ReorderTab, r
  <2>2. QED BY <1>1, <2>1 DEF Window
<1> HIDE DEF t
<1>9. QED BY <1>1, <1>5, <1>6, <1>7, <1>8, ReindexedWindow

(* A change of a tab's address or lifecycle moves nothing.                 *)
LEMMA ChangedTab ==
  ASSUME NEW next \in Nat, NEW win, WindowOK(win, next),
         NEW i \in DOMAIN win.tabs, NEW entry \in Tab, NEW active \in {win.active} \cup Ids(win.tabs),
         entry.id = win.tabs[i].id, entry.position = win.tabs[i].position,
         entry.address \in AddressesOf(win.kind)
  PROVE  WindowOK([kind |-> win.kind, tabs |-> [win.tabs EXCEPT ![i] = entry], active |-> active],
                  next)
<1> DEFINE s == win.tabs
           t == [s EXCEPT ![i] = entry]
<1>1. /\ win.kind \in Kinds /\ s \in Seq(Tab) /\ win.active \in Nat \cup {NoTab}
      /\ InPlace(s) /\ Distinct(s) /\ Minted(s, next) /\ ActiveOK(s, win.active)
      /\ Texts(s) \subseteq AddressesOf(win.kind)
  BY DEF WindowOK, Window
<1>2. DOMAIN s = 1..Len(s) /\ Len(s) \in Nat
  BY <1>1, LenProperties
<1>3. /\ t \in Seq(Tab) /\ DOMAIN t = DOMAIN s
      /\ \A j \in DOMAIN s : t[j].id = s[j].id /\ t[j].position = s[j].position
      /\ Texts(t) \subseteq AddressesOf(win.kind)
  <2>1. /\ t \in Seq(Tab) /\ DOMAIN t = DOMAIN s
        /\ \A j \in DOMAIN s : t[j] = IF j = i THEN entry ELSE s[j]
    BY <1>1, <1>2, ExceptSeq
  <2> HIDE DEF t
  <2>2. Texts(t) \subseteq AddressesOf(win.kind)
    BY <1>1, <2>1 DEF Texts
  <2>3. QED BY <2>1, <2>2
<1> HIDE DEF t
<1>4. InPlace(t) /\ Distinct(t) /\ Minted(t, next) /\ Ids(t) = Ids(s)
  <2>1. InPlace(t) BY <1>1, <1>3 DEF InPlace
  <2>2. Distinct(t) BY <1>1, <1>3 DEF Distinct
  <2>3. Minted(t, next) BY <1>1, <1>3 DEF Minted
  <2>4. Ids(t) = Ids(s) BY <1>3 DEF Ids
  <2>5. QED BY <2>1, <2>2, <2>3, <2>4
<1>5. ActiveOK(t, active) /\ active \in Nat \cup {NoTab}
  <2>1. s # <<>> /\ t # <<>>
    BY <1>2, <1>3
  <2>2. QED BY <1>1, <1>4, <2>1, IdsAreNat DEF ActiveOK
<1>6. [kind |-> win.kind, tabs |-> t, active |-> active] \in Window
  BY <1>1, <1>3, <1>5 DEF Window
<1>7. QED BY <1>3, <1>4, <1>5, <1>6 DEF WindowOK, t

LEMMA ActivateKeeps ==
  ASSUME NEW next \in Nat, NEW win, WindowOK(win, next), NEW id \in Ids(win.tabs)
  PROVE  WindowOK(ActivateTab(win, id), next)
<1> DEFINE s == win.tabs
           i == IndexOf(s, id)
           entry == [s[i] EXCEPT !.lifecycle = CASE @ = "RestoredNotLoaded" -> "Loading"
                                              [] @ = "Suspended" -> "Live"
                                              [] OTHER -> @]
<1>1. win \in Window /\ s \in Seq(Tab)
  BY DEF WindowOK, Window
<1>2. i \in DOMAIN s /\ s[i] \in Tab
  BY <1>1, IndexOfIs, LenProperties
<1>3. /\ entry \in Tab /\ entry.id = s[i].id /\ entry.position = s[i].position
      /\ entry.address \in AddressesOf(win.kind)
  <2>1. entry \in Tab /\ entry.id = s[i].id /\ entry.position = s[i].position /\ entry.address = s[i].address
    BY <1>2 DEF Tab, Lifecycles
  <2>2. QED BY <1>2, <2>1 DEF WindowOK, Texts
<1>4. ActivateTab(win, id) = [win EXCEPT !.tabs = [s EXCEPT ![i] = entry], !.active = id]
  BY DEF ActivateTab
<1> HIDE DEF entry, i
<1>5. WindowOK([kind |-> win.kind, tabs |-> [s EXCEPT ![i] = entry], active |-> id], next)
  BY <1>2, <1>3, ChangedTab
<1>6. ActivateTab(win, id) = [kind |-> win.kind, tabs |-> [s EXCEPT ![i] = entry], active |-> id]
  BY <1>1, <1>4, WindowWith
<1>7. QED BY <1>5, <1>6

(***************************************************************************)
(* The steps                                                               *)
(***************************************************************************)

(* One window becomes another that is as it should be.                     *)
LEMMA UpdatedWindow ==
  ASSUME Inv, NEW w \in DOMAIN windows, NEW win, nextTab' \in Nat, nextTab <= nextTab',
         windows' = [windows EXCEPT ![w] = win], WindowOK(win, nextTab')
  PROVE  Inv'
<1>1. win \in Window
  BY DEF WindowOK
<1>2. windows' \in Seq(Window) /\ DOMAIN windows' = DOMAIN windows
  BY <1>1, ExceptSeq, LenProperties DEF Inv
<1>3. ASSUME NEW v \in DOMAIN windows PROVE WindowOK(windows'[v], nextTab')
  <2>1. CASE v = w
    BY <2>1, <1>3 DEF Inv
  <2>2. CASE v # w
    <3>1. windows'[v] = windows[v] /\ WindowOK(windows[v], nextTab)
      BY <2>2, <1>3 DEF Inv
    <3>2. windows[v].tabs \in Seq(Tab)
      BY <3>1 DEF WindowOK, Window
    <3>3. Minted(windows[v].tabs, nextTab')
      <4>1. \A i \in DOMAIN windows[v].tabs : windows[v].tabs[i] \in Tab
        BY <3>2, LenProperties
      <4>2. \A i \in DOMAIN windows[v].tabs : windows[v].tabs[i].id \in Nat
        BY <4>1 DEF Tab
      <4>3. nextTab \in Nat
        BY DEF Inv
      <4>4. QED BY <3>1, <4>2, <4>3 DEF WindowOK, Minted
    <3>4. QED BY <3>1, <3>3 DEF WindowOK
  <2>3. QED BY <2>1, <2>2
<1>4. QED BY <1>2, <1>3 DEF Inv

LEMMA InvStep == Inv /\ [StripNext]_stripVars => Inv'
<1> SUFFICES ASSUME Inv, [StripNext]_stripVars PROVE Inv'
  OBVIOUS
<1>1. nextTab \in Nat /\ windows \in Seq(Window) /\ DOMAIN windows = 1..Len(windows)
      /\ \A w \in DOMAIN windows : windows[w] \in Window /\ WindowOK(windows[w], nextTab)
  BY LenProperties DEF Inv, WindowOK
<1>2. ASSUME NEW kind \in Kinds, OpenWindow(kind) PROVE Inv'
  <2>1. NewWindow(kind) \in Window /\ NewWindow(kind).tabs = <<>> /\ NewWindow(kind).active = NoTab
    BY DEF NewWindow, Window
  <2>2. WindowOK(NewWindow(kind), nextTab)
    <3>1. DOMAIN <<>> = {}
      OBVIOUS
    <3>2. QED BY <2>1, <3>1 DEF WindowOK, InPlace, Distinct, Minted, ActiveOK, Texts
  <2>3. /\ windows' \in Seq(Window) /\ Len(windows') = Len(windows) + 1
        /\ \A w \in 1..Len(windows) : windows'[w] = windows[w]
        /\ windows'[Len(windows) + 1] = NewWindow(kind)
    BY <1>1, <1>2, <2>1, AppendProperties DEF OpenWindow
  <2>4. DOMAIN windows' = 1..(Len(windows) + 1) /\ nextTab' = nextTab /\ Len(windows) \in Nat
    BY <1>1, <1>2, <2>3, LenProperties DEF OpenWindow
  <2>5. \A w \in DOMAIN windows' : WindowOK(windows'[w], nextTab)
    BY <1>1, <2>2, <2>3, <2>4
  <2>6. QED BY <1>1, <2>3, <2>4, <2>5 DEF Inv
<1>3. ASSUME NEW w \in DOMAIN windows, CloseWindow(w) PROVE Inv'
  <2>1. /\ windows' \in Seq(Window) /\ Len(windows') = Len(windows) - 1 /\ Len(windows) \in Nat
        /\ \A v \in 1..(Len(windows) - 1) :
             windows'[v] = IF v < w THEN windows[v] ELSE windows[v + 1]
        /\ nextTab' = nextTab
    BY <1>1, <1>3, RemovedAt, LenProperties DEF CloseWindow
  <2>2. DOMAIN windows' = 1..(Len(windows) - 1)
    BY <2>1, LenProperties
  <2>3. ASSUME NEW v \in DOMAIN windows' PROVE WindowOK(windows'[v], nextTab)
    <3>1. v \in DOMAIN windows /\ v + 1 \in DOMAIN windows
      BY <1>1, <2>1, <2>2
    <3>2. windows'[v] = windows[v] \/ windows'[v] = windows[v + 1]
      BY <2>1, <2>2
    <3>3. QED BY <1>1, <3>1, <3>2
  <2>4. QED BY <1>1, <2>1, <2>3 DEF Inv
<1>4. ASSUME NEW w \in DOMAIN windows, Open(w) PROVE Inv'
  <2>1. PICK address \in AddressesOf(windows[w].kind) :
          windows' = [windows EXCEPT ![w] = OpenTab(windows[w], nextTab, address)]
    BY <1>4 DEF Open
  <2>3. nextTab' = nextTab + 1
    BY <1>4 DEF Open
  <2>4. WindowOK(OpenTab(windows[w], nextTab, address), nextTab')
    BY <1>1, <2>3, OpenKeeps
  <2>5. nextTab' \in Nat /\ nextTab <= nextTab'
    BY <1>1, <2>3
  <2>6. QED BY <2>1, <2>4, <2>5, UpdatedWindow
<1>6. ASSUME NEW w \in DOMAIN windows, NEW id \in Ids(windows[w].tabs),
             \/ Activate(w, id) \/ Close(w, id) \/ Reorder(w, id)
             \/ Suspend(w, id) \/ Resume(w, id) \/ Loaded(w, id) \/ Navigated(w, id)
      PROVE  Inv'
  <2>1. ASSUME NEW win, WindowOK(win, nextTab), Update(w, win) PROVE Inv'
    <3>1. windows' = [windows EXCEPT ![w] = win] /\ nextTab' = nextTab
      BY <2>1 DEF Update
    <3>2. WindowOK(win, nextTab') /\ nextTab' \in Nat /\ nextTab <= nextTab'
      BY <1>1, <2>1, <3>1
    <3>3. QED BY <3>1, <3>2, UpdatedWindow
  <2> DEFINE s == windows[w].tabs
             i == IndexOf(s, id)
  <2>2. /\ windows[w] \in Window /\ s \in Seq(Tab) /\ i \in DOMAIN s /\ s[i] \in Tab
        /\ windows[w].kind \in Kinds /\ s[i].address \in AddressesOf(windows[w].kind)
    <3>1. windows[w] \in Window /\ s \in Seq(Tab) /\ windows[w].kind \in Kinds
      BY <1>1 DEF Window
    <3>2. i \in DOMAIN s /\ s[i] \in Tab
      BY <3>1, IndexOfIs, LenProperties
    <3>3. s[i].address \in AddressesOf(windows[w].kind)
      BY <1>1, <3>2 DEF WindowOK, Texts
    <3>4. QED BY <3>1, <3>2, <3>3
  <2>3. CASE Activate(w, id)
    BY <1>1, <2>1, <2>3, ActivateKeeps DEF Activate
  <2>4. CASE Close(w, id)
    BY <1>1, <2>1, <2>4, CloseKeeps DEF Close
  <2>5. CASE Reorder(w, id)
    <3>1. PICK target \in 0..(Len(s) - 1) : Update(w, ReorderTab(windows[w], id, target))
      BY <2>5 DEF Reorder
    <3>2. WindowOK(ReorderTab(windows[w], id, target), nextTab)
      BY <1>1, ReorderKeeps
    <3>3. QED BY <2>1, <3>1, <3>2
  <2>6. ASSUME NEW from, NEW to \in Lifecycles, SetLifecycle(w, id, from, to) PROVE Inv'
    <3> DEFINE entry == [s[i] EXCEPT !.lifecycle = to]
    <3>1. /\ entry \in Tab /\ entry.id = s[i].id /\ entry.position = s[i].position
          /\ entry.address \in AddressesOf(windows[w].kind)
      <4>1. entry \in Tab /\ entry.id = s[i].id /\ entry.position = s[i].position
            /\ entry.address = s[i].address
        BY <2>2 DEF Tab
      <4>2. QED BY <2>2, <4>1
    <3>2. [windows[w] EXCEPT !.tabs[i].lifecycle = to] = [windows[w] EXCEPT !.tabs = [s EXCEPT ![i] = entry]]
      OBVIOUS
    <3> HIDE DEF entry
    <3>3. [windows[w] EXCEPT !.tabs = [s EXCEPT ![i] = entry]]
            = [kind |-> windows[w].kind, tabs |-> [s EXCEPT ![i] = entry], active |-> windows[w].active]
      BY <2>2, WindowWithTabs
    <3>4. WindowOK([windows[w] EXCEPT !.tabs[i].lifecycle = to], nextTab)
      <4> HIDE DEF i
      <4>1. WindowOK([kind |-> windows[w].kind, tabs |-> [s EXCEPT ![i] = entry],
                      active |-> windows[w].active], nextTab)
        BY <1>1, <2>2, <3>1, ChangedTab
      <4>2. QED BY <3>2, <3>3, <4>1
    <3>5. QED BY <2>1, <2>6, <3>4 DEF SetLifecycle
  <2>7. CASE Suspend(w, id) \/ Resume(w, id) \/ Loaded(w, id)
    BY <2>6, <2>7 DEF Suspend, Resume, Loaded, Lifecycles
  <2>8. CASE Navigated(w, id)
    <3>1. PICK address \in AddressesOf(windows[w].kind) :
            Update(w, [windows[w] EXCEPT !.tabs[i].address = address])
      BY <2>8 DEF Navigated
    <3> DEFINE entry == [s[i] EXCEPT !.address = address]
    <3>2. /\ entry \in Tab /\ entry.id = s[i].id /\ entry.position = s[i].position
          /\ entry.address = address
      <4>1. address \in Addresses
        BY AddressesOfKind
      <4>2. QED BY <2>2, <4>1 DEF Tab
    <3>3. [windows[w] EXCEPT !.tabs[i].address = address] = [windows[w] EXCEPT !.tabs = [s EXCEPT ![i] = entry]]
      OBVIOUS
    <3> HIDE DEF entry
    <3>4. [windows[w] EXCEPT !.tabs = [s EXCEPT ![i] = entry]]
            = [kind |-> windows[w].kind, tabs |-> [s EXCEPT ![i] = entry], active |-> windows[w].active]
      BY <2>2, WindowWithTabs
    <3>5. WindowOK([windows[w] EXCEPT !.tabs[i].address = address], nextTab)
      <4> HIDE DEF i
      <4>1. WindowOK([kind |-> windows[w].kind, tabs |-> [s EXCEPT ![i] = entry],
                      active |-> windows[w].active], nextTab)
        BY <1>1, <2>2, <3>2, ChangedTab
      <4>2. QED BY <3>3, <3>4, <4>1
    <3>6. QED BY <2>1, <3>1, <3>5
  <2>9. QED BY <1>6, <2>3, <2>4, <2>5, <2>7, <2>8
<1>7. CASE UNCHANGED stripVars
  BY <1>7 DEF stripVars, Inv
<1>8. QED
  BY <1>2, <1>3, <1>4, <1>6, <1>7 DEF StripNext, Kinds

(***************************************************************************)
(* Recursive functions over the places of a sequence                       *)
(***************************************************************************)

\* Induction, over a set of numbers.
LEMMA NatInductionOnSets ==
  ASSUME NEW S, 0 \in S, \A n \in Nat : n \in S => n + 1 \in S
  PROVE  Nat \subseteq S
<1> DEFINE T == Nat \ S
           R == OpToRel(<, Nat)
<1> SUFFICES ASSUME T # {} PROVE FALSE
  OBVIOUS
<1>1. PICK x \in T : \A y \in T : ~ (<<y, x>> \in R)
  BY NatLessThanWellFounded, WFMin
<1>2. x \in Nat /\ x # 0 /\ x - 1 \in Nat
  OBVIOUS
<1>3. <<x - 1, x>> \in R
  BY <1>2 DEF OpToRel
<1>4. x - 1 \in S
  BY <1>1, <1>2, <1>3
<1>5. (x - 1) + 1 = x
  BY <1>2
<1>6. QED BY <1>2, <1>4, <1>5

Folds(g, n, base, step) ==
  g = [k \in 0..n |-> IF k = 0 THEN base ELSE step[<<g[k - 1], k>>]]

\* There is the function that is base at 0 and goes on by step.
LEMMA FoldExists ==
  ASSUME NEW S, NEW n \in Nat, NEW base \in S, NEW step \in [S \X (1..n) -> S]
  PROVE  \E g \in [0..n -> S] : Folds(g, n, base, step)
<1> DEFINE Upto(m, g) == g[0] = base /\ \A k \in 1..m : g[k] = step[<<g[k - 1], k>>]
           Built == {m \in Nat : m <= n => \E g \in [0..m -> S] : Upto(m, g)}
<1>1. 0 \in Built
  <2> DEFINE g == [k \in 0..0 |-> base]
  <2>1. g \in [0..0 -> S] /\ g[0] = base /\ 1..0 = {}
    OBVIOUS
  <2>2. QED BY <2>1
<1>2. ASSUME NEW m \in Nat, m \in Built PROVE m + 1 \in Built
  <2> SUFFICES ASSUME m + 1 <= n PROVE \E g \in [0..(m + 1) -> S] : Upto(m + 1, g)
    OBVIOUS
  <2>1. PICK h \in [0..m -> S] : Upto(m, h)
    BY <1>2
  <2> DEFINE new == step[<<h[m], m + 1>>]
             g == [k \in 0..(m + 1) |-> IF k = m + 1 THEN new ELSE h[k]]
  <2>2. new \in S
    <3>1. h[m] \in S /\ m + 1 \in 1..n
      OBVIOUS
    <3>2. QED BY <3>1
  <2> HIDE DEF new
  <2>3. g \in [0..(m + 1) -> S] /\ g[m + 1] = new /\ \A k \in 0..m : g[k] = h[k]
    BY <2>2
  <2> HIDE DEF g
  <2>4. g[0] = base
    BY <2>1, <2>3
  <2>5. ASSUME NEW k \in 1..(m + 1) PROVE g[k] = step[<<g[k - 1], k>>]
    <3>1. CASE k = m + 1
      BY <3>1, <2>3 DEF new
    <3>2. CASE k # m + 1
      <4>1. k \in 1..m /\ k \in 0..m /\ k - 1 \in 0..m
        BY <3>2
      <4>2. QED BY <4>1, <2>1, <2>3
    <3>3. QED BY <3>1, <3>2
  <2>6. QED BY <2>3, <2>4, <2>5
<1>3. PICK g \in [0..n -> S] : Upto(n, g)
  <2> HIDE DEF Upto
  <2>1. n \in Built
    <3> HIDE DEF Built
    <3>1. QED BY <1>1, <1>2, NatInductionOnSets
  <2>2. QED BY <2>1
<1> DEFINE f == [k \in 0..n |-> IF k = 0 THEN base ELSE step[<<g[k - 1], k>>]]
<1>4. \A k \in 0..n : g[k] = f[k]
  BY <1>3
<1>5. g = f
  BY <1>4
<1>6. QED BY <1>5 DEF Folds

(***************************************************************************)
(* What the recursive functions of the model compute                       *)
(***************************************************************************)

\* A tab whose position is the next one goes last.
LEMMA InsertLast ==
  ASSUME NEW S, NEW s \in Seq(S), NEW e \in S,
         \A i \in 1..Len(s) : s[i].position = i - 1, e.position = Len(s)
  PROVE  InsertByPosition(s, e) = Append(s, e)
<1> DEFINE before == {i \in DOMAIN s : s[i].position <= e.position}
<1>1. Len(s) \in Nat /\ DOMAIN s = 1..Len(s)
  BY LenProperties
<1>2. before = 1..Len(s)
  BY <1>1
<1>3. Cardinality(1..Len(s)) = Len(s)
  BY <1>1, CardinalityUpTo
<1> DEFINE m == Len(s) + 1
           t == InsertAt(s, m, e)
<1>4. InsertByPosition(s, e) = t
  BY <1>2, <1>3 DEF InsertByPosition
<1>5. /\ t \in Seq(S) /\ Len(t) = Len(s) + 1
      /\ \A j \in 1..(Len(s) + 1) :
           t[j] = IF j < m THEN s[j] ELSE IF j = m THEN e ELSE s[j - 1]
  <2>1. m \in 1..(Len(s) + 1)
    BY <1>1
  <2> HIDE DEF m
  <2>2. QED BY <2>1, InsertedAt
<1> HIDE DEF t
<1>6. /\ Append(s, e) \in Seq(S) /\ Len(Append(s, e)) = Len(s) + 1
      /\ \A j \in 1..(Len(s) + 1) : Append(s, e)[j] = IF j <= Len(s) THEN s[j] ELSE e
  BY <1>1
<1> DEFINE a == Append(s, e)
<1> HIDE DEF a
<1>7. \A j \in 1..(Len(s) + 1) : t[j] = a[j]
  BY <1>1, <1>5, <1>6 DEF a
<1>8. DOMAIN t = 1..(Len(s) + 1) /\ DOMAIN a = 1..(Len(s) + 1)
  BY <1>5, <1>6, LenProperties DEF a
<1>9. t = a
  <2>1. a \in Seq(S)
    BY <1>6 DEF a
  <2>2. t = [j \in DOMAIN t |-> t[j]] /\ a = [j \in DOMAIN a |-> a[j]]
    BY <1>5, <2>1
  <2>3. QED BY <1>7, <1>8, <2>2
<1>10. QED BY <1>4, <1>9 DEF t, a

\* Tabs in their places are in order already: sorting them changes nothing.
LEMMA SortInPlace ==
  ASSUME NEW T, NEW tabs \in Seq(T), \A i \in DOMAIN tabs : tabs[i].position = i - 1
  PROVE  SortTabs(tabs) = tabs
<1> DEFINE UpTo(g) == g = [n \in 0..Len(tabs) |-> IF n = 0 THEN <<>>
                                                  ELSE InsertByPosition(g[n - 1], tabs[n])]
           step == [x \in Seq(T) \X (1..Len(tabs)) |-> InsertByPosition(x[1], tabs[x[2]])]
           f == CHOOSE g : UpTo(g)
<1>1. Len(tabs) \in Nat /\ DOMAIN tabs = 1..Len(tabs) /\ \A i \in 1..Len(tabs) : tabs[i] \in T
  BY LenProperties
<1>2. step \in [Seq(T) \X (1..Len(tabs)) -> Seq(T)]
  <2>1. ASSUME NEW s \in Seq(T), NEW k \in 1..Len(tabs)
        PROVE  InsertByPosition(s, tabs[k]) \in Seq(T)
    <3>1. PICK j \in 1..(Len(s) + 1) : InsertByPosition(s, tabs[k]) = InsertAt(s, j, tabs[k])
      BY ByPosition
    <3>2. QED BY <1>1, <3>1, InsertedAt
  <2>2. QED BY <2>1
<1>3. \E g : UpTo(g)
  <2>1. PICK g \in [0..Len(tabs) -> Seq(T)] : Folds(g, Len(tabs), <<>>, step)
    <3> HIDE DEF step
    <3>1. <<>> \in Seq(T)
      OBVIOUS
    <3>2. QED BY <1>1, <1>2, <3>1, FoldExists
  <2>2. ASSUME NEW n \in 0..Len(tabs), n # 0
        PROVE  step[<<g[n - 1], n>>] = InsertByPosition(g[n - 1], tabs[n])
    <3>1. n \in 1..Len(tabs) /\ g[n - 1] \in Seq(T)
      BY <1>1, <2>2
    <3>2. QED BY <3>1
  <2>3. UpTo(g)
    <3> HIDE DEF step
    <3>1. QED BY <2>1, <2>2 DEF Folds
  <2>4. QED BY <2>3
<1>4. UpTo(f)
  BY <1>3
<1>5. SortTabs(tabs) = f[Len(tabs)]
  BY DEF SortTabs
<1> HIDE DEF f
<1>6. f[0] = <<>> /\ \A n \in 1..Len(tabs) : f[n] = InsertByPosition(f[n - 1], tabs[n])
  <2>1. \A n \in 0..Len(tabs) : f[n] = IF n = 0 THEN <<>> ELSE InsertByPosition(f[n - 1], tabs[n])
    BY <1>4
  <2>2. 0 \in 0..Len(tabs) /\ \A n \in 1..Len(tabs) : n \in 0..Len(tabs) /\ n # 0
    BY <1>1
  <2>3. QED BY <2>1, <2>2
<1> DEFINE Sorted == {n \in Nat : n <= Len(tabs) => f[n] = [i \in 1..n |-> tabs[i]]}
<1>7. 0 \in Sorted
  BY <1>6
<1>8. ASSUME NEW n \in Nat, n \in Sorted PROVE n + 1 \in Sorted
  <2> SUFFICES ASSUME n + 1 <= Len(tabs) PROVE f[n + 1] = [i \in 1..(n + 1) |-> tabs[i]]
    OBVIOUS
  <2> DEFINE s == [i \in 1..n |-> tabs[i]]
             e == tabs[n + 1]
  <2>1. /\ s \in Seq(T) /\ Len(s) = n /\ \A i \in 1..n : s[i] = tabs[i]
        /\ e \in T /\ e.position = n
    BY <1>1
  <2>2. f[n + 1] = InsertByPosition(s, e)
    <3>1. n + 1 \in 1..Len(tabs) /\ (n + 1) - 1 = n
      OBVIOUS
    <3>2. QED BY <1>6, <1>8, <3>1
  <2>3. InsertByPosition(s, e) = Append(s, e)
    <3> HIDE DEF s, e
    <3>1. \A i \in 1..n : s[i].position = i - 1
      BY <1>1, <2>1
    <3>2. QED BY <2>1, <3>1, InsertLast
  <2>4. Append(s, e) = [i \in 1..(n + 1) |-> tabs[i]]
    BY <2>1
  <2>5. QED BY <2>2, <2>3, <2>4
<1>9. Len(tabs) \in Sorted
  <2> HIDE DEF Sorted
  <2>1. QED BY <1>1, <1>7, <1>8, NatInductionOnSets
<1>10. tabs = [i \in 1..Len(tabs) |-> tabs[i]]
  BY <1>1
<1>11. QED BY <1>5, <1>9, <1>10
\* The normal windows are those of the windows that are normal; all of them, if all are.
LEMMA NormalOnesAre ==
  ASSUME NEW T, NEW wins \in Seq(T)
  PROVE  /\ NormalOnes(wins) \in Seq({win \in T : win.kind = "Normal"})
         /\ (\A i \in DOMAIN wins : wins[i].kind = "Normal") => NormalOnes(wins) = wins
<1> DEFINE N == {win \in T : win.kind = "Normal"}
           UpTo(g) == g = [n \in 0..Len(wins) |->
                             IF n = 0 THEN <<>>
                             ELSE IF wins[n].kind = "Normal" THEN Append(g[n - 1], wins[n])
                             ELSE g[n - 1]]
           step == [x \in Seq(N) \X (1..Len(wins)) |->
                      IF wins[x[2]].kind = "Normal" THEN Append(x[1], wins[x[2]]) ELSE x[1]]
           f == CHOOSE g : UpTo(g)
<1>1. Len(wins) \in Nat /\ DOMAIN wins = 1..Len(wins) /\ \A i \in 1..Len(wins) : wins[i] \in T
  BY LenProperties
<1>2. step \in [Seq(N) \X (1..Len(wins)) -> Seq(N)]
  <2>1. ASSUME NEW s \in Seq(N), NEW k \in 1..Len(wins), wins[k].kind = "Normal"
        PROVE  Append(s, wins[k]) \in Seq(N)
    <3>1. wins[k] \in N
      BY <1>1, <2>1
    <3> HIDE DEF N
    <3>2. QED BY <3>1
  <2> HIDE DEF N
  <2>2. QED BY <2>1
<1>3. \E g : UpTo(g)
  <2>1. PICK g \in [0..Len(wins) -> Seq(N)] : Folds(g, Len(wins), <<>>, step)
    <3> HIDE DEF step, N
    <3>1. <<>> \in Seq(N)
      OBVIOUS
    <3>2. QED BY <1>1, <1>2, <3>1, FoldExists
  <2>2. ASSUME NEW n \in 0..Len(wins), n # 0
        PROVE  step[<<g[n - 1], n>>] = IF wins[n].kind = "Normal" THEN Append(g[n - 1], wins[n])
                                       ELSE g[n - 1]
    <3>1. n \in 1..Len(wins) /\ g[n - 1] \in Seq(N)
      BY <1>1, <2>2
    <3> HIDE DEF N
    <3>2. QED BY <3>1
  <2>3. UpTo(g)
    <3> HIDE DEF step, N
    <3>1. QED BY <2>1, <2>2 DEF Folds
  <2>4. QED BY <2>3
<1>4. UpTo(f)
  BY <1>3
<1>5. NormalOnes(wins) = f[Len(wins)]
  BY DEF NormalOnes
<1> HIDE DEF f
<1>6. /\ f[0] = <<>>
      /\ \A n \in 1..Len(wins) : f[n] = IF wins[n].kind = "Normal" THEN Append(f[n - 1], wins[n])
                                        ELSE f[n - 1]
  <2>1. \A n \in 0..Len(wins) : f[n] = IF n = 0 THEN <<>>
                                       ELSE IF wins[n].kind = "Normal" THEN Append(f[n - 1], wins[n])
                                       ELSE f[n - 1]
    BY <1>4
  <2>2. 0 \in 0..Len(wins) /\ \A n \in 1..Len(wins) : n \in 0..Len(wins) /\ n # 0
    BY <1>1
  <2>3. QED BY <2>1, <2>2
<1> DEFINE AllNormal == \A i \in DOMAIN wins : wins[i].kind = "Normal"
           Taken == {n \in Nat : n <= Len(wins) =>
                       f[n] \in Seq(N) /\ (AllNormal => f[n] = [i \in 1..n |-> wins[i]])}
<1>7. 0 \in Taken
  <2>1. <<>> \in Seq(N) /\ <<>> = [i \in 1..0 |-> wins[i]]
    OBVIOUS
  <2> HIDE DEF N, AllNormal
  <2>2. QED BY <1>6, <2>1
<1>8. ASSUME NEW n \in Nat, n \in Taken PROVE n + 1 \in Taken
  <2> SUFFICES ASSUME n + 1 <= Len(wins)
               PROVE  /\ f[n + 1] \in Seq(N)
                      /\ AllNormal => f[n + 1] = [i \in 1..(n + 1) |-> wins[i]]
    OBVIOUS
  <2>1. f[n + 1] = IF wins[n + 1].kind = "Normal" THEN Append(f[n], wins[n + 1]) ELSE f[n]
    <3>1. n + 1 \in 1..Len(wins) /\ (n + 1) - 1 = n
      OBVIOUS
    <3>2. QED BY <1>6, <3>1
  <2>2. f[n] \in Seq(N) /\ (AllNormal => f[n] = [i \in 1..n |-> wins[i]])
    BY <1>8
  <2>3. n + 1 \in DOMAIN wins /\ wins[n + 1] \in T
    BY <1>1
  <2>4. f[n + 1] \in Seq(N)
    <3>1. wins[n + 1].kind = "Normal" => wins[n + 1] \in N
      BY <2>3
    <3> HIDE DEF N
    <3>2. QED BY <2>1, <2>2, <3>1
  <2>5. ASSUME AllNormal PROVE f[n + 1] = [i \in 1..(n + 1) |-> wins[i]]
    <3>1. f[n + 1] = Append([i \in 1..n |-> wins[i]], wins[n + 1])
      BY <2>1, <2>2, <2>3, <2>5
    <3>2. Append([i \in 1..n |-> wins[i]], wins[n + 1]) = [i \in 1..(n + 1) |-> wins[i]]
      BY <1>1
    <3>3. QED BY <3>1, <3>2
  <2>6. QED BY <2>4, <2>5
<1>9. Len(wins) \in Taken
  <2> HIDE DEF Taken
  <2>1. QED BY <1>1, <1>7, <1>8, NatInductionOnSets
<1>10. wins = [i \in 1..Len(wins) |-> wins[i]]
  BY <1>1
<1>11. QED BY <1>1, <1>5, <1>9, <1>10

(***************************************************************************)
(* What is kept of a window, and the window it is restored to              *)
(***************************************************************************)

NormalTexts == {Encode(a) : a \in NormalAddresses}
KeptTab == StoredTab(NormalTexts)
OneActive(stored) ==
  stored # <<>> => \E a \in DOMAIN stored : \A i \in DOMAIN stored : stored[i].active <=> i = a
KeptWindow == {stored \in Seq(KeptTab) : InPlace(stored) /\ OneActive(stored)}

\* The window shows what was stored.
Resembles(win, stored) ==
  /\ Len(win.tabs) = Len(stored)
  /\ \A i \in DOMAIN stored : /\ win.tabs[i].address = Decode(stored[i].address)
                              /\ stored[i].active => win.tabs[i].id = win.active

LEMMA LaterWindow ==
  ASSUME NEW n \in Nat, NEW m \in Nat, n <= m, NEW win, WindowOK(win, n)
  PROVE  WindowOK(win, m)
<1>1. win.tabs \in Seq(Tab)
  BY DEF WindowOK, Window
<1>2. \A i \in DOMAIN win.tabs : win.tabs[i].id \in Nat
  <2>1. \A i \in DOMAIN win.tabs : win.tabs[i] \in Tab
    BY <1>1, LenProperties
  <2>2. QED BY <2>1 DEF Tab
<1>3. Minted(win.tabs, m)
  BY <1>2 DEF WindowOK, Minted
<1>4. QED BY <1>3 DEF WindowOK

LEMMA RestoreTyped ==
  ASSUME NEW win \in Window, NEW id \in Nat, NEW stored \in StoredTab(Addresses)
  PROVE  RestoreTab(win, id, stored) \in Window
<1> DEFINE s == win.tabs
           e == [id |-> id, position |-> stored.position, address |-> stored.address,
                 lifecycle |-> "RestoredNotLoaded"]
           active == IF stored.active \/ win.active = NoTab THEN id ELSE win.active
<1>1. s \in Seq(Tab) /\ win.kind \in Kinds /\ active \in Nat \cup {NoTab}
  BY DEF Window
<1>2. e \in Tab
  BY DEF Tab, StoredTab, Lifecycles
<1>3. PICK k \in 1..(Len(s) + 1) : InsertByPosition(s, e) = InsertAt(s, k, e)
  BY <1>1, ByPosition
<1>4. RestoreTab(win, id, stored)
        = [kind |-> win.kind, tabs |-> Reindex(InsertAt(s, k, e)), active |-> active]
  BY <1>3, WindowWith DEF RestoreTab
<1> HIDE DEF s, e, active
<1>5. InsertAt(s, k, e) \in Seq(Tab)
  BY <1>1, <1>2, InsertedAt
<1>6. Reindex(InsertAt(s, k, e)) \in Seq(Tab)
  BY <1>5, Reindexed
<1>7. QED BY <1>1, <1>4, <1>6 DEF Window

LEMMA NormalAddress == \A a : a \in NormalAddresses <=> a \in AddressesOf("Normal")
BY DEF AddressesOf

(* One tab more, stored at the next place, is restored at the end.         *)
LEMMA RestoreLast ==
  ASSUME NEW win, NEW id \in Nat, WindowOK(win, id), win.kind = "Normal",
         NEW stored \in StoredTab(NormalAddresses), stored.position = Len(win.tabs)
  PROVE  LET new == RestoreTab(win, id, stored)
         IN /\ WindowOK(new, id + 1) /\ new.kind = "Normal"
            /\ Len(new.tabs) = Len(win.tabs) + 1
            /\ \A i \in 1..Len(win.tabs) : /\ new.tabs[i].id = win.tabs[i].id
                                           /\ new.tabs[i].address = win.tabs[i].address
            /\ new.tabs[Len(win.tabs) + 1].id = id
            /\ new.tabs[Len(win.tabs) + 1].address = stored.address
            /\ new.active = IF stored.active \/ win.active = NoTab THEN id ELSE win.active
<1> DEFINE s == win.tabs
           e == [id |-> id, position |-> stored.position, address |-> stored.address,
                 lifecycle |-> "RestoredNotLoaded"]
           active == IF stored.active \/ win.active = NoTab THEN id ELSE win.active
           new == RestoreTab(win, id, stored)
<1>1. /\ win \in Window /\ s \in Seq(Tab) /\ Len(s) \in Nat /\ DOMAIN s = 1..Len(s)
      /\ \A i \in 1..Len(s) : s[i].position = i - 1
  <2>1. win \in Window /\ InPlace(s)
    BY DEF WindowOK
  <2>2. s \in Seq(Tab)
    BY <2>1 DEF Window
  <2>3. QED BY <2>1, <2>2, LenProperties DEF InPlace
<1>2. /\ e \in Tab /\ e.position = Len(s) /\ e.id = id /\ e.address = stored.address
  BY DEF Tab, StoredTab, Lifecycles, Addresses
<1>3. WindowOK(new, id + 1)
  <2>1. stored.address \in AddressesOf(win.kind) /\ stored \in StoredTab({stored.address})
    BY NormalAddress DEF StoredTab
  <2>2. QED BY <2>1, RestoreKeeps
<1>4. new = [kind |-> "Normal", tabs |-> Reindex(Append(s, e)), active |-> active]
  <2>1. InsertByPosition(s, e) = Append(s, e)
    <3> HIDE DEF s, e
    <3>1. QED BY <1>1, <1>2, InsertLast
  <2>2. new = [win EXCEPT !.tabs = Reindex(InsertByPosition(s, e)), !.active = active]
    BY DEF RestoreTab
  <2> HIDE DEF s, e, active, new
  <2>3. QED BY <1>1, <2>1, <2>2, WindowWith
<1> HIDE DEF s, e, active, new
<1>5. /\ Append(s, e) \in Seq(Tab) /\ Len(Append(s, e)) = Len(s) + 1
      /\ DOMAIN Append(s, e) = 1..(Len(s) + 1)
      /\ \A i \in 1..Len(s) : Append(s, e)[i] = s[i]
      /\ Append(s, e)[Len(s) + 1] = e
  BY <1>1, <1>2, AppendProperties
<1> DEFINE t == Append(s, e)
<1> HIDE DEF t
<1>6. /\ Len(Reindex(t)) = Len(s) + 1
      /\ \A i \in 1..(Len(s) + 1) : Reindex(t)[i].id = t[i].id /\ Reindex(t)[i].address = t[i].address
  BY <1>5, Reindexed DEF t
<1>7. /\ \A i \in 1..Len(s) : i \in 1..(Len(s) + 1)
      /\ Len(s) + 1 \in 1..(Len(s) + 1)
  BY <1>1
<1>8. /\ \A i \in 1..Len(s) : /\ Reindex(t)[i].id = s[i].id
                              /\ Reindex(t)[i].address = s[i].address
      /\ Reindex(t)[Len(s) + 1].id = id
      /\ Reindex(t)[Len(s) + 1].address = stored.address
  BY <1>2, <1>5, <1>6, <1>7 DEF t
<1>9. new.tabs = Reindex(t) /\ new.kind = "Normal" /\ new.active = active
  BY <1>4 DEF t
<1>10. QED BY <1>3, <1>6, <1>8, <1>9 DEF s, active, new

(* parse_session_file and restore_into give a window that was kept back as *)
(* a window that is as it should be and shows what was stored.             *)
LEMMA RestoreWindowIs ==
  ASSUME NEW stored \in KeptWindow, NEW first \in Nat
  PROVE  LET win == RestoreWindow(stored, first)
         IN /\ WindowOK(win, first + Len(stored)) /\ win.kind = "Normal"
            /\ Resembles(win, stored)
<1> DEFINE p == [i \in DOMAIN stored |-> [stored[i] EXCEPT !.address = Decode(@)]]
           n == Len(stored)
<1>1. n \in Nat /\ DOMAIN stored = 1..n /\ \A i \in 1..n : stored[i] \in KeptTab
  BY LenProperties DEF KeptWindow
<1>2. /\ p \in Seq(StoredTab(NormalAddresses)) /\ Len(p) = n /\ DOMAIN p = 1..n
      /\ \A i \in 1..n : /\ p[i] \in StoredTab(NormalAddresses)
                         /\ p[i].address = Decode(stored[i].address)
                         /\ p[i].position = i - 1
                         /\ p[i].active = stored[i].active
  <2>1. ASSUME NEW i \in 1..n
        PROVE  /\ p[i] \in StoredTab(NormalAddresses)
               /\ p[i].address = Decode(stored[i].address)
               /\ p[i].position = i - 1
               /\ p[i].active = stored[i].active
    <3>1. stored[i] \in KeptTab /\ stored[i].position = i - 1
      BY <1>1 DEF KeptWindow, InPlace
    <3>2. PICK a \in NormalAddresses : stored[i].address = Encode(a)
      BY <3>1 DEF KeptTab, StoredTab, NormalTexts
    <3>3. Decode(stored[i].address) \in NormalAddresses
      BY <3>2, ReadBackAssumption DEF RoundTrip
    <3>4. p[i] = [stored[i] EXCEPT !.address = Decode(@)]
      BY <1>1
    <3>5. QED BY <3>1, <3>3, <3>4 DEF KeptTab, StoredTab
  <2>2. p = [i \in 1..n |-> p[i]]
    BY <1>1
  <2> HIDE DEF p
  <2>3. p \in Seq(StoredTab(NormalAddresses)) /\ Len(p) = n
    BY <1>1, <2>1, <2>2
  <2>4. QED BY <2>1, <2>3, LenProperties
<1>3. SortTabs(p) = p
  <2> HIDE DEF p
  <2>1. QED BY <1>2, SortInPlace
<1> HIDE DEF p
<1> DEFINE q == SortTabs(p)
           UpTo(g) == g = [k \in 0..Len(q) |->
                             IF k = 0 THEN NewWindow("Normal")
                             ELSE RestoreTab(g[k - 1], first + k - 1, q[k])]
           step == [x \in Window \X (1..n) |-> RestoreTab(x[1], first + x[2] - 1, p[x[2]])]
           f == CHOOSE g : UpTo(g)
<1>4. NewWindow("Normal") \in Window /\ WindowOK(NewWindow("Normal"), first)
      /\ NewWindow("Normal").kind = "Normal" /\ NewWindow("Normal").active = NoTab
      /\ NewWindow("Normal").tabs = <<>>
  <2>1. /\ NewWindow("Normal") \in Window /\ NewWindow("Normal").tabs = <<>>
        /\ NewWindow("Normal").active = NoTab /\ NewWindow("Normal").kind = "Normal"
    BY DEF NewWindow, Window, Kinds
  <2>2. DOMAIN <<>> = {}
    OBVIOUS
  <2>3. QED BY <2>1, <2>2 DEF WindowOK, InPlace, Distinct, Minted, ActiveOK, Texts
<1>5. step \in [Window \X (1..n) -> Window]
  <2>1. ASSUME NEW win \in Window, NEW k \in 1..n
        PROVE  RestoreTab(win, first + k - 1, p[k]) \in Window
    <3>1. first + k - 1 \in Nat /\ p[k] \in StoredTab(Addresses)
      BY <1>1, <1>2 DEF StoredTab, Addresses
    <3>2. QED BY <3>1, RestoreTyped
  <2>2. QED BY <2>1
<1>6. \E g : UpTo(g)
  <2>1. PICK g \in [0..n -> Window] : Folds(g, n, NewWindow("Normal"), step)
    <3> HIDE DEF step
    <3>1. QED BY <1>1, <1>4, <1>5, FoldExists
  <2>2. ASSUME NEW k \in 0..n, k # 0
        PROVE  step[<<g[k - 1], k>>] = RestoreTab(g[k - 1], first + k - 1, p[k])
    <3>1. k \in 1..n /\ g[k - 1] \in Window
      BY <1>1, <2>2
    <3>2. QED BY <3>1
  <2>3. UpTo(g)
    <3> HIDE DEF step
    <3>1. QED BY <1>2, <1>3, <2>1, <2>2 DEF Folds
  <2>4. QED BY <2>3
<1>7. UpTo(f)
  BY <1>6
<1>8. RestoreWindow(stored, first) = f[n]
  <2>1. RestoreWindow(stored, first) = f[Len(q)]
    BY DEF RestoreWindow, p
  <2>2. QED BY <1>2, <1>3, <2>1
<1> HIDE DEF f
<1>9. /\ f[0] = NewWindow("Normal")
      /\ \A k \in 1..n : f[k] = RestoreTab(f[k - 1], first + k - 1, p[k])
  <2>1. \A k \in 0..n : f[k] = IF k = 0 THEN NewWindow("Normal")
                               ELSE RestoreTab(f[k - 1], first + k - 1, p[k])
    BY <1>2, <1>3, <1>7
  <2>2. 0 \in 0..n /\ \A k \in 1..n : k \in 0..n /\ k # 0
    BY <1>1
  <2>3. QED BY <2>1, <2>2
<1> DEFINE Good(k) ==
             /\ WindowOK(f[k], first + k) /\ f[k].kind = "Normal" /\ Len(f[k].tabs) = k
             /\ \A i \in 1..k : /\ f[k].tabs[i].address = p[i].address
                                /\ f[k].tabs[i].id = first + i - 1
             /\ \A a \in 1..k : p[a].active => f[k].active = first + a - 1
           GoodOnes == {k \in Nat : k <= n => Good(k)}
<1>10. Good(0)
  BY <1>4, <1>9
<1>11. ASSUME NEW k \in Nat, k + 1 <= n, Good(k) PROVE Good(k + 1)
  <2> DEFINE win == f[k]
             new == f[k + 1]
  <2>1. k + 1 \in 1..n /\ (k + 1) - 1 = k /\ first + (k + 1) - 1 = first + k /\ first + k \in Nat
    BY <1>11
  <2>2. new = RestoreTab(win, first + k, p[k + 1])
    BY <1>9, <2>1
  <2>3. /\ p[k + 1] \in StoredTab(NormalAddresses) /\ p[k + 1].position = Len(win.tabs)
        /\ Len(win.tabs) = k
    BY <1>2, <1>11, <2>1
  <2>4. /\ WindowOK(new, first + k + 1) /\ new.kind = "Normal"
        /\ Len(new.tabs) = k + 1
        /\ \A i \in 1..k : /\ new.tabs[i].id = win.tabs[i].id
                           /\ new.tabs[i].address = win.tabs[i].address
        /\ new.tabs[k + 1].id = first + k
        /\ new.tabs[k + 1].address = p[k + 1].address
        /\ new.active = IF p[k + 1].active \/ win.active = NoTab THEN first + k ELSE win.active
    <3> DEFINE id == first + k
               entry == p[k + 1]
    <3>1. /\ WindowOK(win, id) /\ win.kind = "Normal" /\ id \in Nat
          /\ entry \in StoredTab(NormalAddresses) /\ entry.position = Len(win.tabs)
          /\ new = RestoreTab(win, id, entry)
      BY <1>11, <2>1, <2>2, <2>3
    <3> HIDE DEF new, win, id, entry
    <3>2. /\ WindowOK(new, id + 1) /\ new.kind = "Normal"
          /\ Len(new.tabs) = Len(win.tabs) + 1
          /\ \A i \in 1..Len(win.tabs) : /\ new.tabs[i].id = win.tabs[i].id
                                         /\ new.tabs[i].address = win.tabs[i].address
          /\ new.tabs[Len(win.tabs) + 1].id = id
          /\ new.tabs[Len(win.tabs) + 1].address = entry.address
          /\ new.active = IF entry.active \/ win.active = NoTab THEN id ELSE win.active
      BY <3>1, RestoreLast
    <3>3. QED BY <2>3, <3>2 DEF id, entry
  <2>5. ASSUME NEW a \in 1..(k + 1), p[a].active PROVE new.active = first + a - 1
    <3>1. CASE a = k + 1
      BY <2>1, <2>4, <2>5, <3>1
    <3>2. CASE a # k + 1
      <4>1. a \in 1..k /\ win.active = first + a - 1 /\ first + a - 1 \in Nat
        <5>1. a \in 1..k /\ first + a - 1 \in Nat
          BY <2>5, <3>2
        <5>2. \A b \in 1..k : p[b].active => win.active = first + b - 1
          BY <1>11
        <5>3. QED BY <2>5, <5>1, <5>2
      <4>2. win.active # NoTab
        BY <4>1, NoTabAssumption
      <4>3. ~p[k + 1].active
        <5>1. PICK b \in DOMAIN stored : \A i \in DOMAIN stored : stored[i].active <=> i = b
          BY <1>1, <2>1 DEF KeptWindow, OneActive
        <5>2. a \in 1..n /\ k + 1 \in 1..n
          BY <2>1
        <5>3. QED BY <1>1, <1>2, <2>5, <3>2, <5>1, <5>2
      <4>4. QED BY <2>4, <4>1, <4>2, <4>3
    <3>3. QED BY <3>1, <3>2
  <2>6. \A i \in 1..(k + 1) : /\ new.tabs[i].address = p[i].address
                              /\ new.tabs[i].id = first + i - 1
    <3> TAKE i \in 1..(k + 1)
    <3>1. CASE i = k + 1
      BY <2>1, <2>4, <3>1
    <3>2. CASE i # k + 1
      <4>1. i \in 1..k
        BY <3>2
      <4>2. QED BY <1>11, <2>4, <4>1
    <3>3. QED BY <3>1, <3>2
  <2>7. WindowOK(f[k + 1], first + (k + 1))
    <3>1. first + k + 1 = first + (k + 1)
      OBVIOUS
    <3>2. QED BY <2>4, <3>1
  <2>8. QED BY <2>4, <2>5, <2>6, <2>7
<1> HIDE DEF Good
<1>12. n \in GoodOnes
  <2>1. 0 \in GoodOnes /\ \A k \in Nat : k \in GoodOnes => k + 1 \in GoodOnes
    BY <1>10, <1>11
  <2> HIDE DEF GoodOnes
  <2>2. QED BY <1>1, <2>1, NatInductionOnSets
<1>13. Good(n)
  BY <1>1, <1>12
<1>14. /\ WindowOK(f[n], first + n) /\ f[n].kind = "Normal" /\ Len(f[n].tabs) = n
       /\ \A i \in 1..n : /\ f[n].tabs[i].address = p[i].address
                          /\ f[n].tabs[i].id = first + i - 1
       /\ \A a \in 1..n : p[a].active => f[n].active = first + a - 1
  BY <1>13 DEF Good
<1>15. Resembles(f[n], stored)
  BY <1>1, <1>2, <1>14 DEF Resembles
<1>16. QED BY <1>8, <1>14, <1>15

\* restore_into of the whole session
LEMMA RestoredIs ==
  ASSUME NEW session \in Seq(KeptWindow)
  PROVE  LET run == Restored(session)
         IN /\ run.wins \in Seq(Window) /\ run.next \in Nat /\ Len(run.wins) = Len(session)
            /\ \A i \in 1..Len(session) :
                 /\ WindowOK(run.wins[i], run.next) /\ run.wins[i].kind = "Normal"
                 /\ Resembles(run.wins[i], session[i])
<1> DEFINE n == Len(session)
           Run == [wins : Seq(Window), next : Nat]
           After(run, stored) == [wins |-> Append(run.wins, RestoreWindow(stored, run.next)),
                                  next |-> run.next + Len(stored)]
           UpTo(g) == g = [k \in 0..Len(session) |->
                             IF k = 0 THEN [wins |-> <<>>, next |-> 1]
                             ELSE After(g[k - 1], session[k])]
           step == [x \in Run \X (1..n) |-> After(x[1], session[x[2]])]
           f == CHOOSE g : UpTo(g)
<1>1. n \in Nat /\ \A i \in 1..n : session[i] \in KeptWindow /\ Len(session[i]) \in Nat
  <2>1. n \in Nat /\ \A i \in 1..n : session[i] \in KeptWindow
    BY LenProperties
  <2>2. \A stored \in KeptWindow : Len(stored) \in Nat
    BY LenProperties DEF KeptWindow
  <2>3. QED BY <2>1, <2>2
<1>2. ASSUME NEW run \in Run, NEW k \in 1..n
      PROVE  /\ After(run, session[k]) \in Run
             /\ LET win == RestoreWindow(session[k], run.next)
                IN /\ WindowOK(win, run.next + Len(session[k])) /\ win.kind = "Normal"
                   /\ Resembles(win, session[k]) /\ win \in Window
  <2> DEFINE win == RestoreWindow(session[k], run.next)
  <2>1. /\ WindowOK(win, run.next + Len(session[k])) /\ win.kind = "Normal"
        /\ Resembles(win, session[k])
    BY <1>1, RestoreWindowIs
  <2>2. win \in Window
    BY <2>1 DEF WindowOK
  <2> HIDE DEF win
  <2>3. Append(run.wins, win) \in Seq(Window) /\ run.next + Len(session[k]) \in Nat
    BY <1>1, <2>2
  <2>4. QED BY <2>1, <2>2, <2>3 DEF win
<1> HIDE DEF After
<1>3. step \in [Run \X (1..n) -> Run]
  <2> HIDE DEF Run
  <2>1. QED BY <1>2
<1>4. \E g : UpTo(g)
  <2>1. PICK g \in [0..n -> Run] : Folds(g, n, [wins |-> <<>>, next |-> 1], step)
    <3>1. [wins |-> <<>>, next |-> 1] \in Run
      OBVIOUS
    <3> HIDE DEF step, Run
    <3>2. QED BY <1>1, <1>3, <3>1, FoldExists
  <2>2. ASSUME NEW k \in 0..n, k # 0
        PROVE  step[<<g[k - 1], k>>] = After(g[k - 1], session[k])
    <3>1. k \in 1..n /\ g[k - 1] \in Run
      BY <1>1, <2>2
    <3> HIDE DEF Run
    <3>2. QED BY <3>1
  <2>3. UpTo(g)
    <3> HIDE DEF step, Run
    <3>1. QED BY <2>1, <2>2 DEF Folds
  <2>4. QED BY <2>3
<1>5. UpTo(f)
  BY <1>4
<1>6. Restored(session) = f[n]
  BY DEF Restored, After
<1> HIDE DEF f
<1>7. f[0] = [wins |-> <<>>, next |-> 1] /\ \A k \in 1..n : f[k] = After(f[k - 1], session[k])
  <2>1. \A k \in 0..n : f[k] = IF k = 0 THEN [wins |-> <<>>, next |-> 1]
                               ELSE After(f[k - 1], session[k])
    BY <1>5
  <2>2. 0 \in 0..n /\ \A k \in 1..n : k \in 0..n /\ k # 0
    BY <1>1
  <2>3. QED BY <2>1, <2>2
<1> DEFINE Good(k) ==
             /\ f[k] \in Run /\ Len(f[k].wins) = k
             /\ \A i \in 1..k : /\ WindowOK(f[k].wins[i], f[k].next)
                                /\ f[k].wins[i].kind = "Normal"
                                /\ Resembles(f[k].wins[i], session[i])
           GoodOnes == {k \in Nat : k <= n => Good(k)}
<1>8. Good(0)
  BY <1>7
<1>9. ASSUME NEW k \in Nat, k + 1 <= n, Good(k) PROVE Good(k + 1)
  <2> DEFINE run == f[k]
             new == f[k + 1]
             win == RestoreWindow(session[k + 1], run.next)
  <2>1. k + 1 \in 1..n /\ (k + 1) - 1 = k
    BY <1>9
  <2>2. run \in Run /\ run.wins \in Seq(Window) /\ run.next \in Nat /\ Len(run.wins) = k
    BY <1>9
  <2>3. new = After(run, session[k + 1])
    BY <1>7, <2>1
  <2>4. /\ new \in Run /\ WindowOK(win, run.next + Len(session[k + 1])) /\ win.kind = "Normal"
        /\ Resembles(win, session[k + 1]) /\ win \in Window
    BY <1>2, <2>1, <2>2, <2>3
  <2>5. new.wins = Append(run.wins, win) /\ new.next = run.next + Len(session[k + 1])
    BY <2>3 DEF After
  <2> HIDE DEF new, run, win
  <2>6. /\ Len(new.wins) = k + 1 /\ new.wins[k + 1] = win
        /\ \A i \in 1..k : new.wins[i] = run.wins[i]
    BY <2>2, <2>4, <2>5
  <2>7. ASSUME NEW i \in 1..(k + 1)
        PROVE  /\ WindowOK(new.wins[i], new.next) /\ new.wins[i].kind = "Normal"
               /\ Resembles(new.wins[i], session[i])
    <3>1. CASE i = k + 1
      BY <2>4, <2>5, <2>6, <3>1
    <3>2. CASE i # k + 1
      <4>1. i \in 1..k /\ new.wins[i] = run.wins[i]
        BY <2>6, <3>2
      <4>2. WindowOK(run.wins[i], run.next) /\ run.wins[i].kind = "Normal"
            /\ Resembles(run.wins[i], session[i])
        BY <1>9, <4>1 DEF run
      <4>3. run.next <= new.next /\ new.next \in Nat
        BY <1>1, <2>1, <2>2, <2>5
      <4>4. WindowOK(run.wins[i], new.next)
        BY <2>2, <4>2, <4>3, LaterWindow
      <4>5. QED BY <4>1, <4>2, <4>4
    <3>3. QED BY <3>1, <3>2
  <2>8. QED BY <2>4, <2>6, <2>7 DEF new
<1> HIDE DEF Good
<1>10. n \in GoodOnes
  <2>1. 0 \in GoodOnes /\ \A k \in Nat : k \in GoodOnes => k + 1 \in GoodOnes
    BY <1>8, <1>9
  <2> HIDE DEF GoodOnes
  <2>2. QED BY <1>1, <2>1, NatInductionOnSets
<1>11. Good(n)
  BY <1>1, <1>10
<1>12. QED BY <1>6, <1>11 DEF Good

(* What save keeps of a normal window.                                     *)
LEMMA StoredWindowIs ==
  ASSUME NEW next \in Nat, NEW win, WindowOK(win, next), win.kind = "Normal"
  PROVE  /\ StoredWindow(win) \in KeptWindow
         /\ Len(StoredWindow(win)) = Len(win.tabs)
         /\ \A i \in 1..Len(win.tabs) :
              /\ StoredWindow(win)[i].address = Encode(win.tabs[i].address)
              /\ StoredWindow(win)[i].active = (win.active = win.tabs[i].id)
<1> DEFINE s == win.tabs
           t == [i \in DOMAIN s |->
                   [address |-> Encode(s[i].address), position |-> s[i].position,
                    active |-> win.active = s[i].id]]
<1>1. /\ s \in Seq(Tab) /\ Len(s) \in Nat /\ DOMAIN s = 1..Len(s)
      /\ \A i \in 1..Len(s) : s[i] \in Tab
      /\ InPlace(s) /\ Distinct(s) /\ ActiveOK(s, win.active)
      /\ Texts(s) \subseteq NormalAddresses
  <2>1. win \in Window
    BY DEF WindowOK
  <2>2. s \in Seq(Tab)
    BY <2>1 DEF Window
  <2>3. InPlace(s) /\ Distinct(s) /\ ActiveOK(s, win.active)
    BY DEF WindowOK
  <2>4. Texts(s) \subseteq NormalAddresses
    BY NormalAddress DEF WindowOK
  <2> HIDE DEF s
  <2>5. QED BY <2>2, <2>3, <2>4, LenProperties
<1>2. /\ DOMAIN t = 1..Len(s)
      /\ \A i \in 1..Len(s) : t[i] = [address |-> Encode(s[i].address), position |-> i - 1,
                                      active |-> win.active = s[i].id]
  BY <1>1 DEF InPlace
<1>3. t = [i \in 1..Len(s) |-> t[i]]
  BY <1>1
<1>4. ASSUME NEW i \in 1..Len(s) PROVE t[i] \in KeptTab
  <2>1. s[i].address \in NormalAddresses
    BY <1>1 DEF Texts
  <2>2. Encode(s[i].address) \in NormalTexts /\ i - 1 \in Nat /\ (win.active = s[i].id) \in BOOLEAN
    BY <1>1, <2>1 DEF NormalTexts
  <2>3. t[i] = [address |-> Encode(s[i].address), position |-> i - 1, active |-> win.active = s[i].id]
    BY <1>2
  <2> HIDE DEF t
  <2>4. QED BY <2>2, <2>3 DEF KeptTab, StoredTab
<1>5. StoredWindow(win) = SortTabs(t)
  BY DEF StoredWindow
<1> HIDE DEF s
<1>6. \A i \in 1..Len(s) : /\ t[i].address = Encode(s[i].address) /\ t[i].position = i - 1
                            /\ t[i].active = (win.active = s[i].id)
  BY <1>1, <1>2
<1> HIDE DEF t
<1>7. t \in Seq(KeptTab) /\ Len(t) = Len(s)
  <2>1. t \in [1..Len(s) -> KeptTab]
    BY <1>3, <1>4
  <2>2. QED BY <1>1, <2>1
<1>8. InPlace(t)
  BY <1>2, <1>6 DEF InPlace
<1>9. StoredWindow(win) = t
  <2>1. \A i \in DOMAIN t : t[i].position = i - 1
    BY <1>2, <1>6
  <2>2. QED BY <1>5, <1>7, <2>1, SortInPlace
<1>10. OneActive(t)
  <2> SUFFICES ASSUME t # <<>>
               PROVE  \E a \in DOMAIN t : \A i \in DOMAIN t : t[i].active <=> i = a
    BY DEF OneActive
  <2>1. s # <<>>
    BY <1>1, <1>7
  <2>2. PICK a \in DOMAIN s : s[a].id = win.active
    BY <1>1, <2>1 DEF ActiveOK, Ids
  <2>3. \A i \in DOMAIN s : s[i].id = win.active <=> i = a
    BY <1>1, <2>2 DEF Distinct
  <2>4. DOMAIN t = DOMAIN s /\ a \in DOMAIN t
    BY <1>1, <1>2, <2>2
  <2>5. \A i \in DOMAIN t : t[i].active <=> s[i].id = win.active
    BY <1>1, <1>2, <1>6
  <2>6. QED BY <2>3, <2>4, <2>5
<1>11. QED
  <2>1. t \in KeptWindow
    BY <1>7, <1>8, <1>10 DEF KeptWindow
  <2>2. QED BY <1>7, <1>9, <1>6, <2>1 DEF s

LEMMA SnapshotIs ==
  ASSUME Inv
  PROVE  /\ Snapshot(windows) \in Seq(KeptWindow)
         /\ Len(Snapshot(windows)) = Len(NormalOnes(windows))
         /\ \A i \in 1..Len(NormalOnes(windows)) :
              /\ Snapshot(windows)[i] = StoredWindow(NormalOnes(windows)[i])
              /\ WindowOK(NormalOnes(windows)[i], nextTab)
              /\ NormalOnes(windows)[i].kind = "Normal"
<1> DEFINE T == {win \in Window : WindowOK(win, nextTab)}
           N == {win \in T : win.kind = "Normal"}
           normal == NormalOnes(windows)
           kept == Snapshot(windows)
<1>1. windows \in Seq(T)
  <2>1. windows \in Seq(Window) /\ \A w \in DOMAIN windows : windows[w] \in T
    BY LenProperties DEF Inv
  <2>2. windows = [w \in 1..Len(windows) |-> windows[w]] /\ Len(windows) \in Nat
        /\ DOMAIN windows = 1..Len(windows)
    BY <2>1
  <2> HIDE DEF T
  <2>3. QED BY <2>1, <2>2
<1>2. normal \in Seq(N)
  <2> HIDE DEF T
  <2>1. QED BY <1>1, NormalOnesAre
<1>3. Len(normal) \in Nat /\ DOMAIN normal = 1..Len(normal) /\ \A i \in 1..Len(normal) : normal[i] \in N
  <2> HIDE DEF N, normal
  <2>1. QED BY <1>2, LenProperties
<1>4. \A i \in 1..Len(normal) : WindowOK(normal[i], nextTab) /\ normal[i].kind = "Normal"
  BY <1>3
<1>5. kept = [i \in 1..Len(normal) |-> StoredWindow(normal[i])]
  BY <1>3 DEF Snapshot
<1> HIDE DEF normal, kept, T
<1>6. \A i \in 1..Len(normal) : StoredWindow(normal[i]) \in KeptWindow
  BY <1>4, StoredWindowIs DEF Inv
<1>7. kept \in Seq(KeptWindow) /\ Len(kept) = Len(normal)
  BY <1>3, <1>5, <1>6
<1>8. \A i \in 1..Len(normal) : kept[i] = StoredWindow(normal[i])
  BY <1>5
<1>9. QED BY <1>4, <1>7, <1>8 DEF normal, kept

LEMMA KeptTexts ==
  ASSUME NEW session \in Seq(KeptWindow)
  PROVE  TextsOf(session) \subseteq NormalTexts
<1>1. \A w \in Range(session) : w \in Seq(KeptTab)
  <2>1. \A i \in DOMAIN session : session[i] \in KeptWindow
    BY LenProperties
  <2>2. QED BY <2>1 DEF Range, KeptWindow
<1>2. \A w \in Seq(KeptTab) : \A i \in DOMAIN w : w[i] \in KeptTab
  BY LenProperties
<1>3. \A w \in Range(session) : \A i \in DOMAIN w : w[i].address \in NormalTexts
  <2>1. \A entry \in KeptTab : entry.address \in NormalTexts
    BY DEF KeptTab, StoredTab
  <2>2. QED BY <1>1, <1>2, <2>1
<1>4. \A text \in TextsOf(session) : \E w \in Range(session) : \E i \in DOMAIN w : text = w[i].address
  BY DEF TextsOf
<1>5. QED BY <1>3, <1>4

(***************************************************************************)
(* The session file                                                        *)
(***************************************************************************)

SessionInv ==
  /\ Inv
  /\ running \in BOOLEAN
  /\ ~running => windows = <<>> /\ temp = NoSession
  /\ file \in {NoSession} \cup Seq(KeptWindow)
  /\ temp \notin {NoSession, Torn} => temp = Snapshot(windows)
  /\ leftover \subseteq NormalTexts

LEMMA SessionInit == Init => SessionInv
<1> SUFFICES ASSUME Init PROVE SessionInv
  OBVIOUS
<1>1. windows = <<>> /\ nextTab = 1 /\ DOMAIN <<>> = {} /\ <<>> \in Seq(Window)
  BY DEF Init, StripInit
<1>2. Inv
  BY <1>1 DEF Inv
<1>3. QED BY <1>2 DEF Init, SessionInv

\* Whatever becomes of a temporary file, the texts it leaves are those of normal windows.
LEMMA AbandonKeeps ==
  ASSUME SessionInv, Abandon
  PROVE  temp' = NoSession /\ leftover' \subseteq NormalTexts
<1>1. TextsOf(Snapshot(windows)) \subseteq NormalTexts
  BY SnapshotIs, KeptTexts DEF SessionInv
<1>2. QED BY <1>1 DEF Abandon, SessionInv

LEMMA SessionStep == SessionInv /\ [Next]_vars => SessionInv'
<1> SUFFICES ASSUME SessionInv, [Next]_vars PROVE SessionInv'
  OBVIOUS
<1>1. CASE Edit
  <2>1. Inv'
    BY <1>1, InvStep DEF Edit, SessionInv
  <2>2. running' = running /\ running = TRUE /\ temp' = NoSession /\ file' = file /\ leftover' = leftover
    BY <1>1 DEF Edit, Idle, diskVars
  <2>3. QED BY <2>1, <2>2 DEF SessionInv
<1>2. ASSUME UNCHANGED <<windows, nextTab>> PROVE Inv'
  BY <1>2 DEF SessionInv, Inv
<1>3. CASE SaveOpen
  BY <1>2, <1>3 DEF SaveOpen, SessionInv, Idle
<1>4. CASE SaveWrite
  BY <1>2, <1>4 DEF SaveWrite, SessionInv
<1>5. CASE SaveRename
  <2>1. file' \in Seq(KeptWindow)
    BY <1>5, SnapshotIs DEF SaveRename, SessionInv
  <2>2. QED BY <1>2, <1>5, <2>1 DEF SaveRename, SessionInv
<1>6. CASE SaveFails
  <2>1. temp' = NoSession /\ leftover' \subseteq NormalTexts
    BY <1>6, AbandonKeeps DEF SaveFails
  <2>2. QED BY <1>2, <1>6, <2>1 DEF SaveFails, SessionInv
<1>7. CASE Clear
  BY <1>2, <1>7 DEF Clear, SessionInv, Idle
<1>8. CASE Stop
  <2>1. temp' = NoSession /\ leftover' \subseteq NormalTexts
    BY <1>8, AbandonKeeps DEF Stop
  <2>2. Inv'
    <3>1. windows' = <<>> /\ nextTab' = 1 /\ DOMAIN <<>> = {} /\ <<>> \in Seq(Window)
      BY <1>8 DEF Stop
    <3>2. QED BY <3>1 DEF Inv
  <2>3. QED BY <1>8, <2>1, <2>2 DEF Stop, SessionInv
<1>9. CASE Start
  <2>1. temp' = NoSession /\ file' = file /\ leftover' = leftover /\ running' = TRUE
    BY <1>9 DEF Start, diskVars, SessionInv
  <2>2. Inv'
    <3>1. CASE file = NoSession
      BY <1>2, <1>9, <3>1 DEF Start
    <3>2. CASE file # NoSession
      <4>1. file \in Seq(KeptWindow)
        BY <3>2 DEF SessionInv
      <4>2. windows' = Restored(file).wins /\ nextTab' = Restored(file).next
        BY <1>9, <3>2 DEF Start
      <4>3. /\ windows' \in Seq(Window) /\ nextTab' \in Nat /\ Len(windows') = Len(file)
            /\ \A i \in 1..Len(file) : WindowOK(windows'[i], nextTab')
        BY <4>1, <4>2, RestoredIs
      <4>4. DOMAIN windows' = 1..Len(file)
        BY <4>3, LenProperties
      <4>5. QED BY <4>3, <4>4 DEF Inv
    <3>3. QED BY <3>1, <3>2
  <2>3. QED BY <2>1, <2>2 DEF SessionInv
<1>10. CASE UNCHANGED vars
  BY <1>2, <1>10 DEF vars, SessionInv
<1>11. QED BY <1>1, <1>3, <1>4, <1>5, <1>6, <1>7, <1>8, <1>9, <1>10 DEF Next

LEMMA SessionInvariant == Spec => []SessionInv
BY SessionInit, SessionStep, PTL DEF Spec

(* Whatever a member does with windows and tabs, and whatever session is   *)
(* restored into them, tabs are where their positions say, no id is twice  *)
(* in a window, and a window with tabs has one active (WindowTabs).        *)
THEOREM StripStaysConsistent == Spec => []StripConsistent
<1>1. SessionInv => StripConsistent
  BY DEF SessionInv, Inv, WindowOK, StripConsistent, InPlace, Distinct, ActiveOK
<1>2. QED BY <1>1, SessionInvariant, PTL

(* save writes no text of a private window, to the session file or to a    *)
(* temporary one, that is left behind or not (FR-007).                     *)
THEOREM PrivateStaysUnwritten == Spec => []PrivateNeverWritten
<1>1. SessionInv => PrivateNeverWritten
  <2> SUFFICES ASSUME SessionInv PROVE PrivateNeverWritten
    OBVIOUS
  <2>1. file # NoSession => TextsOf(file) \subseteq NormalTexts
    BY KeptTexts DEF SessionInv
  <2>2. temp \notin {NoSession, Torn} => TextsOf(temp) \subseteq NormalTexts
    BY SnapshotIs, KeptTexts DEF SessionInv
  <2>3. Written \subseteq NormalTexts
    BY <2>1, <2>2 DEF Written, SessionInv
  <2>4. QED BY <2>3, ApartAssumption DEF PrivateNeverWritten, NormalTexts
<1>2. QED BY <1>1, SessionInvariant, PTL

(***************************************************************************)
(* The session that is restored is the one that was saved                  *)
(***************************************************************************)

\* The active tab of a window is that of what is stored of it.
LEMMA ActiveStands ==
  ASSUME NEW next \in Nat, NEW win, WindowOK(win, next), NEW stored \in KeptWindow,
         Len(stored) = Len(win.tabs),
         \A i \in DOMAIN stored : stored[i].active => win.tabs[i].id = win.active
  PROVE  /\ DOMAIN stored = DOMAIN win.tabs
         /\ StoodFor(stored).active = SeenWindow(win).active
<1> DEFINE s == win.tabs
           n == Len(s)
<1>1. /\ s \in Seq(Tab) /\ n \in Nat /\ DOMAIN s = 1..n /\ DOMAIN stored = 1..n
      /\ Distinct(s) /\ ActiveOK(s, win.active) /\ Len(stored) = n
  <2>1. s \in Seq(Tab) /\ Distinct(s) /\ ActiveOK(s, win.active) /\ Len(stored) = n
    BY DEF WindowOK, Window
  <2>2. stored \in Seq(KeptTab)
    BY DEF KeptWindow
  <2> HIDE DEF s
  <2>3. QED BY <2>1, <2>2, LenProperties
<1>2. ASSUME s # <<>>
      PROVE  (CHOOSE i \in DOMAIN stored : stored[i].active) = IndexOf(s, win.active)
  <2>1. stored # <<>>
    BY <1>1, <1>2
  <2>2. PICK a \in DOMAIN stored : \A i \in DOMAIN stored : stored[i].active <=> i = a
    BY <2>1 DEF KeptWindow, OneActive
  <2>3. s[a].id = win.active
    BY <2>2
  <2>4. \A i \in DOMAIN s : s[i].id = win.active => i = a
    BY <1>1, <2>2, <2>3 DEF Distinct
  <2>5. IndexOf(s, win.active) = a
    BY <1>1, <2>2, <2>3, <2>4 DEF IndexOf
  <2>6. QED BY <2>2, <2>5
<1>3. stored = <<>> <=> s = <<>>
  BY <1>1
<1>4. QED BY <1>1, <1>2, <1>3 DEF StoodFor, SeenWindow

LEMMA ReadAsDecoded == \A text \in NormalTexts : ReadAs[text] = Decode(text)
BY DEF NormalTexts, ReadAs, Addresses

\* What is shown of a window is what was stored, read back.
LEMMA WindowStands ==
  ASSUME NEW next \in Nat, NEW win, WindowOK(win, next),
         NEW stored \in KeptWindow, Resembles(win, stored)
  PROVE  StoodFor(stored) = SeenWindow(win)
<1>1. DOMAIN stored = DOMAIN win.tabs /\ StoodFor(stored).active = SeenWindow(win).active
  BY ActiveStands DEF Resembles
<1>2. ASSUME NEW i \in DOMAIN stored PROVE ReadAs[stored[i].address] = win.tabs[i].address
  <2>1. stored \in Seq(KeptTab)
    BY DEF KeptWindow
  <2>2. stored[i] \in KeptTab
    BY <2>1, LenProperties
  <2>3. stored[i].address \in NormalTexts
    BY <2>2 DEF KeptTab, StoredTab
  <2>4. QED BY <2>3, ReadAsDecoded DEF Resembles
<1>3. StoodFor(stored).addresses = SeenWindow(win).addresses
  BY <1>1, <1>2 DEF StoodFor, SeenWindow
<1>4. QED BY <1>1, <1>3 DEF StoodFor, SeenWindow

\* What is kept of a window, whose addresses will be shown as they are read back.
LEMMA StoredStands ==
  ASSUME NEW next \in Nat, NEW win, WindowOK(win, next), win.kind = "Normal"
  PROVE  StoodFor(StoredWindow(win))
           = [addresses |-> [i \in DOMAIN SeenWindow(win).addresses |->
                               Regained[SeenWindow(win).addresses[i]]],
              active |-> SeenWindow(win).active]
<1> DEFINE stored == StoredWindow(win)
<1>1. /\ stored \in KeptWindow /\ Len(stored) = Len(win.tabs)
      /\ \A i \in 1..Len(win.tabs) : /\ stored[i].address = Encode(win.tabs[i].address)
                                     /\ stored[i].active = (win.active = win.tabs[i].id)
  BY StoredWindowIs
<1>2. DOMAIN stored = 1..Len(win.tabs) /\ DOMAIN win.tabs = 1..Len(win.tabs)
  <2>1. win.tabs \in Seq(Tab) /\ stored \in Seq(KeptTab)
    BY <1>1 DEF WindowOK, Window, KeptWindow
  <2> HIDE DEF stored
  <2>2. QED BY <1>1, <2>1, LenProperties
<1> HIDE DEF stored
<1>3. StoodFor(stored).active = SeenWindow(win).active
  BY <1>1, <1>2, ActiveStands
<1>4. ASSUME NEW i \in DOMAIN win.tabs
      PROVE  ReadAs[stored[i].address] = Regained[win.tabs[i].address]
  <2>1. win.tabs[i].address \in NormalAddresses
    BY NormalAddress DEF WindowOK, Texts
  <2>2. stored[i].address = Encode(win.tabs[i].address) /\ stored[i].address \in NormalTexts
    BY <1>1, <1>2, <2>1 DEF NormalTexts
  <2>3. ReadAs[stored[i].address] = Decode(Encode(win.tabs[i].address))
    BY <2>2, ReadAsDecoded
  <2>4. Regained[win.tabs[i].address] = Decode(Encode(win.tabs[i].address))
    BY <2>1 DEF Regained, RoundTrip, Addresses
  <2>5. QED BY <2>3, <2>4
<1>5. StoodFor(stored).addresses = [i \in DOMAIN win.tabs |-> Regained[win.tabs[i].address]]
  BY <1>2, <1>4 DEF StoodFor
<1>6. /\ DOMAIN SeenWindow(win).addresses = DOMAIN win.tabs
      /\ \A i \in DOMAIN win.tabs : SeenWindow(win).addresses[i] = win.tabs[i].address
  BY DEF SeenWindow
<1>7. [i \in DOMAIN SeenWindow(win).addresses |-> Regained[SeenWindow(win).addresses[i]]]
        = [i \in DOMAIN win.tabs |-> Regained[win.tabs[i].address]]
  BY <1>6
<1>8. StoodFor(stored) = [addresses |-> StoodFor(stored).addresses, active |-> StoodFor(stored).active]
  BY DEF StoodFor
<1>9. QED BY <1>3, <1>5, <1>7, <1>8 DEF stored

LEMMA KeptIsSeen ==
  ASSUME Inv
  PROVE  [i \in DOMAIN Snapshot(windows) |-> StoodFor(Snapshot(windows)[i])]
           = Saved!AsReadBack(Seen(windows))
<1> DEFINE normal == NormalOnes(windows)
           kept == Snapshot(windows)
           seen == Seen(windows)
           ReadBackOf(w) == [addresses |-> [i \in DOMAIN w.addresses |-> Regained[w.addresses[i]]],
                             active |-> w.active]
<1>1. /\ kept \in Seq(KeptWindow) /\ Len(kept) = Len(normal)
      /\ \A i \in 1..Len(normal) : /\ kept[i] = StoredWindow(normal[i])
                                   /\ WindowOK(normal[i], nextTab) /\ normal[i].kind = "Normal"
  BY SnapshotIs
<1>2. DOMAIN normal = 1..Len(normal) /\ DOMAIN kept = 1..Len(normal)
  <2>1. windows \in Seq(Window)
    BY DEF Inv
  <2>2. normal \in Seq({win \in Window : win.kind = "Normal"})
    BY <2>1, NormalOnesAre
  <2> HIDE DEF normal, kept
  <2>3. QED BY <1>1, <2>2, LenProperties
<1>3. seen = [i \in DOMAIN normal |-> SeenWindow(normal[i])]
  BY DEF Seen
<1>4. Saved!AsReadBack(seen) = [i \in DOMAIN seen |-> ReadBackOf(seen[i])]
  BY DEF Saved!AsReadBack
<1>5. \A i \in 1..Len(normal) : StoodFor(StoredWindow(normal[i])) = ReadBackOf(SeenWindow(normal[i]))
  BY <1>1, StoredStands DEF Inv
<1> HIDE DEF normal, kept, seen, ReadBackOf
<1>6. DOMAIN seen = 1..Len(normal) /\ \A i \in 1..Len(normal) : seen[i] = SeenWindow(normal[i])
  BY <1>2, <1>3
<1>7. [i \in DOMAIN kept |-> StoodFor(kept[i])] = [i \in DOMAIN seen |-> ReadBackOf(seen[i])]
  BY <1>1, <1>2, <1>5, <1>6
<1>8. QED BY <1>4, <1>7 DEF kept, seen

LEMMA RestoredIsSeen ==
  ASSUME NEW session \in Seq(KeptWindow)
  PROVE  Seen(Restored(session).wins) = [i \in DOMAIN session |-> StoodFor(session[i])]
<1> DEFINE wins == Restored(session).wins
           next == Restored(session).next
<1>1. /\ wins \in Seq(Window) /\ next \in Nat /\ Len(wins) = Len(session)
      /\ \A i \in 1..Len(session) : /\ WindowOK(wins[i], next) /\ wins[i].kind = "Normal"
                                    /\ Resembles(wins[i], session[i])
  BY RestoredIs
<1> HIDE DEF wins, next
<1>2. /\ DOMAIN wins = 1..Len(session) /\ DOMAIN session = 1..Len(session)
      /\ \A i \in 1..Len(session) : session[i] \in KeptWindow
  BY <1>1, LenProperties
<1>3. NormalOnes(wins) = wins
  BY <1>1, <1>2, NormalOnesAre
<1>4. \A i \in 1..Len(session) : StoodFor(session[i]) = SeenWindow(wins[i])
  BY <1>1, <1>2, WindowStands
<1>5. Seen(wins) = [i \in DOMAIN wins |-> SeenWindow(wins[i])]
  BY <1>3 DEF Seen
<1>6. QED BY <1>2, <1>4, <1>5 DEF wins

LEMMA SeenTyped ==
  ASSUME NEW next \in Nat, NEW win, WindowOK(win, next)
  PROVE  SeenWindow(win) \in [addresses : Seq(Addresses), active : Nat]
<1> DEFINE s == win.tabs
           addresses == [i \in DOMAIN s |-> s[i].address]
           active == IF s = <<>> THEN 0 ELSE IndexOf(s, win.active)
<1>1. /\ s \in Seq(Tab) /\ Len(s) \in Nat /\ DOMAIN s = 1..Len(s)
      /\ \A i \in 1..Len(s) : s[i] \in Tab
  <2>1. s \in Seq(Tab)
    BY DEF WindowOK, Window
  <2> HIDE DEF s
  <2>2. QED BY <2>1, LenProperties
<1>2. addresses \in Seq(Addresses)
  <2>1. \A i \in 1..Len(s) : s[i].address \in Addresses
    BY <1>1 DEF Tab
  <2> HIDE DEF s
  <2>2. QED BY <1>1, <2>1
<1>3. active \in Nat
  <2>1. s # <<>> => win.active \in Ids(s)
    BY DEF WindowOK, ActiveOK
  <2>2. s # <<>> => IndexOf(s, win.active) \in 1..Len(s)
    BY <1>1, <2>1, IndexOfIs
  <2>3. QED BY <1>1, <2>2
<1>4. SeenWindow(win) = [addresses |-> addresses, active |-> active]
  BY DEF SeenWindow
<1> HIDE DEF addresses, active
<1>5. QED BY <1>2, <1>3, <1>4

\* What was kept of a session is not taken for no session.
LEMMA KeptIsSomething ==
  ASSUME NEW session \in Seq(KeptWindow)
  PROVE  [i \in DOMAIN session |-> StoodFor(session[i])] # NoSession
<1> DEFINE wins == Restored(session).wins
           next == Restored(session).next
           kept == [i \in DOMAIN session |-> StoodFor(session[i])]
           Shown == [addresses : Seq(Addresses), active : Nat]
<1>1. /\ next \in Nat
      /\ \A i \in 1..Len(session) : /\ WindowOK(wins[i], next) /\ wins[i].kind = "Normal"
                                    /\ Resembles(wins[i], session[i])
  BY RestoredIs
<1> HIDE DEF wins, next
<1>2. /\ DOMAIN session = 1..Len(session) /\ Len(session) \in Nat
      /\ \A i \in 1..Len(session) : session[i] \in KeptWindow
  BY LenProperties
<1>3. \A i \in 1..Len(session) : StoodFor(session[i]) = SeenWindow(wins[i])
  BY <1>1, <1>2, WindowStands
<1>4. \A i \in 1..Len(session) : StoodFor(session[i]) \in Shown
  BY <1>1, <1>3, SeenTyped
<1> HIDE DEF Shown
<1>5. kept \in Seq(Shown)
  BY <1>2, <1>4
<1>6. QED BY <1>5, NoSessionAssumption DEF Shown

LEMMA NothingSeen == Seen(<<>>) = <<>>
<1>1. NormalOnes(<<>>) = <<>>
  <2>1. <<>> \in Seq({}) /\ \A i \in DOMAIN <<>> : FALSE
    OBVIOUS
  <2>2. QED BY <2>1, NormalOnesAre
<1>2. QED BY <1>1 DEF Seen

(* The store implements SavedSession: a restart shows the windows, tabs,   *)
(* order and active tab of the last save that went through, each address   *)
(* as its escaped text is read back, whatever is saved, refused or killed. *)
THEOREM SessionsAreRestored == Spec => SessionIsRestored
<1> DEFINE kept == IF file = NoSession THEN NoSession
                   ELSE [i \in DOMAIN file |-> StoodFor(file[i])]
<1>1. Init => Saved!Init
  <2> SUFFICES ASSUME Init PROVE Saved!Init
    OBVIOUS
  <2>1. windows = <<>> /\ file = NoSession /\ running = TRUE
    BY DEF Init, StripInit
  <2>2. QED BY <2>1, NothingSeen DEF Saved!Init
<1>2. SessionInv /\ [Next]_vars => [Saved!Next]_Saved!vars
  <2> SUFFICES ASSUME SessionInv, [Next]_vars PROVE [Saved!Next]_Saved!vars
    OBVIOUS
  <2>1. ASSUME UNCHANGED <<windows, file, running>> PROVE UNCHANGED Saved!vars
    BY <2>1 DEF Saved!vars
  <2>2. CASE Edit
    <3>1. UNCHANGED <<file, running>> /\ running
      BY <2>2 DEF Edit, Idle, diskVars
    <3>2. Saved!Change
      BY <3>1 DEF Saved!Change
    <3>3. QED BY <3>2 DEF Saved!Next
  <2>3. CASE SaveOpen
    BY <2>1, <2>3 DEF SaveOpen
  <2>4. CASE SaveWrite
    BY <2>1, <2>4 DEF SaveWrite
  <2>5. CASE SaveRename
    <3>1. /\ file' = Snapshot(windows) /\ file' # NoSession /\ running /\ UNCHANGED <<windows, running>>
      BY <2>5 DEF SaveRename, SessionInv
    <3>2. kept' = Saved!AsReadBack(Seen(windows))
      BY <3>1, KeptIsSeen DEF SessionInv
    <3>3. Saved!Keep
      BY <3>1, <3>2 DEF Saved!Keep
    <3>4. QED BY <3>3 DEF Saved!Next
  <2>6. CASE SaveFails
    BY <2>1, <2>6 DEF SaveFails
  <2>7. CASE Clear
    <3>1. Saved!Forget
      BY <2>7 DEF Clear, Idle, Saved!Forget
    <3>2. QED BY <3>1 DEF Saved!Next
  <2>8. CASE Stop
    <3>1. running /\ running' = FALSE /\ windows' = <<>> /\ file' = file
      BY <2>8 DEF Stop
    <3>2. Saved!Stop
      BY <3>1, NothingSeen DEF Saved!Stop
    <3>3. QED BY <3>2 DEF Saved!Next
  <2>9. CASE Start
    <3>1. ~running /\ running' = TRUE /\ file' = file /\ windows = <<>>
      BY <2>9 DEF Start, diskVars, SessionInv
    <3>2. CASE file = NoSession
      <4>1. windows' = <<>>
        BY <2>9, <3>1, <3>2 DEF Start
      <4>2. Saved!Start
        BY <3>1, <3>2, <4>1, NothingSeen DEF Saved!Start
      <4>3. QED BY <4>2 DEF Saved!Next
    <3>3. CASE file # NoSession
      <4>1. file \in Seq(KeptWindow) /\ windows' = Restored(file).wins
        BY <2>9, <3>3 DEF Start, SessionInv
      <4>2. Seen(windows') = [i \in DOMAIN file |-> StoodFor(file[i])]
        BY <4>1, RestoredIsSeen
      <4>3. Saved!Start
        BY <3>1, <3>3, <4>1, <4>2, KeptIsSomething DEF Saved!Start
      <4>4. QED BY <4>3 DEF Saved!Next
    <3>4. QED BY <3>2, <3>3
  <2>10. CASE UNCHANGED vars
    BY <2>1, <2>10 DEF vars
  <2>11. QED
    BY <2>2, <2>3, <2>4, <2>5, <2>6, <2>7, <2>8, <2>9, <2>10 DEF Next
<1>3. QED
  BY <1>1, <1>2, SessionInvariant, PTL DEF Spec, SessionIsRestored, Saved!Spec

(***************************************************************************)
(* The order of the tabs                                                   *)
(***************************************************************************)

\* Tabs stay in order when where they go, the moved one aside, is in order.
LEMMA InOrderBy ==
  ASSUME NEW s \in Seq(Tab), NEW t \in Seq(Tab), Distinct(s), Distinct(t), NEW moved, NEW to,
         \A i \in DOMAIN s : s[i].id # moved => to[i] \in DOMAIN t /\ t[to[i]].id = s[i].id,
         \A i, j \in DOMAIN s : s[i].id # moved /\ s[j].id # moved /\ i < j => to[i] < to[j]
  PROVE  InOrder(s, t, moved)
<1>1. ASSUME NEW x \in (Ids(s) \cap Ids(t)) \ {moved}
      PROVE  /\ IndexOf(s, x) \in DOMAIN s /\ s[IndexOf(s, x)].id = x
             /\ IndexOf(t, x) = to[IndexOf(s, x)]
  <2> DEFINE i == IndexOf(s, x)
  <2>1. i \in 1..Len(s) /\ s[i].id = x
    BY IndexOfIs
  <2>2. i \in DOMAIN s
    BY <2>1, LenProperties
  <2>3. to[i] \in DOMAIN t /\ t[to[i]].id = x
    BY <2>1, <2>2
  <2>4. IndexOf(t, x) \in DOMAIN t /\ t[IndexOf(t, x)].id = x
    BY IndexOfIs, LenProperties
  <2>5. QED BY <2>1, <2>2, <2>3, <2>4 DEF Distinct
<1>2. ASSUME NEW x \in (Ids(s) \cap Ids(t)) \ {moved}, NEW y \in (Ids(s) \cap Ids(t)) \ {moved},
             IndexOf(s, x) < IndexOf(s, y)
      PROVE  IndexOf(t, x) < IndexOf(t, y)
  <2>1. /\ IndexOf(s, x) \in DOMAIN s /\ IndexOf(s, y) \in DOMAIN s
        /\ s[IndexOf(s, x)].id # moved /\ s[IndexOf(s, y)].id # moved
    BY <1>1
  <2>2. to[IndexOf(s, x)] < to[IndexOf(s, y)]
    BY <1>2, <2>1
  <2>3. QED BY <1>1, <2>2
<1>3. QED BY <1>2 DEF InOrder

\* Tabs that are all still where they were are in order.
LEMMA InOrderInPlace ==
  ASSUME NEW s \in Seq(Tab), NEW t \in Seq(Tab), Distinct(s), Distinct(t), NEW moved,
         \A i \in DOMAIN s : i \in DOMAIN t /\ t[i].id = s[i].id
  PROVE  InOrder(s, t, moved)
<1> DEFINE to == [i \in DOMAIN s |-> i]
<1>1. \A i \in DOMAIN s : to[i] = i
  OBVIOUS
<1> HIDE DEF to
<1>2. \A i \in DOMAIN s : to[i] \in DOMAIN t /\ t[to[i]].id = s[i].id
  BY <1>1
<1>3. \A i, j \in DOMAIN s : i < j => to[i] < to[j]
  BY <1>1
<1>4. QED BY <1>2, <1>3, InOrderBy

LEMMA OpenInOrder ==
  ASSUME NEW next \in Nat, NEW win, WindowOK(win, next), NEW address \in AddressesOf(win.kind)
  PROVE  InOrder(win.tabs, OpenTab(win, next, address).tabs, NoTab)
<1> DEFINE s == win.tabs
           t == OpenTab(win, next, address).tabs
           e == [id |-> next, position |-> Len(s), address |-> address, lifecycle |-> "Loading"]
<1>1. WindowOK(OpenTab(win, next, address), next + 1)
  BY OpenKeeps
<1>2. s \in Seq(Tab) /\ t \in Seq(Tab) /\ Distinct(s) /\ Distinct(t)
  BY <1>1 DEF WindowOK, Window
<1>3. t = Append(s, e)
  <2>1. win \in Window
    BY DEF WindowOK
  <2>2. QED BY <2>1, WindowWith DEF OpenTab
<1> HIDE DEF s, t
<1>4. \A i \in DOMAIN s : i \in DOMAIN t /\ t[i].id = s[i].id
  BY <1>2, <1>3
<1>5. QED BY <1>2, <1>4, InOrderInPlace DEF s, t

LEMMA CloseInOrder ==
  ASSUME NEW next \in Nat, NEW win, WindowOK(win, next), NEW id \in Ids(win.tabs)
  PROVE  InOrder(win.tabs, CloseTab(win, id).tabs, id)
<1> DEFINE s == win.tabs
           k == IndexOf(s, id)
           r == RemoveAt(s, k)
           t == CloseTab(win, id).tabs
           to == [i \in DOMAIN s |-> IF i < k THEN i ELSE i - 1]
<1>1. WindowOK(CloseTab(win, id), next)
  BY CloseKeeps
<1>2. /\ s \in Seq(Tab) /\ t \in Seq(Tab) /\ Distinct(s) /\ Distinct(t) /\ win \in Window
  BY <1>1 DEF WindowOK, Window
<1>3. t = Reindex(r)
  BY <1>2, WindowWith DEF CloseTab
<1>4. k \in 1..Len(s) /\ s[k].id = id /\ DOMAIN s = 1..Len(s) /\ Len(s) \in Nat
  BY <1>2, IndexOfIs, LenProperties
<1> HIDE DEF s, t, k
<1>5. /\ r \in Seq(Tab) /\ Len(r) = Len(s) - 1
      /\ \A j \in 1..(Len(s) - 1) : r[j] = IF j < k THEN s[j] ELSE s[j + 1]
  BY <1>2, <1>4, RemovedAt
<1> HIDE DEF r
<1>6. /\ DOMAIN t = 1..(Len(s) - 1)
      /\ \A j \in 1..(Len(s) - 1) : t[j].id = r[j].id
  BY <1>3, <1>5, Reindexed, LenProperties
<1>7. \A i \in DOMAIN s : to[i] = IF i < k THEN i ELSE i - 1
  OBVIOUS
<1> HIDE DEF to
<1>8. ASSUME NEW i \in DOMAIN s, s[i].id # id PROVE to[i] \in DOMAIN t /\ t[to[i]].id = s[i].id
  <2>1. CASE i < k
    <3>1. to[i] = i /\ i \in 1..(Len(s) - 1)
      BY <1>4, <1>7, <2>1
    <3>2. QED BY <1>5, <1>6, <2>1, <3>1
  <2>2. CASE ~(i < k)
    <3>1. i # k /\ to[i] = i - 1 /\ i - 1 \in 1..(Len(s) - 1) /\ ~(i - 1 < k) /\ (i - 1) + 1 = i
      BY <1>4, <1>7, <1>8, <2>2
    <3>2. r[i - 1] = s[i]
      BY <1>5, <3>1
    <3>3. QED BY <1>6, <3>1, <3>2
  <2>3. QED BY <2>1, <2>2
<1>9. ASSUME NEW i \in DOMAIN s, NEW j \in DOMAIN s, s[i].id # id, s[j].id # id, i < j
      PROVE  to[i] < to[j]
  <2>1. i # k /\ j # k
    BY <1>4, <1>9
  <2>2. QED BY <1>4, <1>7, <1>9, <2>1
<1>10. QED BY <1>2, <1>8, <1>9, InOrderBy DEF s, t

LEMMA ReorderInOrder ==
  ASSUME NEW next \in Nat, NEW win, WindowOK(win, next), NEW id \in Ids(win.tabs),
         NEW target \in 0..(Len(win.tabs) - 1)
  PROVE  InOrder(win.tabs, ReorderTab(win, id, target).tabs, id)
<1> DEFINE s == win.tabs
           k == IndexOf(s, id)
           m == target + 1
           r == RemoveAt(s, k)
           q == InsertAt(r, m, s[k])
           t == ReorderTab(win, id, target).tabs
           less(i) == IF i < k THEN i ELSE i - 1
           to == [i \in DOMAIN s |-> IF less(i) < m THEN less(i) ELSE less(i) + 1]
<1>1. WindowOK(ReorderTab(win, id, target), next)
  BY ReorderKeeps
<1>2. /\ s \in Seq(Tab) /\ t \in Seq(Tab) /\ Distinct(s) /\ Distinct(t) /\ win \in Window
  BY <1>1 DEF WindowOK, Window
<1>3. t = Reindex(q)
  <2>1. ReorderTab(win, id, target) = [win EXCEPT !.tabs = Reindex(q)]
    BY DEF ReorderTab
  <2>2. QED BY <1>2, <2>1 DEF Window
<1>4. /\ k \in 1..Len(s) /\ s[k].id = id /\ DOMAIN s = 1..Len(s) /\ Len(s) \in Nat
      /\ s[k] \in Tab
  BY <1>2, IndexOfIs, LenProperties
<1>5. m \in 1..Len(s)
  BY <1>4
<1> HIDE DEF s, t, k, m
<1>6. /\ r \in Seq(Tab) /\ Len(r) = Len(s) - 1
      /\ \A j \in 1..(Len(s) - 1) : r[j] = IF j < k THEN s[j] ELSE s[j + 1]
  BY <1>2, <1>4, RemovedAt
<1> HIDE DEF r
<1>7. /\ q \in Seq(Tab) /\ Len(q) = Len(s)
      /\ \A j \in 1..Len(s) : q[j] = IF j < m THEN r[j] ELSE IF j = m THEN s[k] ELSE r[j - 1]
  <2> DEFINE e == s[k]
  <2>1. m \in 1..(Len(r) + 1) /\ Len(r) + 1 = Len(s) /\ e \in Tab
    BY <1>4, <1>5, <1>6
  <2> HIDE DEF e
  <2>2. /\ InsertAt(r, m, e) \in Seq(Tab) /\ Len(InsertAt(r, m, e)) = Len(r) + 1
        /\ \A j \in 1..(Len(r) + 1) :
             InsertAt(r, m, e)[j] = IF j < m THEN r[j] ELSE IF j = m THEN e ELSE r[j - 1]
    BY <1>6, <2>1, InsertedAt
  <2>3. QED BY <2>1, <2>2 DEF e
<1> HIDE DEF q
<1>8. DOMAIN t = 1..Len(s) /\ \A j \in 1..Len(s) : t[j].id = q[j].id
  BY <1>3, <1>7, Reindexed, LenProperties
<1>9. ASSUME NEW i \in DOMAIN s, s[i].id # id
      PROVE  less(i) \in 1..(Len(s) - 1) /\ r[less(i)] = s[i]
  <2>1. i # k
    BY <1>4, <1>9
  <2>2. CASE i < k
    <3>1. less(i) = i /\ i \in 1..(Len(s) - 1)
      BY <1>4, <2>2
    <3>2. QED BY <1>6, <2>2, <3>1
  <2>3. CASE ~(i < k)
    <3>1. less(i) = i - 1 /\ i - 1 \in 1..(Len(s) - 1) /\ ~(i - 1 < k) /\ (i - 1) + 1 = i
      BY <1>4, <2>1, <2>3
    <3>2. QED BY <1>6, <3>1
  <2>4. QED BY <2>2, <2>3
<1>10. ASSUME NEW i \in DOMAIN s, NEW j \in DOMAIN s, s[i].id # id, s[j].id # id, i < j
       PROVE  less(i) < less(j)
  <2>1. i # k /\ j # k
    BY <1>4, <1>10
  <2>2. QED BY <1>4, <1>10, <2>1
<1> HIDE DEF less
<1>11. \A i \in DOMAIN s : to[i] = IF less(i) < m THEN less(i) ELSE less(i) + 1
  OBVIOUS
<1> HIDE DEF to
<1>12. ASSUME NEW i \in DOMAIN s, s[i].id # id PROVE to[i] \in DOMAIN t /\ t[to[i]].id = s[i].id
  <2>1. less(i) \in 1..(Len(s) - 1) /\ r[less(i)] = s[i]
    BY <1>9, <1>12
  <2>2. CASE less(i) < m
    <3>1. to[i] = less(i) /\ less(i) \in 1..Len(s)
      BY <1>4, <1>11, <2>1, <2>2
    <3>2. q[less(i)] = s[i]
      BY <1>7, <2>1, <2>2, <3>1
    <3>3. QED BY <1>8, <3>1, <3>2
  <2>3. CASE ~(less(i) < m)
    <3>1. /\ to[i] = less(i) + 1 /\ less(i) + 1 \in 1..Len(s) /\ (less(i) + 1) - 1 = less(i)
          /\ ~(less(i) + 1 < m) /\ less(i) + 1 # m
      BY <1>4, <1>5, <1>11, <2>1, <2>3
    <3>2. q[less(i) + 1] = s[i]
      BY <1>7, <2>1, <3>1
    <3>3. QED BY <1>8, <3>1, <3>2
  <2>4. QED BY <2>2, <2>3
<1>13. ASSUME NEW i \in DOMAIN s, NEW j \in DOMAIN s, s[i].id # id, s[j].id # id, i < j
       PROVE  to[i] < to[j]
  <2>1. less(i) \in Nat /\ less(j) \in Nat /\ less(i) < less(j) /\ m \in Nat
    BY <1>4, <1>5, <1>9, <1>10, <1>13
  <2>2. QED BY <1>11, <2>1
<1>14. QED BY <1>2, <1>12, <1>13, InOrderBy DEF s, t

\* Operations that change one tab, or which one is active, move none.
LEMMA ChangedInOrder ==
  ASSUME NEW s \in Seq(Tab), Distinct(s), NEW i, NEW entry \in Tab, entry.id = s[i].id
  PROVE  InOrder(s, [s EXCEPT ![i] = entry], NoTab)
<1> DEFINE t == [s EXCEPT ![i] = entry]
<1>1. t \in Seq(Tab) /\ DOMAIN t = DOMAIN s /\ \A j \in DOMAIN s : t[j].id = s[j].id
  <2>1. CASE i \in DOMAIN s
    <3>1. /\ t \in Seq(Tab) /\ DOMAIN t = DOMAIN s
          /\ \A j \in DOMAIN s : t[j] = IF j = i THEN entry ELSE s[j]
      BY <2>1, ExceptSeq, LenProperties
    <3>2. QED BY <3>1
  <2>2. CASE i \notin DOMAIN s
    <3>1. t = s
      BY <2>2
    <3>2. QED BY <3>1
  <2>3. QED BY <2>1, <2>2
<1> HIDE DEF t
<1>2. Distinct(t)
  BY <1>1 DEF Distinct
<1>3. QED BY <1>1, <1>2, InOrderInPlace DEF t

\* A step of the strip leaves every window that stays in order.
OrderKept ==
  Len(windows') = Len(windows) =>
    \A w \in DOMAIN windows :
      \E moved \in Ids(windows[w].tabs) \cup {NoTab} : InOrder(windows[w].tabs, windows'[w].tabs, moved)

LEMMA SameInOrder ==
  ASSUME Inv, windows' = windows PROVE OrderKept
<1>1. \A w \in DOMAIN windows : InOrder(windows[w].tabs, windows'[w].tabs, NoTab)
  BY DEF InOrder
<1>2. QED BY <1>1 DEF OrderKept

LEMMA UpdatedInOrder ==
  ASSUME Inv, NEW w \in DOMAIN windows, NEW win, windows' = [windows EXCEPT ![w] = win],
         NEW moved \in Ids(windows[w].tabs) \cup {NoTab}, InOrder(windows[w].tabs, win.tabs, moved)
  PROVE  OrderKept
<1>1. windows'[w] = win /\ \A v \in DOMAIN windows \ {w} : windows'[v] = windows[v]
  BY DEF Inv
<1>2. \A v \in DOMAIN windows \ {w} : InOrder(windows[v].tabs, windows'[v].tabs, NoTab)
  BY <1>1 DEF InOrder
<1>3. QED BY <1>1, <1>2 DEF OrderKept

LEMMA StripInOrder == Inv /\ StripNext => OrderKept
<1> SUFFICES ASSUME Inv, StripNext PROVE OrderKept
  OBVIOUS
<1>1. nextTab \in Nat /\ windows \in Seq(Window) /\ DOMAIN windows = 1..Len(windows)
      /\ Len(windows) \in Nat
      /\ \A w \in DOMAIN windows : windows[w] \in Window /\ WindowOK(windows[w], nextTab)
  BY LenProperties DEF Inv, WindowOK
<1>2. ASSUME NEW kind \in Kinds, OpenWindow(kind) PROVE OrderKept
  <2>1. NewWindow(kind) \in Window
    BY DEF NewWindow, Window
  <2>2. Len(windows') = Len(windows) + 1
    BY <1>1, <1>2, <2>1, AppendProperties DEF OpenWindow
  <2>3. QED BY <1>1, <2>2 DEF OrderKept
<1>3. ASSUME NEW w \in DOMAIN windows, CloseWindow(w) PROVE OrderKept
  <2>1. Len(windows') = Len(windows) - 1
    BY <1>1, <1>3, RemovedAt DEF CloseWindow
  <2>2. QED BY <1>1, <2>1 DEF OrderKept
<1>4. ASSUME NEW w \in DOMAIN windows, Open(w) PROVE OrderKept
  <2>1. PICK address \in AddressesOf(windows[w].kind) :
          windows' = [windows EXCEPT ![w] = OpenTab(windows[w], nextTab, address)]
    BY <1>4 DEF Open
  <2>2. QED BY <1>1, <2>1, OpenInOrder, UpdatedInOrder
<1>5. ASSUME NEW w \in DOMAIN windows, NEW id \in Ids(windows[w].tabs),
             \/ Activate(w, id) \/ Close(w, id) \/ Reorder(w, id)
             \/ Suspend(w, id) \/ Resume(w, id) \/ Loaded(w, id) \/ Navigated(w, id)
      PROVE  OrderKept
  <2> DEFINE s == windows[w].tabs
             i == IndexOf(s, id)
  <2>1. ASSUME NEW win, NEW moved \in Ids(s) \cup {NoTab}, InOrder(s, win.tabs, moved), Update(w, win)
        PROVE  OrderKept
    BY <2>1, UpdatedInOrder DEF Update
  <2>2. /\ windows[w] \in Window /\ s \in Seq(Tab) /\ Distinct(s) /\ i \in DOMAIN s /\ s[i] \in Tab
    <3>1. windows[w] \in Window /\ s \in Seq(Tab) /\ Distinct(s)
      BY <1>1 DEF Window, WindowOK
    <3>2. QED BY <3>1, IndexOfIs, LenProperties
  <2>3. CASE Activate(w, id)
    <3> DEFINE entry == [s[i] EXCEPT !.lifecycle = CASE @ = "RestoredNotLoaded" -> "Loading"
                                                  [] @ = "Suspended" -> "Live"
                                                  [] OTHER -> @]
    <3>1. entry \in Tab /\ entry.id = s[i].id
      BY <2>2 DEF Tab, Lifecycles
    <3>2. ActivateTab(windows[w], id) = [windows[w] EXCEPT !.tabs = [s EXCEPT ![i] = entry], !.active = id]
      BY DEF ActivateTab
    <3> HIDE DEF entry, i
    <3>3. ActivateTab(windows[w], id).tabs = [s EXCEPT ![i] = entry]
      BY <2>2, <3>2, WindowWith
    <3>4. InOrder(s, ActivateTab(windows[w], id).tabs, NoTab)
      BY <2>2, <3>1, <3>3, ChangedInOrder
    <3>5. QED BY <2>1, <2>3, <3>4 DEF Activate
  <2>4. CASE Close(w, id)
    BY <1>1, <2>1, <2>4, CloseInOrder DEF Close
  <2>5. CASE Reorder(w, id)
    <3>1. PICK target \in 0..(Len(s) - 1) : Update(w, ReorderTab(windows[w], id, target))
      BY <2>5 DEF Reorder
    <3>2. InOrder(s, ReorderTab(windows[w], id, target).tabs, id)
      BY <1>1, ReorderInOrder
    <3>3. QED BY <2>1, <3>1, <3>2
  <2>6. ASSUME NEW from, NEW to \in Lifecycles, SetLifecycle(w, id, from, to) PROVE OrderKept
    <3> DEFINE entry == [s[i] EXCEPT !.lifecycle = to]
    <3>1. entry \in Tab /\ entry.id = s[i].id
      BY <2>2 DEF Tab
    <3>2. [windows[w] EXCEPT !.tabs[i].lifecycle = to] = [windows[w] EXCEPT !.tabs = [s EXCEPT ![i] = entry]]
      OBVIOUS
    <3> HIDE DEF entry
    <3>3. [windows[w] EXCEPT !.tabs = [s EXCEPT ![i] = entry]].tabs = [s EXCEPT ![i] = entry]
      BY <2>2, WindowWithTabs
    <3>4. InOrder(s, [windows[w] EXCEPT !.tabs[i].lifecycle = to].tabs, NoTab)
      <4>1. InOrder(s, [s EXCEPT ![i] = entry], NoTab)
        <5> HIDE DEF s, i
        <5>1. QED BY <2>2, <3>1, ChangedInOrder
      <4>2. [windows[w] EXCEPT !.tabs[i].lifecycle = to].tabs = [s EXCEPT ![i] = entry]
        BY <3>2, <3>3
      <4>3. QED BY <4>1, <4>2
    <3>5. QED BY <2>1, <2>6, <3>4 DEF SetLifecycle
  <2>7. CASE Suspend(w, id) \/ Resume(w, id) \/ Loaded(w, id)
    BY <2>6, <2>7 DEF Suspend, Resume, Loaded, Lifecycles
  <2>8. CASE Navigated(w, id)
    <3>1. PICK address \in AddressesOf(windows[w].kind) :
            Update(w, [windows[w] EXCEPT !.tabs[i].address = address])
      BY <2>8 DEF Navigated
    <3> DEFINE entry == [s[i] EXCEPT !.address = address]
    <3>2. entry \in Tab /\ entry.id = s[i].id
      <4>1. address \in Addresses
        BY AddressesOfKind
      <4>2. QED BY <2>2, <4>1 DEF Tab
    <3>3. [windows[w] EXCEPT !.tabs[i].address = address] = [windows[w] EXCEPT !.tabs = [s EXCEPT ![i] = entry]]
      OBVIOUS
    <3> HIDE DEF entry
    <3>4. [windows[w] EXCEPT !.tabs = [s EXCEPT ![i] = entry]].tabs = [s EXCEPT ![i] = entry]
      BY <2>2, WindowWithTabs
    <3>5. InOrder(s, [windows[w] EXCEPT !.tabs[i].address = address].tabs, NoTab)
      <4>1. InOrder(s, [s EXCEPT ![i] = entry], NoTab)
        <5> HIDE DEF s, i
        <5>1. QED BY <2>2, <3>2, ChangedInOrder
      <4>2. [windows[w] EXCEPT !.tabs[i].address = address].tabs = [s EXCEPT ![i] = entry]
        BY <3>3, <3>4
      <4>3. QED BY <4>1, <4>2
    <3>6. QED BY <2>1, <3>1, <3>5
  <2>9. QED BY <1>5, <2>3, <2>4, <2>5, <2>7, <2>8
<1>6. QED BY <1>2, <1>3, <1>4, <1>5 DEF StripNext, Kinds

(* No operation moves more than one tab of a window: the others that stay  *)
(* keep their order (reorder_tab, close_tab, restore_tab).                 *)
THEOREM OthersStayInOrder == Spec => OthersKeepTheirOrder
<1>1. SessionInv /\ [Next]_vars => OrderKept \/ UNCHANGED windows
  <2> SUFFICES ASSUME SessionInv, [Next]_vars, windows' # windows PROVE OrderKept
    OBVIOUS
  <2>1. CASE Edit
    BY <2>1, StripInOrder DEF Edit, SessionInv
  <2>2. CASE Stop
    <3>1. CASE windows = <<>>
      BY <2>2, <3>1 DEF Stop
    <3>2. CASE windows # <<>>
      <4>1. Len(windows) # 0 /\ Len(windows') = 0
        BY <2>2, <3>2, EmptySeq DEF Stop, SessionInv, Inv
      <4>2. QED BY <4>1 DEF OrderKept
    <3>3. QED BY <3>1, <3>2
  <2>3. CASE Start
    <3>1. windows = <<>>
      BY <2>3 DEF Start, SessionInv
    <3>2. DOMAIN windows = {}
      BY <3>1
    <3>3. QED BY <3>2 DEF OrderKept
  <2>4. QED
    BY <2>1, <2>2, <2>3
    DEF Next, SaveOpen, SaveWrite, SaveRename, SaveFails, Clear, vars
<1>2. QED BY <1>1, SessionInvariant, PTL DEF Spec, OthersKeepTheirOrder, OrderKept

(***************************************************************************)
(* Navigation                                                              *)
(*                                                                         *)
(* What is in the queue says what a tab will have become when the shell    *)
(* has polled it all: its epoch is that of the last observation that moves *)
(* the epoch, its page that of the last one that puts an address there;    *)
(* and no load succeeds after it has only been started.  Inductive is that *)
(* this is what the engine has.                                            *)
(***************************************************************************)

MaybeAddress == Destinations \cup {NoAddress}
LoadedPage == [address : MaybeAddress, title : Nat]
EngineSurface == [epoch : Nat, current : LoadedPage, nav : Nat]
EventKinds == {"Started", "Redirected", "Committed", "SameDocumentNavigated", "TitleChanged",
               "Succeeded", "Failed", "NavigatedAway"}
Event == [surface : Surfaces, epoch : Nat, kind : EventKinds, id : Nat, address : MaybeAddress]
NavigatedTab == [address : MaybeAddress, title : Nat, epoch : Nat,
                 lifecycle : {"Loading", "Live", "Suspended", "Failed", "RestoredNotLoaded"},
                 indicator : BOOLEAN, inFlight : Nat]

\* The observations of tab t that move its epoch, that give it an address,
\* and that say a load succeeded.
Moves(q, t) ==
  {i \in 1..Len(q) : q[i].surface = t /\ q[i].kind \in {"Committed", "SameDocumentNavigated"}}
Places(q, t) ==
  {i \in 1..Len(q) : /\ q[i].surface = t
                     /\ q[i].kind \in {"Started", "Committed", "SameDocumentNavigated"}}
Successes(q, t) == {i \in 1..Len(q) : q[i].surface = t /\ q[i].kind = "Succeeded"}

IsLast(i, S) == i \in S /\ \A j \in S : j <= i

\* For the tab now, the queue, and the surface now.
FollowsEpoch(q, t, now, engine) ==
  /\ now.epoch <= engine.epoch
  /\ \A i \in Moves(q, t) : q[i].epoch <= engine.epoch
  /\ Moves(q, t) = {} => now.epoch = engine.epoch
  /\ \A i : IsLast(i, Moves(q, t)) => q[i].epoch = engine.epoch

IsThere(address, engine) == address = engine.current.address /\ address # NoAddress

ShowsPage(q, t, now, engine) ==
  /\ \A i : IsLast(i, Places(q, t)) =>
       IF q[i].kind = "Started" THEN \A k \in Successes(q, t) : k < i
       ELSE IsThere(q[i].address, engine)
  /\ Places(q, t) = {} /\ (Successes(q, t) # {} \/ now.lifecycle \in {"Live", "Suspended"}) =>
       IsThere(now.address, engine)

NavigationTypes ==
  /\ surface \in [Surfaces -> EngineSurface]
  /\ queue \in Seq(Event)
  /\ nextNav \in Nat
  /\ tab \in [Tabs -> NavigatedTab]

NavigationInv ==
  /\ NavigationTypes
  /\ \A t \in Tabs : /\ FollowsEpoch(queue, t, tab[t], surface[t])
                     /\ ShowsPage(queue, t, tab[t], surface[t])

LEMMA NavigationStart == NavigationInit => NavigationInv
<1> SUFFICES ASSUME NavigationInit PROVE NavigationInv
  OBVIOUS
<1> USE DEF NavigationInit, EngineInit, Tabs, NewTab, NoTitle, NoNav, FirstEpoch
<1>1. queue = <<>> /\ Len(queue) = 0 /\ 1..0 = {}
  OBVIOUS
<1>2. PICK a \in Destinations, opened \in [Surfaces -> BOOLEAN] : tab = [t \in Tabs |-> NewTab(a, opened[t])]
  OBVIOUS
<1>3. \A t \in Surfaces : tab[t] = NewTab(a, opened[t]) /\ opened[t] \in BOOLEAN
  BY <1>2
<1>4. surface \in [Surfaces -> EngineSurface]
  BY DEF EngineSurface, LoadedPage, MaybeAddress
<1>5. tab \in [Tabs -> NavigatedTab]
  BY <1>2, <1>3 DEF NavigatedTab, MaybeAddress
<1>6. NavigationTypes
  BY <1>1, <1>4, <1>5 DEF NavigationTypes
<1>7. ASSUME NEW t \in Tabs
      PROVE  FollowsEpoch(queue, t, tab[t], surface[t]) /\ ShowsPage(queue, t, tab[t], surface[t])
  <2>1. Moves(queue, t) = {} /\ Places(queue, t) = {} /\ Successes(queue, t) = {}
    BY <1>1 DEF Moves, Places, Successes
  <2>2. tab[t].epoch = surface[t].epoch /\ surface[t].epoch \in Nat
    BY <1>3, <1>7
  <2>3. tab[t].lifecycle \notin {"Live", "Suspended"}
    BY <1>3, <1>7
  <2>4. QED BY <2>1, <2>2, <2>3 DEF FollowsEpoch, ShowsPage, IsLast
<1>8. QED BY <1>6, <1>7 DEF NavigationInv

(***************************************************************************)
(* Polling: the queue without its first                                    *)
(***************************************************************************)

LEMMA Polled ==
  ASSUME NEW q \in Seq(Event), q # <<>>
  PROVE  LET h == Head(q)
             p == Tail(q)
         IN /\ h \in Event /\ p \in Seq(Event)
            /\ \A i : i \in 1..Len(p) <=> i \in Nat /\ i >= 1 /\ i + 1 \in 1..Len(q)
            /\ \A i \in 1..Len(p) : p[i] = q[i + 1]
            /\ \A i \in 1..Len(q) : i = 1 \/ (i - 1 \in 1..Len(p) /\ p[i - 1] = q[i])
            /\ q[1] = h /\ 1 \in 1..Len(q)
<1>1. Len(q) \in Nat /\ Len(q) >= 1 /\ \A i \in 1..Len(q) : q[i] \in Event
  BY EmptySeq, LenProperties
<1>2. Tail(q) \in Seq(Event) /\ Len(Tail(q)) = Len(q) - 1 /\ \A i \in 1..(Len(q) - 1) : Tail(q)[i] = q[i + 1]
  BY <1>1
<1>3. Head(q) = q[1] /\ 1 \in 1..Len(q)
  BY <1>1
<1>4. QED BY <1>1, <1>2, <1>3

LEMMA PolledEpoch ==
  ASSUME NEW q \in Seq(Event), q # <<>>, NEW t, NEW now, NEW then, NEW engine,
         now.epoch \in Nat, engine.epoch \in Nat,
         FollowsEpoch(q, t, now, engine),
         then.epoch = IF 1 \in Moves(q, t) THEN Head(q).epoch ELSE now.epoch
  PROVE  FollowsEpoch(Tail(q), t, then, engine)
<1> DEFINE p == Tail(q)
           h == Head(q)
<1>1. /\ \A i : i \in 1..Len(p) <=> i \in Nat /\ i >= 1 /\ i + 1 \in 1..Len(q)
      /\ \A i \in 1..Len(p) : p[i] = q[i + 1]
      /\ \A i \in 1..Len(q) : i = 1 \/ (i - 1 \in 1..Len(p) /\ p[i - 1] = q[i])
      /\ q[1] = h /\ 1 \in 1..Len(q) /\ Len(q) \in Nat
  BY Polled, LenProperties
<1> HIDE DEF p, h
<1>2. \A i \in Moves(p, t) : i + 1 \in Moves(q, t) /\ i \in Nat
  BY <1>1 DEF Moves
<1>3. \A i \in Moves(q, t) : i = 1 \/ i - 1 \in Moves(p, t)
  BY <1>1 DEF Moves
<1>4. \A i \in Moves(q, t) : i \in Nat /\ i >= 1
  BY <1>1 DEF Moves
<1>5. then.epoch <= engine.epoch
  BY <1>1 DEF FollowsEpoch, h
<1>6. \A i \in Moves(p, t) : p[i].epoch <= engine.epoch
  BY <1>1, <1>2 DEF FollowsEpoch, Moves
<1>7. ASSUME Moves(p, t) = {} PROVE then.epoch = engine.epoch
  <2>1. CASE 1 \in Moves(q, t)
    <3>1. IsLast(1, Moves(q, t))
      BY <1>3, <1>7, <2>1 DEF IsLast
    <3>2. QED BY <1>1, <2>1, <3>1 DEF FollowsEpoch, h
  <2>2. CASE 1 \notin Moves(q, t)
    <3>1. Moves(q, t) = {}
      BY <1>3, <1>7, <2>2
    <3>2. QED BY <2>2, <3>1 DEF FollowsEpoch
  <2>3. QED BY <2>1, <2>2
<1>8. ASSUME NEW i, IsLast(i, Moves(p, t)) PROVE p[i].epoch = engine.epoch
  <2>1. i \in Moves(p, t) /\ i + 1 \in Moves(q, t) /\ i \in Nat
    BY <1>2, <1>8 DEF IsLast
  <2>2. \A j \in Moves(q, t) : j <= i + 1
    BY <1>3, <1>4, <1>8, <2>1 DEF IsLast
  <2>3. q[i + 1].epoch = engine.epoch
    BY <2>1, <2>2 DEF IsLast, FollowsEpoch
  <2>4. p[i] = q[i + 1]
    BY <1>1, <2>1 DEF Moves
  <2>5. QED BY <2>3, <2>4
<1>9. QED BY <1>5, <1>6, <1>7, <1>8 DEF FollowsEpoch, p
LEMMA PolledPage ==
  ASSUME NEW q \in Seq(Event), q # <<>>, NEW t, NEW now, NEW then, NEW engine,
         ShowsPage(q, t, now, engine),
         1 \in Places(q, t) => then.address = Head(q).address,
         1 \notin Places(q, t) => then.address = now.address,
         then.lifecycle \in {"Live", "Suspended"} =>
           \/ 1 \in Successes(q, t)
           \/ now.lifecycle \in {"Live", "Suspended"} /\ ~(1 \in Places(q, t) /\ Head(q).kind = "Started")
  PROVE  ShowsPage(Tail(q), t, then, engine)
<1> DEFINE p == Tail(q)
           h == Head(q)
<1>1. /\ \A i : i \in 1..Len(p) <=> i \in Nat /\ i >= 1 /\ i + 1 \in 1..Len(q)
      /\ \A i \in 1..Len(p) : p[i] = q[i + 1]
      /\ \A i \in 1..Len(q) : i = 1 \/ (i - 1 \in 1..Len(p) /\ p[i - 1] = q[i])
      /\ q[1] = h /\ 1 \in 1..Len(q) /\ Len(q) \in Nat
  BY Polled, LenProperties
<1> HIDE DEF p, h
<1>2. /\ \A i \in Places(p, t) : i + 1 \in Places(q, t) /\ i \in Nat /\ p[i] = q[i + 1]
      /\ \A i \in Successes(p, t) : i + 1 \in Successes(q, t) /\ i \in Nat
  BY <1>1 DEF Places, Successes
<1>3. /\ \A i \in Places(q, t) : i = 1 \/ i - 1 \in Places(p, t)
      /\ \A i \in Successes(q, t) : i = 1 \/ i - 1 \in Successes(p, t)
  BY <1>1 DEF Places, Successes
<1>4. /\ \A i \in Places(q, t) : i \in Nat /\ i >= 1
      /\ \A i \in Successes(q, t) : i \in Nat /\ i >= 1
  BY <1>1 DEF Places, Successes
<1>5. ASSUME NEW i, IsLast(i, Places(p, t))
      PROVE  IF p[i].kind = "Started" THEN \A k \in Successes(p, t) : k < i
             ELSE IsThere(p[i].address, engine)
  <2>1. i \in Places(p, t) /\ i + 1 \in Places(q, t) /\ i \in Nat /\ p[i] = q[i + 1]
    BY <1>2, <1>5 DEF IsLast
  <2>2. \A j \in Places(q, t) : j <= i + 1
    BY <1>3, <1>4, <1>5, <2>1 DEF IsLast
  <2>3. IF q[i + 1].kind = "Started" THEN \A k \in Successes(q, t) : k < i + 1
        ELSE IsThere(q[i + 1].address, engine)
    BY <2>1, <2>2 DEF IsLast, ShowsPage
  <2>4. CASE p[i].kind = "Started"
    <3>1. \A k \in Successes(p, t) : k + 1 < i + 1 /\ k \in Nat
      BY <1>2, <2>1, <2>3, <2>4
    <3>2. QED BY <2>1, <2>4, <3>1
  <2>5. QED BY <2>1, <2>3, <2>4
<1>6. ASSUME Places(p, t) = {}, Successes(p, t) # {} \/ then.lifecycle \in {"Live", "Suspended"}
      PROVE  IsThere(then.address, engine)
  <2>1. CASE 1 \in Places(q, t)
    <3>1. IsLast(1, Places(q, t))
      BY <1>3, <1>6, <2>1 DEF IsLast
    <3>2. IF h.kind = "Started" THEN \A k \in Successes(q, t) : k < 1
          ELSE IsThere(h.address, engine)
      BY <1>1, <3>1 DEF ShowsPage
    <3>3. h.kind # "Started"
      <4>1. SUFFICES ASSUME h.kind = "Started" PROVE FALSE
        OBVIOUS
      <4>2. Successes(q, t) = {}
        BY <1>4, <3>2, <4>1
      <4>3. Successes(p, t) = {} /\ then.lifecycle \notin {"Live", "Suspended"}
        BY <1>2, <2>1, <4>1, <4>2 DEF h
      <4>4. QED BY <1>6, <4>3
    <3>4. QED BY <2>1, <3>2, <3>3 DEF h
  <2>2. CASE 1 \notin Places(q, t)
    <3>1. Places(q, t) = {}
      BY <1>3, <1>6, <2>2
    <3>2. Successes(q, t) # {} \/ now.lifecycle \in {"Live", "Suspended"}
      BY <1>2, <1>6
    <3>3. QED BY <2>2, <3>1, <3>2 DEF ShowsPage
  <2>3. QED BY <2>1, <2>2
<1>7. QED BY <1>5, <1>6 DEF ShowsPage, p

LEMMA PollKeeps == NavigationInv /\ Poll => NavigationInv'
<1> SUFFICES ASSUME NavigationInv, Poll PROVE NavigationInv'
  OBVIOUS
<1> DEFINE obs == Head(queue)
<1>1. /\ queue # <<>> /\ queue \in Seq(Event) /\ queue' = Tail(queue)
      /\ UNCHANGED <<surface, nextNav>>
      /\ tab' = [tab EXCEPT ![obs.surface] = Handled(obs.surface, obs)]
      /\ surface \in [Surfaces -> EngineSurface] /\ tab \in [Tabs -> NavigatedTab] /\ nextNav \in Nat
  BY DEF NavigationInv, NavigationTypes, Poll
<1>2. obs \in Event /\ Tail(queue) \in Seq(Event) /\ queue[1] = obs /\ 1 \in 1..Len(queue)
  BY <1>1, Polled
<1>3. \A t \in Tabs : tab[t] \in NavigatedTab /\ surface[t] \in EngineSurface
  BY <1>1 DEF Tabs
<1> HIDE DEF obs
<1>4. obs.surface \in Tabs /\ obs.kind \in EventKinds /\ obs.epoch \in Nat /\ obs.id \in Nat
      /\ obs.address \in MaybeAddress
  BY <1>2 DEF Event, Tabs
<1>5. /\ tab'[obs.surface] = Handled(obs.surface, obs)
      /\ \A t \in Tabs : t # obs.surface => tab'[t] = tab[t]
  BY <1>1, <1>4
<1> DEFINE now == tab[obs.surface]
           then == Handled(obs.surface, obs)
<1>6. now \in NavigatedTab /\ tab[obs.surface] = now
  BY <1>3, <1>4
<1> HIDE DEF now
<1>7. /\ then \in NavigatedTab
      /\ then.epoch = IF obs.kind \in {"Committed", "SameDocumentNavigated"} THEN obs.epoch ELSE now.epoch
      /\ then.address = IF obs.kind \in {"Started", "Committed", "SameDocumentNavigated"}
                        THEN obs.address ELSE now.address
      /\ then.lifecycle \in {"Live", "Suspended"} =>
           obs.kind = "Succeeded" \/ (now.lifecycle \in {"Live", "Suspended"} /\ obs.kind # "Started")
  BY <1>4, <1>6 DEF Handled, UpdateAddress, Settle, NavigatedTab, NoNav, EventKinds
<1> HIDE DEF then
<1>8. tab' \in [Tabs -> NavigatedTab]
  BY <1>1, <1>7 DEF then
<1>9. NavigationTypes'
  BY <1>1, <1>2, <1>8 DEF NavigationTypes
<1>10. ASSUME NEW t \in Tabs
       PROVE  /\ FollowsEpoch(queue', t, tab'[t], surface[t])
              /\ ShowsPage(queue', t, tab'[t], surface[t])
  <2>1. /\ FollowsEpoch(queue, t, tab[t], surface[t]) /\ ShowsPage(queue, t, tab[t], surface[t])
        /\ tab[t].epoch \in Nat /\ surface[t].epoch \in Nat
    BY <1>3 DEF NavigationInv, NavigatedTab, EngineSurface
  <2>2. CASE t = obs.surface
    <3>1. 1 \in Moves(queue, t) <=> obs.kind \in {"Committed", "SameDocumentNavigated"}
      BY <1>2, <2>2 DEF Moves
    <3>2. 1 \in Places(queue, t) <=> obs.kind \in {"Started", "Committed", "SameDocumentNavigated"}
      BY <1>2, <2>2 DEF Places
    <3>3. 1 \in Successes(queue, t) <=> obs.kind = "Succeeded"
      BY <1>2, <2>2 DEF Successes
    <3>4. tab'[t].epoch = IF 1 \in Moves(queue, t) THEN obs.epoch ELSE tab[t].epoch
      BY <1>5, <1>6, <1>7, <2>2, <3>1 DEF then
    <3>5. FollowsEpoch(Tail(queue), t, tab'[t], surface[t])
      BY <1>1, <2>1, <3>4, PolledEpoch DEF obs
    <3>6. /\ 1 \in Places(queue, t) => tab'[t].address = obs.address
          /\ 1 \notin Places(queue, t) => tab'[t].address = tab[t].address
          /\ tab'[t].lifecycle \in {"Live", "Suspended"} =>
               \/ 1 \in Successes(queue, t)
               \/ tab[t].lifecycle \in {"Live", "Suspended"} /\ ~(1 \in Places(queue, t) /\ obs.kind = "Started")
      BY <1>5, <1>6, <1>7, <2>2, <3>2, <3>3 DEF then
    <3>7. ShowsPage(Tail(queue), t, tab'[t], surface[t])
      BY <1>1, <2>1, <3>6, PolledPage DEF obs
    <3>8. QED BY <1>1, <3>5, <3>7
  <2>3. CASE t # obs.surface
    <3>1. 1 \notin Moves(queue, t) /\ 1 \notin Places(queue, t) /\ 1 \notin Successes(queue, t)
      BY <1>2, <2>3 DEF Moves, Places, Successes
    <3>2. tab'[t] = tab[t]
      BY <1>5, <2>3
    <3>3. FollowsEpoch(Tail(queue), t, tab'[t], surface[t])
      BY <1>1, <2>1, <3>1, <3>2, PolledEpoch
    <3>4. ShowsPage(Tail(queue), t, tab'[t], surface[t])
      BY <1>1, <2>1, <3>1, <3>2, PolledPage
    <3>5. QED BY <1>1, <3>3, <3>4
  <2>4. QED BY <2>2, <2>3
<1>11. QED BY <1>1, <1>9, <1>10 DEF NavigationInv

(***************************************************************************)
(* Navigating: observations at the end of the queue                        *)
(***************************************************************************)

\* The queue p goes on where q ends.
GoesOn(q, p) == Len(q) <= Len(p) /\ \A i \in 1..Len(q) : p[i] = q[i]

LEMMA OthersKept ==
  ASSUME NEW q \in Seq(Event), NEW p \in Seq(Event), GoesOn(q, p), NEW t,
         \A i \in 1..Len(p) : i > Len(q) => p[i].surface # t
  PROVE  Moves(p, t) = Moves(q, t) /\ Places(p, t) = Places(q, t) /\ Successes(p, t) = Successes(q, t)
<1>1. Len(q) \in Nat /\ Len(p) \in Nat
  BY LenProperties
<1>2. \A i : i \in 1..Len(q) <=> i \in 1..Len(p) /\ i <= Len(q)
  BY <1>1 DEF GoesOn
<1>3. \A i \in 1..Len(p) : p[i].surface = t => i \in 1..Len(q) /\ p[i] = q[i]
  BY <1>1 DEF GoesOn
<1>4. \A i \in 1..Len(q) : i \in 1..Len(p) /\ p[i] = q[i]
  BY <1>2 DEF GoesOn
<1>5. QED BY <1>3, <1>4 DEF Moves, Places, Successes

LEMMA OtherTabKept ==
  ASSUME NEW q \in Seq(Event), NEW p \in Seq(Event), GoesOn(q, p), NEW t, NEW now, NEW engine,
         \A i \in 1..Len(p) : i > Len(q) => p[i].surface # t,
         FollowsEpoch(q, t, now, engine), ShowsPage(q, t, now, engine)
  PROVE  FollowsEpoch(p, t, now, engine) /\ ShowsPage(p, t, now, engine)
<1>1. Moves(p, t) = Moves(q, t) /\ Places(p, t) = Places(q, t) /\ Successes(p, t) = Successes(q, t)
  BY OthersKept
<1>2. \A i \in Moves(q, t) \cup Places(q, t) : p[i] = q[i]
  BY DEF GoesOn, Moves, Places
<1>3. QED BY <1>1, <1>2 DEF FollowsEpoch, ShowsPage, IsLast

LEMMA SameDocumentKeeps ==
  ASSUME NavigationInv, NEW s \in Tabs, NEW address \in Destinations, PageSameDocument(s, address)
  PROVE  NavigationInv'
<1> DEFINE old == surface[s]
           obs == Observation(s, old.epoch + 1, nextNav, Step("SameDocumentNavigated", address))
<1>1. /\ queue \in Seq(Event) /\ queue' = Append(queue, obs)
      /\ UNCHANGED tab /\ nextNav' = nextNav + 1
      /\ surface' = [surface EXCEPT ![s].epoch = @ + 1, ![s].current.address = address]
      /\ surface \in [Surfaces -> EngineSurface] /\ tab \in [Tabs -> NavigatedTab] /\ nextNav \in Nat
  BY DEF PageSameDocument, NavigateSameDocument, NavigationInv, NavigationTypes
<1>2. old \in EngineSurface /\ s \in Surfaces
  BY <1>1 DEF Tabs
<1>3. old.epoch \in Nat /\ old.current \in LoadedPage
  BY <1>2 DEF EngineSurface
<1> DEFINE new == [old EXCEPT !.epoch = @ + 1, !.current.address = address]
<1>4. surface' = [surface EXCEPT ![s] = new]
  BY <1>1, <1>2
<1>5. new \in EngineSurface /\ new.epoch = old.epoch + 1 /\ new.current.address = address
  <2> DEFINE page == [old.current EXCEPT !.address = address]
  <2>1. page \in LoadedPage /\ page.address = address
    BY <1>3 DEF LoadedPage, MaybeAddress
  <2>2. new = [old EXCEPT !.epoch = old.epoch + 1, !.current = page]
    OBVIOUS
  <2> HIDE DEF page, new, old
  <2> DEFINE epoch == old.epoch + 1
  <2>3. epoch \in Nat
    BY <1>3
  <2> HIDE DEF epoch
  <2>4. /\ [old EXCEPT !.epoch = epoch, !.current = page].epoch = epoch
        /\ [old EXCEPT !.epoch = epoch, !.current = page].current = page
    BY <1>2 DEF EngineSurface
  <2>5. [old EXCEPT !.epoch = epoch, !.current = page] \in EngineSurface
    BY <1>2, <2>1, <2>3 DEF EngineSurface
  <2>6. QED BY <2>1, <2>2, <2>4, <2>5 DEF epoch
<1>6. obs \in Event /\ obs.surface = s /\ obs.kind = "SameDocumentNavigated"
      /\ obs.epoch = old.epoch + 1 /\ obs.address = address
  BY <1>1, <1>2, <1>3 DEF Observation, Step, Event, EventKinds, MaybeAddress
<1> HIDE DEF new, obs, old
<1>7. surface' \in [Surfaces -> EngineSurface] /\ surface'[s] = new
      /\ \A t \in Tabs : t # s => surface'[t] = surface[t]
  BY <1>1, <1>2, <1>4, <1>5 DEF Tabs
<1> DEFINE L == Len(queue)
<1>8. /\ L \in Nat /\ queue' \in Seq(Event) /\ Len(queue') = L + 1 /\ queue'[L + 1] = obs
      /\ \A i \in 1..L : queue'[i] = queue[i]
  BY <1>1, <1>6, LenProperties, AppendProperties
<1>9. GoesOn(queue, queue') /\ \A i \in 1..Len(queue') : i > L => i = L + 1
  BY <1>8 DEF GoesOn
<1>10. L + 1 \in 1..Len(queue')
  BY <1>8
<1> HIDE DEF L
<1>11. NavigationTypes'
  BY <1>1, <1>7, <1>8 DEF NavigationTypes
<1>12. ASSUME NEW t \in Tabs
       PROVE  /\ FollowsEpoch(queue', t, tab'[t], surface'[t])
              /\ ShowsPage(queue', t, tab'[t], surface'[t])
  <2>1. FollowsEpoch(queue, t, tab[t], surface[t]) /\ ShowsPage(queue, t, tab[t], surface[t])
        /\ tab[t].epoch \in Nat
    BY <1>1 DEF NavigationInv, NavigatedTab
  <2>2. CASE t # s
    <3>1. \A i \in 1..Len(queue') : i > Len(queue) => queue'[i].surface # t
      BY <1>6, <1>8, <1>9, <2>2 DEF L
    <3>2. surface'[t] = surface[t]
      BY <1>7, <2>2
    <3>3. QED BY <1>1, <1>8, <1>9, <2>1, <3>1, <3>2, OtherTabKept
  <2>3. CASE t = s
    <3>1. IsLast(L + 1, Moves(queue', t)) /\ IsLast(L + 1, Places(queue', t))
      <4>1. L + 1 \in Moves(queue', t) /\ L + 1 \in Places(queue', t)
        BY <1>6, <1>8, <1>10, <2>3 DEF Moves, Places
      <4>2. \A j \in 1..Len(queue') : j <= L + 1
        BY <1>8
      <4>3. QED BY <4>1, <4>2 DEF IsLast, Moves, Places
    <3>2. \A i : (IsLast(i, Moves(queue', t)) \/ IsLast(i, Places(queue', t))) => i = L + 1
      BY <1>8, <3>1 DEF IsLast, Moves, Places
    <3>3. \A i \in Moves(queue', t) : i = L + 1 \/ (i \in Moves(queue, t) /\ queue'[i] = queue[i])
      <4>1. \A i \in 1..Len(queue') : i = L + 1 \/ (i \in 1..Len(queue) /\ queue'[i] = queue[i])
        BY <1>8 DEF L
      <4>2. QED BY <4>1 DEF Moves
    <3>4. surface[t] = old /\ surface'[t] = new
      BY <1>7, <2>3 DEF old
    <3>5. FollowsEpoch(queue', t, tab[t], surface'[t])
      <4>1. \A i \in Moves(queue, t) : queue[i].epoch \in Nat /\ queue[i].epoch <= old.epoch
        <5>1. \A i \in 1..Len(queue) : queue[i] \in Event
          BY <1>1, LenProperties
        <5>2. QED BY <2>1, <3>4, <5>1 DEF FollowsEpoch, Moves, Event
      <4>2. \A i \in Moves(queue', t) : queue'[i].epoch <= new.epoch
        BY <1>3, <1>5, <1>6, <1>8, <3>3, <4>1
      <4>3. tab[t].epoch <= new.epoch
        BY <1>3, <1>5, <2>1, <3>4 DEF FollowsEpoch
      <4>4. Moves(queue', t) # {}
        BY <3>1 DEF IsLast
      <4>5. QED BY <1>5, <1>6, <1>8, <3>2, <3>4, <4>2, <4>3, <4>4 DEF FollowsEpoch
    <3>6. ShowsPage(queue', t, tab[t], surface'[t])
      <4>1. Places(queue', t) # {}
        BY <3>1 DEF IsLast
      <4>2. IsThere(address, new) /\ queue'[L + 1].kind # "Started" /\ queue'[L + 1].address = address
        BY <1>5, <1>6, <1>8, DestinationsAssumption DEF IsThere
      <4>3. QED BY <3>2, <3>4, <4>1, <4>2 DEF ShowsPage
    <3>7. QED BY <1>1, <3>5, <3>6
  <2>4. QED BY <2>2, <2>3
<1>13. QED BY <1>11, <1>12 DEF NavigationInv

\* A script commits before it succeeds, and commits only addresses.
ScriptStep == [kind : EventKinds, address : MaybeAddress]
ScriptSteps == Seq(ScriptStep)
Commits(steps, k) == k \in 1..Len(steps) /\ steps[k].kind = "Committed"
ScriptOK(steps) ==
  /\ steps \in ScriptSteps
  /\ \A k \in 1..Len(steps) :
       /\ steps[k].kind \notin {"Started", "SameDocumentNavigated"}
       /\ steps[k].kind = "Committed" => steps[k].address \in Destinations
       /\ steps[k].kind = "Succeeded" => \E j \in 1..(k - 1) : Commits(steps, j)

LEMMA ScriptsOK ==
  ASSUME NEW name \in ScriptNames, NEW address \in Destinations, NEW target \in Destinations
  PROVE  ScriptOK(Script(name, address, target))
<1> DEFINE first == Step("Committed", address)
           other == Step("Committed", target)
           steps == Script(name, address, target)
<1>1. \A kind \in EventKinds : Quiet(kind) \in ScriptStep /\ Quiet(kind).kind = kind
  BY DEF Quiet, Step, ScriptStep, MaybeAddress
<1>2. /\ first \in ScriptStep /\ first.kind = "Committed" /\ first.address \in Destinations
      /\ other \in ScriptStep /\ other.kind = "Committed" /\ other.address \in Destinations
      /\ Step("Redirected", target) \in ScriptStep /\ Step("Redirected", target).kind = "Redirected"
  BY DEF Step, ScriptStep, MaybeAddress, EventKinds
<1> HIDE DEF first, other
<1>3. {"Committed", "TitleChanged", "Succeeded", "Failed", "NavigatedAway"} \subseteq EventKinds
  BY DEF EventKinds
<1>4. CASE name = "page"
  <2>1. steps = <<first, Quiet("TitleChanged"), Quiet("Succeeded")>>
    BY <1>4 DEF Script, first
  <2> HIDE DEF steps
  <2>2. steps \in Seq(ScriptStep) /\ Len(steps) = 3
    BY <1>1, <1>2, <1>3, <2>1
  <2>3. steps[1] = first /\ steps[2] = Quiet("TitleChanged") /\ steps[3] = Quiet("Succeeded")
    BY <2>1
  <2>4. QED BY <1>1, <1>2, <1>3, <2>2, <2>3 DEF ScriptOK, ScriptSteps, Commits, steps
<1>5. CASE name = "failure"
  <2>1. steps = <<Quiet("Failed")>>
    BY <1>5 DEF Script
  <2> HIDE DEF steps
  <2>2. steps \in Seq(ScriptStep) /\ Len(steps) = 1 /\ steps[1] = Quiet("Failed")
    BY <1>1, <1>3, <2>1
  <2>3. QED BY <1>1, <1>3, <2>2 DEF ScriptOK, ScriptSteps, Commits, steps
<1>6. CASE name = "redirect"
  <2>1. steps = <<Step("Redirected", target), other, Quiet("TitleChanged"), Quiet("Succeeded")>>
    BY <1>6 DEF Script, other
  <2> HIDE DEF steps
  <2>2. steps \in Seq(ScriptStep) /\ Len(steps) = 4
    BY <1>1, <1>2, <1>3, <2>1
  <2>3. /\ steps[1] = Step("Redirected", target) /\ steps[2] = other
        /\ steps[3] = Quiet("TitleChanged") /\ steps[4] = Quiet("Succeeded")
    BY <2>1
  <2>4. QED BY <1>1, <1>2, <1>3, <2>2, <2>3 DEF ScriptOK, ScriptSteps, Commits, steps
<1>7. CASE name = "delayed_title"
  <2>1. steps = <<first, Quiet("Succeeded"), Quiet("TitleChanged")>>
    BY <1>7 DEF Script, first
  <2> HIDE DEF steps
  <2>2. steps \in Seq(ScriptStep) /\ Len(steps) = 3
    BY <1>1, <1>2, <1>3, <2>1
  <2>3. steps[1] = first /\ steps[2] = Quiet("Succeeded") /\ steps[3] = Quiet("TitleChanged")
    BY <2>1
  <2>4. QED BY <1>1, <1>2, <1>3, <2>2, <2>3 DEF ScriptOK, ScriptSteps, Commits, steps
<1>8. CASE name = "abandoned"
  <2>1. steps = <<first, Quiet("NavigatedAway")>>
    BY <1>8 DEF Script, first
  <2> HIDE DEF steps
  <2>2. /\ steps \in Seq(ScriptStep) /\ Len(steps) = 2
        /\ steps[1] = first /\ steps[2] = Quiet("NavigatedAway")
    BY <1>1, <1>2, <1>3, <2>1
  <2>3. QED BY <1>1, <1>2, <1>3, <2>2 DEF ScriptOK, ScriptSteps, Commits, steps
<1>9. CASE name = "hanging"
  <2>1. steps = <<>>
    BY <1>9 DEF Script
  <2>2. steps \in Seq(ScriptStep) /\ Len(steps) = 0 /\ 1..0 = {}
    BY <2>1
  <2> HIDE DEF steps
  <2>3. QED BY <2>2 DEF ScriptOK, ScriptSteps, Commits, steps
<1>10. CASE name = "stalled"
  <2>1. steps = <<first>>
    BY <1>10 DEF Script, first
  <2> HIDE DEF steps
  <2>2. steps \in Seq(ScriptStep) /\ Len(steps) = 1 /\ steps[1] = first
    BY <1>2, <2>1
  <2>3. QED BY <1>2, <2>2 DEF ScriptOK, ScriptSteps, Commits, steps
<1>11. QED BY <1>4, <1>5, <1>6, <1>7, <1>8, <1>9, <1>10 DEF ScriptNames

\* What a script makes of its surface, step by step.
Runs(run, before, id, steps) ==
  /\ run \in [0..Len(steps) -> EngineSurface]
  /\ run[0] = before
  /\ \A k \in 1..Len(steps) : run[k] = RunStep(id, run[k - 1], steps[k])

LEMMA RunStepIs ==
  ASSUME NEW id \in Nat, NEW before \in EngineSurface,
         NEW step \in ScriptStep
  PROVE  /\ RunStep(id, before, step) \in EngineSurface
         /\ IF step.kind = "Committed"
            THEN /\ RunStep(id, before, step).epoch = before.epoch + 1
                 /\ RunStep(id, before, step).current.address = step.address
            ELSE /\ RunStep(id, before, step).epoch = before.epoch
                 /\ RunStep(id, before, step).current.address = before.current.address
<1> DEFINE after == RunStep(id, before, step)
<1>1. /\ before.epoch \in Nat /\ before.current \in LoadedPage /\ before.nav \in Nat
      /\ step.address \in MaybeAddress
  BY DEF EngineSurface, ScriptStep
<1>2. CASE step.kind = "Committed"
  <2>1. after = [epoch |-> before.epoch + 1, current |-> [address |-> step.address, title |-> NoTitle],
                 nav |-> id]
    BY <1>2 DEF RunStep
  <2> HIDE DEF after
  <2>2. [address |-> step.address, title |-> NoTitle] \in LoadedPage
    BY <1>1 DEF LoadedPage, NoTitle
  <2>3. after \in EngineSurface
    BY <1>1, <2>1, <2>2 DEF EngineSurface
  <2>4. QED BY <1>2, <2>1, <2>3 DEF after
<1>3. CASE step.kind # "Committed" /\ step.kind = "TitleChanged" /\ before.nav = id
  <2> DEFINE page == [before.current EXCEPT !.title = id]
  <2>1. after = [before EXCEPT !.current = page]
    BY <1>3 DEF RunStep
  <2>2. page \in LoadedPage /\ page.address = before.current.address
    BY <1>1 DEF LoadedPage
  <2> HIDE DEF page, after
  <2>3. after \in EngineSurface /\ after.epoch = before.epoch /\ after.current = page
    BY <2>1, <2>2 DEF EngineSurface
  <2>4. QED BY <1>3, <2>2, <2>3 DEF after
<1>4. CASE step.kind # "Committed" /\ ~(step.kind = "TitleChanged" /\ before.nav = id)
  <2>1. after = before
    BY <1>4 DEF RunStep
  <2>2. QED BY <1>4, <2>1
<1>5. QED BY <1>2, <1>3, <1>4

\* The run exists: start_surface_navigation's recursion is over the steps.
LEMMA RunOf ==
  ASSUME NEW before \in EngineSurface, NEW id \in Nat, NEW steps \in ScriptSteps
  PROVE  LET UpTo(g) == g = [k \in 0..Len(steps) |->
                               IF k = 0 THEN before ELSE RunStep(id, g[k - 1], steps[k])]
         IN Runs(CHOOSE g : UpTo(g), before, id, steps)
<1> DEFINE UpTo(g) == g = [k \in 0..Len(steps) |->
                             IF k = 0 THEN before ELSE RunStep(id, g[k - 1], steps[k])]
           n == Len(steps)
           step == [x \in EngineSurface \X (1..n) |-> RunStep(id, x[1], steps[x[2]])]
           run == CHOOSE g : UpTo(g)
<1>1. n \in Nat /\ \A k \in 1..n : steps[k] \in ScriptStep
  BY LenProperties DEF ScriptSteps
<1>2. \A e \in EngineSurface, k \in 1..n : RunStep(id, e, steps[k]) \in EngineSurface
  BY <1>1, RunStepIs
<1>3. step \in [EngineSurface \X (1..n) -> EngineSurface]
  BY <1>2
<1>4. \E g : UpTo(g)
  <2>1. PICK g \in [0..n -> EngineSurface] : Folds(g, n, before, step)
    <3> HIDE DEF step, n
    <3>1. QED BY <1>1, <1>3, FoldExists
  <2>2. ASSUME NEW k \in 0..n, k # 0
        PROVE  step[<<g[k - 1], k>>] = RunStep(id, g[k - 1], steps[k])
    <3>1. k \in 1..n /\ g[k - 1] \in EngineSurface
      BY <1>1, <2>2
    <3>2. QED BY <3>1
  <2>3. UpTo(g)
    <3> HIDE DEF step
    <3>1. QED BY <2>1, <2>2 DEF Folds
  <2>4. QED BY <2>3
<1>5. UpTo(run)
  BY <1>4
<1> HIDE DEF run
<1>6. /\ \A k \in 0..n : run[k] = IF k = 0 THEN before ELSE RunStep(id, run[k - 1], steps[k])
      /\ DOMAIN run = 0..n /\ run = [k \in 0..n |-> run[k]]
  BY <1>5
<1>7. run[0] = before /\ \A k \in 1..n : run[k] = RunStep(id, run[k - 1], steps[k])
  <2>1. 0 \in 0..n /\ \A k \in 1..n : k \in 0..n /\ k # 0
    BY <1>1
  <2>2. QED BY <1>6, <2>1
<1> DEFINE Typed == {k \in Nat : k <= n => run[k] \in EngineSurface}
<1>8. 0 \in Typed
  BY <1>7
<1>9. ASSUME NEW k \in Nat, k \in Typed PROVE k + 1 \in Typed
  <2>1. k + 1 <= n => k + 1 \in 1..n /\ (k + 1) - 1 = k /\ k <= n
    BY <1>1
  <2>2. k + 1 <= n => run[k + 1] = RunStep(id, run[k], steps[k + 1])
    BY <1>7, <2>1
  <2>3. QED BY <1>2, <1>9, <2>1, <2>2
<1>10. \A k \in 0..n : run[k] \in EngineSurface
  <2>1. Nat \subseteq Typed
    <3> HIDE DEF Typed
    <3>1. QED BY <1>8, <1>9, NatInductionOnSets
  <2>2. QED BY <1>1, <2>1
<1>11. run \in [0..n -> EngineSurface]
  BY <1>6, <1>10
<1>12. QED BY <1>7, <1>11 DEF Runs, run

\* From one step on to another: the epoch does not go back, and without a
\* commit between them it stays, and the page too.
Since(run, steps, j, k) ==
  /\ run[j].epoch <= run[k].epoch
  /\ (\A i \in 1..Len(steps) : j < i /\ i <= k => ~Commits(steps, i)) =>
       run[k].epoch = run[j].epoch /\ run[k].current.address = run[j].current.address

LEMMA RunSince ==
  ASSUME NEW before, NEW id \in Nat, NEW steps \in ScriptSteps, NEW run,
         Runs(run, before, id, steps), NEW j \in 0..Len(steps)
  PROVE  Since(run, steps, j, Len(steps))
<1> DEFINE n == Len(steps)
           Good == {k \in Nat : j <= k /\ k <= n => Since(run, steps, j, k)}
<1>1. n \in Nat /\ \A k \in 1..n : steps[k] \in ScriptStep
  BY LenProperties DEF ScriptSteps
<1>2. \A k \in 0..n : run[k] \in EngineSurface /\ run[k].epoch \in Nat
  BY DEF Runs, EngineSurface
<1>3. \A k \in 1..n : run[k] = RunStep(id, run[k - 1], steps[k]) /\ k - 1 \in 0..n
  BY <1>1 DEF Runs
<1>4. j = 0 => 0 \in Good
  BY <1>1, <1>2 DEF Since
<1>5. 0 \in Good
  <2>1. j # 0 => ~(j <= 0)
    BY <1>1
  <2>2. QED BY <1>4, <2>1
<1>6. ASSUME NEW k \in Nat, k \in Good PROVE k + 1 \in Good
  <2> SUFFICES ASSUME j <= k + 1, k + 1 <= n PROVE Since(run, steps, j, k + 1)
    OBVIOUS
  <2>1. k + 1 \in 1..n /\ (k + 1) - 1 = k /\ k \in 0..n
    BY <1>1
  <2>2. CASE j = k + 1
    BY <1>2, <2>2 DEF Since
  <2>3. CASE j # k + 1
    <3>1. j <= k
      BY <1>1, <2>3
    <3>2. Since(run, steps, j, k)
      BY <1>6, <2>1, <3>1
    <3>3. IF steps[k + 1].kind = "Committed"
          THEN run[k + 1].epoch = run[k].epoch + 1
          ELSE run[k + 1].epoch = run[k].epoch /\ run[k + 1].current.address = run[k].current.address
      <4>1. run[k] \in EngineSurface /\ run[k + 1] = RunStep(id, run[k], steps[k + 1])
            /\ steps[k + 1] \in ScriptStep
        BY <1>1, <1>2, <1>3, <2>1
      <4>2. LET after == RunStep(id, run[k], steps[k + 1])
            IN IF steps[k + 1].kind = "Committed"
               THEN after.epoch = run[k].epoch + 1
               ELSE after.epoch = run[k].epoch /\ after.current.address = run[k].current.address
        BY <4>1, RunStepIs
      <4>3. QED BY <4>1, <4>2
    <3>4. run[j].epoch \in Nat /\ run[k].epoch \in Nat /\ run[k + 1].epoch \in Nat
      BY <1>1, <1>2, <2>1
    <3>5. run[j].epoch <= run[k + 1].epoch
      BY <3>2, <3>3, <3>4 DEF Since
    <3>6. ASSUME \A i \in 1..n : j < i /\ i <= k + 1 => ~Commits(steps, i)
          PROVE  run[k + 1].epoch = run[j].epoch
                 /\ run[k + 1].current.address = run[j].current.address
      <4>1. steps[k + 1].kind # "Committed"
        BY <2>1, <3>1, <3>6 DEF Commits
      <4>2. \A i \in 1..n : j < i /\ i <= k => ~Commits(steps, i)
        BY <3>6
      <4>3. QED BY <3>2, <3>3, <4>1, <4>2 DEF Since
    <3>7. QED BY <3>5, <3>6 DEF Since
  <2>4. QED BY <2>2, <2>3
<1>7. n \in Good
  <2> HIDE DEF Good
  <2>1. QED BY <1>1, <1>5, <1>6, NatInductionOnSets
<1>8. QED BY <1>1, <1>7

LEMMA NavigationKeeps ==
  ASSUME NavigationInv, NEW s \in Tabs, NEW address \in Destinations, NEW steps, ScriptOK(steps),
         StartNavigation(s, address, steps),
         tab' \in [Tabs -> NavigatedTab],
         \A t \in Tabs : tab'[t].epoch = tab[t].epoch,
         \A t \in Tabs : t # s => tab'[t] = tab[t]
  PROVE  NavigationInv'
<1> DEFINE old == surface[s]
           id == nextNav
           n == Len(steps)
           L == Len(queue)
           UpTo(g) == g = [k \in 0..n |-> IF k = 0 THEN old ELSE RunStep(id, g[k - 1], steps[k])]
           run == CHOOSE g : UpTo(g)
           started == Observation(s, old.epoch, id, Step("Started", address))
           told == [k \in DOMAIN steps |-> Observation(s, run[k].epoch, id, steps[k])]
           new == run[n]
<1>1. /\ surface \in [Surfaces -> EngineSurface] /\ queue \in Seq(Event) /\ id \in Nat
      /\ tab \in [Tabs -> NavigatedTab]
      /\ s \in Surfaces /\ old \in EngineSurface
      /\ steps \in ScriptSteps
  BY DEF NavigationInv, NavigationTypes, Tabs, ScriptOK
<1>2. /\ nextNav' = nextNav + 1
      /\ surface' = [surface EXCEPT ![s] = new]
      /\ queue' = Append(queue, started) \o told
  BY DEF StartNavigation
<1>3. Runs(run, old, id, steps)
  BY <1>1, RunOf
<1> HIDE DEF run, old
<1>4. /\ n \in Nat /\ DOMAIN steps = 1..n
      /\ \A k \in 1..n : steps[k] \in ScriptStep
  BY <1>1, LenProperties DEF ScriptSteps
<1>5. /\ run[0] = old /\ \A k \in 0..n : run[k] \in EngineSurface /\ run[k].epoch \in Nat
      /\ \A k \in 1..n : run[k] = RunStep(id, run[k - 1], steps[k]) /\ k - 1 \in 0..n
      /\ new \in EngineSurface /\ new.epoch \in Nat /\ old.epoch \in Nat
  <2>1. \A e \in EngineSurface : e.epoch \in Nat
    BY DEF EngineSurface
  <2>2. n \in 0..n /\ 0 \in 0..n /\ \A k \in 1..n : k - 1 \in 0..n
    BY <1>4
  <2>3. QED BY <1>1, <1>3, <2>1, <2>2 DEF Runs
<1>6. started \in Event /\ started.surface = s /\ started.kind = "Started"
  BY <1>1, <1>5 DEF Observation, Step, Event, EventKinds, MaybeAddress
<1>7. ASSUME NEW k \in 1..n
      PROVE  /\ told[k] \in Event /\ told[k].surface = s /\ told[k].kind = steps[k].kind
             /\ told[k].epoch = run[k].epoch /\ told[k].address = steps[k].address
  <2>1. told[k] = Observation(s, run[k].epoch, id, steps[k])
    BY <1>4
  <2>2. run[k].epoch \in Nat
    BY <1>4, <1>5
  <2> HIDE DEF told
  <2>3. steps[k].kind \in EventKinds /\ steps[k].address \in MaybeAddress
    BY <1>4 DEF ScriptStep
  <2>4. QED BY <1>1, <2>1, <2>2, <2>3 DEF Observation, Event
<1>8. told \in Seq(Event) /\ Len(told) = n
  BY <1>4, <1>7
<1> HIDE DEF told, started, new
<1> DEFINE a == Append(queue, started)
<1>9. a \in Seq(Event) /\ Len(a) = L + 1 /\ a[L + 1] = started /\ \A i \in 1..L : a[i] = queue[i]
      /\ L \in Nat
  BY <1>1, <1>6, LenProperties, AppendProperties
<1> HIDE DEF a
<1>10. L \in Nat /\ n \in Nat
  BY <1>4, <1>9
<1> HIDE DEF L, n
<1>11. /\ queue' \in Seq(Event) /\ Len(queue') = L + 1 + n
       /\ \A i \in 1..(L + 1 + n) : queue'[i] = IF i <= L + 1 THEN a[i] ELSE told[i - (L + 1)]
  <2>1. queue' = a \o told
    BY <1>2 DEF a
  <2>2. /\ a \o told \in Seq(Event) /\ Len(a \o told) = Len(a) + Len(told)
        /\ \A i \in 1..(Len(a) + Len(told)) :
             (a \o told)[i] = IF i <= Len(a) THEN a[i] ELSE told[i - Len(a)]
    BY <1>8, <1>9, ConcatProperties
  <2>3. QED BY <1>8, <1>9, <2>1, <2>2
<1>12. /\ \A i \in 1..L : queue'[i] = queue[i] /\ i \in 1..(L + 1 + n)
       /\ queue'[L + 1] = started /\ L + 1 \in 1..(L + 1 + n)
       /\ \A k \in 1..n : queue'[L + 1 + k] = told[k] /\ L + 1 + k \in 1..(L + 1 + n)
  <2>1. \A k \in 1..n : L + 1 + k \in 1..(L + 1 + n) /\ ~(L + 1 + k <= L + 1) /\ (L + 1 + k) - (L + 1) = k
    BY <1>10
  <2>2. \A i \in 1..L : i \in 1..(L + 1 + n) /\ i <= L + 1
    BY <1>10
  <2>3. L + 1 \in 1..(L + 1 + n)
    BY <1>10
  <2>4. QED BY <1>9, <1>11, <2>1, <2>2, <2>3
<1>13. \A i \in 1..(L + 1 + n) : i \in 1..L \/ i = L + 1 \/ \E k \in 1..n : i = L + 1 + k
  <2>1. \A i \in 1..(L + 1 + n) : i > L + 1 => i - (L + 1) \in 1..n /\ i = L + 1 + (i - (L + 1))
    BY <1>10
  <2>2. \A i \in 1..(L + 1 + n) : i > L + 1 \/ i = L + 1 \/ i \in 1..L
    BY <1>10
  <2>3. QED BY <2>1, <2>2
<1>14. GoesOn(queue, queue') /\ \A i \in 1..Len(queue') : i > Len(queue) => queue'[i].surface = s
  <2>1. GoesOn(queue, queue')
    BY <1>4, <1>9, <1>11, <1>12 DEF GoesOn, L
  <2>2. ASSUME NEW i \in 1..(L + 1 + n), i > L PROVE queue'[i].surface = s
    <3>1. i = L + 1 \/ \E k \in 1..n : i = L + 1 + k
      BY <1>9, <1>13, <2>2
    <3>2. QED BY <1>6, <1>7, <1>12, <3>1
  <2>3. QED BY <1>11, <2>1, <2>2 DEF L
<1>15. surface' \in [Surfaces -> EngineSurface] /\ surface'[s] = new
       /\ \A t \in Tabs : t # s => surface'[t] = surface[t]
  BY <1>1, <1>2, <1>5 DEF Tabs
<1>16. NavigationTypes'
  BY <1>1, <1>2, <1>11, <1>15 DEF NavigationTypes
<1>17. ASSUME NEW t \in Tabs, t # s
       PROVE  /\ FollowsEpoch(queue', t, tab'[t], surface'[t])
              /\ ShowsPage(queue', t, tab'[t], surface'[t])
  <2>1. FollowsEpoch(queue, t, tab[t], surface[t]) /\ ShowsPage(queue, t, tab[t], surface[t])
    BY DEF NavigationInv
  <2>2. tab'[t] = tab[t] /\ surface'[t] = surface[t]
    BY <1>15, <1>17
  <2>3. \A i \in 1..Len(queue') : i > Len(queue) => queue'[i].surface # t
    BY <1>14, <1>17
  <2>4. QED BY <1>1, <1>11, <1>14, <2>1, <2>2, <2>3, OtherTabKept
\* Which of the observations of tab s are new.
<1>18. \A k \in 1..n : Commits(steps, k) <=> steps[k].kind = "Committed"
  BY DEF Commits, n
<1>19. \A k \in 1..n : /\ steps[k].kind \notin {"Started", "SameDocumentNavigated"}
                       /\ Commits(steps, k) => steps[k].address \in Destinations
                       /\ steps[k].kind = "Succeeded" => \E j \in 1..(k - 1) : Commits(steps, j)
  BY <1>18 DEF ScriptOK, n
<1>20. \A i \in Moves(queue', s) : \/ i \in Moves(queue, s) /\ i <= L /\ queue'[i] = queue[i]
                                   \/ \E k \in 1..n : i = L + 1 + k /\ Commits(steps, k)
  <2>1. SUFFICES ASSUME NEW i \in Moves(queue', s)
                 PROVE  \/ i \in Moves(queue, s) /\ i <= L /\ queue'[i] = queue[i]
                        \/ \E k \in 1..n : i = L + 1 + k /\ Commits(steps, k)
    OBVIOUS
  <2>2. i \in 1..(L + 1 + n) /\ queue'[i].surface = s
        /\ queue'[i].kind \in {"Committed", "SameDocumentNavigated"}
    BY <1>11 DEF Moves
  <2>3. CASE i \in 1..L
    BY <1>9, <1>12, <2>2, <2>3 DEF Moves, L
  <2>4. i # L + 1
    BY <1>6, <1>12, <2>2
  <2>5. CASE \E k \in 1..n : i = L + 1 + k
    <3>1. PICK k \in 1..n : i = L + 1 + k
      BY <2>5
    <3>2. Commits(steps, k)
      BY <1>7, <1>12, <1>18, <1>19, <2>2, <3>1
    <3>3. QED BY <3>1, <3>2
  <2>6. QED BY <1>13, <2>2, <2>3, <2>4, <2>5
<1>21. /\ \A i \in Moves(queue, s) : i \in Moves(queue', s) /\ i <= L
       /\ \A k \in 1..n : Commits(steps, k) => L + 1 + k \in Moves(queue', s) /\ L + 1 + k \in Places(queue', s)
       /\ L + 1 \in Places(queue', s)
  <2>1. \A i \in Moves(queue, s) : i \in 1..L
    BY DEF Moves, L
  <2>2. \A i \in Moves(queue, s) : i \in Moves(queue', s) /\ i <= L
    BY <1>9, <1>11, <1>12, <2>1 DEF Moves
  <2>3. \A k \in 1..n : Commits(steps, k) => L + 1 + k \in Moves(queue', s) /\ L + 1 + k \in Places(queue', s)
    BY <1>7, <1>11, <1>12, <1>18 DEF Moves, Places
  <2>4. L + 1 \in Places(queue', s)
    BY <1>6, <1>11, <1>12 DEF Places
  <2>5. QED BY <2>2, <2>3, <2>4
<1>22. \A j \in 0..n : Since(run, steps, j, n)
  BY <1>1, <1>3, RunSince DEF n
<1>23. /\ old.epoch <= new.epoch /\ \A k \in 1..n : run[k].epoch <= new.epoch
       /\ (\A i \in 1..n : ~Commits(steps, i)) => new.epoch = old.epoch
       /\ \A k \in 1..n : (\A i \in 1..n : k < i => ~Commits(steps, i)) =>
            new.epoch = run[k].epoch /\ new.current.address = run[k].current.address
  <2>1. 0 \in 0..n /\ \A k \in 1..n : k \in 0..n
    BY <1>4
  <2>2. Since(run, steps, 0, n) /\ \A k \in 1..n : Since(run, steps, k, n)
    BY <1>22, <2>1
  <2>3. QED BY <1>5, <2>2 DEF Since, new, n
<1>24. FollowsEpoch(queue, s, tab[s], old) /\ tab'[s].epoch = tab[s].epoch /\ tab[s].epoch \in Nat
  BY <1>1 DEF NavigationInv, NavigatedTab, old, Tabs
<1>25. FollowsEpoch(queue', s, tab'[s], new)
  <2>1. tab'[s].epoch <= new.epoch
    BY <1>5, <1>23, <1>24 DEF FollowsEpoch
  <2>2. ASSUME NEW i \in Moves(queue', s) PROVE queue'[i].epoch <= new.epoch
    <3>1. CASE i \in Moves(queue, s) /\ queue'[i] = queue[i]
      <4>1. queue[i] \in Event
        BY <1>1, <3>1, LenProperties DEF Moves
      <4>2. queue[i].epoch \in Nat /\ queue[i].epoch <= old.epoch
        BY <1>24, <3>1, <4>1 DEF FollowsEpoch, Event
      <4>3. QED BY <1>5, <1>23, <3>1, <4>2
    <3>2. CASE \E k \in 1..n : i = L + 1 + k /\ Commits(steps, k)
      BY <1>7, <1>12, <1>23, <3>2
    <3>3. QED BY <1>20, <3>1, <3>2
  <2>3. ASSUME Moves(queue', s) = {} PROVE tab'[s].epoch = new.epoch
    <3>1. Moves(queue, s) = {} /\ \A k \in 1..n : ~Commits(steps, k)
      BY <1>21, <2>3
    <3>2. QED BY <1>23, <1>24, <3>1 DEF FollowsEpoch
  <2>4. ASSUME NEW i, IsLast(i, Moves(queue', s)) PROVE queue'[i].epoch = new.epoch
    <3>1. i \in Moves(queue', s) /\ \A j \in Moves(queue', s) : j <= i
      BY <2>4 DEF IsLast
    <3>2. CASE i \in Moves(queue, s) /\ i <= L /\ queue'[i] = queue[i]
      <4>1. \A k \in 1..n : ~Commits(steps, k)
        <5>1. SUFFICES ASSUME NEW k \in 1..n, Commits(steps, k) PROVE FALSE
          OBVIOUS
        <5>2. L + 1 + k <= i
          BY <1>21, <3>1, <5>1
        <5>3. i \in Nat
          BY <3>2 DEF Moves
        <5>4. QED BY <1>10, <3>2, <5>2, <5>3
      <4>2. IsLast(i, Moves(queue, s))
        BY <1>21, <3>1, <3>2 DEF IsLast
      <4>3. QED BY <1>23, <1>24, <3>2, <4>1, <4>2 DEF FollowsEpoch
    <3>3. CASE \E k \in 1..n : i = L + 1 + k /\ Commits(steps, k)
      <4>1. PICK k \in 1..n : i = L + 1 + k /\ Commits(steps, k)
        BY <3>3
      <4>2. \A j \in 1..n : k < j => ~Commits(steps, j)
        <5>1. SUFFICES ASSUME NEW j \in 1..n, k < j, Commits(steps, j) PROVE FALSE
          OBVIOUS
        <5>2. L + 1 + j <= L + 1 + k
          BY <1>21, <3>1, <4>1, <5>1
        <5>3. QED BY <1>10, <5>1, <5>2
      <4>3. QED BY <1>7, <1>12, <1>23, <4>1, <4>2
    <3>4. QED BY <1>20, <3>1, <3>2, <3>3
  <2>5. QED BY <2>1, <2>2, <2>3, <2>4 DEF FollowsEpoch
<1>26. ShowsPage(queue', s, tab'[s], new)
  <2>1. Places(queue', s) # {}
    BY <1>21
  <2>2. ASSUME NEW i, IsLast(i, Places(queue', s))
        PROVE  IF queue'[i].kind = "Started" THEN \A k \in Successes(queue', s) : k < i
               ELSE IsThere(queue'[i].address, new)
    <3>1. /\ i \in 1..(L + 1 + n) /\ queue'[i].kind \in {"Started", "Committed", "SameDocumentNavigated"}
          /\ \A j \in Places(queue', s) : j <= i
      BY <1>11, <2>2 DEF IsLast, Places
    <3>2. i \notin 1..L
      BY <1>9, <1>21, <3>1
    <3>3. CASE i = L + 1
      <4>1. \A k \in 1..n : ~Commits(steps, k)
        <5>1. SUFFICES ASSUME NEW k \in 1..n, Commits(steps, k) PROVE FALSE
          OBVIOUS
        <5>2. L + 1 + k <= L + 1
          BY <1>21, <3>1, <3>3, <5>1
        <5>3. QED BY <1>10, <5>2
      <4>2. \A k \in 1..n : steps[k].kind # "Succeeded"
        BY <1>4, <1>19, <4>1
      <4>3. ASSUME NEW k \in Successes(queue', s) PROVE k < i
        <5>1. k \in 1..(L + 1 + n) /\ queue'[k].kind = "Succeeded"
          BY <1>11 DEF Successes
        <5>2. k # L + 1 /\ \A j \in 1..n : k # L + 1 + j
          BY <1>6, <1>7, <1>12, <4>2, <5>1
        <5>3. k \in 1..L
          BY <1>13, <5>1, <5>2
        <5>4. QED BY <1>9, <3>3, <5>3
      <4>4. QED BY <1>6, <1>12, <3>3, <4>3
    <3>4. CASE \E k \in 1..n : i = L + 1 + k
      <4>1. PICK k \in 1..n : i = L + 1 + k
        BY <3>4
      <4>2. steps[k].kind = "Committed" /\ Commits(steps, k) /\ steps[k].address \in Destinations
            /\ queue'[i].kind = steps[k].kind /\ queue'[i].address = steps[k].address
        BY <1>7, <1>12, <1>18, <1>19, <3>1, <4>1
      <4>3. \A j \in 1..n : k < j => ~Commits(steps, j)
        <5>1. SUFFICES ASSUME NEW j \in 1..n, k < j, Commits(steps, j) PROVE FALSE
          OBVIOUS
        <5>2. L + 1 + j <= L + 1 + k
          BY <1>21, <3>1, <4>1, <5>1
        <5>3. QED BY <1>10, <5>1, <5>2
      <4>4. run[k].current.address = steps[k].address
        <5>1. run[k - 1] \in EngineSurface /\ run[k] = RunStep(id, run[k - 1], steps[k])
          BY <1>5
        <5>2. steps[k] \in ScriptStep
          BY <1>4
        <5>3. RunStep(id, run[k - 1], steps[k]).current.address = steps[k].address
          BY <1>1, <4>2, <5>1, <5>2, RunStepIs
        <5>4. QED BY <5>1, <5>3
      <4>5. QED BY <1>23, <4>2, <4>3, <4>4, DestinationsAssumption DEF IsThere
    <3>5. QED BY <1>13, <3>1, <3>2, <3>3, <3>4
  <2>3. QED BY <2>1, <2>2 DEF ShowsPage
<1>27. QED BY <1>15, <1>16, <1>17, <1>25, <1>26 DEF NavigationInv

\* What becomes of one tab without an observation keeps its epoch and its
\* address, and shows a page only if it did.
LEMMA TabsKeep ==
  ASSUME NavigationInv, UNCHANGED engineVars, tab' \in [Tabs -> NavigatedTab],
         \A t \in Tabs : /\ tab'[t].epoch = tab[t].epoch /\ tab'[t].address = tab[t].address
                         /\ tab'[t].lifecycle \in {"Live", "Suspended"} =>
                              tab[t].lifecycle \in {"Live", "Suspended"}
  PROVE  NavigationInv'
<1>1. UNCHANGED <<surface, queue, nextNav>>
  BY DEF engineVars
<1>2. NavigationTypes'
  BY <1>1 DEF NavigationInv, NavigationTypes
<1>3. ASSUME NEW t \in Tabs
      PROVE  /\ FollowsEpoch(queue', t, tab'[t], surface'[t])
             /\ ShowsPage(queue', t, tab'[t], surface'[t])
  <2>1. FollowsEpoch(queue, t, tab[t], surface[t]) /\ ShowsPage(queue, t, tab[t], surface[t])
    BY DEF NavigationInv
  <2>2. FollowsEpoch(queue, t, tab'[t], surface[t])
    BY <2>1 DEF FollowsEpoch
  <2>3. ShowsPage(queue, t, tab'[t], surface[t])
    BY <2>1 DEF ShowsPage
  <2>4. QED BY <1>1, <2>2, <2>3
<1>4. QED BY <1>2, <1>3 DEF NavigationInv

LEMMA NavigationStep == NavigationInv /\ [NavigationNext]_navigationVars => NavigationInv'
<1> SUFFICES ASSUME NavigationInv, [NavigationNext]_navigationVars PROVE NavigationInv'
  OBVIOUS
<1>1. tab \in [Tabs -> NavigatedTab] /\ nextNav \in Nat /\ \A t \in Tabs : tab[t] \in NavigatedTab
  BY DEF NavigationInv, NavigationTypes
<1>2. CASE UNCHANGED navigationVars
  <2>1. UNCHANGED <<engineVars, tab>>
    BY <1>2 DEF navigationVars, engineVars
  <2>2. QED BY <1>1, <2>1, TabsKeep
<1>3. ASSUME NEW t \in Tabs, Navigate(t) PROVE NavigationInv'
  <2>1. PICK address \in Destinations, target \in Destinations, name \in Scripts :
          \/ ShellNavigate(t, address, Script(name, address, target))
          \/ PageNavigate(t, address, Script(name, address, target))
    BY <1>3 DEF Navigate
  <2> DEFINE steps == Script(name, address, target)
  <2>2. ScriptOK(steps)
    BY ScriptsAssumption, ScriptsOK
  <2> HIDE DEF steps
  <2>3. CASE ShellNavigate(t, address, steps)
    <3>1. /\ StartNavigation(t, address, steps)
          /\ tab' = [tab EXCEPT ![t].lifecycle = "Loading", ![t].indicator = TRUE, ![t].inFlight = nextNav]
      BY <2>3 DEF ShellNavigate
    <3> DEFINE new == [tab[t] EXCEPT !.lifecycle = "Loading", !.indicator = TRUE, !.inFlight = nextNav]
    <3>2. tab' = [tab EXCEPT ![t] = new]
      BY <1>1, <3>1
    <3>3. new \in NavigatedTab /\ new.epoch = tab[t].epoch
      BY <1>1 DEF NavigatedTab
    <3> HIDE DEF new
    <3>4. tab' \in [Tabs -> NavigatedTab] /\ tab'[t] = new /\ \A u \in Tabs : u # t => tab'[u] = tab[u]
      BY <1>1, <3>2, <3>3
    <3>5. \A u \in Tabs : tab'[u].epoch = tab[u].epoch
      BY <3>3, <3>4
    <3>6. QED BY <2>2, <3>1, <3>4, <3>5, NavigationKeeps
  <2>4. CASE PageNavigate(t, address, steps)
    BY <1>1, <2>2, <2>4, NavigationKeeps DEF PageNavigate
  <2>5. QED BY <2>1, <2>3, <2>4 DEF steps
<1>4. ASSUME NEW t \in Tabs, NEW from, NEW to, NEW indicator \in BOOLEAN,
             ChangeLifecycle(t, from, to, indicator),
             to \in {"Loading", "Live", "Suspended"},
             to \in {"Live", "Suspended"} => from \in {"Live", "Suspended"}
      PROVE  NavigationInv'
  <2>1. /\ tab[t].lifecycle = from /\ UNCHANGED engineVars
        /\ tab' = [tab EXCEPT ![t].lifecycle = to, ![t].indicator = indicator]
    BY <1>4 DEF ChangeLifecycle
  <2> DEFINE new == [tab[t] EXCEPT !.lifecycle = to, !.indicator = indicator]
  <2>2. tab' = [tab EXCEPT ![t] = new]
    BY <1>1, <2>1
  <2>3. new \in NavigatedTab /\ new.epoch = tab[t].epoch /\ new.address = tab[t].address
        /\ new.lifecycle = to
    BY <1>1, <1>4 DEF NavigatedTab
  <2> HIDE DEF new
  <2>4. tab' \in [Tabs -> NavigatedTab] /\ tab'[t] = new /\ \A u \in Tabs : u # t => tab'[u] = tab[u]
    BY <1>1, <2>2, <2>3
  <2>5. \A u \in Tabs : /\ tab'[u].epoch = tab[u].epoch /\ tab'[u].address = tab[u].address
                        /\ tab'[u].lifecycle \in {"Live", "Suspended"} =>
                             tab[u].lifecycle \in {"Live", "Suspended"}
    BY <1>4, <2>1, <2>3, <2>4
  <2>6. QED BY <2>1, <2>4, <2>5, TabsKeep
<1>5. ASSUME NEW t \in Tabs, SuspendTab(t) \/ ResumeTab(t) \/ ActivateRestored(t) PROVE NavigationInv'
  <2>1. tab[t].indicator \in BOOLEAN
    BY <1>1 DEF NavigatedTab
  <2>2. CASE SuspendTab(t)
    BY <1>4, <2>1, <2>2 DEF SuspendTab
  <2>3. CASE ResumeTab(t)
    BY <1>4, <2>1, <2>3 DEF ResumeTab
  <2>4. CASE ActivateRestored(t)
    BY <1>4, <2>4 DEF ActivateRestored
  <2>5. QED BY <1>5, <2>2, <2>3, <2>4
<1>6. CASE Tick
  BY <1>1, <1>6, TabsKeep DEF Tick
<1>7. ASSUME NEW w \in Windows, CheckInFlightTimeouts(w) PROVE NavigationInv'
  <2>1. /\ UNCHANGED engineVars
        /\ tab' = [t \in Tabs |->
             IF t \in w /\ tab[t].inFlight \in Expired THEN [tab[t] EXCEPT !.indicator = FALSE] ELSE tab[t]]
    BY <1>7 DEF CheckInFlightTimeouts
  <2>2. ASSUME NEW t \in Tabs
        PROVE  /\ [tab[t] EXCEPT !.indicator = FALSE] \in NavigatedTab
               /\ [tab[t] EXCEPT !.indicator = FALSE].epoch = tab[t].epoch
               /\ [tab[t] EXCEPT !.indicator = FALSE].address = tab[t].address
               /\ [tab[t] EXCEPT !.indicator = FALSE].lifecycle = tab[t].lifecycle
    BY <1>1 DEF NavigatedTab
  <2>3. tab' \in [Tabs -> NavigatedTab]
    BY <1>1, <2>1, <2>2
  <2>4. \A t \in Tabs : /\ tab'[t].epoch = tab[t].epoch /\ tab'[t].address = tab[t].address
                        /\ tab'[t].lifecycle = tab[t].lifecycle
    BY <2>1, <2>2
  <2>5. QED BY <2>1, <2>3, <2>4, TabsKeep
<1>8. QED BY <1>2, <1>3, <1>5, <1>6, <1>7, PollKeeps, SameDocumentKeeps DEF NavigationNext

\* When nothing is left in the queue for a tab, nothing is left to become.
LEMMA NavigationMeans == NavigationInv => LiveShowsThePage /\ EpochFollowsEngine
<1> SUFFICES ASSUME NavigationInv PROVE LiveShowsThePage /\ EpochFollowsEngine
  OBVIOUS
<1>1. ASSUME NEW t \in Tabs, Drained(t)
      PROVE  Moves(queue, t) = {} /\ Places(queue, t) = {}
  BY <1>1 DEF Drained, Moves, Places
<1>2. LiveShowsThePage
  BY <1>1 DEF NavigationInv, ShowsPage, IsThere, LiveShowsThePage
<1>3. EpochFollowsEngine
  BY <1>1 DEF NavigationInv, FollowsEpoch, EpochFollowsEngine
<1>4. QED BY <1>2, <1>3

(* However the member's and the page's navigations interleave, and         *)
(* whatever the scripts do: a tab that presents a page and has caught up   *)
(* shows the address of the page the engine has                            *)
(* (WindowTabs::handle_navigation_observation).                            *)
THEOREM TabsShowTheirPage == NavigationSpec => []LiveShowsThePage
<1>1. QED BY NavigationStart, NavigationStep, NavigationMeans, PTL DEF NavigationSpec

(* A tab's epoch is never ahead of its surface's, and once the tab has     *)
(* caught up it is the same (Tab::update_address).                         *)
THEOREM EpochsFollow == NavigationSpec => []EpochFollowsEngine
<1>1. QED BY NavigationStart, NavigationStep, NavigationMeans, PTL DEF NavigationSpec
=============================================================================
