----------------------------- MODULE MCSnapshot -----------------------------
(* Two pages, two transactions, one restart of the log, two attempts. *)
EXTENDS Snapshot

\* Page 1 is an interior page over page 2 in every version; a leaf's row names
\* its page and version.  In the malformed file page 1 is its own child, and
\* its last child is outside the file.
MCNode ==
  [p \in 1..LastPage |->
     [v \in 0..(MaxTransactions + 1) |->
        IF p > 1 THEN [children |-> <<>>, rows |-> <<<<p, v>>>>]
        ELSE IF v = MaxTransactions + 1 THEN [children |-> <<2, 1, LastPage + 1>>, rows |-> <<>>]
        ELSE [children |-> [i \in 1..(LastPage - 1) |-> i + 1], rows |-> <<<<1, v>>>>]]]
=============================================================================
