---------------------------- MODULE SavedSession ----------------------------
(***************************************************************************)
(* What a session store promises: the session the program shows when it    *)
(* starts is the one it last kept, whole, and keeping one happens at once. *)
(* A session is a sequence of windows, a window the addresses of its tabs  *)
(* in order and the place of the active one; private windows are no part   *)
(* of it.  Windows, order and active tabs are kept as they are, and each   *)
(* address as the text it is read back as.                                 *)
(***************************************************************************)
CONSTANTS
  NothingKept,
  ReadBack   \* what each address is read back as

VARIABLES
  shown,     \* the session on the screen
  kept,      \* the session kept, as it will be shown, or NothingKept
  running    \* whether the program runs

vars == <<shown, kept, running>>

Init == shown = <<>> /\ kept = NothingKept /\ running = TRUE

AsReadBack(session) ==
  [w \in DOMAIN session |->
     [addresses |-> [i \in DOMAIN session[w].addresses |-> ReadBack[session[w].addresses[i]]],
      active |-> session[w].active]]

Change == running /\ UNCHANGED <<kept, running>>
Keep == running /\ kept' = AsReadBack(shown) /\ UNCHANGED <<shown, running>>
Forget == running /\ kept' = NothingKept /\ UNCHANGED <<shown, running>>
Stop == running /\ running' = FALSE /\ shown' = <<>> /\ UNCHANGED kept
Start ==
  /\ ~running
  /\ running' = TRUE
  /\ shown' = IF kept = NothingKept THEN <<>> ELSE kept
  /\ UNCHANGED kept

Next == Change \/ Keep \/ Forget \/ Stop \/ Start

Spec == Init /\ [][Next]_vars
=============================================================================
