------------------------------ MODULE CoinsView ------------------------------
(***************************************************************************)
(* What the coin-set store promises its caller, with the encoding, the     *)
(* dirty flags and the batch left out.  There are two logical states:      *)
(*   durable : what a restart would read back from the database;           *)
(*   view    : what the node currently sees (database overlaid by its      *)
(*             in-memory cache).                                           *)
(* The node may change its view freely.  The durable state only ever       *)
(* changes by becoming, in one step, exactly the current view (a flush),   *)
(* and a flush leaves the view as it was.  Losing the cache (a crash, or   *)
(* the abort that follows a failed flush) makes the view the durable       *)
(* state again.                                                            *)
(***************************************************************************)
VARIABLES durable, view

vars == <<durable, view>>

Init == view = durable

\* The validation layer changes its in-memory view; nothing is written.
Update == UNCHANGED durable

\* A flush commits the whole view atomically and the view stays as it was.
Commit ==
    /\ durable' = view
    /\ view' = view

Next == Update \/ Commit

Spec == Init /\ [][Next]_vars
=============================================================================
