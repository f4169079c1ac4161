--------------------------- MODULE SlidingWindow ---------------------------
(***************************************************************************)
(* What a bounded log or queue of the project promises.  Items arrive and  *)
(* are numbered in that order; what is kept is an unbroken run of numbers  *)
(* that ends with the latest, at most Capacity long.  An item goes either  *)
(* because it was taken, oldest first, or because Capacity newer ones      *)
(* arrived.                                                                *)
(***************************************************************************)
EXTENDS Naturals, Sequences

CONSTANT Capacity

VARIABLES
    arrived,  \* how many items have arrived
    kept      \* the numbers of those kept, oldest first

window == <<arrived, kept>>

(* The run of n numbers that ends with m. *)
Latest(n, m) == [i \in 1..n |-> m - n + i]

Init == arrived = 0 /\ kept = <<>>

Put ==
    /\ arrived' = arrived + 1
    /\ kept' = Latest(IF Len(kept) < Capacity THEN Len(kept) + 1 ELSE Capacity, arrived + 1)

Take(n) ==
    /\ kept' = Latest(Len(kept) - n, arrived)
    /\ UNCHANGED arrived

Next == Put \/ \E n \in 1..Len(kept) : Take(n)

Spec == Init /\ [][Next]_window

============================================================================
