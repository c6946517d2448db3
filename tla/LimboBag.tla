------------------------------ MODULE LimboBag ------------------------------
(***************************************************************************)
(* LimboBag of src/lib.rs: a queue of retired nodes.  drain frees from the *)
(* front and stops at the first node that is too young, or after k nodes.  *)
(***************************************************************************)
EXTENDS Naturals, Sequences

\* Faulty: birth_ts <= safe_ts.
Eligible_Inclusive(bag, safe_ts) ==
    LET stop == {i \in 1 .. Len(bag) : bag[i] > safe_ts}
    IN  IF stop = {} THEN Len(bag)
        ELSE (CHOOSE i \in stop : \A j \in stop : i <= j) - 1

\* How many nodes at the front of the bag have birth_ts < safe_ts.
Eligible(bag, safe_ts) ==
    LET stop == {i \in 1 .. Len(bag) : bag[i] >= safe_ts}
    IN  IF stop = {} THEN Len(bag)
        ELSE (CHOOSE i \in stop : \A j \in stop : i <= j) - 1

\* How many nodes drain(safe_ts, k) frees of a bag with these birth timestamps.
DrainCount(births, safe_ts, k) ==
    LET e == Eligible(births, safe_ts) IN IF e < k THEN e ELSE k

\* The bag after drain(safe_ts, k), when nodes are their birth timestamps.
Drained(bag, safe_ts, k) == SubSeq(bag, DrainCount(bag, safe_ts, k) + 1, Len(bag))
=============================================================================
