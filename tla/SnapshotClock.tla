---------------------------- MODULE SnapshotClock ----------------------------
(***************************************************************************)
(* What the users of Scc::take_snapshot rely on.  A call answers with a    *)
(* timestamp that the global epoch has held, never with 0 (which in the    *)
(* announcement table means that there is no snapshot), and snapshots do   *)
(* not go back in time: a call that begins after another has answered      *)
(* answers with at least the same timestamp.  Calls that overlap, and      *)
(* calls inside one coalescing window, may share a timestamp, which may    *)
(* be older than the epoch.                                                *)
(***************************************************************************)
EXTENDS Naturals

CONSTANTS Thread,   \* the threads that take snapshots
          MaxEpoch  \* bound on the epoch

VARIABLES global_epoch, \* the epoch that writers advance
          answered,     \* the largest timestamp a call has answered with
          floor,        \* floor[t]: what answered was when t's call in progress began
          calling,      \* the threads with a call in progress
          snap          \* snap[t]: the snapshot t has taken and not released, or 0

vars == <<global_epoch, answered, floor, calling, snap>>

Init == /\ global_epoch = 1
        /\ answered = 1
        /\ floor = [t \in Thread |-> 1]
        /\ calling = {}
        /\ snap = [t \in Thread |-> 0]

Advance == /\ global_epoch < MaxEpoch
           /\ global_epoch' = global_epoch + 1
           /\ UNCHANGED <<answered, floor, calling, snap>>

Call(t) == /\ t \notin calling /\ snap[t] = 0
           /\ calling' = calling \cup {t}
           /\ floor' = [floor EXCEPT ![t] = answered]
           /\ UNCHANGED <<global_epoch, answered, snap>>

Answer(t, ts) == /\ t \in calling
                 /\ calling' = calling \ {t}
                 /\ ts >= floor[t]
                 /\ ts <= global_epoch
                 /\ answered' = IF ts > answered THEN ts ELSE answered
                 /\ floor' = [floor EXCEPT ![t] = 1]
                 /\ snap' = [snap EXCEPT ![t] = ts]
                 /\ UNCHANGED global_epoch

\* t is done with its snapshot.
Release(t) == /\ snap[t] # 0
              /\ snap' = [snap EXCEPT ![t] = 0]
              /\ UNCHANGED <<global_epoch, answered, floor, calling>>

Next == \/ Advance
        \/ \E t \in Thread : \/ Call(t) \/ Release(t)
                            \/ \E ts \in 1 .. MaxEpoch : Answer(t, ts)

Spec == Init /\ [][Next]_vars
=============================================================================
