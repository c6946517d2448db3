--------------------------- MODULE SafeReclamation ---------------------------
(***************************************************************************)
(* What a grace-period reclaimer promises to the data structure that uses  *)
(* it.  Nodes are linked into the structure, unlinked from it by an        *)
(* operation, wait in limbo, and become free again.  An operation may      *)
(* dereference every node that was linked at some time since it began.     *)
(* The one promise: a node leaves limbo only when no operation in progress *)
(* can still dereference it.  How the reclaimer finds that out (tokens,    *)
(* epochs, bags) is not part of the promise.                               *)
(***************************************************************************)
CONSTANTS Tid,      \* the threads
          Node,     \* the nodes of the data structure
          InitTree  \* the nodes linked at the start

VARIABLES linked,   \* the nodes of the structure
          limbo,    \* unlinked nodes that are not free yet
          free,     \* nodes the allocator may hand out
          active,   \* the threads with an operation in progress
          reach     \* reach[t]: the nodes t's operation may dereference

vars == <<linked, limbo, free, active, reach>>

Unreachable(S) == \A t \in Tid : reach[t] \cap S = {}

Init == /\ linked = InitTree
        /\ limbo = {}
        /\ free = Node \ InitTree
        /\ active = {}
        /\ reach = [t \in Tid |-> {}]

\* An operation of t begins; the reclaimer frees S on the way.
Begin(t, S) == /\ t \notin active
               /\ S \subseteq limbo
               /\ Unreachable(S)
               /\ limbo' = limbo \ S
               /\ free' = free \cup S
               /\ active' = active \cup {t}
               /\ reach' = [reach EXCEPT ![t] = linked]
               /\ UNCHANGED linked

\* t's operation replaces the linked nodes old by the new nodes new.
Replace(t, old, new) == /\ t \in active
                        /\ old \subseteq linked
                        /\ new \subseteq free
                        /\ linked' = (linked \ old) \cup new
                        /\ limbo' = limbo \cup old
                        /\ free' = free \ new
                        /\ reach' = [u \in Tid |-> IF u \in active
                                                   THEN reach[u] \cup new
                                                   ELSE reach[u]]
                        /\ UNCHANGED active

End(t) == /\ t \in active
          /\ active' = active \ {t}
          /\ reach' = [reach EXCEPT ![t] = {}]
          /\ UNCHANGED <<linked, limbo, free>>

\* Nodes are freed outside any operation.
Free(S) == /\ S \subseteq limbo
           /\ Unreachable(S)
           /\ limbo' = limbo \ S
           /\ free' = free \cup S
           /\ UNCHANGED <<linked, active, reach>>

Next == \/ \E t \in Tid : \/ \E S \in SUBSET limbo : Begin(t, S)
                          \/ \E old \in SUBSET linked, new \in SUBSET free :
                                Replace(t, old, new)
                          \/ End(t)
        \/ \E S \in SUBSET limbo : Free(S)

Spec == Init /\ [][Next]_vars
=============================================================================
