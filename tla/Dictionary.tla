----------------------------- MODULE Dictionary -----------------------------
(***************************************************************************)
(* What the users of the tree of brown_ext_abtree_lf_impl.h rely on: a map *)
(* from keys to values that insert, insertIfAbsent and erase change in one *)
(* step, somewhere between call and return.  A call that changes nothing   *)
(* (find, an insertIfAbsent of a key that is there, an erase of one that   *)
(* is not) returns something that was true at some time during the call.   *)
(***************************************************************************)
CONSTANTS Thread,  \* the threads that call operations
          Key,
          Value,
          NO_VALUE \* returned for, and standing in dict for, an absent key

VARIABLES dict, \* the value of each key
          call, \* call[t]: what t is calling
          ret,  \* ret[t]: what t's call will return, once it has taken effect
          seen  \* seen[t]: the values of t's key since the call began

vars == <<dict, call, ret, seen>>

NoCall == [op |-> "none"]
Pending == "pending"

Init == /\ dict = [k \in Key |-> NO_VALUE]
        /\ call = [t \in Thread |-> NoCall]
        /\ ret = [t \in Thread |-> Pending]
        /\ seen = [t \in Thread |-> {}]

Call(t, c) == /\ call[t] = NoCall
              /\ call' = [call EXCEPT ![t] = c]
              /\ seen' = [seen EXCEPT ![t] = {dict[c.key]}]
              /\ UNCHANGED <<dict, ret>>

\* The call of t takes effect: its key gets the value v.
Update(t, v) ==
    /\ call[t] # NoCall
    /\ ret[t] = Pending
    /\ \/ call[t].op = "insert" /\ v = call[t].val
       \/ call[t].op = "insertIfAbsent" /\ v = call[t].val /\ dict[call[t].key] = NO_VALUE
       \/ call[t].op = "erase" /\ v = NO_VALUE /\ dict[call[t].key] # NO_VALUE
    /\ dict' = [dict EXCEPT ![call[t].key] = v]
    /\ ret' = [ret EXCEPT ![t] = dict[call[t].key]]
    /\ seen' = [u \in Thread |-> IF call[u] # NoCall /\ call[u].key = call[t].key
                                 THEN seen[u] \cup {v} ELSE seen[u]]
    /\ UNCHANGED call

\* The call of t changes nothing and will return r.
Observe(t, r) ==
    /\ call[t] # NoCall
    /\ ret[t] = Pending
    /\ r \in seen[t]
    /\ \/ call[t].op = "find"
       \/ call[t].op = "insertIfAbsent" /\ r # NO_VALUE
       \/ call[t].op = "erase" /\ r = NO_VALUE
    /\ ret' = [ret EXCEPT ![t] = r]
    /\ UNCHANGED <<dict, call, seen>>

Return(t) == /\ call[t] # NoCall
             /\ ret[t] # Pending
             /\ call' = [call EXCEPT ![t] = NoCall]
             /\ ret' = [ret EXCEPT ![t] = Pending]
             /\ seen' = [seen EXCEPT ![t] = {}]
             /\ UNCHANGED dict

Calls == [op : {"insert", "insertIfAbsent"}, key : Key, val : Value]
         \cup [op : {"find", "erase"}, key : Key, val : {NO_VALUE}]

Next == \E t \in Thread : \/ \E c \in Calls : Call(t, c)
                          \/ \E v \in Value \cup {NO_VALUE} : Update(t, v)
                          \/ \E r \in Value \cup {NO_VALUE} : Observe(t, r)
                          \/ Return(t)

Spec == Init /\ [][Next]_vars
=============================================================================
