--------------------------------- MODULE Scc ---------------------------------
(***************************************************************************)
(* The snapshot coalescing coordinator, Scc::take_snapshot of src/lib.rs.  *)
(* Calls inside one window of adaptive_w_ns share the timestamp the window *)
(* was opened with.  One action per access to a shared atomic; the odd     *)
(* generation that a spinning reader sees is a load that is not taken.     *)
(*                                                                         *)
(* The loads and stores that can be observed out of order are Acquire and  *)
(* Release, and adaptive_w_ns carries no timestamp, so interleaving is     *)
(* enough: a reader sees what its generation load synchronised with, or    *)
(* anything newer.                                                         *)
(***************************************************************************)
EXTENDS Naturals, Sequences, FiniteSets

CONSTANTS Thread,   \* the threads that take snapshots
          MaxNow,   \* bound on the clock
          MaxEpoch, \* bound on the global epoch
          Window    \* the values compute_w may return

ASSUME ThreadAssumption == IsFiniteSet(Thread)
ASSUME BoundAssumption == MaxNow \in Nat /\ MaxEpoch \in Nat \ {0}
ASSUME WindowAssumption == Window \subseteq Nat \ {0} /\ Window # {}

VARIABLES
    clock,          \* the caller's Instant, in ns
    global_epoch,   \* PacerSystem::global_epoch
    window_gen, current_ts, window_open_at, adaptive_w_ns, \* the fields of Scc
    pc,             \* the next access of each thread's take_snapshot
    local,          \* its argument now_ns and its locals
    answered, floor,\* history: largest answer given; the same when t's call began
    windows,        \* history: the windows published, in order
    lost            \* history: how often t's call has lost its compare_exchange

shared == <<window_gen, current_ts, window_open_at, adaptive_w_ns>>
history == <<answered, floor, windows, lost>>
vars == <<clock, global_epoch, shared, pc, local, history>>

Pc == {"idle", "gen", "ts", "opened", "w", "hit", "epoch", "cas",
       "store_w", "store_ts", "store_opened", "publish", "done"}

Local == [now_ns : 0 .. MaxNow, gen : Nat, ts : 0 .. MaxEpoch,
          opened_at : 0 .. MaxNow, new_ts : 0 .. MaxEpoch]

NoLocal == [now_ns |-> 0, gen |-> 0, ts |-> 0, opened_at |-> 0, new_ts |-> 0]

\* Truncated subtraction, u64::saturating_sub.
saturating_sub(a, b) == IF a > b THEN a - b ELSE 0

Goto(t, from, to) == pc[t] = from /\ pc' = [pc EXCEPT ![t] = to]

Init == /\ clock = 0
        /\ global_epoch = 1
        /\ window_gen = 0
        /\ current_ts = 0
        /\ window_open_at = 0
        /\ adaptive_w_ns \in Window
        /\ pc = [t \in Thread |-> "idle"]
        /\ local = [t \in Thread |-> NoLocal]
        /\ answered = 1
        /\ floor = [t \in Thread |-> 1]
        /\ windows = <<>>
        /\ lost = [t \in Thread |-> 0]

\* Time passes.
Tick == /\ clock < MaxNow
        /\ clock' = clock + 1
        /\ UNCHANGED <<global_epoch, shared, pc, local, history>>

\* A writer's fetch_add, or try_advance_epoch.
AdvanceEpoch == /\ global_epoch < MaxEpoch
                /\ global_epoch' = global_epoch + 1
                /\ UNCHANGED <<clock, shared, pc, local, history>>

---------------------------------------------------------------------------
(* take_snapshot *)

Call(t) == /\ Goto(t, "idle", "gen")
           /\ local' = [local EXCEPT ![t].now_ns = clock]
           /\ floor' = [floor EXCEPT ![t] = answered]
           /\ UNCHANGED <<clock, global_epoch, shared, answered, windows, lost>>

LoadGen(t) == /\ window_gen % 2 = 0
              /\ Goto(t, "gen", "ts")
              /\ local' = [local EXCEPT ![t].gen = window_gen]
              /\ UNCHANGED <<clock, global_epoch, shared, history>>

LoadTs(t) == /\ Goto(t, "ts", "opened")
             /\ local' = [local EXCEPT ![t].ts = current_ts]
             /\ UNCHANGED <<clock, global_epoch, shared, history>>

LoadOpened(t) == /\ Goto(t, "opened", "w")
                 /\ local' = [local EXCEPT ![t].opened_at = window_open_at]
                 /\ UNCHANGED <<clock, global_epoch, shared, history>>

\* Faulty: generation 0, no window yet, is not told apart.
IsOpen_NoGenZero(l) == saturating_sub(l.now_ns, l.opened_at) < adaptive_w_ns

\* Faulty: wrapping_sub, to which a now_ns before the opening time is long after it.
IsOpen_Wrapping(l) == /\ l.gen # 0
                      /\ l.now_ns >= l.opened_at /\ l.now_ns - l.opened_at < adaptive_w_ns

\* Faulty: every window is as long as the shortest, SCC_MIN_WINDOW_NS.
IsOpen_Shortest(l) ==
    l.gen # 0 /\ \A w \in Window : saturating_sub(l.now_ns, l.opened_at) < w

\* The window of the loaded values is open at now_ns.
IsOpen(l) == l.gen # 0 /\ saturating_sub(l.now_ns, l.opened_at) < adaptive_w_ns

LoadW(t) == /\ Goto(t, "w", IF IsOpen(local[t]) THEN "hit" ELSE "epoch")
            /\ UNCHANGED <<clock, global_epoch, shared, local, history>>

\* take_snapshot returns v, which is all that stays of its locals.
Answer(t, v) == /\ answered' = IF v > answered THEN v ELSE answered
                /\ floor' = [floor EXCEPT ![t] = 1]
                /\ lost' = [lost EXCEPT ![t] = 0]
                /\ local' = [local EXCEPT ![t] = [NoLocal EXCEPT !.ts = v]]

Hit(t) == /\ Goto(t, "hit", "done")
          /\ Answer(t, local[t].ts)
          /\ UNCHANGED <<clock, global_epoch, shared, windows>>

\* ts and opened_at are not used any more.
LoadEpoch(t) == /\ Goto(t, "epoch", "cas")
                /\ local' = [local EXCEPT ![t].new_ts = global_epoch,
                                         ![t].ts = 0, ![t].opened_at = 0]
                /\ UNCHANGED <<clock, global_epoch, shared, history>>

\* Faulty: a store instead of a compare_exchange.
Cas_Store(t) == /\ Goto(t, "cas", "store_w")
                /\ window_gen' = local[t].gen + 1
                /\ UNCHANGED <<clock, global_epoch, current_ts, window_open_at,
                               adaptive_w_ns, local, history>>

\* compare_exchange(gen, gen + 1): claim the window, or start again.
Cas(t) == LET won == window_gen = local[t].gen
          IN  /\ Goto(t, "cas", IF won THEN "store_w" ELSE "gen")
              /\ window_gen' = IF won THEN window_gen + 1 ELSE window_gen
              /\ lost' = IF won THEN lost ELSE [lost EXCEPT ![t] = @ + 1]
              /\ UNCHANGED <<clock, global_epoch, current_ts, window_open_at,
                             adaptive_w_ns, local, answered, floor, windows>>

StoreW(t) == /\ Goto(t, "store_w", "store_ts")
             /\ adaptive_w_ns' \in Window
             /\ UNCHANGED <<clock, global_epoch, window_gen, current_ts,
                            window_open_at, local, history>>

StoreTs(t) == /\ Goto(t, "store_ts", "store_opened")
              /\ current_ts' = local[t].new_ts
              /\ UNCHANGED <<clock, global_epoch, window_gen, window_open_at,
                             adaptive_w_ns, local, history>>

StoreOpened(t) == /\ Goto(t, "store_opened", "publish")
                  /\ window_open_at' = local[t].now_ns
                  /\ UNCHANGED <<clock, global_epoch, window_gen, current_ts,
                                 adaptive_w_ns, local, history>>

\* The fields as they are when a window is published.
Published == [ts |-> current_ts, opened_at |-> window_open_at, w |-> adaptive_w_ns]

\* Faulty: the generation stays odd.
Publish_Odd(t) == /\ Goto(t, "publish", "done")
                  /\ windows' = Append(windows, Published)
                  /\ Answer(t, local[t].new_ts)
                  /\ UNCHANGED <<clock, global_epoch, shared>>

Publish(t) == /\ Goto(t, "publish", "done")
              /\ window_gen' = local[t].gen + 2
              /\ windows' = Append(windows, Published)
              /\ Answer(t, local[t].new_ts)
              /\ UNCHANGED <<clock, global_epoch, current_ts, window_open_at,
                             adaptive_w_ns>>

\* The caller is done with the snapshot.
Release(t) == /\ Goto(t, "done", "idle")
              /\ local' = [local EXCEPT ![t] = NoLocal]
              /\ UNCHANGED <<clock, global_epoch, shared, history>>

Step(t) == \/ LoadGen(t) \/ LoadTs(t) \/ LoadOpened(t) \/ LoadW(t) \/ Hit(t)
           \/ LoadEpoch(t) \/ Cas(t)
           \/ StoreW(t) \/ StoreTs(t) \/ StoreOpened(t) \/ Publish(t)

Next == Tick \/ AdvanceEpoch \/ \E t \in Thread : Call(t) \/ Step(t) \/ Release(t)

Spec == Init /\ [][Next]_vars

\* Every thread inside take_snapshot is scheduled.
FairSpec == Spec /\ \A t \in Thread : WF_vars(Step(t))

---------------------------------------------------------------------------
(* Properties *)

Writing(t) == pc[t] \in {"store_w", "store_ts", "store_opened", "publish"}

TypeOK == /\ clock \in 0 .. MaxNow
          /\ global_epoch \in 1 .. MaxEpoch
          /\ window_gen \in Nat
          /\ current_ts \in 0 .. MaxEpoch
          /\ window_open_at \in 0 .. MaxNow
          /\ adaptive_w_ns \in Window
          /\ pc \in [Thread -> Pc]
          /\ local \in [Thread -> Local]
          /\ \A t \in Thread : pc[t] = "done" => local[t].ts # 0
          /\ answered \in 1 .. MaxEpoch
          /\ floor \in [Thread -> 1 .. MaxEpoch]
          /\ windows \in Seq([ts : 0 .. MaxEpoch, opened_at : 0 .. MaxNow, w : Window])
          /\ lost \in [Thread -> Nat]

\* An odd generation means that exactly one thread is between claiming the
\* window and publishing it; at an even one nobody is.
OneWriter == /\ \A t, u \in Thread : Writing(t) /\ Writing(u) => t = u
             /\ (\E t \in Thread : Writing(t)) <=> window_gen % 2 = 1

\* take_snapshot never answers with 0, with a timestamp from the future, or with
\* one older than a timestamp that was answered before the call began.
Clock == INSTANCE SnapshotClock
         WITH calling <- {t \in Thread : pc[t] \notin {"idle", "done"}},
              snap <- [t \in Thread |-> IF pc[t] = "done" THEN local[t].ts ELSE 0]

KeepsContract == Clock!Spec

\* A window is opened only when the one before it, with its own length, is over:
\* although an opener took its now_ns before it claimed the window, and calls come
\* in another order than they began.
WindowsDisjoint ==
    \A i \in 2 .. Len(windows) :
        windows[i].opened_at >= windows[i - 1].opened_at + windows[i - 1].w

\* A call loses its compare_exchange at most once to each other call that was in
\* progress when it began, and once more: the window that beats it then is younger
\* than the call, which hits it.  Openers cannot keep a call in the loop for ever.
FewRetries == \A t \in Thread : lost[t] <= Cardinality(Thread)

InCall(t) == pc[t] \notin {"idle", "done"}

\* While there are calls, calls answer: the spinning on an odd generation and the
\* retries after a lost race never stop all of them, whatever the schedule.  That
\* a particular reader does not always look at an odd moment is not promised.
SomeCallAnswers ==
    \/ []<>(\A t \in Thread : ~InCall(t))
    \/ []<><<\E t \in Thread : InCall(t) /\ pc'[t] = "done">>_vars

\* "any reader whose Acquire load observes gen+2 is guaranteed to observe those
\* writes too: no torn window state" (src/lib.rs:323): the timestamp and the
\* opening time on which a call hits belong to one published window.
NoTornWindow == \A t \in Thread : 
    pc[t] = "hit" => \E i \in DOMAIN windows : /\ windows[i].ts = local[t].ts
                                              /\ windows[i].opened_at = local[t].opened_at
=============================================================================
