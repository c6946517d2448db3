------------------------------ MODULE SccProofs ------------------------------
(***************************************************************************)
(* Proofs about take_snapshot for any number of threads, any bounds on     *)
(* clock and epoch, and any set of window lengths.                         *)
(***************************************************************************)
EXTENDS Scc, FiniteSetTheorems, TLAPS

USE BoundAssumption, WindowAssumption

---------------------------------------------------------------------------
(* The inductive invariant *)

\* The types, without the claim that an answer is not 0.
Types == /\ clock \in 0 .. MaxNow
         /\ global_epoch \in 1 .. MaxEpoch
         /\ window_gen \in Nat
         /\ current_ts \in 0 .. MaxEpoch
         /\ window_open_at \in 0 .. MaxNow
         /\ adaptive_w_ns \in Window
         /\ pc \in [Thread -> Pc]
         /\ local \in [Thread -> Local]
         /\ answered \in 1 .. MaxEpoch
         /\ floor \in [Thread -> 1 .. MaxEpoch]

WindowRecord == [ts : 0 .. MaxEpoch, opened_at : 0 .. MaxNow, w : Window]
HistoryTypes == windows \in Seq(WindowRecord) /\ lost \in [Thread -> Nat]

\* t has loaded a generation and not given it up.
HasGen(t) == pc[t] \in {"ts", "opened", "w", "hit", "epoch", "cas"} \/ Writing(t)

\* A loaded generation is even and not from the future, and the writer is the
\* thread that made it odd.
GenInv == /\ OneWriter
          /\ \A t \in Thread : HasGen(t) => /\ local[t].gen % 2 = 0
                                            /\ local[t].gen <= window_gen
          /\ \A t \in Thread : Writing(t) => window_gen = local[t].gen + 1

\* The current timestamp is at least every answer, and at least 1 once there is
\* a window.
ClockInv == /\ current_ts <= global_epoch
            /\ window_gen >= 2 => current_ts >= 1
            /\ answered <= 1 \/ answered <= current_ts
            /\ \A t \in Thread : floor[t] <= answered

\* What a reader has loaded is old by now, but not older than its call.
ReaderInv ==
    \A t \in Thread :
        /\ pc[t] \in {"opened", "w", "hit"} =>
             /\ local[t].ts <= current_ts
             /\ local[t].gen # 0 => local[t].ts >= 1 /\ local[t].ts >= floor[t]
        /\ pc[t] = "hit" => local[t].gen # 0
        /\ pc[t] = "done" => local[t].ts # 0

\* The new timestamp is not older than the one it replaces: an opener that
\* loaded the epoch before the last window loses its compare_exchange.
OpenerInv ==
    \A t \in Thread :
        /\ pc[t] = "cas" \/ Writing(t) =>
             /\ local[t].new_ts >= 1 /\ local[t].new_ts >= floor[t]
             /\ local[t].new_ts <= global_epoch
        /\ pc[t] = "cas" /\ window_gen = local[t].gen => current_ts <= local[t].new_ts
        /\ pc[t] \in {"store_w", "store_ts"} => current_ts <= local[t].new_ts
        /\ pc[t] \in {"store_opened", "publish"} => current_ts = local[t].new_ts

\* The window published last, and that it is over at t's now_ns.
Last == windows[Len(windows)]
Over(t) == windows # <<>> => Last.opened_at + Last.w <= local[t].now_ns

\* Two generations are a window.  At an even one the fields are those of the last
\* window, so an opener whose compare_exchange succeeds has tested that very
\* window; the thread that writes has, and nobody else publishes one meanwhile.
WindowInv ==
    /\ window_gen = 2 * Len(windows) \/ window_gen = 2 * Len(windows) + 1
    /\ window_gen % 2 = 0 /\ windows # <<>> => Last = Published
    /\ WindowsDisjoint
    /\ \A t \in Thread :
        /\ pc[t] = "w" /\ window_gen = local[t].gen =>
             local[t].opened_at = window_open_at
        /\ pc[t] \in {"epoch", "cas"} /\ window_gen = local[t].gen => Over(t)
        /\ Writing(t) => Over(t)
        /\ pc[t] = "publish" => window_open_at = local[t].now_ns

SccInv == Types /\ HistoryTypes /\ GenInv /\ ClockInv /\ ReaderInv /\ OpenerInv /\ WindowInv

---------------------------------------------------------------------------
(* Each part is preserved *)

\* An even generation becomes odd by the compare_exchange, and even again by the
\* store that publishes it.
LEMMA Parity == ASSUME NEW n \in Nat, n % 2 = 0
                PROVE  /\ (n + 1) % 2 = 1 /\ (n + 2) % 2 = 0
                       /\ n # 0 => n >= 2
OBVIOUS

LEMMA WindowOfNaturals ==
    ASSUME NEW r \in WindowRecord PROVE r.opened_at \in Nat /\ r.w \in Nat \ {0}
<1>1. r.opened_at \in 0 .. MaxNow
  BY DEF WindowRecord
<1>2. r.w \in Window
  BY DEF WindowRecord
<1>3. r.opened_at \in Nat
  BY <1>1
<1>4. r.w \in Nat \ {0}
  BY ONLY <1>2, WindowAssumption
<1> QED BY <1>3, <1>4

LEMMA InitSccInv == Init => SccInv
<1> SUFFICES ASSUME Init PROVE SccInv
  OBVIOUS
<1>1. Types /\ HistoryTypes
  BY DEF Init, Types, HistoryTypes, Local, NoLocal, Pc
<1>2. GenInv /\ ClockInv /\ ReaderInv /\ OpenerInv
  BY DEF Init, GenInv, OneWriter, HasGen, Writing, ClockInv, ReaderInv, OpenerInv
<1>3. WindowInv
  BY DEF Init, WindowInv, WindowsDisjoint, Over, Writing
<1> QED BY <1>1, <1>2, <1>3 DEF SccInv

LEMMA NextTypes == SccInv /\ [Next]_vars => Types'
<1> SUFFICES ASSUME SccInv, [Next]_vars PROVE Types'
  OBVIOUS
<1> USE DEF SccInv, Types, Goto, Pc, Local, shared, history
<1>1. CASE UNCHANGED vars
  BY <1>1 DEF vars
<1>2. CASE Tick
  BY <1>2 DEF Tick
<1>3. CASE AdvanceEpoch
  BY <1>3 DEF AdvanceEpoch
<1>4. ASSUME NEW t \in Thread, Call(t) \/ Step(t) \/ Release(t) PROVE Types'
  <2>1. CASE Call(t)
    BY <2>1 DEF Call
  <2>2. CASE LoadGen(t)
    BY <2>2 DEF LoadGen
  <2>3. CASE LoadTs(t)
    BY <2>3 DEF LoadTs
  <2>4. CASE LoadOpened(t)
    BY <2>4 DEF LoadOpened
  <2>5. CASE LoadW(t)
    BY <2>5 DEF LoadW, IsOpen
  <2>6. CASE Hit(t)
    BY <2>6 DEF Hit, Answer, NoLocal
  <2>7. CASE LoadEpoch(t)
    <3>1. local' = [local EXCEPT ![t] = [local[t] EXCEPT !.new_ts = global_epoch,
                                                         !.ts = 0, !.opened_at = 0]]
      BY <2>7 DEF LoadEpoch
    <3> DEFINE one == [local[t] EXCEPT !.new_ts = global_epoch]
               two == [one EXCEPT !.ts = 0]
    <3>2. one \in Local
      OBVIOUS
    <3> HIDE DEF one
    <3>3. two \in Local
      BY <3>2
    <3> HIDE DEF two
    <3>4. [two EXCEPT !.opened_at = 0] \in Local
      BY <3>3
    <3>5. local' = [local EXCEPT ![t] = [two EXCEPT !.opened_at = 0]]
      BY <3>1 DEF one, two
    <3>6. local' \in [Thread -> Local]
      BY <3>4, <3>5
    <3> QED BY <2>7, <3>6 DEF LoadEpoch
  <2>8. CASE Cas(t)
    BY <2>8 DEF Cas
  <2>9. CASE StoreW(t)
    BY <2>9 DEF StoreW
  <2>10. CASE StoreTs(t)
    BY <2>10 DEF StoreTs
  <2>11. CASE StoreOpened(t)
    BY <2>11 DEF StoreOpened
  <2>12. CASE Publish(t)
    <3>1. /\ pc' = [pc EXCEPT ![t] = "done"] /\ window_gen' = local[t].gen + 2
          /\ UNCHANGED <<clock, global_epoch, current_ts, window_open_at, adaptive_w_ns>>
          /\ Answer(t, local[t].new_ts)
      BY <2>12 DEF Publish
    <3>2. Answer(t, local[t].new_ts) => /\ answered' \in 1 .. MaxEpoch
                                        /\ floor' \in [Thread -> 1 .. MaxEpoch]
                                        /\ local' \in [Thread -> Local]
      BY DEF Answer, NoLocal
    <3>3. window_gen' \in Nat /\ pc' \in [Thread -> Pc]
      BY <3>1
    <3>4. /\ clock' \in 0 .. MaxNow /\ global_epoch' \in 1 .. MaxEpoch
          /\ current_ts' \in 0 .. MaxEpoch /\ window_open_at' \in 0 .. MaxNow
          /\ adaptive_w_ns' \in Window
      BY <3>1
    <3> QED BY <3>1, <3>2, <3>3, <3>4
  <2>13. CASE Release(t)
    BY <2>13 DEF Release, NoLocal
  <2> QED BY <1>4, <2>1, <2>2, <2>3, <2>4, <2>5, <2>6, <2>7, <2>8, <2>9,
            <2>10, <2>11, <2>12, <2>13 DEF Step
<1> QED BY <1>1, <1>2, <1>3, <1>4 DEF Next

LEMMA NextHistoryTypes == SccInv /\ [Next]_vars => HistoryTypes'
<1> SUFFICES ASSUME SccInv, [Next]_vars PROVE HistoryTypes'
  OBVIOUS
<1>1. CASE UNCHANGED <<windows, lost>>
  BY <1>1 DEF SccInv, HistoryTypes
<1>2. CASE \E t \in Thread : Hit(t) \/ Cas(t)
  BY <1>2 DEF SccInv, HistoryTypes, Hit, Cas, Answer
<1>3. ASSUME NEW t \in Thread, Publish(t) PROVE HistoryTypes'
  <2>1. Published \in WindowRecord
    BY DEF SccInv, Types, Published, WindowRecord
  <2> QED BY <1>3, <2>1 DEF SccInv, HistoryTypes, Publish, Answer
<1> QED BY <1>1, <1>2, <1>3 DEF Next, Step, vars, history, Tick, AdvanceEpoch, Call, Release,
          LoadGen, LoadTs, LoadOpened, LoadW, LoadEpoch, StoreW, StoreTs, StoreOpened

LEMMA NextGen == SccInv /\ [Next]_vars => GenInv'
<1> SUFFICES ASSUME SccInv, [Next]_vars PROVE GenInv'
  OBVIOUS
<1> USE DEF SccInv, Types, GenInv, OneWriter, HasGen, Writing, Goto, shared, history
<1>1. CASE UNCHANGED vars
  BY <1>1 DEF vars
<1>2. CASE Tick
  BY <1>2 DEF Tick
<1>3. CASE AdvanceEpoch
  BY <1>3 DEF AdvanceEpoch
<1>4. ASSUME NEW t \in Thread, Call(t) \/ Step(t) \/ Release(t) PROVE GenInv'
  <2>1. CASE Call(t)
    BY <2>1 DEF Call
  <2>2. CASE LoadGen(t)
    BY <2>2 DEF LoadGen
  <2>3. CASE LoadTs(t)
    BY <2>3 DEF LoadTs
  <2>4. CASE LoadOpened(t)
    BY <2>4 DEF LoadOpened
  <2>5. CASE LoadW(t)
    BY <2>5 DEF LoadW, IsOpen
  <2>6. CASE Hit(t)
    BY <2>6 DEF Hit, Answer, NoLocal
  <2>7. CASE LoadEpoch(t)
    BY <2>7 DEF LoadEpoch
  <2>8. CASE Cas(t)
    <3>1. CASE window_gen = local[t].gen
      <4>1. /\ pc[t] = "cas" /\ pc' = [pc EXCEPT ![t] = "store_w"]
            /\ window_gen' = window_gen + 1 /\ local' = local
        BY <2>8, <3>1 DEF Cas
      <4>2. window_gen % 2 = 0
        BY <3>1, <4>1
      <4>3. window_gen' % 2 = 1
        BY <4>1, <4>2, Parity
      <4>4. \A u \in Thread : ~Writing(u)
        BY <4>2
      <4>5. \A u \in Thread : Writing(u)' <=> u = t
        BY <4>1, <4>4
      <4>6. \A u \in Thread : HasGen(u)' => HasGen(u)
        BY <4>1
      <4>7. OneWriter'
        BY <4>3, <4>5
      <4>8. \A u \in Thread : HasGen(u)' => /\ local'[u].gen % 2 = 0
                                            /\ local'[u].gen <= window_gen'
        <5> SUFFICES ASSUME NEW u \in Thread, HasGen(u)
                     PROVE  local[u].gen % 2 = 0 /\ local[u].gen <= window_gen + 1
          BY <4>1, <4>6
        <5>1. local[u].gen % 2 = 0 /\ local[u].gen <= window_gen /\ local[u].gen \in Nat
          BY DEF Local
        <5> QED BY <5>1
      <4>9. \A u \in Thread : Writing(u)' => window_gen' = local'[u].gen + 1
        BY <3>1, <4>1, <4>5
      <4> QED BY <4>7, <4>8, <4>9
    <3>2. CASE window_gen # local[t].gen
      BY <2>8, <3>2 DEF Cas
    <3> QED BY <3>1, <3>2
  <2>9. CASE StoreW(t)
    BY <2>9 DEF StoreW
  <2>10. CASE StoreTs(t)
    BY <2>10 DEF StoreTs
  <2>11. CASE StoreOpened(t)
    BY <2>11 DEF StoreOpened
  <2>12. CASE Publish(t)
    <3>1. /\ pc[t] = "publish" /\ pc' = [pc EXCEPT ![t] = "done"]
          /\ window_gen' = local[t].gen + 2
          /\ \A u \in Thread : u # t => local'[u] = local[u]
      BY <2>12 DEF Publish, Answer
    <3>2. /\ local[t].gen \in Nat /\ local[t].gen % 2 = 0
          /\ window_gen = local[t].gen + 1
      BY <3>1 DEF Local
    <3>3. window_gen' % 2 = 0
      BY <3>1, <3>2, Parity
    <3>4. \A u \in Thread : ~Writing(u)'
      BY <3>1
    <3>5. \A u \in Thread : HasGen(u)' => /\ local'[u].gen % 2 = 0
                                          /\ local'[u].gen <= window_gen'
      <4> SUFFICES ASSUME NEW u \in Thread, HasGen(u), u # t
                   PROVE  local[u].gen % 2 = 0 /\ local[u].gen <= window_gen'
        BY <3>1
      <4>1. local[u].gen % 2 = 0 /\ local[u].gen <= window_gen /\ local[u].gen \in Nat
        BY DEF Local
      <4> QED BY <4>1, <3>1, <3>2
    <3>6. OneWriter'
      BY <3>3, <3>4
    <3> QED BY <3>4, <3>5, <3>6
  <2>13. CASE Release(t)
    BY <2>13 DEF Release, NoLocal
  <2> QED BY <1>4, <2>1, <2>2, <2>3, <2>4, <2>5, <2>6, <2>7, <2>8, <2>9,
            <2>10, <2>11, <2>12, <2>13 DEF Step
<1> QED BY <1>1, <1>2, <1>3, <1>4 DEF Next

LEMMA NextClock == SccInv /\ [Next]_vars => ClockInv'
<1> SUFFICES ASSUME SccInv, [Next]_vars PROVE ClockInv'
  OBVIOUS
<1> USE DEF SccInv, Types, ClockInv, GenInv, HasGen, ReaderInv, OpenerInv,
            Writing, Local, Goto, shared, history
<1>1. CASE UNCHANGED vars
  BY <1>1 DEF vars
<1>2. CASE Tick
  BY <1>2 DEF Tick
<1>3. CASE AdvanceEpoch
  BY <1>3 DEF AdvanceEpoch
<1>4. ASSUME NEW t \in Thread, Call(t) \/ Step(t) \/ Release(t) PROVE ClockInv'
  <2>1. CASE Call(t)
    BY <2>1 DEF Call
  <2>2. CASE LoadGen(t)
    BY <2>2 DEF LoadGen
  <2>3. CASE LoadTs(t)
    BY <2>3 DEF LoadTs
  <2>4. CASE LoadOpened(t)
    BY <2>4 DEF LoadOpened
  <2>5. CASE LoadW(t)
    BY <2>5 DEF LoadW, IsOpen
  <2>6. CASE Hit(t)
    BY <2>6 DEF Hit, Answer, NoLocal
  <2>7. CASE LoadEpoch(t)
    BY <2>7 DEF LoadEpoch
  <2>8. CASE Cas(t)
    <3>1. window_gen' >= 2 => window_gen >= 2
      BY <2>8, Parity DEF Cas
    <3> QED BY <2>8, <3>1 DEF Cas
  <2>9. CASE StoreW(t)
    BY <2>9 DEF StoreW
  <2>10. CASE StoreTs(t)
    BY <2>10 DEF StoreTs
  <2>11. CASE StoreOpened(t)
    BY <2>11 DEF StoreOpened
  <2>12. CASE Publish(t)
    <3>1. /\ window_gen' = local[t].gen + 2
          /\ UNCHANGED <<global_epoch, current_ts>>
          /\ answered' = IF local[t].new_ts > answered THEN local[t].new_ts ELSE answered
          /\ floor' = [floor EXCEPT ![t] = 1]
      BY <2>12 DEF Publish, Answer
    <3>2. current_ts = local[t].new_ts /\ local[t].new_ts >= 1
      BY <2>12 DEF Publish
    <3> QED BY <3>1, <3>2
  <2>13. CASE Release(t)
    BY <2>13 DEF Release, NoLocal
  <2> QED BY <1>4, <2>1, <2>2, <2>3, <2>4, <2>5, <2>6, <2>7, <2>8, <2>9,
            <2>10, <2>11, <2>12, <2>13 DEF Step
<1> QED BY <1>1, <1>2, <1>3, <1>4 DEF Next

LEMMA NextReader == SccInv /\ [Next]_vars => ReaderInv'
<1> SUFFICES ASSUME SccInv, [Next]_vars PROVE ReaderInv'
  OBVIOUS
<1> USE DEF SccInv, Types, ClockInv, GenInv, HasGen, ReaderInv, OpenerInv,
            Writing, Local, Goto, shared, history
<1>1. CASE UNCHANGED vars
  BY <1>1 DEF vars
<1>2. CASE Tick
  BY <1>2 DEF Tick
<1>3. CASE AdvanceEpoch
  BY <1>3 DEF AdvanceEpoch
<1>4. ASSUME NEW t \in Thread, Call(t) \/ Step(t) \/ Release(t) PROVE ReaderInv'
  <2>1. CASE Call(t)
    BY <2>1 DEF Call
  <2>2. CASE LoadGen(t)
    BY <2>2 DEF LoadGen
  <2>3. CASE LoadTs(t)
    BY <2>3 DEF LoadTs
  <2>4. CASE LoadOpened(t)
    BY <2>4 DEF LoadOpened
  <2>5. CASE LoadW(t)
    BY <2>5 DEF LoadW, IsOpen
  <2>6. CASE Hit(t)
    BY <2>6 DEF Hit, Answer, NoLocal
  <2>7. CASE LoadEpoch(t)
    BY <2>7 DEF LoadEpoch
  <2>8. CASE Cas(t)
    BY <2>8 DEF Cas
  <2>9. CASE StoreW(t)
    BY <2>9 DEF StoreW
  <2>10. CASE StoreTs(t)
    BY <2>10 DEF StoreTs
  <2>11. CASE StoreOpened(t)
    BY <2>11 DEF StoreOpened
  <2>12. CASE Publish(t)
    <3>1. /\ pc' = [pc EXCEPT ![t] = "done"] /\ pc[t] = "publish"
          /\ local' = [local EXCEPT ![t] = [NoLocal EXCEPT !.ts = local[t].new_ts]]
          /\ floor' = [floor EXCEPT ![t] = 1]
          /\ UNCHANGED current_ts
      BY <2>12 DEF Publish, Answer
    <3>2. local[t].new_ts >= 1 /\ local[t].new_ts \in Nat
      BY <3>1
    <3>3. pc'[t] = "done" /\ local'[t].ts # 0
      BY <3>1, <3>2 DEF NoLocal
    <3>4. \A u \in Thread : u # t => /\ pc'[u] = pc[u] /\ local'[u] = local[u]
                                    /\ floor'[u] = floor[u]
      BY <3>1
    <3> HIDE DEF SccInv, Types, ClockInv, GenInv, HasGen, OpenerInv, Writing, Local
    <3>5. ReaderInv
      BY DEF SccInv
    <3> QED BY <3>1, <3>3, <3>4, <3>5
  <2>13. CASE Release(t)
    BY <2>13 DEF Release, NoLocal
  <2> QED BY <1>4, <2>1, <2>2, <2>3, <2>4, <2>5, <2>6, <2>7, <2>8, <2>9,
            <2>10, <2>11, <2>12, <2>13 DEF Step
<1> QED BY <1>1, <1>2, <1>3, <1>4 DEF Next

LEMMA NextOpener == SccInv /\ [Next]_vars => OpenerInv'
<1> SUFFICES ASSUME SccInv, [Next]_vars PROVE OpenerInv'
  OBVIOUS
<1> USE DEF SccInv, Types, ClockInv, GenInv, OneWriter, HasGen, OpenerInv,
            Writing, Local, Goto, shared, history
<1>1. CASE UNCHANGED vars
  BY <1>1 DEF vars
<1>2. CASE Tick
  BY <1>2 DEF Tick
<1>3. CASE AdvanceEpoch
  BY <1>3 DEF AdvanceEpoch
<1>4. ASSUME NEW t \in Thread, Call(t) \/ Step(t) \/ Release(t) PROVE OpenerInv'
  <2>1. CASE Call(t)
    BY <2>1 DEF Call
  <2>2. CASE LoadGen(t)
    BY <2>2 DEF LoadGen
  <2>3. CASE LoadTs(t)
    BY <2>3 DEF LoadTs
  <2>4. CASE LoadOpened(t)
    BY <2>4 DEF LoadOpened
  <2>5. CASE LoadW(t)
    BY <2>5 DEF LoadW, IsOpen
  <2>6. CASE Hit(t)
    BY <2>6 DEF Hit, Answer, NoLocal
  <2>7. CASE LoadEpoch(t)
    BY <2>7 DEF LoadEpoch
  <2>8. CASE Cas(t)
    BY <2>8 DEF Cas
  <2>9. CASE StoreW(t)
    BY <2>9 DEF StoreW
  <2>10. CASE StoreTs(t)
    BY <2>10 DEF StoreTs
  <2>11. CASE StoreOpened(t)
    BY <2>11 DEF StoreOpened
  <2>12. CASE Publish(t)
    <3>1. /\ pc[t] = "publish" /\ pc' = [pc EXCEPT ![t] = "done"]
          /\ window_gen' = local[t].gen + 2
          /\ UNCHANGED <<global_epoch, current_ts>>
          /\ \A u \in Thread : u # t => local'[u] = local[u] /\ floor'[u] = floor[u]
      BY <2>12 DEF Publish, Answer
    <3>2. \A u \in Thread : u # t => ~Writing(u)
      BY <3>1
    <3>3. \A u \in Thread : pc[u] = "cas" => local[u].gen # window_gen'
      <4> SUFFICES ASSUME NEW u \in Thread, pc[u] = "cas"
                   PROVE  local[u].gen # window_gen'
        OBVIOUS
      <4>1. window_gen = local[t].gen + 1 /\ local[t].gen \in Nat
        BY <3>1
      <4>2. local[u].gen <= window_gen /\ local[u].gen \in Nat
        OBVIOUS
      <4> QED BY <3>1, <4>1, <4>2
    <3> QED BY <3>1, <3>2, <3>3
  <2>13. CASE Release(t)
    BY <2>13 DEF Release, NoLocal
  <2> QED BY <1>4, <2>1, <2>2, <2>3, <2>4, <2>5, <2>6, <2>7, <2>8, <2>9,
            <2>10, <2>11, <2>12, <2>13 DEF Step
<1> QED BY <1>1, <1>2, <1>3, <1>4 DEF Next

\* A step inside the loop that only reads leaves the windows as they are.
LEMMA ReaderKeepsWindow ==
    ASSUME SccInv, NEW t \in Thread, UNCHANGED <<shared, windows>>, ~Writing(t)',
           \A u \in Thread : u # t => pc'[u] = pc[u] /\ local'[u] = local[u],
           pc'[t] = "w" => local'[t].opened_at = window_open_at,
           pc'[t] \in {"epoch", "cas"} /\ window_gen = local'[t].gen => Over(t)'
    PROVE  WindowInv'
<1>1. /\ window_gen' = 2 * Len(windows') \/ window_gen' = 2 * Len(windows') + 1
      /\ window_gen' % 2 = 0 /\ windows' # <<>> => Last' = Published'
      /\ WindowsDisjoint'
  BY DEF SccInv, WindowInv, WindowsDisjoint, Last, Published, shared
<1>2. ASSUME NEW u \in Thread
      PROVE  (/\ pc[u] = "w" /\ window_gen = local[u].gen =>
                   local[u].opened_at = window_open_at
              /\ pc[u] \in {"epoch", "cas"} /\ window_gen = local[u].gen => Over(u)
              /\ Writing(u) => Over(u)
              /\ pc[u] = "publish" => window_open_at = local[u].now_ns)'
  <2>1. CASE u = t
    BY <2>1 DEF shared, Writing
  <2>2. CASE u # t
    BY <2>2 DEF SccInv, WindowInv, shared, Writing, Over, Last
  <2> QED BY <2>1, <2>2
<1> QED BY <1>1, <1>2 DEF WindowInv

LEMMA NextWindow == SccInv /\ [Next]_vars => WindowInv'
<1> SUFFICES ASSUME SccInv, [Next]_vars PROVE WindowInv'
  OBVIOUS
<1>1. CASE UNCHANGED vars \/ Tick \/ AdvanceEpoch
  <2>1. UNCHANGED <<shared, pc, local, windows>>
    BY <1>1 DEF vars, history, Tick, AdvanceEpoch
  <2> QED BY <2>1 DEF SccInv, WindowInv, WindowsDisjoint, Over, Last, Published, Writing, shared
<1>2. ASSUME NEW t \in Thread, Call(t) \/ Step(t) \/ Release(t) PROVE WindowInv'
  <2>0. /\ pc \in [Thread -> Pc] /\ local \in [Thread -> Local]
        /\ window_gen \in Nat /\ adaptive_w_ns \in Nat \ {0} /\ window_open_at \in Nat
        /\ windows \in Seq(WindowRecord) /\ Len(windows) \in Nat
    BY DEF SccInv, Types, HistoryTypes
  <2> DEFINE me == local[t]
  <2>1. me \in Local /\ me.now_ns \in Nat /\ me.gen \in Nat /\ me.opened_at \in Nat
    BY <2>0 DEF Local
  <2>2. CASE Call(t) \/ LoadGen(t) \/ LoadTs(t) \/ Hit(t) \/ Release(t)
    <3>1. /\ UNCHANGED <<shared, windows>>
          /\ \A u \in Thread : u # t => pc'[u] = pc[u] /\ local'[u] = local[u]
          /\ pc'[t] \in {"gen", "ts", "opened", "done", "idle"}
      BY <2>0, <2>2 DEF Call, LoadGen, LoadTs, Hit, Release, Goto, history, Answer
    <3> QED BY <3>1, ReaderKeepsWindow DEF Writing
  <2>3. CASE LoadOpened(t)
    <3>1. /\ UNCHANGED <<shared, windows>>
          /\ \A u \in Thread : u # t => pc'[u] = pc[u] /\ local'[u] = local[u]
          /\ pc'[t] = "w" /\ local'[t].opened_at = window_open_at
      BY <2>0, <2>3 DEF LoadOpened, Goto, history, Local
    <3> QED BY <3>1, ReaderKeepsWindow DEF Writing
  <2>4. CASE LoadW(t)
    <3>1. /\ UNCHANGED <<shared, windows, local>> /\ pc[t] = "w"
          /\ \A u \in Thread : u # t => pc'[u] = pc[u]
          /\ pc'[t] \in {"hit", "epoch"} /\ (pc'[t] = "epoch" => ~IsOpen(me))
      BY <2>0, <2>4 DEF LoadW, Goto, history
    <3>2. ASSUME pc'[t] = "epoch", window_gen = me.gen PROVE Over(t)
      <4>1. SUFFICES ASSUME windows # <<>>
                     PROVE  Last.opened_at + Last.w <= me.now_ns
        BY DEF Over
      <4>2. /\ me.gen % 2 = 0 /\ me.opened_at = window_open_at
            /\ window_gen = 2 * Len(windows) \/ window_gen = 2 * Len(windows) + 1
        BY <3>1, <3>2 DEF SccInv, GenInv, HasGen, WindowInv
      <4>3. Len(windows) # 0
        BY <2>0, <4>1
      <4>4. me.gen # 0
        BY <2>0, <3>2, <4>2, <4>3
      <4>5. Last = Published
        BY <3>2, <4>1, <4>2 DEF SccInv, WindowInv
      <4>6. me.opened_at + adaptive_w_ns <= me.now_ns
        BY <2>0, <2>1, <3>1, <3>2, <4>4 DEF IsOpen, saturating_sub
      <4> QED BY <4>2, <4>5, <4>6 DEF Published
    <3>3. Over(t) => Over(t)'
      BY <3>1 DEF Over, Last
    <3>4. window_gen = local'[t].gen => window_gen = me.gen
      BY <3>1
    <3> QED BY <3>1, <3>2, <3>3, <3>4, ReaderKeepsWindow DEF Writing
  <2>5. CASE LoadEpoch(t)
    <3>1. /\ UNCHANGED <<shared, windows>> /\ pc[t] = "epoch"
          /\ \A u \in Thread : u # t => pc'[u] = pc[u] /\ local'[u] = local[u]
          /\ pc'[t] = "cas" /\ local'[t].gen = me.gen /\ local'[t].now_ns = me.now_ns
      BY <2>0, <2>5 DEF LoadEpoch, Goto, history, Local
    <3>2. window_gen = me.gen => Over(t)
      BY <3>1 DEF SccInv, WindowInv
    <3>3. Over(t) => Over(t)'
      BY <3>1 DEF Over, Last
    <3> QED BY <3>1, <3>2, <3>3, ReaderKeepsWindow DEF Writing
  <2>6. CASE Cas(t) /\ window_gen # me.gen
    <3>1. /\ UNCHANGED <<shared, windows, local>> /\ pc'[t] = "gen"
          /\ \A u \in Thread : u # t => pc'[u] = pc[u]
      BY <2>0, <2>6 DEF Cas, Goto, shared
    <3> QED BY <3>1, ReaderKeepsWindow DEF Writing
  <2> USE DEF SccInv, GenInv, OneWriter, HasGen
  <2>7. CASE Cas(t) /\ window_gen = me.gen
    <3>1. /\ UNCHANGED <<current_ts, window_open_at, adaptive_w_ns, windows, local>>
          /\ pc[t] = "cas" /\ pc' = [pc EXCEPT ![t] = "store_w"]
          /\ window_gen' = window_gen + 1
      BY <2>0, <2>7 DEF Cas, Goto
    <3>2. window_gen % 2 = 0 /\ Over(t) /\ window_gen = 2 * Len(windows)
      BY <2>0, <2>7, <3>1 DEF WindowInv
    <3>3. window_gen' % 2 = 1 /\ window_gen' = 2 * Len(windows') + 1
      BY <2>0, <3>1, <3>2
    <3>4. \A u \in Thread : ~Writing(u) /\ (HasGen(u) => local[u].gen # window_gen')
      <4> SUFFICES ASSUME NEW u \in Thread
                   PROVE  ~Writing(u) /\ (HasGen(u) => local[u].gen # window_gen')
        OBVIOUS
      <4>1. ~Writing(u) /\ (HasGen(u) => local[u].gen <= window_gen) /\ local[u].gen \in Nat
        <5>1. local[u] \in Local
          BY <2>0
        <5>2. local[u].gen \in Nat
          BY <5>1 DEF Local
        <5>3. ~Writing(u)
          BY <3>2
        <5>4. HasGen(u) => local[u].gen <= window_gen
          OBVIOUS
        <5> HIDE DEF SccInv, GenInv, OneWriter, HasGen
        <5> QED BY <5>2, <5>3, <5>4
      <4> HIDE DEF SccInv, GenInv, OneWriter, HasGen
      <4> QED BY <2>0, <3>1, <4>1
    <3>5. \A u \in Thread : Over(u)' <=> Over(u)
      BY <3>1 DEF Over, Last
    <3>6. WindowsDisjoint'
      BY <3>1 DEF WindowInv, WindowsDisjoint
    <3> HIDE DEF SccInv
    <3>7. \A u \in Thread : Writing(u)' => u = t
      BY <2>0, <3>1, <3>4 DEF Writing
    <3>8. ASSUME NEW u \in Thread
          PROVE  /\ pc'[u] = "w" => window_gen' # local'[u].gen
                 /\ pc'[u] \in {"epoch", "cas"} => window_gen' # local'[u].gen
                 /\ pc'[u] # "publish"
      BY <2>0, <3>1, <3>4 DEF HasGen, Writing
    <3>9. window_gen' % 2 # 0
      BY <3>3
    <3> QED BY <3>2, <3>3, <3>5, <3>6, <3>7, <3>8, <3>9 DEF WindowInv
  <2>8. CASE StoreW(t) \/ StoreTs(t) \/ StoreOpened(t)
    <3>1. /\ UNCHANGED <<window_gen, windows, local>>
          /\ \A u \in Thread : u # t => pc'[u] = pc[u]
          /\ Writing(t) /\ pc'[t] \in {"store_ts", "store_opened", "publish"}
          /\ pc'[t] = "publish" => window_open_at' = me.now_ns
      BY <2>0, <2>8 DEF StoreW, StoreTs, StoreOpened, Goto, history, Writing
    <3>2. window_gen % 2 = 1 /\ window_gen % 2 # 0
      BY <3>1
    <3>3. \A u \in Thread : HasGen(u) => local[u].gen % 2 = 0
      OBVIOUS
    <3>4. \A u \in Thread : pc'[u] \in {"w", "epoch", "cas"} => window_gen # local[u].gen
      BY <3>1, <3>2, <3>3 DEF HasGen
    <3>5. \A u \in Thread : Writing(u) => u = t
      BY <3>1
    <3>6. \A u \in Thread : /\ Writing(u)' => u = t
                            /\ pc'[u] = "publish" => u = t
      BY <3>1, <3>5 DEF Writing
    <3>7. Over(t)' /\ WindowsDisjoint'
      BY <3>1 DEF WindowInv, Over, Last, WindowsDisjoint
    <3>8. window_gen' = 2 * Len(windows') \/ window_gen' = 2 * Len(windows') + 1
      BY <3>1 DEF WindowInv
    <3> HIDE DEF SccInv, GenInv, OneWriter, HasGen
    <3> QED BY <3>1, <3>2, <3>4, <3>6, <3>7, <3>8 DEF WindowInv
  <2>9. CASE Publish(t)
    <3>1. /\ pc[t] = "publish" /\ pc' = [pc EXCEPT ![t] = "done"]
          /\ window_gen' = me.gen + 2 /\ windows' = Append(windows, Published)
          /\ UNCHANGED <<current_ts, window_open_at, adaptive_w_ns>>
      BY <2>0, <2>9 DEF Publish, Goto
    <3>2. \A u \in Thread : u # t => local'[u] = local[u]
      BY <2>0, <2>9 DEF Publish, Answer
    <3>3. /\ Writing(t) /\ window_gen = me.gen + 1 /\ me.gen % 2 = 0
          /\ Over(t) /\ window_open_at = me.now_ns
      BY <3>1 DEF WindowInv, Writing
    <3>4. me.gen = 2 * Len(windows)
      <4>1. window_gen = 2 * Len(windows) \/ window_gen = 2 * Len(windows) + 1
        BY DEF WindowInv
      <4>2. \A n, k \in Nat : n % 2 = 0 => n + 1 # 2 * k
        OBVIOUS
      <4> HIDE DEF SccInv, GenInv, OneWriter
      <4> QED BY <2>0, <2>1, <3>3, <4>1, <4>2
    <3>5. Published \in WindowRecord
      BY DEF Types, Published, WindowRecord
    <3>6. /\ Len(windows') = Len(windows) + 1
          /\ \A i \in 1 .. Len(windows) : windows'[i] = windows[i]
          /\ windows'[Len(windows) + 1] = Published
      BY <2>0, <3>1, <3>5
    <3>7. WindowsDisjoint'
      <4> SUFFICES ASSUME NEW i \in 2 .. Len(windows')
                   PROVE  windows'[i].opened_at >= windows'[i - 1].opened_at + windows'[i - 1].w
        BY DEF WindowsDisjoint
      <4>1. CASE i \in 2 .. Len(windows)
        <5>1. i \in 1 .. Len(windows) /\ i - 1 \in 1 .. Len(windows)
          BY <2>0, <4>1
        <5>2. windows[i].opened_at >= windows[i - 1].opened_at + windows[i - 1].w
          BY <4>1 DEF WindowInv, WindowsDisjoint
        <5> QED BY <3>6, <5>1, <5>2
      <4>2. CASE i = Len(windows) + 1
        <5>1. i - 1 = Len(windows) /\ Len(windows) \in 1 .. Len(windows) /\ windows # <<>>
          BY <2>0, <4>2
        <5>2. windows'[i] = Published /\ windows'[i - 1] = Last
          BY <3>6, <4>2, <5>1 DEF Last
        <5>3. Last.opened_at + Last.w <= window_open_at
          BY <3>3, <5>1 DEF Over
        <5>4. Published.opened_at = window_open_at
          BY DEF Published
        <5>5. Last \in WindowRecord
          BY <2>0, <5>1 DEF Last
        <5>6. Last.opened_at \in Nat /\ Last.w \in Nat
          BY <5>5, WindowOfNaturals
        <5> QED BY <2>0, <5>2, <5>3, <5>4, <5>6
      <4> QED BY <2>0, <3>6, <4>1, <4>2
    <3>8. window_gen' = 2 * Len(windows')
      BY <2>0, <3>1, <3>4, <3>6
    <3>9. Last' = Published'
      <4>1. Published' = Published
        BY <3>1 DEF Published
      <4> QED BY <3>6, <4>1 DEF Last
    <3>10. ASSUME NEW u \in Thread, HasGen(u)'
           PROVE  local'[u].gen # window_gen' /\ ~Writing(u)'
      <4>1. u # t /\ HasGen(u) /\ local'[u] = local[u]
        BY <2>0, <3>1, <3>2, <3>10 DEF Writing
      <4>2. local[u].gen <= window_gen /\ local[u].gen \in Nat
        BY <2>0, <4>1 DEF Local
      <4>3. ~Writing(u) /\ pc'[u] = pc[u]
        BY <2>0, <3>1, <3>3, <4>1
      <4> QED BY <2>0, <2>1, <3>1, <3>3, <4>1, <4>2, <4>3 DEF Writing
    <3> HIDE DEF SccInv, GenInv, OneWriter
    <3> QED BY <3>7, <3>8, <3>9, <3>10 DEF WindowInv, HasGen, Writing
  <2> QED BY <1>2, <2>2, <2>3, <2>4, <2>5, <2>6, <2>7, <2>8, <2>9 DEF Step
<1> QED BY <1>1, <1>2 DEF Next

LEMMA NextSccInv == SccInv /\ [Next]_vars => SccInv'
BY NextTypes, NextHistoryTypes, NextGen, NextClock, NextReader, NextOpener, NextWindow DEF SccInv

---------------------------------------------------------------------------
(* Safety *)

\* The inductive invariant holds in every state that take_snapshot reaches.
THEOREM Safe == Spec => []SccInv
BY InitSccInv, NextSccInv, PTL DEF Spec

\* Every access of take_snapshot stays inside the types of its words and locals,
\* and no call answers with 0, which would mean that there is no snapshot.
THEOREM TypeCorrect == Spec => []TypeOK
<1>1. SccInv => TypeOK
  BY DEF SccInv, Types, HistoryTypes, WindowRecord, ReaderInv, TypeOK
<1> QED BY <1>1, Safe, PTL

\* The odd generation is a lock: at most one thread writes the window, and the
\* generation is odd exactly while it does.
THEOREM SingleWriter == Spec => []OneWriter
<1>1. SccInv => OneWriter
  BY DEF SccInv, GenInv
<1> QED BY <1>1, Safe, PTL

\* A window is opened only when the one before it, with the length that was stored
\* for it, is over: however late its opener comes to store, and whatever windows
\* other threads have opened between its loads and its compare_exchange.
THEOREM Disjoint == Spec => []WindowsDisjoint
<1>1. SccInv => WindowsDisjoint
  BY DEF SccInv, WindowInv
<1> QED BY <1>1, Safe, PTL

---------------------------------------------------------------------------
(* Lost races *)

\* t may still try to open a window.
InLoop(t) == pc[t] \in {"gen", "ts", "opened", "w", "epoch", "cas"}

\* What t has loaded, or has tested, was opened before t's call.
SightOf(t) ==
    /\ local[t].now_ns <= clock
    /\ Writing(t) /\ windows # <<>> => window_open_at <= local[t].now_ns
    /\ pc[t] = "w" => \A i \in 1 .. Len(windows) :
         2 * i <= local[t].gen => windows[i].opened_at <= local[t].opened_at
    /\ pc[t] \in {"epoch", "cas"} => \A i \in 1 .. Len(windows) :
         2 * i <= local[t].gen => windows[i].opened_at < local[t].now_ns

SightInv == /\ \A i \in 1 .. Len(windows) : windows[i].opened_at <= window_open_at
            /\ \A t \in Thread : SightOf(t)

\* The other calls that may open a window which was opened before t's call began.
\* No call joins them later.
Earlier(t) == {u \in Thread \ {t} : InLoop(u) /\ local[u].now_ns < local[t].now_ns}

\* A window that t's call must hit is open or being written.
Young(t) == \/ \E u \in Thread : Writing(u) /\ local[u].now_ns >= local[t].now_ns
            \/ \E i \in 1 .. Len(windows) : windows[i].opened_at >= local[t].now_ns

\* t holds a generation that was old news when it was replaced: it may miss, and
\* its compare_exchange then fails.
Doomed(t) == /\ InLoop(t) /\ pc[t] # "gen" /\ local[t].gen # window_gen
             /\ \A i \in 1 .. Len(windows) :
                  2 * i <= local[t].gen => windows[i].opened_at < local[t].now_ns

Retries(t) == lost[t] + IF Doomed(t) THEN 1 ELSE 0

\* Each call of Earlier(t) can make t lose once, and then the one that is Young.
RetryOf(t) ==
    /\ pc[t] \in {"idle", "done"} => lost[t] = 0
    /\ Retries(t) <= Cardinality(Thread)
    /\ InLoop(t) /\ ~Young(t) =>
         Retries(t) + Cardinality(Earlier(t)) + 1 <= Cardinality(Thread)

RetryInv == \A t \in Thread : RetryOf(t)

\* The types of all that the arguments below compare.
Comparable ==
    /\ pc \in [Thread -> Pc] /\ local \in [Thread -> Local]
    /\ \A t \in Thread : /\ local[t].now_ns \in Nat /\ local[t].gen \in Nat
                         /\ local[t].opened_at \in Nat
    /\ window_gen \in Nat /\ window_open_at \in Nat /\ clock \in Nat
    /\ windows \in Seq(WindowRecord) /\ Len(windows) \in Nat
    /\ \A i \in 1 .. Len(windows) : windows[i].opened_at \in Nat

LEMMA AllComparable == SccInv => Comparable
<1> SUFFICES ASSUME SccInv PROVE Comparable
  OBVIOUS
<1>1. /\ pc \in [Thread -> Pc] /\ local \in [Thread -> Local]
      /\ window_gen \in Nat /\ window_open_at \in Nat /\ clock \in Nat
  BY DEF SccInv, Types
<1>2. \A t \in Thread : /\ local[t].now_ns \in Nat /\ local[t].gen \in Nat
                        /\ local[t].opened_at \in Nat
  BY DEF SccInv, Types, Local
<1>3. windows \in Seq(WindowRecord) /\ Len(windows) \in Nat
  BY DEF SccInv, HistoryTypes
<1>4. ASSUME NEW i \in 1 .. Len(windows) PROVE windows[i].opened_at \in Nat
  <2>1. windows[i] \in WindowRecord
    BY <1>3
  <2> QED BY <2>1, WindowOfNaturals
<1> QED BY <1>1, <1>2, <1>3, <1>4 DEF Comparable

LEMMA InitSight == Init => SightInv
BY DEF Init, SightInv, SightOf, Writing, NoLocal

LEMMA NextSight == SccInv /\ SightInv /\ [Next]_vars => SightInv'
<1> SUFFICES ASSUME SccInv, SightInv, [Next]_vars PROVE SightInv'
  OBVIOUS
<1>0. Comparable
  BY AllComparable
<1>1. CASE UNCHANGED vars \/ Tick \/ AdvanceEpoch
  <2>1. UNCHANGED <<shared, pc, local, windows>> /\ clock' >= clock
    BY <1>0, <1>1 DEF vars, history, Tick, AdvanceEpoch, Comparable
  <2>2. clock' \in Nat
    BY <1>0, <1>1 DEF vars, Tick, AdvanceEpoch, Comparable
  <2> QED BY <1>0, <2>1, <2>2 DEF SightInv, SightOf, Writing, shared, Comparable
<1>2. ASSUME NEW t \in Thread, Call(t) \/ Step(t) \/ Release(t) PROVE SightInv'
  <2> DEFINE me == local[t]
  <2>1. CASE ~ (StoreOpened(t) \/ Publish(t))
    <3>1. /\ UNCHANGED <<windows, window_open_at, clock>>
          /\ \A u \in Thread : u # t => pc'[u] = pc[u] /\ local'[u] = local[u]
      BY <1>0, <1>2, <2>1
         DEF Comparable, Step, Call, Release, LoadGen, LoadTs, LoadOpened, LoadW, Hit, LoadEpoch,
             Cas, StoreW, StoreTs, Goto, Answer, shared, history
    <3>2. ASSUME NEW u \in Thread, u # t PROVE SightOf(u)'
      BY <3>1, <3>2 DEF SightInv, SightOf, Writing
    <3>3. ASSUME Call(t) PROVE SightOf(t)'
      <4>1. pc'[t] = "gen" /\ local'[t].now_ns = clock
        BY <1>0, <3>3 DEF Comparable, Call, Goto, Local
      <4> QED BY <1>0, <3>1, <4>1 DEF Comparable, SightOf, Writing
    <3>4. ASSUME LoadGen(t) \/ LoadTs(t) \/ Hit(t) \/ Release(t) PROVE SightOf(t)'
      <4>1. /\ pc'[t] \in {"ts", "opened", "done", "idle"}
            /\ local'[t].now_ns = me.now_ns \/ local'[t].now_ns = 0
        <5>1. CASE LoadGen(t) \/ LoadTs(t)
          BY <1>0, <5>1 DEF Comparable, LoadGen, LoadTs, Goto, Local
        <5>2. CASE Hit(t) \/ Release(t)
          BY <1>0, <5>2 DEF Comparable, Hit, Release, Goto, Answer, NoLocal
        <5> QED BY <3>4, <5>1, <5>2
      <4> QED BY <1>0, <3>1, <4>1 DEF Comparable, SightInv, SightOf, Writing
    <3>5. ASSUME LoadOpened(t) PROVE SightOf(t)'
      <4>1. /\ pc'[t] = "w" /\ local'[t].now_ns = me.now_ns
            /\ local'[t].opened_at = window_open_at
        BY <1>0, <3>5 DEF Comparable, LoadOpened, Goto
      <4> QED BY <3>1, <4>1 DEF SightInv, SightOf, Writing
    <3>6. ASSUME LoadW(t) PROVE SightOf(t)'
      <4>1. /\ pc[t] = "w" /\ pc'[t] \in {"hit", "epoch"} /\ local' = local
            /\ pc'[t] = "epoch" => ~IsOpen(me)
        BY <1>0, <3>6 DEF Comparable, LoadW, Goto
      <4>2. ASSUME pc'[t] = "epoch", NEW i \in 1 .. Len(windows), 2 * i <= me.gen
            PROVE  windows[i].opened_at < me.now_ns
        <5>1. me.gen # 0
          BY <4>2
        <5>2. windows[i].opened_at <= me.opened_at
          BY <4>1, <4>2 DEF SightInv, SightOf
        <5>3. adaptive_w_ns \in Nat \ {0}
          BY DEF SccInv, Types
        <5>4. me.opened_at < me.now_ns
          BY <1>0, <4>1, <4>2, <5>1, <5>3 DEF Comparable, IsOpen, saturating_sub
        <5> QED BY <1>0, <5>2, <5>4 DEF Comparable
      <4> QED BY <3>1, <4>1, <4>2 DEF SightInv, SightOf, Writing
    <3>7. ASSUME LoadEpoch(t) PROVE SightOf(t)'
      <4>1. /\ pc[t] = "epoch" /\ pc'[t] = "cas"
            /\ local'[t].now_ns = me.now_ns /\ local'[t].gen = me.gen
        BY <1>0, <3>7 DEF Comparable, LoadEpoch, Goto
      <4> QED BY <3>1, <4>1 DEF SightInv, SightOf, Writing
    <3>8. ASSUME Cas(t) PROVE SightOf(t)'
      <4>1. /\ pc[t] = "cas" /\ local' = local
            /\ pc'[t] = "gen" \/ (pc'[t] = "store_w" /\ window_gen = me.gen)
        BY <1>0, <3>8 DEF Comparable, Cas, Goto
      <4>2. ASSUME window_gen = me.gen, windows # <<>> PROVE window_open_at <= me.now_ns
        <5>1. me.gen % 2 = 0 /\ Over(t)
          BY <4>1, <4>2 DEF SccInv, GenInv, HasGen, WindowInv
        <5>2. Last = Published
          BY <4>2, <5>1 DEF SccInv, WindowInv
        <5>3. window_open_at + adaptive_w_ns <= me.now_ns
          BY <4>2, <5>1, <5>2 DEF Over, Published
        <5>4. adaptive_w_ns \in Nat
          BY DEF SccInv, Types
        <5> QED BY <1>0, <5>3, <5>4 DEF Comparable
      <4> QED BY <3>1, <4>1, <4>2 DEF SightInv, SightOf, Writing
    <3>9. ASSUME StoreW(t) \/ StoreTs(t) PROVE SightOf(t)'
      <4>1. Writing(t) /\ local' = local /\ pc'[t] \in {"store_ts", "store_opened"}
        BY <1>0, <3>9 DEF Comparable, StoreW, StoreTs, Goto, history, Writing
      <4> QED BY <3>1, <4>1 DEF SightInv, SightOf, Writing
    <3>10. SightOf(t)'
      BY <1>2, <2>1, <3>3, <3>4, <3>5, <3>6, <3>7, <3>8, <3>9 DEF Step
    <3> QED BY <3>1, <3>2, <3>10 DEF SightInv
  <2>2. CASE StoreOpened(t)
    <3>1. /\ UNCHANGED <<windows, local, clock>> /\ window_open_at' = me.now_ns
          /\ Writing(t) /\ pc' = [pc EXCEPT ![t] = "publish"]
      BY <2>2 DEF StoreOpened, Goto, history, Writing
    <3>2. windows # <<>> => window_open_at <= me.now_ns
      BY <3>1 DEF SightInv, SightOf
    <3>3. \A i \in 1 .. Len(windows) : windows # <<>>
      BY <1>0 DEF Comparable
    <3>4. \A i \in 1 .. Len(windows') : windows'[i].opened_at <= window_open_at'
      BY <1>0, <3>1, <3>2, <3>3 DEF SightInv, Comparable
    <3>5. \A u \in Thread : Writing(u) => u = t
      BY <3>1 DEF SccInv, GenInv, OneWriter
    <3>6. ASSUME NEW u \in Thread PROVE SightOf(u)'
      <4>1. CASE u = t
        BY <1>0, <3>1, <4>1 DEF SightInv, SightOf, Writing, Comparable
      <4>2. CASE u # t
        BY <1>0, <3>1, <3>5, <4>2 DEF SightInv, SightOf, Writing, Comparable
      <4> QED BY <4>1, <4>2
    <3> QED BY <3>4, <3>6 DEF SightInv
  <2>3. CASE Publish(t)
    <3>1. /\ UNCHANGED <<window_open_at, clock>> /\ pc' = [pc EXCEPT ![t] = "done"]
          /\ windows' = Append(windows, Published)
          /\ local'[t].now_ns = 0
          /\ \A u \in Thread : u # t => local'[u] = local[u]
          /\ Writing(t)
      BY <1>0, <2>3 DEF Comparable, Publish, Goto, Answer, NoLocal, Writing
    <3>2. Published \in WindowRecord
      BY DEF SccInv, Types, Published, WindowRecord
    <3>3. /\ Len(windows') = Len(windows) + 1
          /\ \A i \in 1 .. Len(windows) : windows'[i] = windows[i]
          /\ windows'[Len(windows) + 1].opened_at = window_open_at
      BY <1>0, <3>1, <3>2 DEF Comparable, Published
    <3>4. \A i \in 1 .. Len(windows') : windows'[i].opened_at <= window_open_at'
      BY <1>0, <3>1, <3>3 DEF SightInv, Comparable
    <3>5. \A u \in Thread : Writing(u) => u = t
      BY <3>1 DEF SccInv, GenInv, OneWriter
    <3>6. ASSUME NEW u \in Thread PROVE SightOf(u)'
      <4>1. CASE u = t
        BY <1>0, <3>1, <4>1 DEF SightOf, Writing, Comparable
      <4>2. CASE u # t
        <5>1. /\ pc'[u] = pc[u] /\ local'[u] = local[u] /\ SightOf(u) /\ ~Writing(u)'
          BY <1>0, <3>1, <3>5, <4>2 DEF SightInv, Comparable, Writing
        <5>2. HasGen(u) => ~ (2 * (Len(windows) + 1) <= local[u].gen)
          <6>1. HasGen(u) => local[u].gen <= window_gen
            BY DEF SccInv, GenInv
          <6>2. window_gen <= 2 * Len(windows) + 1
            BY <1>0 DEF SccInv, WindowInv, Comparable
          <6> QED BY <1>0, <6>1, <6>2 DEF Comparable
        <5>3. \A i \in 1 .. Len(windows') : i \in 1 .. Len(windows) \/ i = Len(windows) + 1
          BY <1>0, <3>3 DEF Comparable
        <5>4. pc[u] = "w" => \A i \in 1 .. Len(windows') :
                2 * i <= local[u].gen => windows'[i].opened_at <= local[u].opened_at
          BY <3>3, <5>1, <5>2, <5>3 DEF SightOf, HasGen
        <5>5. pc[u] \in {"epoch", "cas"} => \A i \in 1 .. Len(windows') :
                2 * i <= local[u].gen => windows'[i].opened_at < local[u].now_ns
          BY <3>3, <5>1, <5>2, <5>3 DEF SightOf, HasGen
        <5>6. local'[u].now_ns <= clock'
          BY <3>1, <5>1 DEF SightOf
        <5> QED BY <5>1, <5>4, <5>5, <5>6 DEF SightOf
      <4> QED BY <4>1, <4>2
    <3> QED BY <3>4, <3>6 DEF SightInv
  <2> QED BY <2>1, <2>2, <2>3
<1> QED BY <1>1, <1>2 DEF Next

\* The cardinality of Earlier(t) does not grow with fewer members, and falls when
\* one is taken away.
LEMMA EarlierCount ==
    ASSUME NEW t \in Thread
    PROVE  /\ Cardinality(Thread) \in Nat /\ Cardinality(Earlier(t)) \in Nat
           /\ Cardinality(Earlier(t)) + 1 <= Cardinality(Thread)
<1>1. /\ IsFiniteSet(Thread \ {t})
      /\ Cardinality(Thread \ {t}) = Cardinality(Thread) - 1 /\ Cardinality(Thread) \in Nat
  BY ThreadAssumption, FS_RemoveElement, FS_CardinalityType
<1>2. Earlier(t) \subseteq Thread \ {t}
  BY DEF Earlier
<1>3. Cardinality(Earlier(t)) <= Cardinality(Thread \ {t}) /\ Cardinality(Earlier(t)) \in Nat
  BY <1>1, <1>2, FS_Subset, FS_CardinalityType
<1> QED BY <1>1, <1>3

LEMMA EarlierSubset ==
    ASSUME NEW t \in Thread, NEW S, S \subseteq Earlier(t)
    PROVE  /\ Cardinality(S) \in Nat /\ Cardinality(S) <= Cardinality(Earlier(t))
           /\ \A u \in Earlier(t) \ S : Cardinality(S) + 1 <= Cardinality(Earlier(t))
<1>1. IsFiniteSet(Earlier(t))
  BY ThreadAssumption, FS_Subset DEF Earlier
<1>2. Cardinality(S) \in Nat /\ Cardinality(S) <= Cardinality(Earlier(t))
  BY <1>1, FS_Subset, FS_CardinalityType
<1>3. ASSUME NEW u \in Earlier(t) \ S
      PROVE  Cardinality(S) + 1 <= Cardinality(Earlier(t))
  <2>1. /\ IsFiniteSet(Earlier(t) \ {u}) /\ Cardinality(Earlier(t)) \in Nat
        /\ Cardinality(Earlier(t) \ {u}) = Cardinality(Earlier(t)) - 1
    BY <1>1, FS_RemoveElement, FS_CardinalityType
  <2>2. S \subseteq Earlier(t) \ {u}
    OBVIOUS
  <2>3. Cardinality(S) <= Cardinality(Earlier(t) \ {u})
    BY <2>1, <2>2, FS_Subset
  <2> QED BY <1>2, <2>1, <2>3
<1> QED BY <1>2, <1>3

\* A step that does not bring t closer to losing.
LEMMA RetryKept ==
    ASSUME NEW t \in Thread, RetryOf(t), lost \in [Thread -> Nat],
           Retries(t)' <= Retries(t),
           pc'[t] \notin {"idle", "done"},
           InLoop(t)' => InLoop(t) /\ (Young(t) => Young(t)') /\ Earlier(t)' \subseteq Earlier(t),
           Retries(t)' \in Nat
    PROVE  RetryOf(t)'
<1> DEFINE N == Cardinality(Thread)
<1>1. N \in Nat /\ Retries(t) \in Nat /\ Cardinality(Earlier(t)) \in Nat
  BY EarlierCount DEF Retries
<1>2. Retries(t)' <= N
  BY <1>1 DEF RetryOf
<1>3. ASSUME InLoop(t)', ~Young(t)'
      PROVE  Retries(t)' + Cardinality(Earlier(t)') + 1 <= N
  <2>1. Retries(t) + Cardinality(Earlier(t)) + 1 <= N
    BY <1>3 DEF RetryOf
  <2>2. Cardinality(Earlier(t)') \in Nat /\ Cardinality(Earlier(t)') <= Cardinality(Earlier(t))
    BY <1>3, EarlierSubset
  <2> HIDE DEF N
  <2> QED BY <1>1, <2>1, <2>2
<1> QED BY <1>2, <1>3 DEF RetryOf

LEMMA InitRetry == Init => RetryInv
<1> SUFFICES ASSUME Init, NEW t \in Thread PROVE RetryOf(t)
  BY DEF RetryInv
<1>1. pc[t] = "idle" /\ lost[t] = 0 /\ ~InLoop(t) /\ ~Doomed(t)
  BY DEF Init, InLoop, Doomed
<1> QED BY <1>1, EarlierCount DEF RetryOf, Retries

\* t's own steps.
LEMMA OwnRetry ==
    ASSUME SccInv, SightInv, NEW t \in Thread, RetryOf(t), Call(t) \/ Step(t) \/ Release(t)
    PROVE  RetryOf(t)'
<1>0. Comparable /\ lost \in [Thread -> Nat]
  BY AllComparable DEF SccInv, HistoryTypes
<1>1. Cardinality(Thread) \in Nat /\ lost[t] \in Nat /\ lost[t] <= Cardinality(Thread)
  BY <1>0, EarlierCount DEF RetryOf, Retries
<1>2. CASE Call(t)
  <2>1. /\ pc[t] = "idle" /\ pc'[t] = "gen" /\ lost' = lost
    BY <1>0, <1>2 DEF Call, Goto, Comparable
  <2>2. ~Doomed(t)' /\ lost'[t] = 0
    BY <2>1 DEF Doomed, RetryOf
  <2>3. Cardinality(Earlier(t)') + 1 <= Cardinality(Thread)
    <3>1. /\ IsFiniteSet(Thread \ {t})
          /\ Cardinality(Thread \ {t}) = Cardinality(Thread) - 1
      BY ThreadAssumption, FS_RemoveElement
    <3>2. Earlier(t)' \subseteq Thread \ {t}
      BY DEF Earlier
    <3>3. Cardinality(Earlier(t)') <= Cardinality(Thread \ {t}) /\ Cardinality(Earlier(t)') \in Nat
      BY <3>1, <3>2, FS_Subset, FS_CardinalityType
    <3> QED BY <1>1, <3>1, <3>3
  <2>4. Retries(t)' = 0
    BY <2>2 DEF Retries
  <2>5. pc'[t] \notin {"idle", "done"} /\ Cardinality(Earlier(t)') \in Nat
    <3>1. IsFiniteSet(Earlier(t)')
      BY ThreadAssumption, FS_Subset DEF Earlier
    <3> QED BY <2>1, <3>1, FS_CardinalityType
  <2> QED BY <1>1, <2>3, <2>4, <2>5 DEF RetryOf
<1>3. CASE LoadGen(t) \/ LoadTs(t) \/ LoadOpened(t) \/ LoadW(t) \/ LoadEpoch(t)
  <2>1. /\ UNCHANGED <<window_gen, windows, lost>> /\ InLoop(t)
        /\ pc'[t] \in {"ts", "opened", "w", "hit", "epoch", "cas"}
        /\ local'[t].now_ns = local[t].now_ns
        /\ \A u \in Thread : u # t => pc'[u] = pc[u] /\ local'[u] = local[u]
    <3>1. CASE LoadGen(t) \/ LoadTs(t) \/ LoadOpened(t) \/ LoadW(t)
      <4>1. UNCHANGED <<window_gen, windows, lost>>
        BY <3>1 DEF LoadGen, LoadTs, LoadOpened, LoadW, shared, history
      <4>2. /\ InLoop(t) /\ pc'[t] \in {"ts", "opened", "w", "hit", "epoch", "cas"}
            /\ \A u \in Thread : u # t => pc'[u] = pc[u]
        BY <1>0, <3>1 DEF LoadGen, LoadTs, LoadOpened, LoadW, Goto, InLoop, Comparable
      <4>3. /\ local'[t].now_ns = local[t].now_ns
            /\ \A u \in Thread : u # t => local'[u] = local[u]
        BY <1>0, <3>1 DEF LoadGen, LoadTs, LoadOpened, LoadW, Comparable, Local
      <4> QED BY <4>1, <4>2, <4>3
    <3>2. CASE LoadEpoch(t)
      BY <1>0, <3>2 DEF LoadEpoch, Goto, InLoop, shared, history, Comparable
    <3> QED BY <1>3, <3>1, <3>2
  <2>2. LoadGen(t) \/ (pc[t] # "gen" /\ local'[t].gen = local[t].gen)
    <3>1. CASE LoadGen(t) \/ LoadTs(t) \/ LoadOpened(t) \/ LoadW(t)
      BY <1>0, <3>1 DEF LoadTs, LoadOpened, LoadW, Goto, Comparable, Local
    <3>2. CASE LoadEpoch(t)
      BY <1>0, <3>2 DEF LoadEpoch, Goto, Comparable
    <3> QED BY <1>3, <3>1, <3>2
  <2>3. LoadGen(t) => local'[t].gen = window_gen
    BY <1>0 DEF LoadGen, Comparable
  <2>4. Doomed(t)' => Doomed(t)
    BY <2>1, <2>2, <2>3 DEF Doomed
  <2>5. Retries(t)' <= Retries(t) /\ Retries(t)' \in Nat
    BY <1>1, <2>1, <2>4 DEF Retries
  <2>6. \A u \in Thread : Writing(u) => u # t /\ Writing(u)'
    BY <2>1 DEF Writing, InLoop
  <2>7. Young(t) => Young(t)'
    BY <2>1, <2>6 DEF Young
  <2>8. Earlier(t)' \subseteq Earlier(t)
    BY <2>1 DEF Earlier, InLoop
  <2> QED BY <1>0, <2>1, <2>5, <2>7, <2>8, RetryKept
<1>4. CASE Cas(t) /\ window_gen # local[t].gen
  <2>1. /\ UNCHANGED <<window_gen, windows, local>> /\ lost'[t] = lost[t] + 1
        /\ pc[t] = "cas" /\ pc'[t] = "gen"
        /\ \A u \in Thread : u # t => pc'[u] = pc[u]
    BY <1>0, <1>4 DEF Cas, Goto, Comparable
  <2>2. Doomed(t) /\ ~Doomed(t)'
    BY <1>4, <2>1 DEF SightInv, SightOf, Doomed, InLoop
  <2>3. Retries(t)' <= Retries(t) /\ Retries(t)' \in Nat
    BY <1>1, <2>1, <2>2 DEF Retries
  <2>4. \A u \in Thread : Writing(u) => Writing(u)'
    BY <2>1 DEF Writing
  <2>5. Young(t) => Young(t)'
    BY <2>1, <2>4 DEF Young
  <2>6. Earlier(t)' \subseteq Earlier(t) /\ InLoop(t)
    BY <2>1 DEF Earlier, InLoop
  <2> QED BY <1>0, <2>1, <2>3, <2>5, <2>6, RetryKept
<1>5. CASE \/ Cas(t) /\ window_gen = local[t].gen
           \/ StoreW(t) \/ StoreTs(t) \/ StoreOpened(t)
  <2>1. /\ UNCHANGED lost
        /\ pc'[t] \in {"store_w", "store_ts", "store_opened", "publish"}
    BY <1>0, <1>5 DEF Cas, StoreW, StoreTs, StoreOpened, Goto, Comparable, history
  <2>2. ~InLoop(t)' /\ ~Doomed(t)'
    BY <2>1 DEF InLoop, Doomed
  <2>3. Retries(t)' = lost[t]
    BY <1>1, <2>1, <2>2 DEF Retries
  <2> QED BY <1>1, <2>1, <2>2, <2>3 DEF RetryOf
<1>6. CASE Hit(t) \/ Publish(t) \/ Release(t)
  <2>1. lost'[t] = 0 /\ pc'[t] \in {"done", "idle"}
    <3>1. CASE Hit(t) \/ Publish(t)
      BY <1>0, <3>1 DEF Hit, Publish, Goto, Answer, Comparable
    <3>2. CASE Release(t)
      BY <1>0, <3>2 DEF Release, Goto, history, Comparable, RetryOf
    <3> QED BY <1>6, <3>1, <3>2
  <2>2. ~InLoop(t)' /\ ~Doomed(t)'
    BY <2>1 DEF InLoop, Doomed
  <2>3. Retries(t)' = 0
    BY <2>1, <2>2 DEF Retries
  <2> QED BY <1>1, <2>1, <2>2, <2>3 DEF RetryOf
<1> QED BY <1>2, <1>3, <1>4, <1>5, <1>6 DEF Step

\* Another thread's step that neither claims nor publishes a window.
LEMMA OthersKeepRetry ==
    ASSUME SccInv, SightInv, NEW t \in Thread, NEW u \in Thread, u # t, RetryOf(t),
           Call(u) \/ Step(u) \/ Release(u), UNCHANGED <<window_gen, windows>>,
           pc'[t] \notin {"idle", "done"}
    PROVE  RetryOf(t)'
<1>0. Comparable /\ lost \in [Thread -> Nat]
  BY AllComparable DEF SccInv, HistoryTypes
<1>1. /\ pc'[t] = pc[t] /\ local'[t] = local[t] /\ lost'[t] = lost[t]
      /\ \A v \in Thread : v # u => pc'[v] = pc[v] /\ local'[v] = local[v]
  BY <1>0 DEF Step, Call, Release, LoadGen, LoadTs, LoadOpened, LoadW, Hit, LoadEpoch, Cas,
              StoreW, StoreTs, StoreOpened, Publish, Goto, Answer, history, Comparable
<1>2. ~ (Publish(u) \/ (Cas(u) /\ window_gen = local[u].gen))
  <2>0. window_gen' = window_gen /\ window_gen \in Nat
    BY <1>0 DEF Comparable
  <2>1. ASSUME Publish(u) PROVE FALSE
    <3>1. window_gen' = local[u].gen + 2 /\ window_gen = local[u].gen + 1
      BY <2>1 DEF Publish, Goto, SccInv, GenInv, Writing
    <3>2. local[u].gen \in Nat
      BY <1>0 DEF Comparable
    <3>3. local[u].gen + 2 = local[u].gen + 1
      BY <2>0, <3>1
    <3> QED BY <3>2, <3>3
  <2>2. ASSUME Cas(u), window_gen = local[u].gen PROVE FALSE
    <3>1. window_gen' = window_gen + 1
      BY <2>2 DEF Cas
    <3> QED BY <2>0, <3>1
  <2> QED BY <2>1, <2>2
<1>3. Writing(u) => Writing(u)' /\ local'[u].now_ns = local[u].now_ns
  <2>1. ASSUME Writing(u)
        PROVE  StoreW(u) \/ StoreTs(u) \/ StoreOpened(u)
    BY <1>2, <2>1 DEF Writing, Step, Call, Release, LoadGen, LoadTs, LoadOpened, LoadW, Hit,
                      LoadEpoch, Cas, Goto
  <2> QED BY <1>0, <2>1 DEF Writing, StoreW, StoreTs, StoreOpened, Goto, Comparable
<1>4. InLoop(u)' => \/ InLoop(u) /\ local'[u].now_ns = local[u].now_ns
                    \/ local'[u].now_ns = clock
  <2>1. CASE Call(u)
    BY <1>0, <2>1 DEF Call, Comparable, Local
  <2>2. CASE LoadGen(u) \/ LoadTs(u) \/ LoadOpened(u) \/ LoadW(u) \/ LoadEpoch(u) \/ Cas(u)
    <3>1. CASE LoadGen(u) \/ LoadTs(u) \/ LoadOpened(u) \/ LoadW(u) \/ Cas(u)
      BY <1>0, <3>1 DEF LoadGen, LoadTs, LoadOpened, LoadW, Cas, Goto, InLoop, Comparable, Local
    <3>2. CASE LoadEpoch(u)
      BY <1>0, <3>2 DEF LoadEpoch, Goto, InLoop, Comparable
    <3> QED BY <2>2, <3>1, <3>2
  <2>3. CASE Hit(u) \/ StoreW(u) \/ StoreTs(u) \/ StoreOpened(u) \/ Publish(u) \/ Release(u)
    BY <1>0, <2>3 DEF Hit, StoreW, StoreTs, StoreOpened, Publish, Release, Goto, InLoop,
                      Comparable
  <2> QED BY <2>1, <2>2, <2>3 DEF Step
<1>5. Earlier(t)' \subseteq Earlier(t)
  <2> SUFFICES ASSUME NEW v \in Thread \ {t}, InLoop(v)', local'[v].now_ns < local'[t].now_ns
               PROVE  InLoop(v) /\ local[v].now_ns < local[t].now_ns
    BY DEF Earlier
  <2>1. CASE v # u
    BY <1>1, <2>1 DEF InLoop
  <2>2. CASE v = u
    <3>1. local[t].now_ns <= clock
      BY DEF SightInv, SightOf
    <3> QED BY <1>0, <1>1, <1>4, <2>2, <3>1 DEF Comparable
  <2> QED BY <2>1, <2>2
<1>6. Doomed(t)' => Doomed(t)
  BY <1>1 DEF Doomed, InLoop
<1>7. Young(t) => Young(t)'
  <2>1. \A v \in Thread : Writing(v) => Writing(v)' /\ local'[v].now_ns = local[v].now_ns
    BY <1>1, <1>3 DEF Writing
  <2> QED BY <1>1, <2>1 DEF Young
<1>8. Retries(t)' <= Retries(t) /\ Retries(t)' \in Nat
  BY <1>0, <1>1, <1>6 DEF Retries
<1>9. InLoop(t)' => InLoop(t)
  BY <1>1 DEF InLoop
<1> QED BY <1>0, <1>5, <1>7, <1>8, <1>9, RetryKept

\* Another thread claims a window: a call of Earlier(t) less, or one that is Young.
LEMMA ClaimKeepsRetry ==
    ASSUME SccInv, NEW t \in Thread, NEW u \in Thread, u # t, RetryOf(t),
           Cas(u), window_gen = local[u].gen, InLoop(t)
    PROVE  RetryOf(t)'
<1> DEFINE N == Cardinality(Thread)
<1>0. Comparable /\ lost \in [Thread -> Nat]
  BY AllComparable DEF SccInv, HistoryTypes
<1>1. /\ pc[u] = "cas" /\ pc' = [pc EXCEPT ![u] = "store_w"]
      /\ UNCHANGED <<local, lost, windows>>
  BY <1>0, Cas(u), window_gen = local[u].gen DEF Cas, Goto
<1>2. window_gen % 2 = 0 /\ window_gen = 2 * Len(windows)
  <2>1. window_gen % 2 = 0
    BY <1>1 DEF SccInv, GenInv, HasGen
  <2>2. window_gen = 2 * Len(windows) \/ window_gen = 2 * Len(windows) + 1
    BY DEF SccInv, WindowInv
  <2> QED BY <1>0, <2>1, <2>2 DEF Comparable
<1>3. \A v \in Thread : ~Writing(v)
  <2>1. (\E v \in Thread : Writing(v)) <=> window_gen % 2 = 1
    BY DEF SccInv, GenInv, OneWriter
  <2> QED BY <1>2, <2>1
<1>4. /\ pc'[t] = pc[t] /\ local'[t] = local[t] /\ lost'[t] = lost[t] /\ InLoop(t)'
      /\ pc'[t] \notin {"idle", "done"}
  BY <1>0, <1>1 DEF Comparable, InLoop
<1>5. Retries(t) \in Nat /\ Retries(t)' \in Nat /\ Retries(t)' <= Retries(t) + 1
  BY <1>0, <1>4 DEF Retries
<1>6. N \in Nat /\ Cardinality(Earlier(t)) \in Nat
  BY EarlierCount
<1>7. CASE Young(t)
  <2>1. PICK i \in 1 .. Len(windows) : windows[i].opened_at >= local[t].now_ns
    BY <1>3, <1>7 DEF Young
  <2>2. Young(t)'
    BY <1>1, <2>1 DEF Young
  <2>3. ASSUME Doomed(t)' PROVE Doomed(t)
    <3>1. ~ (2 * i <= local[t].gen)
      BY <1>0, <1>1, <2>1, <2>3 DEF Doomed, Comparable
    <3>2. local[t].gen # window_gen
      BY <1>0, <1>2, <2>1, <3>1 DEF Comparable
    <3> QED BY <1>1, <1>4, <2>3, <3>2 DEF Doomed
  <2>4. Retries(t)' <= Retries(t)
    BY <1>0, <1>4, <2>3 DEF Retries
  <2>5. Retries(t) <= N
    BY DEF RetryOf
  <2>6. Retries(t)' <= N
    BY <1>5, <1>6, <2>4, <2>5
  <2> QED BY <1>4, <2>2, <2>6 DEF RetryOf
<1>8. CASE ~Young(t)
  <2>1. Retries(t) + Cardinality(Earlier(t)) + 1 <= N
    BY <1>8 DEF RetryOf
  <2>2. Retries(t)' <= N
    BY <1>5, <1>6, <2>1
  <2>3. ASSUME ~Young(t)'
        PROVE  Retries(t)' + Cardinality(Earlier(t)') + 1 <= N
    <3>1. Writing(u)' /\ ~InLoop(u)' /\ InLoop(u)
      BY <1>0, <1>1 DEF Writing, InLoop, Comparable
    <3>2. local[u].now_ns < local[t].now_ns
      BY <1>0, <1>1, <2>3, <3>1 DEF Young, Comparable
    <3>3. \A v \in Thread : v # u => pc'[v] = pc[v]
      BY <1>0, <1>1 DEF Comparable
    <3>4. u \in Earlier(t) \ Earlier(t)'
      BY <3>1, <3>2 DEF Earlier
    <3>5. Earlier(t)' \subseteq Earlier(t)
      BY <1>1, <3>1, <3>3 DEF Earlier, InLoop
    <3>6. /\ Cardinality(Earlier(t)') \in Nat
          /\ Cardinality(Earlier(t)') + 1 <= Cardinality(Earlier(t))
      BY <3>4, <3>5, EarlierSubset
    <3> HIDE DEF N
    <3> QED BY <1>5, <1>6, <2>1, <3>6
  <2> QED BY <1>4, <2>2, <2>3 DEF RetryOf
<1> QED BY <1>7, <1>8

\* Another thread publishes a window that t already knew to be Young, or not.
LEMMA PublishKeepsRetry ==
    ASSUME SccInv, NEW t \in Thread, NEW u \in Thread, u # t, RetryOf(t),
           Publish(u), InLoop(t)
    PROVE  RetryOf(t)'
<1>0. Comparable /\ lost \in [Thread -> Nat]
  BY AllComparable DEF SccInv, HistoryTypes
<1>1. /\ pc[u] = "publish" /\ pc' = [pc EXCEPT ![u] = "done"]
      /\ windows' = Append(windows, Published) /\ window_gen' = local[u].gen + 2
      /\ \A v \in Thread : v # u => local'[v] = local[v] /\ lost'[v] = lost[v]
  BY <1>0, Publish(u) DEF Publish, Goto, Answer, Comparable
<1>2. /\ window_gen = local[u].gen + 1 /\ window_open_at = local[u].now_ns
      /\ window_gen % 2 = 1 /\ \A v \in Thread : Writing(v) => v = u
  BY <1>1 DEF SccInv, GenInv, OneWriter, WindowInv, Writing
<1>3. Published \in WindowRecord
  BY DEF SccInv, Types, Published, WindowRecord
<1>4. /\ Len(windows') = Len(windows) + 1
      /\ \A i \in 1 .. Len(windows) : windows'[i] = windows[i]
      /\ windows'[Len(windows) + 1].opened_at = window_open_at
  BY <1>0, <1>1, <1>3 DEF Comparable, Published
<1>5. /\ pc'[t] = pc[t] /\ local'[t] = local[t] /\ lost'[t] = lost[t] /\ InLoop(t)'
      /\ pc'[t] \notin {"idle", "done"}
  BY <1>0, <1>1 DEF Comparable, InLoop
<1>6. \A i \in 1 .. Len(windows) : i \in 1 .. Len(windows')
  BY <1>0, <1>4 DEF Comparable
<1>7. Doomed(t)' => Doomed(t)
  <2>1. InLoop(t) /\ pc[t] # "gen" => local[t].gen # window_gen
    <3>1. InLoop(t) /\ pc[t] # "gen" => HasGen(t)
      BY DEF InLoop, HasGen
    <3>2. HasGen(t) => local[t].gen % 2 = 0
      BY DEF SccInv, GenInv
    <3> QED BY <1>2, <3>1, <3>2
  <2> QED BY <1>4, <1>5, <1>6, <2>1 DEF Doomed
<1>8. Young(t) => Young(t)'
  <2>1. CASE \E i \in 1 .. Len(windows) : windows[i].opened_at >= local[t].now_ns
    BY <1>4, <1>5, <1>6, <2>1 DEF Young
  <2>2. CASE \E v \in Thread : Writing(v) /\ local[v].now_ns >= local[t].now_ns
    <3>1. local[u].now_ns >= local[t].now_ns
      BY <1>2, <2>2
    <3>2. Len(windows) + 1 \in 1 .. Len(windows')
      BY <1>0, <1>4 DEF Comparable
    <3>3. windows'[Len(windows) + 1].opened_at >= local'[t].now_ns
      BY <1>2, <1>4, <1>5, <3>1
    <3> QED BY <3>2, <3>3 DEF Young
  <2> QED BY <2>1, <2>2 DEF Young
<1>9. Retries(t)' <= Retries(t) /\ Retries(t)' \in Nat
  BY <1>0, <1>5, <1>7 DEF Retries
<1>10. Earlier(t)' \subseteq Earlier(t)
  <2>1. ~InLoop(u)' /\ \A v \in Thread : v # u => pc'[v] = pc[v]
    BY <1>0, <1>1 DEF Comparable, InLoop
  <2> QED BY <1>1, <1>5, <2>1 DEF Earlier, InLoop
<1> QED BY <1>0, <1>5, <1>8, <1>9, <1>10, RetryKept

LEMMA NextRetry == SccInv /\ SightInv /\ RetryInv /\ [Next]_vars => RetryInv'
<1> SUFFICES ASSUME SccInv, SightInv, RetryInv, [Next]_vars, NEW t \in Thread
             PROVE  RetryOf(t)'
  BY DEF RetryInv
<1>0. Comparable /\ lost \in [Thread -> Nat] /\ RetryOf(t)
  BY AllComparable DEF SccInv, HistoryTypes, RetryInv
<1>1. CASE UNCHANGED vars \/ Tick \/ AdvanceEpoch
  <2>1. UNCHANGED <<window_gen, pc, local, windows, lost>>
    BY <1>1 DEF vars, shared, history, Tick, AdvanceEpoch
  <2>2. /\ Earlier(t)' = Earlier(t) /\ Young(t)' = Young(t) /\ Retries(t)' = Retries(t)
        /\ InLoop(t)' = InLoop(t)
    BY <2>1 DEF Earlier, Young, Retries, Doomed, InLoop, Writing
  <2> QED BY <1>0, <2>1, <2>2 DEF RetryOf
<1>2. CASE Call(t) \/ Step(t) \/ Release(t)
  BY <1>0, <1>2, OwnRetry
<1>3. ASSUME NEW u \in Thread, u # t, Call(u) \/ Step(u) \/ Release(u) PROVE RetryOf(t)'
  <2>1. pc'[t] = pc[t] /\ lost'[t] = lost[t]
    BY <1>0, <1>3
       DEF Step, Call, Release, LoadGen, LoadTs, LoadOpened, LoadW, Hit, LoadEpoch, Cas, StoreW,
           StoreTs, StoreOpened, Publish, Goto, Answer, history, Comparable
  <2>2. CASE pc[t] \in {"idle", "done"} \/ ~InLoop(t)
    <3>1. ~InLoop(t) /\ ~InLoop(t)' /\ ~Doomed(t) /\ ~Doomed(t)'
      BY <2>1, <2>2 DEF InLoop, Doomed
    <3>2. Retries(t)' = Retries(t)
      BY <2>1, <3>1 DEF Retries
    <3> QED BY <1>0, <2>1, <3>1, <3>2 DEF RetryOf
  <2>3. CASE InLoop(t) /\ Publish(u)
    BY <1>0, <1>3, <2>3, PublishKeepsRetry
  <2>4. CASE InLoop(t) /\ Cas(u) /\ window_gen = local[u].gen
    BY <1>0, <1>3, <2>4, ClaimKeepsRetry
  <2>5. CASE /\ InLoop(t) /\ ~Publish(u) /\ ~(Cas(u) /\ window_gen = local[u].gen)
    <3>1. UNCHANGED <<window_gen, windows>>
      BY <1>3, <2>5
         DEF Step, Call, Release, LoadGen, LoadTs, LoadOpened, LoadW, Hit, LoadEpoch, Cas, StoreW,
             StoreTs, StoreOpened, shared, history
    <3>2. pc'[t] \notin {"idle", "done"}
      BY <2>1, <2>5 DEF InLoop
    <3> QED BY <1>0, <1>3, <3>1, <3>2, OthersKeepRetry
  <2> QED BY <2>2, <2>3, <2>4, <2>5
<1> QED BY <1>1, <1>2, <1>3 DEF Next

\* However long the clock runs, however often windows are opened meanwhile and
\* whatever their lengths: a call loses the compare_exchange at most as often as
\* there are threads.
THEOREM FewLost == Spec => []FewRetries
<1>1. SccInv /\ RetryInv => FewRetries
  <2> SUFFICES ASSUME SccInv, RetryInv, NEW t \in Thread PROVE lost[t] <= Cardinality(Thread)
    BY DEF FewRetries
  <2>1. Retries(t) <= Cardinality(Thread) /\ Cardinality(Thread) \in Nat
    BY EarlierCount DEF RetryInv, RetryOf
  <2>2. lost[t] \in Nat
    BY DEF SccInv, HistoryTypes
  <2> QED BY <2>1, <2>2 DEF Retries
<1> QED BY <1>1, InitSight, NextSight, InitRetry, NextRetry, Safe, PTL DEF Spec

---------------------------------------------------------------------------
(* Refinement: Scc keeps the promise of SnapshotClock *)

\* The threads in a call and the snapshots held, as SnapshotClock sees them.
Calling == {t \in Thread : pc[t] \notin {"idle", "done"}}
Snap == [t \in Thread |-> IF pc[t] = "done" THEN local[t].ts ELSE 0]

LEMMA InitRefines == Init => Clock!Init
BY DEF Init, Clock!Init, NoLocal

\* An access inside a call that leaves the caller in it, and the epoch, the
\* answers and the other threads as they are, is invisible.
LEMMA Invisible ==
    ASSUME NEW t \in Thread, Types, pc[t] \notin {"idle", "done"},
           NEW to \in Pc \ {"idle", "done"}, pc' = [pc EXCEPT ![t] = to],
           \A u \in Thread : u # t => local'[u] = local[u],
           UNCHANGED <<global_epoch, answered, floor>>
    PROVE  UNCHANGED Clock!vars
<1>1. Calling' = Calling
  BY DEF Calling, Types
<1>2. Snap' = Snap
  BY DEF Snap, Types
<1> QED BY <1>1, <1>2 DEF Clock!vars, Calling, Snap

\* A return of v from a call is an answer, when v is old enough and new enough.
LEMMA Answers ==
    ASSUME NEW t \in Thread, NEW v \in 1 .. MaxEpoch, Types,
           pc[t] \notin {"idle", "done"}, pc' = [pc EXCEPT ![t] = "done"],
           Answer(t, v), v >= floor[t], v <= global_epoch, global_epoch' = global_epoch
    PROVE  Clock!Next
<1>1. Calling' = Calling \ {t} /\ t \in Calling
  BY DEF Calling, Types
<1>2. Snap' = [Snap EXCEPT ![t] = v]
  BY DEF Snap, Types, Answer, NoLocal
<1>3. Clock!Answer(t, v)
  BY <1>1, <1>2 DEF Clock!Answer, Calling, Snap, Answer
<1> QED BY <1>3 DEF Clock!Next

LEMMA NextRefines == SccInv /\ [Next]_vars => [Clock!Next]_(Clock!vars)
<1> SUFFICES ASSUME SccInv, [Next]_vars PROVE [Clock!Next]_(Clock!vars)
  OBVIOUS
<1>0. Types
  BY DEF SccInv
<1>1. CASE UNCHANGED vars \/ Tick
  BY <1>1 DEF vars, history, Tick, Clock!vars
<1>2. CASE AdvanceEpoch
  BY <1>2 DEF AdvanceEpoch, history, Clock!Advance, Clock!Next
<1>3. ASSUME NEW t \in Thread, Call(t) \/ Step(t) \/ Release(t)
      PROVE  [Clock!Next]_(Clock!vars)
  <2>1. CASE Call(t)
    <3>1. /\ pc[t] = "idle" /\ pc' = [pc EXCEPT ![t] = "gen"]
          /\ \A u \in Thread : local'[u].ts = local[u].ts
      BY <1>0, <2>1 DEF Call, Goto, Types, Local
    <3>2. Calling' = Calling \cup {t} /\ t \notin Calling
      BY <1>0, <3>1 DEF Calling, Types
    <3>3. Snap' = Snap /\ Snap[t] = 0
      BY <1>0, <3>1 DEF Snap, Types
    <3>4. Clock!Call(t)
      BY <2>1, <3>2, <3>3 DEF Call, Clock!Call, Calling, Snap
    <3> QED BY <3>4 DEF Clock!Next
  <2>2. CASE LoadGen(t) \/ LoadTs(t) \/ LoadOpened(t) \/ LoadW(t) \/ LoadEpoch(t) \/ Cas(t)
             \/ StoreW(t) \/ StoreTs(t) \/ StoreOpened(t)
    <3>1. PICK to \in Pc \ {"idle", "done"} : pc' = [pc EXCEPT ![t] = to]
      BY <2>2 DEF Pc, Goto, LoadGen, LoadTs, LoadOpened, LoadW, LoadEpoch, Cas, StoreW, StoreTs,
                  StoreOpened
    <3>2. /\ pc[t] \notin {"idle", "done"}
          /\ \A u \in Thread : u # t => local'[u] = local[u]
          /\ UNCHANGED <<global_epoch, answered, floor>>
      BY <1>0, <2>2 DEF Types, Goto, LoadGen, LoadTs, LoadOpened, LoadW, LoadEpoch, Cas, StoreW,
                        StoreTs, StoreOpened, history
    <3> QED BY <1>0, <3>1, <3>2, Invisible
  <2>3. CASE Hit(t)
    <3>1. /\ pc[t] = "hit" /\ pc' = [pc EXCEPT ![t] = "done"] /\ Answer(t, local[t].ts)
          /\ global_epoch' = global_epoch
      BY <2>3 DEF Hit, Goto
    <3>2. /\ local[t].ts \in 1 .. MaxEpoch /\ local[t].ts >= floor[t]
          /\ local[t].ts <= global_epoch
      BY <3>1 DEF SccInv, Types, Local, ReaderInv, ClockInv
    <3> QED BY <1>0, <3>1, <3>2, Answers
  <2>4. CASE Publish(t)
    <3>1. /\ pc[t] = "publish" /\ pc' = [pc EXCEPT ![t] = "done"] /\ Answer(t, local[t].new_ts)
          /\ global_epoch' = global_epoch
      BY <2>4 DEF Publish, Goto
    <3>2. /\ local[t].new_ts \in 1 .. MaxEpoch /\ local[t].new_ts >= floor[t]
          /\ local[t].new_ts <= global_epoch
      BY <3>1 DEF SccInv, Types, Local, OpenerInv, Writing
    <3> QED BY <1>0, <3>1, <3>2, Answers
  <2>5. CASE Release(t)
    <3>1. /\ pc[t] = "done" /\ pc' = [pc EXCEPT ![t] = "idle"]
          /\ \A u \in Thread : u # t => local'[u] = local[u]
      BY <1>0, <2>5 DEF Release, Goto, Types
    <3>2. Calling' = Calling
      BY <1>0, <3>1 DEF Calling, Types
    <3>3. Snap' = [Snap EXCEPT ![t] = 0] /\ Snap[t] # 0
      BY <1>0, <3>1 DEF Snap, Types, SccInv, ReaderInv
    <3>4. Clock!Release(t)
      BY <2>5, <3>2, <3>3 DEF Release, history, Clock!Release, Calling, Snap
    <3> QED BY <3>4 DEF Clock!Next
  <2> QED BY <1>3, <2>1, <2>2, <2>3, <2>4, <2>5 DEF Step
<1> QED BY <1>1, <1>2, <1>3 DEF Next

\* Every behaviour of take_snapshot is one of SnapshotClock: no call answers with
\* 0, with an epoch from the future, or with less than was answered before it began.
THEOREM Refines == Spec => KeepsContract
<1>1. SccInv /\ [Next]_vars => [Clock!Next]_(Clock!vars)
  BY NextRefines
<1> QED BY <1>1, InitRefines, Safe, PTL DEF Spec, KeepsContract, Clock!Spec
=============================================================================
