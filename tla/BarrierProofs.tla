--------------------------- MODULE BarrierProofs ---------------------------
(***************************************************************************)
(* Theorems about Barrier, for any finite set of threads, any count and    *)
(* any threshold: no thread touches the barrier after its destruction, in  *)
(* and out count the threads between them, and threads are freed by whole  *)
(* rounds.  The barrier is not destroyed exactly at the threshold (see     *)
(* DestroyAtThreshold).                                                    *)
(***************************************************************************)
EXTENDS Barrier, FiniteSetTheorems, TLAPS

-----------------------------------------------------------------------------
(* Labels, and the threads at them. *)

\* With a position and not yet counted in out.
InsideLabels ==
  {"load_round", "complete", "wake_round", "round_wait", "asleep_round", "reload_round", "leave"}

ResetLabels == {"reset_round", "reset_out", "reset_in"}

\* Entered beyond the threshold.
LateLabels == {"reset_wait", "asleep_reset", "load_in"}

AwaitLabels == {"destroy_wait", "asleep_destroy", "destroy_reload"}

DestroyLabels == AwaitLabels \cup {"destroy_add"}

Labels ==
  InsideLabels \cup ResetLabels \cup LateLabels \cup DestroyLabels \cup {"idle", "restart", "wake_in"}

At(p, L) == {t \in Threads : p[t] \in L}

LEMMA AtType ==
  ASSUME NEW p, NEW L
  PROVE  IsFiniteSet(At(p, L)) /\ Cardinality(At(p, L)) \in Nat
BY BarrierAssumption, FS_Subset, FS_CardinalityType DEF At

\* A thread that moves from one label to another.
Moves(p, q, t, l) == q = [p EXCEPT ![t] = l]

LEMMA MovesIn ==
  ASSUME NEW p \in [Threads -> Labels], NEW q, NEW t \in Threads, NEW l \in Labels, Moves(p, q, t, l),
         NEW L, p[t] \notin L, l \in L
  PROVE  /\ At(q, L) = At(p, L) \cup {t} /\ t \notin At(p, L)
         /\ Cardinality(At(q, L)) = Cardinality(At(p, L)) + 1
<1>1. At(q, L) = At(p, L) \cup {t} /\ t \notin At(p, L)
  BY DEF At, Moves
<1>2. QED BY <1>1, AtType, FS_AddElement

LEMMA MovesOut ==
  ASSUME NEW p \in [Threads -> Labels], NEW q, NEW t \in Threads, NEW l \in Labels, Moves(p, q, t, l),
         NEW L, p[t] \in L, l \notin L
  PROVE  /\ At(q, L) = At(p, L) \ {t} /\ t \in At(p, L)
         /\ Cardinality(At(q, L)) = Cardinality(At(p, L)) - 1
<1>1. At(q, L) = At(p, L) \ {t} /\ t \in At(p, L)
  BY DEF At, Moves
<1>2. QED BY <1>1, AtType, FS_RemoveElement

LEMMA MovesWithin ==
  ASSUME NEW p \in [Threads -> Labels], NEW q, NEW t \in Threads, NEW l \in Labels, Moves(p, q, t, l),
         NEW L, p[t] \in L <=> l \in L
  PROVE  At(q, L) = At(p, L)
BY DEF At, Moves

-----------------------------------------------------------------------------
(* Arithmetic. *)

LEMMA Modulo ==
  ASSUME NEW n \in Nat
  PROVE  /\ n % count \in 0 .. count - 1 /\ n % count <= n
         /\ n % count = count - 1 => (n + 1) % count = 0
         /\ n % count # count - 1 => (n + 1) % count = (n % count) + 1
<1>1. count \in Nat \ {0}
  BY BarrierAssumption
<1>2. n % count \in 0 .. count - 1 /\ n % count <= n
  BY <1>1
<1>3. PICK q \in Nat : n = count * q + (n % count)
  <2>1. n = count * (n \div count) + (n % count) /\ n \div count \in Nat
    BY <1>1
  <2>2. QED BY <2>1
<1>4. ASSUME NEW k \in Nat, NEW r \in 0 .. count - 1
      PROVE  (count * k + r) % count = r
  BY <1>1
<1>5. n % count = count - 1 => (n + 1) % count = 0
  <2>1. SUFFICES ASSUME n % count = count - 1 PROVE (n + 1) % count = 0
    OBVIOUS
  <2>2. n + 1 = count * (q + 1) + 0 /\ 0 \in 0 .. count - 1
    BY <1>1, <1>3, <2>1
  <2>3. QED BY <1>4, <2>2
<1>6. n % count # count - 1 => (n + 1) % count = (n % count) + 1
  <2>1. SUFFICES ASSUME n % count # count - 1 PROVE (n + 1) % count = (n % count) + 1
    OBVIOUS
  <2>2. n + 1 = count * q + ((n % count) + 1) /\ (n % count) + 1 \in 0 .. count - 1
    BY <1>1, <1>2, <1>3, <2>1
  <2>3. QED BY <1>4, <2>2
<1>7. QED BY <1>2, <1>5, <1>6

\* The end of the last complete round up to position n.
Boundary(n) == n - (n % count)

LEMMA BoundaryGrows ==
  ASSUME NEW m \in Nat, NEW n \in Nat, m <= n
  PROVE  Boundary(m) <= Boundary(n)
BY BarrierAssumption DEF Boundary

LEMMA BoundaryExact ==
  ASSUME NEW n \in Nat
  PROVE  Boundary(n) \in Nat /\ Boundary(n) <= n /\ Boundary(n) % count = 0
BY BarrierAssumption DEF Boundary

\* Inside a round that is not complete no position ends one.
LEMMA InsideRound ==
  ASSUME NEW m \in Nat, NEW n \in Nat, Boundary(n) < m, m <= n
  PROVE  m % count # 0
BY BarrierAssumption DEF Boundary

LEMMA Threshold ==
  /\ max_in_before_reset \in Nat \ {0}
  /\ max_in_before_reset % count = 0
<1>1. BARRIER_IN_THRESHOLD \in Nat /\ count \in 1 .. BARRIER_IN_THRESHOLD - 1
  BY BarrierAssumption
<1>2. max_in_before_reset = Boundary(BARRIER_IN_THRESHOLD)
  BY DEF Boundary, max_in_before_reset
<1>3. BARRIER_IN_THRESHOLD % count < count
  BY <1>1, Modulo
<1>4. max_in_before_reset # 0
  BY <1>1, <1>3 DEF max_in_before_reset
<1>5. QED BY <1>1, <1>2, <1>4, BoundaryExact

-----------------------------------------------------------------------------
(* The counters. *)

Typed ==
  /\ in \in Nat /\ out \in Nat /\ current_round \in Nat
  /\ pc \in [Threads -> Labels]
  /\ i \in [Threads -> Nat]
  /\ cr \in [Threads -> Nat]
  /\ stage \in {"used", "destroying", "destroyed"}

\* Whoever has taken in beyond the threshold is still there, so that a barrier that is
\* being destroyed, where nobody is blocked, has not been entered beyond it.
LateOnes == in <= max_in_before_reset + Cardinality(At(pc, LateLabels))

\* One thread resets, behind all others, and in is the last field it resets.
ResetsAlone ==
  \A t \in At(pc, ResetLabels) :
    /\ At(pc, ResetLabels) = {t} /\ At(pc, InsideLabels) = {} /\ in > 0
    /\ pc[t] # "reset_round" => current_round = 0
    /\ pc[t] = "reset_in" => out = 0

\* What out lacks to the positions taken are the threads inside.
WhenUsed ==
  stage = "used" =>
    /\ At(pc, DestroyLabels) = {}
    /\ At(pc, ResetLabels) # {} => in >= max_in_before_reset
    /\ At(pc, ResetLabels) = {} =>
         Entered = out + Cardinality(At(pc, InsideLabels)) /\ out < max_in_before_reset

\* pthread_barrier_destroy adds the positions that will not be taken; then what out
\* lacks to the threshold are the threads inside, and a reset comes behind the last.
WhenDestroying ==
  stage = "destroying" =>
    /\ \A s, t \in At(pc, DestroyLabels) : s = t
    /\ At(pc, LateLabels \cup {"restart"}) = {}
    /\ in < max_in_before_reset
    /\ \A t \in At(pc, {"destroy_add"}) :
         i[t] = in /\ in = out + Cardinality(At(pc, InsideLabels)) /\ At(pc, ResetLabels) = {}
    /\ (At(pc, {"destroy_add"}) = {} /\ At(pc, ResetLabels) = {}) =>
         IF in = 0 THEN At(pc, InsideLabels) = {}
                   ELSE /\ At(pc, InsideLabels) # {}
                        /\ out + Cardinality(At(pc, InsideLabels)) = max_in_before_reset

CountInv == Typed /\ LateOnes /\ ResetsAlone /\ WhenUsed /\ WhenDestroying /\ NoUseAfterDestruction

LEMMA InitCount == Init => CountInv
<1> SUFFICES ASSUME Init PROVE CountInv
  OBVIOUS
<1>1. Typed
  BY DEF Init, Typed, Labels
<1>2. \A L : "idle" \notin L => At(pc, L) = {}
  BY DEF Init, At
<1>3. /\ At(pc, LateLabels) = {} /\ At(pc, InsideLabels) = {}
      /\ At(pc, ResetLabels) = {} /\ At(pc, DestroyLabels) = {}
  BY <1>2 DEF LateLabels, InsideLabels, ResetLabels, DestroyLabels, AwaitLabels
<1>4. Cardinality({}) = 0
  BY FS_EmptySet
<1>5. in = 0 /\ out = 0 /\ Entered = 0
  BY Threshold DEF Init, Entered
<1>6. LateOnes
  BY <1>3, <1>4, <1>5, Threshold DEF LateOnes
<1>7. ResetsAlone /\ WhenUsed
  BY <1>3, <1>4, <1>5, Threshold DEF ResetsAlone, WhenUsed
<1>8. QED BY <1>1, <1>6, <1>7 DEF CountInv, Init, WhenDestroying, NoUseAfterDestruction

\* The groups of labels that the invariant tells apart.
Groups ==
  {InsideLabels, ResetLabels, LateLabels, DestroyLabels, {"destroy_add"}, LateLabels \cup {"restart"}}

\* A step that keeps the threads in their groups and leaves the counters alone.
LEMMA Quiet ==
  ASSUME CountInv, Typed', UNCHANGED <<in, out, stage>>,
         \A L \in Groups : At(pc', L) = At(pc, L),
         \A s \in At(pc, {"destroy_add"}) : i'[s] = i[s],
         \/ UNCHANGED current_round /\ \A s \in At(pc, ResetLabels) : pc'[s] = pc[s]
         \/ At(pc, ResetLabels) = {},
         stage # "destroyed"
  PROVE  CountInv'
<1>1. /\ At(pc', InsideLabels) = At(pc, InsideLabels) /\ At(pc', ResetLabels) = At(pc, ResetLabels)
      /\ At(pc', LateLabels) = At(pc, LateLabels) /\ At(pc', DestroyLabels) = At(pc, DestroyLabels)
      /\ At(pc', {"destroy_add"}) = At(pc, {"destroy_add"})
      /\ At(pc', LateLabels \cup {"restart"}) = At(pc, LateLabels \cup {"restart"})
  BY DEF Groups
<1>2. LateOnes'
  BY <1>1 DEF CountInv, LateOnes
<1>3. ResetsAlone'
  BY <1>1 DEF CountInv, ResetsAlone
<1>4. WhenUsed'
  BY <1>1 DEF CountInv, WhenUsed, Entered
<1>5. WhenDestroying'
  BY <1>1 DEF CountInv, WhenDestroying
<1>6. QED BY <1>2, <1>3, <1>4, <1>5 DEF CountInv, NoUseAfterDestruction

\* Where a thread is tells the stage.
LEMMA Stage ==
  ASSUME CountInv, NEW t \in Threads
  PROVE  /\ pc[t] \notin {"idle", "wake_in"} => stage \in {"used", "destroying"}
         /\ pc[t] \in DestroyLabels => stage = "destroying"
         /\ pc[t] \in LateLabels \cup {"restart"} => stage = "used"
         /\ pc[t] \in InsideLabels => At(pc, ResetLabels) = {}
<1>1. pc[t] \notin {"idle", "wake_in"} => stage \in {"used", "destroying"}
  BY DEF CountInv, Typed, NoUseAfterDestruction
<1>2. \A L : pc[t] \in L => At(pc, L) # {}
  BY DEF At
<1>3. /\ pc[t] \in DestroyLabels => pc[t] \notin {"idle", "wake_in"}
      /\ pc[t] \in LateLabels \cup {"restart"} => pc[t] \notin {"idle", "wake_in"}
  BY DEF DestroyLabels, AwaitLabels, LateLabels
<1>4. QED BY <1>1, <1>2, <1>3 DEF CountInv, WhenUsed, WhenDestroying, ResetsAlone

LEMMA CountTyped ==
  ASSUME CountInv, [Next]_vars
  PROVE  Typed'
<1>0. Typed
  BY DEF CountInv
<1> USE DEF Typed
<1>1. CASE UNCHANGED vars \/ Reinit
  BY <1>0, <1>1 DEF vars, fields, Reinit
<1>2. ASSUME NEW t \in Threads, Enter(t) \/ ResetWait(t) \/ LoadIn(t) \/ RoundWait(t)
      PROVE  Typed'
  BY <1>0, <1>2 DEF Enter, ResetWait, LoadIn, RoundWait, Goto, fields, Labels, LateLabels, InsideLabels
<1>3. ASSUME NEW t \in Threads, LoadRound(t) \/ Complete(t) \/ ReloadRound(t)
      PROVE  Typed'
  <2>1. i[t] - (i[t] % count) \in Nat
    BY <1>0, BoundaryExact DEF Boundary
  <2>2. QED BY <1>0, <1>3, <2>1 DEF LoadRound, Complete, ReloadRound, Consider, Goto, fields, Labels, InsideLabels
<1>4. ASSUME NEW t \in Threads, WakeRound(t) \/ WakeIn(t)
      PROVE  Typed'
  BY <1>0, <1>4 DEF WakeRound, WakeIn, WakeAll, fields, Labels, LateLabels, InsideLabels, DestroyLabels, AwaitLabels
<1>5. ASSUME NEW t \in Threads, LeaveBarrier(t) \/ ResetRound(t) \/ ResetOut(t) \/ ResetIn(t)
      PROVE  Typed'
  BY <1>0, <1>5 DEF LeaveBarrier, ResetRound, ResetOut, ResetIn, Leave, Goto, Labels, ResetLabels
<1>6. ASSUME NEW t \in Threads, DestroyAdd(t)
      PROVE  Typed'
  <2>1. pc[t] \in DestroyLabels /\ t \in At(pc, {"destroy_add"})
    BY <1>6 DEF DestroyAdd, DestroyLabels, At
  <2>2. i[t] = in /\ in < max_in_before_reset
    BY <2>1, Stage DEF CountInv, WhenDestroying
  <2>3. out + (max_in_before_reset - i[t]) \in Nat
    BY <1>0, <2>2, Threshold
  <2>4. QED BY <1>0, <1>6, <2>3 DEF DestroyAdd, Leave, Goto, Labels, DestroyLabels, AwaitLabels
<1>7. ASSUME NEW t \in Threads, Destroy(t) \/ DestroyWait(t) \/ DestroyReload(t) \/ SpuriousWake(t)
      PROVE  Typed'
  BY <1>0, <1>7 DEF Destroy, DestroyWait, DestroyReload, SpuriousWake, Leave, Goto, fields, Labels,
                    DestroyLabels, AwaitLabels, LateLabels, InsideLabels
<1>8. QED BY <1>1, <1>2, <1>3, <1>4, <1>5, <1>6, <1>7 DEF Next, Step

\* One thread goes on within its group.
LEMMA QuietGo ==
  ASSUME CountInv, Typed', NEW t \in Threads, NEW l \in Labels, Goto(t, l),
         pc[t] \in InsideLabels \cup LateLabels \cup AwaitLabels,
         \A L \in Groups : pc[t] \in L <=> l \in L,
         UNCHANGED <<in, out, stage>>,
         \A s \in Threads \ {t} : i'[s] = i[s],
         UNCHANGED current_round \/ pc[t] \in InsideLabels
  PROVE  CountInv'
<1>1. pc \in [Threads -> Labels] /\ Moves(pc, pc', t, l)
  BY DEF CountInv, Typed, Goto, Moves
<1>2. \A L \in Groups : At(pc', L) = At(pc, L)
  BY <1>1, MovesWithin
<1>3. t \notin At(pc, {"destroy_add"}) /\ t \notin At(pc, ResetLabels) /\ pc[t] \notin {"idle", "wake_in"}
  BY DEF At, ResetLabels, InsideLabels, LateLabels, AwaitLabels
<1>4. \A s \in At(pc, {"destroy_add"}) : i'[s] = i[s]
  BY <1>3 DEF At
<1>5. \A s \in At(pc, ResetLabels) : pc'[s] = pc[s]
  BY <1>1, <1>3 DEF At, Moves
<1>6. stage # "destroyed"
  BY <1>3, Stage
<1>7. UNCHANGED current_round \/ At(pc, ResetLabels) = {}
  BY Stage
<1>8. QED BY <1>2, <1>4, <1>5, <1>6, <1>7, Quiet

LEMMA QuietSteps ==
  ASSUME CountInv, Typed', NEW t \in Threads,
         \/ ResetWait(t) \/ LoadRound(t) \/ Complete(t) \/ RoundWait(t) \/ ReloadRound(t)
         \/ DestroyWait(t) \/ SpuriousWake(t)
  PROVE  CountInv'
<1>0. i' = i /\ UNCHANGED <<in, out, stage>>
  BY DEF ResetWait, LoadRound, Complete, RoundWait, ReloadRound, DestroyWait, SpuriousWake, fields
<1>1. ASSUME NEW l, Goto(t, l), UNCHANGED current_round \/ pc[t] \in InsideLabels,
             \/ pc[t] \in InsideLabels /\ l \in InsideLabels
             \/ pc[t] \in LateLabels /\ l \in LateLabels
             \/ pc[t] \in AwaitLabels /\ l \in AwaitLabels
      PROVE  CountInv'
  <2>1. l \in Labels /\ pc[t] \in InsideLabels \cup LateLabels \cup AwaitLabels
    BY <1>1 DEF Labels, DestroyLabels
  <2>2. \A L \in Groups : pc[t] \in L <=> l \in L
    BY <1>1 DEF Groups, InsideLabels, ResetLabels, LateLabels, DestroyLabels, AwaitLabels
  <2>3. QED BY <1>0, <1>1, <2>1, <2>2, QuietGo
<1>2. CASE ResetWait(t) \/ DestroyWait(t) \/ SpuriousWake(t) \/ RoundWait(t)
  <2>1. UNCHANGED current_round
    BY <1>2 DEF ResetWait, DestroyWait, SpuriousWake, RoundWait, fields
  <2>2. \E l : /\ Goto(t, l)
               /\ \/ pc[t] \in InsideLabels /\ l \in InsideLabels
                  \/ pc[t] \in LateLabels /\ l \in LateLabels
                  \/ pc[t] \in AwaitLabels /\ l \in AwaitLabels
    BY <1>2 DEF ResetWait, DestroyWait, SpuriousWake, RoundWait, InsideLabels, LateLabels, AwaitLabels
  <2>3. QED BY <1>1, <2>1, <2>2
<1>3. CASE LoadRound(t) \/ Complete(t) \/ ReloadRound(t)
  <2>1. pc[t] \in InsideLabels
    BY <1>3 DEF LoadRound, Complete, ReloadRound, InsideLabels
  <2>2. \E l \in InsideLabels : Goto(t, l)
    BY <1>3 DEF LoadRound, Complete, ReloadRound, Consider, InsideLabels
  <2>3. QED BY <1>1, <2>1, <2>2
<1>4. QED BY <1>2, <1>3

\* A wake-up moves sleepers and the thread that wakes, all within their groups.
LEMMA WakeSteps ==
  ASSUME CountInv, Typed', NEW t \in Threads, WakeRound(t) \/ WakeIn(t)
  PROVE  CountInv'
<1>1. UNCHANGED <<in, out, stage, current_round>> /\ pc \in [Threads -> Labels]
  BY DEF WakeRound, WakeIn, fields, CountInv, Typed
<1>2. ASSUME NEW s \in Threads
      PROVE  /\ pc'[s] # pc[s] =>
                  /\ pc[s] \notin ResetLabels /\ pc[s] \notin {"idle", "destroy_add"}
                  /\ \/ pc[s] \in InsideLabels /\ pc'[s] \in InsideLabels
                     \/ pc[s] \in LateLabels /\ pc'[s] \in LateLabels
                     \/ pc[s] \in AwaitLabels /\ pc'[s] \in AwaitLabels
                     \/ pc[s] = "wake_in" /\ pc'[s] = "idle"
             /\ i'[s] # i[s] => s = t /\ pc[t] = "wake_in"
  BY <1>1 DEF WakeRound, WakeIn, WakeAll, CountInv, Typed, InsideLabels, LateLabels, AwaitLabels, ResetLabels
<1>3. ASSUME NEW L \in Groups
      PROVE  At(pc', L) = At(pc, L)
  <2>1. ASSUME NEW s \in Threads
        PROVE  pc'[s] \in L <=> pc[s] \in L
    BY <1>2, <2>1 DEF Groups, InsideLabels, ResetLabels, LateLabels, DestroyLabels, AwaitLabels
  <2>2. QED BY <2>1 DEF At
<1>4. CASE stage # "destroyed"
  <2>1. \A s \in At(pc, {"destroy_add"}) : i'[s] = i[s]
    BY <1>2 DEF At
  <2>2. \A s \in At(pc, ResetLabels) : pc'[s] = pc[s]
    BY <1>2 DEF At
  <2>3. QED BY <1>1, <1>3, <1>4, <2>1, <2>2, Quiet
<1>5. CASE stage = "destroyed"
  <2>1. \A s \in Threads : pc'[s] \in {"idle", "wake_in"}
    BY <1>2, <1>5 DEF CountInv, NoUseAfterDestruction, InsideLabels, LateLabels, AwaitLabels
  <2>2. \A L : L \cap {"idle", "wake_in"} = {} => At(pc', L) = {}
    BY <2>1 DEF At
  <2>3. At(pc', ResetLabels) = {} /\ At(pc', LateLabels) = At(pc, LateLabels)
    BY <1>3, <2>2 DEF ResetLabels, Groups
  <2>4. ResetsAlone' /\ LateOnes' /\ NoUseAfterDestruction'
    BY <1>1, <2>1, <2>3 DEF ResetsAlone, CountInv, LateOnes, NoUseAfterDestruction
  <2>5. QED BY <1>1, <1>5, <2>4 DEF CountInv, WhenUsed, WhenDestroying
<1>6. QED BY <1>4, <1>5

LEMMA EnterStep ==
  ASSUME CountInv, Typed', NEW t \in Threads, Enter(t)
  PROVE  CountInv'
<1>1. stage = "used" /\ stage' = "used" /\ pc[t] \in {"idle", "restart"}
      /\ in' = in + 1 /\ out' = out /\ current_round' = current_round
  BY Stage DEF Enter
<1>2. /\ pc \in [Threads -> Labels] /\ in \in Nat /\ out \in Nat
      /\ max_in_before_reset \in Nat /\ Cardinality(At(pc, LateLabels)) \in Nat
  BY Threshold, AtType DEF CountInv, Typed
<1>3. PICK l : /\ Goto(t, l)
              /\ IF in + 1 > max_in_before_reset THEN l = "reset_wait" ELSE l = "load_round"
  BY DEF Enter
<1>4. l \in Labels /\ Moves(pc, pc', t, l)
  BY <1>3 DEF Goto, Moves, Labels, LateLabels, InsideLabels
<1>5. /\ At(pc', ResetLabels) = At(pc, ResetLabels) /\ At(pc', DestroyLabels) = At(pc, DestroyLabels)
      /\ \A s \in At(pc, ResetLabels) : pc'[s] = pc[s]
  <2>1. pc[t] \notin ResetLabels /\ l \notin ResetLabels /\ pc[t] \notin DestroyLabels /\ l \notin DestroyLabels
    BY <1>1, <1>3 DEF ResetLabels, DestroyLabels, AwaitLabels
  <2>2. QED BY <1>2, <1>4, <2>1, MovesWithin DEF At, Moves
<1>6. WhenDestroying' /\ NoUseAfterDestruction'
  BY <1>1 DEF WhenDestroying, NoUseAfterDestruction
<1>7. CASE in + 1 > max_in_before_reset
  <2>1. pc[t] \notin LateLabels /\ l \in LateLabels /\ pc[t] \notin InsideLabels /\ l \notin InsideLabels
    BY <1>1, <1>3, <1>7 DEF LateLabels, InsideLabels
  <2>2. /\ Cardinality(At(pc', LateLabels)) = Cardinality(At(pc, LateLabels)) + 1
        /\ At(pc', InsideLabels) = At(pc, InsideLabels)
    BY <1>2, <1>4, <2>1, MovesIn, MovesWithin
  <2>3. LateOnes'
    BY <1>1, <1>2, <2>2 DEF CountInv, LateOnes
  <2>4. Entered' = Entered
    BY <1>1, <1>2, <1>7 DEF Entered
  <2>5. WhenUsed'
    BY <1>1, <1>2, <1>5, <2>2, <2>4 DEF CountInv, WhenUsed
  <2>6. ResetsAlone'
    BY <1>1, <1>2, <1>5, <2>2 DEF CountInv, ResetsAlone
  <2>7. QED BY <1>6, <2>3, <2>5, <2>6 DEF CountInv
<1>8. CASE ~(in + 1 > max_in_before_reset)
  <2>1. pc[t] \notin LateLabels /\ l \notin LateLabels /\ pc[t] \notin InsideLabels /\ l \in InsideLabels
    BY <1>1, <1>3, <1>8 DEF LateLabels, InsideLabels
  <2>2. /\ Cardinality(At(pc', InsideLabels)) = Cardinality(At(pc, InsideLabels)) + 1
        /\ At(pc', LateLabels) = At(pc, LateLabels)
    BY <1>2, <1>4, <2>1, MovesIn, MovesWithin
  <2>3. At(pc, ResetLabels) = {}
    BY <1>1, <1>2, <1>8 DEF CountInv, WhenUsed
  <2>4. LateOnes'
    BY <1>1, <1>2, <1>8, <2>2 DEF LateOnes
  <2>5. Entered = in /\ Entered' = in + 1
    BY <1>1, <1>2, <1>8 DEF Entered
  <2>6. Cardinality(At(pc, InsideLabels)) \in Nat
    BY AtType
  <2>7. WhenUsed'
    BY <1>1, <1>2, <1>5, <2>2, <2>3, <2>5, <2>6 DEF CountInv, WhenUsed
  <2>8. ResetsAlone'
    BY <1>5, <2>3 DEF ResetsAlone
  <2>9. QED BY <1>6, <2>4, <2>7, <2>8 DEF CountInv
<1>9. QED BY <1>7, <1>8

LEMMA LoadInStep ==
  ASSUME CountInv, Typed', NEW t \in Threads, LoadIn(t)
  PROVE  CountInv'
<1>1. /\ pc[t] = "load_in" /\ UNCHANGED <<in, out, current_round, stage>>
      /\ \A s \in Threads \ {t} : i'[s] = i[s]
  BY DEF LoadIn, fields, CountInv, Typed
<1>2. CASE in > max_in_before_reset
  <2>1. Goto(t, "reset_wait") /\ "reset_wait" \in Labels /\ pc[t] \in LateLabels
    BY <1>1, <1>2 DEF LoadIn, Labels, LateLabels
  <2>2. \A L \in Groups : pc[t] \in L <=> "reset_wait" \in L
    BY <1>1 DEF Groups, InsideLabels, ResetLabels, LateLabels, DestroyLabels, AwaitLabels
  <2>3. QED BY <1>1, <2>1, <2>2, QuietGo
<1>3. CASE ~(in > max_in_before_reset)
  <2>1. pc \in [Threads -> Labels] /\ Moves(pc, pc', t, "restart") /\ "restart" \in Labels
    BY <1>3 DEF LoadIn, Goto, Moves, Labels, CountInv, Typed
  <2>2. stage = "used"
    BY <1>1, Stage DEF LateLabels
  <2>3. /\ At(pc', InsideLabels) = At(pc, InsideLabels) /\ At(pc', ResetLabels) = At(pc, ResetLabels)
        /\ At(pc', DestroyLabels) = At(pc, DestroyLabels)
        /\ \A s \in At(pc, ResetLabels) : pc'[s] = pc[s]
    <3>1. /\ pc[t] \notin InsideLabels /\ "restart" \notin InsideLabels
          /\ pc[t] \notin ResetLabels /\ "restart" \notin ResetLabels
          /\ pc[t] \notin DestroyLabels /\ "restart" \notin DestroyLabels
      BY <1>1 DEF InsideLabels, ResetLabels, DestroyLabels, AwaitLabels
    <3>2. QED BY <2>1, <3>1, MovesWithin DEF At, Moves
  <2>4. LateOnes'
    BY <1>1, <1>3, AtType, Threshold DEF LateOnes, CountInv, Typed
  <2>5. ResetsAlone' /\ WhenUsed'
    BY <1>1, <2>3 DEF CountInv, ResetsAlone, WhenUsed, Entered
  <2>6. QED BY <1>1, <2>2, <2>4, <2>5 DEF CountInv, WhenDestroying, NoUseAfterDestruction
<1>4. QED BY <1>2, <1>3

\* The last thread of a barrier that is to be reset leaves it empty.
LEMMA LeaveStep ==
  ASSUME CountInv, Typed', NEW t \in Threads, LeaveBarrier(t)
  PROVE  CountInv'
<1> DEFINE N == Cardinality(At(pc, InsideLabels))
<1>1. /\ pc[t] = "leave" /\ pc \in [Threads -> Labels] /\ in \in Nat /\ out \in Nat
      /\ out' = out + 1 /\ UNCHANGED <<in, current_round, stage>>
      /\ \A s \in Threads \ {t} : i'[s] = i[s]
  BY DEF LeaveBarrier, Leave, CountInv, Typed
<1>2. /\ pc[t] \in InsideLabels /\ pc[t] \notin ResetLabels /\ pc[t] \notin LateLabels
      /\ pc[t] \notin LateLabels \cup {"restart"} /\ pc[t] \notin DestroyLabels
      /\ pc[t] \notin {"destroy_add"} /\ pc[t] \notin {"idle", "wake_in"}
  BY <1>1 DEF InsideLabels, ResetLabels, LateLabels, DestroyLabels, AwaitLabels
<1>3. At(pc, ResetLabels) = {} /\ stage \in {"used", "destroying"}
  BY <1>2, Stage
<1>4. t \in At(pc, InsideLabels) /\ t \notin At(pc, {"destroy_add"})
  BY <1>2 DEF At
<1>5. max_in_before_reset \in Nat \ {0} /\ N \in Nat
  BY Threshold, AtType
<1>6. PICK l \in {"reset_round", "idle"} :
        Moves(pc, pc', t, l) /\ (l = "reset_round" <=> out + 1 = max_in_before_reset)
  BY DEF LeaveBarrier, Leave, Goto, Moves
<1>7. /\ l \in Labels /\ l \notin InsideLabels /\ l \notin LateLabels /\ l \notin LateLabels \cup {"restart"}
      /\ l \notin DestroyLabels /\ l \notin {"destroy_add"}
      /\ l = "reset_round" <=> l \in ResetLabels
  BY DEF Labels, InsideLabels, ResetLabels, LateLabels, DestroyLabels, AwaitLabels
<1>8. /\ At(pc', InsideLabels) = At(pc, InsideLabels) \ {t}
      /\ Cardinality(At(pc', InsideLabels)) = N - 1
  BY <1>1, <1>2, <1>6, <1>7, MovesOut
<1>9. /\ At(pc', LateLabels) = At(pc, LateLabels)
      /\ At(pc', LateLabels \cup {"restart"}) = At(pc, LateLabels \cup {"restart"})
      /\ At(pc', DestroyLabels) = At(pc, DestroyLabels)
      /\ At(pc', {"destroy_add"}) = At(pc, {"destroy_add"})
  BY <1>1, <1>2, <1>6, <1>7, MovesWithin
<1>10. LateOnes' /\ NoUseAfterDestruction'
  BY <1>1, <1>3, <1>9 DEF CountInv, LateOnes, NoUseAfterDestruction
<1>11. /\ stage = "used" => Entered = out + N /\ out < max_in_before_reset /\ At(pc, DestroyLabels) = {}
       /\ Entered <= max_in_before_reset /\ Entered <= in /\ Entered \in Nat
  BY <1>1, <1>3, <1>5 DEF CountInv, WhenUsed, Entered
<1>12. stage = "destroying" =>
         /\ in < max_in_before_reset /\ in # 0
         /\ \/ in = out + N
            \/ At(pc, {"destroy_add"}) = {} /\ out + N = max_in_before_reset
  <2>1. SUFFICES ASSUME stage = "destroying"
                 PROVE  /\ in < max_in_before_reset /\ in # 0
                        /\ \/ in = out + N
                           \/ At(pc, {"destroy_add"}) = {} /\ out + N = max_in_before_reset
    OBVIOUS
  <2>2. N # 0
    BY <1>4, AtType, FS_EmptySet
  <2>3. CASE At(pc, {"destroy_add"}) = {}
    BY <1>3, <1>4, <2>1, <2>3 DEF CountInv, WhenDestroying
  <2>4. CASE At(pc, {"destroy_add"}) # {}
    BY <1>1, <1>5, <2>1, <2>2, <2>4 DEF CountInv, WhenDestroying
  <2>5. QED BY <2>3, <2>4
<1> HIDE DEF N
<1>13. Entered' = Entered
  BY <1>1 DEF Entered
<1>14. CASE l = "reset_round"
  <2>1. /\ At(pc', ResetLabels) = {t} /\ pc'[t] = "reset_round"
    <3>1. At(pc', ResetLabels) = At(pc, ResetLabels) \cup {t}
      BY <1>1, <1>2, <1>6, <1>7, <1>14, MovesIn
    <3>2. pc'[t] = "reset_round"
      BY <1>1, <1>6, <1>14 DEF Moves
    <3>3. QED BY <1>3, <3>1, <3>2
  <2>2. N >= 1
    BY <1>4, <1>5, AtType, FS_EmptySet DEF N
  <2>3. N = 1 /\ in > 0 /\ (stage = "destroying" => At(pc, {"destroy_add"}) = {})
        /\ (stage = "used" => in >= max_in_before_reset)
    BY <1>1, <1>3, <1>5, <1>6, <1>11, <1>12, <1>14, <2>2
  <2>4. At(pc', InsideLabels) = {}
    BY <1>8, <2>3, AtType, FS_EmptySet
  <2>5. ResetsAlone'
    BY <1>1, <2>1, <2>3, <2>4 DEF ResetsAlone
  <2>6. WhenUsed'
    BY <1>1, <1>9, <1>11, <2>1, <2>3 DEF WhenUsed
  <2>7. WhenDestroying'
    BY <1>1, <1>9, <2>1, <2>3 DEF CountInv, WhenDestroying
  <2>8. QED BY <1>10, <2>5, <2>6, <2>7 DEF CountInv
<1>15. CASE l = "idle"
  <2>1. At(pc', ResetLabels) = {}
    BY <1>1, <1>2, <1>3, <1>6, <1>7, <1>15, MovesWithin
  <2>2. WhenUsed'
    BY <1>1, <1>5, <1>6, <1>8, <1>9, <1>11, <1>13, <1>15, <2>1 DEF WhenUsed
  <2>3. stage = "destroying" /\ At(pc, {"destroy_add"}) = {} =>
          out + N = max_in_before_reset /\ N # 1 /\ in # 0
    BY <1>1, <1>3, <1>4, <1>5, <1>6, <1>12, <1>15 DEF CountInv, WhenDestroying, N
  <2>4. stage = "destroying" /\ At(pc, {"destroy_add"}) = {} => At(pc', InsideLabels) # {}
    BY <1>5, <1>8, <2>3, FS_EmptySet
  <2>5. stage = "destroying" =>
          \A s \in At(pc, {"destroy_add"}) : i'[s] = in /\ in = out + N
    BY <1>1, <1>4 DEF CountInv, WhenDestroying, N, At
  <2>6. WhenDestroying'
    <3>1. out' + Cardinality(At(pc', InsideLabels)) = out + N
      BY <1>1, <1>5, <1>8
    <3>2. QED
      BY <1>1, <1>9, <2>1, <2>3, <2>4, <2>5, <3>1 DEF CountInv, WhenDestroying
  <2>7. ResetsAlone'
    BY <2>1 DEF ResetsAlone
  <2>8. QED BY <1>10, <2>2, <2>6, <2>7 DEF CountInv
<1>16. QED BY <1>14, <1>15

\* A reset thread is alone with late threads and pthread_barrier_destroy.
LEMMA ResetSteps ==
  ASSUME CountInv, Typed', NEW t \in Threads, ResetRound(t) \/ ResetOut(t) \/ ResetIn(t)
  PROVE  CountInv'
<1>1. pc[t] \in ResetLabels /\ pc \in [Threads -> Labels] /\ i' = i /\ stage' = stage /\ in \in Nat
  BY DEF ResetRound, ResetOut, ResetIn, ResetLabels, CountInv, Typed
<1>2. /\ pc[t] \notin InsideLabels /\ pc[t] \notin LateLabels /\ pc[t] \notin LateLabels \cup {"restart"}
      /\ pc[t] \notin DestroyLabels /\ pc[t] \notin {"destroy_add"} /\ pc[t] \notin {"idle", "wake_in"}
  BY <1>1 DEF InsideLabels, ResetLabels, LateLabels, DestroyLabels, AwaitLabels
<1>3. At(pc, ResetLabels) = {t} /\ At(pc, InsideLabels) = {} /\ in > 0
  BY <1>1 DEF CountInv, ResetsAlone, At
<1>4. PICK l \in {"reset_out", "reset_in", "wake_in"} :
        Moves(pc, pc', t, l) /\ (l = "wake_in" <=> ResetIn(t))
  BY DEF ResetRound, ResetOut, ResetIn, Goto, Moves
<1>5. /\ l \in Labels /\ l \notin InsideLabels /\ l \notin LateLabels /\ l \notin LateLabels \cup {"restart"}
      /\ l \notin DestroyLabels /\ l \notin {"destroy_add"}
      /\ l # "wake_in" <=> l \in ResetLabels
  BY DEF Labels, InsideLabels, ResetLabels, LateLabels, DestroyLabels, AwaitLabels
<1>6. /\ At(pc', InsideLabels) = {} /\ At(pc', LateLabels) = At(pc, LateLabels)
      /\ At(pc', LateLabels \cup {"restart"}) = At(pc, LateLabels \cup {"restart"})
      /\ At(pc', DestroyLabels) = At(pc, DestroyLabels)
      /\ At(pc', {"destroy_add"}) = At(pc, {"destroy_add"})
  BY <1>1, <1>2, <1>3, <1>4, <1>5, MovesWithin
<1>7. stage \in {"used", "destroying"} /\ (stage = "destroying" => At(pc, {"destroy_add"}) = {})
  BY <1>2, <1>3, Stage DEF CountInv, WhenDestroying
<1>8. NoUseAfterDestruction'
  BY <1>1, <1>7 DEF NoUseAfterDestruction
<1>9. CASE l # "wake_in"
  <2>1. At(pc', ResetLabels) = {t} /\ pc'[t] = l /\ in' = in
    <3>1. At(pc', ResetLabels) = At(pc, ResetLabels)
      BY <1>1, <1>4, <1>5, <1>9, MovesWithin
    <3>2. pc'[t] = l
      BY <1>1, <1>4 DEF Moves
    <3>3. in' = in
      BY <1>4, <1>9 DEF ResetRound, ResetOut
    <3>4. QED BY <1>3, <3>1, <3>2, <3>3
  <2>2. /\ pc'[t] # "reset_round" => current_round' = 0
        /\ pc'[t] = "reset_in" => out' = 0
    <3>1. CASE ResetRound(t)
      BY <3>1, <1>1 DEF ResetRound, Goto
    <3>2. CASE ResetOut(t)
      BY <3>2, <1>1, <1>3 DEF ResetOut, Goto, CountInv, ResetsAlone
    <3>3. QED BY <1>4, <1>9, <3>1, <3>2
  <2>3. ResetsAlone'
    BY <1>3, <1>6, <2>1, <2>2 DEF ResetsAlone
  <2>4. LateOnes' /\ WhenUsed' /\ WhenDestroying'
    BY <1>1, <1>3, <1>6, <1>7, <2>1 DEF CountInv, LateOnes, WhenUsed, WhenDestroying
  <2>5. QED BY <1>8, <2>3, <2>4 DEF CountInv
<1>10. CASE l = "wake_in"
  <2>1. pc[t] = "reset_in" /\ in' = 0 /\ out' = out
    BY <1>4, <1>10 DEF ResetIn
  <2>2. At(pc', ResetLabels) = {}
    <3>1. At(pc', ResetLabels) = At(pc, ResetLabels) \ {t}
      BY <1>1, <1>4, <1>5, <1>10, MovesOut
    <3>2. QED BY <1>3, <3>1
  <2>3. out = 0
    BY <1>3, <2>1 DEF CountInv, ResetsAlone
  <2>4. LateOnes'
    BY <1>6, <2>1, AtType, Threshold DEF LateOnes
  <2>5. Cardinality({}) = 0 /\ Entered' = 0
    BY <2>1, FS_EmptySet, Threshold DEF Entered
  <2>6. WhenUsed'
    BY <1>1, <1>6, <2>1, <2>2, <2>3, <2>5, Threshold DEF CountInv, WhenUsed
  <2>7. WhenDestroying'
    <3>1. 0 < max_in_before_reset
      BY Threshold
    <3>2. QED BY <1>1, <1>6, <1>7, <2>1, <2>2, <3>1 DEF CountInv, WhenDestroying
  <2>8. ResetsAlone'
    BY <2>2 DEF ResetsAlone
  <2>9. QED BY <1>8, <2>4, <2>6, <2>7, <2>8 DEF CountInv
<1>11. QED BY <1>9, <1>10

LEMMA DestroyStep ==
  ASSUME CountInv, Typed', ~DestroyAtThreshold, NEW t \in Threads, Destroy(t)
  PROVE  CountInv'
<1>1. /\ pc[t] = "idle" /\ stage = "used" /\ stage' = "destroying" /\ UNCHANGED <<in, out, current_round>>
      /\ pc \in [Threads -> Labels] /\ in \in Nat /\ in # max_in_before_reset
      /\ Moves(pc, pc', t, "destroy_add") /\ i'[t] = in
  BY DEF Destroy, MayDestroy, Goto, Moves, fields, CountInv, Typed
<1>2. At(pc, LateLabels \cup {"restart"}) = {} /\ At(pc, LateLabels) = {}
  BY DEF Destroy, MayDestroy, At, LateLabels
<1>3. in < max_in_before_reset
  <2>1. Cardinality(At(pc, LateLabels)) = 0
    BY <1>2, FS_EmptySet
  <2>2. QED BY <1>1, <2>1, Threshold DEF CountInv, LateOnes
<1>4. Entered = in /\ At(pc, ResetLabels) = {} /\ At(pc, DestroyLabels) = {}
      /\ in = out + Cardinality(At(pc, InsideLabels))
  BY <1>1, <1>3, Threshold DEF Entered, CountInv, WhenUsed
<1>5. /\ pc[t] \notin InsideLabels /\ pc[t] \notin LateLabels /\ pc[t] \notin LateLabels \cup {"restart"}
      /\ pc[t] \notin ResetLabels /\ pc[t] \notin DestroyLabels /\ pc[t] \notin {"destroy_add"}
      /\ "destroy_add" \notin InsideLabels /\ "destroy_add" \notin LateLabels
      /\ "destroy_add" \notin LateLabels \cup {"restart"} /\ "destroy_add" \notin ResetLabels
      /\ "destroy_add" \in DestroyLabels /\ "destroy_add" \in Labels
  BY <1>1 DEF InsideLabels, ResetLabels, LateLabels, DestroyLabels, AwaitLabels, Labels
<1>6. /\ At(pc', InsideLabels) = At(pc, InsideLabels) /\ At(pc', LateLabels) = At(pc, LateLabels)
      /\ At(pc', LateLabels \cup {"restart"}) = {} /\ At(pc', ResetLabels) = {}
  <2>1. /\ At(pc', InsideLabels) = At(pc, InsideLabels) /\ At(pc', LateLabels) = At(pc, LateLabels)
        /\ At(pc', LateLabels \cup {"restart"}) = At(pc, LateLabels \cup {"restart"})
        /\ At(pc', ResetLabels) = At(pc, ResetLabels)
    BY <1>1, <1>5, MovesWithin
  <2>2. QED BY <1>2, <1>4, <2>1
<1>7. At(pc', DestroyLabels) = {t} /\ At(pc', {"destroy_add"}) = {t}
  <2>1. At(pc', DestroyLabels) = At(pc, DestroyLabels) \cup {t}
    BY <1>1, <1>5, MovesIn
  <2>2. At(pc', {"destroy_add"}) \subseteq At(pc', DestroyLabels) /\ t \in At(pc', {"destroy_add"})
    BY <1>1 DEF At, DestroyLabels, Moves
  <2>3. QED BY <1>4, <2>1, <2>2
<1>8. LateOnes' /\ ResetsAlone' /\ WhenUsed' /\ NoUseAfterDestruction'
  BY <1>1, <1>6 DEF CountInv, LateOnes, ResetsAlone, WhenUsed, NoUseAfterDestruction
<1>9. WhenDestroying'
  BY <1>1, <1>3, <1>4, <1>6, <1>7 DEF WhenDestroying
<1>10. QED BY <1>8, <1>9 DEF CountInv

\* pthread_barrier_destroy returns when nobody is inside and nobody resets.
LEMMA DestroyedStep ==
  ASSUME CountInv, Typed', NEW t \in Threads, pc[t] \in DestroyLabels, Goto(t, "idle"),
         stage' = "destroyed", UNCHANGED in, At(pc, InsideLabels) = {}, At(pc, ResetLabels) = {}
  PROVE  CountInv'
<1>1. stage = "destroying" /\ pc \in [Threads -> Labels] /\ Moves(pc, pc', t, "idle")
  BY Stage DEF CountInv, Typed, Goto, Moves
<1>2. ASSUME NEW s \in Threads
      PROVE  pc'[s] \in {"idle", "wake_in"}
  <2>1. CASE s = t
    BY <1>1, <2>1 DEF Moves
  <2>2. CASE s # t
    <3>1. /\ s \notin At(pc, InsideLabels) /\ s \notin At(pc, ResetLabels)
          /\ s \notin At(pc, LateLabels \cup {"restart"}) /\ s \notin At(pc, DestroyLabels)
      BY <1>1, <2>2 DEF CountInv, WhenDestroying, At
    <3>2. QED BY <1>1, <2>2, <3>1 DEF At, Labels, Moves
  <2>3. QED BY <2>1, <2>2
<1>3. \A L : L \cap {"idle", "wake_in"} = {} => At(pc', L) = {}
  BY <1>2 DEF At
<1>4. At(pc', ResetLabels) = {} /\ At(pc', LateLabels) = {}
  BY <1>3 DEF ResetLabels, LateLabels
<1>5. in <= max_in_before_reset + Cardinality(At(pc', LateLabels))
  BY <1>1, AtType, Threshold DEF CountInv, WhenDestroying, Typed
<1>6. QED
  BY <1>2, <1>4, <1>5 DEF CountInv, LateOnes, ResetsAlone, WhenUsed, WhenDestroying, NoUseAfterDestruction

LEMMA DestroyAddStep ==
  ASSUME CountInv, Typed', NEW t \in Threads, DestroyAdd(t)
  PROVE  CountInv'
<1>1. /\ pc[t] = "destroy_add" /\ UNCHANGED <<in, current_round>>
      /\ out' = out + (max_in_before_reset - i[t])
      /\ pc \in [Threads -> Labels] /\ in \in Nat /\ out \in Nat
  BY DEF DestroyAdd, CountInv, Typed
<1>2. stage = "destroying" /\ pc[t] \in DestroyLabels /\ t \in At(pc, {"destroy_add"})
  BY <1>1, Stage DEF DestroyLabels, At
<1>3. /\ i[t] = in /\ in = out + Cardinality(At(pc, InsideLabels)) /\ At(pc, ResetLabels) = {}
      /\ in < max_in_before_reset
  BY <1>2 DEF CountInv, WhenDestroying
<1>4. Cardinality(At(pc, InsideLabels)) \in Nat /\ max_in_before_reset \in Nat
  BY AtType, Threshold
<1>5. CASE out < i[t]
  <2>1. Moves(pc, pc', t, "destroy_wait") /\ i' = i /\ stage' = stage
    BY <1>5 DEF DestroyAdd, Goto, Moves
  <2>2. /\ pc[t] \notin InsideLabels /\ pc[t] \notin LateLabels /\ pc[t] \notin LateLabels \cup {"restart"}
        /\ pc[t] \notin ResetLabels
        /\ "destroy_wait" \notin InsideLabels /\ "destroy_wait" \notin LateLabels
        /\ "destroy_wait" \notin LateLabels \cup {"restart"} /\ "destroy_wait" \notin ResetLabels
        /\ "destroy_wait" \in DestroyLabels /\ "destroy_wait" \in Labels
    BY <1>1 DEF InsideLabels, ResetLabels, LateLabels, DestroyLabels, AwaitLabels, Labels
  <2>3. /\ At(pc', InsideLabels) = At(pc, InsideLabels) /\ At(pc', LateLabels) = At(pc, LateLabels)
        /\ At(pc', LateLabels \cup {"restart"}) = At(pc, LateLabels \cup {"restart"})
        /\ At(pc', ResetLabels) = {} /\ At(pc', DestroyLabels) = At(pc, DestroyLabels)
    BY <1>1, <1>2, <1>3, <2>1, <2>2, MovesWithin
  <2>4. At(pc', {"destroy_add"}) = {}
    BY <1>1, <1>2, <2>1 DEF CountInv, WhenDestroying, At, DestroyLabels, Moves
  <2>5. in # 0 /\ Cardinality(At(pc, InsideLabels)) # 0
        /\ out' + Cardinality(At(pc, InsideLabels)) = max_in_before_reset
    BY <1>1, <1>3, <1>4, <1>5
  <2>6. At(pc, InsideLabels) # {}
    BY <2>5, FS_EmptySet
  <2>7. WhenDestroying'
    BY <1>1, <1>2, <2>1, <2>3, <2>4, <2>5, <2>6 DEF CountInv, WhenDestroying
  <2>8. LateOnes' /\ ResetsAlone' /\ WhenUsed' /\ NoUseAfterDestruction'
    BY <1>1, <1>2, <2>1, <2>3 DEF CountInv, LateOnes, ResetsAlone, WhenUsed, NoUseAfterDestruction
  <2>9. QED BY <2>7, <2>8 DEF CountInv
<1>6. CASE ~(out < i[t])
  <2>1. Cardinality(At(pc, InsideLabels)) = 0
    BY <1>1, <1>3, <1>4, <1>6
  <2>2. At(pc, InsideLabels) = {}
    BY <2>1, AtType, FS_EmptySet
  <2>3. Goto(t, "idle") /\ stage' = "destroyed"
    BY <1>6 DEF DestroyAdd, Leave
  <2>4. QED BY <1>1, <1>2, <1>3, <2>2, <2>3, DestroyedStep
<1>7. QED BY <1>5, <1>6

LEMMA DestroyReloadStep ==
  ASSUME CountInv, Typed', NEW t \in Threads, DestroyReload(t)
  PROVE  CountInv'
<1>1. pc[t] = "destroy_reload" /\ UNCHANGED <<in, out, current_round>> /\ i \in [Threads -> Nat]
  BY DEF DestroyReload, fields, CountInv, Typed
<1>2. pc[t] \in AwaitLabels /\ pc[t] \in DestroyLabels
  BY <1>1 DEF AwaitLabels, DestroyLabels
<1>3. CASE in # 0
  <2>1. Goto(t, "destroy_wait") /\ "destroy_wait" \in Labels /\ stage' = stage
        /\ \A s \in Threads \ {t} : i'[s] = i[s]
    BY <1>1, <1>3 DEF DestroyReload, Labels, DestroyLabels, AwaitLabels
  <2>2. \A L \in Groups : pc[t] \in L <=> "destroy_wait" \in L
    BY <1>1 DEF Groups, InsideLabels, ResetLabels, LateLabels, DestroyLabels, AwaitLabels
  <2>3. QED BY <1>1, <1>2, <2>1, <2>2, QuietGo
<1>4. CASE in = 0
  <2>1. stage = "destroying" /\ At(pc, ResetLabels) = {}
    BY <1>2, <1>4, Stage DEF CountInv, ResetsAlone
  <2>2. At(pc, {"destroy_add"}) = {}
    BY <1>1, <1>2, <2>1 DEF CountInv, WhenDestroying, At, DestroyLabels
  <2>3. At(pc, InsideLabels) = {}
    BY <1>4, <2>1, <2>2 DEF CountInv, WhenDestroying
  <2>4. Goto(t, "idle") /\ stage' = "destroyed"
    BY <1>4 DEF DestroyReload, Leave
  <2>5. QED BY <1>1, <1>2, <2>1, <2>3, <2>4, DestroyedStep
<1>5. QED BY <1>3, <1>4

LEMMA ReinitStep ==
  ASSUME CountInv, Typed', Reinit
  PROVE  CountInv'
<1>1. in' = 0 /\ out' = 0 /\ pc' = pc /\ stage' = "used"
  BY DEF Reinit
<1>2. \A L : L \cap {"idle", "wake_in"} = {} => At(pc, L) = {}
  BY DEF At, CountInv, NoUseAfterDestruction, Reinit
<1>3. /\ At(pc', InsideLabels) = {} /\ At(pc', ResetLabels) = {}
      /\ At(pc', LateLabels) = {} /\ At(pc', DestroyLabels) = {}
  BY <1>1, <1>2 DEF InsideLabels, ResetLabels, LateLabels, DestroyLabels, AwaitLabels
<1>4. Cardinality({}) = 0 /\ Entered' = 0 /\ max_in_before_reset \in Nat \ {0}
  BY <1>1, FS_EmptySet, Threshold DEF Entered
<1>5. LateOnes'
  BY <1>1, <1>3, <1>4 DEF LateOnes
<1>6. ResetsAlone' /\ WhenUsed'
  BY <1>1, <1>3, <1>4 DEF ResetsAlone, WhenUsed
<1>7. QED BY <1>1, <1>5, <1>6 DEF CountInv, WhenDestroying, NoUseAfterDestruction

LEMMA CountStep ==
  ASSUME CountInv, ~DestroyAtThreshold, [Next]_vars
  PROVE  CountInv'
<1>1. Typed'
  BY CountTyped
<1>2. CASE UNCHANGED vars
  BY <1>1, <1>2 DEF vars, fields, CountInv, LateOnes, ResetsAlone, WhenUsed, WhenDestroying, Entered,
                    NoUseAfterDestruction
<1>3. QED
  BY <1>1, <1>2, QuietSteps, WakeSteps, EnterStep, LoadInStep, LeaveStep, ResetSteps, DestroyStep,
     DestroyAddStep, DestroyReloadStep, ReinitStep DEF Next, Step

LEMMA CountInvariance == ~DestroyAtThreshold => (Spec => []CountInv)
<1> SUFFICES ASSUME ~DestroyAtThreshold PROVE Spec => []CountInv
  OBVIOUS
<1>1. CountInv /\ [Next]_vars => CountInv'
  BY CountStep
<1>2. QED BY InitCount, <1>1, PTL DEF Spec

\* After pthread_barrier_destroy has returned no thread touches the barrier, however many
\* were still leaving when it was called.
THEOREM NoUseAfterDestroy == ~DestroyAtThreshold => (Spec => []NoUseAfterDestruction)
<1> SUFFICES ASSUME ~DestroyAtThreshold PROVE Spec => []NoUseAfterDestruction
  OBVIOUS
<1>1. CountInv => NoUseAfterDestruction
  BY DEF CountInv
<1>2. QED BY <1>1, CountInvariance, PTL

\* in - out is the number of the threads inside, for any number of rounds and resets.
THEOREM ExactCounters == ~DestroyAtThreshold => (Spec => []EnteredMinusLeft)
<1> SUFFICES ASSUME ~DestroyAtThreshold PROVE Spec => []EnteredMinusLeft
  OBVIOUS
<1>1. CountInv => EnteredMinusLeft
  <2> SUFFICES ASSUME CountInv, stage = "used", in <= max_in_before_reset,
                      \A t \in Threads : pc[t] \notin {"reset_round", "reset_out", "reset_in"}
               PROVE  in = out + Cardinality({t \in Threads : Phase(t) # "outside" /\ pc[t] # "wake_in"})
    BY DEF EnteredMinusLeft
  <2>1. At(pc, ResetLabels) = {} /\ Entered = in
    BY Threshold DEF At, ResetLabels, Entered, CountInv, Typed
  <2>2. in = out + Cardinality(At(pc, InsideLabels))
    BY <2>1 DEF CountInv, WhenUsed
  <2>3. {t \in Threads : Phase(t) # "outside" /\ pc[t] # "wake_in"} = At(pc, InsideLabels)
    BY DEF Phase, At, InsideLabels
  <2>4. QED BY <2>2, <2>3
<1>2. QED BY <1>1, CountInvariance, PTL

-----------------------------------------------------------------------------
(* The rounds. *)

\* The threads whose round is not complete.
Blocked == {t \in At(pc, InsideLabels) : i[t] > Boundary(Entered)}

\* current_round and every copy of it are at most the end of the last complete round, so
\* that a thread takes its round for complete only if it is; and the round that is not
\* complete has as many threads as positions have been taken of it.
Positioned ==
  /\ current_round <= Boundary(Entered)
  /\ \A t \in Threads :
       /\ pc[t] \in InsideLabels => i[t] <= Entered
       /\ pc[t] \in {"leave"} \cup ResetLabels => i[t] <= Boundary(Entered)
       /\ pc[t] \in InsideLabels \ {"load_round"} => cr[t] <= Boundary(Entered)
  /\ Cardinality(Blocked) = Entered % count

LEMMA EnteredType ==
  ASSUME Typed
  PROVE  Entered \in Nat /\ Entered <= max_in_before_reset /\ Boundary(Entered) \in Nat
<1>1. Entered \in Nat /\ Entered <= max_in_before_reset
  BY Threshold DEF Typed, Entered
<1>2. QED BY <1>1, BoundaryExact

\* What a step has to see to as long as nobody enters.
LEMMA KeepPositions ==
  ASSUME Positioned, UNCHANGED in \/ UNCHANGED Entered, current_round' <= Boundary(Entered),
         \A s \in Threads :
           /\ pc'[s] \in InsideLabels => pc[s] \in InsideLabels /\ i'[s] = i[s]
           /\ pc'[s] \in {"leave"} \cup ResetLabels => i'[s] <= Boundary(Entered)
           /\ pc'[s] \in InsideLabels \ {"load_round"} => cr'[s] <= Boundary(Entered)
           /\ pc[s] \in InsideLabels /\ i[s] > Boundary(Entered) => pc'[s] \in InsideLabels
  PROVE  Positioned'
<1>1. Entered' = Entered
  BY DEF Entered
<1>2. Blocked' = Blocked
  BY <1>1 DEF Blocked, At
<1>3. QED BY <1>1, <1>2 DEF Positioned

LEMMA KeepGo ==
  ASSUME Positioned, Typed, NEW t \in Threads, NEW l, Goto(t, l),
         UNCHANGED in \/ UNCHANGED Entered, current_round' <= Boundary(Entered),
         \A s \in Threads \ {t} : i'[s] = i[s] /\ cr'[s] = cr[s],
         l \in InsideLabels => pc[t] \in InsideLabels /\ i'[t] = i[t],
         l \in {"leave"} \cup ResetLabels => i'[t] <= Boundary(Entered),
         l \in InsideLabels \ {"load_round"} => cr'[t] <= Boundary(Entered),
         pc[t] \in InsideLabels /\ i[t] > Boundary(Entered) => l \in InsideLabels
  PROVE  Positioned'
<1>1. pc'[t] = l /\ \A s \in Threads \ {t} : pc'[s] = pc[s]
  BY DEF Goto, Typed
<1>2. ASSUME NEW s \in Threads
      PROVE  /\ pc'[s] \in InsideLabels => pc[s] \in InsideLabels /\ i'[s] = i[s]
             /\ pc'[s] \in {"leave"} \cup ResetLabels => i'[s] <= Boundary(Entered)
             /\ pc'[s] \in InsideLabels \ {"load_round"} => cr'[s] <= Boundary(Entered)
             /\ pc[s] \in InsideLabels /\ i[s] > Boundary(Entered) => pc'[s] \in InsideLabels
  <2>1. CASE s = t
    BY <1>1, <2>1
  <2>2. CASE s # t
    BY <1>1, <2>2 DEF Positioned
  <2>3. QED BY <2>1, <2>2
<1>3. QED BY <1>2, KeepPositions

LEMMA PositionsInside ==
  ASSUME Positioned, CountInv, Typed', NEW t \in Threads,
         LoadRound(t) \/ Complete(t) \/ RoundWait(t) \/ ReloadRound(t)
  PROVE  Positioned'
<1>1. /\ Typed /\ Entered \in Nat /\ Boundary(Entered) \in Nat /\ i[t] \in Nat /\ cr[t] \in Nat
      /\ current_round \in Nat
  BY EnteredType DEF CountInv, Typed
<1>2. pc[t] \in InsideLabels /\ i' = i /\ UNCHANGED in /\ pc[t] \notin {"leave"} \cup ResetLabels
  BY DEF LoadRound, Complete, RoundWait, ReloadRound, fields, InsideLabels, ResetLabels
<1>3. i[t] <= Entered /\ current_round <= Boundary(Entered)
  BY <1>2 DEF Positioned
<1>4. \A s \in Threads \ {t} : cr'[s] = cr[s]
  BY <1>1 DEF Typed, LoadRound, Complete, RoundWait, ReloadRound, Consider
<1>5. ASSUME NEW l \in InsideLabels, Goto(t, l), current_round' <= Boundary(Entered),
             l = "leave" => i[t] <= Boundary(Entered),
             cr'[t] <= Boundary(Entered)
      PROVE  Positioned'
  <2>1. l \in {"leave"} \cup ResetLabels => l = "leave"
    BY DEF InsideLabels, ResetLabels
  <2>2. QED BY <1>1, <1>2, <1>4, <1>5, <2>1, KeepGo
<1>6. CASE RoundWait(t)
  <2>1. PICK l \in {"asleep_round", "reload_round"} : Goto(t, l)
    BY <1>6 DEF RoundWait
  <2>2. UNCHANGED <<cr, current_round>> /\ l \in InsideLabels /\ l # "leave"
    BY <1>6 DEF RoundWait, fields, InsideLabels
  <2>3. cr[t] <= Boundary(Entered)
    BY <1>2, <1>6 DEF RoundWait, Positioned, InsideLabels
  <2>4. QED BY <1>3, <1>5, <2>1, <2>2, <2>3
<1>7. CASE ReloadRound(t) \/ LoadRound(t) \/ (Complete(t) /\ current_round # cr[t])
  <2>1. cr'[t] = current_round /\ UNCHANGED current_round
    BY <1>1, <1>7 DEF ReloadRound, LoadRound, Complete, Consider, fields, Typed
  <2>2. PICK l \in {"complete", "round_wait", "leave"} :
          Goto(t, l) /\ (l = "leave" => ~(i[t] > current_round))
    BY <1>7 DEF ReloadRound, LoadRound, Complete, Consider
  <2>3. l = "leave" => i[t] <= Boundary(Entered)
    BY <1>1, <1>3, <2>2
  <2>4. l \in InsideLabels
    BY DEF InsideLabels
  <2>5. QED BY <1>3, <1>5, <2>1, <2>2, <2>3, <2>4
<1>8. CASE Complete(t) /\ current_round = cr[t]
  <2>1. /\ current_round' = Boundary(i[t]) /\ cr'[t] = Boundary(i[t]) /\ Goto(t, "wake_round")
    BY <1>1, <1>8 DEF Complete, Boundary, Typed
  <2>2. Boundary(i[t]) <= Boundary(Entered)
    BY <1>1, <1>3, BoundaryGrows
  <2>3. "wake_round" \in InsideLabels
    BY DEF InsideLabels
  <2>4. QED BY <1>5, <2>1, <2>2, <2>3
<1>9. QED BY <1>6, <1>7, <1>8

LEMMA PositionsWake ==
  ASSUME Positioned, CountInv, NEW t \in Threads, WakeRound(t) \/ WakeIn(t)
  PROVE  Positioned'
<1>1. /\ Typed /\ UNCHANGED <<in, current_round>> /\ Boundary(Entered) \in Nat
      /\ i[t] \in Nat /\ cr[t] \in Nat
  BY EnteredType DEF CountInv, Typed, WakeRound, WakeIn, fields
<1>2. ASSUME NEW s \in Threads
      PROVE  /\ pc'[s] \in InsideLabels => pc[s] \in InsideLabels /\ i'[s] = i[s]
             /\ pc'[s] \in {"leave"} \cup ResetLabels => i'[s] <= Boundary(Entered)
             /\ pc'[s] \in InsideLabels \ {"load_round"} => cr'[s] <= Boundary(Entered)
             /\ pc[s] \in InsideLabels /\ i[s] > Boundary(Entered) => pc'[s] \in InsideLabels
  <2>1. CASE s # t \/ WakeIn(t)
    BY <1>1, <2>1 DEF Typed, WakeRound, WakeIn, WakeAll, Positioned, InsideLabels, ResetLabels
  <2>2. CASE s = t /\ WakeRound(t)
    <3>1. pc[t] \in InsideLabels \ {"load_round"}
      BY <2>2 DEF WakeRound, InsideLabels
    <3>2. cr[t] <= Boundary(Entered)
      BY <3>1 DEF Positioned
    <3>3. /\ i' = i /\ cr' = cr
          /\ pc'[t] \in {"leave", "round_wait"} /\ (pc'[t] = "leave" => i[t] <= cr[t])
      BY <2>2 DEF WakeRound, WakeAll
    <3>4. pc'[t] = "leave" => i[t] <= Boundary(Entered)
      BY <1>1, <3>2, <3>3
    <3>5. pc'[t] \in InsideLabels /\ (pc'[t] \in {"leave"} \cup ResetLabels => pc'[t] = "leave")
      BY <3>3 DEF InsideLabels, ResetLabels
    <3>6. QED BY <2>2, <3>1, <3>2, <3>3, <3>4, <3>5
  <2>3. QED BY <2>1, <2>2
<1>3. current_round' <= Boundary(Entered)
  BY <1>1 DEF Positioned
<1>4. QED BY <1>1, <1>2, <1>3, KeepPositions

LEMMA PositionsOutside ==
  ASSUME Positioned, CountInv, NEW t \in Threads,
         \/ ResetWait(t) \/ LoadIn(t) \/ SpuriousWake(t)
         \/ Destroy(t) \/ DestroyAdd(t) \/ DestroyWait(t) \/ DestroyReload(t)
  PROVE  Positioned'
<1>1. /\ Typed /\ UNCHANGED <<in, current_round>>
      /\ \A s \in Threads \ {t} : i'[s] = i[s] /\ cr'[s] = cr[s]
  BY DEF CountInv, Typed, ResetWait, LoadIn, SpuriousWake, Destroy, DestroyAdd, DestroyWait,
         DestroyReload, Leave, fields
<1>2. current_round' <= Boundary(Entered)
  BY <1>1 DEF Positioned
<1>3. CASE SpuriousWake(t) /\ pc[t] = "asleep_round"
  <2>1. Goto(t, "reload_round") /\ UNCHANGED <<i, cr>>
    BY <1>3 DEF SpuriousWake
  <2>2. /\ pc[t] \in InsideLabels \ {"load_round"} /\ "reload_round" \in InsideLabels
        /\ "reload_round" \notin {"leave"} \cup ResetLabels
    BY <1>3 DEF InsideLabels, ResetLabels
  <2>3. cr[t] <= Boundary(Entered)
    BY <2>2 DEF Positioned
  <2>4. QED BY <1>1, <1>2, <2>1, <2>2, <2>3, KeepGo
<1>4. CASE ~(SpuriousWake(t) /\ pc[t] = "asleep_round")
  <2>1. PICK l : Goto(t, l) /\ l \in LateLabels \cup DestroyLabels \cup {"restart", "idle"}
    BY <1>4 DEF ResetWait, LoadIn, SpuriousWake, Destroy, DestroyAdd, DestroyWait, DestroyReload, Leave,
                LateLabels, DestroyLabels, AwaitLabels
  <2>2. pc[t] \notin InsideLabels
    BY <1>4 DEF ResetWait, LoadIn, SpuriousWake, Destroy, DestroyAdd, DestroyWait, DestroyReload, InsideLabels
  <2>3. l \notin InsideLabels /\ l \notin {"leave"} \cup ResetLabels
    BY <2>1 DEF InsideLabels, LateLabels, DestroyLabels, AwaitLabels, ResetLabels
  <2>4. QED BY <1>1, <1>2, <2>1, <2>2, <2>3, KeepGo
<1>5. QED BY <1>3, <1>4

LEMMA PositionsLeave ==
  ASSUME Positioned, CountInv, NEW t \in Threads, LeaveBarrier(t) \/ ResetRound(t) \/ ResetOut(t)
  PROVE  Positioned'
<1>1. /\ Typed /\ UNCHANGED in /\ i[t] \in Nat /\ Boundary(Entered) \in Nat
      /\ \A s \in Threads \ {t} : i'[s] = i[s] /\ cr'[s] = cr[s]
  BY EnteredType DEF CountInv, Typed, LeaveBarrier, ResetRound, ResetOut, Leave
<1>2. current_round' <= Boundary(Entered)
  BY <1>1 DEF LeaveBarrier, ResetRound, ResetOut, Positioned
<1>3. i[t] <= Boundary(Entered)
  BY DEF LeaveBarrier, ResetRound, ResetOut, Positioned, ResetLabels
<1>4. PICK l \in {"idle", "reset_round", "reset_out", "reset_in"} : Goto(t, l) /\ (l # "idle" => i' = i)
  BY DEF LeaveBarrier, ResetRound, ResetOut, Leave
<1>5. l \notin InsideLabels /\ (l \in {"leave"} \cup ResetLabels => l # "idle")
  BY DEF InsideLabels, ResetLabels
<1>6. ~(i[t] > Boundary(Entered))
  BY <1>1, <1>3
<1>7. QED BY <1>1, <1>2, <1>3, <1>4, <1>5, <1>6, KeepGo

\* A barrier at its start.
LEMMA PositionsStart ==
  ASSUME in' = 0, current_round' = 0, At(pc', InsideLabels) = {}, At(pc', ResetLabels) = {}
  PROVE  Positioned' /\ Entered' = 0
<1>1. Entered' = 0
  BY Threshold DEF Entered
<1>2. Boundary(0) = 0 /\ 0 % count = 0
  BY BoundaryExact, Modulo DEF Boundary
<1>3. Blocked' = {}
  BY DEF Blocked
<1>4. Cardinality({}) = 0
  BY FS_EmptySet
<1>5. \A s \in Threads : pc'[s] \notin InsideLabels /\ pc'[s] \notin ResetLabels
  BY DEF At
<1>6. "leave" \in InsideLabels
  BY DEF InsideLabels
<1>7. QED BY <1>1, <1>2, <1>3, <1>4, <1>5, <1>6 DEF Positioned

LEMMA PositionsReset ==
  ASSUME Positioned, CountInv, CountInv', (\E t \in Threads : ResetIn(t)) \/ Reinit
  PROVE  Positioned' /\ Entered' = 0
<1>1. CASE Reinit
  <2>1. \A L : L \cap {"idle", "wake_in"} = {} => At(pc', L) = {}
    BY <1>1 DEF At, CountInv, NoUseAfterDestruction, Reinit
  <2>2. At(pc', InsideLabels) = {} /\ At(pc', ResetLabels) = {}
    BY <2>1 DEF InsideLabels, ResetLabels
  <2>3. QED BY <1>1, <2>2, PositionsStart DEF Reinit
<1>2. ASSUME NEW t \in Threads, ResetIn(t)
      PROVE  Positioned' /\ Entered' = 0
  <2>1. t \in At(pc, ResetLabels) /\ pc[t] = "reset_in"
    BY <1>2 DEF ResetIn, At, ResetLabels
  <2>2. At(pc, ResetLabels) = {t} /\ At(pc, InsideLabels) = {} /\ current_round = 0
    BY <2>1 DEF CountInv, ResetsAlone
  <2>3. At(pc', InsideLabels) = {} /\ At(pc', ResetLabels) = {}
    BY <1>2, <2>2 DEF ResetIn, Goto, At, InsideLabels, ResetLabels, CountInv, Typed
  <2>4. QED BY <1>2, <2>2, <2>3, PositionsStart DEF ResetIn
<1>3. QED BY <1>1, <1>2

\* A thread enters beyond the threshold, or takes the next position of the round; with
\* the last position the round is complete and nobody is blocked any more.
LEMMA PositionsEnter ==
  ASSUME Positioned, CountInv, CountInv', NEW t \in Threads, Enter(t)
  PROVE  /\ Positioned'
         /\ pc[t] \in {"idle", "restart"}
         /\ \A s \in Threads \ {t} : pc'[s] = pc[s] /\ i'[s] = i[s]
         /\ \/ pc'[t] = "reset_wait" /\ Entered' = Entered
            \/ /\ pc'[t] = "load_round" /\ i'[t] = Entered + 1 /\ Entered' = Entered + 1
               /\ \/ Cardinality(Blocked) + 1 = count /\ Blocked' = {} /\ Boundary(Entered') = Entered + 1
                  \/ Cardinality(Blocked) + 1 < count /\ Boundary(Entered') = Boundary(Entered)
<1>1. /\ Typed /\ in \in Nat /\ in' = in + 1 /\ UNCHANGED <<current_round, cr>> /\ i'[t] = in + 1
      /\ current_round \in Nat /\ pc[t] \in {"idle", "restart"}
      /\ \A s \in Threads \ {t} : pc'[s] = pc[s] /\ i'[s] = i[s]
  BY DEF CountInv, Typed, Enter, Goto
<1>2. pc[t] \notin InsideLabels /\ pc[t] \notin ResetLabels
  BY <1>1 DEF InsideLabels, ResetLabels
<1>3. Entered \in Nat /\ Boundary(Entered) \in Nat /\ max_in_before_reset \in Nat
  BY <1>1, EnteredType, Threshold
<1>4. CASE in + 1 > max_in_before_reset
  <2>1. Entered' = Entered
    BY <1>1, <1>3, <1>4 DEF Entered
  <2>2. Goto(t, "reset_wait") /\ pc'[t] = "reset_wait"
    BY <1>1, <1>4 DEF Enter, Goto, Typed
  <2>3. "reset_wait" \notin InsideLabels /\ "reset_wait" \notin {"leave"} \cup ResetLabels
    BY DEF InsideLabels, ResetLabels
  <2>4. current_round' <= Boundary(Entered)
    BY <1>1 DEF Positioned
  <2>5. Positioned'
    BY <1>1, <1>2, <2>1, <2>2, <2>3, <2>4, KeepGo
  <2>6. QED BY <1>1, <2>1, <2>2, <2>5
<1>5. CASE ~(in + 1 > max_in_before_reset)
  <2>1. Entered = in /\ Entered' = Entered + 1 /\ i'[t] = Entered + 1
    BY <1>1, <1>3, <1>5 DEF Entered
  <2>2. pc'[t] = "load_round"
    BY <1>1, <1>5 DEF Enter, Goto, Typed
  <2>3. /\ "load_round" \in InsideLabels
        /\ "load_round" \notin {"leave"} \cup ResetLabels
    BY DEF InsideLabels, ResetLabels
  <2>4. /\ Boundary(Entered) <= Boundary(Entered + 1) /\ Boundary(Entered + 1) \in Nat
        /\ Boundary(Entered + 1) <= Entered + 1
    BY <1>3, BoundaryGrows, BoundaryExact
  <2>5. /\ current_round' <= Boundary(Entered')
        /\ \A s \in Threads :
             /\ pc'[s] \in InsideLabels => i'[s] <= Entered'
             /\ pc'[s] \in {"leave"} \cup ResetLabels => i'[s] <= Boundary(Entered')
             /\ pc'[s] \in InsideLabels \ {"load_round"} => cr'[s] <= Boundary(Entered')
    <3>1. current_round <= Boundary(Entered + 1)
      BY <1>1, <1>3, <2>4 DEF Positioned
    <3>2. ASSUME NEW s \in Threads
          PROVE  /\ pc'[s] \in InsideLabels => i'[s] <= Entered'
                 /\ pc'[s] \in {"leave"} \cup ResetLabels => i'[s] <= Boundary(Entered')
                 /\ pc'[s] \in InsideLabels \ {"load_round"} => cr'[s] <= Boundary(Entered')
      <4>1. CASE s = t
        BY <1>3, <2>1, <2>2, <2>3, <4>1
      <4>2. CASE s # t
        <5>1. pc'[s] = pc[s] /\ i'[s] = i[s] /\ cr'[s] = cr[s] /\ i[s] \in Nat /\ cr[s] \in Nat
          BY <1>1, <4>2 DEF Typed
        <5>2. QED BY <1>3, <2>1, <2>4, <5>1 DEF Positioned
      <4>3. QED BY <4>1, <4>2
    <3>3. QED BY <1>1, <2>1, <3>1, <3>2
  <2>6. Entered % count \in 0 .. count - 1 /\ count \in Nat \ {0} /\ Cardinality(Blocked) = Entered % count
    BY <1>3, Modulo, BarrierAssumption DEF Positioned
  <2>7. CASE Entered % count = count - 1
    <3>1. (Entered + 1) % count = 0 /\ Boundary(Entered + 1) = Entered + 1
      BY <1>3, <2>7, Modulo DEF Boundary
    <3>2. \A s \in Threads : pc'[s] \in InsideLabels => ~(i'[s] > Boundary(Entered'))
      <4>1. ASSUME NEW s \in Threads, pc'[s] \in InsideLabels
            PROVE  ~(i'[s] > Boundary(Entered'))
        <5>1. i'[s] <= Entered + 1 /\ i'[s] \in Nat
          BY <2>1, <2>5, <4>1 DEF CountInv, Typed
        <5>2. QED BY <1>3, <2>1, <3>1, <5>1
      <4>2. QED BY <4>1
    <3>3. Blocked' = {} /\ Cardinality({}) = 0
      BY <3>2, FS_EmptySet DEF Blocked, At
    <3>4. Positioned'
      BY <2>1, <2>5, <3>1, <3>3 DEF Positioned
    <3>5. Cardinality(Blocked) + 1 = count
      BY <2>6, <2>7
    <3>6. QED BY <1>1, <2>1, <2>2, <3>1, <3>3, <3>4, <3>5
  <2>8. CASE Entered % count # count - 1
    <3>1. (Entered + 1) % count = (Entered % count) + 1 /\ Boundary(Entered + 1) = Boundary(Entered)
      <4>1. (Entered + 1) % count = (Entered % count) + 1
        BY <1>3, <2>8, Modulo
      <4>2. QED BY <1>3, <2>6, <4>1 DEF Boundary
    <3>2. Blocked' = Blocked \cup {t} /\ t \notin Blocked
      <4>1. t \in Blocked'
        BY <1>3, <2>1, <2>2, <2>3, <2>4, <3>1, BoundaryExact DEF Blocked, At
      <4>2. \A s \in Threads \ {t} : s \in Blocked' <=> s \in Blocked
        BY <1>1, <2>1, <3>1 DEF Blocked, At
      <4>3. Blocked \subseteq Threads /\ Blocked' \subseteq Threads /\ t \notin Blocked
        BY <1>2 DEF Blocked, At
      <4>4. QED BY <4>1, <4>2, <4>3
    <3>3. IsFiniteSet(Blocked)
      BY AtType, FS_Subset DEF Blocked
    <3>4. Cardinality(Blocked') = Cardinality(Blocked) + 1
      BY <3>2, <3>3, FS_AddElement
    <3>5. Positioned'
      BY <2>1, <2>5, <2>6, <3>1, <3>4 DEF Positioned
    <3>6. Cardinality(Blocked) + 1 < count
      BY <2>6, <2>8
    <3>7. QED BY <1>1, <2>1, <2>2, <3>1, <3>5, <3>6
  <2>9. QED BY <2>7, <2>8
<1>6. QED BY <1>4, <1>5

RoundInv == CountInv /\ Positioned

LEMMA InitRound == Init => RoundInv
<1> SUFFICES ASSUME Init PROVE RoundInv
  OBVIOUS
<1>1. in = 0 /\ current_round = 0 /\ Entered = 0
  BY Threshold DEF Init, Entered
<1>2. Boundary(0) = 0 /\ 0 % count = 0
  BY BoundaryExact, Modulo DEF Boundary
<1>3. \A s \in Threads : pc[s] \notin InsideLabels /\ pc[s] \notin {"leave"} \cup ResetLabels
  BY DEF Init, InsideLabels, ResetLabels
<1>4. Blocked = {} /\ Cardinality({}) = 0
  BY <1>3, FS_EmptySet DEF Blocked, At
<1>5. QED BY <1>1, <1>2, <1>3, <1>4, InitCount DEF RoundInv, Positioned

LEMMA RoundStep ==
  ASSUME RoundInv, ~DestroyAtThreshold, [Next]_vars
  PROVE  RoundInv'
<1>1. CountInv /\ CountInv' /\ Positioned /\ Typed'
  BY CountStep DEF RoundInv, CountInv
<1>2. CASE UNCHANGED vars
  BY <1>1, <1>2 DEF vars, fields, Positioned, Blocked, At, Entered, RoundInv
<1>3. QED
  BY <1>1, <1>2, PositionsInside, PositionsWake, PositionsOutside, PositionsLeave, PositionsReset,
     PositionsEnter DEF Next, Step, RoundInv

-----------------------------------------------------------------------------
(* The refinement. *)

PhaseLabels == InsideLabels \cup ResetLabels \cup {"wake_in"}

phase == [t \in Threads |-> Phase(t)]

LEMMA PhaseIs ==
  ASSUME NEW t \in Threads
  PROVE  Phase(t) =
           IF pc[t] \notin PhaseLabels THEN "outside"
           ELSE IF pc[t] # "wake_in" /\ i[t] > Boundary(Entered) THEN "waiting"
           ELSE IF i[t] % count = 0 THEN "serial" ELSE "free"
BY DEF Phase, PhaseLabels, InsideLabels, ResetLabels, Boundary

\* The blocked threads are the waiting ones: a thread that resets has left its round.
LEMMA WaitingIs ==
  ASSUME RoundInv
  PROVE  {t \in Threads : phase[t] = "waiting"} = Blocked
<1>1. ASSUME NEW t \in Threads
      PROVE  phase[t] = "waiting" <=> t \in Blocked
  <2>1. phase[t] = "waiting" <=> pc[t] \in InsideLabels \cup ResetLabels /\ i[t] > Boundary(Entered)
    BY PhaseIs DEF phase, PhaseLabels, InsideLabels, ResetLabels
  <2>2. pc[t] \in ResetLabels => ~(i[t] > Boundary(Entered))
    <3>1. i[t] \in Nat /\ Boundary(Entered) \in Nat
      BY EnteredType DEF RoundInv, CountInv, Typed
    <3>2. QED BY <3>1 DEF RoundInv, Positioned
  <2>3. QED BY <2>1, <2>2 DEF Blocked, At
<1>2. Blocked \subseteq Threads
  BY DEF Blocked, At
<1>3. QED BY <1>1, <1>2

\* A step that nobody outside of the barrier's code can see.
LEMMA PhasesKept ==
  ASSUME UNCHANGED Entered,
         \A s \in Threads :
           /\ pc'[s] \in PhaseLabels <=> pc[s] \in PhaseLabels
           /\ pc[s] \in PhaseLabels => i'[s] = i[s] /\ (pc'[s] = "wake_in" <=> pc[s] = "wake_in")
  PROVE  phase' = phase
<1>1. ASSUME NEW s \in Threads
      PROVE  Phase(s)' = Phase(s)
  <2>1. Phase(s)' =
           IF pc'[s] \notin PhaseLabels THEN "outside"
           ELSE IF pc'[s] # "wake_in" /\ i'[s] > Boundary(Entered') THEN "waiting"
           ELSE IF i'[s] % count = 0 THEN "serial" ELSE "free"
    BY DEF Phase, PhaseLabels, InsideLabels, ResetLabels, Boundary
  <2>2. QED BY <2>1, PhaseIs
<1>2. QED BY <1>1 DEF phase

LEMMA PhasesGo ==
  ASSUME Typed, NEW t \in Threads, NEW l, Goto(t, l), UNCHANGED in,
         \A s \in Threads \ {t} : i'[s] = i[s],
         l \in PhaseLabels <=> pc[t] \in PhaseLabels,
         pc[t] \in PhaseLabels => i'[t] = i[t] /\ l # "wake_in" /\ pc[t] # "wake_in"
  PROVE  phase' = phase
<1>1. Entered' = Entered
  BY DEF Entered
<1>2. pc'[t] = l /\ \A s \in Threads \ {t} : pc'[s] = pc[s]
  BY DEF Goto, Typed
<1>3. QED BY <1>1, <1>2, PhasesKept

LEMMA InsideMaps ==
  ASSUME RoundInv, NEW t \in Threads,
         \/ LoadRound(t) \/ Complete(t) \/ RoundWait(t) \/ ReloadRound(t)
         \/ ResetWait(t) \/ LoadIn(t) \/ SpuriousWake(t)
         \/ Destroy(t) \/ DestroyAdd(t) \/ DestroyWait(t) \/ DestroyReload(t)
         \/ ResetRound(t) \/ ResetOut(t)
  PROVE  phase' = phase
<1>1. Typed
  BY DEF RoundInv, CountInv
<1>2. CASE \/ LoadRound(t) \/ Complete(t) \/ RoundWait(t) \/ ReloadRound(t) \/ SpuriousWake(t)
           \/ ResetRound(t) \/ ResetOut(t)
  <2>1. i' = i /\ UNCHANGED in /\ pc[t] # "wake_in"
    BY <1>2 DEF LoadRound, Complete, RoundWait, ReloadRound, SpuriousWake, ResetRound, ResetOut, fields
  <2>2. PICK l : Goto(t, l) /\ (l \in PhaseLabels <=> pc[t] \in PhaseLabels) /\ l # "wake_in"
    BY <1>2 DEF LoadRound, Complete, RoundWait, ReloadRound, SpuriousWake, ResetRound, ResetOut, Consider,
                PhaseLabels, InsideLabels, ResetLabels
  <2>3. QED BY <1>1, <2>1, <2>2, PhasesGo
<1>3. CASE \/ ResetWait(t) \/ LoadIn(t) \/ Destroy(t) \/ DestroyAdd(t) \/ DestroyWait(t) \/ DestroyReload(t)
  <2>1. UNCHANGED in /\ \A s \in Threads \ {t} : i'[s] = i[s]
    BY <1>1, <1>3 DEF Typed, ResetWait, LoadIn, Destroy, DestroyAdd, DestroyWait, DestroyReload, Leave, fields
  <2>2. PICK l : Goto(t, l) /\ l \notin PhaseLabels
    BY <1>3 DEF ResetWait, LoadIn, Destroy, DestroyAdd, DestroyWait, DestroyReload, Leave,
                PhaseLabels, InsideLabels, ResetLabels
  <2>3. pc[t] \notin PhaseLabels
    BY <1>3 DEF ResetWait, LoadIn, Destroy, DestroyAdd, DestroyWait, DestroyReload,
                PhaseLabels, InsideLabels, ResetLabels
  <2>4. QED BY <1>1, <2>1, <2>2, <2>3, PhasesGo
<1>4. QED BY <1>2, <1>3

\* One thread of a complete round comes out of the barrier.
LEMMA ComesOut ==
  ASSUME Typed, NEW t \in Threads, UNCHANGED Entered, pc[t] \in PhaseLabels, pc'[t] \notin PhaseLabels,
         pc[t] = "wake_in" \/ ~(i[t] > Boundary(Entered)),
         \A s \in Threads \ {t} :
           /\ pc'[s] \in PhaseLabels <=> pc[s] \in PhaseLabels
           /\ pc[s] \in PhaseLabels => i'[s] = i[s] /\ (pc'[s] = "wake_in" <=> pc[s] = "wake_in")
  PROVE  Rounds!Leave(t)
<1>1. Phase(t) \in {"free", "serial"}
  BY PhaseIs
<1>2. ASSUME NEW s \in Threads
      PROVE  Phase(s)' = IF s = t THEN "outside" ELSE Phase(s)
  <2>1. Phase(s)' =
           IF pc'[s] \notin PhaseLabels THEN "outside"
           ELSE IF pc'[s] # "wake_in" /\ i'[s] > Boundary(Entered') THEN "waiting"
           ELSE IF i'[s] % count = 0 THEN "serial" ELSE "free"
    BY DEF Phase, PhaseLabels, InsideLabels, ResetLabels, Boundary
  <2>2. CASE s = t
    BY <2>1, <2>2
  <2>3. CASE s # t
    BY <2>1, <2>3, PhaseIs
  <2>4. QED BY <2>2, <2>3
<1>3. phase' = [phase EXCEPT ![t] = "outside"] /\ phase[t] \in {"free", "serial"}
  BY <1>1, <1>2 DEF phase
<1>4. QED BY <1>3 DEF Rounds!Leave, phase

LEMMA LeaveMaps ==
  ASSUME RoundInv, NEW t \in Threads, LeaveBarrier(t) \/ WakeRound(t) \/ WakeIn(t)
  PROVE  Rounds!Leave(t) \/ phase' = phase
<1>1. Typed /\ UNCHANGED in /\ i[t] \in Nat /\ Boundary(Entered) \in Nat
  BY EnteredType DEF RoundInv, CountInv, Typed, LeaveBarrier, WakeRound, WakeIn, fields
<1>2. Entered' = Entered
  BY <1>1 DEF Entered
<1>3. CASE LeaveBarrier(t) /\ out + 1 = max_in_before_reset
  <2>1. Goto(t, "reset_round") /\ i' = i /\ pc[t] = "leave"
    BY <1>3 DEF LeaveBarrier
  <2>2. "reset_round" \in PhaseLabels /\ "leave" \in PhaseLabels
    BY DEF PhaseLabels, InsideLabels, ResetLabels
  <2>3. QED BY <1>1, <2>1, <2>2, PhasesGo
<1>4. CASE LeaveBarrier(t) /\ out + 1 # max_in_before_reset
  <2>1. pc[t] = "leave" /\ pc'[t] = "idle" /\ \A s \in Threads \ {t} : pc'[s] = pc[s] /\ i'[s] = i[s]
    BY <1>1, <1>4 DEF LeaveBarrier, Leave, Goto, Typed
  <2>2. "leave" \in PhaseLabels /\ "idle" \notin PhaseLabels
    BY DEF PhaseLabels, InsideLabels, ResetLabels
  <2>3. ~(i[t] > Boundary(Entered))
    BY <1>1, <2>1 DEF RoundInv, Positioned
  <2>4. QED BY <1>1, <1>2, <2>1, <2>2, <2>3, ComesOut
<1>5. CASE WakeRound(t)
  <2>1. ASSUME NEW s \in Threads
        PROVE  /\ pc'[s] \in PhaseLabels <=> pc[s] \in PhaseLabels
               /\ pc[s] \in PhaseLabels => i'[s] = i[s] /\ (pc'[s] = "wake_in" <=> pc[s] = "wake_in")
    BY <1>1, <1>5 DEF WakeRound, WakeAll, PhaseLabels, InsideLabels, ResetLabels
  <2>2. QED BY <1>2, <2>1, PhasesKept
<1>6. CASE WakeIn(t)
  <2>1. ASSUME NEW s \in Threads \ {t}
        PROVE  /\ pc'[s] \in PhaseLabels <=> pc[s] \in PhaseLabels
               /\ pc[s] \in PhaseLabels => i'[s] = i[s] /\ (pc'[s] = "wake_in" <=> pc[s] = "wake_in")
    BY <1>1, <1>6 DEF Typed, WakeIn, WakeAll, PhaseLabels, InsideLabels, ResetLabels
  <2>2. pc[t] = "wake_in" /\ pc'[t] = "idle"
    BY <1>6 DEF WakeIn, WakeAll
  <2>3. "wake_in" \in PhaseLabels /\ "idle" \notin PhaseLabels
    BY DEF PhaseLabels, InsideLabels, ResetLabels
  <2>4. QED BY <1>1, <1>2, <2>1, <2>2, <2>3, ComesOut
<1>7. QED BY <1>3, <1>4, <1>5, <1>6

\* The reset of in concerns nobody: the rounds of all threads are complete.
LEMMA ResetMaps ==
  ASSUME RoundInv, (\E t \in Threads : ResetIn(t)) \/ Reinit
  PROVE  phase' = phase
<1>1. Typed /\ Boundary(Entered) \in Nat
  BY EnteredType DEF RoundInv, CountInv
<1>2. ASSUME NEW s \in Threads
      PROVE  /\ i'[s] = i[s]
             /\ pc'[s] \in PhaseLabels <=> pc[s] \in PhaseLabels
             /\ pc[s] \in PhaseLabels =>
                  pc'[s] = "wake_in" /\ (pc[s] # "wake_in" => ~(i[s] > Boundary(Entered)))
  <2>1. CASE Reinit
    BY <2>1 DEF Reinit, RoundInv, CountInv, NoUseAfterDestruction, PhaseLabels, InsideLabels, ResetLabels
  <2>2. ASSUME NEW t \in Threads, ResetIn(t)
        PROVE  /\ i'[s] = i[s]
               /\ pc'[s] \in PhaseLabels <=> pc[s] \in PhaseLabels
               /\ pc[s] \in PhaseLabels =>
                    pc'[s] = "wake_in" /\ (pc[s] # "wake_in" => ~(i[s] > Boundary(Entered)))
    <3>1. pc[t] = "reset_in" /\ pc' = [pc EXCEPT ![t] = "wake_in"] /\ i' = i
      BY <2>2 DEF ResetIn, Goto
    <3>2. t \in At(pc, ResetLabels) /\ pc[t] \in PhaseLabels /\ "wake_in" \in PhaseLabels
      BY <3>1 DEF At, ResetLabels, PhaseLabels
    <3>3. At(pc, ResetLabels) = {t} /\ At(pc, InsideLabels) = {}
      BY <3>2 DEF RoundInv, CountInv, ResetsAlone
    <3>4. CASE s = t
      <4>1. i[t] <= Boundary(Entered) /\ i[t] \in Nat
        BY <1>1, <3>1 DEF RoundInv, Positioned, Typed, ResetLabels
      <4>2. ~(i[t] > Boundary(Entered))
        BY <1>1, <4>1
      <4>3. pc'[t] = "wake_in"
        BY <1>1, <3>1 DEF Typed
      <4>4. QED BY <3>1, <3>2, <3>4, <4>2, <4>3
    <3>5. CASE s # t
      <4>1. pc'[s] = pc[s] /\ pc[s] \notin InsideLabels /\ pc[s] \notin ResetLabels
        BY <1>1, <3>1, <3>3, <3>5 DEF Typed, At
      <4>2. QED BY <3>1, <4>1 DEF PhaseLabels
    <3>6. QED BY <3>4, <3>5
  <2>3. QED BY <2>1, <2>2
<1>3. ASSUME NEW s \in Threads
      PROVE  Phase(s)' = Phase(s)
  <2>1. Phase(s)' =
           IF pc'[s] \notin PhaseLabels THEN "outside"
           ELSE IF pc'[s] # "wake_in" /\ i'[s] > Boundary(Entered') THEN "waiting"
           ELSE IF i'[s] % count = 0 THEN "serial" ELSE "free"
    BY DEF Phase, PhaseLabels, InsideLabels, ResetLabels, Boundary
  <2>2. QED BY <1>2, <2>1, PhaseIs
<1>4. QED BY <1>3 DEF phase

\* RoundBarrier counts with the same operator.
LEMMA SameCardinality ==
  ASSUME NEW S
  PROVE  Rounds!Cardinality(S) = Cardinality(S)
BY DEF Cardinality, Rounds!Cardinality

\* A thread that enters waits, or completes the round as its serial thread.
LEMMA EnterMaps ==
  ASSUME RoundInv, CountInv', NEW t \in Threads, Enter(t)
  PROVE  Rounds!Enter(t) \/ Rounds!Complete(t) \/ phase' = phase
<1>1. Positioned /\ CountInv /\ Typed /\ Entered \in Nat /\ Boundary(Entered) \in Nat
  BY EnteredType DEF RoundInv, CountInv
<1>2. /\ pc[t] \in {"idle", "restart"}
      /\ \A s \in Threads \ {t} : pc'[s] = pc[s] /\ i'[s] = i[s]
  BY <1>1, PositionsEnter
<1>3. /\ pc[t] \notin PhaseLabels /\ "reset_wait" \notin PhaseLabels /\ "load_round" \in PhaseLabels
      /\ phase[t] = "outside"
  <2>1. pc[t] \notin PhaseLabels /\ "reset_wait" \notin PhaseLabels /\ "load_round" \in PhaseLabels
    BY <1>2 DEF PhaseLabels, InsideLabels, ResetLabels
  <2>2. QED BY <2>1, PhaseIs DEF phase
<1>4. ASSUME NEW s \in Threads
      PROVE  /\ phase[s] = IF pc[s] \notin PhaseLabels THEN "outside"
                           ELSE IF pc[s] # "wake_in" /\ i[s] > Boundary(Entered) THEN "waiting"
                           ELSE IF i[s] % count = 0 THEN "serial" ELSE "free"
             /\ phase'[s] = IF pc'[s] \notin PhaseLabels THEN "outside"
                            ELSE IF pc'[s] # "wake_in" /\ i'[s] > Boundary(Entered') THEN "waiting"
                            ELSE IF i'[s] % count = 0 THEN "serial" ELSE "free"
  BY DEF phase, Phase, PhaseLabels, InsideLabels, ResetLabels, Boundary
<1>5. CASE pc'[t] = "reset_wait" /\ Entered' = Entered
  BY <1>2, <1>3, <1>5, PhasesKept
<1>6. CASE /\ pc'[t] = "load_round" /\ i'[t] = Entered + 1 /\ Entered' = Entered + 1
           /\ Cardinality(Blocked) + 1 < count /\ Boundary(Entered') = Boundary(Entered)
  <2>1. i'[t] > Boundary(Entered')
    BY <1>1, <1>6, BoundaryExact
  <2>2. ASSUME NEW s \in Threads
        PROVE  phase'[s] = IF s = t THEN "waiting" ELSE phase[s]
    <3>1. CASE s = t
      BY <1>3, <1>4, <1>6, <2>1, <3>1
    <3>2. CASE s # t
      BY <1>2, <1>4, <1>6, <3>2
    <3>3. QED BY <3>1, <3>2
  <2>3. phase' = [phase EXCEPT ![t] = "waiting"]
    BY <2>2 DEF phase
  <2>4. QED BY <1>3, <1>6, <2>3, WaitingIs, SameCardinality DEF Rounds!Enter, Rounds!Waiting, phase
<1>7. CASE /\ pc'[t] = "load_round" /\ i'[t] = Entered + 1 /\ Entered' = Entered + 1
           /\ Cardinality(Blocked) + 1 = count /\ Blocked' = {} /\ Boundary(Entered') = Entered + 1
  <2>1. ~(i'[t] > Boundary(Entered')) /\ i'[t] % count = 0
    <3>1. Boundary(Entered + 1) % count = 0
      BY <1>1, BoundaryExact
    <3>2. QED BY <1>1, <1>7, <3>1
  <2>2. ASSUME NEW s \in Threads
        PROVE  phase'[s] = IF s = t THEN "serial" ELSE IF s \in Blocked THEN "free" ELSE phase[s]
    <3>1. CASE s = t
      BY <1>3, <1>4, <1>7, <2>1, <3>1
    <3>2. CASE s # t /\ s \in Blocked
      <4>1. /\ pc[s] \in InsideLabels /\ i[s] > Boundary(Entered) /\ i[s] \in Nat
            /\ pc'[s] = pc[s] /\ i'[s] = i[s]
        BY <1>1, <1>2, <3>2 DEF Blocked, At, Typed
      <4>2. i[s] <= Entered
        BY <1>1, <4>1 DEF Positioned
      <4>3. i[s] % count # 0
        BY <1>1, <4>1, <4>2, InsideRound
      <4>4. ~(i[s] > Entered + 1) /\ pc[s] \in PhaseLabels
        BY <1>1, <4>1, <4>2 DEF PhaseLabels
      <4>5. QED BY <1>4, <1>7, <3>2, <4>1, <4>3, <4>4
    <3>3. CASE s # t /\ s \notin Blocked
      <4>1. phase[s] # "waiting" /\ pc'[s] = pc[s] /\ i'[s] = i[s]
        BY <1>2, <3>3, WaitingIs
      <4>2. CASE pc[s] \notin PhaseLabels \/ pc[s] = "wake_in"
        BY <1>4, <3>3, <4>1, <4>2
      <4>3. CASE pc[s] \in PhaseLabels /\ pc[s] # "wake_in"
        <5>1. ~(i[s] > Boundary(Entered)) /\ i[s] \in Nat
          BY <1>1, <1>4, <4>1, <4>3 DEF Typed
        <5>2. ~(i[s] > Entered + 1)
          BY <1>1, <5>1, BoundaryExact
        <5>3. QED BY <1>4, <1>7, <3>3, <4>1, <4>3, <5>1, <5>2
      <4>4. QED BY <4>2, <4>3
    <3>4. QED BY <3>1, <3>2, <3>3
  <2>3. phase' = [s \in Threads |-> IF s = t THEN "serial" ELSE IF s \in Blocked THEN "free" ELSE phase[s]]
    BY <2>2 DEF phase
  <2>4. QED BY <1>3, <1>7, <2>3, WaitingIs, SameCardinality DEF Rounds!Complete, Rounds!Waiting, phase
<1>8. QED BY <1>1, <1>5, <1>6, <1>7, PositionsEnter

LEMMA StepMaps ==
  ASSUME RoundInv, ~DestroyAtThreshold, [Next]_vars
  PROVE  [Rounds!Next]_(Rounds!vars)
<1>1. CountInv'
  BY CountStep DEF RoundInv
<1>2. CASE UNCHANGED vars
  BY <1>2 DEF vars, fields, Rounds!vars, Phase, Entered
<1>3. ASSUME phase' = phase
      PROVE  [Rounds!Next]_(Rounds!vars)
  BY <1>3 DEF phase, Rounds!vars
<1>4. CASE Reinit
  BY <1>3, <1>4, ResetMaps
<1>5. ASSUME NEW t \in Threads, Step(t) \/ Enter(t) \/ Destroy(t) \/ SpuriousWake(t)
      PROVE  [Rounds!Next]_(Rounds!vars)
  BY <1>1, <1>3, <1>5, InsideMaps, LeaveMaps, ResetMaps, EnterMaps DEF Step, Rounds!Next
<1>6. QED BY <1>2, <1>4, <1>5 DEF Next

LEMMA RoundInvariance == ~DestroyAtThreshold => (Spec => []RoundInv)
<1> SUFFICES ASSUME ~DestroyAtThreshold PROVE Spec => []RoundInv
  OBVIOUS
<1>1. RoundInv /\ [Next]_vars => RoundInv'
  BY RoundStep
<1>2. QED BY InitRound, <1>1, PTL DEF Spec

\* The safety of ImplementsRounds, for any number of threads, any count and any threshold:
\* no thread leaves the barrier before count of them have entered its round, exactly
\* count are freed together, and one of them is the serial thread.
THEOREM RoundRefinement == ~DestroyAtThreshold => (Spec => Rounds!Safety)
<1> SUFFICES ASSUME ~DestroyAtThreshold PROVE Spec => Rounds!Safety
  OBVIOUS
<1>1. Init => Rounds!Init
  BY DEF Init, Rounds!Init, Phase
<1>2. RoundInv /\ [Next]_vars => [Rounds!Next]_(Rounds!vars)
  BY StepMaps
<1>3. QED BY <1>1, <1>2, RoundInvariance, PTL DEF Spec, Rounds!Safety

=============================================================================
