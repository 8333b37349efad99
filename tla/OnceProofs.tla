----------------------------- MODULE OnceProofs -----------------------------
(***************************************************************************)
(* Theorems about Once, for any number of threads, forks and cancelled     *)
(* initializations, as long as init_routine itself does not fork.          *)
(***************************************************************************)
EXTENDS Once, TLAPS

\* Where a thread knows that init_routine has run to its end.
Informed == {t \in Threads : pc[t] \in {"store", "wake", "returned"}}

\* While a thread initializes, once_control holds a claim of the current generation:
\* this is what sends every other thread to sleep, and what a fork makes untrue at the
\* very moment when it takes the initializing thread away.
Claimed == \A t \in Initializing : once_control = Claim

Finished ==
  /\ once_control = Done => finished > 0
  /\ \A t \in Informed : finished > 0

OnceInv == TypeOK /\ OneInitializer /\ Claimed /\ Finished

LEMMA InitOnce == Init => OnceInv
BY OnceAssumption
   DEF Init, OnceInv, TypeOK, Words, New, Done, OneInitializer, Initializing, Claimed, Finished, Informed

LEMMA ClaimType == TypeOK => Claim \in Words
BY DEF TypeOK, Claim, Words

\* The type of the copies, and the label that a look at once_control leads to.
LEMMA LookStep ==
  ASSUME NEW t \in Threads, TypeOK, Look(t)
  PROVE  /\ val' \in [Threads -> Words]
         /\ pc' = [pc EXCEPT ![t] = IF once_control = Done THEN "returned" ELSE "claim"]
<1>1. New \in Words
  BY OnceAssumption DEF New, Words
<1>2. QED BY <1>1 DEF TypeOK, Look, Goto

LEMMA TypeStep ==
  ASSUME TypeOK, [Next]_vars
  PROVE  TypeOK'
<1>0. New \in Words /\ Done \in Words /\ Claim \in Words
  BY OnceAssumption, ClaimType DEF New, Done, Words
<1>1. CASE UNCHANGED vars
  BY <1>1 DEF TypeOK, vars
<1>2. ASSUME NEW t \in Threads, Step(t)
      PROVE  TypeOK'
  <2>1. CASE Fast(t)
    BY <2>1 DEF TypeOK, Fast, Goto
  <2>2. CASE Load(t)
    BY <2>2, LookStep DEF TypeOK, Load
  <2>3. CASE Exchange(t)
    <3>1. CASE once_control = val[t]
      BY <1>0, <2>3, <3>1 DEF TypeOK, Exchange, Goto
    <3>2. CASE once_control # val[t]
      BY <2>3, <3>2, LookStep DEF TypeOK, Exchange
    <3>3. QED BY <3>1, <3>2
  <2>4. CASE FutexWait(t)
    BY <2>4 DEF TypeOK, FutexWait, Goto
  <2>5. CASE InitEnds(t)
    BY <2>5 DEF TypeOK, InitEnds, Goto
  <2>6. CASE Store(t)
    BY <1>0, <2>6 DEF TypeOK, Store, Goto
  <2>7. CASE Clear(t)
    BY <1>0, <2>7 DEF TypeOK, Clear, Goto
  <2>8. CASE Wake(t)
    BY <2>8 DEF TypeOK, Wake
  <2>9. QED BY <1>2, <2>1, <2>2, <2>3, <2>4, <2>5, <2>6, <2>7, <2>8 DEF Step
<1>3. ASSUME NEW t \in Threads, Call(t) \/ SpuriousWake(t)
      PROVE  TypeOK'
  BY <1>3 DEF TypeOK, Call, SpuriousWake, Goto
<1>4. ASSUME NEW t \in Threads, Cancel(t)
      PROVE  TypeOK'
  BY <1>4, OnceAssumption DEF TypeOK, Cancel, Goto
<1>5. ASSUME NEW t \in Threads, Fork(t)
      PROVE  TypeOK'
  BY <1>0, <1>5, OnceAssumption DEF TypeOK, Fork
<1>6. QED BY <1>1, <1>2, <1>3, <1>4, <1>5 DEF Next

\* A step that moves thread t to a label at which it does not initialize, and leaves the
\* word, the generation and the number of finished runs alone.
LEMMA QuietStep ==
  ASSUME OnceInv, NEW t \in Threads, NEW l,
         pc' = [pc EXCEPT ![t] = l],
         l \notin {"init", "store", "clear"},
         l \in {"wake", "returned"} => finished > 0,
         UNCHANGED <<once_control, generation, finished>>
  PROVE  OneInitializer' /\ Claimed' /\ Finished'
<1>1. Initializing' \subseteq Initializing
  BY DEF OnceInv, TypeOK, Initializing
<1>2. Claim' = Claim
  BY DEF Claim
<1>3. OneInitializer' /\ Claimed'
  BY <1>1, <1>2 DEF OnceInv, OneInitializer, Claimed
<1>4. Finished'
  BY DEF OnceInv, TypeOK, Finished, Informed
<1>5. QED BY <1>3, <1>4

\* The initializing thread is the only one.
LEMMA Alone ==
  ASSUME OnceInv, NEW t \in Threads, pc[t] \in {"init", "store", "clear"}
  PROVE  Initializing = {t} /\ once_control = Claim
BY DEF OnceInv, OneInitializer, Claimed, Initializing

LEMMA OnceStep ==
  ASSUME OnceInv, [Next]_vars, ~ForkInInit
  PROVE  OnceInv'
<1> DEFINE Goal == OneInitializer' /\ Claimed' /\ Finished'
<1>0. TypeOK /\ TypeOK'
  BY TypeStep DEF OnceInv
<1>1. ASSUME UNCHANGED vars
      PROVE  Goal
  BY <1>1 DEF OnceInv, vars, OneInitializer, Initializing, Claimed, Claim, Finished, Informed
<1>2. ASSUME NEW t \in Threads, Fast(t) \/ Load(t) \/ FutexWait(t) \/ Call(t) \/ SpuriousWake(t)
      PROVE  Goal
  <2>1. once_control = Done => finished > 0
    BY DEF OnceInv, Finished
  <2>2. CASE Load(t)
    BY <1>0, <2>1, <2>2, LookStep, QuietStep DEF Load
  <2>3. PICK l \in {"returned", "load", "asleep", "fast"} :
          Load(t) \/ (pc' = [pc EXCEPT ![t] = l] /\ (l = "returned" => once_control = Done))
    BY <1>2 DEF Fast, FutexWait, Call, SpuriousWake, Goto
  <2>4. UNCHANGED <<once_control, generation, finished>>
    BY <1>2 DEF Fast, Load, FutexWait, Call, SpuriousWake
  <2>5. QED BY <2>1, <2>2, <2>3, <2>4, QuietStep
<1>3. ASSUME NEW t \in Threads, Exchange(t)
      PROVE  Goal
  <2>1. CASE once_control # val[t]
    <3>1. once_control = Done => finished > 0
      BY DEF OnceInv, Finished
    <3>2. QED BY <1>0, <1>3, <2>1, <3>1, LookStep, QuietStep DEF Exchange
  <2>2. CASE once_control = val[t] /\ val[t] = Claim
    <3>1. /\ pc' = [pc EXCEPT ![t] = "futex_wait"]
          /\ UNCHANGED <<once_control, generation, finished>>
      BY <1>3, <2>2 DEF Exchange, Goto
    <3>2. QED BY <3>1, QuietStep
  <2>3. CASE once_control = val[t] /\ val[t] # Claim
    <3>1. Initializing = {}
      BY <2>3 DEF OnceInv, Claimed
    <3>2. /\ pc' = [pc EXCEPT ![t] = "init"]
          /\ once_control' = Claim
          /\ UNCHANGED <<generation, finished>>
      BY <1>3, <2>3 DEF Exchange, Goto
    <3>3. Initializing' = {t} /\ Claim' = Claim
      BY <1>0, <3>1, <3>2 DEF TypeOK, Initializing, Claim
    <3>4. OneInitializer' /\ Claimed'
      BY <3>2, <3>3 DEF OneInitializer, Claimed
    <3>5. Finished'
      BY <1>0, <3>2 DEF TypeOK, OnceInv, Finished, Informed, Claim, Done
    <3>6. QED BY <3>4, <3>5
  <2>4. QED BY <2>1, <2>2, <2>3
<1>4. ASSUME NEW t \in Threads, InitEnds(t)
      PROVE  Goal
  <2>1. pc[t] = "init" /\ pc' = [pc EXCEPT ![t] = "store"] /\ finished' > 0
        /\ UNCHANGED <<once_control, generation>>
    BY <1>0, <1>4 DEF TypeOK, InitEnds, Goto
  <2>2. Initializing' = Initializing /\ Claim' = Claim
    BY <1>0, <2>1 DEF TypeOK, Initializing, Claim
  <2>3. QED BY <2>1, <2>2 DEF OnceInv, OneInitializer, Claimed, Finished
<1>5. ASSUME NEW t \in Threads, Store(t) \/ Clear(t)
      PROVE  Goal
  <2>1. Initializing = {t}
    BY <1>5, Alone DEF Store, Clear
  <2>2. PICK l \in {"wake", "clear_wake"} : pc' = [pc EXCEPT ![t] = l] /\ (l = "wake" => Store(t))
    BY <1>5 DEF Store, Clear, Goto
  <2>3. Initializing' = {}
    BY <1>0, <2>1, <2>2 DEF TypeOK, Initializing
  <2>4. OneInitializer' /\ Claimed'
    BY <2>3 DEF OneInitializer, Claimed
  <2>5. Store(t) => finished > 0
    BY DEF Store, OnceInv, Finished, Informed
  <2>6. finished' = finished /\ (once_control' = Done => Store(t))
    BY <1>5 DEF Store, Clear, New, Done
  <2>7. Finished'
    BY <1>0, <2>2, <2>5, <2>6 DEF TypeOK, OnceInv, Finished, Informed
  <2>8. QED BY <2>4, <2>7
<1>6. ASSUME NEW t \in Threads, Wake(t)
      PROVE  Goal
  <2>1. Initializing' \subseteq Initializing /\ Claim' = Claim /\ once_control' = once_control
    BY <1>0, <1>6 DEF TypeOK, Wake, Initializing, Claim
  <2>2. OneInitializer' /\ Claimed'
    BY <2>1 DEF OnceInv, OneInitializer, Claimed
  <2>3. Informed' \subseteq Informed /\ finished' = finished
    BY <1>0, <1>6 DEF TypeOK, Wake, Informed
  <2>4. QED BY <2>1, <2>2, <2>3 DEF OnceInv, Finished
<1>7. ASSUME NEW t \in Threads, Cancel(t)
      PROVE  Goal
  <2>1. Initializing' \subseteq Initializing /\ Claim' = Claim /\ once_control' = once_control
    BY <1>0, <1>7 DEF TypeOK, Cancel, Goto, Initializing, Claim
  <2>2. Informed' \subseteq Informed /\ finished' = finished
    BY <1>0, <1>7 DEF TypeOK, Cancel, Goto, Informed
  <2>3. QED BY <2>1, <2>2 DEF OnceInv, OneInitializer, Claimed, Finished
<1>8. ASSUME NEW t \in Threads, Fork(t)
      PROVE  Goal
  <2>1. pc[t] \in {"idle", "returned"}
    BY <1>8 DEF Fork
  <2>2. Initializing' = {} /\ Informed' \subseteq Informed
    BY <1>0, <1>8, <2>1 DEF TypeOK, Fork, Initializing, Informed
  <2>3. finished' = finished /\ once_control' = once_control
    BY <1>8 DEF Fork
  <2>4. QED BY <2>2, <2>3 DEF OnceInv, OneInitializer, Claimed, Finished
<1>9. QED
  BY <1>0, <1>1, <1>2, <1>3, <1>4, <1>5, <1>6, <1>7, <1>8 DEF Next, Step, OnceInv

\* once_control, the generation, the labels, the copies and the histories are well typed.
THEOREM OnceType == Spec => []TypeOK
<1>1. Init => TypeOK
  BY InitOnce DEF OnceInv
<1>2. TypeOK /\ [Next]_vars => TypeOK'
  BY TypeStep
<1>3. QED BY <1>1, <1>2, PTL DEF Spec

LEMMA OnceInvariance ==
  ASSUME ~ForkInInit
  PROVE  Spec => []OnceInv
<1>1. OnceInv /\ [Next]_vars => OnceInv'
  BY OnceStep
<1>2. QED BY InitOnce, <1>1, PTL DEF Spec

\* No two threads of a process are in init_routine, however many forks and cancelled
\* initializations came before, provided that init_routine does not fork.
THEOREM OneInitializerAtATime ==
  ASSUME ~ForkInInit
  PROVE  Spec => []OneInitializer
<1>1. OnceInv => OneInitializer
  BY DEF OnceInv
<1>2. QED BY <1>1, OnceInvariance, PTL

\* A call of pthread_once returns only when init_routine has run to its end.
THEOREM InitializedOnReturn ==
  ASSUME ~ForkInInit
  PROVE  Spec => []ReturnsInitialized
<1>1. OnceInv => ReturnsInitialized
  BY DEF OnceInv, Finished, Informed, ReturnsInitialized
<1>2. QED BY <1>1, OnceInvariance, PTL

=============================================================================
