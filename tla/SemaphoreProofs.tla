-------------------------- MODULE SemaphoreProofs --------------------------
(***************************************************************************)
(* Theorems about Semaphore, for any threads, any of them cancellable, and *)
(* any SEM_VALUE_MAX: the semaphore is not touched after its destruction,  *)
(* and it implements the counter of tokens.                                *)
(***************************************************************************)
EXTENDS Semaphore, FiniteSetTheorems, TLAPS

Labels ==
  {"idle", "wait", "wait_cas", "trywait", "trywait_cas", "register", "grab", "futex_wait", "asleep",
   "woken", "unregister", "post", "post_cas", "wake"}

\* The words of the code, with any number of waiters.
AnyWords == [value : 0 .. SEM_VALUE_MAX, nwaiters : Int]

Typed ==
  /\ data \in AnyWords
  /\ pc \in [Threads -> Labels]
  /\ d \in [Threads -> AnyWords]

\* A thread about to exchange a word has seen that a token is in it, or room for one.
\* The exchange succeeds only if the word is still that, so it keeps the value in range.
CopiesAllow ==
  \A t \in Threads :
    /\ pc[t] \in {"wait_cas", "trywait_cas", "grab"} => d[t].value > 0
    /\ pc[t] = "post_cas" => d[t].value < SEM_VALUE_MAX

SemInv == Typed /\ CopiesAllow /\ NoUseAfterDestruction

LEMMA NoneType == None \in AnyWords
BY SemaphoreAssumption DEF None, AnyWords

LEMMA InitSem == Init => SemInv
BY SemaphoreAssumption, NoneType
   DEF Init, sem_init, SemInv, Typed, AnyWords, Labels, CopiesAllow, NoUseAfterDestruction

\* What it takes for one thread to go on at a label with a copy.
LEMMA GoStep ==
  ASSUME SemInv, NEW t \in Threads, NEW l \in Labels, NEW w \in AnyWords,
         Go(t, l, w), ~destroyed', data' \in AnyWords,
         l \in {"wait_cas", "trywait_cas", "grab"} => w.value > 0,
         l = "post_cas" => w.value < SEM_VALUE_MAX
  PROVE  SemInv'
<1>1. /\ pc' = [pc EXCEPT ![t] = l] /\ pc \in [Threads -> Labels]
      /\ d' = [d EXCEPT ![t] = w] /\ d \in [Threads -> AnyWords]
  BY DEF Go, SemInv, Typed
<1>2. Typed'
  BY <1>1 DEF Typed
<1>3. CopiesAllow'
  <2>1. ASSUME NEW s \in Threads
        PROVE  /\ pc'[s] \in {"wait_cas", "trywait_cas", "grab"} => d'[s].value > 0
               /\ pc'[s] = "post_cas" => d'[s].value < SEM_VALUE_MAX
    <3>1. CASE s = t
      BY <1>1, <3>1
    <3>2. CASE s # t
      BY <1>1, <3>2 DEF SemInv, CopiesAllow
    <3>3. QED BY <3>1, <3>2
  <2>2. QED BY <2>1 DEF CopiesAllow
<1>4. NoUseAfterDestruction'
  BY DEF NoUseAfterDestruction
<1>5. QED BY <1>2, <1>3, <1>4 DEF SemInv

\* A thread that is neither idle nor about to wake somebody finds the semaphore there.
LEMMA InUse ==
  ASSUME SemInv, NEW t \in Threads, pc[t] \notin {"idle", "wake"}
  PROVE  ~destroyed
BY DEF SemInv, NoUseAfterDestruction

LEMMA LoopStep ==
  ASSUME SemInv, NEW t \in Threads, Loop(t, data), ~destroyed', data' \in AnyWords
  PROVE  SemInv'
<1>1. data \in AnyWords /\ data.value \in Nat
  BY SemaphoreAssumption DEF SemInv, Typed, AnyWords
<1>2. CASE data.value = 0
  BY <1>2, GoStep, NoneType DEF Loop, Labels
<1>3. CASE data.value # 0
  <2>1. Go(t, "grab", data) /\ data.value > 0
    BY <1>1, <1>3 DEF Loop
  <2>2. QED BY <1>1, <2>1, GoStep DEF Labels
<1>4. QED BY <1>2, <1>3

LEMMA WaitStep ==
  ASSUME SemInv, NEW t \in Threads,
         \/ FastLoad(t) \/ FastCas(t) \/ FastCasFails(t) \/ Register(t) \/ Grab(t)
         \/ FutexWait(t) \/ Reload(t) \/ Unregister(t) \/ SpuriousWake(t) \/ GiveUp(t) \/ Cancel(t)
  PROVE  SemInv'
<1>0. pc[t] \notin {"idle", "wake"}
  BY DEF FastLoad, FastCas, FastCasFails, Register, Grab, FutexWait, Reload, Unregister,
         SpuriousWake, GiveUp, Cancel
<1>1. ~destroyed'
  BY <1>0, InUse DEF FastLoad, FastCas, FastCasFails, Register, Grab, FutexWait, Reload, Unregister,
         SpuriousWake, GiveUp, Cancel
<1>2. data \in AnyWords /\ data.value \in Nat /\ data.nwaiters \in Int
  BY SemaphoreAssumption DEF SemInv, Typed, AnyWords
<1>3. CASE FastLoad(t)
  <2>1. data' = data
    BY <1>3 DEF FastLoad
  <2>2. PICK l \in {"register", "idle"} : Go(t, l, None) \/ (data.value > 0 /\ Go(t, "wait_cas", data))
          \/ (data.value > 0 /\ Go(t, "trywait_cas", data))
    BY <1>2, <1>3 DEF FastLoad, Return
  <2>3. QED BY <1>1, <1>2, <2>1, <2>2, GoStep, NoneType DEF Labels
<1>4. CASE FastCas(t)
  <2>1. data' \in AnyWords
    BY <1>2, <1>4, SemaphoreAssumption DEF FastCas, Add, SemInv, CopiesAllow, AnyWords
  <2>2. QED BY <1>1, <1>4, <2>1, GoStep, NoneType DEF FastCas, Return, Labels
<1>5. CASE FastCasFails(t)
  <2>1. data' = data
    BY <1>5 DEF FastCasFails
  <2>2. PICK l \in {"register", "idle"} : Go(t, l, None) \/ (data.value > 0 /\ Go(t, "trywait_cas", data))
    BY <1>2, <1>5 DEF FastCasFails, Return
  <2>3. QED BY <1>1, <1>2, <2>1, <2>2, GoStep, NoneType DEF Labels
<1>6. CASE Register(t)
  <2>1. data' \in AnyWords
    BY <1>2, <1>6, SemaphoreAssumption DEF Register, Add, AnyWords
  <2>2. QED BY <1>1, <1>6, <2>1, LoopStep DEF Register
<1>7. CASE Grab(t)
  <2>1. CASE data = d[t]
    <3>1. data' \in AnyWords
      BY <1>2, <1>7, <2>1, SemaphoreAssumption DEF Grab, Add, SemInv, CopiesAllow, AnyWords
    <3>2. QED BY <1>1, <1>7, <2>1, <3>1, GoStep, NoneType DEF Grab, Return, Labels
  <2>2. CASE data # d[t]
    BY <1>1, <1>2, <1>7, <2>2, LoopStep DEF Grab
  <2>3. QED BY <2>1, <2>2
<1>8. CASE FutexWait(t) \/ SpuriousWake(t) \/ GiveUp(t) \/ Cancel(t)
  <2>1. PICK l \in {"asleep", "woken", "unregister"} : Go(t, l, None) /\ data' = data
    BY <1>8 DEF FutexWait, SpuriousWake, GiveUp, Cancel
  <2>2. QED BY <1>1, <1>2, <2>1, GoStep, NoneType DEF Labels
<1>9. CASE Reload(t)
  BY <1>1, <1>2, <1>9, LoopStep DEF Reload
<1>10. CASE Unregister(t)
  <2>1. data' \in AnyWords
    BY <1>2, <1>10, SemaphoreAssumption DEF Unregister, Add, AnyWords
  <2>2. QED BY <1>1, <1>10, <2>1, GoStep, NoneType DEF Unregister, Return, Labels
<1>11. QED BY <1>3, <1>4, <1>5, <1>6, <1>7, <1>8, <1>9, <1>10

LEMMA PostStep ==
  ASSUME SemInv, NEW t \in Threads, Call(t) \/ PostLoad(t) \/ PostCas(t)
  PROVE  SemInv'
<1>1. ~destroyed'
  BY InUse DEF Call, PostLoad, PostCas
<1>2. data \in AnyWords /\ data.value \in 0 .. SEM_VALUE_MAX /\ data.nwaiters \in Int
  BY DEF SemInv, Typed, AnyWords
<1>3. CASE Call(t)
  <2>1. PICK l \in {"wait", "trywait", "post"} : Go(t, l, None)
    BY <1>3 DEF Call
  <2>2. data' = data
    BY <1>3 DEF Call
  <2>3. QED BY <1>1, <1>2, <2>1, <2>2, GoStep, NoneType DEF Labels
<1>4. ASSUME data' = data,
             IF data.value = SEM_VALUE_MAX THEN Return(t) ELSE Go(t, "post_cas", data)
      PROVE  SemInv'
  <2>1. CASE data.value = SEM_VALUE_MAX
    BY <1>1, <1>2, <1>4, <2>1, GoStep, NoneType DEF Return, Labels
  <2>2. CASE data.value # SEM_VALUE_MAX
    <3>1. data.value < SEM_VALUE_MAX
      BY <1>2, <2>2, SemaphoreAssumption
    <3>2. QED BY <1>1, <1>2, <1>4, <2>2, <3>1, GoStep DEF Labels
  <2>3. QED BY <2>1, <2>2
<1>5. CASE PostLoad(t)
  BY <1>4, <1>5 DEF PostLoad
<1>6. CASE PostCas(t)
  <2>1. CASE data = d[t]
    <3>1. data' \in AnyWords
      BY <1>2, <1>6, <2>1, SemaphoreAssumption DEF PostCas, Add, SemInv, CopiesAllow, AnyWords
    <3>2. PICK l \in {"wake", "idle"} : Go(t, l, None)
      BY <1>6, <2>1 DEF PostCas, Return
    <3>3. QED BY <1>1, <3>1, <3>2, GoStep, NoneType DEF Labels
  <2>2. CASE data # d[t]
    BY <1>4, <1>6, <2>2 DEF PostCas
  <2>3. QED BY <2>1, <2>2
<1>7. QED BY <1>3, <1>5, <1>6

\* futex_wake uses no more than the address.
LEMMA WakeStep ==
  ASSUME SemInv, NEW t \in Threads, Wake(t)
  PROVE  SemInv'
<1>1. data' = data /\ destroyed' = destroyed
  BY DEF Wake
<1>2. CASE Asleep = {} /\ Return(t)
  <2>1. pc' = [pc EXCEPT ![t] = "idle"] /\ d' = [d EXCEPT ![t] = None]
    BY <1>2 DEF Return, Go
  <2>2. QED
    BY <1>1, <2>1, NoneType DEF SemInv, Typed, CopiesAllow, NoUseAfterDestruction, Labels
<1>3. ASSUME NEW s \in Asleep, pc' = [pc EXCEPT ![t] = "idle", ![s] = "woken"], UNCHANGED d
      PROVE  SemInv'
  <2>1. s \in Threads /\ pc[s] = "asleep" /\ s # t
    BY <1>3 DEF Asleep, Wake
  <2>2. ~destroyed
    BY <2>1, InUse
  <2>3. QED
    BY <1>1, <1>3, <2>1, <2>2 DEF SemInv, Typed, CopiesAllow, NoUseAfterDestruction, Labels
<1>4. QED BY <1>2, <1>3 DEF Wake

LEMMA SemStep ==
  ASSUME SemInv, [Next]_vars
  PROVE  SemInv'
<1>1. CASE UNCHANGED vars
  BY <1>1 DEF vars, SemInv, Typed, CopiesAllow, NoUseAfterDestruction
<1>2. CASE Destroy
  <2>1. ASSUME NEW t \in Threads
        PROVE  pc[t] \in {"idle", "wake"}
    BY <1>2 DEF Destroy, Effective, SemInv, Typed, Labels
  <2>2. QED
    BY <1>2, <2>1 DEF Destroy, SemInv, Typed, CopiesAllow, NoUseAfterDestruction
<1>3. CASE Reinit
  <2>1. data' \in AnyWords
    BY <1>3 DEF Reinit, AnyWords
  <2>2. QED
    BY <1>3, <2>1 DEF Reinit, SemInv, Typed, CopiesAllow, NoUseAfterDestruction
<1>4. QED BY <1>1, <1>2, <1>3, WaitStep, PostStep, WakeStep DEF Next, Step

LEMMA SemInvariance == Spec => []SemInv
<1>1. SemInv /\ [Next]_vars => SemInv'
  BY SemStep
<1>2. QED BY InitSem, <1>1, PTL DEF Spec

\* No thread touches the semaphore after its destruction, which the program may begin as
\* soon as every token it waits for has been taken: sem_post learns whom to wake from the
\* word it replaced.
THEOREM NoUseAfterDestroy == Spec => []NoUseAfterDestruction
<1>1. SemInv => NoUseAfterDestruction
  BY DEF SemInv
<1>2. QED BY <1>1, SemInvariance, PTL

-----------------------------------------------------------------------------
(* Counting. *)

\* The threads that are at one of the labels in L.
At(p, L) == {t \in Threads : p[t] \in L}

WaitLabels == {"grab", "futex_wait", "asleep", "woken", "unregister"}

TakerLabels == {"wake", "woken", "grab"}

One(l, L) == IF l \in L THEN 1 ELSE 0

LEMMA AtType ==
  ASSUME NEW p, NEW L
  PROVE  IsFiniteSet(At(p, L)) /\ Cardinality(At(p, L)) \in Nat
BY SemaphoreAssumption, FS_Subset, FS_CardinalityType DEF At

\* A thread that moves from one label to another.
Moves(p, q, t, l) == q = [p EXCEPT ![t] = l]

LEMMA MoveCounts ==
  ASSUME NEW p \in [Threads -> Labels], NEW t \in Threads, NEW l \in Labels, NEW L,
         NEW q, Moves(p, q, t, l)
  PROVE  Cardinality(At(q, L)) =
           Cardinality(At(p, L)) - One(p[t], L) + One(l, L)
<1> DEFINE S == At(p, L) \ {t}
<1>1. IsFiniteSet(S) /\ Cardinality(S) \in Nat
      /\ Cardinality(S) = Cardinality(At(p, L)) - One(p[t], L)
  <2>1. t \in At(p, L) <=> p[t] \in L
    BY DEF At
  <2>2. QED BY <2>1, AtType, FS_RemoveElement, FS_CardinalityType DEF One
<1>2. CASE l \in L
  <2>1. At(q, L) = S \cup {t}
    BY <1>2 DEF At, Moves
  <2>2. t \notin S
    OBVIOUS
  <2>3. Cardinality(At(q, L)) = Cardinality(S) + 1
    BY <1>1, <2>1, <2>2, FS_AddElement
  <2> HIDE DEF S
  <2>4. QED BY <1>1, <1>2, <2>3 DEF One
<1>3. CASE l \notin L
  <2>1. Cardinality(At(q, L)) = Cardinality(S)
    BY <1>3 DEF At, Moves
  <2>2. Cardinality(At(p, L)) \in Nat
    BY AtType
  <2> HIDE DEF S
  <2>3. QED BY <1>1, <1>3, <2>1, <2>2 DEF One
<1>4. QED BY <1>2, <1>3

\* Two threads that move at once.
LEMMA TwoMoveCounts ==
  ASSUME NEW p \in [Threads -> Labels], NEW t \in Threads, NEW l \in Labels,
         NEW s \in Threads \ {t}, NEW m \in Labels, NEW L,
         NEW r, NEW q, Moves(p, r, t, l), Moves(r, q, s, m)
  PROVE  Cardinality(At(q, L)) =
           Cardinality(At(p, L)) - One(p[t], L) + One(l, L) - One(p[s], L) + One(m, L)
<1>1. r \in [Threads -> Labels] /\ r[s] = p[s]
  BY DEF Moves
<1>2. Cardinality(At(r, L)) = Cardinality(At(p, L)) - One(p[t], L) + One(l, L)
  BY MoveCounts
<1>3. Cardinality(At(q, L)) = Cardinality(At(r, L)) - One(r[s], L) + One(m, L)
  BY <1>1, MoveCounts
<1>4. Cardinality(At(p, L)) \in Nat
  BY AtType
<1>5. QED BY <1>1, <1>2, <1>3, <1>4 DEF One

\* What the two properties say, with the threads counted by their labels.
LEMMA Counted ==
  /\ WaitersAreCounted <=> (~destroyed => data.nwaiters = Cardinality(At(pc, WaitLabels)))
  /\ TokensHaveTakers <=>
       (~cancelled /\ At(pc, {"asleep"}) # {} => data.value <= Cardinality(At(pc, TakerLabels)))
BY DEF WaitersAreCounted, TokensHaveTakers, Registered, Asleep, At, WaitLabels, TakerLabels

CountInv == SemInv /\ WaitersAreCounted /\ TokensHaveTakers

\* Nobody waits at a semaphore that is destroyed.
LEMMA NobodyWaits ==
  ASSUME SemInv, destroyed
  PROVE  /\ At(pc, WaitLabels) = {} /\ At(pc, {"asleep"}) = {}
         /\ Cardinality(At(pc, WaitLabels)) = 0
BY FS_EmptySet DEF SemInv, NoUseAfterDestruction, At, WaitLabels

\* A step of one thread keeps the counts if the word changes with the labels: the
\* waiters exactly, and of tokens there are no more than before for each thread that
\* ceases to be a taker, unless none is left.
LEMMA CountedStep ==
  ASSUME CountInv, NEW t \in Threads, NEW l \in Labels, ~destroyed, UNCHANGED destroyed,
         pc' = [pc EXCEPT ![t] = l],
         data'.nwaiters = data.nwaiters - One(pc[t], WaitLabels)
                                        + One(l, WaitLabels),
         data'.value \in Nat,
         \/ data'.value = 0
         \/ cancelled'
         \/ /\ cancelled' = cancelled /\ l # "asleep"
            /\ \/ At(pc, {"asleep"}) = {}
               \/ data'.value <= data.value - One(pc[t], TakerLabels)
                                            + One(l, TakerLabels)
  PROVE  WaitersAreCounted' /\ TokensHaveTakers'
<1>1. pc \in [Threads -> Labels] /\ data.value \in Nat
  BY SemaphoreAssumption DEF CountInv, SemInv, Typed, AnyWords
<1>2. ASSUME NEW L
      PROVE  Cardinality(At(pc', L)) =
               Cardinality(At(pc, L)) - One(pc[t], L) + One(l, L)
  BY <1>1, MoveCounts DEF Moves
<1>3. /\ Cardinality(At(pc, TakerLabels)) \in Nat /\ Cardinality(At(pc', TakerLabels)) \in Nat
  BY AtType
<1>4. WaitersAreCounted'
  <2>1. data.nwaiters = Cardinality(At(pc, WaitLabels))
    BY Counted DEF CountInv
  <2>2. QED BY <1>2, <2>1 DEF WaitersAreCounted, Registered, At, WaitLabels
<1>5. TokensHaveTakers'
  <2> SUFFICES ASSUME ~cancelled', At(pc', {"asleep"}) # {}, data'.value # 0
               PROVE  data'.value <= Cardinality(At(pc', TakerLabels))
    BY <1>3 DEF TokensHaveTakers, Asleep, At, TakerLabels
  <2>1. At(pc, {"asleep"}) # {}
    BY <1>1 DEF At
  <2>2. data.value <= Cardinality(At(pc, TakerLabels))
    BY <2>1, Counted DEF CountInv
  <2>3. data'.value <= data.value - One(pc[t], TakerLabels)
                                  + One(l, TakerLabels)
    BY <2>1
  <2>4. Cardinality(At(pc', TakerLabels)) =
          Cardinality(At(pc, TakerLabels)) - One(pc[t], TakerLabels)
                                           + One(l, TakerLabels)
    BY <1>2
  <2>5. QED BY <1>1, <1>3, <2>2, <2>3, <2>4 DEF One
<1>6. QED BY <1>4, <1>5

\* The ways of a wait: the value changes only with its taker, and a thread that is about
\* to sleep has seen it at 0.
LEMMA CountedLoop ==
  ASSUME CountInv, NEW t \in Threads, Loop(t, data), pc[t] \in {"register", "grab", "woken"},
         data'.value = data.value, UNCHANGED <<destroyed, cancelled>>,
         data'.nwaiters = data.nwaiters + (IF pc[t] = "register" THEN 1 ELSE 0)
  PROVE  WaitersAreCounted' /\ TokensHaveTakers'
<1>1. SemInv /\ data.value \in Nat /\ data.nwaiters \in Int
  BY SemaphoreAssumption DEF CountInv, SemInv, Typed, AnyWords
<1>2. ~destroyed
  BY <1>1, InUse
<1>3. PICK l \in {"futex_wait", "grab"} :
        pc' = [pc EXCEPT ![t] = l] /\ (l = "futex_wait" => data.value = 0)
  BY DEF Loop, Go
<1>4. /\ One(pc[t], WaitLabels) = IF pc[t] = "register" THEN 0 ELSE 1
      /\ One(l, WaitLabels) = 1
      /\ l = "grab" => One(pc[t], TakerLabels) <= 1 /\ One(l, TakerLabels) = 1
      /\ One(pc[t], TakerLabels) \in Int
  BY DEF One, WaitLabels, TakerLabels
<1>5. data'.nwaiters = data.nwaiters - One(pc[t], WaitLabels) + One(l, WaitLabels)
  BY <1>1, <1>4
<1>6. data'.value = 0 \/ data'.value <= data.value - One(pc[t], TakerLabels) + One(l, TakerLabels)
  BY <1>1, <1>3, <1>4
<1>7. l \in Labels /\ l # "asleep"
  BY DEF Labels
<1>8. QED BY <1>1, <1>2, <1>3, <1>5, <1>6, <1>7, CountedStep

\* A thread that goes on outside the slow path and leaves the waiters alone.
LEMMA CountedOutside ==
  ASSUME CountInv, NEW t \in Threads, NEW l \in Labels, pc' = [pc EXCEPT ![t] = l], ~destroyed,
         pc[t] \notin WaitLabels, l \notin WaitLabels, pc[t] \notin TakerLabels,
         data'.value \in Nat, data'.nwaiters = data.nwaiters,
         \/ data'.value <= data.value
         \/ At(pc, {"asleep"}) = {}
         \/ l = "wake" /\ data'.value = data.value + 1,
         UNCHANGED <<destroyed, cancelled>>
  PROVE  WaitersAreCounted' /\ TokensHaveTakers'
<1>1. data.value \in Nat /\ data.nwaiters \in Int
  BY SemaphoreAssumption DEF CountInv, SemInv, Typed, AnyWords
<1>2. /\ One(pc[t], WaitLabels) = 0 /\ One(l, WaitLabels) = 0 /\ One(pc[t], TakerLabels) = 0
      /\ One(l, TakerLabels) \in Nat /\ (l = "wake" => One(l, TakerLabels) = 1) /\ l # "asleep"
  BY DEF One, WaitLabels, TakerLabels
<1>3. data'.nwaiters = data.nwaiters - One(pc[t], WaitLabels) + One(l, WaitLabels)
  BY <1>1, <1>2
<1>4. \/ At(pc, {"asleep"}) = {}
      \/ data'.value <= data.value - One(pc[t], TakerLabels) + One(l, TakerLabels)
  BY <1>1, <1>2
<1>5. QED BY <1>2, <1>3, <1>4, CountedStep

LEMMA CountedWait ==
  ASSUME CountInv, NEW t \in Threads,
         \/ FastLoad(t) \/ FastCas(t) \/ FastCasFails(t) \/ Register(t) \/ Grab(t)
         \/ FutexWait(t) \/ Reload(t) \/ Unregister(t) \/ SpuriousWake(t) \/ GiveUp(t) \/ Cancel(t)
  PROVE  WaitersAreCounted' /\ TokensHaveTakers'
<1>0. SemInv /\ SemInv'
  BY WaitStep DEF CountInv
<1>1. /\ data.value \in Nat /\ data.nwaiters \in Int
      /\ data'.value \in Nat /\ data'.nwaiters \in Int
  BY <1>0, SemaphoreAssumption DEF SemInv, Typed, AnyWords
<1>2. pc[t] \notin {"idle", "wake"} /\ UNCHANGED destroyed
  BY DEF FastLoad, FastCas, FastCasFails, Register, Grab, FutexWait, Reload, Unregister,
         SpuriousWake, GiveUp, Cancel
<1>3. ~destroyed
  BY <1>0, <1>2, InUse
<1>4. CASE FastLoad(t) \/ FastCas(t) \/ FastCasFails(t)
  <2>1. PICK l \in {"register", "idle", "wait_cas", "trywait_cas"} : pc' = [pc EXCEPT ![t] = l]
    BY <1>4 DEF FastLoad, FastCas, FastCasFails, Return, Go
  <2>2. pc[t] \in {"wait", "trywait", "wait_cas", "trywait_cas"} /\ UNCHANGED <<destroyed, cancelled>>
    BY <1>4 DEF FastLoad, FastCas, FastCasFails
  <2>3. data'.value <= data.value /\ data'.nwaiters = data.nwaiters
    BY <1>1, <1>4 DEF FastLoad, FastCas, FastCasFails, Add
  <2>4. /\ l \in Labels /\ l \notin WaitLabels
        /\ pc[t] \notin WaitLabels /\ pc[t] \notin TakerLabels
    BY <2>1, <2>2 DEF Labels, WaitLabels, TakerLabels
  <2>5. QED BY <1>1, <1>3, <2>1, <2>2, <2>3, <2>4, CountedOutside
<1>5. CASE Register(t) \/ Reload(t) \/ (Grab(t) /\ data # d[t])
  <2>1. /\ Loop(t, data) /\ pc[t] \in {"register", "grab", "woken"}
        /\ UNCHANGED <<destroyed, cancelled>>
    BY <1>5 DEF Register, Reload, Grab
  <2>2. /\ data'.value = data.value
        /\ data'.nwaiters = data.nwaiters + (IF pc[t] = "register" THEN 1 ELSE 0)
    BY <1>1, <1>5 DEF Register, Reload, Grab, Add
  <2>3. QED BY <2>1, <2>2, CountedLoop
<1>6. CASE Grab(t) /\ data = d[t]
  <2>1. /\ pc' = [pc EXCEPT ![t] = "idle"] /\ pc[t] = "grab" /\ cancelled' = cancelled
        /\ data'.value = data.value - 1 /\ data'.nwaiters = data.nwaiters - 1
    BY <1>1, <1>6 DEF Grab, Return, Go, Add
  <2>2. /\ One(pc[t], WaitLabels) = 1 /\ One("idle", WaitLabels) = 0
        /\ One(pc[t], TakerLabels) = 1 /\ One("idle", TakerLabels) = 0
    BY <2>1 DEF One, WaitLabels, TakerLabels
  <2>3. /\ data'.nwaiters = data.nwaiters - One(pc[t], WaitLabels) + One("idle", WaitLabels)
        /\ data'.value <= data.value - One(pc[t], TakerLabels) + One("idle", TakerLabels)
    BY <1>1, <2>1, <2>2
  <2>4. "idle" \in Labels /\ "idle" # "asleep"
    BY DEF Labels
  <2>5. QED BY <1>1, <1>2, <1>3, <2>1, <2>3, <2>4, CountedStep
<1>7. CASE FutexWait(t) \/ SpuriousWake(t) \/ GiveUp(t) \/ Cancel(t)
  <2>1. PICK l \in {"asleep", "woken", "unregister"} : pc' = [pc EXCEPT ![t] = l]
    BY <1>7 DEF FutexWait, SpuriousWake, GiveUp, Cancel, Go
  <2>2. pc[t] \in {"futex_wait", "asleep", "woken"} /\ data' = data
    BY <1>7 DEF FutexWait, SpuriousWake, GiveUp, Cancel
  <2>3. l \in Labels /\ One(pc[t], WaitLabels) = 1 /\ One(l, WaitLabels) = 1
    BY <2>1, <2>2 DEF One, WaitLabels, Labels
  <2>4. data'.nwaiters = data.nwaiters - One(pc[t], WaitLabels) + One(l, WaitLabels)
    BY <1>1, <2>2, <2>3
  <2>5. CASE Cancel(t)
    BY <1>1, <1>2, <1>3, <2>1, <2>3, <2>4, <2>5, CountedStep DEF Cancel
  <2>6. CASE FutexWait(t) /\ data.value = 0
    BY <1>1, <1>2, <1>3, <2>1, <2>2, <2>3, <2>4, <2>6, CountedStep
  <2>7. CASE (FutexWait(t) /\ data.value # 0) \/ SpuriousWake(t) \/ GiveUp(t)
    <3>1. pc' = [pc EXCEPT ![t] = "woken"] \/ pc' = [pc EXCEPT ![t] = "unregister"]
      BY <2>7 DEF FutexWait, SpuriousWake, GiveUp, Go
    <3>2. pc[t] \in {"futex_wait", "asleep"} /\ cancelled' = cancelled
      BY <2>7 DEF FutexWait, SpuriousWake, GiveUp
    <3>3. ASSUME NEW m \in {"woken", "unregister"}, pc' = [pc EXCEPT ![t] = m]
          PROVE  WaitersAreCounted' /\ TokensHaveTakers'
      <4>1. m \in Labels /\ One(pc[t], WaitLabels) = 1 /\ One(m, WaitLabels) = 1 /\ m # "asleep"
        BY <2>2 DEF One, WaitLabels, Labels
      <4>2. One(pc[t], TakerLabels) = 0 /\ One(m, TakerLabels) \in Nat
        BY <3>2 DEF One, TakerLabels
      <4>3. /\ data'.nwaiters = data.nwaiters - One(pc[t], WaitLabels) + One(m, WaitLabels)
            /\ data'.value <= data.value - One(pc[t], TakerLabels) + One(m, TakerLabels)
        BY <1>1, <2>2, <4>1, <4>2
      <4>4. QED BY <1>1, <1>2, <1>3, <3>2, <3>3, <4>1, <4>3, CountedStep
    <3>4. QED BY <3>1, <3>3
  <2>8. QED BY <1>7, <2>5, <2>6, <2>7
<1>8. CASE Unregister(t)
  <2>1. /\ pc' = [pc EXCEPT ![t] = "idle"] /\ pc[t] = "unregister" /\ cancelled' = cancelled
        /\ data'.value = data.value /\ data'.nwaiters = data.nwaiters - 1
    BY <1>1, <1>8 DEF Unregister, Return, Go, Add
  <2>2. /\ One(pc[t], WaitLabels) = 1 /\ One("idle", WaitLabels) = 0
        /\ One(pc[t], TakerLabels) = 0 /\ One("idle", TakerLabels) = 0
    BY <2>1 DEF One, WaitLabels, TakerLabels
  <2>3. /\ data'.nwaiters = data.nwaiters - One(pc[t], WaitLabels) + One("idle", WaitLabels)
        /\ data'.value <= data.value - One(pc[t], TakerLabels) + One("idle", TakerLabels)
    BY <1>1, <2>1, <2>2
  <2>4. "idle" \in Labels /\ "idle" # "asleep"
    BY DEF Labels
  <2>5. QED BY <1>1, <1>2, <1>3, <2>1, <2>3, <2>4, CountedStep
<1>9. QED BY <1>4, <1>5, <1>6, <1>7, <1>8

\* sem_post wakes somebody unless the word it replaced says that nobody waits, and then
\* nobody is asleep.
LEMMA CountedPost ==
  ASSUME CountInv, NEW t \in Threads, Call(t) \/ PostLoad(t) \/ PostCas(t)
  PROVE  WaitersAreCounted' /\ TokensHaveTakers'
<1>0. SemInv /\ SemInv'
  BY PostStep DEF CountInv
<1>1. /\ data.value \in Nat /\ data.nwaiters \in Int /\ data'.value \in Nat
      /\ UNCHANGED <<destroyed, cancelled>>
  BY <1>0, SemaphoreAssumption DEF SemInv, Typed, AnyWords, Call, PostLoad, PostCas
<1>2. ~destroyed
  BY <1>0, InUse DEF Call, PostLoad, PostCas
<1>3. pc[t] \notin WaitLabels /\ pc[t] \notin TakerLabels
  BY DEF Call, PostLoad, PostCas, WaitLabels, TakerLabels
<1>4. CASE Call(t) \/ PostLoad(t) \/ (PostCas(t) /\ data # d[t])
  <2>1. PICK l \in {"wait", "trywait", "post", "idle", "post_cas"} : pc' = [pc EXCEPT ![t] = l]
    BY <1>4 DEF Call, PostLoad, PostCas, Return, Go
  <2>2. data' = data
    BY <1>4 DEF Call, PostLoad, PostCas
  <2>3. l \in Labels /\ l \notin WaitLabels
    BY DEF Labels, WaitLabels
  <2>4. data'.value <= data.value /\ data'.nwaiters = data.nwaiters
    BY <1>1, <2>2
  <2>5. QED BY <1>1, <1>2, <1>3, <2>1, <2>3, <2>4, CountedOutside
<1>5. CASE PostCas(t) /\ data = d[t]
  <2>1. data'.value = data.value + 1 /\ data'.nwaiters = data.nwaiters
    BY <1>1, <1>5 DEF PostCas, Add
  <2>2. "wake" \in Labels /\ "wake" \notin WaitLabels /\ "idle" \in Labels /\ "idle" \notin WaitLabels
    BY DEF Labels, WaitLabels
  <2>3. CASE data.nwaiters > 0
    <3>1. pc' = [pc EXCEPT ![t] = "wake"]
      BY <1>5, <2>3 DEF PostCas, Go
    <3>2. QED BY <1>1, <1>2, <1>3, <2>1, <2>2, <3>1, CountedOutside
  <2>4. CASE ~(data.nwaiters > 0)
    <3>1. pc' = [pc EXCEPT ![t] = "idle"]
      BY <1>5, <2>4 DEF PostCas, Return, Go
    <3>2. Cardinality(At(pc, WaitLabels)) = 0
      BY <1>1, <1>2, <2>4, Counted, AtType DEF CountInv
    <3>3. At(pc, WaitLabels) = {}
      BY <3>2, AtType, FS_EmptySet
    <3>4. At(pc, {"asleep"}) = {}
      BY <3>3 DEF At, WaitLabels
    <3>5. QED BY <1>1, <1>2, <1>3, <2>1, <2>2, <3>1, <3>4, CountedOutside
  <2>5. QED BY <2>3, <2>4
<1>6. QED BY <1>4, <1>5

\* The thread that wakes a sleeper hands the token on to it.
LEMMA CountedWake ==
  ASSUME CountInv, NEW t \in Threads, Wake(t)
  PROVE  WaitersAreCounted' /\ TokensHaveTakers'
<1>0. SemInv /\ pc \in [Threads -> Labels]
  BY DEF CountInv, SemInv, Typed
<1>1. pc[t] = "wake" /\ UNCHANGED <<data, destroyed, cancelled>>
  BY DEF Wake
<1>2. CASE Asleep = {} /\ Return(t)
  <2>1. pc' = [pc EXCEPT ![t] = "idle"]
    BY <1>2 DEF Return, Go
  <2>2. Asleep' = {} /\ Registered' = Registered
    BY <1>0, <1>1, <1>2, <2>1 DEF Asleep, Registered
  <2>3. QED BY <1>1, <2>2 DEF CountInv, WaitersAreCounted, TokensHaveTakers
<1>3. ASSUME NEW s \in Asleep, pc' = [pc EXCEPT ![t] = "idle", ![s] = "woken"]
      PROVE  WaitersAreCounted' /\ TokensHaveTakers'
  <2>1. s \in Threads /\ pc[s] = "asleep" /\ s # t
    BY <1>1, <1>3 DEF Asleep
  <2>2. Registered' = Registered
    BY <1>0, <1>1, <1>3, <2>1 DEF Registered
  <2>3. "idle" \in Labels /\ "woken" \in Labels
    BY DEF Labels
  <2>4. Cardinality(At(pc', TakerLabels)) =
          Cardinality(At(pc, TakerLabels)) - One(pc[t], TakerLabels) + One("idle", TakerLabels)
                                           - One(pc[s], TakerLabels) + One("woken", TakerLabels)
    <3>1. PICK r : Moves(pc, r, t, "idle")
      BY DEF Moves
    <3>2. Moves(r, pc', s, "woken")
      BY <1>0, <1>3, <2>1, <3>1 DEF Moves
    <3>3. QED BY <1>0, <2>1, <2>3, <3>1, <3>2, TwoMoveCounts
  <2>5. /\ One(pc[t], TakerLabels) = 1 /\ One("idle", TakerLabels) = 0
        /\ One(pc[s], TakerLabels) = 0 /\ One("woken", TakerLabels) = 1
    BY <1>1, <2>1 DEF One, TakerLabels
  <2>6. Cardinality(At(pc, TakerLabels)) \in Nat
    BY AtType
  <2>7. Cardinality(At(pc', TakerLabels)) = Cardinality(At(pc, TakerLabels))
    BY <2>4, <2>5, <2>6
  <2>8. Asleep # {}
    BY <1>3
  <2>9. TokensHaveTakers'
    BY <1>1, <2>7, <2>8 DEF CountInv, TokensHaveTakers, At, TakerLabels
  <2>10. QED BY <1>1, <2>2, <2>9 DEF CountInv, WaitersAreCounted
<1>4. QED BY <1>2, <1>3 DEF Wake

LEMMA CountStep ==
  ASSUME CountInv, [Next]_vars
  PROVE  CountInv'
<1>1. SemInv /\ SemInv'
  BY SemStep DEF CountInv
<1>2. CASE UNCHANGED vars
  BY <1>1, <1>2 DEF vars, CountInv, WaitersAreCounted, TokensHaveTakers, Registered, Asleep
<1>3. CASE Destroy
  BY <1>1, <1>3 DEF Destroy, CountInv, WaitersAreCounted, TokensHaveTakers, Asleep
<1>4. CASE Reinit
  <2>1. pc' = pc /\ data'.nwaiters = 0
    BY <1>4 DEF Reinit
  <2>2. Cardinality(At(pc, WaitLabels)) = 0 /\ At(pc, {"asleep"}) = {}
    BY <1>1, <1>4, NobodyWaits DEF Reinit
  <2>3. WaitersAreCounted'
    BY <2>1, <2>2 DEF WaitersAreCounted, Registered, At, WaitLabels
  <2>4. TokensHaveTakers'
    BY <2>1, <2>2 DEF TokensHaveTakers, Asleep, At
  <2>5. QED BY <1>1, <2>3, <2>4 DEF CountInv
<1>5. QED
  BY <1>1, <1>2, <1>3, <1>4, CountedWait, CountedPost, CountedWake DEF CountInv, Next, Step

LEMMA CountInvariance == Spec => []CountInv
<1>1. Init => CountInv
  <2>1. ASSUME Init PROVE Registered = {} /\ Asleep = {} /\ data.nwaiters = 0
    BY <2>1 DEF Init, sem_init, Registered, Asleep
  <2>2. Cardinality({}) = 0
    BY FS_EmptySet
  <2>3. QED BY <2>1, <2>2, InitSem DEF CountInv, WaitersAreCounted, TokensHaveTakers
<1>2. CountInv /\ [Next]_vars => CountInv'
  BY CountStep
<1>3. QED BY <1>1, <1>2, PTL DEF Spec

\* nwaiters is the number of threads that are registered as waiters, by whichever of the
\* ways out the others have left.
THEOREM ExactWaiters == Spec => []WaitersAreCounted
<1>1. CountInv => WaitersAreCounted
  BY DEF CountInv
<1>2. QED BY <1>1, CountInvariance, PTL

\* Without cancellation no sleeper is left beside a token that nobody has been sent for:
\* the wake-up that a sem_post owes is on its way for as long as its token is there.
THEOREM NoForgottenToken == Spec => []TokensHaveTakers
<1>1. CountInv => TokensHaveTakers
  BY DEF CountInv
<1>2. QED BY <1>1, CountInvariance, PTL

-----------------------------------------------------------------------------
(* The refinement. *)

\* The calls under way, as the abstract semaphore sees them.
call == [t \in Threads |-> Effective(pc[t])]

\* One thread goes on: only its own call changes.
LEMMA CallGoes ==
  ASSUME Typed, NEW t \in Threads, NEW l, pc' = [pc EXCEPT ![t] = l]
  PROVE  call' = [call EXCEPT ![t] = Effective(l)] /\ call[t] = Effective(pc[t])
BY DEF Typed, call

\* A step that neither ends a call nor changes the value is none of the abstract semaphore.
LEMMA Silent ==
  ASSUME Typed, NEW t \in Threads, NEW l, pc' = [pc EXCEPT ![t] = l],
         Effective(l) = Effective(pc[t]), data'.value = data.value
  PROVE  UNCHANGED Abstract!vars
<1>1. call' = call
  BY CallGoes DEF call
<1>2. QED BY <1>1 DEF Abstract!vars, call

LEMMA TakeMaps ==
  ASSUME SemInv, NEW t \in Threads, FastCas(t) \/ (Grab(t) /\ data = d[t])
  PROVE  Abstract!Take(t)
<1>0. data.value \in Int
  BY SemaphoreAssumption DEF SemInv, Typed, AnyWords
<1>1. pc' = [pc EXCEPT ![t] = "idle"] /\ data'.value = data.value - 1 /\ data = d[t]
      /\ pc[t] \in {"wait_cas", "trywait_cas", "grab"}
  BY <1>0 DEF FastCas, Grab, Return, Go, Add
<1>2. Effective(pc[t]) \in {"wait", "trywait"} /\ Effective("idle") = "none"
  BY <1>1 DEF Effective
<1>3. data.value > 0
  BY <1>1 DEF SemInv, CopiesAllow
<1>4. call' = [call EXCEPT ![t] = "none"] /\ call[t] \in {"wait", "trywait"}
  BY <1>1, <1>2, CallGoes DEF SemInv
<1>5. QED BY <1>1, <1>3, <1>4 DEF Abstract!Take, Abstract!Effect, call

LEMMA WaitMaps ==
  ASSUME SemInv, NEW t \in Threads,
         \/ FastLoad(t) \/ FastCas(t) \/ FastCasFails(t) \/ Register(t) \/ Grab(t)
         \/ FutexWait(t) \/ Reload(t) \/ Unregister(t) \/ SpuriousWake(t) \/ GiveUp(t) \/ Cancel(t)
  PROVE  Abstract!Take(t) \/ Abstract!GiveUp(t) \/ Abstract!TryFails(t) \/ UNCHANGED Abstract!vars
<1>1. Typed /\ data.value \in Nat
  BY SemaphoreAssumption DEF SemInv, Typed, AnyWords
<1>2. ASSUME pc[t] \in {"trywait", "trywait_cas"}, data.value = 0, Return(t), data' = data
      PROVE  Abstract!TryFails(t)
  <2>1. pc' = [pc EXCEPT ![t] = "idle"]
    BY <1>2 DEF Return, Go
  <2>2. Effective("idle") = "none" /\ Effective(pc[t]) = "trywait"
    BY <1>2 DEF Effective
  <2>3. call' = [call EXCEPT ![t] = "none"] /\ call[t] = "trywait"
    BY <1>1, <2>1, <2>2, CallGoes
  <2>4. QED BY <1>2, <2>3 DEF Abstract!TryFails, Abstract!Effect, call
<1>3. ASSUME NEW w, Loop(t, w), data'.value = data.value, pc[t] \in {"register", "grab", "woken"}
      PROVE  UNCHANGED Abstract!vars
  <2>1. PICK l \in {"futex_wait", "grab"} : pc' = [pc EXCEPT ![t] = l]
    BY <1>3 DEF Loop, Go
  <2>2. Effective(l) = Effective(pc[t])
    BY <1>3 DEF Effective
  <2>3. QED BY <1>1, <1>3, <2>1, <2>2, Silent
<1>4. CASE FastLoad(t) \/ FastCasFails(t)
  <2>1. data' = data
    BY <1>4 DEF FastLoad, FastCasFails
  <2>2. CASE pc[t] \in {"trywait", "trywait_cas"} /\ data.value = 0
    BY <1>2, <1>4, <2>1, <2>2 DEF FastLoad, FastCasFails
  <2>3. CASE pc[t] \in {"trywait", "trywait_cas"} /\ data.value # 0
    <3>1. pc' = [pc EXCEPT ![t] = "trywait_cas"]
      BY <1>4, <2>3 DEF FastLoad, FastCasFails, Go
    <3>2. Effective("trywait_cas") = Effective(pc[t])
      BY <2>3 DEF Effective
    <3>3. QED BY <1>1, <2>1, <3>1, <3>2, Silent
  <2>4. CASE pc[t] \in {"wait", "wait_cas"}
    <3>1. PICK l \in {"register", "wait_cas"} : pc' = [pc EXCEPT ![t] = l]
      BY <1>4, <2>4 DEF FastLoad, FastCasFails, Go
    <3>2. Effective(l) = Effective(pc[t])
      BY <2>4 DEF Effective
    <3>3. QED BY <1>1, <2>1, <3>1, <3>2, Silent
  <2>5. QED BY <1>4, <2>2, <2>3, <2>4 DEF FastLoad, FastCasFails
<1>5. CASE FastCas(t) \/ (Grab(t) /\ data = d[t])
  BY <1>5, TakeMaps
<1>6. CASE Register(t)
  <2>1. data'.value = data.value
    BY <1>1, <1>6 DEF Register, Add
  <2>2. QED BY <1>3, <1>6, <2>1 DEF Register
<1>7. CASE Grab(t) /\ data # d[t]
  BY <1>3, <1>7 DEF Grab
<1>8. CASE Reload(t)
  BY <1>3, <1>8 DEF Reload
<1>9. CASE FutexWait(t) \/ SpuriousWake(t)
  <2>1. PICK l \in {"asleep", "woken"} : pc' = [pc EXCEPT ![t] = l]
    BY <1>9 DEF FutexWait, SpuriousWake, Go
  <2>2. Effective(l) = Effective(pc[t]) /\ data' = data
    BY <1>9 DEF FutexWait, SpuriousWake, Effective
  <2>3. QED BY <1>1, <2>1, <2>2, Silent
<1>10. CASE Unregister(t)
  <2>1. pc' = [pc EXCEPT ![t] = "idle"] /\ pc[t] = "unregister" /\ data'.value = data.value
    BY <1>1, <1>10 DEF Unregister, Return, Go, Add
  <2>2. Effective("idle") = Effective("unregister")
    BY DEF Effective
  <2>3. QED BY <1>1, <2>1, <2>2, Silent
<1>11. CASE GiveUp(t) \/ Cancel(t)
  <2>1. pc' = [pc EXCEPT ![t] = "unregister"] /\ pc[t] \in {"futex_wait", "asleep", "woken"}
        /\ data' = data
    BY <1>11 DEF GiveUp, Cancel, Go
  <2>2. Effective("unregister") = "none" /\ Effective(pc[t]) = "wait"
    BY <2>1 DEF Effective
  <2>3. call' = [call EXCEPT ![t] = "none"] /\ call[t] = "wait"
    BY <1>1, <2>1, <2>2, CallGoes
  <2>4. QED BY <2>1, <2>3 DEF Abstract!GiveUp, Abstract!Effect, call
<1>12. QED BY <1>4, <1>5, <1>6, <1>7, <1>8, <1>9, <1>10, <1>11

LEMMA PostMaps ==
  ASSUME SemInv, NEW t \in Threads, Call(t) \/ PostLoad(t) \/ PostCas(t) \/ Wake(t)
  PROVE  Abstract!Call(t) \/ Abstract!Put(t) \/ Abstract!Overflow(t) \/ UNCHANGED Abstract!vars
<1>1. Typed /\ data.value \in 0 .. SEM_VALUE_MAX
  BY DEF SemInv, Typed, AnyWords
<1>2. CASE Call(t)
  <2>1. PICK c \in {"wait", "trywait", "post"} : pc' = [pc EXCEPT ![t] = c]
    BY <1>2 DEF Call, Go
  <2>2. Effective(c) = c /\ Effective("idle") = "none" /\ pc[t] = "idle" /\ data' = data
    BY <1>2 DEF Call, Effective
  <2>3. call' = [call EXCEPT ![t] = c] /\ call[t] = "none"
    BY <1>1, <2>1, <2>2, CallGoes
  <2>4. QED BY <2>2, <2>3 DEF Abstract!Call, call
<1>3. ASSUME data' = data, pc[t] \in {"post", "post_cas"},
             IF data.value = SEM_VALUE_MAX THEN Return(t) ELSE Go(t, "post_cas", data)
      PROVE  Abstract!Overflow(t) \/ UNCHANGED Abstract!vars
  <2>1. Effective("idle") = "none" /\ Effective(pc[t]) = "post" /\ Effective("post_cas") = "post"
    BY <1>3 DEF Effective
  <2>2. CASE data.value = SEM_VALUE_MAX
    <3>1. pc' = [pc EXCEPT ![t] = "idle"]
      BY <1>3, <2>2 DEF Return, Go
    <3>2. call' = [call EXCEPT ![t] = "none"] /\ call[t] = "post"
      BY <1>1, <2>1, <3>1, CallGoes
    <3>3. QED BY <1>3, <2>2, <3>2 DEF Abstract!Overflow, Abstract!Effect, call
  <2>3. CASE data.value # SEM_VALUE_MAX
    BY <1>1, <1>3, <2>1, <2>3, Silent DEF Go
  <2>4. QED BY <2>2, <2>3
<1>4. CASE PostLoad(t)
  BY <1>3, <1>4 DEF PostLoad
<1>5. CASE PostCas(t) /\ data # d[t]
  BY <1>3, <1>5 DEF PostCas
<1>6. CASE PostCas(t) /\ data = d[t]
  <2>1. PICK l \in {"wake", "idle"} : pc' = [pc EXCEPT ![t] = l]
    BY <1>6 DEF PostCas, Return, Go
  <2>2. Effective(l) = "none" /\ Effective(pc[t]) = "post"
    BY <1>6 DEF PostCas, Effective
  <2>3. data.value < SEM_VALUE_MAX /\ data'.value = data.value + 1
    BY <1>6 DEF PostCas, Add, SemInv, CopiesAllow
  <2>4. call' = [call EXCEPT ![t] = "none"] /\ call[t] = "post"
    BY <1>1, <2>1, <2>2, CallGoes
  <2>5. QED BY <2>3, <2>4 DEF Abstract!Put, Abstract!Effect, call
<1>7. CASE Wake(t)
  <2>1. Effective("wake") = Effective("idle") /\ Effective("asleep") = Effective("woken")
    BY DEF Effective
  <2>2. pc[t] = "wake" /\ data' = data
    BY <1>7 DEF Wake
  <2>3. CASE Asleep = {} /\ Return(t)
    BY <1>1, <2>1, <2>2, <2>3, Silent DEF Return, Go
  <2>4. ASSUME NEW s \in Asleep, pc' = [pc EXCEPT ![t] = "idle", ![s] = "woken"]
        PROVE  UNCHANGED Abstract!vars
    <3>1. \A u \in Threads : Effective(pc'[u]) = Effective(pc[u])
      BY <1>1, <2>1, <2>2, <2>4 DEF Typed, Asleep
    <3>2. QED BY <2>2, <3>1 DEF Abstract!vars
  <2>5. QED BY <1>7, <2>3, <2>4 DEF Wake
<1>8. QED BY <1>2, <1>4, <1>5, <1>6, <1>7

\* Every step of the semaphore is a step of the counter of tokens, or none.
LEMMA StepMaps ==
  ASSUME SemInv, [Next]_vars
  PROVE  [Abstract!Next]_(Abstract!vars)
<1>1. CASE UNCHANGED vars
  BY <1>1 DEF vars, Abstract!vars
<1>2. CASE Destroy
  BY <1>2 DEF Destroy, Abstract!vars
<1>3. CASE Reinit
  <2>1. \A t \in Threads : Effective(pc[t]) = "none"
    BY <1>3 DEF Reinit, SemInv, NoUseAfterDestruction, Effective
  <2>2. data'.value \in 0 .. SEM_VALUE_MAX /\ pc' = pc
    BY <1>3 DEF Reinit
  <2>3. Abstract!Reinit
    BY <2>1, <2>2 DEF Abstract!Reinit
  <2>4. QED BY <2>3 DEF Abstract!Next
<1>4. ASSUME NEW t \in Threads, Step(t) \/ Call(t) \/ SpuriousWake(t) \/ GiveUp(t) \/ Cancel(t)
      PROVE  [Abstract!Next]_(Abstract!vars)
  BY <1>4, WaitMaps, PostMaps DEF Step, Abstract!Next
<1>5. QED BY <1>1, <1>2, <1>3, <1>4 DEF Next

\* For any number of threads the semaphore implements the counter of tokens: none is lost
\* or invented, sem_trywait fails only without one and sem_post only at SEM_VALUE_MAX.
THEOREM TokenRefinement == Spec => ImplementsTokens
<1>1. Init => Abstract!Init
  BY SemaphoreAssumption DEF Init, sem_init, Abstract!Init, Effective
<1>2. SemInv /\ [Next]_vars => [Abstract!Next]_(Abstract!vars)
  BY StepMaps
<1>3. QED BY <1>1, <1>2, SemInvariance, PTL DEF Spec, ImplementsTokens, Abstract!Safety

=============================================================================
