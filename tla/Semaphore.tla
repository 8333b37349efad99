----------------------------- MODULE Semaphore -----------------------------
(***************************************************************************)
(* glibc's semaphore on machines with 64-bit atomics (nptl/sem_post.c,     *)
(* nptl/sem_waitcommon.c): the value and the number of waiters share one   *)
(* word, and waiters sleep on the value as a futex.                        *)
(*                                                                         *)
(* Each atomic operation on the word is an action; pc[t] is what thread t  *)
(* does next.  Atomics are taken to be sequentially consistent.  The futex *)
(* is the kernel's: a waiter sleeps only if the value is still zero, a     *)
(* wake-up goes to any sleeper, and sleepers may also wake by themselves.  *)
(***************************************************************************)
EXTENDS Integers, FiniteSets

CONSTANTS
  Threads,
  SEM_VALUE_MAX,
  Cancellable    \* the threads that pthread_cancel is called for

ASSUME SemaphoreAssumption ==
  SEM_VALUE_MAX \in Nat \ {0} /\ IsFiniteSet(Threads) /\ Cancellable \subseteq Threads

VARIABLES
  data,        \* sem->data, as the value and the number of waiters in it
  pc,
  d,           \* the local copy of data
  destroyed,   \* has the semaphore been destroyed
  cancelled    \* history: has a wait been cancelled

vars == <<data, pc, d, destroyed, cancelled>>

None == [value |-> 0, nwaiters |-> 0]

\* Thread t goes on at label l with copy w.
Go(t, l, w) == pc' = [pc EXCEPT ![t] = l] /\ d' = [d EXCEPT ![t] = w]

Return(t) == Go(t, "idle", None)

Add(v, n) == data' = [value |-> data.value + v, nwaiters |-> data.nwaiters + n]

sem_init(n) == data = [value |-> n, nwaiters |-> 0]

Init ==
  /\ \E n \in 0 .. SEM_VALUE_MAX : sem_init(n)
  /\ pc = [t \in Threads |-> "idle"]
  /\ d = [t \in Threads |-> None]
  /\ destroyed = FALSE
  /\ cancelled = FALSE

Call(t) ==
  /\ pc[t] = "idle" /\ ~destroyed
  /\ \E l \in {"wait", "trywait", "post"} : Go(t, l, None)
  /\ UNCHANGED <<data, destroyed, cancelled>>

-----------------------------------------------------------------------------
(* __new_sem_wait_fast; sem_trywait wants a definitive result. *)

FastLoad(t) ==
  /\ \/ pc[t] = "wait" /\ IF data.value = 0 THEN Go(t, "register", None) ELSE Go(t, "wait_cas", data)
     \/ pc[t] = "trywait" /\ IF data.value = 0 THEN Return(t) ELSE Go(t, "trywait_cas", data)
  /\ UNCHANGED <<data, destroyed, cancelled>>

FastCas(t) ==
  /\ pc[t] \in {"wait_cas", "trywait_cas"}
  /\ data = d[t]
  /\ Add(-1, 0)
  /\ Return(t)
  /\ UNCHANGED <<destroyed, cancelled>>

\* Faulty variant of FastCasFails: sem_trywait does not insist.
FastCasFailsAtOnce(t) ==
  /\ \/ pc[t] = "wait_cas" /\ Go(t, "register", None)
     \/ pc[t] = "trywait_cas" /\ data # d[t] /\ Return(t)
  /\ UNCHANGED <<data, destroyed, cancelled>>

\* The exchange is a weak one: it may fail although the word is the same.
FastCasFails(t) ==
  /\ \/ pc[t] = "wait_cas" /\ Go(t, "register", None)
     \/ /\ pc[t] = "trywait_cas" /\ data # d[t]
        /\ IF data.value = 0 THEN Return(t) ELSE Go(t, "trywait_cas", data)
  /\ UNCHANGED <<data, destroyed, cancelled>>

-----------------------------------------------------------------------------
(* __new_sem_wait_slow64. *)

\* The loop tests the copy: without a token in it the thread is going to sleep.
Loop(t, w) == IF w.value = 0 THEN Go(t, "futex_wait", None) ELSE Go(t, "grab", w)

Register(t) ==
  /\ pc[t] = "register"
  /\ Add(0, 1)
  /\ Loop(t, data)
  /\ UNCHANGED <<destroyed, cancelled>>

\* Faulty variant of Grab: the waiter stays registered.
GrabStaysRegistered(t) ==
  /\ pc[t] = "grab"
  /\ IF data = d[t] THEN Add(-1, 0) /\ Return(t) ELSE Loop(t, data) /\ UNCHANGED data
  /\ UNCHANGED <<destroyed, cancelled>>

\* Faulty variant of Grab: the failed exchange does not refresh the copy.
GrabStale(t) ==
  /\ pc[t] = "grab"
  /\ IF data = d[t] THEN Add(-1, -1) /\ Return(t) ELSE UNCHANGED <<data, pc, d>>
  /\ UNCHANGED <<destroyed, cancelled>>

\* Takes a token and stops being a waiter in one exchange.
Grab(t) ==
  /\ pc[t] = "grab"
  /\ IF data = d[t] THEN Add(-1, -1) /\ Return(t) ELSE Loop(t, data) /\ UNCHANGED data
  /\ UNCHANGED <<destroyed, cancelled>>

\* do_futex_wait: EAGAIN if there is a token.
FutexWait(t) ==
  /\ pc[t] = "futex_wait"
  /\ Go(t, IF data.value = 0 THEN "asleep" ELSE "woken", None)
  /\ UNCHANGED <<data, destroyed, cancelled>>

\* The kernel may end any sleep (external).
SpuriousWake(t) ==
  /\ pc[t] = "asleep"
  /\ Go(t, "woken", None)
  /\ UNCHANGED <<data, destroyed, cancelled>>

Reload(t) ==
  /\ pc[t] = "woken"
  /\ Loop(t, data)
  /\ UNCHANGED <<data, destroyed, cancelled>>

\* ETIMEDOUT, EINTR or EOVERFLOW, some of them without having slept.
GiveUp(t) ==
  /\ pc[t] \in {"futex_wait", "asleep"}
  /\ Go(t, "unregister", None)
  /\ UNCHANGED <<data, destroyed, cancelled>>

\* While the system call is made cancellation is asynchronous: the thread may also be
\* cancelled when it has been woken and not yet gone on.  __sem_wait_cleanup follows.
Cancel(t) ==
  /\ t \in Cancellable
  /\ pc[t] \in {"futex_wait", "asleep", "woken"}
  /\ Go(t, "unregister", None)
  /\ cancelled' = TRUE
  /\ UNCHANGED <<data, destroyed>>

Unregister(t) ==
  /\ pc[t] = "unregister"
  /\ Add(0, -1)
  /\ Return(t)
  /\ UNCHANGED <<destroyed, cancelled>>

-----------------------------------------------------------------------------
(* __new_sem_post. *)

PostLoad(t) ==
  /\ pc[t] = "post"
  /\ IF data.value = SEM_VALUE_MAX THEN Return(t) ELSE Go(t, "post_cas", data)
  /\ UNCHANGED <<data, destroyed, cancelled>>

\* Faulty variant of PostCas: the waiters are looked for behind the exchange.
PostCasThenLook(t) ==
  /\ pc[t] \in {"post_cas", "post_look"}
  /\ \/ pc[t] = "post_cas" /\ data = d[t] /\ Add(1, 0) /\ Go(t, "post_look", None)
     \/ /\ pc[t] = "post_cas" /\ data # d[t] /\ UNCHANGED data
        /\ IF data.value = SEM_VALUE_MAX THEN Return(t) ELSE Go(t, "post_cas", data)
     \/ /\ pc[t] = "post_look" /\ UNCHANGED data
        /\ IF data.nwaiters > 0 THEN Go(t, "wake", None) ELSE Return(t)
  /\ UNCHANGED <<destroyed, cancelled>>

\* Adds the token; the word it replaces tells whether anybody has to be woken.
PostCas(t) ==
  /\ pc[t] = "post_cas"
  /\ IF data = d[t]
       THEN Add(1, 0) /\ IF data.nwaiters > 0 THEN Go(t, "wake", None) ELSE Return(t)
       ELSE /\ IF data.value = SEM_VALUE_MAX THEN Return(t) ELSE Go(t, "post_cas", data)
            /\ UNCHANGED data
  /\ UNCHANGED <<destroyed, cancelled>>

Asleep == {t \in Threads : pc[t] = "asleep"}

\* Faulty variant of Wake: the wake-up is forgotten.
WakeNobody(t) ==
  /\ pc[t] = "wake"
  /\ Return(t)
  /\ UNCHANGED <<data, destroyed, cancelled>>

\* futex_wake of one sleeper, if there is one.
Wake(t) ==
  /\ pc[t] = "wake"
  /\ \/ Asleep = {} /\ Return(t)
     \/ \E s \in Asleep : pc' = [pc EXCEPT ![t] = "idle", ![s] = "woken"] /\ UNCHANGED d
  /\ UNCHANGED <<data, destroyed, cancelled>>

-----------------------------------------------------------------------------
(* Destruction: sem_destroy does nothing; the memory is the program's again.  POSIX   *)
(* allows it when no call is under way, a sem_post being over with its token.         *)

\* The call that a thread at label l has begun and that has not taken effect.
Effective(l) ==
  CASE l \in {"post", "post_cas"} -> "post"
    [] l \in {"trywait", "trywait_cas"} -> "trywait"
    [] l \in {"wait", "wait_cas", "register", "grab", "futex_wait", "asleep", "woken"} -> "wait"
    [] OTHER -> "none"

Destroy ==
  /\ ~destroyed
  /\ \A t \in Threads : Effective(pc[t]) = "none" /\ pc[t] # "unregister"
  /\ destroyed' = TRUE
  /\ UNCHANGED <<data, pc, d, cancelled>>

Reinit ==
  /\ destroyed
  /\ destroyed' = FALSE
  /\ \E n \in 0 .. SEM_VALUE_MAX : data' = [value |-> n, nwaiters |-> 0]
  /\ UNCHANGED <<pc, d, cancelled>>

-----------------------------------------------------------------------------
Step(t) ==
  \/ FastLoad(t) \/ FastCas(t) \/ FastCasFails(t)
  \/ Register(t) \/ Grab(t) \/ FutexWait(t) \/ Reload(t) \/ Unregister(t)
  \/ PostLoad(t) \/ PostCas(t) \/ Wake(t)

Next ==
  \/ \E t \in Threads : Step(t) \/ Call(t) \/ SpuriousWake(t) \/ GiveUp(t) \/ Cancel(t)
  \/ Destroy \/ Reinit

Spec == Init /\ [][Next]_vars

\* A thread that is not asleep goes on; nothing else has to happen.
FairSpec == Spec /\ \A t \in Threads : WF_vars(Step(t))

-----------------------------------------------------------------------------
(* Properties. *)

Registered == {t \in Threads : pc[t] \in {"grab", "futex_wait", "asleep", "woken", "unregister"}}

\* nwaiters is exact whichever way the waits ended, by a token, a time-out, a signal
\* or a cancellation; a count too low would make sem_post skip its wake-up.
WaitersAreCounted == ~destroyed => data.nwaiters = Cardinality(Registered)

\* As long as somebody sleeps there is no token that nobody has been sent for: each
\* one has a thread about to wake a sleeper or about to grab it.  A waiter that is
\* cancelled when it has been woken takes the wake-up with it: __sem_wait_cleanup only
\* unregisters, where the condition variable's clean-up wakes another waiter.
TokensHaveTakers ==
  ~cancelled /\ Asleep # {} =>
    data.value <= Cardinality({t \in Threads : pc[t] \in {"wake", "woken", "grab"}})

\* sem_post does not touch the semaphore once its token can be taken, because the
\* taker may destroy it at once.
NoUseAfterDestruction == destroyed => \A t \in Threads : pc[t] \in {"idle", "wake"}

Abstract == INSTANCE TokenSemaphore WITH
  tokens <- data.value, call <- [t \in Threads |-> Effective(pc[t])]

\* The semaphore loses and invents no token and sem_trywait fails only without one,
\* whatever times out, is cancelled or is destroyed.
ImplementsTokens == Abstract!Safety

\* As long as no wait has been cancelled a token does not lie while somebody waits.
TokensAreTaken == []~cancelled => Abstract!TakersTake

=============================================================================
