--------------------------- MODULE TokenSemaphore ---------------------------
(***************************************************************************)
(* What glibc's POSIX semaphore promises its callers (the comment at the   *)
(* head of nptl/sem_waitcommon.c): sem_post adds a token, sem_wait takes   *)
(* one and waits until there is one, sem_trywait fails only without one.   *)
(***************************************************************************)
EXTENDS Naturals

CONSTANTS Threads, SEM_VALUE_MAX

VARIABLES
  tokens,   \* the value of the semaphore
  call      \* the call of each thread that has not taken effect yet

vars == <<tokens, call>>

Init == tokens \in 0 .. SEM_VALUE_MAX /\ call = [t \in Threads |-> "none"]

Call(t) ==
  /\ call[t] = "none"
  /\ \E c \in {"wait", "trywait", "post"} : call' = [call EXCEPT ![t] = c]
  /\ UNCHANGED tokens

Effect(t) == call' = [call EXCEPT ![t] = "none"]

Take(t) == call[t] \in {"wait", "trywait"} /\ tokens > 0 /\ tokens' = tokens - 1 /\ Effect(t)

\* A time-out, a signal or a cancellation.
GiveUp(t) == call[t] = "wait" /\ Effect(t) /\ UNCHANGED tokens

TryFails(t) == call[t] = "trywait" /\ tokens = 0 /\ Effect(t) /\ UNCHANGED tokens

Put(t) == call[t] = "post" /\ tokens < SEM_VALUE_MAX /\ tokens' = tokens + 1 /\ Effect(t)

Overflow(t) == call[t] = "post" /\ tokens = SEM_VALUE_MAX /\ Effect(t) /\ UNCHANGED tokens

\* The semaphore is destroyed and its memory made a semaphore again.
Reinit == (\A t \in Threads : call[t] = "none") /\ tokens' \in 0 .. SEM_VALUE_MAX /\ UNCHANGED call

Next ==
  \/ \E t \in Threads :
       Call(t) \/ Take(t) \/ GiveUp(t) \/ TryFails(t) \/ Put(t) \/ Overflow(t)
  \/ Reinit

Safety == Init /\ [][Next]_vars

\* No token is left lying while someone waits for it.
TakersTake == WF_vars(\E t \in Threads : Take(t))

=============================================================================
