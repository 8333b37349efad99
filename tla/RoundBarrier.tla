---------------------------- MODULE RoundBarrier ----------------------------
(***************************************************************************)
(* What glibc's barrier promises (the comment at the head of               *)
(* nptl/pthread_barrier_wait.c): in each round it waits for count threads  *)
(* to enter, then exactly these threads may leave, one of them as the      *)
(* serial thread.                                                          *)
(***************************************************************************)
EXTENDS Naturals, FiniteSets

CONSTANTS Threads, count

VARIABLE phase   \* where each thread is: outside, waiting, or free to leave

vars == phase

Waiting == {t \in Threads : phase[t] = "waiting"}

Init == phase = [t \in Threads |-> "outside"]

Enter(t) ==
  /\ phase[t] = "outside"
  /\ Cardinality(Waiting) + 1 < count
  /\ phase' = [phase EXCEPT ![t] = "waiting"]

\* The last thread of a round frees all of them; it is the serial one.
Complete(t) ==
  /\ phase[t] = "outside"
  /\ Cardinality(Waiting) + 1 = count
  /\ phase' = [s \in Threads |-> IF s = t THEN "serial" ELSE IF s \in Waiting THEN "free" ELSE phase[s]]

Leave(t) ==
  /\ phase[t] \in {"free", "serial"}
  /\ phase' = [phase EXCEPT ![t] = "outside"]

Next == \E t \in Threads : Enter(t) \/ Complete(t) \/ Leave(t)

Safety == Init /\ [][Next]_vars

\* Every thread of a complete round leaves.
Spec == Safety /\ \A t \in Threads : WF_vars(Leave(t))

=============================================================================
