------------------------------ MODULE Barrier ------------------------------
(***************************************************************************)
(* glibc's barrier: nptl/pthread_barrier_init.c, pthread_barrier_wait.c    *)
(* and pthread_barrier_destroy.c.                                          *)
(*                                                                         *)
(* Each atomic operation is an action; pc[t] is what thread t does next.   *)
(* Atomics are taken to be sequentially consistent; the two futexes are    *)
(* the kernel's: a thread sleeps only if the word still has the value it   *)
(* names, and may wake by itself.                                          *)
(***************************************************************************)
EXTENDS Naturals, FiniteSets

CONSTANTS
  Threads,
  count,
  BARRIER_IN_THRESHOLD,   \* UINT_MAX / 2, scaled down
  DestroyAtThreshold      \* may the program destroy a barrier that is to be reset

\* pthread_barrier_init returns EINVAL for other counts.
ASSUME BarrierAssumption ==
  /\ BARRIER_IN_THRESHOLD \in Nat
  /\ count \in 1 .. BARRIER_IN_THRESHOLD - 1
  /\ DestroyAtThreshold \in BOOLEAN
  /\ IsFiniteSet(Threads)

VARIABLES
  in, out, current_round,   \* the fields of the barrier
  pc,
  i,                        \* each thread's position, or its copy of in
  cr,                       \* each thread's copy of current_round
  stage                     \* is the barrier in use, being destroyed or destroyed

fields == <<in, out, current_round>>
vars   == <<fields, pc, i, cr, stage>>

max_in_before_reset == BARRIER_IN_THRESHOLD - (BARRIER_IN_THRESHOLD % count)

Goto(t, l) == pc' = [pc EXCEPT ![t] = l]

\* Thread t goes on at label l, outside of the barrier without position and copy.
Leave(t, l) == Goto(t, l) /\ i' = [i EXCEPT ![t] = 0] /\ cr' = [cr EXCEPT ![t] = 0]

Init ==
  /\ in = 0 /\ out = 0 /\ current_round = 0
  /\ pc = [t \in Threads |-> "idle"]
  /\ i = [t \in Threads |-> 0]
  /\ cr = [t \in Threads |-> 0]
  /\ stage = "used"

-----------------------------------------------------------------------------
(* __pthread_barrier_wait: entering. *)

Enter(t) ==
  /\ pc[t] = "restart" \/ (pc[t] = "idle" /\ stage = "used")
  /\ in' = in + 1
  /\ i' = [i EXCEPT ![t] = in + 1]
  /\ Goto(t, IF in + 1 > max_in_before_reset THEN "reset_wait" ELSE "load_round")
  /\ UNCHANGED <<out, current_round, cr, stage>>

\* A post-reset thread sleeps on in.
ResetWait(t) ==
  /\ pc[t] = "reset_wait"
  /\ Goto(t, IF in = i[t] THEN "asleep_reset" ELSE "load_in")
  /\ UNCHANGED <<fields, i, cr, stage>>

LoadIn(t) ==
  /\ pc[t] = "load_in"
  /\ IF in > max_in_before_reset
       THEN i' = [i EXCEPT ![t] = in] /\ Goto(t, "reset_wait")
       ELSE i' = [i EXCEPT ![t] = 0] /\ Goto(t, "restart")
  /\ UNCHANGED <<fields, cr, stage>>

-----------------------------------------------------------------------------
(* __pthread_barrier_wait: the rounds. *)

\* What a thread does about round r, its new copy of current_round.
Consider(t, r) ==
  /\ cr' = [cr EXCEPT ![t] = r]
  /\ Goto(t, IF r + count <= i[t] THEN "complete" ELSE IF i[t] > r THEN "round_wait" ELSE "leave")

LoadRound(t) ==
  /\ pc[t] = "load_round"
  /\ Consider(t, current_round)
  /\ UNCHANGED <<fields, i, stage>>

\* Completes all rounds up to the thread's position at once.
Complete(t) ==
  /\ pc[t] = "complete"
  /\ IF current_round = cr[t]
       THEN LET newcr == i[t] - (i[t] % count)
            IN  /\ current_round' = newcr
                /\ cr' = [cr EXCEPT ![t] = newcr]
                /\ Goto(t, "wake_round")
       ELSE Consider(t, current_round) /\ UNCHANGED current_round
  /\ UNCHANGED <<in, out, i, stage>>

\* The threads that sleep in l are woken and go on at m, and thread t goes on at n.
WakeAll(t, l, m, n) == pc' = [s \in Threads |-> IF s = t THEN n ELSE IF pc[s] \in l THEN m[pc[s]] ELSE pc[s]]

WakeRound(t) ==
  /\ pc[t] = "wake_round"
  /\ WakeAll(t, {"asleep_round"}, [asleep_round |-> "reload_round"],
             IF i[t] <= cr[t] THEN "leave" ELSE "round_wait")
  /\ UNCHANGED <<fields, i, cr, stage>>

RoundWait(t) ==
  /\ pc[t] = "round_wait"
  /\ Goto(t, IF current_round = cr[t] THEN "asleep_round" ELSE "reload_round")
  /\ UNCHANGED <<fields, i, cr, stage>>

\* Faulty variant of ReloadRound: a wake-up is taken for the end of the round.
ReloadRoundTrusting(t) ==
  /\ pc[t] = "reload_round"
  /\ cr' = [cr EXCEPT ![t] = current_round]
  /\ Goto(t, "leave")
  /\ UNCHANGED <<fields, i, stage>>

ReloadRound(t) ==
  /\ pc[t] = "reload_round"
  /\ cr' = [cr EXCEPT ![t] = current_round]
  /\ Goto(t, IF i[t] > current_round THEN "round_wait" ELSE "leave")
  /\ UNCHANGED <<fields, i, stage>>

-----------------------------------------------------------------------------
(* __pthread_barrier_wait: leaving.  The last thread before the threshold resets. *)

LeaveBarrier(t) ==
  /\ pc[t] = "leave"
  /\ out' = out + 1
  /\ IF out + 1 = max_in_before_reset
       THEN Goto(t, "reset_round") /\ UNCHANGED <<i, cr>>
       ELSE Leave(t, "idle")
  /\ UNCHANGED <<in, current_round, stage>>

ResetRound(t) ==
  /\ pc[t] = "reset_round"
  /\ current_round' = 0
  /\ Goto(t, "reset_out")
  /\ UNCHANGED <<in, out, i, cr, stage>>

ResetOut(t) ==
  /\ pc[t] = "reset_out"
  /\ out' = 0
  /\ Goto(t, "reset_in")
  /\ UNCHANGED <<in, current_round, i, cr, stage>>

\* Faulty variant of ResetIn: the reset leaves in alone.
ResetInForgotten(t) ==
  /\ pc[t] = "reset_in"
  /\ Goto(t, "wake_in")
  /\ UNCHANGED <<in, out, current_round, i, cr, stage>>

ResetIn(t) ==
  /\ pc[t] = "reset_in"
  /\ in' = 0
  /\ Goto(t, "wake_in")
  /\ UNCHANGED <<out, current_round, i, cr, stage>>

\* Faulty variant of WakeIn: pthread_barrier_destroy is forgotten.
WakeInResets(t) ==
  /\ pc[t] = "wake_in"
  /\ WakeAll(t, {"asleep_reset"}, [asleep_reset |-> "load_in"], "idle")
  /\ i' = [i EXCEPT ![t] = 0]
  /\ cr' = [cr EXCEPT ![t] = 0]
  /\ UNCHANGED <<fields, stage>>

\* Faulty variant of WakeIn: the threads beyond the threshold are forgotten.
WakeInDestroys(t) ==
  /\ pc[t] = "wake_in"
  /\ WakeAll(t, {"asleep_destroy"}, [asleep_destroy |-> "destroy_reload"], "idle")
  /\ i' = [i EXCEPT ![t] = 0]
  /\ cr' = [cr EXCEPT ![t] = 0]
  /\ UNCHANGED <<fields, stage>>

WakeIn(t) ==
  /\ pc[t] = "wake_in"
  /\ WakeAll(t, {"asleep_reset", "asleep_destroy"},
             [asleep_reset |-> "load_in", asleep_destroy |-> "destroy_reload"], "idle")
  /\ i' = [i EXCEPT ![t] = 0]
  /\ cr' = [cr EXCEPT ![t] = 0]
  /\ UNCHANGED <<fields, stage>>

-----------------------------------------------------------------------------
(* Rounds as the callers see them, and pthread_barrier_destroy. *)

\* The positions of the complete rounds, up to the threshold.
Entered == IF in > max_in_before_reset THEN max_in_before_reset ELSE in

Phase(t) ==
  IF pc[t] \in {"load_round", "complete", "wake_round", "round_wait", "asleep_round",
                "reload_round", "leave", "reset_round", "reset_out", "reset_in", "wake_in"}
    THEN IF pc[t] # "wake_in" /\ i[t] > Entered - (Entered % count)
           THEN "waiting"
           ELSE IF i[t] % count = 0 THEN "serial" ELSE "free"
    ELSE "outside"

\* A program may destroy a barrier on which no thread is blocked; threads of complete
\* rounds need not have returned.
MayDestroy ==
  /\ stage = "used"
  /\ DestroyAtThreshold \/ in # max_in_before_reset
  /\ \A t \in Threads :
       /\ Phase(t) # "waiting"
       /\ pc[t] \notin {"restart", "reset_wait", "asleep_reset", "load_in"}

Destroy(t) ==
  /\ pc[t] = "idle"
  /\ MayDestroy
  /\ stage' = "destroying"
  /\ i' = [i EXCEPT ![t] = in]
  /\ Goto(t, "destroy_add")
  /\ UNCHANGED <<fields, cr>>

\* Faulty variant of DestroyAdd: nobody is waited for.
DestroyAtOnce(t) ==
  /\ pc[t] = "destroy_add"
  /\ out' = out + (max_in_before_reset - i[t])
  /\ Leave(t, "idle") /\ stage' = "destroyed"
  /\ UNCHANGED <<in, current_round>>

\* Pretends that the threshold is reached, and waits unless all threads had left.
DestroyAdd(t) ==
  /\ pc[t] = "destroy_add"
  /\ out' = out + (max_in_before_reset - i[t])
  /\ IF out < i[t]
       THEN Goto(t, "destroy_wait") /\ UNCHANGED <<i, cr, stage>>
       ELSE Leave(t, "idle") /\ stage' = "destroyed"
  /\ UNCHANGED <<in, current_round>>

DestroyWait(t) ==
  /\ pc[t] = "destroy_wait"
  /\ Goto(t, IF in = i[t] THEN "asleep_destroy" ELSE "destroy_reload")
  /\ UNCHANGED <<fields, i, cr, stage>>

DestroyReload(t) ==
  /\ pc[t] = "destroy_reload"
  /\ IF in # 0
       THEN Goto(t, "destroy_wait") /\ i' = [i EXCEPT ![t] = in] /\ UNCHANGED <<cr, stage>>
       ELSE Leave(t, "idle") /\ stage' = "destroyed"
  /\ UNCHANGED fields

\* pthread_barrier_init of the same memory.
Reinit ==
  /\ stage = "destroyed"
  /\ in' = 0 /\ out' = 0 /\ current_round' = 0
  /\ stage' = "used"
  /\ UNCHANGED <<pc, i, cr>>

\* The kernel may end any sleep (external).
SpuriousWake(t) ==
  /\ \/ pc[t] = "asleep_reset" /\ Goto(t, "load_in")
     \/ pc[t] = "asleep_round" /\ Goto(t, "reload_round")
     \/ pc[t] = "asleep_destroy" /\ Goto(t, "destroy_reload")
  /\ UNCHANGED <<fields, i, cr, stage>>

-----------------------------------------------------------------------------
Step(t) ==
  \/ pc[t] = "restart" /\ Enter(t)
  \/ ResetWait(t) \/ LoadIn(t)
  \/ LoadRound(t) \/ Complete(t) \/ WakeRound(t) \/ RoundWait(t) \/ ReloadRound(t)
  \/ LeaveBarrier(t) \/ ResetRound(t) \/ ResetOut(t) \/ ResetIn(t) \/ WakeIn(t)
  \/ DestroyAdd(t) \/ DestroyWait(t) \/ DestroyReload(t)

Next ==
  \/ \E t \in Threads : Step(t) \/ (pc[t] = "idle" /\ Enter(t)) \/ Destroy(t) \/ SpuriousWake(t)
  \/ Reinit

Spec == Init /\ [][Next]_vars

\* Threads inside a call go on; nobody has to call.
FairSpec == Spec /\ \A t \in Threads : WF_vars(Step(t))

-----------------------------------------------------------------------------
(* Properties. *)

\* No thread reads or writes the barrier after pthread_barrier_destroy has returned;
\* a wake-up that is still to come names only its address.
NoUseAfterDestruction == stage = "destroyed" => \A t \in Threads : pc[t] \in {"idle", "wake_in"}

\* The threads that have entered and not left are the ones in - out counts, so that the
\* last one to leave, and only that one, resets.
EnteredMinusLeft ==
  (stage = "used" /\ in <= max_in_before_reset
     /\ \A t \in Threads : pc[t] \notin {"reset_round", "reset_out", "reset_in"}) =>
    in = out + Cardinality({t \in Threads : Phase(t) # "outside" /\ pc[t] # "wake_in"})

Rounds == INSTANCE RoundBarrier WITH phase <- [t \in Threads |-> Phase(t)]

\* The barrier releases exactly count threads at a time, one of them as the serial
\* thread, and all of them leave, over resets, spurious wake-ups and destruction.
ImplementsRounds == Rounds!Spec

\* pthread_barrier_destroy returns.
DestroyReturns == stage = "destroying" ~> stage = "destroyed"

\* A thread that has entered beyond the threshold does not sleep for ever: the reset
\* comes and wakes it.  (It may find the threshold reached again.)
ResetWakes == \A t \in Threads : []<>(pc[t] # "asleep_reset")

=============================================================================
