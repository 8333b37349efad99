-------------------------------- MODULE Once --------------------------------
(***************************************************************************)
(* glibc's pthread_once (nptl/pthread_once.c) with what concerns it of     *)
(* fork (sysdeps/nptl/fork.c) and of cancellation.                         *)
(*                                                                         *)
(* Each atomic operation on once_control is an action; pc[t] is what       *)
(* thread t does next.  A fork is followed into the child, where only the  *)
(* thread that forked lives on and the other threads are new ones.         *)
(* Atomics are taken to be sequentially consistent; the futex is the       *)
(* kernel's.                                                               *)
(***************************************************************************)
EXTENDS Naturals, FiniteSets

CONSTANTS
  Threads,
  MaxForks,     \* bound: forks, far below the 2^30 at which generations recur
  MaxCancels,   \* bound: runs of init_routine that end in a cancellation
  ForkInInit    \* may init_routine itself fork

ASSUME OnceAssumption ==
  MaxForks \in Nat /\ MaxCancels \in Nat /\ ForkInInit \in BOOLEAN

VARIABLES
  once_control,   \* the word, as a state and a generation
  generation,     \* __fork_generation
  pc,
  val,            \* the local copies of once_control
  finished,       \* history: how often init_routine has run to its end
  cancels         \* how often it has been cancelled

vars == <<once_control, generation, pc, val, finished, cancels>>

Words == [state : {"new", "inprogress", "done"}, gen : 0 .. MaxForks]

New  == [state |-> "new", gen |-> 0]
Done == [state |-> "done", gen |-> 0]

\* newval of the code: in progress, in the current generation.
Claim == [state |-> "inprogress", gen |-> generation]

Init ==
  /\ once_control = New
  /\ generation = 0
  /\ pc = [t \in Threads |-> "idle"]
  /\ val = [t \in Threads |-> New]
  /\ finished = 0
  /\ cancels = 0

Goto(t, l) == pc' = [pc EXCEPT ![t] = l]

Call(t) ==
  /\ pc[t] \in {"idle", "returned"}
  /\ Goto(t, "fast")
  /\ UNCHANGED <<once_control, generation, val, finished, cancels>>

\* The fast path of __pthread_once.
Fast(t) ==
  /\ pc[t] = "fast"
  /\ Goto(t, IF once_control = Done THEN "returned" ELSE "load")
  /\ UNCHANGED <<once_control, generation, val, finished, cancels>>

\* The copy of once_control decides: return, or try to claim.
Look(t) ==
  /\ val' = [val EXCEPT ![t] = IF once_control = Done THEN New ELSE once_control]
  /\ Goto(t, IF once_control = Done THEN "returned" ELSE "claim")

\* Faulty variant of Load: an initialization in progress counts as done.
LoadTooOptimistic(t) ==
  /\ pc[t] = "load"
  /\ IF once_control = Claim THEN Goto(t, "returned") /\ UNCHANGED val ELSE Look(t)
  /\ UNCHANGED <<once_control, generation, finished, cancels>>

Load(t) ==
  /\ pc[t] = "load"
  /\ Look(t)
  /\ UNCHANGED <<once_control, generation, finished, cancels>>

\* Faulty variant of Exchange: whoever exchanges initializes.
ExchangeAndInit(t) ==
  /\ pc[t] = "claim"
  /\ IF once_control = val[t]
       THEN /\ once_control' = Claim
            /\ Goto(t, "init")
            /\ val' = [val EXCEPT ![t] = New]
       ELSE Look(t) /\ UNCHANGED once_control
  /\ UNCHANGED <<generation, finished, cancels>>

\* A thread that exchanges a claim of this generation for itself has to wait; one that
\* exchanges nothing or a claim from before the fork initializes.
Exchange(t) ==
  /\ pc[t] = "claim"
  /\ IF once_control = val[t]
       THEN /\ once_control' = Claim
            /\ Goto(t, IF val[t] = Claim THEN "futex_wait" ELSE "init")
            /\ val' = [val EXCEPT ![t] = New]
       ELSE Look(t) /\ UNCHANGED once_control
  /\ UNCHANGED <<generation, finished, cancels>>

\* Blocks only while the word is still newval.
FutexWait(t) ==
  /\ pc[t] = "futex_wait"
  /\ Goto(t, IF once_control = Claim THEN "asleep" ELSE "load")
  /\ UNCHANGED <<once_control, generation, val, finished, cancels>>

\* The kernel may end any sleep (external).
SpuriousWake(t) ==
  /\ pc[t] = "asleep"
  /\ Goto(t, "load")
  /\ UNCHANGED <<once_control, generation, val, finished, cancels>>

\* init_routine returns.
InitEnds(t) ==
  /\ pc[t] = "init"
  /\ finished' = finished + 1
  /\ Goto(t, "store")
  /\ UNCHANGED <<once_control, generation, val, cancels>>

Store(t) ==
  /\ pc[t] = "store"
  /\ once_control' = Done
  /\ Goto(t, "wake")
  /\ UNCHANGED <<generation, val, finished, cancels>>

\* init_routine is left by a cancellation or an exception: clear_once_control.
Cancel(t) ==
  /\ pc[t] = "init"
  /\ cancels < MaxCancels
  /\ cancels' = cancels + 1
  /\ Goto(t, "clear")
  /\ UNCHANGED <<once_control, generation, val, finished>>

\* Faulty variant of Clear: nobody is woken.
ClearQuietly(t) ==
  /\ pc[t] = "clear"
  /\ once_control' = New
  /\ Goto(t, "idle")
  /\ UNCHANGED <<generation, val, finished, cancels>>

Clear(t) ==
  /\ pc[t] = "clear"
  /\ once_control' = New
  /\ Goto(t, "clear_wake")
  /\ UNCHANGED <<generation, val, finished, cancels>>

\* futex_wake of all sleepers; behind it the call returns or the thread ends.
Wake(t) ==
  /\ pc[t] \in {"wake", "clear_wake"}
  /\ pc' = [s \in Threads |-> IF s = t THEN IF pc[t] = "wake" THEN "returned" ELSE "idle"
                               ELSE IF pc[s] = "asleep" THEN "load" ELSE pc[s]]
  /\ UNCHANGED <<once_control, generation, val, finished, cancels>>

\* Thread t forks, between two calls or in init_routine: in the child the generation
\* has moved on and the other threads are gone, whatever they were doing.
Fork(t) ==
  /\ pc[t] \in {"idle", "returned"} \cup (IF ForkInInit THEN {"init"} ELSE {})
  /\ generation < MaxForks
  /\ generation' = generation + 1
  /\ pc' = [s \in Threads |-> IF s = t THEN pc[t] ELSE "idle"]
  /\ val' = [s \in Threads |-> New]
  /\ UNCHANGED <<once_control, finished, cancels>>

Step(t) ==
  \/ Fast(t) \/ Load(t) \/ Exchange(t) \/ FutexWait(t)
  \/ InitEnds(t) \/ Store(t) \/ Clear(t) \/ Wake(t)

Next == \E t \in Threads : Step(t) \/ Call(t) \/ SpuriousWake(t) \/ Cancel(t) \/ Fork(t)

Spec == Init /\ [][Next]_vars

\* Threads go on, and init_routine ends.
FairSpec == Spec /\ \A t \in Threads : WF_vars(Step(t))

-----------------------------------------------------------------------------
(* Properties. *)

TypeOK ==
  /\ once_control \in Words
  /\ generation \in 0 .. MaxForks
  /\ pc \in [Threads -> {"idle", "fast", "load", "claim", "futex_wait", "asleep", "init", "store",
                         "wake", "clear", "clear_wake", "returned"}]
  /\ val \in [Threads -> Words]
  /\ finished \in Nat
  /\ cancels \in 0 .. MaxCancels

Initializing == {t \in Threads : pc[t] \in {"init", "store", "clear"}}

\* "The first thread to do so runs init_routine, other threads block": no two threads
\* of a process are in init_routine, whichever of them forked or were cancelled before.
OneInitializer == \A s, t \in Initializing : s = t

\* A call that returns finds an initialization that ran to its end, also in a child
\* forked while another thread was in the middle of it.
ReturnsInitialized == \A t \in Threads : pc[t] = "returned" => finished > 0

\* Every call returns, unless its thread is cancelled or left behind by a fork:
\* waiters are woken when init_routine is cancelled, and a child does not wait for
\* the initialization of a thread it does not have.
CallsReturn ==
  \A t \in Threads : pc[t] = "load" ~> pc[t] \in {"returned", "idle"}

=============================================================================
