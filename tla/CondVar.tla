------------------------------ MODULE CondVar ------------------------------
(***************************************************************************)
(* glibc's condition variable (nptl/pthread_cond_wait.c,                   *)
(* pthread_cond_signal.c, pthread_cond_broadcast.c and                     *)
(* pthread_cond_common.c) with 64-bit atomics.                             *)
(*                                                                         *)
(* Waiters take positions in a sequence and belong to one of two groups:   *)
(* G1, whose waiters may consume signals, and G2, the newcomers.  When all *)
(* of G1 is signalled the groups change their roles.                       *)
(*                                                                         *)
(* Each atomic operation that other threads can see is an action; pc[t] is *)
(* what thread t does next.  What the internal lock protects is read and   *)
(* written together with the operation before it; the lock is taken in one *)
(* step.  Atomics are taken to be sequentially consistent, the futexes are *)
(* the kernel's and the mutex is the program's.                            *)
(***************************************************************************)
EXTENDS Integers, FiniteSets, TLC

CONSTANTS
  Waiters, Signalers,
  MaxWaits,         \* bound: calls of pthread_cond_wait
  MaxCalls,         \* bound: calls of pthread_cond_signal and pthread_cond_broadcast
  MaxInterrupts,    \* bound: time-outs, cancellations and spurious wake-ups
  Kinds,            \* the signallers' calls: FALSE is a signal, TRUE a broadcast
  Interrupts,       \* what ends a sleep besides a wake-up, or prevents it
  MAX_GROUP_SIZE    \* __PTHREAD_COND_MAX_GROUP_SIZE, scaled down

Threads == Waiters \cup Signalers

ASSUME CondVarAssumption ==
  /\ MaxWaits \in Nat /\ MaxCalls \in Nat /\ MaxInterrupts \in Nat /\ MAX_GROUP_SIZE \in Nat \ {0}
  /\ Kinds \subseteq BOOLEAN /\ Interrupts \subseteq {"not_unlocked", "spurious", "timed_out", "cancelled"}
  /\ IsFiniteSet(Threads) /\ Waiters \cap Signalers = {}

VARIABLES
  wseq,         \* __wseq: the next position and the index of G2
  g1_start,     \* __g1_start: the position where G1 begins and the index of G2
  orig_size,    \* __g1_orig_size, without the lock
  lock,         \* the lock in it: is it held across actions
  wrefs,        \* __wrefs: the waiters, and the destroyer's wake request
  g_refs,       \* __g_refs: the threads that use a group's futex, and the wake request
  g_signals,    \* __g_signals: signals to consume, and is the group closed
  g_size,       \* __g_size: waiters of a group not yet signalled
  pc, local,    \* what each thread does next, and its local variables
  calls, interrupts,
  owed,         \* history: signals that began while a waiter waited, less returns since
  undone        \* history: has a signal been added as if it had been stolen

condvar == <<wseq, g1_start, orig_size, lock, wrefs, g_refs, g_signals, g_size>>
bounds  == <<calls, interrupts>>
ghost   == <<owed, undone>>
vars    == <<condvar, pc, local, bounds, ghost>>

Groups == {0, 1}

\* seq, g: a waiter's position and group; signals, closed: a copy of g_signals; start: of
\* g1_start; to: where the thread goes on behind a common part; ended: how a waiter
\* gave up.  Of a signaller: g1, count: a copy of wseq or of g_refs; all: is it a broadcast;
\* old: a copy of wrefs.
NoLocals ==
  [seq |-> 0, g |-> 0, signals |-> 0, closed |-> FALSE, start |-> [pos |-> 0, g2 |-> 0],
   to |-> "", ended |-> "", g1 |-> 0, count |-> 0, all |-> FALSE,
   old |-> [n |-> 0, wake |-> FALSE]]

Go(t, l, x) == pc' = [pc EXCEPT ![t] = l] /\ local' = [local EXCEPT ![t] = x]

Goto(t, l) == pc' = [pc EXCEPT ![t] = l] /\ UNCHANGED local

\* What a thread still needs when it is about to return: its group and how it gave up.
Kept(t) == [NoLocals EXCEPT !.g = local[t].g, !.ended = local[t].ended]

GoBack(t, l) == Go(t, l, Kept(t))

G(t)  == local[t].g
G1(t) == local[t].g1

Init ==
  /\ wseq = [pos |-> 0, g2 |-> 0]
  /\ g1_start = [pos |-> 0, g2 |-> 0]
  /\ orig_size = 0 /\ lock = FALSE /\ wrefs = [n |-> 0, wake |-> FALSE]
  /\ g_refs = [g \in Groups |-> [n |-> 0, wake |-> FALSE]]
  /\ g_signals = [g \in Groups |-> [n |-> 0, closed |-> FALSE]]
  /\ g_size = [g \in Groups |-> 0]
  /\ pc = [t \in Threads |-> "idle"]
  /\ local = [t \in Threads |-> NoLocals]
  /\ calls = 0 /\ interrupts = 0
  /\ owed = [w \in Waiters |-> 0] /\ undone = FALSE

\* The waiters that the program has seen release the mutex and that have not returned.
Waiting == {w \in Waiters : pc[w] \notin {"idle", "register"}}

\* pthread_cond_destroy has been called.
Destroyed == \E t \in Signalers : pc[t] \in {"destroy_load", "destroy_wait", "destroy_asleep", "destroyed"}

\* What a broadcast owes a waiter: no other waiter's return settles it.
Everything == MaxCalls + 1

-----------------------------------------------------------------------------
(* __pthread_cond_wait_common. *)

Wait(w) ==
  /\ pc[w] = "idle" /\ wseq.pos < MaxWaits /\ ~Destroyed
  /\ wseq' = [wseq EXCEPT !.pos = @ + 1]
  /\ Go(w, "register", [NoLocals EXCEPT !.seq = wseq.pos, !.g = wseq.g2])
  /\ UNCHANGED <<g1_start, orig_size, lock, wrefs, g_refs, g_signals, g_size, bounds, ghost>>

\* The mutex is released behind this; if it cannot be, the wait is cancelled.
Register(w) ==
  /\ pc[w] = "register"
  /\ wrefs' = [wrefs EXCEPT !.n = @ + 1]
  /\ \/ Goto(w, "load") /\ UNCHANGED interrupts
     \/ /\ "not_unlocked" \in Interrupts /\ interrupts < MaxInterrupts
        /\ interrupts' = interrupts + 1
        /\ Go(w, "cancel", [local[w] EXCEPT !.ended = "not_unlocked"])
  /\ UNCHANGED <<wseq, g1_start, orig_size, lock, g_refs, g_signals, g_size, calls, ghost>>

\* The loop on a copy of g_signals.
Consider(w) ==
  LET s == g_signals[G(w)]
  IN  IF s.closed
        THEN GoBack(w, "confirm")
        ELSE Go(w, IF s.n > 0 THEN "grab" ELSE "take_ref", [local[w] EXCEPT !.signals = s.n])

Load(w) ==
  /\ pc[w] = "load"
  /\ Consider(w)
  /\ UNCHANGED <<condvar, bounds, ghost>>

TakeRef(w) ==
  /\ pc[w] = "take_ref"
  /\ g_refs' = [g_refs EXCEPT ![G(w)].n = @ + 1]
  /\ Goto(w, "check_closed")
  /\ UNCHANGED <<wseq, g1_start, orig_size, lock, wrefs, g_signals, g_size, bounds, ghost>>

CheckClosed(w) ==
  /\ pc[w] = "check_closed"
  /\ IF g_signals[G(w)].closed
       THEN Go(w, "drop_ref", [local[w] EXCEPT !.to = "confirm"])
       ELSE Goto(w, "check_start")
  /\ UNCHANGED <<condvar, bounds, ghost>>

\* Faulty variant of CheckStart: the group is taken to be open.
CheckStartNot(w) ==
  /\ pc[w] = "check_start"
  /\ Goto(w, "futex_wait")
  /\ UNCHANGED <<condvar, bounds, ghost>>

CheckStart(w) ==
  /\ pc[w] = "check_start"
  /\ IF local[w].seq < g1_start.pos
       THEN Go(w, "drop_ref", [local[w] EXCEPT !.to = "confirm"])
       ELSE Goto(w, "futex_wait")
  /\ UNCHANGED <<condvar, bounds, ghost>>

FutexWait(w) ==
  /\ pc[w] = "futex_wait"
  /\ IF g_signals[G(w)] = [n |-> 0, closed |-> FALSE]
       THEN Goto(w, "asleep")
       ELSE Go(w, "drop_ref", [local[w] EXCEPT !.to = "load"])
  /\ UNCHANGED <<condvar, bounds, ghost>>

\* The kernel may end any sleep (external).
SpuriousWake(w) ==
  /\ "spurious" \in Interrupts /\ interrupts < MaxInterrupts
  /\ interrupts' = interrupts + 1
  /\ pc[w] = "asleep"
  /\ Go(w, "drop_ref", [local[w] EXCEPT !.to = "load"])
  /\ UNCHANGED <<condvar, calls, ghost>>

\* ETIMEDOUT or EOVERFLOW, or a cancellation, of a sleep or before the word is looked at (a
\* time before the epoch, a cancellation pending); a cancellation may also come to a thread
\* that has been woken.
GiveUp(w, how) ==
  /\ interrupts < MaxInterrupts
  /\ interrupts' = interrupts + 1
  /\ \/ pc[w] \in {"futex_wait", "asleep"}
     \/ how = "cancelled" /\ pc[w] = "drop_ref" /\ local[w].to = "load"
  /\ Go(w, "drop_ref", [local[w] EXCEPT !.to = "cancel", !.ended = how])
  /\ UNCHANGED <<condvar, calls, ghost>>

\* Faulty variant of DropRef: the last user of the group wakes nobody.
DropRefQuietly(w) ==
  /\ pc[w] = "drop_ref"
  /\ g_refs' = [g_refs EXCEPT ![G(w)].n = @ - 1]
  /\ Go(w, local[w].to, [local[w] EXCEPT !.to = ""])
  /\ UNCHANGED <<wseq, g1_start, orig_size, lock, wrefs, g_signals, g_size, bounds, ghost>>

\* __condvar_dec_grefs.
DropRef(w) ==
  /\ pc[w] = "drop_ref"
  /\ g_refs' = [g_refs EXCEPT ![G(w)].n = @ - 1]
  /\ IF g_refs[G(w)] = [n |-> 1, wake |-> TRUE]
       THEN Goto(w, "clear_request")
       ELSE Go(w, local[w].to, [local[w] EXCEPT !.to = ""])
  /\ UNCHANGED <<wseq, g1_start, orig_size, lock, wrefs, g_signals, g_size, bounds, ghost>>

ClearRequest(w) ==
  /\ pc[w] = "clear_request"
  /\ g_refs' = [g_refs EXCEPT ![G(w)].wake = FALSE]
  /\ Goto(w, "wake_refs")
  /\ UNCHANGED <<wseq, g1_start, orig_size, lock, wrefs, g_signals, g_size, bounds, ghost>>

WakeRefs(w) ==
  /\ pc[w] = "wake_refs"
  /\ pc' = [t \in Threads |-> IF t = w THEN local[w].to
                               ELSE IF pc[t] = "quiesce_asleep" /\ G1(t) = G(w) THEN "quiesce_refs"
                               ELSE pc[t]]
  /\ local' = [local EXCEPT ![w].to = ""]
  /\ UNCHANGED <<condvar, bounds, ghost>>

Grab(w) ==
  /\ pc[w] = "grab"
  /\ IF g_signals[G(w)] = [n |-> local[w].signals, closed |-> FALSE]
       THEN /\ g_signals' = [g_signals EXCEPT ![G(w)].n = @ - 1]
            /\ Go(w, "check_steal", [local[w] EXCEPT !.signals = 0])
       ELSE Consider(w) /\ UNCHANGED g_signals
  /\ UNCHANGED <<wseq, g1_start, orig_size, lock, wrefs, g_refs, g_size, bounds, ghost>>

\* The signal may have been that of a later group in the same slot.
CheckSteal(w) ==
  /\ pc[w] = "check_steal"
  /\ IF local[w].seq < g1_start.pos /\ 1 - g1_start.g2 = G(w)
       THEN Go(w, "undo_load", [local[w] EXCEPT !.start = g1_start])
       ELSE GoBack(w, "confirm")
  /\ UNCHANGED <<condvar, bounds, ghost>>

UndoLoad(w) ==
  /\ pc[w] = "undo_load"
  /\ Go(w, "undo_check", [local[w] EXCEPT !.signals = g_signals[G(w)].n, !.closed = g_signals[G(w)].closed])
  /\ UNCHANGED <<condvar, bounds, ghost>>

UndoCheck(w) ==
  /\ pc[w] = "undo_check"
  /\ IF g1_start # local[w].start THEN GoBack(w, "confirm")
     ELSE IF local[w].closed THEN GoBack(w, "undo_wake")
     ELSE Goto(w, "undo_cas")
  /\ UNCHANGED <<condvar, bounds, ghost>>

UndoCas(w) ==
  /\ pc[w] = "undo_cas"
  /\ IF g_signals[G(w)] = [n |-> local[w].signals, closed |-> FALSE]
       THEN /\ g_signals' = [g_signals EXCEPT ![G(w)].n = @ + 1]
            /\ GoBack(w, "undo_wake")
            /\ undone' = TRUE
       ELSE /\ Go(w, "undo_check", [local[w] EXCEPT !.signals = g_signals[G(w)].n,
                                                     !.closed = g_signals[G(w)].closed])
            /\ UNCHANGED <<g_signals, undone>>
  /\ UNCHANGED <<wseq, g1_start, orig_size, lock, wrefs, g_refs, g_size, bounds, owed>>

\* The waiters that sleep on group g.
Asleep(g) == {w \in Waiters : pc[w] = "asleep" /\ G(w) = g}

\* futex_wake of the waiters in set s of group g by thread t, which goes on at l.
Wake(t, l, s) ==
  /\ pc' = [u \in Threads |-> IF u = t THEN l ELSE IF u \in s THEN "drop_ref" ELSE pc[u]]
  /\ local' = [u \in Threads |-> IF u \in s THEN [local[u] EXCEPT !.to = "load"]
                                  ELSE IF u = t /\ l # "quiesce" THEN Kept(u) ELSE local[u]]

WakeOne(t, l, g) ==
  \/ Asleep(g) = {} /\ Wake(t, l, {})
  \/ \E w \in Asleep(g) : Wake(t, l, {w})

UndoWake(w) ==
  /\ pc[w] = "undo_wake"
  /\ WakeOne(w, "confirm", G(w))
  /\ UNCHANGED <<condvar, bounds, ghost>>

\* __condvar_confirm_wakeup and the return.  A wait that did not give up accounts for
\* one of the signals owed to the others.
Confirm(w) ==
  /\ pc[w] = "confirm"
  /\ wrefs' = [wrefs EXCEPT !.n = @ - 1]
  /\ Go(w, IF wrefs = [n |-> 1, wake |-> TRUE] THEN "wake_destroyer" ELSE "idle", NoLocals)
  /\ owed' = [v \in Waiters |->
                IF v = w THEN 0
                ELSE IF local[w].ended = "" /\ owed[v] \in 1 .. MaxCalls THEN owed[v] - 1
                ELSE owed[v]]
  /\ UNCHANGED <<wseq, g1_start, orig_size, lock, g_refs, g_signals, g_size, bounds, undone>>

WakeDestroyer(w) ==
  /\ pc[w] = "wake_destroyer"
  /\ pc' = [t \in Threads |-> IF t = w THEN "idle"
                               ELSE IF pc[t] = "destroy_asleep" THEN "destroy_load" ELSE pc[t]]
  /\ UNCHANGED <<condvar, local, bounds, ghost>>

-----------------------------------------------------------------------------
(* __condvar_cancel_waiting, and what __condvar_cleanup_waiting adds to it. *)

\* Where a thread that has given up goes on.
Gone(w) == IF local[w].ended = "cancelled" THEN "cleanup_wake" ELSE "confirm"

\* Faulty variant of Cancel: the group becomes smaller whenever it is not closed.
CancelShrinks(w) ==
  /\ pc[w] = "cancel" /\ ~lock
  /\ \/ g1_start.pos > local[w].seq /\ Goto(w, "signal") /\ UNCHANGED g_size
     \/ /\ g1_start.pos <= local[w].seq
        /\ GoBack(w, Gone(w))
        /\ g_size' = [g_size EXCEPT ![G(w)] = @ - 1]
  /\ UNCHANGED <<wseq, g1_start, orig_size, lock, wrefs, g_refs, g_signals, bounds, ghost>>

\* In G2 or in a G1 with waiters left the group becomes smaller; otherwise a signal
\* has been consumed and is sent again.
Cancel(w) ==
  /\ pc[w] = "cancel" /\ ~lock
  /\ LET inG2     == g1_start.pos <= local[w].seq /\ g1_start.pos + orig_size <= local[w].seq
         consumed == g1_start.pos > local[w].seq \/ (~inG2 /\ g_size[G(w)] = 0)
         overflow == inG2 /\ g_size[G(w)] + MAX_GROUP_SIZE = 0
     IN  \/ consumed /\ Goto(w, "signal") /\ UNCHANGED g_size
         \/ overflow /\ Go(w, "signal", [local[w] EXCEPT !.all = TRUE]) /\ UNCHANGED g_size
         \/ ~consumed /\ ~overflow /\ GoBack(w, Gone(w)) /\ g_size' = [g_size EXCEPT ![G(w)] = @ - 1]
  /\ UNCHANGED <<wseq, g1_start, orig_size, lock, wrefs, g_refs, g_signals, bounds, ghost>>

\* The cancelled thread may have been woken: its wake-up is passed on.
CleanupWake(w) ==
  /\ pc[w] = "cleanup_wake"
  /\ WakeOne(w, "confirm", G(w))
  /\ UNCHANGED <<condvar, bounds, ghost>>

-----------------------------------------------------------------------------
(* __pthread_cond_signal and __pthread_cond_broadcast, of a signaller or of a waiter  *)
(* that has given up.                                                                 *)

Back(t) == IF t \in Waiters THEN Gone(t) ELSE "idle"

Call(t, all) ==
  /\ t \in Signalers /\ pc[t] = "idle" /\ calls < MaxCalls /\ ~Destroyed
  /\ calls' = calls + 1
  /\ Go(t, "signal", [NoLocals EXCEPT !.all = all])
  /\ owed' = [w \in Waiters |-> IF w \notin Waiting THEN owed[w]
                                 ELSE IF all \/ owed[w] = Everything THEN Everything
                                 ELSE owed[w] + 1]
  /\ UNCHANGED <<condvar, interrupts, undone>>

CheckRefs(t) ==
  /\ pc[t] = "signal"
  /\ IF wrefs.n = 0 THEN GoBack(t, Back(t)) ELSE Goto(t, "lock")
  /\ UNCHANGED <<condvar, bounds, ghost>>

\* With waiters left in G1 the signal goes there.
Lock(t) ==
  /\ pc[t] = "lock" /\ ~lock
  /\ lock' = TRUE
  /\ LET g1 == 1 - wseq.g2
     IN  Go(t, IF g_size[g1] = 0 THEN "quiesce" ELSE IF local[t].all THEN "add_first" ELSE "add",
            [local[t] EXCEPT !.g1 = g1, !.count = wseq.pos])
  /\ UNCHANGED <<wseq, g1_start, orig_size, wrefs, g_refs, g_signals, g_size, bounds, ghost>>

\* n signals for the group that is G1 to thread t.
AddSignals(t, n) ==
  /\ g_signals' = [g_signals EXCEPT ![G1(t)].n = @ + n]
  /\ g_size' = [g_size EXCEPT ![G1(t)] = @ - n]

\* A broadcast first signals what is left of G1.
AddFirst(t) ==
  /\ pc[t] = "add_first"
  /\ AddSignals(t, g_size[G1(t)])
  /\ Goto(t, "wake_first")
  /\ UNCHANGED <<wseq, g1_start, orig_size, lock, wrefs, g_refs, bounds, ghost>>

WakeFirst(t) ==
  /\ pc[t] = "wake_first"
  /\ Wake(t, "quiesce", Asleep(G1(t)))
  /\ UNCHANGED <<condvar, bounds, ghost>>

\* Faulty variant of Add: a broadcast puts one signal.
AddOne(t) ==
  /\ pc[t] = "add"
  /\ AddSignals(t, 1)
  /\ lock' = FALSE
  /\ Goto(t, "wake")
  /\ UNCHANGED <<wseq, g1_start, orig_size, wrefs, g_refs, bounds, ghost>>

\* The lock is released behind this.
Add(t) ==
  /\ pc[t] = "add"
  /\ AddSignals(t, IF local[t].all THEN g_size[G1(t)] ELSE 1)
  /\ lock' = FALSE
  /\ Goto(t, "wake")
  /\ UNCHANGED <<wseq, g1_start, orig_size, wrefs, g_refs, bounds, ghost>>

WakeSignalled(t) ==
  /\ pc[t] = "wake"
  /\ IF local[t].all THEN Wake(t, Back(t), Asleep(G1(t))) ELSE WakeOne(t, Back(t), G1(t))
  /\ UNCHANGED <<condvar, bounds, ghost>>

-----------------------------------------------------------------------------
(* __condvar_quiesce_and_switch_g1. *)

\* Without waiters in G2 there is nothing to switch; otherwise G1 is closed.
Quiesce(t) ==
  /\ pc[t] = "quiesce"
  /\ IF local[t].count - g1_start.pos - orig_size + g_size[1 - G1(t)] = 0
       THEN lock' = FALSE /\ GoBack(t, Back(t)) /\ UNCHANGED g_signals
       ELSE /\ g_signals' = [g_signals EXCEPT ![G1(t)].closed = TRUE]
            /\ Go(t, "quiesce_refs", [local[t] EXCEPT !.count = 0])
            /\ UNCHANGED lock
  /\ UNCHANGED <<wseq, g1_start, orig_size, wrefs, g_refs, g_size, bounds, ghost>>

\* Waits until nobody uses the futex of G1 any more.
QuiesceRefs(t) ==
  /\ pc[t] = "quiesce_refs"
  /\ Go(t, IF g_refs[G1(t)].n > 0 THEN "quiesce_request" ELSE "close", [local[t] EXCEPT !.count = 0])
  /\ UNCHANGED <<condvar, bounds, ghost>>

QuiesceRequest(t) ==
  /\ pc[t] = "quiesce_request"
  /\ g_refs' = [g_refs EXCEPT ![G1(t)].wake = TRUE]
  /\ Go(t, IF g_refs[G1(t)].n > 0 THEN "quiesce_wait" ELSE "quiesce_refs",
        [local[t] EXCEPT !.count = g_refs[G1(t)].n])
  /\ UNCHANGED <<wseq, g1_start, orig_size, lock, wrefs, g_signals, g_size, bounds, ghost>>

\* The kernel refuses to wait for another value, and it may return without a reason.
QuiesceWait(t) ==
  /\ pc[t] = "quiesce_wait"
  /\ LET same == g_refs[G1(t)] = [n |-> local[t].count, wake |-> TRUE]
     IN  \/ same /\ Goto(t, "quiesce_asleep")
         \/ (~same \/ "spurious" \in Interrupts) /\ Goto(t, "quiesce_refs")
  /\ UNCHANGED <<condvar, bounds, ghost>>

\* G1 is over and its slot becomes a fresh G2, in three steps.
Close(t) ==
  /\ pc[t] = "close"
  /\ g1_start' = [pos |-> g1_start.pos + orig_size, g2 |-> G1(t)]
  /\ Goto(t, "reopen")
  /\ UNCHANGED <<wseq, orig_size, lock, wrefs, g_refs, g_signals, g_size, bounds, ghost>>

Reopen(t) ==
  /\ pc[t] = "reopen"
  /\ g_signals' = [g_signals EXCEPT ![G1(t)] = [n |-> 0, closed |-> FALSE]]
  /\ Goto(t, "switch")
  /\ UNCHANGED <<wseq, g1_start, orig_size, lock, wrefs, g_refs, g_size, bounds, ghost>>

\* The old G2 becomes G1; all its waiters may have given up.
Switch(t) ==
  /\ pc[t] = "switch"
  /\ LET g1   == 1 - G1(t)
         size == wseq.pos - g1_start.pos
     IN  /\ wseq' = [wseq EXCEPT !.g2 = G1(t)]
         /\ orig_size' = size
         /\ g_size' = [g_size EXCEPT ![g1] = @ + size]
         /\ lock' = (g_size[g1] + size # 0)
         /\ IF g_size[g1] + size # 0
              THEN Go(t, "add", [local[t] EXCEPT !.g1 = g1])
              ELSE GoBack(t, Back(t))
  /\ UNCHANGED <<g1_start, wrefs, g_refs, g_signals, bounds, ghost>>

-----------------------------------------------------------------------------
(* __pthread_cond_destroy.  It "can be called as soon as all waiters have been          *)
(* signaled", and behind the calls that signalled them.                               *)

\* The waiters inside that have not given up: each of them may take a signal.
Takers == {w \in Waiting : local[w].ended = "" /\ pc[w] # "wake_destroyer"}

\* Signals to a waiter reach it when they are enough for all who may take them.
Signalled(w) == owed[w] = Everything \/ owed[w] >= Cardinality(Takers)

\* Nobody is blocked: a waiter inside has been signalled, gives up or is past its last sleep.
NoneBlocked ==
  /\ \A s \in Signalers : pc[s] = "idle"
  /\ \A w \in Waiters :
       /\ pc[w] # "register"
       /\ \/ pc[w] \in {"idle", "check_steal", "undo_load", "undo_check", "undo_cas", "undo_wake", "confirm"}
          \/ local[w].ended # ""
          \/ Signalled(w)

\* Faulty variant of Destroy: the waiters are not asked for a wake-up.
DestroySilently(t) ==
  /\ t \in Signalers /\ NoneBlocked
  /\ Go(t, IF wrefs.n > 0 THEN "destroy_wait" ELSE "destroyed", [NoLocals EXCEPT !.old = wrefs])
  /\ UNCHANGED <<condvar, bounds, ghost>>

Destroy(t) ==
  /\ t \in Signalers /\ NoneBlocked
  /\ wrefs' = [wrefs EXCEPT !.wake = TRUE]
  /\ Go(t, IF wrefs.n > 0 THEN "destroy_wait" ELSE "destroyed", [NoLocals EXCEPT !.old = wrefs])
  /\ UNCHANGED <<wseq, g1_start, orig_size, lock, g_refs, g_signals, g_size, bounds, ghost>>

\* The first time the copy lacks the request and the kernel refuses to wait.
DestroyWait(t) ==
  /\ pc[t] = "destroy_wait"
  /\ \/ wrefs = local[t].old /\ Goto(t, "destroy_asleep")
     \/ (wrefs # local[t].old \/ "spurious" \in Interrupts) /\ Goto(t, "destroy_load")
  /\ UNCHANGED <<condvar, bounds, ghost>>

DestroyLoad(t) ==
  /\ pc[t] = "destroy_load"
  /\ Go(t, IF wrefs.n > 0 THEN "destroy_wait" ELSE "destroyed", [NoLocals EXCEPT !.old = wrefs])
  /\ UNCHANGED <<condvar, bounds, ghost>>

-----------------------------------------------------------------------------
WaiterStep(w) ==
  \/ Register(w) \/ Load(w) \/ TakeRef(w) \/ CheckClosed(w) \/ CheckStart(w) \/ FutexWait(w)
  \/ DropRef(w) \/ ClearRequest(w) \/ WakeRefs(w) \/ Grab(w)
  \/ CheckSteal(w) \/ UndoLoad(w) \/ UndoCheck(w) \/ UndoCas(w) \/ UndoWake(w)
  \/ Confirm(w) \/ WakeDestroyer(w) \/ Cancel(w) \/ CleanupWake(w)

SignalStep(t) ==
  \/ CheckRefs(t) \/ Lock(t) \/ AddFirst(t) \/ WakeFirst(t) \/ Add(t) \/ WakeSignalled(t)
  \/ Quiesce(t) \/ QuiesceRefs(t) \/ QuiesceRequest(t) \/ QuiesceWait(t)
  \/ Close(t) \/ Reopen(t) \/ Switch(t)
  \/ Destroy(t) \/ DestroyWait(t) \/ DestroyLoad(t)

Next ==
  \/ \E w \in Waiters : Wait(w) \/ WaiterStep(w) \/ SpuriousWake(w)
                       \/ \E how \in Interrupts \cap {"timed_out", "cancelled"} : GiveUp(w, how)
  \/ \E t \in Threads : SignalStep(t) \/ \E all \in Kinds : Call(t, all)

Spec == Init /\ [][Next]_vars

\* A constraint that makes a search for a violation short: threads run one at a time, but
\* for waiters that have just consumed a signal.
OneAtATime ==
  Cardinality({t \in Threads : pc[t] \notin {"idle", "asleep", "drop_ref", "check_steal", "confirm"}}) <= 1

Symmetry == Permutations(Waiters) \cup Permutations(Signalers)

-----------------------------------------------------------------------------
(* Properties. *)

\* Nobody is on the way.
Quiet ==
  \A t \in Threads : pc[t] \in {"idle", "asleep", "quiesce_asleep", "destroy_asleep", "destroyed"}

\* When nobody is on the way any more, no waiter sleeps to whom a broadcast was made or
\* for whom more signals were sent than waiters returned: "if they did so unnecessarily,
\* all that happens is a spurious wake-up" (pthread_cond_wait.c, on a signal that is
\* added again).
NoLostWakeup == Quiet => \A w \in Waiters : pc[w] = "asleep" => owed[w] = 0

\* The same, but of signals only as long as no signal was added again: broadcasts reach
\* every waiter even then, and no signal is lost to a waiter that timed out, was
\* cancelled, came late or belongs to an older group.
WakeupsArrive ==
  Quiet => \A w \in Waiters : pc[w] = "asleep" => owed[w] # Everything /\ (owed[w] = 0 \/ undone)

\* "The group reference count prevents ABA issues on the futex word": nobody sleeps on
\* a group that is over.
SleepersAreCurrent == \A w \in Waiters : pc[w] = "asleep" => local[w].seq >= g1_start.pos

\* "No deadlock with group switching is possible here": while a signaller holds the lock
\* somebody can go on, although it may sleep until the group is unused and those who
\* give up wait for the lock and pthread_cond_destroy for all of them.
LockMovesOn ==
  lock => \E t \in Threads : /\ pc[t] \notin {"idle", "asleep", "quiesce_asleep", "cancel", "lock"}
                              /\ pc[t] \notin {"destroy_load", "destroy_wait", "destroy_asleep", "destroyed"}

\* The signallers keep track of the waiters they owe a signal: G1 has at most as many as
\* were in it when it was made G1, and G2 never loses more than it has or can be counted.
SizesAgree ==
  ~lock =>
    /\ g_size[1 - wseq.g2] \in 0 .. orig_size
    /\ g_size[wseq.g2] \in -MAX_GROUP_SIZE .. 0
    /\ g1_start.pos + orig_size - g_size[wseq.g2] <= wseq.pos
    /\ g1_start.g2 = wseq.g2

\* pthread_cond_destroy returns when the waiters are done with the condition variable, whose
\* memory may be reused at once, and it sleeps only for a waiter that comes: in the end it
\* is woken, unless a waiter that was signalled lost its signal to one that was added again.
DestroyedAfterUse ==
  /\ (\E t \in Signalers : pc[t] = "destroyed") =>
       \A w \in Waiters : pc[w] \in {"idle", "wake_destroyer"}
  /\ (\E t \in Signalers : pc[t] = "destroy_asleep") =>
       (\E w \in Waiters : pc[w] # "idle") /\ (Quiet => undone)

=============================================================================
