--------------------------- MODULE CondVarProofs ---------------------------
(***************************************************************************)
(* Theorems about CondVar, for any finite set of threads, any number of    *)
(* calls and interrupts: the signallers' sizes agree with the positions,   *)
(* nobody sleeps on a group that is over, whoever holds the lock can go on *)
(* or waits for somebody who can, no wake-up is lost, and                  *)
(* pthread_cond_destroy returns, behind the last waiter.                   *)
(***************************************************************************)
EXTENDS CondVar, FiniteSetTheorems, TLAPS

-----------------------------------------------------------------------------
(* Labels. *)

\* With a reference to the futex of its group.
UserLabels == {"check_closed", "check_start", "futex_wait", "asleep", "drop_ref"}

\* With a position and neither a signal nor a place among those who gave up.
Unsettled ==
  UserLabels \cup {"register", "load", "take_ref", "clear_request", "wake_refs", "grab", "cancel"}

\* Past the last sleep.
Leaving ==
  {"check_steal", "undo_load", "undo_check", "undo_cas", "undo_wake", "cleanup_wake", "confirm"}

\* With G1 closed and still the old one.
Quiescing == {"quiesce_refs", "quiesce_request", "quiesce_wait", "quiesce_asleep", "close"}

\* Between the two halves of a change of the groups' roles.
Shifting == {"reopen", "switch"}

\* With the lock.
Holding == {"add_first", "wake_first", "add", "quiesce"} \cup Quiescing \cup Shifting

SignalLabels == {"signal", "lock", "wake"} \cup Holding

DestroyLabels == {"destroy_load", "destroy_wait", "destroy_asleep", "destroyed"}

WaiterLabels == Unsettled \cup Leaving \cup SignalLabels \cup {"idle", "wake_destroyer"}

SignalerLabels == SignalLabels \cup DestroyLabels \cup {"idle"}

Labels == WaiterLabels \cup SignalerLabels

Ways == {"", "not_unlocked", "spurious", "timed_out", "cancelled"}

Locals ==
  [seq : Nat, g : Groups, signals : Int, closed : BOOLEAN, start : [pos : Int, g2 : Groups],
   to : {"", "load", "confirm", "cancel"}, ended : Ways, g1 : Groups, count : Int,
   all : BOOLEAN, old : [n : Int, wake : BOOLEAN]]

-----------------------------------------------------------------------------
(* Types. *)

Shared ==
  /\ wseq \in [pos : Nat, g2 : Groups]
  /\ g1_start \in [pos : Int, g2 : Groups]
  /\ orig_size \in Int
  /\ lock \in BOOLEAN
  /\ wrefs \in [n : Int, wake : BOOLEAN]
  /\ g_refs \in [Groups -> [n : Int, wake : BOOLEAN]]
  /\ g_signals \in [Groups -> [n : Int, closed : BOOLEAN]]
  /\ g_size \in [Groups -> Int]

Own ==
  /\ pc \in [Threads -> Labels]
  /\ local \in [Threads -> Locals]
  /\ \A w \in Waiters : pc[w] \in WaiterLabels
  /\ \A s \in Signalers : pc[s] \in SignalerLabels
  /\ \A t \in Threads : pc[t] \in {"drop_ref", "clear_request", "wake_refs"} => local[t].to # ""

Typed == Shared /\ Own

LEMMA Init_Typed == Init => Typed
<1>1. SUFFICES ASSUME Init PROVE Typed
  OBVIOUS
<1>2. Shared
  <2>1. [n |-> 0, wake |-> FALSE] \in [n : Int, wake : BOOLEAN]
    OBVIOUS
  <2>2. [n |-> 0, closed |-> FALSE] \in [n : Int, closed : BOOLEAN]
    OBVIOUS
  <2>3. /\ [pos |-> 0, g2 |-> 0] \in [pos : Nat, g2 : Groups]
        /\ [pos |-> 0, g2 |-> 0] \in [pos : Int, g2 : Groups] /\ 0 \in Int
    BY DEF Groups
  <2>4. g_refs \in [Groups -> [n : Int, wake : BOOLEAN]]
    BY <1>1, <2>1, Zenon DEF Init
  <2>5. g_signals \in [Groups -> [n : Int, closed : BOOLEAN]]
    BY <1>1, <2>2, Zenon DEF Init
  <2>6. QED BY <1>1, <2>1, <2>3, <2>4, <2>5, Zenon DEF Init, Shared
<1>3. NoLocals \in Locals
  BY DEF Locals, NoLocals, Groups, Ways
<1>4. Own
  BY <1>1, <1>3 DEF Init, Own, Threads, WaiterLabels, SignalerLabels, Labels
<1>5. QED BY <1>2, <1>4 DEF Typed

LEMMA ThreadsAre ==
  /\ \A w \in Waiters : w \in Threads /\ w \notin Signalers
  /\ \A s \in Signalers : s \in Threads /\ s \notin Waiters
  /\ \A t \in Threads : t \in Waiters \/ t \in Signalers
BY CondVarAssumption DEF Threads

\* Thread t may be at label l with the local variables x.
Fits(t, l, x) ==
  /\ l \in Labels /\ x \in Locals
  /\ t \in Waiters => l \in WaiterLabels
  /\ t \in Signalers => l \in SignalerLabels
  /\ l \in {"drop_ref", "clear_request", "wake_refs"} => x.to # ""

LEMMA GoOwn ==
  ASSUME Own, NEW t \in Threads, NEW l, NEW x, Go(t, l, x), Fits(t, l, x)
  PROVE  Own'
BY ThreadsAre DEF Own, Go, Fits

LEMMA GotoOwn ==
  ASSUME Own, NEW t \in Threads, NEW l, Goto(t, l), Fits(t, l, local[t])
  PROVE  Own'
BY ThreadsAre DEF Own, Goto, Fits

LEMMA KeptType ==
  ASSUME Own, NEW t \in Threads
  PROVE  /\ NoLocals \in Locals /\ Kept(t) \in Locals
         /\ Kept(t).g = local[t].g
<1>1. NoLocals \in Locals
  BY DEF Locals, NoLocals, Groups, Ways
<1>2. local[t] \in Locals
  BY DEF Own
<1>3. local[t].g \in Groups /\ local[t].ended \in Ways
  BY <1>2 DEF Locals
<1>4. QED BY <1>1, <1>3 DEF Kept, NoLocals, Locals

LEMMA GoBackOwn ==
  ASSUME Own, NEW t \in Threads, NEW l \in Labels, GoBack(t, l),
         l \notin {"drop_ref", "clear_request", "wake_refs"},
         t \in Waiters => l \in WaiterLabels,
         t \in Signalers => l \in SignalerLabels
  PROVE  Own'
BY KeptType, GoOwn DEF GoBack, Fits

LEMMA WakeOwn ==
  ASSUME Own, NEW t \in Threads, NEW l \in Labels, NEW s \in SUBSET Waiters, Wake(t, l, s), t \notin s,
         l \notin {"drop_ref", "clear_request", "wake_refs"},
         t \in Waiters => l \in WaiterLabels,
         t \in Signalers => l \in SignalerLabels
  PROVE  Own'
<1>1. \A u \in Threads : [local[u] EXCEPT !.to = "load"] \in Locals /\ [local[u] EXCEPT !.to = "load"].to = "load"
  BY DEF Own, Locals
<1>2. \A u \in Threads : Kept(u) \in Locals /\ local[u] \in Locals
  BY KeptType DEF Own
<1>3. local' \in [Threads -> Locals]
  BY <1>1, <1>2 DEF Wake
<1>4. pc' \in [Threads -> Labels]
  BY DEF Wake, Own, Labels, WaiterLabels, Unsettled, UserLabels
<1>5. QED
  BY <1>1, <1>3, <1>4, ThreadsAre DEF Own, Wake, WaiterLabels, Unsettled, UserLabels

LEMMA WakeOneWakes ==
  ASSUME NEW t, NEW l, NEW g, WakeOne(t, l, g), pc[t] # "asleep"
  PROVE  \E s \in SUBSET Asleep(g) : Wake(t, l, s) /\ t \notin s
<1>1. CASE Wake(t, l, {})
  BY <1>1
<1>2. ASSUME NEW v \in Asleep(g), Wake(t, l, {v})
      PROVE  {v} \in SUBSET Asleep(g) /\ t \notin {v}
  BY <1>2 DEF Asleep
<1>3. QED BY <1>1, <1>2 DEF WakeOne

LEMMA WaiterOwn ==
  ASSUME Typed, NEW w \in Waiters,
         Wait(w) \/ WaiterStep(w) \/ SpuriousWake(w)
           \/ \E how \in Interrupts \cap {"timed_out", "cancelled"} : GiveUp(w, how)
  PROVE  Own'
<1> USE DEF Typed
<1>1. w \in Threads /\ w \notin Signalers
  BY ThreadsAre
<1>2. local[w] \in Locals /\ NoLocals \in Locals
  BY <1>1, KeptType DEF Own
<1>3. ASSUME NEW l \in {"load", "take_ref", "check_closed", "check_start", "futex_wait", "asleep", "undo_check",
                        "undo_cas", "signal", "grab", "register", "cancel", "check_steal", "undo_load"},
             NEW x \in Locals
      PROVE  Fits(w, l, x) /\ Fits(w, l, local[w])
  BY <1>1, <1>2, <1>3 DEF Fits, Labels, WaiterLabels, Unsettled, UserLabels, Leaving, SignalLabels
<1>4. ASSUME NEW l \in {"confirm", "undo_wake", "cleanup_wake"}, GoBack(w, l)
      PROVE  Own'
  BY <1>1, <1>4, GoBackOwn DEF Labels, WaiterLabels, Leaving
<1>5. ASSUME NEW l \in {"load", "confirm", "cancel"}
      PROVE  /\ Fits(w, "drop_ref", [local[w] EXCEPT !.to = l])
             /\ \A how \in Ways : Fits(w, "drop_ref", [local[w] EXCEPT !.to = l, !.ended = how])
  BY <1>1, <1>2, <1>5 DEF Fits, Labels, WaiterLabels, Unsettled, UserLabels, Locals
<1>6. CASE Wait(w)
  <2>1. [NoLocals EXCEPT !.seq = wseq.pos, !.g = wseq.g2] \in Locals
    BY <1>2 DEF Locals, Shared
  <2>2. QED BY <1>1, <1>3, <1>6, <2>1, GoOwn DEF Wait
<1>7. CASE Register(w)
  <2>1. [local[w] EXCEPT !.ended = "not_unlocked"] \in Locals
    BY <1>2 DEF Locals, Ways
  <2>2. QED BY <1>1, <1>3, <1>7, <2>1, GoOwn, GotoOwn DEF Register
<1>8. ASSUME Consider(w) PROVE Own'
  <2>1. [local[w] EXCEPT !.signals = g_signals[G(w)].n] \in Locals
    BY <1>2 DEF Locals, Shared, G
  <2>2. QED BY <1>1, <1>3, <1>4, <1>8, <2>1, GoOwn DEF Consider
<1>9. CASE Load(w)
  BY <1>8, <1>9 DEF Load
<1>10. CASE TakeRef(w)
  BY <1>1, <1>2, <1>3, <1>10, GotoOwn DEF TakeRef
<1>11. CASE CheckClosed(w)
  BY <1>1, <1>2, <1>3, <1>5, <1>11, GotoOwn, GoOwn DEF CheckClosed
<1>12. CASE CheckStart(w)
  BY <1>1, <1>2, <1>3, <1>5, <1>12, GotoOwn, GoOwn DEF CheckStart
<1>13. CASE FutexWait(w)
  BY <1>1, <1>2, <1>3, <1>5, <1>13, GotoOwn, GoOwn DEF FutexWait
<1>14. CASE SpuriousWake(w)
  BY <1>1, <1>5, <1>14, GoOwn DEF SpuriousWake
<1>15. ASSUME NEW how \in Interrupts \cap {"timed_out", "cancelled"}, GiveUp(w, how) PROVE Own'
  BY <1>1, <1>5, <1>15, GoOwn DEF GiveUp, Ways
<1>16. ASSUME pc[w] \in {"drop_ref", "clear_request", "wake_refs"}
       PROVE  /\ local[w].to \in {"load", "confirm", "cancel"}
              /\ [local[w] EXCEPT !.to = ""] \in Locals
              /\ Fits(w, local[w].to, [local[w] EXCEPT !.to = ""])
              /\ Fits(w, "clear_request", local[w]) /\ Fits(w, "wake_refs", local[w])
  <2>1. local[w].to \in {"load", "confirm", "cancel"}
    BY <1>1, <1>2, <1>16 DEF Own, Locals
  <2>2. [local[w] EXCEPT !.to = ""] \in Locals
    BY <1>2 DEF Locals
  <2>3. QED BY <1>1, <1>2, <2>1, <2>2 DEF Fits, Labels, WaiterLabels, Unsettled, UserLabels, Leaving
<1>17. CASE DropRef(w)
  BY <1>1, <1>16, <1>17, GoOwn, GotoOwn DEF DropRef
<1>18. CASE ClearRequest(w)
  BY <1>1, <1>16, <1>18, GotoOwn DEF ClearRequest
<1>19. CASE WakeRefs(w)
  <2>1. local' \in [Threads -> Locals]
    BY <1>1, <1>16, <1>19 DEF WakeRefs, Own
  <2>2. "quiesce_refs" \in SignalLabels /\ SignalLabels \subseteq WaiterLabels \cap SignalerLabels
    BY DEF SignalLabels, WaiterLabels, SignalerLabels, Holding, Quiescing
  <2>3. local[w].to \in Labels /\ local[w].to \in WaiterLabels
    BY <1>16, <1>19 DEF WakeRefs, Fits
  <2>4. pc' \in [Threads -> Labels]
    BY <1>1, <1>19, <2>2, <2>3 DEF WakeRefs, Own, Labels
  <2>5. \A v \in Waiters : pc'[v] \in WaiterLabels
    BY <1>1, <1>19, <2>2, <2>3, ThreadsAre DEF WakeRefs, Own
  <2>6. \A v \in Signalers : pc'[v] \in SignalerLabels
    BY <1>1, <1>19, <2>2, <2>3, ThreadsAre DEF WakeRefs, Own
  <2>7. \A t \in Threads : pc'[t] \in {"drop_ref", "clear_request", "wake_refs"} => local'[t].to # ""
    BY <1>1, <1>16, <1>19 DEF WakeRefs, Own
  <2>8. QED BY <2>1, <2>4, <2>5, <2>6, <2>7 DEF Own
<1>20. CASE Grab(w)
  <2>1. [local[w] EXCEPT !.signals = 0] \in Locals
    <3>1. ASSUME NEW k \in Int PROVE [local[w] EXCEPT !.signals = k] \in Locals
      BY <1>2 DEF Locals
    <3>2. QED BY <3>1
  <2>2. QED BY <1>1, <1>3, <1>8, <1>20, <2>1, GoOwn DEF Grab
<1>21. CASE CheckSteal(w)
  <2>1. [local[w] EXCEPT !.start = g1_start] \in Locals
    BY <1>2 DEF Locals, Shared
  <2>2. QED BY <1>1, <1>3, <1>4, <1>21, <2>1, GoOwn DEF CheckSteal
<1>22. [local[w] EXCEPT !.signals = g_signals[G(w)].n, !.closed = g_signals[G(w)].closed] \in Locals
  <2>1. G(w) \in Groups
    BY <1>2 DEF G, Locals
  <2>2. g_signals[G(w)].n \in Int /\ g_signals[G(w)].closed \in BOOLEAN
    BY <2>1 DEF Shared
  <2>3. QED BY <1>2, <2>2 DEF Locals
<1>23. CASE UndoLoad(w)
  BY <1>1, <1>3, <1>22, <1>23, GoOwn DEF UndoLoad
<1>24. CASE UndoCheck(w)
  BY <1>1, <1>2, <1>3, <1>4, <1>24, GotoOwn DEF UndoCheck
<1>25. CASE UndoCas(w)
  BY <1>1, <1>3, <1>4, <1>22, <1>25, GoOwn DEF UndoCas
<1>26. ASSUME NEW g, WakeOne(w, "confirm", g), pc[w] # "asleep" PROVE Own'
  <2>1. "confirm" \in Labels /\ "confirm" \in WaiterLabels
    BY DEF Labels, WaiterLabels, Leaving
  <2>2. PICK s \in SUBSET Asleep(g) : Wake(w, "confirm", s) /\ w \notin s
    BY <1>26, WakeOneWakes
  <2>3. QED BY <1>1, <2>1, <2>2, WakeOwn DEF Asleep
<1>27. CASE UndoWake(w)
  BY <1>26, <1>27 DEF UndoWake
<1>28. CASE Confirm(w)
  <2>1. Fits(w, "idle", NoLocals) /\ Fits(w, "wake_destroyer", NoLocals)
    BY <1>1, <1>2 DEF Fits, Labels, WaiterLabels
  <2>2. QED BY <1>1, <1>28, <2>1, GoOwn DEF Confirm
<1>29. CASE WakeDestroyer(w)
  <2>1. "idle" \in WaiterLabels \cap Labels /\ "destroy_load" \in SignalerLabels \cap Labels
    BY DEF Labels, WaiterLabels, SignalerLabels, DestroyLabels
  <2>2. \A v \in Waiters : pc[v] # "destroy_asleep"
    BY DEF Own, WaiterLabels, Unsettled, UserLabels, Leaving, SignalLabels, Holding, Quiescing, Shifting
  <2>3. QED BY <1>1, <1>29, <2>1, <2>2, ThreadsAre DEF WakeDestroyer, Own
<1>30. Gone(w) \in {"confirm", "cleanup_wake"}
  BY DEF Gone
<1>31. CASE Cancel(w)
  <2>1. [local[w] EXCEPT !.all = TRUE] \in Locals
    BY <1>2 DEF Locals
  <2>2. QED BY <1>1, <1>2, <1>3, <1>4, <1>30, <1>31, <2>1, GoOwn, GotoOwn DEF Cancel
<1>32. CASE CleanupWake(w)
  BY <1>26, <1>32 DEF CleanupWake
<1>33. QED
  BY <1>6, <1>7, <1>9, <1>10, <1>11, <1>12, <1>13, <1>14, <1>15, <1>17, <1>18, <1>19, <1>20, <1>21,
     <1>23, <1>24, <1>25, <1>27, <1>28, <1>29, <1>31, <1>32
  DEF WaiterStep

LEMMA SignalOwn ==
  ASSUME Typed, NEW t \in Threads, SignalStep(t) \/ \E all \in Kinds : Call(t, all)
  PROVE  Own'
<1> USE DEF Typed
<1>1. local[t] \in Locals /\ NoLocals \in Locals
  BY KeptType DEF Own
<1>2. /\ SignalLabels \subseteq WaiterLabels /\ SignalLabels \subseteq SignalerLabels /\ SignalLabels \subseteq Labels
      /\ \A l \in SignalLabels : l \notin {"drop_ref", "clear_request", "wake_refs"}
  BY DEF SignalLabels, WaiterLabels, SignalerLabels, Labels, Holding, Quiescing, Shifting
<1>3. ASSUME NEW l \in SignalLabels, NEW x \in Locals
      PROVE  Fits(t, l, x)
  BY <1>2 DEF Fits
<1>4. {"signal", "lock", "wake", "add_first", "wake_first", "add", "quiesce", "quiesce_refs", "quiesce_request",
       "quiesce_wait", "quiesce_asleep", "close", "reopen", "switch"} \subseteq SignalLabels
  BY DEF SignalLabels, Holding, Quiescing, Shifting
<1>5. /\ Back(t) \in Labels /\ Back(t) \notin {"drop_ref", "clear_request", "wake_refs"}
      /\ t \in Waiters => Back(t) \in WaiterLabels
      /\ t \in Signalers => Back(t) \in SignalerLabels
  BY ThreadsAre DEF Back, Gone, Labels, WaiterLabels, SignalerLabels, Leaving
<1>6. ASSUME GoBack(t, Back(t)) PROVE Own'
  BY <1>5, <1>6, GoBackOwn
<1>7. ASSUME NEW k \in Int PROVE [local[t] EXCEPT !.count = k] \in Locals
  BY <1>1 DEF Locals
<1>8. G1(t) \in Groups /\ 1 - G1(t) \in Groups /\ wseq.g2 \in Groups /\ 1 - wseq.g2 \in Groups
  <2>1. G1(t) \in {0, 1} /\ wseq.g2 \in {0, 1}
    BY <1>1 DEF G1, Locals, Shared, Groups
  <2>2. QED BY <2>1 DEF Groups
<1>9. ASSUME NEW all \in Kinds, Call(t, all) PROVE Own'
  <2>1. [NoLocals EXCEPT !.all = all] \in Locals
    BY <1>1, CondVarAssumption DEF Locals
  <2>2. QED BY <1>3, <1>4, <1>9, <2>1, GoOwn DEF Call
<1>10. CASE CheckRefs(t)
  BY <1>1, <1>3, <1>4, <1>6, <1>10, GotoOwn DEF CheckRefs
<1>11. CASE Lock(t)
  <2>1. [local[t] EXCEPT !.g1 = 1 - wseq.g2, !.count = wseq.pos] \in Locals
    <3>1. wseq.pos \in Int
      BY DEF Shared
    <3>2. QED BY <1>1, <1>8, <3>1 DEF Locals
  <2>2. QED BY <1>3, <1>4, <1>11, <2>1, GoOwn DEF Lock
<1>12. CASE AddFirst(t)
  BY <1>1, <1>3, <1>4, <1>12, GotoOwn DEF AddFirst
<1>13. ASSUME NEW g PROVE Asleep(g) \in SUBSET Waiters
  BY DEF Asleep
<1>14. CASE WakeFirst(t)
  <2>1. t \notin Asleep(G1(t))
    BY <1>14 DEF WakeFirst, Asleep
  <2>2. "quiesce" \in Labels /\ "quiesce" \notin {"drop_ref", "clear_request", "wake_refs"}
        /\ "quiesce" \in WaiterLabels /\ "quiesce" \in SignalerLabels
    BY <1>2, <1>4
  <2>3. QED BY <1>13, <1>14, <2>1, <2>2, WakeOwn DEF WakeFirst
<1>15. CASE Add(t)
  BY <1>1, <1>3, <1>4, <1>15, GotoOwn DEF Add
<1>16. CASE WakeSignalled(t)
  <2>1. t \notin Asleep(G1(t)) /\ pc[t] # "asleep"
    BY <1>16 DEF WakeSignalled, Asleep
  <2>2. PICK s \in SUBSET Asleep(G1(t)) : Wake(t, Back(t), s) /\ t \notin s
    BY <1>16, <2>1, WakeOneWakes DEF WakeSignalled
  <2>3. QED BY <1>5, <1>13, <2>2, WakeOwn
<1>17. CASE Quiesce(t)
  BY <1>3, <1>4, <1>6, <1>7, <1>17, GoOwn DEF Quiesce
<1>18. CASE QuiesceRefs(t)
  BY <1>3, <1>4, <1>7, <1>18, GoOwn DEF QuiesceRefs
<1>19. CASE QuiesceRequest(t)
  <2>1. g_refs[G1(t)].n \in Int
    BY <1>8 DEF Shared
  <2>2. QED BY <1>3, <1>4, <1>7, <1>19, <2>1, GoOwn DEF QuiesceRequest
<1>20. CASE QuiesceWait(t)
  BY <1>1, <1>3, <1>4, <1>20, GotoOwn DEF QuiesceWait
<1>21. CASE Close(t)
  BY <1>1, <1>3, <1>4, <1>21, GotoOwn DEF Close
<1>22. CASE Reopen(t)
  BY <1>1, <1>3, <1>4, <1>22, GotoOwn DEF Reopen
<1>23. CASE Switch(t)
  <2>1. [local[t] EXCEPT !.g1 = 1 - G1(t)] \in Locals
    BY <1>1, <1>8 DEF Locals
  <2>2. QED BY <1>3, <1>4, <1>6, <1>23, <2>1, GoOwn DEF Switch
<1>24. ASSUME t \in Signalers PROVE
         \A l \in {"destroy_wait", "destroyed", "destroy_asleep", "destroy_load"} :
            \A x \in Locals : Fits(t, l, x)
  BY <1>24, ThreadsAre DEF Fits, Labels, SignalerLabels, DestroyLabels
<1>25. [NoLocals EXCEPT !.old = wrefs] \in Locals
  BY <1>1 DEF Locals, Shared
<1>26. CASE Destroy(t)
  BY <1>24, <1>25, <1>26, GoOwn DEF Destroy
<1>27. ASSUME pc[t] \in {"destroy_wait", "destroy_load"} PROVE t \in Signalers
  BY <1>27, ThreadsAre
  DEF Own, WaiterLabels, Unsettled, UserLabels, Leaving, SignalLabels, Holding, Quiescing, Shifting
<1>28. CASE DestroyWait(t)
  BY <1>1, <1>24, <1>27, <1>28, GotoOwn DEF DestroyWait
<1>29. CASE DestroyLoad(t)
  BY <1>24, <1>25, <1>27, <1>29, GoOwn DEF DestroyLoad
<1>30. QED
  BY <1>9, <1>10, <1>11, <1>12, <1>14, <1>15, <1>16, <1>17, <1>18, <1>19, <1>20, <1>21, <1>22, <1>23,
     <1>26, <1>28, <1>29
  DEF SignalStep

LEMMA SharedStep == Typed /\ [Next]_vars => Shared'
<1> USE DEF Typed, Shared
<1>1. SUFFICES ASSUME Typed, [Next]_vars PROVE Shared'
  OBVIOUS
<1>2. CASE UNCHANGED condvar
  BY <1>1, <1>2 DEF condvar
<1>3. \A t \in Threads : G(t) \in Groups /\ G1(t) \in Groups /\ 1 - G1(t) \in Groups /\ 1 - wseq.g2 \in Groups
  <2>1. \A t \in Threads : G(t) \in {0, 1} /\ G1(t) \in {0, 1} /\ wseq.g2 \in {0, 1}
    BY <1>1 DEF Own, Locals, G, G1, Groups
  <2>2. QED BY <2>1 DEF Groups
<1>7. ASSUME NEW g \in Groups, NEW k \in Int
      PROVE  /\ [g_signals EXCEPT ![g].n = @ + k] \in [Groups -> [n : Int, closed : BOOLEAN]]
             /\ [g_refs EXCEPT ![g].n = @ + k] \in [Groups -> [n : Int, wake : BOOLEAN]]
             /\ [g_size EXCEPT ![g] = @ - k] \in [Groups -> Int]
             /\ [wrefs EXCEPT !.n = @ + k] \in [n : Int, wake : BOOLEAN]
  BY <1>1
<1>8. ASSUME NEW g \in Groups
      PROVE  /\ [g_signals EXCEPT ![g].n = @ + 1] \in [Groups -> [n : Int, closed : BOOLEAN]]
             /\ [g_signals EXCEPT ![g].n = @ - 1] \in [Groups -> [n : Int, closed : BOOLEAN]]
             /\ [g_refs EXCEPT ![g].n = @ - 1] \in [Groups -> [n : Int, wake : BOOLEAN]]
             /\ [wrefs EXCEPT !.n = @ - 1] \in [n : Int, wake : BOOLEAN]
  BY <1>1
<1>9. ASSUME NEW g \in Groups, NEW b \in BOOLEAN
      PROVE  [g_signals EXCEPT ![g].closed = b] \in [Groups -> [n : Int, closed : BOOLEAN]]
  BY <1>1
<1>4. ASSUME NEW w \in Waiters,
             Wait(w) \/ WaiterStep(w) \/ SpuriousWake(w)
               \/ \E how \in Interrupts \cap {"timed_out", "cancelled"} : GiveUp(w, how)
      PROVE  Shared'
  <2>1. w \in Threads
    BY ThreadsAre
  <2>2. CASE Wait(w)
    BY <1>1, <2>2 DEF Wait
  <2>3. CASE Register(w)
    BY <1>1, <2>3 DEF Register
  <2>12. CASE Confirm(w)
    <3>1. wrefs' \in [n : Int, wake : BOOLEAN]
      BY <1>3, <1>8, <2>1, <2>12 DEF Confirm
    <3>2. QED BY <1>1, <2>12, <3>1 DEF Confirm
  <2>4. CASE TakeRef(w)
    BY <1>1, <1>3, <2>1, <2>4 DEF TakeRef
  <2>5. CASE DropRef(w)
    <3>1. g_refs' \in [Groups -> [n : Int, wake : BOOLEAN]]
      BY <1>3, <1>8, <2>1, <2>5 DEF DropRef
    <3>2. QED BY <1>1, <2>5, <3>1 DEF DropRef
  <2>6. CASE ClearRequest(w)
    BY <1>1, <1>3, <2>1, <2>6 DEF ClearRequest
  <2>7. CASE Grab(w)
    <3>1. g_signals' \in [Groups -> [n : Int, closed : BOOLEAN]]
      <4>1. g_signals' = [g_signals EXCEPT ![G(w)].n = @ - 1] \/ g_signals' = g_signals
        BY <2>7, Zenon DEF Grab
      <4>2. G(w) \in Groups /\ g_signals \in [Groups -> [n : Int, closed : BOOLEAN]]
        BY <1>1, <1>3, <2>1
      <4>3. [g_signals EXCEPT ![G(w)].n = @ - 1] \in [Groups -> [n : Int, closed : BOOLEAN]]
        BY <1>8, <4>2
      <4>4. QED BY <4>1, <4>2, <4>3, Zenon
    <3>2. QED BY <1>1, <2>7, <3>1 DEF Grab
  <2>8. CASE UndoCas(w)
    <3>1. g_signals' \in [Groups -> [n : Int, closed : BOOLEAN]]
      <4>1. g_signals' = [g_signals EXCEPT ![G(w)].n = @ + 1] \/ g_signals' = g_signals
        BY <2>8, Zenon DEF UndoCas
      <4>2. G(w) \in Groups /\ g_signals \in [Groups -> [n : Int, closed : BOOLEAN]]
        BY <1>1, <1>3, <2>1
      <4>3. [g_signals EXCEPT ![G(w)].n = @ + 1] \in [Groups -> [n : Int, closed : BOOLEAN]]
        BY <1>8, <4>2
      <4>4. QED BY <4>1, <4>2, <4>3, Zenon
    <3>2. QED BY <1>1, <2>8, <3>1 DEF UndoCas
  <2>9. CASE Cancel(w)
    BY <1>1, <1>3, <2>1, <2>9 DEF Cancel
  <2>10. CASE Load(w) \/ CheckClosed(w) \/ CheckStart(w) \/ FutexWait(w) \/ SpuriousWake(w) \/ WakeRefs(w)
               \/ CheckSteal(w) \/ UndoLoad(w) \/ UndoCheck(w) \/ UndoWake(w) \/ WakeDestroyer(w)
               \/ CleanupWake(w) \/ \E how \in Interrupts \cap {"timed_out", "cancelled"} : GiveUp(w, how)
    BY <1>2, <2>10
    DEF Load, CheckClosed, CheckStart, FutexWait, SpuriousWake, WakeRefs, CheckSteal, UndoLoad, UndoCheck,
        UndoWake, WakeDestroyer, CleanupWake, GiveUp
  <2>11. QED
    BY <1>4, <2>2, <2>3, <2>4, <2>5, <2>6, <2>7, <2>8, <2>9, <2>10, <2>12 DEF WaiterStep
<1>5. ASSUME NEW t \in Threads, SignalStep(t) \/ \E all \in Kinds : Call(t, all)
      PROVE  Shared'
  <2>1. CASE Lock(t)
    BY <1>1, <2>1 DEF Lock
  <2>2. CASE AddFirst(t)
    BY <1>1, <1>3, <2>2 DEF AddFirst, AddSignals
  <2>3. CASE Add(t)
    <3>1. (IF local[t].all THEN g_size[G1(t)] ELSE 1) \in Int
      BY <1>1, <1>3
    <3>2. g_signals' \in [Groups -> [n : Int, closed : BOOLEAN]] /\ g_size' \in [Groups -> Int]
      BY <1>3, <1>7, <2>3, <3>1 DEF Add, AddSignals
    <3>3. QED BY <1>1, <2>3, <3>2 DEF Add
  <2>4. CASE Quiesce(t)
    <3>1. g_signals' \in [Groups -> [n : Int, closed : BOOLEAN]] /\ lock' \in BOOLEAN
      <4>1. g_signals' = [g_signals EXCEPT ![G1(t)].closed = TRUE] \/ g_signals' = g_signals
        BY <2>4, Zenon DEF Quiesce
      <4>2. lock' = FALSE \/ lock' = lock
        BY <2>4, Zenon DEF Quiesce
      <4>3. g_signals \in [Groups -> [n : Int, closed : BOOLEAN]] /\ lock \in BOOLEAN
        BY <1>1
      <4>4. [g_signals EXCEPT ![G1(t)].closed = TRUE] \in [Groups -> [n : Int, closed : BOOLEAN]]
        <5>1. G1(t) \in Groups /\ TRUE \in BOOLEAN
          BY <1>3
        <5>2. QED BY <1>9, <5>1, Zenon
      <4>5. QED BY <4>1, <4>2, <4>3, <4>4, Zenon
    <3>2. QED BY <1>1, <2>4, <3>1 DEF Quiesce
  <2>5. CASE QuiesceRequest(t)
    BY <1>1, <1>3, <2>5 DEF QuiesceRequest
  <2>6. CASE Close(t)
    BY <1>1, <1>3, <2>6 DEF Close
  <2>7. CASE Reopen(t)
    BY <1>1, <1>3, <2>7 DEF Reopen
  <2>8. CASE Switch(t)
    BY <1>1, <1>3, <2>8 DEF Switch
  <2>9. CASE Destroy(t)
    BY <1>1, <2>9 DEF Destroy
  <2>10. CASE CheckRefs(t) \/ WakeFirst(t) \/ WakeSignalled(t) \/ QuiesceRefs(t) \/ QuiesceWait(t)
               \/ DestroyWait(t) \/ DestroyLoad(t) \/ \E all \in Kinds : Call(t, all)
    BY <1>2, <2>10
    DEF CheckRefs, WakeFirst, WakeSignalled, QuiesceRefs, QuiesceWait, DestroyWait, DestroyLoad, Call
  <2>11. QED
    BY <1>5, <2>1, <2>2, <2>3, <2>4, <2>5, <2>6, <2>7, <2>8, <2>9, <2>10 DEF SignalStep
<1>6. QED BY <1>1, <1>2, <1>4, <1>5 DEF Next, vars

LEMMA TypedStep == Typed /\ [Next]_vars => Typed'
<1>1. SUFFICES ASSUME Typed, [Next]_vars PROVE Own'
  BY SharedStep DEF Typed
<1>2. CASE UNCHANGED vars
  BY <1>1, <1>2 DEF vars, Typed, Own
<1>3. QED BY <1>1, <1>2, WaiterOwn, SignalOwn DEF Next

-----------------------------------------------------------------------------
(* Where the actions take the threads. *)

\* The fields the invariants speak of are as before.
Keeps(u) ==
  /\ local'[u].seq = local[u].seq /\ local'[u].g = local[u].g
  /\ local'[u].g1 = local[u].g1 /\ local'[u].old = local[u].old

\* A thread that does not act is woken at most.
Bystander(u) ==
  /\ \/ pc'[u] = pc[u]
     \/ pc[u] = "asleep" /\ pc'[u] = "drop_ref"
     \/ pc[u] = "quiesce_asleep" /\ pc'[u] = "quiesce_refs"
     \/ pc[u] = "destroy_asleep" /\ pc'[u] = "destroy_load"
  /\ Keeps(u)

\* Thread t acts, at one of the labels A, and goes on at one of the labels L.
Moves(t, A, L) ==
  /\ pc[t] \in A /\ pc'[t] \in L
  /\ \A u \in Threads : u # t => Bystander(u)

\* Where thread t goes on when a signal is over.
Home(t) == IF t \in Waiters THEN {"confirm", "cleanup_wake"} ELSE {"idle"}

LEMMA GoMoves ==
  ASSUME Typed, NEW t \in Threads, NEW l, NEW x, Go(t, l, x), NEW A, NEW L, pc[t] \in A, l \in L
  PROVE  Moves(t, A, L) /\ pc'[t] = l /\ local'[t] = x
<1>1. pc' = [pc EXCEPT ![t] = l] /\ local' = [local EXCEPT ![t] = x]
  BY DEF Go
<1>2. pc \in [Threads -> Labels] /\ local \in [Threads -> Locals]
  BY DEF Typed, Own
<1>3. pc'[t] = l /\ local'[t] = x /\ \A u \in Threads : u # t => pc'[u] = pc[u] /\ local'[u] = local[u]
  BY <1>1, <1>2
<1>4. QED BY <1>3 DEF Moves, Bystander, Keeps

LEMMA GotoMoves ==
  ASSUME Typed, NEW t \in Threads, NEW l, Goto(t, l), NEW A, NEW L, pc[t] \in A, l \in L
  PROVE  Moves(t, A, L) /\ pc'[t] = l /\ Keeps(t)
<1>1. pc' = [pc EXCEPT ![t] = l] /\ local' = local
  BY DEF Goto
<1>2. pc \in [Threads -> Labels]
  BY DEF Typed, Own
<1>3. pc'[t] = l /\ \A u \in Threads : u # t => pc'[u] = pc[u]
  BY <1>1, <1>2
<1>4. QED BY <1>1, <1>3 DEF Moves, Bystander, Keeps

LEMMA GoBackMoves ==
  ASSUME Typed, NEW t \in Threads, NEW l, GoBack(t, l), NEW A, NEW L, pc[t] \in A, l \in L
  PROVE  Moves(t, A, L) /\ pc'[t] = l
BY GoMoves DEF GoBack

\* Changes of the other fields.
SetTo(t, v)      == [local[t] EXCEPT !.to = v]
SetEnded(t, v)   == [local[t] EXCEPT !.ended = v]
SetSignals(t, v) == [local[t] EXCEPT !.signals = v]
SetCount(t, v)   == [local[t] EXCEPT !.count = v]
SetGaveUp(t, v)  == [local[t] EXCEPT !.to = "cancel", !.ended = v]

Edited(t, x) ==
  /\ x.seq = local[t].seq /\ x.g = local[t].g
  /\ x.g1 = local[t].g1 /\ x.old = local[t].old

LEMMA Edits ==
  ASSUME Typed, NEW t \in Threads, NEW v
  PROVE  /\ Edited(t, SetTo(t, v)) /\ Edited(t, SetEnded(t, v)) /\ Edited(t, SetSignals(t, v))
         /\ Edited(t, SetCount(t, v)) /\ Edited(t, SetGaveUp(t, v))
<1>1. local[t] \in Locals
  BY DEF Typed, Own
<1>2. Edited(t, SetTo(t, v))
  BY <1>1 DEF Locals, Edited, SetTo
<1>3. Edited(t, SetEnded(t, v))
  BY <1>1 DEF Locals, Edited, SetEnded
<1>4. Edited(t, SetSignals(t, v))
  BY <1>1 DEF Locals, Edited, SetSignals
<1>5. Edited(t, SetCount(t, v))
  BY <1>1 DEF Locals, Edited, SetCount
<1>6. Edited(t, SetGaveUp(t, v))
  BY <1>1 DEF Locals, Edited, SetGaveUp
<1>7. QED BY <1>2, <1>3, <1>4, <1>5, <1>6

LEMMA EditMoves ==
  ASSUME Typed, NEW t \in Threads, NEW l, NEW x, Go(t, l, x), Edited(t, x), NEW A, NEW L, pc[t] \in A, l \in L
  PROVE  Moves(t, A, L) /\ pc'[t] = l /\ Keeps(t)
BY GoMoves DEF Keeps, Edited

LEMMA WakeMoves ==
  ASSUME Typed, NEW t \in Threads, NEW l, NEW s \in SUBSET Waiters, Wake(t, l, s), t \notin s,
         \A u \in s : pc[u] = "asleep", NEW A, NEW L, pc[t] \in A, l \in L
  PROVE  Moves(t, A, L) /\ pc'[t] = l /\ (l = "quiesce" => Keeps(t))
<1>1. pc'[t] = l /\ (l = "quiesce" => local'[t] = local[t])
  BY DEF Wake
<1>2. ASSUME NEW u \in Threads, u # t, u \notin s
      PROVE  pc'[u] = pc[u] /\ local'[u] = local[u]
  BY <1>2 DEF Wake
<1>3. ASSUME NEW u \in Threads, u # t, u \in s
      PROVE  pc[u] = "asleep" /\ pc'[u] = "drop_ref" /\ Keeps(u)
  <2>1. local[u] \in Locals
    BY DEF Typed, Own
  <2>2. pc'[u] = "drop_ref" /\ local'[u] = [local[u] EXCEPT !.to = "load"]
    BY <1>3 DEF Wake
  <2>3. QED BY <1>3, <2>1, <2>2 DEF Keeps, Locals
<1>4. QED BY <1>1, <1>2, <1>3 DEF Moves, Bystander, Keeps

\* The actions of a waiter with a position that is not settled.
LEMMA WaitMoves ==
  ASSUME Typed, NEW w \in Waiters
  PROVE  /\ Wait(w) => /\ Moves(w, {"idle"}, {"register"})
                       /\ local'[w].seq = wseq.pos /\ local'[w].g = wseq.g2
         /\ Register(w) => Moves(w, {"register"}, {"load", "cancel"}) /\ Keeps(w)
         /\ Load(w) => /\ Moves(w, {"load"}, {"confirm", "grab", "take_ref"})
                       /\ pc'[w] # "confirm" => Keeps(w)
         /\ Grab(w) => /\ Moves(w, {"grab"}, {"confirm", "grab", "take_ref", "check_steal"})
                       /\ pc'[w] # "confirm" => Keeps(w)
         /\ TakeRef(w) => Moves(w, {"take_ref"}, {"check_closed"}) /\ Keeps(w)
         /\ CheckClosed(w) => /\ Moves(w, {"check_closed"}, {"drop_ref", "check_start"}) /\ Keeps(w)
                              /\ pc'[w] = "check_start" => ~g_signals[G(w)].closed
         /\ CheckStart(w) => /\ Moves(w, {"check_start"}, {"drop_ref", "futex_wait"}) /\ Keeps(w)
                             /\ pc'[w] = "futex_wait" => local[w].seq >= g1_start.pos
         /\ FutexWait(w) => Moves(w, {"futex_wait"}, {"drop_ref", "asleep"}) /\ Keeps(w)
         /\ SpuriousWake(w) => Moves(w, {"asleep"}, {"drop_ref"}) /\ Keeps(w)
         /\ \A how : GiveUp(w, how) => Moves(w, {"futex_wait", "asleep", "drop_ref"}, {"drop_ref"}) /\ Keeps(w)
         /\ DropRef(w) => Moves(w, {"drop_ref"}, {"clear_request", "load", "confirm", "cancel"}) /\ Keeps(w)
         /\ ClearRequest(w) => Moves(w, {"clear_request"}, {"wake_refs"}) /\ Keeps(w)
         /\ WakeRefs(w) => Moves(w, {"wake_refs"}, {"load", "confirm", "cancel"}) /\ Keeps(w)
         /\ Cancel(w) => Moves(w, {"cancel"}, {"signal", "confirm", "cleanup_wake"})
<1>1. w \in Threads /\ local[w] \in Locals
  BY ThreadsAre DEF Typed, Own
<1>2. Wait(w) => /\ Moves(w, {"idle"}, {"register"})
                 /\ local'[w].seq = wseq.pos /\ local'[w].g = wseq.g2
  <2>1. SUFFICES ASSUME Wait(w)
                 PROVE  /\ Moves(w, {"idle"}, {"register"})
                        /\ local'[w].seq = wseq.pos /\ local'[w].g = wseq.g2
    OBVIOUS
  <2> DEFINE x == [NoLocals EXCEPT !.seq = wseq.pos, !.g = wseq.g2]
  <2>2. Go(w, "register", x) /\ pc[w] = "idle"
    BY <2>1 DEF Wait
  <2>3. x.seq = wseq.pos /\ x.g = wseq.g2
    BY DEF NoLocals
  <2> HIDE DEF x
  <2>4. QED BY <1>1, <2>2, <2>3, GoMoves
<1>3. ASSUME Register(w)
      PROVE  Moves(w, {"register"}, {"load", "cancel"}) /\ Keeps(w)
  <2>1. /\ pc[w] = "register"
        /\ Goto(w, "load") \/ Go(w, "cancel", SetEnded(w, "not_unlocked"))
    BY <1>3 DEF Register, SetEnded
  <2>2. QED BY <1>1, <2>1, GotoMoves, EditMoves, Edits
<1>4. ASSUME Consider(w), NEW A, pc[w] \in A
      PROVE  /\ Moves(w, A, {"confirm", "grab", "take_ref"})
             /\ pc'[w] # "confirm" => Keeps(w)
  <2>1. \/ GoBack(w, "confirm")
        \/ Go(w, "grab", SetSignals(w, g_signals[G(w)].n))
        \/ Go(w, "take_ref", SetSignals(w, g_signals[G(w)].n))
    BY <1>4 DEF Consider, SetSignals
  <2>2. QED BY <1>1, <1>4, <2>1, GotoMoves, GoBackMoves, EditMoves, Edits
<1>5. Load(w) => /\ Moves(w, {"load"}, {"confirm", "grab", "take_ref"})
                 /\ pc'[w] # "confirm" => Keeps(w)
  BY <1>4 DEF Load
<1>6. ASSUME Grab(w)
      PROVE  /\ Moves(w, {"grab"}, {"confirm", "grab", "take_ref", "check_steal"})
             /\ pc'[w] # "confirm" => Keeps(w)
  <2>1. CASE Go(w, "check_steal", SetSignals(w, 0))
    BY <1>1, <1>6, <2>1, EditMoves, Edits DEF Grab
  <2>2. CASE Consider(w)
    BY <1>4, <1>6, <2>2 DEF Grab, Moves
  <2>3. QED BY <1>6, <2>1, <2>2 DEF Grab, SetSignals
<1>7. TakeRef(w) => Moves(w, {"take_ref"}, {"check_closed"}) /\ Keeps(w)
  BY <1>1, GotoMoves DEF TakeRef
<1>8. CheckClosed(w) => /\ Moves(w, {"check_closed"}, {"drop_ref", "check_start"}) /\ Keeps(w)
                        /\ pc'[w] = "check_start" => ~g_signals[G(w)].closed
  <2>1. CheckClosed(w) => /\ pc[w] = "check_closed"
                           /\ \/ Go(w, "drop_ref", SetTo(w, "confirm"))
                              \/ Goto(w, "check_start") /\ ~g_signals[G(w)].closed
    BY DEF CheckClosed, SetTo
  <2>2. QED BY <1>1, <2>1, GotoMoves, EditMoves, Edits
<1>9. CheckStart(w) => /\ Moves(w, {"check_start"}, {"drop_ref", "futex_wait"}) /\ Keeps(w)
                       /\ pc'[w] = "futex_wait" => local[w].seq >= g1_start.pos
  <2>1. local[w].seq \in Nat /\ g1_start.pos \in Int
    BY <1>1 DEF Typed, Shared, Locals
  <2>2. CheckStart(w) => /\ pc[w] = "check_start"
                         /\ \/ Go(w, "drop_ref", SetTo(w, "confirm"))
                            \/ Goto(w, "futex_wait") /\ ~(local[w].seq < g1_start.pos)
    BY DEF CheckStart, SetTo
  <2>3. ~(local[w].seq < g1_start.pos) => local[w].seq >= g1_start.pos
    BY <2>1
  <2>4. QED BY <1>1, <2>2, <2>3, GotoMoves, EditMoves, Edits
<1>10. ASSUME FutexWait(w)
      PROVE  Moves(w, {"futex_wait"}, {"drop_ref", "asleep"}) /\ Keeps(w)
  <2>1. /\ pc[w] = "futex_wait"
        /\ Go(w, "drop_ref", SetTo(w, "load")) \/ Goto(w, "asleep")
    BY <1>10 DEF FutexWait, SetTo
  <2>2. QED BY <1>1, <2>1, GotoMoves, EditMoves, Edits
<1>11. SpuriousWake(w) => Moves(w, {"asleep"}, {"drop_ref"}) /\ Keeps(w)
  <2>1. SpuriousWake(w) => pc[w] = "asleep" /\ Go(w, "drop_ref", SetTo(w, "load"))
    BY DEF SpuriousWake, SetTo
  <2>2. QED BY <1>1, <2>1, GotoMoves, EditMoves, Edits
<1>12. ASSUME NEW how, GiveUp(w, how)
       PROVE  Moves(w, {"futex_wait", "asleep", "drop_ref"}, {"drop_ref"}) /\ Keeps(w)
  <2>1. pc[w] \in {"futex_wait", "asleep", "drop_ref"} /\ Go(w, "drop_ref", SetGaveUp(w, how))
    BY <1>12 DEF GiveUp, SetGaveUp
  <2>2. QED BY <1>1, <2>1, GotoMoves, EditMoves, Edits
<1>13. pc[w] \in {"drop_ref", "wake_refs"} => local[w].to \in {"load", "confirm", "cancel"}
  BY <1>1 DEF Typed, Own, Locals
<1>14. ASSUME DropRef(w)
      PROVE  Moves(w, {"drop_ref"}, {"clear_request", "load", "confirm", "cancel"}) /\ Keeps(w)
  <2>1. /\ pc[w] = "drop_ref" /\ local[w].to \in {"load", "confirm", "cancel"}
        /\ Goto(w, "clear_request") \/ Go(w, local[w].to, SetTo(w, ""))
    BY <1>14, <1>13 DEF DropRef, SetTo
  <2> DEFINE L == {"clear_request", "load", "confirm", "cancel"}
  <2>2. local[w].to \in L /\ "clear_request" \in L /\ pc[w] \in {"drop_ref"}
    BY <2>1
  <2> HIDE DEF L
  <2>3. Moves(w, {"drop_ref"}, L) /\ Keeps(w)
    <3>1. CASE Goto(w, "clear_request")
      BY <1>1, <2>2, <3>1, GotoMoves
    <3>2. CASE Go(w, local[w].to, SetTo(w, ""))
      <4> DEFINE x == SetTo(w, "")
                 l == local[w].to
      <4>1. Edited(w, x) /\ Go(w, l, x) /\ l \in L
        BY <1>1, <2>2, <3>2, Edits
      <4> HIDE DEF x, l
      <4>2. QED BY <1>1, <2>2, <4>1, EditMoves
    <3>3. QED BY <2>1, <3>1, <3>2
  <2>4. QED BY <2>3 DEF L
<1>15. ClearRequest(w) => Moves(w, {"clear_request"}, {"wake_refs"}) /\ Keeps(w)
  BY <1>1, GotoMoves DEF ClearRequest
<1>16. ASSUME WakeRefs(w)
       PROVE  Moves(w, {"wake_refs"}, {"load", "confirm", "cancel"}) /\ Keeps(w)
  <2>1. pc[w] = "wake_refs" /\ pc'[w] = local[w].to
    BY <1>1, <1>16 DEF WakeRefs
  <2>2. Keeps(w)
    <3>1. local'[w] = [local[w] EXCEPT !.to = ""]
      BY <1>1, <1>16 DEF WakeRefs, Typed, Own
    <3>2. QED BY <1>1, <3>1 DEF Keeps, Locals
  <2>3. ASSUME NEW u \in Threads, u # w PROVE Bystander(u)
    <3>1. local'[u] = local[u]
      BY <1>1, <1>16, <2>3 DEF WakeRefs, Typed, Own
    <3>2. pc'[u] = pc[u] \/ (pc[u] = "quiesce_asleep" /\ pc'[u] = "quiesce_refs")
      BY <1>16, <2>3 DEF WakeRefs
    <3>3. QED BY <3>1, <3>2 DEF Bystander, Keeps
  <2>4. QED BY <1>13, <2>1, <2>2, <2>3 DEF Moves
<1>17. Cancel(w) => Moves(w, {"cancel"}, {"signal", "confirm", "cleanup_wake"})
  BY <1>1, GoMoves, GotoMoves, GoBackMoves DEF Cancel, Gone
<1>18. QED
  BY <1>2, <1>3, <1>5, <1>6, <1>7, <1>8, <1>9, <1>10, <1>11, <1>12, <1>14, <1>15, <1>16, <1>17

\* The actions of a waiter past its last sleep.
LEMMA LeaveMoves ==
  ASSUME Typed, NEW w \in Waiters
  PROVE  /\ \/ CheckSteal(w) \/ UndoLoad(w) \/ UndoCheck(w) \/ UndoCas(w) \/ UndoWake(w) \/ CleanupWake(w)
            => Moves(w, Leaving, Leaving)
         /\ Confirm(w) => Moves(w, {"confirm"}, {"idle", "wake_destroyer"})
         /\ WakeDestroyer(w) => /\ Moves(w, {"wake_destroyer"}, {"idle"})
                                /\ \A t \in Threads : pc'[t] # "destroy_asleep"
<1>1. w \in Threads
  BY ThreadsAre
<1>2. CheckSteal(w) => Moves(w, Leaving, Leaving)
  BY <1>1, GoMoves, GoBackMoves DEF CheckSteal, Leaving
<1>3. UndoLoad(w) => Moves(w, Leaving, Leaving)
  BY <1>1, GoMoves DEF UndoLoad, Leaving
<1>4. UndoCheck(w) => Moves(w, Leaving, Leaving)
  BY <1>1, GotoMoves, GoBackMoves DEF UndoCheck, Leaving
<1>5. UndoCas(w) => Moves(w, Leaving, Leaving)
  BY <1>1, GoMoves, GoBackMoves DEF UndoCas, Leaving
<1>6. ASSUME UndoWake(w) \/ CleanupWake(w) PROVE Moves(w, Leaving, Leaving)
  <2>1. pc[w] \in Leaving /\ pc[w] # "asleep" /\ "confirm" \in Leaving
    BY <1>6 DEF UndoWake, CleanupWake, Leaving
  <2>2. PICK s \in SUBSET Asleep(G(w)) : Wake(w, "confirm", s) /\ w \notin s
    BY <1>6, <2>1, WakeOneWakes DEF UndoWake, CleanupWake
  <2>3. s \in SUBSET Waiters /\ \A u \in s : pc[u] = "asleep"
    BY DEF Asleep
  <2>4. QED BY <1>1, <2>1, <2>2, <2>3, WakeMoves
<1>7. Confirm(w) => Moves(w, {"confirm"}, {"idle", "wake_destroyer"})
  BY <1>1 DEF Confirm, Go, Goto, Moves, Bystander, Keeps, Locals, Typed, Own
<1>8. ASSUME WakeDestroyer(w)
      PROVE  /\ Moves(w, {"wake_destroyer"}, {"idle"})
             /\ \A t \in Threads : pc'[t] # "destroy_asleep"
  BY <1>1, <1>8 DEF WakeDestroyer, Moves, Bystander, Keeps
<1>9. QED BY <1>2, <1>3, <1>4, <1>5, <1>6, <1>7, <1>8

\* The actions of a signal.
LEMMA SignalMoves ==
  ASSUME Typed, NEW t \in Threads
  PROVE  /\ \A all : Call(t, all) => t \in Signalers /\ Moves(t, {"idle"}, {"signal"}) /\ ~Destroyed
         /\ CheckRefs(t) => Moves(t, {"signal"}, {"lock"} \cup Home(t))
         /\ Lock(t) => /\ Moves(t, {"lock"}, {"quiesce", "add_first", "add"})
                       /\ local'[t].g1 = 1 - wseq.g2
                       /\ pc'[t] = "quiesce" <=> g_size[1 - wseq.g2] = 0
         /\ AddFirst(t) => Moves(t, {"add_first"}, {"wake_first"}) /\ Keeps(t)
         /\ WakeFirst(t) => Moves(t, {"wake_first"}, {"quiesce"}) /\ Keeps(t)
         /\ Add(t) => Moves(t, {"add"}, {"wake"})
         /\ WakeSignalled(t) => Moves(t, {"wake"}, Home(t))
         /\ Quiesce(t) => /\ Moves(t, {"quiesce"}, {"quiesce_refs"} \cup Home(t))
                          /\ pc'[t] = "quiesce_refs" => Keeps(t)
         /\ QuiesceRefs(t) => /\ Moves(t, {"quiesce_refs"}, {"quiesce_request", "close"}) /\ Keeps(t)
                              /\ pc'[t] = "close" => ~(g_refs[G1(t)].n > 0)
         /\ QuiesceRequest(t) => Moves(t, {"quiesce_request"}, {"quiesce_wait", "quiesce_refs"}) /\ Keeps(t)
         /\ QuiesceWait(t) => Moves(t, {"quiesce_wait"}, {"quiesce_asleep", "quiesce_refs"}) /\ Keeps(t)
         /\ Close(t) => Moves(t, {"close"}, {"reopen"}) /\ Keeps(t)
         /\ Reopen(t) => Moves(t, {"reopen"}, {"switch"}) /\ Keeps(t)
         /\ Switch(t) => /\ Moves(t, {"switch"}, {"add"} \cup Home(t))
                         /\ pc'[t] = "add" => local'[t].g1 = 1 - G1(t)
<1>1. local[t] \in Locals
  BY DEF Typed, Own
<1>2. Back(t) \in Home(t)
  BY DEF Back, Home, Gone
<1>3. Home(t) \subseteq {"idle", "confirm", "cleanup_wake"}
  BY DEF Home
<1>4. ASSUME NEW all, Call(t, all)
      PROVE  t \in Signalers /\ Moves(t, {"idle"}, {"signal"}) /\ ~Destroyed
  <2>1. PICK x : t \in Signalers /\ pc[t] = "idle" /\ Go(t, "signal", x) /\ ~Destroyed
    BY <1>4, Zenon DEF Call
  <2>2. QED BY <2>1, GoMoves
<1>5. ASSUME CheckRefs(t) PROVE Moves(t, {"signal"}, {"lock"} \cup Home(t))
  <2> DEFINE L == {"lock"} \cup Home(t)
  <2>1. pc[t] = "signal" /\ (GoBack(t, Back(t)) \/ Goto(t, "lock"))
    BY <1>5 DEF CheckRefs
  <2>2. pc[t] \in {"signal"} /\ Back(t) \in L /\ "lock" \in L
    BY <1>2, <2>1
  <2> HIDE DEF L
  <2>3. Moves(t, {"signal"}, L)
    BY <2>1, <2>2, GoBackMoves, GotoMoves
  <2>4. QED BY <2>3 DEF L
<1>6. ASSUME Lock(t)
      PROVE  /\ Moves(t, {"lock"}, {"quiesce", "add_first", "add"})
             /\ local'[t].g1 = 1 - wseq.g2
             /\ pc'[t] = "quiesce" <=> g_size[1 - wseq.g2] = 0
  <2> DEFINE x == [local[t] EXCEPT !.g1 = 1 - wseq.g2, !.count = wseq.pos]
             l == IF g_size[1 - wseq.g2] = 0 THEN "quiesce" ELSE IF local[t].all THEN "add_first" ELSE "add"
  <2>1. pc[t] = "lock" /\ Go(t, l, x)
    BY <1>6 DEF Lock
  <2>2. x.g1 = 1 - wseq.g2
    BY <1>1 DEF Locals
  <2>3. l \in {"quiesce", "add_first", "add"} /\ (l = "quiesce" <=> g_size[1 - wseq.g2] = 0)
    OBVIOUS
  <2> HIDE DEF x, l
  <2>4. Moves(t, {"lock"}, {"quiesce", "add_first", "add"}) /\ pc'[t] = l /\ local'[t] = x
    BY <2>1, <2>3, GoMoves
  <2>5. QED BY <2>2, <2>3, <2>4
<1>7. ASSUME AddFirst(t) PROVE Moves(t, {"add_first"}, {"wake_first"}) /\ Keeps(t)
  BY <1>7, GotoMoves DEF AddFirst
<1>8. ASSUME NEW g PROVE Asleep(g) \in SUBSET Waiters /\ \A u \in Asleep(g) : pc[u] = "asleep"
  BY DEF Asleep
<1>9. ASSUME WakeFirst(t) PROVE Moves(t, {"wake_first"}, {"quiesce"}) /\ Keeps(t)
  <2>1. pc[t] = "wake_first" /\ Wake(t, "quiesce", Asleep(G1(t)))
    BY <1>9 DEF WakeFirst
  <2>2. t \notin Asleep(G1(t))
    BY <2>1, <1>8
  <2>3. QED BY <1>8, <2>1, <2>2, WakeMoves
<1>10. ASSUME Add(t) PROVE Moves(t, {"add"}, {"wake"})
  BY <1>10, GotoMoves DEF Add
<1>11. ASSUME WakeSignalled(t) PROVE Moves(t, {"wake"}, Home(t))
  <2>1. t \notin Asleep(G1(t)) /\ pc[t] # "asleep" /\ pc[t] = "wake"
    BY <1>11 DEF WakeSignalled, Asleep
  <2>2. PICK s \in SUBSET Asleep(G1(t)) : Wake(t, Back(t), s) /\ t \notin s
    BY <1>11, <2>1, WakeOneWakes DEF WakeSignalled
  <2>3. QED BY <1>2, <1>8, <2>1, <2>2, WakeMoves
<1>12. ASSUME Quiesce(t)
       PROVE  /\ Moves(t, {"quiesce"}, {"quiesce_refs"} \cup Home(t))
              /\ pc'[t] = "quiesce_refs" => Keeps(t)
  <2> DEFINE L == {"quiesce_refs"} \cup Home(t)
  <2>1. pc[t] = "quiesce" /\ (GoBack(t, Back(t)) \/ Go(t, "quiesce_refs", SetCount(t, 0)))
    BY <1>12 DEF Quiesce, SetCount
  <2>2. pc[t] \in {"quiesce"} /\ Back(t) \in L /\ "quiesce_refs" \in L /\ Back(t) # "quiesce_refs"
    BY <1>2, <1>3, <2>1
  <2> HIDE DEF L
  <2>3. Moves(t, {"quiesce"}, L) /\ (pc'[t] = "quiesce_refs" => Keeps(t))
    BY <2>1, <2>2, GoBackMoves, EditMoves, Edits
  <2>4. QED BY <2>3 DEF L
<1>13. ASSUME QuiesceRefs(t)
       PROVE  /\ Moves(t, {"quiesce_refs"}, {"quiesce_request", "close"}) /\ Keeps(t)
              /\ pc'[t] = "close" => ~(g_refs[G1(t)].n > 0)
  <2> DEFINE l == IF g_refs[G1(t)].n > 0 THEN "quiesce_request" ELSE "close"
  <2>1. pc[t] = "quiesce_refs" /\ Go(t, l, SetCount(t, 0))
    BY <1>13 DEF QuiesceRefs, SetCount
  <2>2. l \in {"quiesce_request", "close"} /\ (l = "close" => ~(g_refs[G1(t)].n > 0))
    OBVIOUS
  <2> HIDE DEF l
  <2>3. QED BY <2>1, <2>2, EditMoves, Edits
<1>14. ASSUME QuiesceRequest(t)
       PROVE  Moves(t, {"quiesce_request"}, {"quiesce_wait", "quiesce_refs"}) /\ Keeps(t)
  <2> DEFINE l == IF g_refs[G1(t)].n > 0 THEN "quiesce_wait" ELSE "quiesce_refs"
  <2>1. pc[t] = "quiesce_request" /\ Go(t, l, SetCount(t, g_refs[G1(t)].n))
    BY <1>14 DEF QuiesceRequest, SetCount
  <2>2. l \in {"quiesce_wait", "quiesce_refs"}
    OBVIOUS
  <2> HIDE DEF l
  <2>3. QED BY <2>1, <2>2, EditMoves, Edits
<1>15. ASSUME QuiesceWait(t)
       PROVE  Moves(t, {"quiesce_wait"}, {"quiesce_asleep", "quiesce_refs"}) /\ Keeps(t)
  <2>1. pc[t] = "quiesce_wait" /\ (Goto(t, "quiesce_asleep") \/ Goto(t, "quiesce_refs"))
    BY <1>15 DEF QuiesceWait
  <2>2. QED BY <2>1, GotoMoves
<1>16. ASSUME Close(t) PROVE Moves(t, {"close"}, {"reopen"}) /\ Keeps(t)
  BY <1>16, GotoMoves DEF Close
<1>17. ASSUME Reopen(t) PROVE Moves(t, {"reopen"}, {"switch"}) /\ Keeps(t)
  BY <1>17, GotoMoves DEF Reopen
<1>18. ASSUME Switch(t)
       PROVE  /\ Moves(t, {"switch"}, {"add"} \cup Home(t))
              /\ pc'[t] = "add" => local'[t].g1 = 1 - G1(t)
  <2> DEFINE L == {"add"} \cup Home(t)
             x == [local[t] EXCEPT !.g1 = 1 - G1(t)]
  <2>1. pc[t] = "switch" /\ (GoBack(t, Back(t)) \/ Go(t, "add", x))
    BY <1>18 DEF Switch
  <2>2. pc[t] \in {"switch"} /\ Back(t) \in L /\ "add" \in L /\ Back(t) # "add"
    BY <1>2, <1>3, <2>1
  <2>3. x.g1 = 1 - G1(t)
    BY <1>1 DEF Locals
  <2> HIDE DEF L, x
  <2>4. Moves(t, {"switch"}, L) /\ (pc'[t] = "add" => local'[t].g1 = 1 - G1(t))
    BY <2>1, <2>2, <2>3, GoBackMoves, GoMoves
  <2>5. QED BY <2>4 DEF L
<1>19. QED
  BY <1>4, <1>5, <1>6, <1>7, <1>9, <1>10, <1>11, <1>12, <1>13, <1>14, <1>15, <1>16, <1>17, <1>18

\* The actions of the destroyer.
LEMMA DestroyMoves ==
  ASSUME Typed, NEW t \in Threads
  PROVE  /\ Destroy(t) => /\ t \in Signalers /\ NoneBlocked
                          /\ Moves(t, {"idle"}, {"destroy_wait", "destroyed"})
                          /\ pc'[t] = "destroy_wait" => wrefs.n > 0 /\ local'[t].old = wrefs
                          /\ pc'[t] = "destroyed" => ~(wrefs.n > 0)
         /\ DestroyWait(t) => /\ Moves(t, {"destroy_wait"}, {"destroy_asleep", "destroy_load"})
                              /\ pc'[t] = "destroy_asleep" => wrefs = local[t].old
         /\ DestroyLoad(t) => /\ Moves(t, {"destroy_load"}, {"destroy_wait", "destroyed"})
                              /\ pc'[t] = "destroy_wait" => wrefs.n > 0 /\ local'[t].old = wrefs
                              /\ pc'[t] = "destroyed" => ~(wrefs.n > 0)
<1> DEFINE x == [NoLocals EXCEPT !.old = wrefs]
           l == IF wrefs.n > 0 THEN "destroy_wait" ELSE "destroyed"
<1>1. x.old = wrefs
  BY DEF NoLocals
<1>2. /\ l \in {"destroy_wait", "destroyed"}
      /\ l = "destroy_wait" => wrefs.n > 0
      /\ l = "destroyed" => ~(wrefs.n > 0)
  OBVIOUS
<1>3. ASSUME Destroy(t)
      PROVE  t \in Signalers /\ NoneBlocked /\ pc[t] = "idle" /\ Go(t, l, x)
  BY <1>3 DEF Destroy, NoneBlocked
<1>4. ASSUME DestroyLoad(t) PROVE pc[t] = "destroy_load" /\ Go(t, l, x)
  BY <1>4 DEF DestroyLoad
<1>5. ASSUME DestroyWait(t)
      PROVE  /\ Moves(t, {"destroy_wait"}, {"destroy_asleep", "destroy_load"})
             /\ pc'[t] = "destroy_asleep" => wrefs = local[t].old
  <2>1. /\ pc[t] = "destroy_wait"
        /\ \/ Goto(t, "destroy_asleep") /\ wrefs = local[t].old
           \/ Goto(t, "destroy_load")
    BY <1>5 DEF DestroyWait
  <2>2. QED BY <2>1, GotoMoves
<1> HIDE DEF x, l
<1>6. ASSUME NEW a, pc[t] = a, Go(t, l, x)
      PROVE  /\ Moves(t, {a}, {"destroy_wait", "destroyed"})
             /\ pc'[t] = "destroy_wait" => wrefs.n > 0 /\ local'[t].old = wrefs
             /\ pc'[t] = "destroyed" => ~(wrefs.n > 0)
  BY <1>1, <1>2, <1>6, GoMoves
<1>7. QED BY <1>3, <1>4, <1>5, <1>6

-----------------------------------------------------------------------------
(* The destruction. *)

\* Not counted in wrefs.
Outside == {"idle", "register", "wake_destroyer"}

Registered == {w \in Waiters : pc[w] \notin Outside}

WrefsCount == wrefs.n = Cardinality(Registered)

\* While the condition variable is being destroyed no waiter begins, nobody signals, and the
\* last waiter to leave knows that it has to wake the destroyer.
Retiring ==
  /\ wrefs.wake
  /\ \A w \in Waiters : pc[w] # "register"
  /\ \A s \in Signalers : pc[s] \in DestroyLabels \cup {"idle"}

Destroying(s) ==
  /\ pc[s] = "destroyed" => wrefs.n = 0
  /\ pc[s] = "destroy_wait" => local[s].old.n > 0
  /\ pc[s] = "destroy_asleep" => wrefs.n > 0 \/ \E w \in Waiters : pc[w] = "wake_destroyer"

DestroyInv ==
  /\ WrefsCount
  /\ Destroyed => Retiring
  /\ \A s \in Signalers : Destroying(s)

LEMMA WaitersFinite == IsFiniteSet(Waiters)
BY CondVarAssumption, FS_Subset DEF Threads

LEMMA RegisteredType == IsFiniteSet(Registered) /\ Cardinality(Registered) \in Nat
BY WaitersFinite, FS_Subset, FS_CardinalityType DEF Registered

LEMMA RegisteredSame ==
  ASSUME NEW t \in Threads, NEW A, NEW L, Moves(t, A, L),
         t \in Waiters => (pc[t] \in Outside <=> pc'[t] \in Outside)
  PROVE  Registered' = Registered
<1>1. ASSUME NEW w \in Waiters PROVE pc[w] \in Outside <=> pc'[w] \in Outside
  BY ThreadsAre DEF Moves, Bystander, Outside
<1>2. QED BY <1>1 DEF Registered

LEMMA RegisteredIn ==
  ASSUME NEW w \in Waiters, NEW A, NEW L, Moves(w, A, L), pc[w] \in Outside, pc'[w] \notin Outside
  PROVE  Cardinality(Registered') = Cardinality(Registered) + 1
<1>1. ASSUME NEW v \in Waiters, v # w PROVE pc[v] \in Outside <=> pc'[v] \in Outside
  BY <1>1, ThreadsAre DEF Moves, Bystander, Outside
<1>2. Registered' = Registered \cup {w} /\ w \notin Registered
  BY <1>1 DEF Registered
<1>3. QED BY <1>2, RegisteredType, FS_AddElement

LEMMA RegisteredOut ==
  ASSUME NEW w \in Waiters, NEW A, NEW L, Moves(w, A, L), pc[w] \notin Outside, pc'[w] \in Outside
  PROVE  Cardinality(Registered') = Cardinality(Registered) - 1
<1>1. ASSUME NEW v \in Waiters, v # w PROVE pc[v] \in Outside <=> pc'[v] \in Outside
  BY <1>1, ThreadsAre DEF Moves, Bystander, Outside
<1>2. Registered' = Registered \ {w} /\ w \in Registered
  BY <1>1 DEF Registered
<1>3. QED BY <1>2, RegisteredType, FS_RemoveElement

\* Registered and wrefs.n together.
LEMMA RegisteredSome ==
  ASSUME WrefsCount
  PROVE  /\ wrefs.n = 0 => \A w \in Waiters : pc[w] \in Outside
         /\ wrefs.n > 0 => \E w \in Waiters : pc[w] \notin Outside
<1>1. wrefs.n = 0 => Registered = {}
  BY RegisteredType, FS_EmptySet DEF WrefsCount
<1>2. Registered = {} => wrefs.n = 0
  BY FS_EmptySet DEF WrefsCount
<1>3. QED BY <1>1, <1>2 DEF Registered

\* A step outside the destruction.
LEMMA BeforeDestroy ==
  ASSUME NEW t \in Threads, NEW A, NEW L, Moves(t, A, L), ~Destroyed, pc'[t] \notin DestroyLabels
  PROVE  (Destroyed => Retiring)' /\ \A s \in Signalers : Destroying(s)'
<1>1. ASSUME NEW s \in Signalers PROVE pc'[s] \notin DestroyLabels
  BY ThreadsAre DEF Moves, Bystander, Destroyed, DestroyLabels
<1>2. QED BY <1>1 DEF Destroyed, Destroying, DestroyLabels

\* What a step of a waiter does to the signallers.
LEMMA SignalersStay ==
  ASSUME NEW w \in Waiters, NEW A, NEW L, Moves(w, A, L), NEW s \in Signalers
  PROVE  /\ \/ pc'[s] = pc[s]
            \/ pc[s] = "asleep" /\ pc'[s] = "drop_ref"
            \/ pc[s] = "quiesce_asleep" /\ pc'[s] = "quiesce_refs"
            \/ pc[s] = "destroy_asleep" /\ pc'[s] = "destroy_load"
         /\ local'[s].old = local[s].old
BY ThreadsAre DEF Moves, Bystander, Keeps

LEMMA StillRetiring ==
  ASSUME DestroyInv, NEW w \in Waiters, NEW A, NEW L, Moves(w, A, L), pc'[w] # "register", wrefs'.wake = wrefs.wake
  PROVE  (Destroyed => Retiring)'
<1>1. SUFFICES ASSUME Destroyed' PROVE Retiring'
  OBVIOUS
<1>2. Destroyed
  BY <1>1, SignalersStay DEF Destroyed
<1>3. Retiring
  BY <1>2 DEF DestroyInv
<1>4. \A s \in Signalers : pc'[s] \in DestroyLabels \cup {"idle"}
  BY <1>3, SignalersStay DEF Retiring, DestroyLabels
<1>5. \A v \in Waiters : pc'[v] # "register"
  BY <1>3, ThreadsAre DEF Retiring, Moves, Bystander
<1>6. QED BY <1>3, <1>4, <1>5 DEF Retiring

\* A step inside a wait or inside a signal.
LEMMA CalmDestroy ==
  ASSUME DestroyInv, NEW t \in Threads, NEW A, NEW L, Moves(t, A, L), UNCHANGED wrefs,
         A \cap (DestroyLabels \cup Outside) = {},
         t \in Waiters => L \cap Outside = {},
         L \cap DestroyLabels = {}
  PROVE  DestroyInv'
<1>1. pc[t] \in A /\ pc'[t] \in L
  BY DEF Moves
<1>2. /\ pc[t] \notin Outside /\ (t \in Waiters => pc'[t] \notin Outside)
      /\ pc[t] \notin DestroyLabels /\ pc'[t] \notin DestroyLabels
  BY <1>1
<1>3. Registered' = Registered
  BY <1>2, RegisteredSame
<1>4. WrefsCount'
  BY <1>3 DEF DestroyInv, WrefsCount
<1>5. CASE t \in Signalers
  <2>1. ~Destroyed
    BY <1>2, <1>5 DEF DestroyInv, Retiring, Outside
  <2>2. QED BY <1>2, <1>4, <2>1, BeforeDestroy DEF DestroyInv
<1>6. CASE t \in Waiters
  <2>1. (Destroyed => Retiring)'
    BY <1>2, <1>6, StillRetiring DEF Outside
  <2>2. ASSUME NEW v \in Waiters, pc[v] = "wake_destroyer" PROVE pc'[v] = "wake_destroyer"
    BY <1>2, <2>2, ThreadsAre DEF Moves, Bystander, Outside
  <2>3. ASSUME NEW s \in Signalers PROVE Destroying(s)'
    BY <1>6, <2>2, SignalersStay DEF DestroyInv, Destroying
  <2>4. QED BY <1>4, <2>1, <2>3 DEF DestroyInv
<1>7. QED BY <1>5, <1>6, ThreadsAre

LEMMA Init_Destroy == Init => DestroyInv
<1>1. SUFFICES ASSUME Init PROVE DestroyInv
  OBVIOUS
<1>2. ASSUME NEW t \in Threads PROVE pc[t] = "idle"
  BY <1>1 DEF Init
<1>3. Registered = {}
  BY <1>2, ThreadsAre DEF Registered, Outside
<1>4. WrefsCount
  BY <1>1, <1>3, FS_EmptySet DEF WrefsCount, Init
<1>5. ~Destroyed /\ \A s \in Signalers : Destroying(s)
  BY <1>2, ThreadsAre DEF Destroyed, Destroying
<1>6. QED BY <1>4, <1>5 DEF DestroyInv

\* The labels of a wait between its registration and its return or its signal.
Inside == {"load", "take_ref", "clear_request", "wake_refs", "grab", "cancel"} \cup UserLabels

LEMMA WaiterDestroy ==
  ASSUME Typed, DestroyInv, NEW w \in Waiters,
         Wait(w) \/ WaiterStep(w) \/ SpuriousWake(w)
           \/ \E how \in Interrupts \cap {"timed_out", "cancelled"} : GiveUp(w, how)
  PROVE  DestroyInv'
<1>1. w \in Threads /\ w \notin Signalers
  BY ThreadsAre
<1>2. ASSUME Moves(w, Inside, Inside \cup Leaving \cup {"signal"}), UNCHANGED wrefs PROVE DestroyInv'
  <2>1. /\ Inside \cap (DestroyLabels \cup Outside) = {}
        /\ (Inside \cup Leaving \cup {"signal"}) \cap Outside = {}
        /\ (Inside \cup Leaving \cup {"signal"}) \cap DestroyLabels = {}
    BY DEF Inside, UserLabels, Leaving, DestroyLabels, Outside
  <2>2. QED BY <1>1, <1>2, <2>1, CalmDestroy
<1>3. ASSUME NEW A, NEW L, Moves(w, A, L),
             A \subseteq {"load", "take_ref", "clear_request", "wake_refs", "grab", "cancel", "check_closed",
                          "check_start", "futex_wait", "asleep", "drop_ref"},
             L \subseteq {"load", "take_ref", "clear_request", "wake_refs", "grab", "cancel", "check_closed",
                          "check_start", "futex_wait", "asleep", "drop_ref", "check_steal", "confirm",
                          "cleanup_wake", "signal"}
      PROVE  Moves(w, Inside, Inside \cup Leaving \cup {"signal"})
  BY <1>3 DEF Moves, Inside, UserLabels, Leaving
<1>4. CASE Load(w) \/ Grab(w) \/ TakeRef(w) \/ CheckClosed(w) \/ CheckStart(w) \/ FutexWait(w)
             \/ SpuriousWake(w) \/ (\E how \in Interrupts \cap {"timed_out", "cancelled"} : GiveUp(w, how))
             \/ DropRef(w) \/ ClearRequest(w) \/ WakeRefs(w) \/ Cancel(w)
  <2>1. UNCHANGED wrefs
    BY <1>4 DEF Load, Grab, TakeRef, CheckClosed, CheckStart, FutexWait, SpuriousWake, GiveUp, DropRef,
                ClearRequest, WakeRefs, Cancel, condvar
  <2>2. Moves(w, Inside, Inside \cup Leaving \cup {"signal"})
    <3>1. CASE Load(w)
      BY <1>3, <3>1, WaitMoves
    <3>2. CASE Grab(w)
      BY <1>3, <3>2, WaitMoves
    <3>3. CASE TakeRef(w)
      BY <1>3, <3>3, WaitMoves
    <3>4. CASE CheckClosed(w)
      BY <1>3, <3>4, WaitMoves
    <3>5. CASE CheckStart(w)
      BY <1>3, <3>5, WaitMoves
    <3>6. CASE FutexWait(w)
      BY <1>3, <3>6, WaitMoves
    <3>7. CASE SpuriousWake(w)
      BY <1>3, <3>7, WaitMoves
    <3>8. ASSUME NEW how, GiveUp(w, how) PROVE Moves(w, Inside, Inside \cup Leaving \cup {"signal"})
      BY <1>3, <3>8, WaitMoves
    <3>9. CASE DropRef(w)
      BY <1>3, <3>9, WaitMoves
    <3>10. CASE ClearRequest(w)
      BY <1>3, <3>10, WaitMoves
    <3>11. CASE WakeRefs(w)
      BY <1>3, <3>11, WaitMoves
    <3>12. CASE Cancel(w)
      BY <1>3, <3>12, WaitMoves
    <3>13. QED
      BY <1>4, <3>1, <3>2, <3>3, <3>4, <3>5, <3>6, <3>7, <3>8, <3>9, <3>10, <3>11, <3>12
  <2>3. QED BY <1>2, <2>1, <2>2
<1>5. CASE Wait(w)
  <2>1. Moves(w, {"idle"}, {"register"}) /\ ~Destroyed /\ UNCHANGED wrefs
    BY <1>5, WaitMoves DEF Wait
  <2>2. pc[w] = "idle" /\ pc'[w] = "register"
    BY <2>1 DEF Moves
  <2>3. Registered' = Registered
    BY <1>1, <2>1, <2>2, RegisteredSame DEF Outside
  <2>4. WrefsCount' /\ pc'[w] \notin DestroyLabels
    BY <2>1, <2>2, <2>3 DEF DestroyInv, WrefsCount, DestroyLabels
  <2>5. QED BY <1>1, <2>1, <2>4, BeforeDestroy DEF DestroyInv
<1>6. CASE Register(w)
  <2>1. Moves(w, {"register"}, {"load", "cancel"}) /\ wrefs' = [wrefs EXCEPT !.n = @ + 1]
    BY <1>6, WaitMoves DEF Register
  <2>2. pc[w] = "register" /\ pc'[w] \in {"load", "cancel"}
    BY <2>1 DEF Moves
  <2>3. Cardinality(Registered') = Cardinality(Registered) + 1
    BY <2>1, <2>2, RegisteredIn DEF Outside
  <2>4. wrefs'.n = wrefs.n + 1
    BY <2>1 DEF Typed, Shared
  <2>5. WrefsCount' /\ pc'[w] \notin DestroyLabels
    BY <2>2, <2>3, <2>4 DEF DestroyInv, WrefsCount, DestroyLabels
  <2>6. ~Destroyed
    BY <2>2 DEF DestroyInv, Retiring
  <2>7. QED BY <1>1, <2>1, <2>5, <2>6, BeforeDestroy DEF DestroyInv
<1>9. CASE CheckSteal(w) \/ UndoLoad(w) \/ UndoCheck(w) \/ UndoCas(w) \/ UndoWake(w) \/ CleanupWake(w)
  <2>1. Moves(w, Leaving, Leaving)
    BY <1>9, LeaveMoves
  <2>2. UNCHANGED wrefs
    BY <1>9 DEF CheckSteal, UndoLoad, UndoCheck, UndoCas, UndoWake, CleanupWake, condvar
  <2>3. Leaving \cap (DestroyLabels \cup Outside) = {}
    BY DEF Leaving, DestroyLabels, Outside
  <2>4. QED BY <1>1, <2>1, <2>2, <2>3, CalmDestroy
<1>10. CASE Confirm(w)
  <2>1. /\ Moves(w, {"confirm"}, {"idle", "wake_destroyer"}) /\ wrefs' = [wrefs EXCEPT !.n = @ - 1]
    BY <1>10, LeaveMoves DEF Confirm
  <2>2. pc[w] = "confirm" /\ pc'[w] \in {"idle", "wake_destroyer"}
    BY <2>1 DEF Moves
  <2>3. wrefs = [n |-> 1, wake |-> TRUE] => pc'[w] = "wake_destroyer"
    BY <1>1, <1>10 DEF Confirm, Go, Typed, Own
  <2>4. Cardinality(Registered') = Cardinality(Registered) - 1
    BY <2>1, <2>2, RegisteredOut DEF Outside
  <2>5. wrefs'.n = wrefs.n - 1 /\ wrefs'.wake = wrefs.wake /\ wrefs.n \in Int
    BY <2>1 DEF Typed, Shared
  <2>6. WrefsCount'
    BY <2>4, <2>5 DEF DestroyInv, WrefsCount
  <2>7. wrefs.n # 0 /\ wrefs.n \in Nat
    BY <2>2, RegisteredSome, RegisteredType DEF DestroyInv, WrefsCount, Outside
  <2>8. (Destroyed => Retiring)'
    BY <2>1, <2>2, <2>5, StillRetiring
  <2>9. ASSUME NEW s \in Signalers PROVE Destroying(s)'
    <3>1. CASE pc[s] \in DestroyLabels
      <4>1. wrefs.wake
        BY <3>1 DEF DestroyInv, Destroyed, DestroyLabels, Retiring
      <4>2. wrefs.n = 1 => wrefs = [n |-> 1, wake |-> TRUE]
        BY <4>1 DEF Typed, Shared
      <4>3. wrefs'.n > 0 \/ \E v \in Waiters : pc'[v] = "wake_destroyer"
        BY <2>3, <2>5, <2>7, <4>2
      <4>4. pc[s] # "destroyed"
        BY <2>7 DEF DestroyInv, Destroying
      <4>5. QED BY <2>1, <4>3, <4>4, SignalersStay DEF DestroyInv, Destroying
    <3>2. CASE pc[s] \notin DestroyLabels
      BY <2>1, <3>2, SignalersStay DEF Destroying, DestroyLabels
    <3>3. QED BY <3>1, <3>2
  <2>10. QED BY <2>6, <2>8, <2>9 DEF DestroyInv
<1>11. CASE WakeDestroyer(w)
  <2>1. Moves(w, {"wake_destroyer"}, {"idle"}) /\ (\A t \in Threads : pc'[t] # "destroy_asleep") /\ UNCHANGED wrefs
    BY <1>11, LeaveMoves DEF WakeDestroyer, condvar
  <2>2. pc[w] = "wake_destroyer" /\ pc'[w] = "idle"
    BY <2>1 DEF Moves
  <2>3. Registered' = Registered
    BY <1>1, <2>1, <2>2, RegisteredSame DEF Outside
  <2>4. WrefsCount'
    BY <2>1, <2>3 DEF DestroyInv, WrefsCount
  <2>5. (Destroyed => Retiring)'
    BY <2>1, <2>2, StillRetiring
  <2>6. ASSUME NEW s \in Signalers PROVE Destroying(s)'
    BY <2>1, SignalersStay, ThreadsAre DEF DestroyInv, Destroying
  <2>7. QED BY <2>4, <2>5, <2>6 DEF DestroyInv
<1>12. QED BY <1>4, <1>5, <1>6, <1>9, <1>10, <1>11 DEF WaiterStep

LEMMA SignalDestroy ==
  ASSUME Typed, DestroyInv, NEW t \in Threads, SignalStep(t) \/ \E all \in Kinds : Call(t, all)
  PROVE  DestroyInv'
<1> DEFINE Ends == {"quiesce", "add_first", "add", "lock", "wake_first", "wake", "quiesce_refs", "quiesce_request",
                    "close", "quiesce_wait", "quiesce_asleep", "reopen", "switch"}
<1>1. ASSUME NEW a, NEW L, Moves(t, {a}, L), UNCHANGED wrefs, L \subseteq Ends \cup Home(t),
             a \in Ends \cup {"signal"}
      PROVE  DestroyInv'
  <2>1. {a} \cap (DestroyLabels \cup Outside) = {}
    BY <1>1 DEF DestroyLabels, Outside
  <2>2. L \cap DestroyLabels = {} /\ (t \in Waiters => L \cap Outside = {})
    BY <1>1 DEF Home, DestroyLabels, Outside
  <2>3. QED BY <1>1, <2>1, <2>2, CalmDestroy
<1>2. ASSUME NEW all, Call(t, all) PROVE DestroyInv'
  <2>1. t \in Signalers /\ Moves(t, {"idle"}, {"signal"}) /\ ~Destroyed /\ UNCHANGED wrefs
    <3>1. UNCHANGED wrefs
      BY <1>2, Zenon DEF Call, condvar
    <3>2. QED BY <1>2, <3>1, SignalMoves, Zenon
  <2>2. pc'[t] = "signal" /\ t \notin Waiters
    BY <2>1, ThreadsAre DEF Moves
  <2>3. Registered' = Registered
    BY <2>1, <2>2, RegisteredSame
  <2>4. WrefsCount' /\ pc'[t] \notin DestroyLabels
    BY <2>1, <2>2, <2>3 DEF DestroyInv, WrefsCount, DestroyLabels
  <2>5. QED BY <2>1, <2>4, BeforeDestroy DEF DestroyInv
<1>3. CASE CheckRefs(t) \/ Lock(t) \/ AddFirst(t) \/ WakeFirst(t) \/ Add(t) \/ WakeSignalled(t) \/ Quiesce(t)
             \/ QuiesceRefs(t) \/ QuiesceRequest(t) \/ QuiesceWait(t) \/ Close(t) \/ Reopen(t) \/ Switch(t)
  <2>1. UNCHANGED wrefs
    BY <1>3 DEF CheckRefs, Lock, AddFirst, WakeFirst, Add, WakeSignalled, Quiesce, QuiesceRefs,
                QuiesceRequest, QuiesceWait, Close, Reopen, Switch, condvar
  <2>2. CASE CheckRefs(t)
    BY <1>1, <2>1, <2>2, SignalMoves
  <2>3. CASE Lock(t)
    BY <1>1, <2>1, <2>3, SignalMoves
  <2>4. CASE AddFirst(t)
    BY <1>1, <2>1, <2>4, SignalMoves
  <2>5. CASE WakeFirst(t)
    BY <1>1, <2>1, <2>5, SignalMoves
  <2>6. CASE Add(t)
    BY <1>1, <2>1, <2>6, SignalMoves
  <2>7. CASE WakeSignalled(t)
    BY <1>1, <2>1, <2>7, SignalMoves
  <2>8. CASE Quiesce(t)
    BY <1>1, <2>1, <2>8, SignalMoves
  <2>9. CASE QuiesceRefs(t)
    BY <1>1, <2>1, <2>9, SignalMoves
  <2>10. CASE QuiesceRequest(t)
    BY <1>1, <2>1, <2>10, SignalMoves
  <2>11. CASE QuiesceWait(t)
    BY <1>1, <2>1, <2>11, SignalMoves
  <2>12. CASE Close(t)
    BY <1>1, <2>1, <2>12, SignalMoves
  <2>13. CASE Reopen(t)
    BY <1>1, <2>1, <2>13, SignalMoves
  <2>14. CASE Switch(t)
    BY <1>1, <2>1, <2>14, SignalMoves
  <2>15. QED
    BY <1>3, <2>2, <2>3, <2>4, <2>5, <2>6, <2>7, <2>8, <2>9, <2>10, <2>11, <2>12, <2>13, <2>14
\* The destroyer acts alone among the signallers.
<1>4. ASSUME t \in Signalers, NEW A, NEW L, Moves(t, A, L), wrefs'.n = wrefs.n, wrefs'.wake,
             pc'[t] \in DestroyLabels,
             \A w \in Waiters : pc[w] # "register",
             \A s \in Signalers : pc[s] \in DestroyLabels \cup {"idle"},
             pc'[t] = "destroyed" => ~(wrefs.n > 0),
             pc'[t] = "destroy_wait" => local'[t].old.n > 0,
             pc'[t] = "destroy_asleep" => wrefs.n > 0
      PROVE  DestroyInv'
  <2>1. t \notin Waiters
    BY <1>4, ThreadsAre
  <2>2. ASSUME NEW w \in Waiters
        PROVE  pc'[w] # "register" /\ (pc[w] = "wake_destroyer" => pc'[w] = "wake_destroyer")
    BY <1>4, <2>1, <2>2, ThreadsAre DEF Moves, Bystander
  <2>3. Registered' = Registered
    BY <1>4, <2>1, RegisteredSame
  <2>4. WrefsCount'
    BY <1>4, <2>3 DEF DestroyInv, WrefsCount
  <2>5. wrefs.n \in Nat
    BY RegisteredType DEF DestroyInv, WrefsCount
  <2>6. \A s \in Signalers : pc'[s] \in DestroyLabels \cup {"idle"}
    BY <1>4, ThreadsAre DEF Moves, Bystander, DestroyLabels
  <2>7. Retiring'
    BY <1>4, <2>2, <2>6 DEF Retiring
  <2>8. ASSUME NEW s \in Signalers, s # t PROVE Destroying(s)'
    BY <1>4, <2>2, <2>8, ThreadsAre DEF Moves, Bystander, Keeps, DestroyInv, Destroying
  <2>9. Destroying(t)'
    BY <1>4, <2>5 DEF Destroying
  <2>10. QED BY <2>4, <2>7, <2>8, <2>9 DEF DestroyInv
<1>5. CASE Destroy(t)
  <2>1. /\ t \in Signalers /\ NoneBlocked /\ Moves(t, {"idle"}, {"destroy_wait", "destroyed"})
        /\ pc'[t] = "destroy_wait" => wrefs.n > 0 /\ local'[t].old = wrefs
        /\ pc'[t] = "destroyed" => ~(wrefs.n > 0)
        /\ wrefs' = [wrefs EXCEPT !.wake = TRUE]
    BY <1>5, DestroyMoves DEF Destroy
  <2>2. wrefs'.n = wrefs.n /\ wrefs'.wake
    BY <2>1 DEF Typed, Shared
  <2>3. pc'[t] \in {"destroy_wait", "destroyed"}
    BY <2>1 DEF Moves
  <2>4. /\ \A w \in Waiters : pc[w] # "register"
        /\ \A s \in Signalers : pc[s] \in DestroyLabels \cup {"idle"}
    BY <2>1 DEF NoneBlocked
  <2>5. QED BY <1>4, <2>1, <2>2, <2>3, <2>4 DEF DestroyLabels
<1>6. ASSUME pc[t] \in DestroyLabels
      PROVE  t \in Signalers /\ Retiring
  <2>1. t \in Signalers
    BY <1>6, ThreadsAre DEF Typed, Own, WaiterLabels, Unsettled, UserLabels, Leaving, SignalLabels, Holding,
                            Quiescing, Shifting, DestroyLabels
  <2>2. QED BY <1>6, <2>1 DEF DestroyInv, Destroyed, DestroyLabels
<1>7. CASE DestroyWait(t)
  <2>1. /\ Moves(t, {"destroy_wait"}, {"destroy_asleep", "destroy_load"}) /\ UNCHANGED wrefs
        /\ pc'[t] = "destroy_asleep" => wrefs = local[t].old
    BY <1>7, DestroyMoves DEF DestroyWait, condvar
  <2>2. pc[t] = "destroy_wait" /\ pc'[t] \in {"destroy_asleep", "destroy_load"}
    BY <2>1 DEF Moves
  <2>3. t \in Signalers /\ Retiring
    BY <1>6, <2>2 DEF DestroyLabels
  <2>4. pc'[t] = "destroy_asleep" => wrefs.n > 0
    BY <2>1, <2>2, <2>3 DEF DestroyInv, Destroying
  <2>5. QED BY <1>4, <2>1, <2>2, <2>3, <2>4 DEF Retiring, DestroyLabels
<1>8. CASE DestroyLoad(t)
  <2>1. /\ Moves(t, {"destroy_load"}, {"destroy_wait", "destroyed"}) /\ UNCHANGED wrefs
        /\ pc'[t] = "destroy_wait" => wrefs.n > 0 /\ local'[t].old = wrefs
        /\ pc'[t] = "destroyed" => ~(wrefs.n > 0)
    BY <1>8, DestroyMoves DEF DestroyLoad, condvar
  <2>2. pc[t] = "destroy_load" /\ pc'[t] \in {"destroy_wait", "destroyed"}
    BY <2>1 DEF Moves
  <2>3. t \in Signalers /\ Retiring
    BY <1>6, <2>2 DEF DestroyLabels
  <2>4. QED BY <1>4, <2>1, <2>2, <2>3 DEF Retiring, DestroyLabels
<1>9. QED BY <1>2, <1>3, <1>5, <1>7, <1>8 DEF SignalStep

LEMMA DestroyStep == Typed /\ DestroyInv /\ [Next]_vars => DestroyInv'
<1>1. SUFFICES ASSUME Typed, DestroyInv, [Next]_vars PROVE DestroyInv'
  OBVIOUS
<1>2. CASE UNCHANGED vars
  BY <1>1, <1>2
  DEF vars, condvar, DestroyInv, WrefsCount, Registered, Destroyed, Retiring, Destroying
<1>3. QED BY <1>1, <1>2, WaiterDestroy, SignalDestroy DEF Next

LEMMA DestroyInvariance == Spec => [](Typed /\ DestroyInv)
<1>1. Init => Typed /\ DestroyInv
  BY Init_Typed, Init_Destroy
<1>2. (Typed /\ DestroyInv) /\ [Next]_vars => (Typed /\ DestroyInv)'
  BY TypedStep, DestroyStep
<1>3. QED BY <1>1, <1>2, PTL DEF Spec

-----------------------------------------------------------------------------
(* The lock. *)

Mutex ==
  /\ \A t \in Threads : pc[t] \in Holding => lock
  /\ \A t, u \in Threads : pc[t] \in Holding /\ pc[u] \in Holding => t = u

LEMMA BystanderHolds ==
  ASSUME NEW t \in Threads, NEW A, NEW L, Moves(t, A, L), NEW u \in Threads, u # t
  PROVE  /\ pc'[u] \in Holding <=> pc[u] \in Holding
         /\ pc'[u] \in Shifting <=> pc[u] \in Shifting
         /\ pc'[u] \in Quiescing <=> pc[u] \in Quiescing
         /\ pc'[u] \in Unsettled <=> pc[u] \in Unsettled
         /\ pc'[u] \in UserLabels <=> pc[u] \in UserLabels
         /\ Keeps(u)
BY DEF Moves, Bystander, Holding, Quiescing, Shifting, Unsettled, UserLabels

LEMMA CalmLock ==
  ASSUME Mutex, NEW t \in Threads, NEW A, NEW L, Moves(t, A, L), UNCHANGED lock,
         pc'[t] \in Holding => pc[t] \in Holding
  PROVE  Mutex'
<1>1. \A u \in Threads : pc'[u] \in Holding => pc[u] \in Holding
  BY BystanderHolds
<1>2. QED BY <1>1 DEF Mutex

LEMMA ReleaseLock ==
  ASSUME Mutex, NEW t \in Threads, NEW A, NEW L, Moves(t, A, L), pc[t] \in Holding, pc'[t] \notin Holding
  PROVE  Mutex' /\ \A u \in Threads : pc'[u] \notin Holding
<1>1. \A u \in Threads : u # t => pc[u] \notin Holding
  BY DEF Mutex
<1>2. \A u \in Threads : pc'[u] \notin Holding
  BY <1>1, BystanderHolds
<1>3. QED BY <1>2 DEF Mutex

LEMMA Init_Mutex == Init => Mutex
BY DEF Init, Mutex, Holding, Quiescing, Shifting

\* The labels of a waiter that gives no signal.
Calm == Unsettled \cup Leaving \cup {"idle", "wake_destroyer", "signal"}

LEMMA WaiterMoves ==
  ASSUME Typed, NEW w \in Waiters,
         Wait(w) \/ WaiterStep(w) \/ SpuriousWake(w)
           \/ \E how \in Interrupts \cap {"timed_out", "cancelled"} : GiveUp(w, how)
  PROVE  /\ Moves(w, Calm, Calm)
         /\ pc'[w] \in Unsettled => Wait(w) \/ (pc[w] \in Unsettled /\ Keeps(w))
         /\ UNCHANGED <<orig_size, g1_start, lock>>
         /\ ~Wait(w) => UNCHANGED wseq
         /\ ~Cancel(w) => UNCHANGED g_size
<1>1. /\ UNCHANGED <<orig_size, g1_start, lock>>
      /\ ~Wait(w) => UNCHANGED wseq
      /\ ~Cancel(w) => UNCHANGED g_size
  BY DEF WaiterStep, Wait, Register, Load, TakeRef, CheckClosed, CheckStart, FutexWait, SpuriousWake, GiveUp,
         DropRef, ClearRequest, WakeRefs, Grab, CheckSteal, UndoLoad, UndoCheck, UndoCas, UndoWake, Confirm,
         WakeDestroyer, Cancel, CleanupWake, condvar
<1> DEFINE P == /\ Moves(w, Calm, Calm)
                /\ pc'[w] \in Unsettled => Wait(w) \/ (pc[w] \in Unsettled /\ Keeps(w))
           U == {"register", "load", "cancel", "grab", "take_ref", "check_closed", "drop_ref", "check_start",
                 "futex_wait", "asleep", "clear_request", "wake_refs"}
           O == {"idle", "confirm", "check_steal", "signal", "cleanup_wake", "wake_destroyer"}
<1>2. SUFFICES P
  BY <1>1
<1>3. U = Unsettled /\ U \subseteq Calm /\ O \subseteq Calm /\ O \cap Unsettled = {}
      /\ Leaving \subseteq Calm /\ Leaving \cap Unsettled = {}
  BY DEF Calm, Unsettled, UserLabels, Leaving
<1>4. ASSUME NEW A, NEW L, Moves(w, A, L), A \subseteq U, L \subseteq U \cup O, pc'[w] \notin O => Keeps(w)
      PROVE  P
  BY <1>3, <1>4 DEF Moves
<1>5. ASSUME NEW A, NEW L, Moves(w, A, L), A \subseteq Calm, L \subseteq O \cup Leaving
      PROVE  P
  BY <1>3, <1>5 DEF Moves
<1>6. CASE Wait(w)
  <2>1. Moves(w, {"idle"}, {"register"})
    BY <1>6, WaitMoves
  <2>2. Moves(w, Calm, Calm)
    BY <1>3, <2>1 DEF Moves
  <2>3. QED BY <1>6, <2>2
<1> HIDE DEF P
<1>7. CASE Register(w)
  BY <1>4, <1>7, WaitMoves
<1>8. CASE Load(w)
  BY <1>4, <1>8, WaitMoves
<1>9. CASE Grab(w)
  BY <1>4, <1>9, WaitMoves
<1>10. CASE TakeRef(w)
  BY <1>4, <1>10, WaitMoves
<1>11. CASE CheckClosed(w)
  BY <1>4, <1>11, WaitMoves
<1>12. CASE CheckStart(w)
  BY <1>4, <1>12, WaitMoves
<1>13. CASE FutexWait(w)
  BY <1>4, <1>13, WaitMoves
<1>14. CASE SpuriousWake(w)
  BY <1>4, <1>14, WaitMoves
<1>15. ASSUME NEW how, GiveUp(w, how) PROVE P
  BY <1>4, <1>15, WaitMoves
<1>16. CASE DropRef(w)
  BY <1>4, <1>16, WaitMoves
<1>17. CASE ClearRequest(w)
  BY <1>4, <1>17, WaitMoves
<1>18. CASE WakeRefs(w)
  BY <1>4, <1>18, WaitMoves
<1>19. CASE Cancel(w)
  <2>1. Moves(w, {"cancel"}, {"signal", "confirm", "cleanup_wake"})
    BY <1>19, WaitMoves
  <2>2. QED BY <1>3, <1>5, <2>1
<1>20. CASE CheckSteal(w) \/ UndoLoad(w) \/ UndoCheck(w) \/ UndoCas(w) \/ UndoWake(w) \/ CleanupWake(w)
  BY <1>3, <1>5, <1>20, LeaveMoves
<1>21. CASE Confirm(w)
  BY <1>3, <1>5, <1>21, LeaveMoves
<1>22. CASE WakeDestroyer(w)
  BY <1>3, <1>5, <1>22, LeaveMoves
<1>23. QED
  BY <1>6, <1>7, <1>8, <1>9, <1>10, <1>11, <1>12, <1>13, <1>14, <1>15, <1>16, <1>17, <1>18, <1>19,
     <1>20, <1>21, <1>22 DEF WaiterStep

LEMMA CalmLabels ==
  /\ Calm \cap Holding = {}
  /\ \A t : Home(t) \cap Holding = {} /\ Home(t) \cap Unsettled = {}
  /\ Holding \cap Unsettled = {}
BY DEF Calm, Home, Unsettled, UserLabels, Leaving, Holding, Quiescing, Shifting

LEMMA GoesHome ==
  ASSUME Typed, NEW t \in Threads, GoBack(t, Back(t))
  PROVE  pc'[t] \in Home(t)
<1>1. Back(t) \in Home(t)
  BY DEF Back, Home, Gone
<1>2. QED BY <1>1 DEF GoBack, Go, Typed, Own

LEMMA MutexStep == Typed /\ Mutex /\ [Next]_vars => Mutex'
<1>1. SUFFICES ASSUME Typed, Mutex, [Next]_vars PROVE Mutex'
  OBVIOUS
<1>2. CASE UNCHANGED vars
  BY <1>1, <1>2 DEF vars, condvar, Mutex
<1>3. ASSUME NEW w \in Waiters,
             Wait(w) \/ WaiterStep(w) \/ SpuriousWake(w)
               \/ \E how \in Interrupts \cap {"timed_out", "cancelled"} : GiveUp(w, how)
      PROVE  Mutex'
  <2>1. Moves(w, Calm, Calm) /\ UNCHANGED lock /\ w \in Threads
    BY <1>1, <1>3, WaiterMoves, ThreadsAre
  <2>2. pc'[w] \notin Holding
    BY <2>1, CalmLabels DEF Moves
  <2>3. QED BY <1>1, <2>1, <2>2, CalmLock
<1>4. ASSUME NEW t \in Threads, SignalStep(t) \/ \E all \in Kinds : Call(t, all)
      PROVE  Mutex'
  <2>1. ASSUME NEW A, NEW L, Moves(t, A, L), UNCHANGED lock, A \subseteq Holding \/ L \cap Holding = {}
        PROVE  Mutex'
    BY <1>1, <2>1, CalmLock DEF Moves
  <2>2. ASSUME NEW A, NEW L, Moves(t, A, L), A \subseteq Holding, L \cap Holding = {}
        PROVE  Mutex'
    BY <1>1, <2>2, ReleaseLock DEF Moves
  <2>3. /\ {"quiesce", "add_first", "add", "wake_first", "quiesce_refs", "quiesce_request", "close",
            "quiesce_wait", "quiesce_asleep", "reopen", "switch"} \subseteq Holding
        /\ {"lock", "wake", "signal", "destroy_wait", "destroyed", "destroy_load", "destroy_asleep"} \cap Holding = {}
        /\ Home(t) \cap Holding = {}
    BY CalmLabels DEF Holding, Quiescing, Shifting
  <2>4. CASE \E all \in Kinds : Call(t, all)
    <3>1. Moves(t, {"idle"}, {"signal"})
      BY <1>1, <2>4, SignalMoves
    <3>2. UNCHANGED lock
      BY <2>4, Zenon DEF Call, condvar
    <3>3. QED BY <2>1, <2>3, <3>1, <3>2
  <2>5. CASE CheckRefs(t)
    <3>1. Moves(t, {"signal"}, {"lock"} \cup Home(t)) /\ UNCHANGED lock
      BY <1>1, <2>5, SignalMoves DEF CheckRefs, condvar
    <3>2. QED BY <2>1, <2>3, <3>1
  <2>6. CASE Lock(t)
    <3>1. Moves(t, {"lock"}, {"quiesce", "add_first", "add"}) /\ ~lock /\ lock'
      BY <1>1, <2>6, SignalMoves DEF Lock
    <3>2. \A u \in Threads : pc[u] \notin Holding
      BY <1>1, <3>1 DEF Mutex
    <3>3. \A u \in Threads : u # t => pc'[u] \notin Holding
      BY <3>1, <3>2, BystanderHolds
    <3>4. QED BY <3>1, <3>3 DEF Mutex
  <2>7. CASE AddFirst(t) \/ WakeFirst(t) \/ QuiesceRefs(t) \/ QuiesceRequest(t) \/ QuiesceWait(t)
               \/ Close(t) \/ Reopen(t)
    <3>1. UNCHANGED lock
      BY <2>7 DEF AddFirst, WakeFirst, QuiesceRefs, QuiesceRequest, QuiesceWait, Close, Reopen, condvar
    <3>2. \E a \in Holding : \E L : Moves(t, {a}, L)
      BY <1>1, <2>3, <2>7, SignalMoves
    <3>3. QED BY <2>1, <3>1, <3>2
  <2>8. CASE Add(t)
    <3>1. Moves(t, {"add"}, {"wake"})
      BY <1>1, <2>8, SignalMoves
    <3>2. QED BY <2>2, <2>3, <3>1
  <2>9. CASE WakeSignalled(t)
    <3>1. Moves(t, {"wake"}, Home(t)) /\ UNCHANGED lock
      BY <1>1, <2>9, SignalMoves DEF WakeSignalled, condvar
    <3>2. QED BY <2>1, <2>3, <3>1
  <2>10. CASE Quiesce(t)
    <3>1. Moves(t, {"quiesce"}, {"quiesce_refs"} \cup Home(t))
      BY <1>1, <2>10, SignalMoves
    <3>2. CASE pc'[t] \in Home(t)
      <4>1. Moves(t, {"quiesce"}, Home(t))
        BY <3>1, <3>2 DEF Moves
      <4>2. QED BY <2>2, <2>3, <4>1
    <3>3. CASE pc'[t] \notin Home(t)
      <4>1. UNCHANGED lock
        BY <1>1, <2>10, <3>3, GoesHome DEF Quiesce
      <4>2. QED BY <2>1, <2>3, <3>1, <4>1
    <3>4. QED BY <3>2, <3>3
  <2>11. CASE Switch(t)
    <3>1. Moves(t, {"switch"}, {"add"} \cup Home(t))
      BY <1>1, <2>11, SignalMoves
    <3>2. CASE pc'[t] \in Home(t)
      <4>1. Moves(t, {"switch"}, Home(t))
        BY <3>1, <3>2 DEF Moves
      <4>2. QED BY <2>2, <2>3, <4>1
    <3>3. CASE pc'[t] \notin Home(t)
      <4>1. lock'
        BY <1>1, <2>11, <3>3, GoesHome DEF Switch
      <4>2. pc[t] \in Holding /\ lock
        BY <1>1, <2>3, <3>1 DEF Moves, Mutex
      <4>3. \A u \in Threads : u # t => pc'[u] \notin Holding
        BY <1>1, <3>1, <4>2, BystanderHolds DEF Mutex
      <4>4. QED BY <4>1, <4>3 DEF Mutex
    <3>4. QED BY <3>2, <3>3
  <2>12. CASE Destroy(t) \/ DestroyWait(t) \/ DestroyLoad(t)
    <3>1. UNCHANGED lock
      BY <2>12 DEF Destroy, DestroyWait, DestroyLoad, condvar
    <3>2. \E A, L : Moves(t, A, L) /\ L \cap Holding = {}
      BY <1>1, <2>3, <2>12, DestroyMoves
    <3>3. QED BY <2>1, <3>1, <3>2
  <2>13. QED
    BY <1>4, <2>4, <2>5, <2>6, <2>7, <2>8, <2>9, <2>10, <2>11, <2>12 DEF SignalStep
<1>5. QED BY <1>1, <1>2, <1>3, <1>4 DEF Next

-----------------------------------------------------------------------------
(* The sizes. *)

Shift == \E t \in Threads : pc[t] \in Shifting

\* The position where G2 begins.
Frontier == IF Shift THEN g1_start.pos ELSE g1_start.pos + orig_size

\* G1 has no waiter left that is not signalled.
Emptied == Quiescing \cup Shifting \cup {"quiesce", "wake_first"}

HolderSees(t) ==
  /\ pc[t] \in Holding => local[t].g1 = 1 - wseq.g2
  /\ pc[t] \in Emptied => g_size[1 - wseq.g2] = 0
  /\ pc[t] = "add" => g_size[1 - wseq.g2] > 0

Roles ==
  /\ g1_start.g2 = (IF Shift THEN 1 - wseq.g2 ELSE wseq.g2)
  /\ orig_size \in Nat
  /\ g_size[1 - wseq.g2] \in 0 .. orig_size
  /\ g_size[wseq.g2] <= 0 /\ g_size[wseq.g2] >= -MAX_GROUP_SIZE
  /\ \A t \in Threads : HolderSees(t)

\* A waiter's position tells its group.
Placed(w) ==
  pc[w] \in Unsettled =>
    /\ local[w].seq < wseq.pos
    /\ local[w].seq >= Frontier => local[w].g = wseq.g2
    /\ local[w].seq >= g1_start.pos /\ local[w].seq < Frontier => local[w].g = 1 - wseq.g2

Newcomers == {w \in Waiters : pc[w] \in Unsettled /\ local[w].seq >= Frontier}

\* Those in G2 that may give up are not more than its size.
Room == Cardinality(Newcomers) <= wseq.pos - Frontier + g_size[wseq.g2]

SizeInv == Roles /\ (\A w \in Waiters : Placed(w)) /\ Room

LEMMA NewcomersType == IsFiniteSet(Newcomers) /\ Cardinality(Newcomers) \in Nat
BY WaitersFinite, FS_Subset, FS_CardinalityType DEF Newcomers

LEMMA GroupFacts ==
  ASSUME Typed
  PROVE  /\ wseq.g2 \in Groups /\ 1 - wseq.g2 \in Groups /\ 1 - (1 - wseq.g2) = wseq.g2 /\ 1 - wseq.g2 # wseq.g2
         /\ wseq.pos \in Nat /\ g1_start.pos \in Int /\ orig_size \in Int
         /\ g_size[wseq.g2] \in Int /\ g_size[1 - wseq.g2] \in Int /\ Frontier \in Int
<1>1. wseq.g2 \in {0, 1} /\ wseq.pos \in Nat /\ g1_start.pos \in Int /\ orig_size \in Int
  BY DEF Typed, Shared, Groups
<1>2. wseq.g2 \in Groups /\ 1 - wseq.g2 \in Groups /\ 1 - (1 - wseq.g2) = wseq.g2 /\ 1 - wseq.g2 # wseq.g2
  BY <1>1 DEF Groups
<1>3. g_size \in [Groups -> Int]
  BY DEF Typed, Shared
<1>4. QED BY <1>1, <1>2, <1>3 DEF Frontier

LEMMA LocalFacts ==
  ASSUME Typed, NEW t \in Threads
  PROVE  local[t].seq \in Nat /\ local[t].g \in Groups /\ local[t].g1 \in Groups
<1>1. local[t] \in Locals
  BY DEF Typed, Own
<1>2. QED BY <1>1 DEF Locals

LEMMA Init_Size == Init => SizeInv
<1>1. SUFFICES ASSUME Init PROVE SizeInv
  OBVIOUS
<1>2. /\ wseq = [pos |-> 0, g2 |-> 0] /\ g1_start = [pos |-> 0, g2 |-> 0] /\ orig_size = 0
      /\ g_size = [g \in Groups |-> 0] /\ \A t \in Threads : pc[t] = "idle"
  BY <1>1 DEF Init
<1>3. \A t \in Threads : pc[t] \notin Holding \cup Emptied \cup Unsettled \cup Shifting \cup {"add"}
  BY <1>2 DEF Holding, Emptied, Quiescing, Shifting, Unsettled, UserLabels
<1>4. ~Shift /\ Frontier = 0
  BY <1>2, <1>3 DEF Shift, Frontier
<1>5. Newcomers = {}
  BY <1>3, ThreadsAre DEF Newcomers
<1>6. wseq.pos = 0 /\ wseq.g2 = 0 /\ g1_start.g2 = 0 /\ g_size[0] = 0 /\ g_size[1] = 0 /\ 1 - 0 = 1
  BY <1>2 DEF Groups
<1>7. Room
  BY <1>4, <1>5, <1>6, FS_EmptySet DEF Room
<1>8. Roles
  BY <1>2, <1>3, <1>4, <1>6, CondVarAssumption DEF Roles, HolderSees
<1>9. QED BY <1>3, <1>7, <1>8, ThreadsAre DEF SizeInv, Placed

\* A step that moves neither a position nor a size.
LEMMA CalmSize ==
  ASSUME Typed, SizeInv, NEW t \in Threads, NEW A, NEW L, Moves(t, A, L),
         UNCHANGED <<wseq, g1_start, orig_size, g_size>>,
         pc'[t] \in Shifting <=> pc[t] \in Shifting,
         pc'[t] \in Unsettled => pc[t] \in Unsettled /\ Keeps(t),
         pc'[t] \in Holding => pc[t] \in Holding /\ Keeps(t),
         pc'[t] \in Emptied => pc[t] \in Emptied,
         pc'[t] # "add"
  PROVE  SizeInv'
<1>1. Shift' <=> Shift
  BY BystanderHolds DEF Shift
<1>2. Frontier' = Frontier
  BY <1>1 DEF Frontier
<1>3. ASSUME NEW u \in Threads
      PROVE  /\ pc'[u] \in Unsettled =>
                  pc[u] \in Unsettled /\ local'[u].seq = local[u].seq /\ local'[u].g = local[u].g
             /\ pc'[u] \in Holding => pc[u] \in Holding /\ local'[u].g1 = local[u].g1
  BY BystanderHolds DEF Keeps
<1>4. ASSUME NEW u \in Threads
      PROVE  (pc'[u] \in Emptied => pc[u] \in Emptied) /\ (pc'[u] = "add" => pc[u] = "add")
  BY DEF Moves, Bystander, Emptied, Quiescing, Shifting
<1>5. ASSUME NEW w \in Waiters PROVE Placed(w)'
  BY <1>2, <1>3, ThreadsAre DEF SizeInv, Placed
<1>6. Newcomers' \subseteq Newcomers
  BY <1>2, <1>3, ThreadsAre DEF Newcomers
<1>7. Cardinality(Newcomers') <= Cardinality(Newcomers) /\ Cardinality(Newcomers') \in Nat
  BY <1>6, NewcomersType, FS_Subset, FS_CardinalityType
<1>8. Room'
  BY <1>2, <1>7, GroupFacts, NewcomersType DEF SizeInv, Room
<1>9. Roles'
  BY <1>1, <1>3, <1>4 DEF SizeInv, Roles, HolderSees
<1>10. QED BY <1>5, <1>8, <1>9 DEF SizeInv

\* What the others of a step see.
LEMMA OthersSee ==
  ASSUME NEW t \in Threads, NEW A, NEW L, Moves(t, A, L), NEW u \in Threads, u # t
  PROVE  /\ pc'[u] \in Emptied <=> pc[u] \in Emptied
         /\ pc'[u] = "add" <=> pc[u] = "add"
         /\ pc'[u] \in Holding <=> pc[u] \in Holding
         /\ pc'[u] \in Unsettled <=> pc[u] \in Unsettled
         /\ local'[u].seq = local[u].seq /\ local'[u].g = local[u].g /\ local'[u].g1 = local[u].g1
<1>1. (pc'[u] \in Emptied <=> pc[u] \in Emptied) /\ (pc'[u] = "add" <=> pc[u] = "add")
  BY DEF Moves, Bystander, Emptied, Quiescing, Shifting
<1>2. QED BY <1>1, BystanderHolds DEF Keeps

LEMMA WaitSize ==
  ASSUME Typed, SizeInv, NEW w \in Waiters, Wait(w)
  PROVE  SizeInv'
<1>1. /\ w \in Threads /\ Moves(w, {"idle"}, {"register"})
      /\ local'[w].seq = wseq.pos /\ local'[w].g = wseq.g2
      /\ UNCHANGED <<g1_start, orig_size, g_size>> /\ wseq' = [wseq EXCEPT !.pos = @ + 1]
  BY WaitMoves, ThreadsAre DEF Wait
<1>2. wseq'.pos = wseq.pos + 1 /\ wseq'.g2 = wseq.g2
  BY <1>1 DEF Typed, Shared
<1>3. pc[w] = "idle" /\ pc'[w] = "register"
  BY <1>1 DEF Moves
<1>4. pc'[w] \notin Holding \cup Emptied \cup Shifting \cup {"add"} /\ pc[w] \notin Shifting \cup Unsettled
  BY <1>3 DEF Holding, Emptied, Quiescing, Shifting, Unsettled, UserLabels
<1>5. Shift' <=> Shift
  BY <1>1, <1>4, BystanderHolds DEF Shift
<1>6. Frontier' = Frontier
  BY <1>1, <1>5 DEF Frontier
<1>7. Frontier <= wseq.pos
  BY GroupFacts, NewcomersType DEF SizeInv, Room, Roles
<1>8. ASSUME NEW v \in Waiters PROVE Placed(v)'
  <2>1. CASE v = w
    BY <1>1, <1>2, <1>6, <1>7, <2>1, GroupFacts DEF Placed
  <2>2. CASE v # w
    <3>1. v \in Threads /\ Placed(v)
      BY ThreadsAre DEF SizeInv
    <3>2. /\ pc'[v] \in Unsettled <=> pc[v] \in Unsettled
          /\ local'[v].seq = local[v].seq /\ local'[v].g = local[v].g
      BY <1>1, <2>2, <3>1, OthersSee
    <3>3. local[v].seq \in Nat
      BY <3>1, LocalFacts
    <3>4. QED BY <1>1, <1>2, <1>6, <3>1, <3>2, <3>3, GroupFacts DEF Placed
  <2>3. QED BY <2>1, <2>2
<1>9. Newcomers' \subseteq Newcomers \cup {w} /\ w \notin Newcomers
  BY <1>1, <1>4, <1>6, OthersSee, ThreadsAre DEF Newcomers
<1>10. Cardinality(Newcomers') <= Cardinality(Newcomers) + 1 /\ Cardinality(Newcomers') \in Nat
  <2>1. IsFiniteSet(Newcomers \cup {w}) /\ Cardinality(Newcomers \cup {w}) = Cardinality(Newcomers) + 1
    BY <1>9, NewcomersType, FS_AddElement
  <2>2. QED BY <1>9, <2>1, FS_Subset, FS_CardinalityType, NewcomersType
<1>11. Room'
  BY <1>1, <1>2, <1>6, <1>10, GroupFacts, NewcomersType DEF SizeInv, Room
<1>12. Roles'
  BY <1>1, <1>2, <1>4, <1>5, OthersSee DEF SizeInv, Roles, HolderSees
<1>13. QED BY <1>8, <1>11, <1>12 DEF SizeInv

LEMMA CancelSize ==
  ASSUME Typed, Mutex, SizeInv, NEW w \in Waiters, Cancel(w)
  PROVE  SizeInv'
<1>1. /\ w \in Threads /\ Moves(w, {"cancel"}, {"signal", "confirm", "cleanup_wake"})
      /\ UNCHANGED <<wseq, g1_start, orig_size>> /\ ~lock
  BY WaitMoves, ThreadsAre DEF Cancel
<1>2. pc[w] = "cancel" /\ pc'[w] \in {"signal", "confirm", "cleanup_wake"}
  BY <1>1 DEF Moves
<1>3. /\ pc'[w] \notin Holding \cup Emptied \cup Shifting \cup Unsettled \cup {"add"}
      /\ pc[w] \notin Shifting /\ pc[w] \in Unsettled
  BY <1>2 DEF Holding, Emptied, Quiescing, Shifting, Unsettled, UserLabels
<1>4. CASE UNCHANGED g_size
  BY <1>1, <1>3, <1>4, CalmSize
<1>5. CASE /\ g_size' = [g_size EXCEPT ![G(w)] = @ - 1]
           /\ g1_start.pos <= local[w].seq
           /\ g1_start.pos + orig_size <= local[w].seq \/ g_size[G(w)] # 0
           /\ g1_start.pos + orig_size <= local[w].seq => g_size[G(w)] + MAX_GROUP_SIZE # 0
  <2>1. \A u \in Threads : pc[u] \notin Holding /\ pc[u] \notin Shifting /\ pc[u] \notin Emptied /\ pc[u] # "add"
    BY <1>1 DEF Mutex, Holding, Shifting, Emptied
  <2>2. \A u \in Threads : pc'[u] \notin Holding \cup Emptied \cup Shifting \cup {"add"}
    BY <1>1, <1>3, <2>1, OthersSee, BystanderHolds
  <2>3. ~Shift /\ ~Shift'
    BY <2>1, <2>2 DEF Shift
  <2>4. Frontier = g1_start.pos + orig_size /\ Frontier' = Frontier
    BY <1>1, <2>3 DEF Frontier
  <2>5. Placed(w) /\ local[w].seq \in Nat /\ local[w].g \in Groups
    BY <1>1, LocalFacts DEF SizeInv
  <2>6. \A v \in Waiters : Placed(v)'
    BY <1>1, <1>3, <2>4, OthersSee, ThreadsAre DEF SizeInv, Placed
  <2>7. Newcomers' = Newcomers \ {w}
    BY <1>1, <1>3, <2>4, OthersSee, ThreadsAre DEF Newcomers
  <2>8. CASE local[w].seq >= Frontier
    <3>1. local[w].g = wseq.g2 /\ w \in Newcomers
      BY <1>3, <2>5, <2>8 DEF Placed, Newcomers
    <3>2. g_size'[wseq.g2] = g_size[wseq.g2] - 1 /\ g_size'[1 - wseq.g2] = g_size[1 - wseq.g2]
      BY <1>5, <3>1, GroupFacts DEF G, Typed, Shared
    <3>3. Cardinality(Newcomers') = Cardinality(Newcomers) - 1
      BY <2>7, <3>1, NewcomersType, FS_RemoveElement
    <3>4. Room'
      BY <1>1, <2>4, <3>2, <3>3, GroupFacts, NewcomersType DEF SizeInv, Room
    <3>5. g_size'[wseq.g2] >= -MAX_GROUP_SIZE
      <4>1. g_size[wseq.g2] + MAX_GROUP_SIZE # 0 /\ g_size[wseq.g2] >= -MAX_GROUP_SIZE
        BY <1>5, <2>4, <2>8, <3>1 DEF SizeInv, Roles, G
      <4>2. QED BY <3>2, <4>1, GroupFacts, CondVarAssumption
    <3>6. Roles'
      BY <1>1, <2>2, <2>3, <3>2, <3>5, GroupFacts DEF SizeInv, Roles, HolderSees
    <3>7. QED BY <2>6, <3>4, <3>6 DEF SizeInv
  <2>9. CASE local[w].seq < Frontier
    <3>1. local[w].g = 1 - wseq.g2 /\ g_size[1 - wseq.g2] # 0
      BY <1>3, <1>5, <2>4, <2>5, <2>9, GroupFacts DEF Placed, G
    <3>2. g_size'[1 - wseq.g2] = g_size[1 - wseq.g2] - 1 /\ g_size'[wseq.g2] = g_size[wseq.g2]
      BY <1>5, <3>1, GroupFacts DEF G, Typed, Shared
    <3>3. Newcomers' = Newcomers
      BY <2>5, <2>7, <2>9, GroupFacts DEF Newcomers
    <3>4. Room'
      BY <1>1, <2>4, <3>2, <3>3 DEF SizeInv, Room
    <3>5. Roles'
      BY <1>1, <2>2, <2>3, <3>1, <3>2, GroupFacts DEF SizeInv, Roles, HolderSees
    <3>6. QED BY <2>6, <3>4, <3>5 DEF SizeInv
  <2>10. QED BY <2>5, <2>8, <2>9, GroupFacts
<1>6. local[w].seq \in Nat /\ g1_start.pos \in Int /\ orig_size \in Int
  BY <1>1, LocalFacts, GroupFacts
<1>7. QED BY <1>4, <1>5, <1>6 DEF Cancel

\* A step that leaves the positions and the size of G2 alone.
LEMMA SamePlaces ==
  ASSUME Typed, SizeInv, NEW t \in Threads, NEW A, NEW L, Moves(t, A, L), UNCHANGED wseq,
         Frontier' = Frontier, g1_start'.pos \in {g1_start.pos, Frontier}, pc'[t] \notin Unsettled,
         g_size'[wseq.g2] = g_size[wseq.g2]
  PROVE  (\A v \in Waiters : Placed(v)') /\ Room'
<1>1. ASSUME NEW v \in Waiters
      PROVE  /\ v \in Threads /\ Placed(v) /\ local[v].seq \in Nat
             /\ pc'[v] \in Unsettled =>
                  pc[v] \in Unsettled /\ local'[v].seq = local[v].seq /\ local'[v].g = local[v].g
  <2>1. v \in Threads /\ Placed(v)
    BY ThreadsAre DEF SizeInv
  <2>2. QED BY <2>1, LocalFacts, OthersSee
<1>2. ASSUME NEW v \in Waiters PROVE Placed(v)'
  BY <1>1, GroupFacts DEF Placed
<1>3. Newcomers' \subseteq Newcomers
  BY <1>1 DEF Newcomers
<1>4. Cardinality(Newcomers') <= Cardinality(Newcomers) /\ Cardinality(Newcomers') \in Nat
  BY <1>3, NewcomersType, FS_Subset, FS_CardinalityType
<1>5. Room'
  BY <1>4, GroupFacts, NewcomersType DEF SizeInv, Room
<1>6. QED BY <1>2, <1>5

\* The steps of the thread that holds the lock are out of the others' sight.
LEMMA Alone ==
  ASSUME Mutex, NEW t \in Threads, NEW A, NEW L, Moves(t, A, L), pc[t] \in Holding \/ ~lock
  PROVE  \A u \in Threads : u # t => /\ pc[u] \notin Holding \cup Emptied \cup Shifting \cup {"add"}
                                     /\ pc'[u] \notin Holding \cup Emptied \cup Shifting \cup {"add"}
<1>1. Emptied \cup Shifting \cup {"add"} \subseteq Holding
  BY DEF Holding, Emptied, Quiescing, Shifting
<1>2. \A u \in Threads : u # t => pc[u] \notin Holding
  BY DEF Mutex
<1>3. \A u \in Threads : u # t => pc'[u] \notin Holding
  BY <1>2, OthersSee
<1>4. QED BY <1>1, <1>2, <1>3

LEMMA LockSize ==
  ASSUME Typed, Mutex, SizeInv, NEW t \in Threads, Lock(t)
  PROVE  SizeInv'
<1>1. /\ Moves(t, {"lock"}, {"quiesce", "add_first", "add"})
      /\ local'[t].g1 = 1 - wseq.g2
      /\ pc'[t] = "quiesce" <=> g_size[1 - wseq.g2] = 0
  BY SignalMoves
<1>2. ~lock /\ UNCHANGED <<wseq, g1_start, orig_size, g_size>>
  BY DEF Lock
<1>3. pc[t] = "lock" /\ pc'[t] \in {"quiesce", "add_first", "add"}
  BY <1>1 DEF Moves
<1>4. /\ pc[t] \notin Shifting /\ pc'[t] \notin Shifting /\ pc'[t] \notin Unsettled
      /\ pc'[t] \in Emptied => pc'[t] = "quiesce"
  BY <1>3 DEF Shifting, Emptied, Quiescing, Unsettled, UserLabels
<1>5. \A u \in Threads : u # t => /\ pc[u] \notin Holding \cup Emptied \cup Shifting \cup {"add"}
                                  /\ pc'[u] \notin Holding \cup Emptied \cup Shifting \cup {"add"}
  BY <1>1, <1>2, Alone
<1>6. ~Shift /\ ~Shift'
  BY <1>4, <1>5 DEF Shift
<1>7. Frontier' = Frontier
  BY <1>2, <1>6 DEF Frontier
<1>8. (\A v \in Waiters : Placed(v)') /\ Room'
  BY <1>1, <1>2, <1>4, <1>7, SamePlaces
<1>9. ASSUME NEW u \in Threads PROVE HolderSees(u)'
  <2>1. CASE u = t
    BY <1>1, <1>2, <1>3, <1>4, <2>1, GroupFacts DEF HolderSees, SizeInv, Roles
  <2>2. CASE u # t
    BY <1>5, <2>2 DEF HolderSees
  <2>3. QED BY <2>1, <2>2
<1>10. Roles'
  BY <1>2, <1>6, <1>9 DEF SizeInv, Roles
<1>11. QED BY <1>8, <1>10 DEF SizeInv

LEMMA AddSize ==
  ASSUME Typed, Mutex, SizeInv, NEW t \in Threads, Add(t) \/ AddFirst(t)
  PROVE  SizeInv'
<1> DEFINE n == IF pc[t] = "add_first" \/ local[t].all THEN g_size[G1(t)] ELSE 1
<1>1. \/ Moves(t, {"add"}, {"wake"})
      \/ Moves(t, {"add_first"}, {"wake_first"}) /\ Keeps(t)
  BY SignalMoves
<1>2. UNCHANGED <<wseq, g1_start, orig_size>> /\ g_size' = [g_size EXCEPT ![G1(t)] = @ - n]
  BY DEF Add, AddFirst, AddSignals
<1>3. \/ pc[t] = "add" /\ pc'[t] = "wake"
      \/ pc[t] = "add_first" /\ pc'[t] = "wake_first" /\ Keeps(t)
  BY <1>1 DEF Moves
<1>4. /\ pc[t] \in Holding /\ pc[t] \notin Shifting
      /\ pc'[t] \notin Shifting /\ pc'[t] \notin Unsettled /\ pc'[t] # "add"
      /\ pc'[t] \in Holding \cup Emptied => pc[t] = "add_first"
  BY <1>3 DEF Shifting, Emptied, Holding, Quiescing, Unsettled, UserLabels
<1>5. \A u \in Threads : u # t => /\ pc[u] \notin Holding \cup Emptied \cup Shifting \cup {"add"}
                                  /\ pc'[u] \notin Holding \cup Emptied \cup Shifting \cup {"add"}
  BY <1>1, <1>4, Alone
<1>6. ~Shift /\ ~Shift'
  BY <1>4, <1>5 DEF Shift
<1>7. Frontier' = Frontier
  BY <1>2, <1>6 DEF Frontier
<1>8. local[t].g1 = 1 - wseq.g2 /\ (pc[t] = "add" => g_size[1 - wseq.g2] > 0)
  BY <1>4 DEF SizeInv, Roles, HolderSees
<1>9. /\ g_size'[wseq.g2] = g_size[wseq.g2]
      /\ g_size'[1 - wseq.g2] = g_size[1 - wseq.g2] - n
  BY <1>2, <1>8, GroupFacts DEF G1, Typed, Shared
<1>10. n \in 0 .. g_size[1 - wseq.g2] /\ (pc[t] = "add_first" => n = g_size[1 - wseq.g2])
  <2>1. g_size[1 - wseq.g2] \in Nat
    BY GroupFacts DEF SizeInv, Roles
  <2>2. QED BY <1>3, <1>8, <2>1 DEF G1
<1>11. (\A v \in Waiters : Placed(v)') /\ Room'
  BY <1>1, <1>2, <1>4, <1>7, <1>9, SamePlaces
<1> HIDE DEF n
<1>12. ASSUME NEW u \in Threads PROVE HolderSees(u)'
  <2>1. CASE u = t
    <3>1. CASE pc[t] = "add_first"
      <4>1. local'[t].g1 = 1 - wseq'.g2
        BY <1>2, <1>3, <1>8, <3>1 DEF Keeps
      <4>2. g_size'[1 - wseq'.g2] = 0
        BY <1>2, <1>9, <1>10, <3>1, GroupFacts
      <4>3. QED BY <1>4, <2>1, <4>1, <4>2 DEF HolderSees
    <3>2. CASE pc[t] # "add_first"
      BY <1>4, <2>1, <3>2 DEF HolderSees
    <3>3. QED BY <3>1, <3>2
  <2>2. CASE u # t
    BY <1>5, <2>2 DEF HolderSees
  <2>3. QED BY <2>1, <2>2
<1>13. g_size'[1 - wseq.g2] \in 0 .. orig_size
  BY <1>9, <1>10, GroupFacts DEF SizeInv, Roles
<1>14. Roles'
  BY <1>2, <1>6, <1>9, <1>12, <1>13 DEF SizeInv, Roles
<1>15. QED BY <1>11, <1>14 DEF SizeInv

LEMMA CloseSize ==
  ASSUME Typed, Mutex, SizeInv, NEW t \in Threads, Close(t)
  PROVE  SizeInv'
<1>1. Moves(t, {"close"}, {"reopen"}) /\ Keeps(t)
  BY SignalMoves
<1>2. UNCHANGED <<wseq, orig_size, g_size>> /\ g1_start' = [pos |-> g1_start.pos + orig_size, g2 |-> G1(t)]
  BY DEF Close
<1>3. pc[t] = "close" /\ pc'[t] = "reopen"
  BY <1>1 DEF Moves
<1>4. /\ pc[t] \in Holding /\ pc[t] \in Emptied /\ pc[t] \notin Shifting
      /\ pc'[t] \in Shifting /\ pc'[t] \notin Unsettled /\ pc'[t] # "add"
  BY <1>3 DEF Shifting, Emptied, Holding, Quiescing, Unsettled, UserLabels
<1>5. \A u \in Threads : u # t => /\ pc[u] \notin Holding \cup Emptied \cup Shifting \cup {"add"}
                                  /\ pc'[u] \notin Holding \cup Emptied \cup Shifting \cup {"add"}
  BY <1>1, <1>4, Alone
<1>6. ~Shift /\ Shift'
  BY <1>4, <1>5 DEF Shift
<1>7. g1_start'.pos = Frontier /\ Frontier' = Frontier /\ g1_start'.g2 = local[t].g1
  BY <1>2, <1>6 DEF Frontier, G1
<1>8. local[t].g1 = 1 - wseq.g2 /\ g_size[1 - wseq.g2] = 0
  BY <1>4 DEF SizeInv, Roles, HolderSees
<1>9. (\A v \in Waiters : Placed(v)') /\ Room'
  BY <1>1, <1>2, <1>4, <1>7, SamePlaces
<1>10. ASSUME NEW u \in Threads PROVE HolderSees(u)'
  <2>1. CASE u = t
    BY <1>1, <1>2, <1>4, <1>8, <2>1 DEF HolderSees, Keeps
  <2>2. CASE u # t
    BY <1>5, <2>2 DEF HolderSees
  <2>3. QED BY <2>1, <2>2
<1>11. Roles'
  BY <1>2, <1>6, <1>7, <1>8, <1>10 DEF SizeInv, Roles
<1>12. QED BY <1>9, <1>11 DEF SizeInv

LEMMA SwitchSize ==
  ASSUME Typed, Mutex, SizeInv, NEW t \in Threads, Switch(t)
  PROVE  SizeInv'
<1> DEFINE size == wseq.pos - g1_start.pos
           left == g_size[wseq.g2] + size
<1>1. /\ Moves(t, {"switch"}, {"add"} \cup Home(t))
      /\ pc'[t] = "add" => local'[t].g1 = 1 - G1(t)
  BY SignalMoves
<1>2. pc[t] = "switch" /\ pc'[t] \in {"add"} \cup Home(t)
  BY <1>1 DEF Moves
<1>3. /\ pc[t] \in Holding /\ pc[t] \in Emptied /\ pc[t] \in Shifting
      /\ pc'[t] \notin Shifting /\ pc'[t] \notin Unsettled
      /\ pc'[t] \in Holding \cup Emptied => pc'[t] = "add" /\ pc'[t] \notin Emptied
  BY <1>2 DEF Shifting, Emptied, Holding, Quiescing, Unsettled, UserLabels, Home
<1>4. \A u \in Threads : u # t => /\ pc[u] \notin Holding \cup Emptied \cup Shifting \cup {"add"}
                                  /\ pc'[u] \notin Holding \cup Emptied \cup Shifting \cup {"add"}
  BY <1>1, <1>3, Alone
<1>5. Shift /\ ~Shift'
  BY <1>3, <1>4 DEF Shift
<1>6. local[t].g1 = 1 - wseq.g2 /\ 1 - G1(t) = wseq.g2 /\ g_size[1 - wseq.g2] = 0 /\ g1_start.g2 = 1 - wseq.g2
  BY <1>3, <1>5, GroupFacts DEF SizeInv, Roles, HolderSees, G1
<1>7. /\ wseq' = [wseq EXCEPT !.g2 = 1 - wseq.g2] /\ orig_size' = size /\ UNCHANGED g1_start
      /\ g_size' = [g_size EXCEPT ![wseq.g2] = @ + size]
  BY <1>6 DEF Switch, G1
<1>8. wseq'.pos = wseq.pos /\ wseq'.g2 = 1 - wseq.g2 /\ 1 - wseq'.g2 = wseq.g2
  BY <1>7, GroupFacts DEF Typed, Shared
<1>9. g_size'[wseq.g2] = left /\ g_size'[1 - wseq.g2] = 0
  BY <1>6, <1>7, GroupFacts DEF Typed, Shared
<1>10. Frontier = g1_start.pos
  BY <1>5 DEF Frontier
<1>11. size \in Nat /\ left \in 0 .. size
  <2>1. Cardinality(Newcomers) \in Nat /\ Cardinality(Newcomers) <= wseq.pos - g1_start.pos + g_size[wseq.g2]
        /\ g_size[wseq.g2] <= 0
    BY <1>10, NewcomersType DEF SizeInv, Room, Roles
  <2>2. QED BY <2>1, GroupFacts
<1>12. Frontier' = wseq.pos
  BY <1>5, <1>7, GroupFacts DEF Frontier
<1>13. pc'[t] = "add" => left # 0
  <2>1. g_size[1 - G1(t)] + (wseq.pos - g1_start.pos) # 0 \/ GoBack(t, Back(t))
    BY DEF Switch
  <2>2. "add" \notin Home(t)
    BY DEF Home
  <2>3. QED BY <1>6, <2>1, <2>2, GoesHome
<1> HIDE DEF size, left
<1>14. ASSUME NEW v \in Waiters
       PROVE  /\ v \in Threads /\ Placed(v) /\ local[v].seq \in Nat
              /\ pc'[v] \in Unsettled =>
                   pc[v] \in Unsettled /\ local'[v].seq = local[v].seq /\ local'[v].g = local[v].g
  <2>1. v \in Threads /\ Placed(v)
    BY ThreadsAre DEF SizeInv
  <2>2. QED BY <1>1, <1>3, <2>1, LocalFacts, OthersSee
<1>15. ASSUME NEW v \in Waiters PROVE Placed(v)'
  BY <1>7, <1>8, <1>10, <1>12, <1>14, GroupFacts DEF Placed
<1>16. Newcomers' = {}
  <2>1. ASSUME NEW v \in Newcomers' PROVE FALSE
    <3>1. v \in Waiters /\ pc'[v] \in Unsettled /\ local'[v].seq >= wseq.pos
      BY <1>12, <2>1 DEF Newcomers
    <3>2. local[v].seq < wseq.pos /\ local[v].seq \in Nat /\ local'[v].seq = local[v].seq
      BY <1>14, <3>1 DEF Placed
    <3>3. QED BY <3>1, <3>2, GroupFacts
  <2>2. QED BY <2>1
<1>17. Room'
  BY <1>8, <1>9, <1>12, <1>16, FS_EmptySet, GroupFacts DEF Room
<1>18. ASSUME NEW u \in Threads PROVE HolderSees(u)'
  <2>1. CASE u = t
    <3>1. pc'[t] = "add" => local'[t].g1 = wseq.g2 /\ left > 0
      BY <1>1, <1>6, <1>11, <1>13
    <3>2. QED BY <1>3, <1>8, <1>9, <2>1, <3>1 DEF HolderSees
  <2>2. CASE u # t
    BY <1>4, <2>2 DEF HolderSees
  <2>3. QED BY <2>1, <2>2
<1>19. Roles'
  BY <1>5, <1>6, <1>7, <1>8, <1>9, <1>11, <1>18, CondVarAssumption DEF Roles
<1>20. QED BY <1>15, <1>17, <1>19 DEF SizeInv

LEMMA SizeStep == Typed /\ Mutex /\ SizeInv /\ [Next]_vars => SizeInv'
<1>1. SUFFICES ASSUME Typed, Mutex, SizeInv, [Next]_vars PROVE SizeInv'
  OBVIOUS
<1>2. CASE UNCHANGED vars
  <2>1. UNCHANGED <<wseq, g1_start, orig_size, g_size, pc, local>>
    BY <1>2 DEF vars, condvar
  <2>2. Frontier' = Frontier /\ Newcomers' = Newcomers /\ Shift' = Shift
    BY <2>1 DEF Frontier, Newcomers, Shift
  <2>3. QED BY <1>1, <2>1, <2>2 DEF SizeInv, Roles, HolderSees, Placed, Room
<1>3. ASSUME NEW w \in Waiters,
             Wait(w) \/ WaiterStep(w) \/ SpuriousWake(w)
               \/ \E how \in Interrupts \cap {"timed_out", "cancelled"} : GiveUp(w, how)
      PROVE  SizeInv'
  <2>1. CASE Wait(w)
    BY <1>1, <2>1, WaitSize
  <2>2. CASE Cancel(w)
    BY <1>1, <2>2, CancelSize
  <2>3. CASE ~Wait(w) /\ ~Cancel(w)
    <3>1. /\ w \in Threads /\ Moves(w, Calm, Calm) /\ UNCHANGED <<wseq, g1_start, orig_size, g_size>>
          /\ pc'[w] \in Unsettled => pc[w] \in Unsettled /\ Keeps(w)
      BY <1>1, <1>3, <2>3, WaiterMoves, ThreadsAre
    <3>2. Calm \cap (Holding \cup Emptied \cup Shifting \cup {"add"}) = {}
      BY CalmLabels DEF Holding, Emptied
    <3>3. pc[w] \in Calm /\ pc'[w] \in Calm
      BY <3>1 DEF Moves
    <3>4. QED BY <1>1, <3>1, <3>2, <3>3, CalmSize
  <2>4. QED BY <2>1, <2>2, <2>3
<1>4. ASSUME NEW t \in Threads, SignalStep(t) \/ \E all \in Kinds : Call(t, all)
      PROVE  SizeInv'
  <2>1. CASE Lock(t)
    BY <1>1, <2>1, LockSize
  <2>2. CASE Add(t) \/ AddFirst(t)
    BY <1>1, <2>2, AddSize
  <2>3. CASE Close(t)
    BY <1>1, <2>3, CloseSize
  <2>4. CASE Switch(t)
    BY <1>1, <2>4, SwitchSize
  \* The rest go on outside the lock, or below it with G1 empty.
  <2>5. ASSUME NEW A, NEW L, Moves(t, A, L), UNCHANGED <<wseq, g1_start, orig_size, g_size>>,
               A \cap Shifting = {}, L \cap (Holding \cup Unsettled \cup Emptied) = {}
        PROVE  SizeInv'
    <3>1. pc[t] \notin Shifting /\ pc'[t] \notin Holding \cup Unsettled \cup Emptied
      BY <2>5 DEF Moves
    <3>2. pc'[t] \notin Shifting /\ pc'[t] # "add"
      BY <3>1 DEF Holding
    <3>3. QED BY <1>1, <2>5, <3>1, <3>2, CalmSize
  <2>6. ASSUME NEW A, NEW L, Moves(t, A, L), UNCHANGED <<wseq, g1_start, orig_size, g_size>>, Keeps(t),
               \/ A \subseteq Emptied \ Shifting /\ L \subseteq Emptied \ Shifting
               \/ A \subseteq Shifting /\ L \subseteq Shifting
        PROVE  SizeInv'
    <3>1. Emptied \subseteq Holding /\ Shifting \subseteq Emptied /\ "add" \notin Emptied
      BY DEF Emptied, Holding, Quiescing, Shifting
    <3>2. pc[t] \in Emptied /\ pc'[t] \in Emptied /\ (pc'[t] \in Shifting <=> pc[t] \in Shifting)
      BY <2>6, <3>1 DEF Moves
    <3>3. pc'[t] \notin Unsettled /\ pc'[t] # "add" /\ pc[t] \in Holding
      BY <3>1, <3>2, CalmLabels
    <3>4. QED BY <1>1, <2>6, <3>2, <3>3, CalmSize
  <2>7. /\ {"idle", "signal", "wake", "destroy_wait", "destroy_load"} \cap Shifting = {}
        /\ {"signal", "lock", "destroy_wait", "destroy_asleep", "destroy_load", "destroyed", "idle"}
             \cap (Holding \cup Unsettled \cup Emptied) = {}
        /\ Home(t) \cap (Holding \cup Unsettled \cup Emptied) = {}
        /\ {"quiesce", "wake_first", "quiesce_refs", "quiesce_request", "quiesce_wait", "quiesce_asleep", "close"}
             \subseteq Emptied \ Shifting
        /\ {"reopen", "switch"} \subseteq Shifting
    BY DEF Holding, Unsettled, UserLabels, Emptied, Quiescing, Shifting, Home
  <2>8. CASE \E all \in Kinds : Call(t, all)
    <3>1. Moves(t, {"idle"}, {"signal"})
      BY <1>1, <2>8, SignalMoves
    <3>2. UNCHANGED <<wseq, g1_start, orig_size, g_size>>
      BY <2>8, Zenon DEF Call, condvar
    <3>3. QED BY <2>5, <2>7, <3>1, <3>2
  <2>9. CASE CheckRefs(t) \/ WakeSignalled(t)
    <3>1. UNCHANGED <<wseq, g1_start, orig_size, g_size>>
      BY <2>9 DEF CheckRefs, WakeSignalled, condvar
    <3>2. Moves(t, {"signal"}, {"lock"} \cup Home(t)) \/ Moves(t, {"wake"}, Home(t))
      BY <1>1, <2>9, SignalMoves
    <3>3. QED BY <2>5, <2>7, <3>1, <3>2
  <2>10. CASE WakeFirst(t) \/ QuiesceRefs(t) \/ QuiesceRequest(t) \/ QuiesceWait(t) \/ Reopen(t)
    <3>1. UNCHANGED <<wseq, g1_start, orig_size, g_size>>
      BY <2>10 DEF WakeFirst, QuiesceRefs, QuiesceRequest, QuiesceWait, Reopen, condvar
    <3>2. /\ Keeps(t)
          /\ \/ Moves(t, {"wake_first"}, {"quiesce"})
             \/ Moves(t, {"quiesce_refs"}, {"quiesce_request", "close"})
             \/ Moves(t, {"quiesce_request"}, {"quiesce_wait", "quiesce_refs"})
             \/ Moves(t, {"quiesce_wait"}, {"quiesce_asleep", "quiesce_refs"})
             \/ Moves(t, {"reopen"}, {"switch"})
      BY <1>1, <2>10, SignalMoves
    <3>3. QED BY <2>6, <2>7, <3>1, <3>2
  <2>11. CASE Quiesce(t)
    <3>1. UNCHANGED <<wseq, g1_start, orig_size, g_size>>
      BY <2>11 DEF Quiesce
    <3>2. /\ Moves(t, {"quiesce"}, {"quiesce_refs"} \cup Home(t))
          /\ pc'[t] = "quiesce_refs" => Keeps(t)
      BY <1>1, <2>11, SignalMoves
    <3>3. CASE pc'[t] = "quiesce_refs"
      <4>1. Moves(t, {"quiesce"}, {"quiesce_refs"})
        BY <3>2, <3>3 DEF Moves
      <4>2. QED BY <2>6, <2>7, <3>1, <3>2, <3>3, <4>1
    <3>4. CASE pc'[t] # "quiesce_refs"
      <4>1. Moves(t, {"quiesce"}, Home(t))
        BY <3>2, <3>4 DEF Moves
      <4>2. QED BY <2>5, <2>7, <3>1, <4>1
    <3>5. QED BY <3>3, <3>4
  <2>12. CASE Destroy(t) \/ DestroyWait(t) \/ DestroyLoad(t)
    <3>1. UNCHANGED <<wseq, g1_start, orig_size, g_size>>
      BY <2>12 DEF Destroy, DestroyWait, DestroyLoad, condvar
    <3>2. \/ Moves(t, {"idle"}, {"destroy_wait", "destroyed"})
          \/ Moves(t, {"destroy_wait"}, {"destroy_asleep", "destroy_load"})
          \/ Moves(t, {"destroy_load"}, {"destroy_wait", "destroyed"})
      BY <1>1, <2>12, DestroyMoves
    <3>3. QED BY <2>5, <2>7, <3>1, <3>2
  <2>13. QED
    BY <1>4, <2>1, <2>2, <2>3, <2>4, <2>8, <2>9, <2>10, <2>11, <2>12 DEF SignalStep
<1>5. QED BY <1>1, <1>2, <1>3, <1>4 DEF Next

LEMMA SizeInvariance == Spec => [](Typed /\ Mutex /\ SizeInv)
<1>1. Init => Typed /\ Mutex /\ SizeInv
  BY Init_Typed, Init_Mutex, Init_Size
<1>2. Typed /\ Mutex /\ SizeInv /\ [Next]_vars => (Typed /\ Mutex /\ SizeInv)'
  BY TypedStep, MutexStep, SizeStep
<1>3. QED BY <1>1, <1>2, PTL DEF Spec

\* Whenever the internal lock is free, __g_size, __g1_orig_size and __g1_start agree with the
\* positions handed out by __wseq: G1 has at most as many waiters to signal as it had when it
\* became G1, and G2 never loses more of its waiters than took a position in it or than
\* __PTHREAD_COND_MAX_GROUP_SIZE.
THEOREM ExactSizes == Spec => []SizesAgree
<1>1. Typed /\ Mutex /\ SizeInv => SizesAgree
  <2>1. SUFFICES ASSUME Typed, Mutex, SizeInv, ~lock PROVE SizesAgree
    BY DEF SizesAgree
  <2>2. ~Shift
    BY <2>1 DEF Mutex, Shift, Holding
  <2>3. Frontier = g1_start.pos + orig_size
    BY <2>2 DEF Frontier
  <2>4. /\ Cardinality(Newcomers) \in Nat
        /\ Cardinality(Newcomers) <= wseq.pos - (g1_start.pos + orig_size) + g_size[wseq.g2]
    BY <2>1, <2>3, NewcomersType DEF SizeInv, Room
  <2>5. g1_start.pos + orig_size - g_size[wseq.g2] <= wseq.pos
    BY <2>1, <2>4, GroupFacts
  <2>6. g_size[wseq.g2] \in -MAX_GROUP_SIZE .. 0
    BY <2>1, GroupFacts, CondVarAssumption DEF SizeInv, Roles
  <2>7. QED BY <2>1, <2>2, <2>5, <2>6 DEF SizesAgree, SizeInv, Roles
<1>2. QED BY <1>1, SizeInvariance, PTL

-----------------------------------------------------------------------------
(* The sleepers. *)

\* On the way to the futex of a group seen open, and there.
Sleepy == {"check_start", "futex_wait", "asleep"}

Dozing == {"futex_wait", "asleep"}

Users(g) == {w \in Waiters : pc[w] \in UserLabels /\ local[w].g = g}

RefsCount == \A g \in Groups : g_refs[g].n = Cardinality(Users(g))

\* A group is closed while its users leave, and when they have left nobody new sleeps.
SeesClosed(t) ==
  /\ pc[t] \in Quiescing => g_signals[local[t].g1].closed
  /\ pc[t] = "close" => \A w \in Waiters : pc[w] \in Sleepy => local[w].g # local[t].g1

Current(w) == pc[w] \in Dozing => local[w].seq >= g1_start.pos

SleepInv == RefsCount /\ (\A t \in Threads : SeesClosed(t)) /\ (\A w \in Waiters : Current(w))

LEMMA UsersType == \A g : IsFiniteSet(Users(g)) /\ Cardinality(Users(g)) \in Nat
BY WaitersFinite, FS_Subset, FS_CardinalityType DEF Users

LEMMA Init_Sleep == Init => SleepInv
<1>1. SUFFICES ASSUME Init PROVE SleepInv
  OBVIOUS
<1>2. \A t \in Threads : pc[t] = "idle"
  BY <1>1 DEF Init
<1>3. \A t \in Threads : pc[t] \notin UserLabels \cup Quiescing \cup Dozing \cup {"close"}
  BY <1>2 DEF UserLabels, Quiescing, Dozing
<1>4. \A g : Users(g) = {}
  BY <1>3, ThreadsAre DEF Users
<1>5. \A g \in Groups : g_refs[g].n = 0
  BY <1>1 DEF Init
<1>6. RefsCount
  BY <1>4, <1>5, FS_EmptySet DEF RefsCount
<1>7. QED BY <1>3, <1>6, ThreadsAre DEF SleepInv, SeesClosed, Current

\* What a step changes of the counts and of the flags that the sleepers rely on.
CountsKept == \A g \in Groups : g_refs'[g].n = g_refs[g].n

ClosedStay == \A g \in Groups : g_signals[g].closed => g_signals'[g].closed

LEMMA WaiterSleep ==
  ASSUME Typed, NEW w \in Waiters,
         Wait(w) \/ WaiterStep(w) \/ SpuriousWake(w)
           \/ \E how \in Interrupts \cap {"timed_out", "cancelled"} : GiveUp(w, how)
  PROVE  /\ ClosedStay
         /\ TakeRef(w) \/ DropRef(w) \/ CountsKept
         /\ \/ TakeRef(w) \/ DropRef(w)
            \/ pc[w] \in UserLabels /\ pc'[w] \in UserLabels /\ Keeps(w)
            \/ pc[w] \notin UserLabels /\ pc'[w] \notin UserLabels
         /\ pc'[w] \in Sleepy => CheckClosed(w) \/ (pc[w] \in Sleepy /\ Keeps(w))
         /\ pc'[w] \in Dozing => CheckStart(w) \/ (pc[w] \in Dozing /\ Keeps(w))
<1>1. ClosedStay
  <2>1. UNCHANGED g_signals \/ (\E x : g_signals' = [g_signals EXCEPT ![G(w)].n = x])
    BY DEF WaiterStep, Wait, Register, Load, TakeRef, CheckClosed, CheckStart, FutexWait, SpuriousWake, GiveUp,
           DropRef, ClearRequest, WakeRefs, Grab, CheckSteal, UndoLoad, UndoCheck, UndoCas, UndoWake, Confirm,
           WakeDestroyer, Cancel, CleanupWake, condvar
  <2>2. QED BY <2>1 DEF ClosedStay, Typed, Shared
<1>2. TakeRef(w) \/ DropRef(w) \/ CountsKept
  <2>1. TakeRef(w) \/ DropRef(w) \/ UNCHANGED g_refs \/ g_refs' = [g_refs EXCEPT ![G(w)].wake = FALSE]
    BY DEF WaiterStep, Wait, Register, Load, CheckClosed, CheckStart, FutexWait, SpuriousWake, GiveUp,
           ClearRequest, WakeRefs, Grab, CheckSteal, UndoLoad, UndoCheck, UndoCas, UndoWake, Confirm,
           WakeDestroyer, Cancel, CleanupWake, condvar
  <2>2. QED BY <2>1 DEF CountsKept, Typed, Shared
<1> DEFINE P == /\ \/ TakeRef(w) \/ DropRef(w)
                   \/ pc[w] \in UserLabels /\ pc'[w] \in UserLabels /\ Keeps(w)
                   \/ pc[w] \notin UserLabels /\ pc'[w] \notin UserLabels
                /\ pc'[w] \in Sleepy => CheckClosed(w) \/ (pc[w] \in Sleepy /\ Keeps(w))
                /\ pc'[w] \in Dozing => CheckStart(w) \/ (pc[w] \in Dozing /\ Keeps(w))
           N == {"idle", "register", "load", "cancel", "grab", "take_ref", "clear_request", "wake_refs", "signal",
                 "wake_destroyer", "confirm", "cleanup_wake", "check_steal"} \cup Leaving
<1>3. SUFFICES P
  BY <1>1, <1>2
<1>4. /\ N \cap (UserLabels \cup Sleepy \cup Dozing) = {}
      /\ Sleepy \subseteq UserLabels /\ Dozing \subseteq UserLabels
      /\ "check_closed" \notin Sleepy /\ "drop_ref" \notin Sleepy
      /\ "check_closed" \notin Dozing /\ "drop_ref" \notin Dozing /\ "check_start" \notin Dozing
  BY DEF UserLabels, Sleepy, Dozing, Leaving
<1>5. ASSUME NEW A, NEW L, Moves(w, A, L), A \subseteq N, L \subseteq N PROVE P
  BY <1>4, <1>5 DEF Moves
<1>6. CASE TakeRef(w)
  BY <1>4, <1>6, WaitMoves DEF Moves
<1>7. CASE DropRef(w)
  <2>1. Moves(w, {"drop_ref"}, {"clear_request", "load", "confirm", "cancel"})
    BY <1>7, WaitMoves
  <2>2. pc'[w] \in N
    BY <2>1 DEF Moves
  <2>3. QED BY <1>4, <1>7, <2>2
<1>8. CASE CheckClosed(w)
  <2>1. pc[w] = "check_closed" /\ pc'[w] \in {"drop_ref", "check_start"} /\ Keeps(w)
    BY <1>8, WaitMoves DEF Moves
  <2>2. QED BY <1>4, <1>8, <2>1 DEF UserLabels
<1>9. CASE CheckStart(w)
  <2>1. pc[w] = "check_start" /\ pc'[w] \in {"drop_ref", "futex_wait"} /\ Keeps(w)
    BY <1>9, WaitMoves DEF Moves
  <2>2. QED BY <1>4, <1>9, <2>1 DEF UserLabels, Sleepy
<1>10. CASE FutexWait(w)
  <2>1. pc[w] = "futex_wait" /\ pc'[w] \in {"drop_ref", "asleep"} /\ Keeps(w)
    BY <1>10, WaitMoves DEF Moves
  <2>2. QED BY <1>4, <2>1 DEF UserLabels, Sleepy, Dozing
<1>11. CASE SpuriousWake(w) \/ \E how : GiveUp(w, how)
  <2>1. pc[w] \in {"futex_wait", "asleep", "drop_ref"} /\ pc'[w] = "drop_ref" /\ Keeps(w)
    BY <1>11, WaitMoves DEF Moves
  <2>2. QED BY <1>4, <2>1 DEF UserLabels
<1>12. CASE \/ Wait(w) \/ Register(w) \/ Load(w) \/ Grab(w) \/ ClearRequest(w) \/ WakeRefs(w) \/ Cancel(w)
  <2>1. \/ Moves(w, {"idle"}, {"register"}) \/ Moves(w, {"register"}, {"load", "cancel"})
        \/ Moves(w, {"load"}, {"confirm", "grab", "take_ref"})
        \/ Moves(w, {"grab"}, {"confirm", "grab", "take_ref", "check_steal"})
        \/ Moves(w, {"clear_request"}, {"wake_refs"}) \/ Moves(w, {"wake_refs"}, {"load", "confirm", "cancel"})
        \/ Moves(w, {"cancel"}, {"signal", "confirm", "cleanup_wake"})
    BY <1>12, WaitMoves
  <2>2. pc[w] \in N /\ pc'[w] \in N
    BY <2>1 DEF Moves
  <2>3. QED BY <1>4, <2>2
<1>13. CASE \/ CheckSteal(w) \/ UndoLoad(w) \/ UndoCheck(w) \/ UndoCas(w) \/ UndoWake(w) \/ CleanupWake(w)
            \/ Confirm(w) \/ WakeDestroyer(w)
  <2>1. \/ Moves(w, Leaving, Leaving) \/ Moves(w, {"confirm"}, {"idle", "wake_destroyer"})
        \/ Moves(w, {"wake_destroyer"}, {"idle"})
    BY <1>13, LeaveMoves
  <2>2. pc[w] \in N /\ pc'[w] \in N
    BY <2>1 DEF Moves
  <2>3. QED BY <1>4, <2>2
<1> HIDE DEF P
<1>14. QED
  BY <1>6, <1>7, <1>8, <1>9, <1>10, <1>11, <1>12, <1>13 DEF WaiterStep

LEMMA SignalSleep ==
  ASSUME Typed, NEW t \in Threads, SignalStep(t) \/ \E all \in Kinds : Call(t, all)
  PROVE  /\ CountsKept
         /\ Reopen(t) \/ ClosedStay
         /\ Close(t) \/ UNCHANGED g1_start
         /\ pc[t] \notin UserLabels /\ pc'[t] \notin UserLabels
         /\ pc'[t] \in Quiescing => Quiesce(t) \/ (pc[t] \in Quiescing /\ Keeps(t))
         /\ pc'[t] = "close" => QuiesceRefs(t)
         /\ \E A, L : Moves(t, A, L)
<1>1. CountsKept
  <2>1. UNCHANGED g_refs \/ g_refs' = [g_refs EXCEPT ![G1(t)].wake = TRUE]
    <3>1. CASE SignalStep(t)
      BY <3>1 DEF SignalStep, CheckRefs, Lock, AddFirst, WakeFirst, Add, WakeSignalled, Quiesce, QuiesceRefs,
             QuiesceRequest, QuiesceWait, Close, Reopen, Switch, Destroy, DestroyWait, DestroyLoad, condvar
    <3>2. CASE \E all \in Kinds : Call(t, all)
      BY <3>2, Zenon DEF Call, condvar
    <3>3. QED BY <3>1, <3>2
  <2>2. QED BY <2>1 DEF CountsKept, Typed, Shared
<1>2. Close(t) \/ UNCHANGED g1_start
  <2>1. CASE SignalStep(t)
    BY <2>1 DEF SignalStep, CheckRefs, Lock, AddFirst, WakeFirst, Add, WakeSignalled, Quiesce, QuiesceRefs,
           QuiesceRequest, QuiesceWait, Reopen, Switch, Destroy, DestroyWait, DestroyLoad, condvar
  <2>2. CASE \E all \in Kinds : Call(t, all)
    BY <2>2, Zenon DEF Call, condvar
  <2>3. QED BY <2>1, <2>2
<1>3. Reopen(t) \/ ClosedStay
  <2>1. \/ Reopen(t) \/ UNCHANGED g_signals \/ \E x : g_signals' = [g_signals EXCEPT ![G1(t)].n = x]
        \/ g_signals' = [g_signals EXCEPT ![G1(t)].closed = TRUE]
    <3>1. CASE SignalStep(t)
      BY <3>1 DEF SignalStep, CheckRefs, Lock, AddFirst, WakeFirst, Add, AddSignals, WakeSignalled, Quiesce,
             QuiesceRefs, QuiesceRequest, QuiesceWait, Close, Switch, Destroy, DestroyWait, DestroyLoad, condvar
    <3>2. CASE \E all \in Kinds : Call(t, all)
      BY <3>2, Zenon DEF Call, condvar
    <3>3. QED BY <3>1, <3>2
  <2>2. CASE g_signals' = [g_signals EXCEPT ![G1(t)].closed = TRUE]
    <3>1. ASSUME NEW g \in Groups PROVE g_signals'[g] = g_signals[g] \/ g_signals'[g].closed = TRUE
      BY <2>2 DEF Typed, Shared
    <3>2. QED BY <3>1, Zenon DEF ClosedStay
  <2>3. CASE UNCHANGED g_signals \/ \E x : g_signals' = [g_signals EXCEPT ![G1(t)].n = x]
    BY <2>3 DEF ClosedStay, Typed, Shared
  <2>4. QED BY <2>1, <2>2, <2>3
<1> DEFINE P == /\ pc[t] \notin UserLabels /\ pc'[t] \notin UserLabels
                /\ pc'[t] \in Quiescing => Quiesce(t) \/ (pc[t] \in Quiescing /\ Keeps(t))
                /\ pc'[t] = "close" => QuiesceRefs(t)
                /\ \E A, L : Moves(t, A, L)
           N == {"signal", "idle", "lock", "confirm", "cleanup_wake", "quiesce", "add_first", "add", "wake_first",
                 "wake", "close", "reopen", "switch", "destroy_wait", "destroyed", "destroy_asleep",
                 "destroy_load"} \cup Home(t)
<1>4. SUFFICES P
  BY <1>1, <1>2, <1>3
<1>5. /\ N \cap UserLabels = {} /\ N \cap Quiescing = {"close"} /\ Quiescing \cap UserLabels = {}
      /\ {"quiesce_refs", "quiesce_request", "quiesce_wait", "quiesce_asleep"} = Quiescing \ {"close"}
      /\ "close" \notin Home(t)
  BY DEF UserLabels, Quiescing, Home
<1>6. ASSUME NEW A, NEW L, Moves(t, A, L), A \subseteq N, L \subseteq N \ {"close"} PROVE P
  BY <1>5, <1>6 DEF Moves
<1> HIDE DEF P
<1>7. CASE \/ (\E all \in Kinds : Call(t, all)) \/ CheckRefs(t) \/ Lock(t) \/ AddFirst(t) \/ WakeFirst(t)
           \/ Add(t) \/ WakeSignalled(t) \/ Close(t) \/ Reopen(t) \/ Switch(t)
  <2>1. \/ Moves(t, {"idle"}, {"signal"}) \/ Moves(t, {"signal"}, {"lock"} \cup Home(t))
        \/ Moves(t, {"lock"}, {"quiesce", "add_first", "add"}) \/ Moves(t, {"add_first"}, {"wake_first"})
        \/ Moves(t, {"wake_first"}, {"quiesce"}) \/ Moves(t, {"add"}, {"wake"}) \/ Moves(t, {"wake"}, Home(t))
        \/ Moves(t, {"close"}, {"reopen"}) \/ Moves(t, {"reopen"}, {"switch"})
        \/ Moves(t, {"switch"}, {"add"} \cup Home(t))
    BY <1>7, SignalMoves
  <2>2. \E A, L : Moves(t, A, L) /\ A \subseteq N /\ L \subseteq N \ {"close"}
    BY <1>5, <2>1
  <2>3. QED BY <1>6, <2>2
<1>8. CASE Destroy(t) \/ DestroyWait(t) \/ DestroyLoad(t)
  <2>1. \/ Moves(t, {"idle"}, {"destroy_wait", "destroyed"})
        \/ Moves(t, {"destroy_wait"}, {"destroy_asleep", "destroy_load"})
        \/ Moves(t, {"destroy_load"}, {"destroy_wait", "destroyed"})
    BY <1>8, DestroyMoves
  <2>2. QED BY <1>6, <2>1
<1>9. CASE Quiesce(t)
  <2>1. Moves(t, {"quiesce"}, {"quiesce_refs"} \cup Home(t))
    BY <1>9, SignalMoves
  <2>2. pc[t] \in N /\ pc'[t] \in (N \ {"close"}) \cup {"quiesce_refs"}
    BY <1>5, <2>1 DEF Moves
  <2>3. "quiesce_refs" \notin UserLabels
    BY DEF UserLabels
  <2>4. QED BY <1>5, <1>9, <2>1, <2>2, <2>3 DEF P
<1>10. CASE QuiesceRefs(t) \/ QuiesceRequest(t) \/ QuiesceWait(t)
  <2>1. /\ Keeps(t)
        /\ \/ Moves(t, {"quiesce_refs"}, {"quiesce_request", "close"}) /\ QuiesceRefs(t)
           \/ Moves(t, {"quiesce_request"}, {"quiesce_wait", "quiesce_refs"})
           \/ Moves(t, {"quiesce_wait"}, {"quiesce_asleep", "quiesce_refs"})
    BY <1>10, SignalMoves
  <2>2. pc[t] \in Quiescing /\ pc'[t] \in Quiescing /\ (pc'[t] = "close" => QuiesceRefs(t))
    BY <2>1 DEF Moves, Quiescing
  <2>3. QED BY <1>5, <2>1, <2>2 DEF P
<1>11. QED
  BY <1>7, <1>8, <1>9, <1>10 DEF SignalStep

\* A step of thread t changes nobody else's part in Users.
LEMMA UsersOthers ==
  ASSUME NEW t \in Threads, NEW A, NEW L, Moves(t, A, L), NEW w \in Waiters, w # t, NEW g
  PROVE  w \in Users(g)' <=> w \in Users(g)
BY BystanderHolds, ThreadsAre DEF Users, Keeps

LEMMA UsersSame ==
  ASSUME NEW t \in Threads, NEW A, NEW L, Moves(t, A, L), NEW g,
         \/ pc[t] \in UserLabels /\ pc'[t] \in UserLabels /\ Keeps(t)
         \/ pc[t] \notin UserLabels /\ pc'[t] \notin UserLabels
  PROVE  Users(g)' = Users(g)
<1>1. ASSUME NEW w \in Waiters PROVE w \in Users(g)' <=> w \in Users(g)
  <2>1. CASE w = t
    BY <2>1 DEF Users, Keeps
  <2>2. QED BY <2>1, UsersOthers
<1>2. Users(g) \subseteq Waiters /\ Users(g)' \subseteq Waiters
  BY DEF Users
<1>3. QED BY <1>1, <1>2

LEMMA TakeRefCount ==
  ASSUME Typed, RefsCount, NEW w \in Waiters, TakeRef(w)
  PROVE  RefsCount'
<1>1. w \in Threads /\ Moves(w, {"take_ref"}, {"check_closed"}) /\ Keeps(w)
  BY WaitMoves, ThreadsAre
<1>2. pc[w] \notin UserLabels /\ pc'[w] \in UserLabels
  BY <1>1 DEF Moves, UserLabels
<1>3. ASSUME NEW g \in Groups PROVE g_refs'[g].n = Cardinality(Users(g)')
  <2>1. \A v \in Waiters : v # w => (v \in Users(g)' <=> v \in Users(g))
    BY <1>1, UsersOthers
  <2>2. Users(g) \subseteq Waiters /\ Users(g)' \subseteq Waiters
    BY DEF Users
  <2>3. CASE g = local[w].g
    <3>1. Users(g)' = Users(g) \cup {w} /\ w \notin Users(g)
      <4>1. w \in Users(g)' /\ w \notin Users(g)
        BY <1>1, <1>2, <2>3 DEF Users, Keeps
      <4>2. QED BY <2>1, <2>2, <4>1
    <3>2. Cardinality(Users(g)') = Cardinality(Users(g)) + 1
      BY <3>1, UsersType, FS_AddElement
    <3>3. g_refs'[g].n = g_refs[g].n + 1
      BY <2>3 DEF TakeRef, G, Typed, Shared
    <3>4. QED BY <3>2, <3>3 DEF RefsCount
  <2>4. CASE g # local[w].g
    <3>1. Users(g)' = Users(g)
      <4>1. w \notin Users(g)' /\ w \notin Users(g)
        BY <1>1, <1>2, <2>4 DEF Users, Keeps
      <4>2. QED BY <2>1, <2>2, <4>1
    <3>2. g_refs'[g].n = g_refs[g].n
      BY <2>4 DEF TakeRef, G, Typed, Shared
    <3>3. QED BY <3>1, <3>2 DEF RefsCount
  <2>5. QED BY <2>3, <2>4
<1>4. QED BY <1>3 DEF RefsCount

LEMMA DropRefCount ==
  ASSUME Typed, RefsCount, NEW w \in Waiters, DropRef(w)
  PROVE  RefsCount'
<1>1. w \in Threads /\ Moves(w, {"drop_ref"}, {"clear_request", "load", "confirm", "cancel"}) /\ Keeps(w)
  BY WaitMoves, ThreadsAre
<1>2. pc[w] \in UserLabels /\ pc'[w] \notin UserLabels
  BY <1>1 DEF Moves, UserLabels
<1>3. ASSUME NEW g \in Groups PROVE g_refs'[g].n = Cardinality(Users(g)')
  <2>1. \A v \in Waiters : v # w => (v \in Users(g)' <=> v \in Users(g))
    BY <1>1, UsersOthers
  <2>2. Users(g) \subseteq Waiters /\ Users(g)' \subseteq Waiters
    BY DEF Users
  <2>3. CASE g = local[w].g
    <3>1. Users(g)' = Users(g) \ {w} /\ w \in Users(g)
      <4>1. w \notin Users(g)' /\ w \in Users(g)
        BY <1>1, <1>2, <2>3 DEF Users, Keeps
      <4>2. QED BY <2>1, <2>2, <4>1
    <3>2. Cardinality(Users(g)') = Cardinality(Users(g)) - 1
      BY <3>1, UsersType, FS_RemoveElement
    <3>3. g_refs'[g].n = g_refs[g].n - 1
      BY <2>3 DEF DropRef, G, Typed, Shared
    <3>4. QED BY <3>2, <3>3 DEF RefsCount
  <2>4. CASE g # local[w].g
    <3>1. Users(g)' = Users(g)
      <4>1. w \notin Users(g)' /\ w \notin Users(g)
        BY <1>1, <1>2, <2>4 DEF Users, Keeps
      <4>2. QED BY <2>1, <2>2, <4>1
    <3>2. g_refs'[g].n = g_refs[g].n
      BY <2>4 DEF DropRef, G, Typed, Shared
    <3>3. QED BY <3>1, <3>2 DEF RefsCount
  <2>5. QED BY <2>3, <2>4
<1>4. QED BY <1>3 DEF RefsCount

LEMMA SameCount ==
  ASSUME RefsCount, CountsKept, NEW t \in Threads, NEW A, NEW L, Moves(t, A, L),
         \/ pc[t] \in UserLabels /\ pc'[t] \in UserLabels /\ Keeps(t)
         \/ pc[t] \notin UserLabels /\ pc'[t] \notin UserLabels
  PROVE  RefsCount'
<1>1. ASSUME NEW g \in Groups PROVE g_refs'[g].n = Cardinality(Users(g)')
  <2>1. Users(g)' = Users(g)
    BY UsersSame
  <2>2. QED BY <2>1 DEF RefsCount, CountsKept
<1>2. QED BY <1>1 DEF RefsCount

\* What a thread that does not act keeps.
LEMMA StillClosed ==
  ASSUME Typed, NEW t \in Threads, NEW A, NEW L, Moves(t, A, L), ClosedStay,
         NEW u \in Threads, SeesClosed(u), u # t \/ (pc[u] \in Quiescing /\ Keeps(u))
  PROVE  pc'[u] \in Quiescing => g_signals'[local'[u].g1].closed
<1>1. local[u].g1 \in Groups
  BY LocalFacts
<1>2. pc'[u] \in Quiescing => pc[u] \in Quiescing /\ local'[u].g1 = local[u].g1
  BY BystanderHolds DEF Keeps
<1>3. QED BY <1>1, <1>2 DEF SeesClosed, ClosedStay

LEMMA BystanderSleeps ==
  ASSUME NEW t \in Threads, NEW A, NEW L, Moves(t, A, L), NEW u \in Threads, u # t
  PROVE  /\ pc'[u] \in Sleepy => pc[u] \in Sleepy
         /\ pc'[u] \in Dozing => pc[u] \in Dozing
         /\ pc'[u] = "close" => pc[u] = "close"
         /\ local'[u].seq = local[u].seq /\ local'[u].g = local[u].g /\ local'[u].g1 = local[u].g1
BY DEF Moves, Bystander, Keeps, Sleepy, Dozing

LEMMA WaiterSleepStep ==
  ASSUME Typed, SleepInv, NEW w \in Waiters,
         Wait(w) \/ WaiterStep(w) \/ SpuriousWake(w)
           \/ \E how \in Interrupts \cap {"timed_out", "cancelled"} : GiveUp(w, how)
  PROVE  SleepInv'
<1>1. w \in Threads /\ Moves(w, Calm, Calm) /\ UNCHANGED g1_start
  BY WaiterMoves, ThreadsAre
<1>2. /\ ClosedStay
      /\ TakeRef(w) \/ DropRef(w) \/ CountsKept
      /\ \/ TakeRef(w) \/ DropRef(w)
         \/ pc[w] \in UserLabels /\ pc'[w] \in UserLabels /\ Keeps(w)
         \/ pc[w] \notin UserLabels /\ pc'[w] \notin UserLabels
      /\ pc'[w] \in Sleepy => CheckClosed(w) \/ (pc[w] \in Sleepy /\ Keeps(w))
      /\ pc'[w] \in Dozing => CheckStart(w) \/ (pc[w] \in Dozing /\ Keeps(w))
  BY WaiterSleep
<1>3. RefsCount'
  BY <1>1, <1>2, TakeRefCount, DropRefCount, SameCount DEF SleepInv
<1>4. pc'[w] \notin Quiescing /\ pc'[w] # "close"
  BY <1>1, CalmLabels DEF Moves, Holding, Quiescing
<1>5. CheckClosed(w) => Keeps(w) /\ (pc'[w] \in Sleepy => ~g_signals[local[w].g].closed)
  BY WaitMoves DEF Moves, Sleepy, G
<1>6. ASSUME NEW t \in Threads PROVE SeesClosed(t)'
  <2>1. CASE t = w
    BY <1>4, <2>1 DEF SeesClosed
  <2>2. CASE t # w
    <3>1. SeesClosed(t)
      BY DEF SleepInv
    <3>2. pc'[t] \in Quiescing => g_signals'[local'[t].g1].closed
      BY <1>1, <1>2, <2>2, <3>1, StillClosed
    <3>3. (pc'[t] = "close" => pc[t] = "close") /\ local'[t].g1 = local[t].g1
      BY <1>1, <2>2, BystanderSleeps
    <3>4. ASSUME NEW v \in Waiters, pc'[v] \in Sleepy, pc'[t] = "close" PROVE local'[v].g # local'[t].g1
      <4>1. pc[t] = "close" /\ g_signals[local[t].g1].closed
        BY <3>1, <3>3, <3>4 DEF SeesClosed, Quiescing
      <4>2. CASE v = w /\ CheckClosed(w)
        BY <1>5, <3>3, <3>4, <4>1, <4>2 DEF Keeps
      <4>3. CASE v = w /\ ~CheckClosed(w)
        BY <1>2, <3>1, <3>3, <3>4, <4>1, <4>3 DEF SeesClosed, Keeps
      <4>4. CASE v # w
        BY <1>1, <3>1, <3>3, <3>4, <4>1, <4>4, BystanderSleeps, ThreadsAre DEF SeesClosed
      <4>5. QED BY <4>2, <4>3, <4>4
    <3>5. QED BY <3>2, <3>4 DEF SeesClosed
  <2>3. QED BY <2>1, <2>2
<1>7. CheckStart(w) => Keeps(w) /\ (pc'[w] \in Dozing => local[w].seq >= g1_start.pos)
  BY WaitMoves DEF Moves, Dozing
<1>8. ASSUME NEW v \in Waiters PROVE Current(v)'
  <2>1. CASE v = w
    BY <1>1, <1>2, <1>7, <2>1 DEF SleepInv, Current, Keeps
  <2>2. CASE v # w
    BY <1>1, <2>2, BystanderSleeps, ThreadsAre DEF SleepInv, Current
  <2>3. QED BY <2>1, <2>2
<1>9. QED BY <1>3, <1>6, <1>8 DEF SleepInv

LEMMA SignalSleepStep ==
  ASSUME Typed, Mutex, SizeInv, SleepInv, NEW t \in Threads, SignalStep(t) \/ \E all \in Kinds : Call(t, all)
  PROVE  SleepInv'
<1>1. /\ CountsKept
      /\ Reopen(t) \/ ClosedStay
      /\ Close(t) \/ UNCHANGED g1_start
      /\ pc[t] \notin UserLabels /\ pc'[t] \notin UserLabels
      /\ pc'[t] \in Quiescing => Quiesce(t) \/ (pc[t] \in Quiescing /\ Keeps(t))
      /\ pc'[t] = "close" => QuiesceRefs(t)
  BY SignalSleep
<1>2. PICK A, L : Moves(t, A, L)
  BY SignalSleep
<1>3. RefsCount'
  BY <1>1, <1>2, SameCount DEF SleepInv
<1>4. pc'[t] \notin Sleepy /\ pc'[t] \notin Dozing
  BY <1>1 DEF UserLabels, Sleepy, Dozing
<1>5. \A v \in Waiters : pc'[v] \in Sleepy => pc[v] \in Sleepy /\ local'[v].g = local[v].g
  BY <1>2, <1>4, BystanderSleeps, ThreadsAre
<1>6. ASSUME NEW u \in Threads, u # t PROVE SeesClosed(u)'
  <2>1. SeesClosed(u)
    BY DEF SleepInv
  <2>2. CASE Reopen(t)
    <3>1. pc[t] \in Holding
      BY <2>2 DEF Reopen, Holding, Shifting
    <3>2. pc'[u] \notin Holding
      BY <1>2, <1>6, <3>1, Alone
    <3>3. QED BY <3>2 DEF SeesClosed, Holding, Quiescing
  <2>3. CASE ClosedStay
    <3>1. pc'[u] \in Quiescing => g_signals'[local'[u].g1].closed
      BY <1>2, <1>6, <2>1, <2>3, StillClosed
    <3>2. (pc'[u] = "close" => pc[u] = "close") /\ local'[u].g1 = local[u].g1
      BY <1>2, <1>6, BystanderSleeps
    <3>3. QED BY <1>5, <2>1, <3>1, <3>2 DEF SeesClosed
  <2>4. QED BY <1>1, <2>2, <2>3
<1>7. SeesClosed(t)'
  <2>1. pc'[t] \in Quiescing => g_signals'[local'[t].g1].closed
    <3>1. CASE Reopen(t)
      <4>1. pc'[t] = "switch"
        BY <3>1, SignalMoves DEF Moves
      <4>2. QED BY <4>1 DEF Quiescing
    <3>2. CASE Quiesce(t)
      <4>1. SUFFICES ASSUME pc'[t] \in Quiescing PROVE g_signals'[local'[t].g1].closed
        OBVIOUS
      <4>2. pc'[t] \notin Home(t)
        BY <4>1 DEF Home, Quiescing
      <4>3. pc'[t] = "quiesce_refs"
        BY <3>2, <4>2, SignalMoves DEF Moves
      <4>4. Keeps(t) /\ g_signals' = [g_signals EXCEPT ![G1(t)].closed = TRUE]
        BY <3>2, <4>2, <4>3, SignalMoves, GoesHome DEF Quiesce
      <4>5. local[t].g1 \in Groups /\ g_signals \in [Groups -> [n : Int, closed : BOOLEAN]]
        BY LocalFacts DEF Typed, Shared
      <4>6. g_signals'[local[t].g1].closed = TRUE
        BY <4>4, <4>5 DEF G1
      <4>7. QED BY <4>4, <4>6, Zenon DEF Keeps
    <3>3. CASE ~Reopen(t) /\ ~Quiesce(t)
      <4>1. CASE pc'[t] \in Quiescing
        <5>1. SeesClosed(t) /\ ClosedStay /\ pc[t] \in Quiescing /\ Keeps(t)
          BY <1>1, <3>3, <4>1 DEF SleepInv
        <5>2. QED BY <1>2, <5>1, StillClosed
      <4>2. QED BY <4>1
    <3>4. QED BY <3>1, <3>2, <3>3
  <2>2. ASSUME pc'[t] = "close", NEW v \in Waiters, pc'[v] \in Sleepy
        PROVE  local'[v].g # local'[t].g1
    <3>1. Keeps(t) /\ ~(g_refs[local[t].g1].n > 0) /\ local[t].g1 \in Groups
      BY <1>1, <2>2, SignalMoves, LocalFacts DEF G1
    <3>2. Cardinality(Users(local[t].g1)) = 0
      BY <3>1, UsersType DEF SleepInv, RefsCount
    <3>3. Users(local[t].g1) = {}
      BY <3>2, UsersType, FS_EmptySet
    <3>4. pc[v] \in UserLabels
      BY <1>5, <2>2 DEF Sleepy, UserLabels
    <3>5. local[v].g # local[t].g1
      BY <3>3, <3>4 DEF Users
    <3>6. QED BY <1>5, <2>2, <3>1, <3>5 DEF Keeps
  <2>3. QED BY <2>1, <2>2 DEF SeesClosed
<1>8. ASSUME NEW v \in Waiters PROVE Current(v)'
  <2>1. SUFFICES ASSUME pc'[v] \in Dozing PROVE local'[v].seq >= g1_start'.pos
    BY DEF Current
  <2>2. v \in Threads /\ v # t
    BY <1>4, <2>1, ThreadsAre
  <2>3. pc[v] \in Dozing /\ local'[v].seq = local[v].seq
    BY <1>2, <2>1, <2>2, BystanderSleeps
  <2>4. local[v].seq >= g1_start.pos /\ local[v].seq \in Nat /\ local[v].g \in Groups
    BY <2>2, <2>3, LocalFacts DEF SleepInv, Current
  <2>5. CASE UNCHANGED g1_start
    BY <2>3, <2>4, <2>5
  <2>6. CASE Close(t)
    <3>1. pc[t] = "close" /\ g1_start'.pos = g1_start.pos + orig_size
      BY <2>6 DEF Close
    <3>2. pc[t] \in Holding /\ pc[t] \notin Shifting
      BY <3>1 DEF Holding, Quiescing, Shifting
    <3>3. ~Shift
      BY <1>2, <3>2, Alone DEF Shift
    <3>4. g1_start'.pos = Frontier
      BY <3>1, <3>3 DEF Frontier
    <3>5. local[t].g1 = 1 - wseq.g2
      BY <3>2 DEF SizeInv, Roles, HolderSees
    <3>6. local[v].g # 1 - wseq.g2
      BY <2>3, <3>1, <3>5 DEF SleepInv, SeesClosed, Sleepy, Dozing
    <3>7. pc[v] \in Unsettled
      BY <2>3 DEF Dozing, Unsettled, UserLabels
    <3>8. Placed(v)
      BY DEF SizeInv
    <3>9. QED BY <2>3, <2>4, <3>4, <3>6, <3>7, <3>8, GroupFacts DEF Placed
  <2>7. QED BY <1>1, <2>5, <2>6
<1>9. QED BY <1>3, <1>6, <1>7, <1>8 DEF SleepInv

LEMMA SleepStep ==
  ASSUME Typed, Mutex, SizeInv, SleepInv, [Next]_vars
  PROVE  SleepInv'
<1>1. CASE UNCHANGED vars
  <2>1. UNCHANGED <<pc, local, g1_start, g_refs, g_signals>>
    BY <1>1 DEF vars, condvar
  <2>2. QED BY <2>1 DEF SleepInv, RefsCount, Users, SeesClosed, Current
<1>2. QED BY <1>1, WaiterSleepStep, SignalSleepStep DEF Next

\* A group's reference count keeps its slot from being reused for new waiters while a thread
\* may still go to sleep on its futex: whoever sleeps is at or behind __g1_start, so that the
\* signals still to come are for its group.
THEOREM NoStaleSleep == Spec => []SleepersAreCurrent
<1>1. Init => SleepInv
  BY Init_Sleep
<1>2. Typed /\ Mutex /\ SizeInv /\ SleepInv /\ [Next]_vars => SleepInv'
  BY SleepStep
<1>3. SleepInv => SleepersAreCurrent
  BY DEF SleepInv, Current, Dozing, SleepersAreCurrent
<1>4. QED BY <1>1, <1>2, <1>3, SizeInvariance, PTL DEF Spec

-----------------------------------------------------------------------------
(* What the actions do to the local variables. *)

\* The thread that acts is the only one that changes.
Only(t) == \A u \in Threads : u # t => pc'[u] = pc[u] /\ local'[u] = local[u]

\* The fields that place a thread are the same.
Places(x, y) ==
  x.seq = y.seq /\ x.g = y.g /\ x.g1 = y.g1 /\ x.all = y.all /\ x.start = y.start

\* The acting thread keeps its place.
Alike(t) == Places(local'[t], local[t])

\* The acting thread keeps nothing but its group and how it gave up.
Reduced(t) ==
  /\ local'[t].g = local[t].g /\ local'[t].ended = local[t].ended /\ ~local'[t].all
  /\ local'[t].seq = 0 /\ local'[t].to = ""

\* A thread that does not act is woken at most.
Stays(u) ==
  \/ pc'[u] = pc[u] /\ local'[u] = local[u]
  \/ pc[u] = "asleep" /\ pc'[u] = "drop_ref" /\ local'[u] = [local[u] EXCEPT !.to = "load"]
  \/ pc[u] = "quiesce_asleep" /\ pc'[u] = "quiesce_refs" /\ local'[u] = local[u]
  \/ pc[u] = "destroy_asleep" /\ pc'[u] = "destroy_load" /\ local'[u] = local[u]

LEMMA GoAt ==
  ASSUME Typed, NEW t \in Threads, NEW l, NEW x, Go(t, l, x)
  PROVE  pc'[t] = l /\ local'[t] = x /\ Only(t)
BY DEF Go, Only, Typed, Own

LEMMA GotoAt ==
  ASSUME Typed, NEW t \in Threads, NEW l, Goto(t, l)
  PROVE  pc'[t] = l /\ local'[t] = local[t] /\ local' = local /\ Alike(t) /\ Only(t)
BY DEF Goto, Only, Alike, Places, Typed, Own

LEMMA KeptFields ==
  ASSUME Typed, NEW t \in Threads
  PROVE  /\ Kept(t).g = local[t].g /\ Kept(t).ended = local[t].ended /\ ~Kept(t).all
         /\ Kept(t).seq = 0 /\ Kept(t).to = ""
BY DEF Kept, NoLocals

LEMMA GoBackAt ==
  ASSUME Typed, NEW t \in Threads, NEW l, GoBack(t, l)
  PROVE  pc'[t] = l /\ Reduced(t) /\ Only(t)
BY GoAt, KeptFields DEF GoBack, Reduced

\* The values behind the edits.
LEMMA Fields ==
  ASSUME Typed, NEW t \in Threads, NEW v
  PROVE  /\ Places(SetTo(t, v), local[t]) /\ SetTo(t, v).to = v /\ SetTo(t, v).ended = local[t].ended
         /\ Places(SetEnded(t, v), local[t]) /\ SetEnded(t, v).ended = v
         /\ Places(SetSignals(t, v), local[t])
         /\ SetSignals(t, v).signals = v /\ SetSignals(t, v).ended = local[t].ended
         /\ Places(SetCount(t, v), local[t])
         /\ SetCount(t, v).count = v /\ SetCount(t, v).ended = local[t].ended
         /\ Places(SetGaveUp(t, v), local[t])
         /\ SetGaveUp(t, v).to = "cancel" /\ SetGaveUp(t, v).ended = v
<1>1. local[t] \in Locals
  BY DEF Typed, Own
<1>2. Places(SetTo(t, v), local[t]) /\ SetTo(t, v).to = v /\ SetTo(t, v).ended = local[t].ended
  BY <1>1 DEF Locals, SetTo, Places
<1>3. Places(SetEnded(t, v), local[t]) /\ SetEnded(t, v).ended = v
  BY <1>1 DEF Locals, SetEnded, Places
<1>4. /\ Places(SetSignals(t, v), local[t])
      /\ SetSignals(t, v).signals = v /\ SetSignals(t, v).ended = local[t].ended
  BY <1>1 DEF Locals, SetSignals, Places
<1>5. Places(SetCount(t, v), local[t]) /\ SetCount(t, v).count = v /\ SetCount(t, v).ended = local[t].ended
  BY <1>1 DEF Locals, SetCount, Places
<1>6. Places(SetGaveUp(t, v), local[t]) /\ SetGaveUp(t, v).to = "cancel" /\ SetGaveUp(t, v).ended = v
  BY <1>1 DEF Locals, SetGaveUp, Places
<1>7. QED BY <1>2, <1>3, <1>4, <1>5, <1>6

LEMMA SetToKeeps ==
  ASSUME Typed, NEW t \in Threads, NEW v, local'[t] = SetTo(t, v)
  PROVE  Alike(t) /\ local'[t].ended = local[t].ended /\ local'[t].to = v
BY Fields DEF Alike

\* A sleeper that is woken.
LEMMA WokenFields ==
  ASSUME Typed, NEW u \in Threads, local'[u] = [local[u] EXCEPT !.to = "load"]
  PROVE  Alike(u) /\ local'[u].ended = local[u].ended /\ local'[u].to = "load"
<1>1. local'[u] = SetTo(u, "load")
  BY DEF SetTo
<1>2. QED BY <1>1, Fields DEF Alike

LEMMA WakeAt ==
  ASSUME Typed, NEW t \in Threads, NEW l, NEW s \in SUBSET Waiters, Wake(t, l, s), t \notin s,
         \A u \in s : pc[u] = "asleep"
  PROVE  /\ pc'[t] = l /\ (l # "quiesce" => Reduced(t)) /\ (l = "quiesce" => local'[t] = local[t])
         /\ \A u \in Threads : u # t =>
              /\ u \notin s => pc'[u] = pc[u] /\ local'[u] = local[u]
              /\ u \in s => pc'[u] = "drop_ref" /\ local'[u] = [local[u] EXCEPT !.to = "load"]
         /\ \A u \in Threads : u # t => Stays(u)
<1>1. pc'[t] = l /\ (l # "quiesce" => local'[t] = Kept(t)) /\ (l = "quiesce" => local'[t] = local[t])
  BY DEF Wake
<1>2. ASSUME NEW u \in Threads, u # t
      PROVE  /\ u \notin s => pc'[u] = pc[u] /\ local'[u] = local[u]
             /\ u \in s => pc'[u] = "drop_ref" /\ local'[u] = [local[u] EXCEPT !.to = "load"]
  BY <1>2 DEF Wake
<1>3. ASSUME NEW u \in Threads, u # t PROVE Stays(u)
  BY <1>2, <1>3 DEF Stays
<1>4. l # "quiesce" => Reduced(t)
  BY <1>1, KeptFields DEF Reduced
<1>5. QED BY <1>1, <1>2, <1>3, <1>4

\* The actions of a waiter before it is settled.
LEMMA WaitDoes ==
  ASSUME Typed, NEW w \in Waiters, Wait(w)
  PROVE  /\ Only(w) /\ pc[w] = "idle" /\ pc'[w] = "register"
         /\ local'[w].seq = wseq.pos /\ local'[w].g = wseq.g2 /\ local'[w].ended = "" /\ ~local'[w].all
<1> DEFINE x == [NoLocals EXCEPT !.seq = wseq.pos, !.g = wseq.g2]
<1>1. x.seq = wseq.pos /\ x.g = wseq.g2 /\ x.ended = "" /\ ~x.all
  BY DEF NoLocals
<1>2. Go(w, "register", x) /\ pc[w] = "idle"
  BY DEF Wait
<1> HIDE DEF x
<1>3. QED BY <1>1, <1>2, GoAt, ThreadsAre

LEMMA RegisterDoes ==
  ASSUME Typed, NEW w \in Waiters, Register(w)
  PROVE  /\ Only(w) /\ Alike(w) /\ pc[w] = "register"
         /\ \/ pc'[w] = "load" /\ local'[w].ended = local[w].ended
            \/ pc'[w] = "cancel" /\ local'[w].ended = "not_unlocked"
<1>1. pc[w] = "register" /\ (Goto(w, "load") \/ Go(w, "cancel", SetEnded(w, "not_unlocked")))
  BY DEF Register, SetEnded
<1>2. QED BY <1>1, GoAt, GotoAt, Fields, ThreadsAre DEF Alike

LEMMA ConsiderDoes ==
  ASSUME Typed, NEW w \in Waiters, Consider(w)
  PROVE  /\ Only(w)
         /\ \/ pc'[w] = "confirm" /\ g_signals[G(w)].closed /\ Reduced(w)
            \/ /\ pc'[w] = "grab" /\ g_signals[G(w)].n > 0 /\ Alike(w) /\ local'[w].ended = local[w].ended
               /\ local'[w].signals = g_signals[G(w)].n
            \/ /\ pc'[w] = "take_ref" /\ Alike(w) /\ local'[w].ended = local[w].ended
               /\ ~g_signals[G(w)].closed /\ ~(g_signals[G(w)].n > 0)
<1>1. \/ g_signals[G(w)].closed /\ GoBack(w, "confirm")
      \/ g_signals[G(w)].n > 0 /\ Go(w, "grab", SetSignals(w, g_signals[G(w)].n))
      \/ /\ ~g_signals[G(w)].closed /\ ~(g_signals[G(w)].n > 0)
         /\ Go(w, "take_ref", SetSignals(w, g_signals[G(w)].n))
  BY DEF Consider, SetSignals
<1>2. QED BY <1>1, GoAt, GoBackAt, Fields, ThreadsAre DEF Alike

LEMMA TakeRefDoes ==
  ASSUME Typed, NEW w \in Waiters, TakeRef(w)
  PROVE  /\ Only(w) /\ Alike(w) /\ pc[w] = "take_ref" /\ pc'[w] = "check_closed"
         /\ local'[w].ended = local[w].ended
BY GotoAt, ThreadsAre DEF TakeRef

LEMMA CheckClosedDoes ==
  ASSUME Typed, NEW w \in Waiters, CheckClosed(w)
  PROVE  /\ Only(w) /\ Alike(w) /\ pc[w] = "check_closed" /\ local'[w].ended = local[w].ended
         /\ \/ pc'[w] = "drop_ref" /\ local'[w].to = "confirm" /\ g_signals[G(w)].closed
            \/ pc'[w] = "check_start"
<1>1. /\ pc[w] = "check_closed"
      /\ \/ g_signals[G(w)].closed /\ Go(w, "drop_ref", SetTo(w, "confirm"))
         \/ Goto(w, "check_start")
  BY DEF CheckClosed, SetTo
<1>2. QED BY <1>1, GoAt, GotoAt, Fields, ThreadsAre DEF Alike

LEMMA CheckStartDoes ==
  ASSUME Typed, NEW w \in Waiters, CheckStart(w)
  PROVE  /\ Only(w) /\ Alike(w) /\ pc[w] = "check_start" /\ local'[w].ended = local[w].ended
         /\ \/ pc'[w] = "drop_ref" /\ local'[w].to = "confirm" /\ local[w].seq < g1_start.pos
            \/ pc'[w] = "futex_wait"
<1>1. /\ pc[w] = "check_start"
      /\ \/ local[w].seq < g1_start.pos /\ Go(w, "drop_ref", SetTo(w, "confirm"))
         \/ Goto(w, "futex_wait")
  BY DEF CheckStart, SetTo
<1>2. QED BY <1>1, GoAt, GotoAt, Fields, ThreadsAre DEF Alike

LEMMA FutexWaitDoes ==
  ASSUME Typed, NEW w \in Waiters, FutexWait(w)
  PROVE  /\ Only(w) /\ Alike(w) /\ pc[w] = "futex_wait" /\ local'[w].ended = local[w].ended
         /\ \/ pc'[w] = "asleep" /\ g_signals[G(w)].n = 0 /\ ~g_signals[G(w)].closed
            \/ pc'[w] = "drop_ref" /\ local'[w].to = "load"
<1>1. /\ pc[w] = "futex_wait"
      /\ \/ g_signals[G(w)] = [n |-> 0, closed |-> FALSE] /\ Goto(w, "asleep")
         \/ Go(w, "drop_ref", SetTo(w, "load"))
  BY DEF FutexWait, SetTo
<1>2. g_signals[G(w)] = [n |-> 0, closed |-> FALSE] => g_signals[G(w)].n = 0 /\ ~g_signals[G(w)].closed
  OBVIOUS
<1>3. QED BY <1>1, <1>2, GoAt, GotoAt, Fields, ThreadsAre DEF Alike

LEMMA SpuriousWakeDoes ==
  ASSUME Typed, NEW w \in Waiters, SpuriousWake(w)
  PROVE  /\ Only(w) /\ Alike(w) /\ pc[w] = "asleep" /\ pc'[w] = "drop_ref" /\ local'[w].to = "load"
         /\ local'[w].ended = local[w].ended
<1>1. pc[w] = "asleep" /\ Go(w, "drop_ref", SetTo(w, "load"))
  BY DEF SpuriousWake, SetTo
<1>2. QED BY <1>1, GoAt, Fields, ThreadsAre DEF Alike

LEMMA GiveUpDoes ==
  ASSUME Typed, NEW w \in Waiters, NEW how \in {"timed_out", "cancelled"}, GiveUp(w, how)
  PROVE  /\ Only(w) /\ Alike(w) /\ pc'[w] = "drop_ref" /\ local'[w].to = "cancel" /\ local'[w].ended = how
         /\ \/ pc[w] \in {"futex_wait", "asleep"}
            \/ how = "cancelled" /\ pc[w] = "drop_ref" /\ local[w].to = "load"
<1>1. /\ Go(w, "drop_ref", SetGaveUp(w, how))
      /\ \/ pc[w] \in {"futex_wait", "asleep"}
         \/ how = "cancelled" /\ pc[w] = "drop_ref" /\ local[w].to = "load"
  BY DEF GiveUp, SetGaveUp
<1>2. QED BY <1>1, GoAt, Fields, ThreadsAre DEF Alike

\* Where a thread goes on when it has dropped its reference.
Aims(w) == local[w].to \in {"load", "confirm", "cancel"}

LEMMA DropRefDoes ==
  ASSUME Typed, NEW w \in Waiters, DropRef(w)
  PROVE  /\ Only(w) /\ Alike(w) /\ pc[w] = "drop_ref" /\ Aims(w) /\ local'[w].ended = local[w].ended
         /\ \/ pc'[w] = "clear_request" /\ local'[w].to = local[w].to /\ g_refs[G(w)] = [n |-> 1, wake |-> TRUE]
            \/ pc'[w] = local[w].to /\ g_refs[G(w)] # [n |-> 1, wake |-> TRUE]
<1>1. w \in Threads
  BY ThreadsAre
<1>2. pc[w] = "drop_ref" /\ Aims(w)
  BY <1>1 DEF DropRef, Aims, Typed, Own, Locals
<1>3. \/ g_refs[G(w)] = [n |-> 1, wake |-> TRUE] /\ Goto(w, "clear_request")
      \/ g_refs[G(w)] # [n |-> 1, wake |-> TRUE] /\ Go(w, local[w].to, SetTo(w, ""))
  BY DEF DropRef, SetTo
<1>4. CASE g_refs[G(w)] = [n |-> 1, wake |-> TRUE] /\ Goto(w, "clear_request")
  <2>1. pc'[w] = "clear_request" /\ local'[w] = local[w] /\ Alike(w) /\ Only(w)
    BY <1>1, <1>4, GotoAt
  <2>2. local'[w].to = local[w].to /\ local'[w].ended = local[w].ended
    BY <2>1
  <2>3. QED BY <1>2, <1>4, <2>1, <2>2, Zenon
<1>5. CASE g_refs[G(w)] # [n |-> 1, wake |-> TRUE] /\ Go(w, local[w].to, SetTo(w, ""))
  <2>1. pc'[w] = local[w].to /\ local'[w] = SetTo(w, "") /\ Only(w)
    BY <1>1, <1>5, GoAt
  <2>2. Alike(w) /\ local'[w].ended = local[w].ended
    BY <1>1, <2>1, SetToKeeps
  <2>3. QED BY <1>2, <1>5, <2>1, <2>2, Zenon
<1>6. QED BY <1>3, <1>4, <1>5, Zenon

LEMMA ClearRequestDoes ==
  ASSUME Typed, NEW w \in Waiters, ClearRequest(w)
  PROVE  /\ Only(w) /\ Alike(w) /\ pc[w] = "clear_request" /\ pc'[w] = "wake_refs"
         /\ local'[w].ended = local[w].ended /\ local'[w].to = local[w].to
BY GotoAt, ThreadsAre DEF ClearRequest

LEMMA WakeRefsDoes ==
  ASSUME Typed, NEW w \in Waiters, WakeRefs(w)
  PROVE  /\ Alike(w) /\ pc[w] = "wake_refs" /\ pc'[w] = local[w].to /\ Aims(w)
         /\ local'[w].ended = local[w].ended
         /\ \A u \in Threads : u # w =>
              /\ local'[u] = local[u]
              /\ pc'[u] = IF pc[u] = "quiesce_asleep" /\ local[u].g1 = local[w].g THEN "quiesce_refs" ELSE pc[u]
<1>1. w \in Threads /\ local \in [Threads -> Locals]
  BY ThreadsAre DEF Typed, Own
<1>2. pc[w] = "wake_refs" /\ pc'[w] = local[w].to
  BY <1>1 DEF WakeRefs
<1>3. Aims(w)
  BY <1>1, <1>2 DEF Aims, Typed, Own, Locals
<1>4. local'[w] = SetTo(w, "") /\ \A u \in Threads : u # w => local'[u] = local[u]
  BY <1>1 DEF WakeRefs, SetTo
<1>5. ASSUME NEW u \in Threads, u # w
      PROVE  pc'[u] = IF pc[u] = "quiesce_asleep" /\ local[u].g1 = local[w].g THEN "quiesce_refs" ELSE pc[u]
  BY <1>5 DEF WakeRefs, G, G1
<1>6. Alike(w) /\ local'[w].ended = local[w].ended
  BY <1>1, <1>4, SetToKeeps
<1>7. QED BY <1>2, <1>3, <1>4, <1>5, <1>6

LEMMA GrabDoes ==
  ASSUME Typed, NEW w \in Waiters, Grab(w)
  PROVE  /\ Only(w) /\ pc[w] = "grab"
         /\ \/ /\ pc'[w] = "check_steal" /\ Alike(w) /\ local'[w].ended = local[w].ended
               /\ g_signals[G(w)].n = local[w].signals /\ ~g_signals[G(w)].closed
               /\ g_signals' = [g_signals EXCEPT ![G(w)].n = @ - 1]
            \/ Consider(w) /\ UNCHANGED g_signals
<1>1. pc[w] = "grab"
  BY DEF Grab
<1>2. CASE Consider(w) /\ UNCHANGED g_signals
  BY <1>1, <1>2, ConsiderDoes
<1>3. CASE /\ g_signals[G(w)] = [n |-> local[w].signals, closed |-> FALSE]
           /\ g_signals' = [g_signals EXCEPT ![G(w)].n = @ - 1]
           /\ Go(w, "check_steal", SetSignals(w, 0))
  <2>1. pc'[w] = "check_steal" /\ local'[w] = SetSignals(w, 0) /\ Only(w)
    BY <1>3, GoAt, ThreadsAre
  <2>2. g_signals[G(w)].n = local[w].signals /\ ~g_signals[G(w)].closed
    BY <1>3
  <2>3. Alike(w) /\ local'[w].ended = local[w].ended
    BY <2>1, Fields, ThreadsAre DEF Alike
  <2>4. QED BY <1>1, <1>3, <2>1, <2>2, <2>3
<1>4. QED BY <1>2, <1>3 DEF Grab, SetSignals

LEMMA CancelDoes ==
  ASSUME Typed, NEW w \in Waiters, Cancel(w)
  PROVE  /\ Only(w) /\ pc[w] = "cancel" /\ ~lock
         /\ \/ /\ pc'[w] = "signal" /\ local'[w] = local[w] /\ UNCHANGED g_size
               /\ \/ local[w].seq < g1_start.pos
                  \/ local[w].seq < g1_start.pos + orig_size /\ g_size[local[w].g] = 0
            \/ /\ pc'[w] = "signal" /\ local'[w].all /\ UNCHANGED g_size
               /\ local[w].seq >= g1_start.pos /\ local[w].seq >= g1_start.pos + orig_size
               /\ local'[w].g = local[w].g /\ local'[w].ended = local[w].ended
            \/ /\ pc'[w] = Gone(w) /\ Reduced(w) /\ g_size' = [g_size EXCEPT ![local[w].g] = @ - 1]
               /\ local[w].seq >= g1_start.pos
               /\ local[w].seq >= g1_start.pos + orig_size \/ g_size[local[w].g] # 0
<1>1. w \in Threads /\ local[w] \in Locals
  BY ThreadsAre DEF Typed, Own
<1>2. g1_start.pos \in Int /\ orig_size \in Int /\ local[w].seq \in Nat
  BY <1>1 DEF Typed, Shared, Locals
<1>3. pc[w] = "cancel" /\ ~lock
  BY DEF Cancel
<1> DEFINE inG2     == g1_start.pos <= local[w].seq /\ g1_start.pos + orig_size <= local[w].seq
           consumed == g1_start.pos > local[w].seq \/ (~inG2 /\ g_size[G(w)] = 0)
           overflow == inG2 /\ g_size[G(w)] + MAX_GROUP_SIZE = 0
<1>4. \/ consumed /\ Goto(w, "signal") /\ UNCHANGED g_size
      \/ overflow /\ Go(w, "signal", [local[w] EXCEPT !.all = TRUE]) /\ UNCHANGED g_size
      \/ ~consumed /\ ~overflow /\ GoBack(w, Gone(w)) /\ g_size' = [g_size EXCEPT ![G(w)] = @ - 1]
  BY DEF Cancel
<1>5. CASE consumed /\ Goto(w, "signal") /\ UNCHANGED g_size
  <2>1. pc'[w] = "signal" /\ local'[w] = local[w] /\ Only(w)
    BY <1>1, <1>5, GotoAt
  <2>2. \/ local[w].seq < g1_start.pos
        \/ local[w].seq < g1_start.pos + orig_size /\ g_size[local[w].g] = 0
    BY <1>2, <1>5 DEF G
  <2>3. QED BY <1>3, <1>5, <2>1, <2>2
<1>6. CASE overflow /\ Go(w, "signal", [local[w] EXCEPT !.all = TRUE]) /\ UNCHANGED g_size
  <2> DEFINE x == [local[w] EXCEPT !.all = TRUE]
  <2>1. x.all /\ x.g = local[w].g /\ x.ended = local[w].ended
    BY <1>1 DEF Locals
  <2>2. Go(w, "signal", x)
    BY <1>6
  <2> HIDE DEF x
  <2>3. pc'[w] = "signal" /\ local'[w] = x /\ Only(w)
    BY <1>1, <2>2, GoAt
  <2>4. local[w].seq >= g1_start.pos /\ local[w].seq >= g1_start.pos + orig_size
    BY <1>2, <1>6
  <2>5. QED BY <1>3, <1>6, <2>1, <2>3, <2>4
<1>7. CASE ~consumed /\ ~overflow /\ GoBack(w, Gone(w)) /\ g_size' = [g_size EXCEPT ![G(w)] = @ - 1]
  <2>1. pc'[w] = Gone(w) /\ Reduced(w) /\ Only(w)
    BY <1>1, <1>7, GoBackAt
  <2>2. local[w].seq >= g1_start.pos /\ (local[w].seq >= g1_start.pos + orig_size \/ g_size[local[w].g] # 0)
    BY <1>2, <1>7 DEF G
  <2>3. g_size' = [g_size EXCEPT ![local[w].g] = @ - 1]
    BY <1>7 DEF G
  <2>4. QED BY <1>3, <2>1, <2>2, <2>3
<1>8. QED BY <1>4, <1>5, <1>6, <1>7

\* The actions of a waiter past its last sleep.
LEMMA CheckStealDoes ==
  ASSUME Typed, NEW w \in Waiters, CheckSteal(w)
  PROVE  /\ Only(w) /\ pc[w] = "check_steal"
         /\ \/ /\ pc'[w] = "undo_load" /\ local[w].seq < g1_start.pos /\ 1 - g1_start.g2 = local[w].g
               /\ local'[w].g = local[w].g /\ local'[w].start = g1_start /\ local'[w].ended = local[w].ended
            \/ /\ pc'[w] = "confirm" /\ Reduced(w)
               /\ ~(local[w].seq < g1_start.pos /\ 1 - g1_start.g2 = local[w].g)
<1>1. w \in Threads /\ local[w] \in Locals
  BY ThreadsAre DEF Typed, Own
<1> DEFINE x == [local[w] EXCEPT !.start = g1_start]
           c == local[w].seq < g1_start.pos /\ 1 - g1_start.g2 = local[w].g
<1>2. x.g = local[w].g /\ x.start = g1_start /\ x.ended = local[w].ended
  BY <1>1 DEF Locals
<1>3. pc[w] = "check_steal" /\ ((c /\ Go(w, "undo_load", x)) \/ (~c /\ GoBack(w, "confirm")))
  BY DEF CheckSteal, G
<1> HIDE DEF x
<1>4. QED BY <1>1, <1>2, <1>3, GoAt, GoBackAt

\* The thread looks at the signals of its group.
Looks(w) ==
  /\ pc'[w] = "undo_check"
  /\ local'[w].g = local[w].g /\ local'[w].start = local[w].start /\ local'[w].ended = local[w].ended
  /\ local'[w].closed = g_signals[local[w].g].closed

LEMMA LookDoes ==
  ASSUME Typed, NEW w \in Waiters,
         Go(w, "undo_check", [local[w] EXCEPT !.signals = g_signals[G(w)].n, !.closed = g_signals[G(w)].closed])
  PROVE  Looks(w) /\ Only(w)
<1>1. w \in Threads /\ local[w] \in Locals
  BY ThreadsAre DEF Typed, Own
<1> DEFINE x == [local[w] EXCEPT !.signals = g_signals[G(w)].n, !.closed = g_signals[G(w)].closed]
<1>2. /\ x.g = local[w].g /\ x.start = local[w].start /\ x.ended = local[w].ended
      /\ x.closed = g_signals[local[w].g].closed
  BY <1>1 DEF Locals, G
<1>3. Go(w, "undo_check", x)
  OBVIOUS
<1> HIDE DEF x
<1>4. QED BY <1>1, <1>2, <1>3, GoAt DEF Looks

LEMMA UndoLoadDoes ==
  ASSUME Typed, NEW w \in Waiters, UndoLoad(w)
  PROVE  Only(w) /\ pc[w] = "undo_load" /\ Looks(w)
BY LookDoes DEF UndoLoad

LEMMA UndoCheckDoes ==
  ASSUME Typed, NEW w \in Waiters, UndoCheck(w)
  PROVE  /\ Only(w) /\ pc[w] = "undo_check"
         /\ \/ pc'[w] = "confirm" /\ Reduced(w) /\ local[w].start # g1_start
            \/ pc'[w] = "undo_wake" /\ Reduced(w) /\ local[w].start = g1_start /\ local[w].closed
            \/ pc'[w] = "undo_cas" /\ local'[w] = local[w] /\ local[w].start = g1_start
<1>1. /\ pc[w] = "undo_check"
      /\ \/ GoBack(w, "confirm") /\ local[w].start # g1_start
         \/ GoBack(w, "undo_wake") /\ local[w].start = g1_start /\ local[w].closed
         \/ Goto(w, "undo_cas") /\ local[w].start = g1_start
  BY DEF UndoCheck
<1>2. QED BY <1>1, GoBackAt, GotoAt, ThreadsAre

LEMMA UndoCasDoes ==
  ASSUME Typed, NEW w \in Waiters, UndoCas(w)
  PROVE  /\ Only(w) /\ pc[w] = "undo_cas"
         /\ \/ /\ pc'[w] = "undo_wake" /\ Reduced(w) /\ undone'
               /\ ~g_signals[local[w].g].closed
               /\ g_signals' = [g_signals EXCEPT ![local[w].g].n = @ + 1]
            \/ Looks(w) /\ UNCHANGED <<g_signals, undone>>
<1>1. pc[w] = "undo_cas"
  BY DEF UndoCas
<1>2. CASE /\ g_signals[G(w)] = [n |-> local[w].signals, closed |-> FALSE]
           /\ g_signals' = [g_signals EXCEPT ![G(w)].n = @ + 1]
           /\ GoBack(w, "undo_wake")
           /\ undone' = TRUE
  <2>1. pc'[w] = "undo_wake" /\ Reduced(w) /\ Only(w)
    BY <1>2, GoBackAt, ThreadsAre
  <2>2. ~g_signals[local[w].g].closed
    BY <1>2 DEF G
  <2>3. undone' /\ g_signals' = [g_signals EXCEPT ![local[w].g].n = @ + 1]
    BY <1>2 DEF G
  <2>4. QED BY <1>1, <2>1, <2>2, <2>3
<1>3. CASE /\ Go(w, "undo_check", [local[w] EXCEPT !.signals = g_signals[G(w)].n, !.closed = g_signals[G(w)].closed])
           /\ UNCHANGED <<g_signals, undone>>
  BY <1>1, <1>3, LookDoes
<1>4. QED BY <1>2, <1>3 DEF UndoCas

\* Thread t wakes those in s, which sleep on group g.
Wakes(t, g, s) ==
  /\ s \subseteq Asleep(g) /\ t \notin s
  /\ \A u \in Threads : u # t =>
       /\ u \notin s => pc'[u] = pc[u] /\ local'[u] = local[u]
       /\ u \in s => pc'[u] = "drop_ref" /\ local'[u] = [local[u] EXCEPT !.to = "load"]

\* One sleeper is woken if there is one.
WakesOne(t, g) == (Asleep(g) = {} /\ Wakes(t, g, {})) \/ (\E v \in Asleep(g) : Wakes(t, g, {v}))

LEMMA WakeDoes ==
  ASSUME Typed, NEW t \in Threads, NEW l, NEW g, NEW s \in SUBSET Asleep(g), Wake(t, l, s), pc[t] # "asleep"
  PROVE  /\ pc'[t] = l /\ (l # "quiesce" => Reduced(t)) /\ (l = "quiesce" => local'[t] = local[t])
         /\ Wakes(t, g, s)
<1>1. s \in SUBSET Waiters /\ t \notin s /\ \A u \in s : pc[u] = "asleep"
  BY DEF Asleep
<1>2. QED BY <1>1, WakeAt DEF Wakes

LEMMA WakeOneDoes ==
  ASSUME Typed, NEW t \in Threads, NEW l, NEW g, WakeOne(t, l, g), pc[t] # "asleep", l # "quiesce"
  PROVE  pc'[t] = l /\ Reduced(t) /\ WakesOne(t, g)
<1>1. CASE Asleep(g) = {} /\ Wake(t, l, {})
  BY <1>1, WakeDoes DEF WakesOne
<1>2. ASSUME NEW v \in Asleep(g), Wake(t, l, {v})
      PROVE  pc'[t] = l /\ Reduced(t) /\ WakesOne(t, g)
  BY <1>2, WakeDoes DEF WakesOne
<1>3. QED BY <1>1, <1>2 DEF WakeOne

LEMMA PassOnDoes ==
  ASSUME Typed, NEW w \in Waiters, UndoWake(w) \/ CleanupWake(w)
  PROVE  /\ pc[w] \in {"undo_wake", "cleanup_wake"} /\ pc'[w] = "confirm" /\ Reduced(w)
         /\ WakesOne(w, local[w].g)
<1>1. pc[w] \in {"undo_wake", "cleanup_wake"} /\ WakeOne(w, "confirm", local[w].g)
  BY DEF UndoWake, CleanupWake, G
<1>2. QED BY <1>1, WakeOneDoes, ThreadsAre

LEMMA ConfirmDoes ==
  ASSUME Typed, NEW w \in Waiters, Confirm(w)
  PROVE  Only(w) /\ pc[w] = "confirm" /\ pc'[w] \in {"idle", "wake_destroyer"} /\ local'[w] = NoLocals
<1>1. /\ pc[w] = "confirm"
      /\ Go(w, IF wrefs = [n |-> 1, wake |-> TRUE] THEN "wake_destroyer" ELSE "idle", NoLocals)
  BY DEF Confirm
<1> DEFINE l == IF wrefs = [n |-> 1, wake |-> TRUE] THEN "wake_destroyer" ELSE "idle"
<1>2. l \in {"idle", "wake_destroyer"} /\ Go(w, l, NoLocals)
  BY <1>1
<1> HIDE DEF l
<1>3. QED BY <1>1, <1>2, GoAt, ThreadsAre

LEMMA WakeDestroyerDoes ==
  ASSUME Typed, NEW w \in Waiters, WakeDestroyer(w)
  PROVE  /\ pc[w] = "wake_destroyer" /\ pc'[w] = "idle" /\ local' = local
         /\ \A u \in Threads : u # w => pc'[u] = IF pc[u] = "destroy_asleep" THEN "destroy_load" ELSE pc[u]
BY ThreadsAre DEF WakeDestroyer

\* The actions of a signal.
LEMMA CallDoes ==
  ASSUME Typed, NEW t \in Threads, NEW all \in BOOLEAN, Call(t, all)
  PROVE  /\ Only(t) /\ t \in Signalers /\ pc[t] = "idle" /\ pc'[t] = "signal" /\ (local'[t].all <=> all)
<1> DEFINE x == [NoLocals EXCEPT !.all = all]
<1>1. x.all <=> all
  BY DEF NoLocals
<1>2. t \in Signalers /\ pc[t] = "idle" /\ Go(t, "signal", x)
  BY Zenon DEF Call
<1> HIDE DEF x
<1>3. QED BY <1>1, <1>2, GoAt

\* A thread whose signal is over.
Done(t) == pc'[t] = Back(t) /\ Reduced(t)

LEMMA DoneAt ==
  ASSUME Typed, NEW t \in Threads, GoBack(t, Back(t))
  PROVE  Only(t) /\ Done(t)
BY GoBackAt DEF Done

LEMMA BackLabels ==
  ASSUME NEW t \in Threads
  PROVE  /\ Back(t) \in {"idle", "confirm", "cleanup_wake"}
         /\ t \in Waiters => Back(t) \in {"confirm", "cleanup_wake"}
         /\ t \notin Waiters => Back(t) = "idle"
BY DEF Back, Gone

LEMMA CheckRefsDoes ==
  ASSUME Typed, NEW t \in Threads, CheckRefs(t)
  PROVE  /\ Only(t) /\ pc[t] = "signal"
         /\ (wrefs.n = 0 /\ Done(t)) \/ (pc'[t] = "lock" /\ local'[t] = local[t])
BY DoneAt, GotoAt DEF CheckRefs

LEMMA LockDoes ==
  ASSUME Typed, NEW t \in Threads, Lock(t)
  PROVE  /\ Only(t) /\ pc[t] = "lock" /\ ~lock /\ lock'
         /\ local'[t].g1 = 1 - wseq.g2 /\ local'[t].count = wseq.pos
         /\ local'[t].all = local[t].all /\ local'[t].g = local[t].g /\ local'[t].ended = local[t].ended
         /\ \/ pc'[t] = "quiesce" /\ g_size[1 - wseq.g2] = 0
            \/ pc'[t] = "add_first" /\ g_size[1 - wseq.g2] # 0 /\ local[t].all
            \/ pc'[t] = "add" /\ g_size[1 - wseq.g2] # 0 /\ ~local[t].all
<1>1. local[t] \in Locals
  BY DEF Typed, Own
<1> DEFINE x == [local[t] EXCEPT !.g1 = 1 - wseq.g2, !.count = wseq.pos]
           l == IF g_size[1 - wseq.g2] = 0 THEN "quiesce" ELSE IF local[t].all THEN "add_first" ELSE "add"
<1>2. /\ x.g1 = 1 - wseq.g2 /\ x.count = wseq.pos
      /\ x.all = local[t].all /\ x.g = local[t].g /\ x.ended = local[t].ended
  BY <1>1 DEF Locals
<1>3. pc[t] = "lock" /\ ~lock /\ lock' /\ Go(t, l, x)
  BY DEF Lock
<1>4. \/ l = "quiesce" /\ g_size[1 - wseq.g2] = 0
      \/ l = "add_first" /\ g_size[1 - wseq.g2] # 0 /\ local[t].all
      \/ l = "add" /\ g_size[1 - wseq.g2] # 0 /\ ~local[t].all
  OBVIOUS
<1> HIDE DEF x, l
<1>5. pc'[t] = l /\ local'[t] = x /\ Only(t)
  BY <1>3, GoAt
<1>6. QED BY <1>2, <1>3, <1>4, <1>5

LEMMA AddDoes ==
  ASSUME Typed, NEW t \in Threads, AddFirst(t) \/ Add(t)
  PROVE  /\ Only(t) /\ local'[t] = local[t] /\ local' = local
         /\ AddFirst(t) => /\ pc[t] = "add_first" /\ pc'[t] = "wake_first"
                           /\ AddSignals(t, g_size[local[t].g1])
         /\ Add(t) => /\ pc[t] = "add" /\ pc'[t] = "wake"
                      /\ AddSignals(t, IF local[t].all THEN g_size[local[t].g1] ELSE 1)
<1>1. ASSUME AddFirst(t)
      PROVE  Goto(t, "wake_first") /\ pc[t] = "add_first" /\ AddSignals(t, g_size[local[t].g1])
  BY <1>1 DEF AddFirst, G1
<1>2. ASSUME Add(t)
      PROVE  /\ Goto(t, "wake") /\ pc[t] = "add"
             /\ AddSignals(t, IF local[t].all THEN g_size[local[t].g1] ELSE 1)
  BY <1>2 DEF Add, G1
<1>3. QED BY <1>1, <1>2, GotoAt

LEMMA WakeFirstDoes ==
  ASSUME Typed, NEW t \in Threads, WakeFirst(t)
  PROVE  /\ pc[t] = "wake_first" /\ pc'[t] = "quiesce" /\ local'[t] = local[t]
         /\ Wakes(t, local[t].g1, Asleep(local[t].g1))
<1>1. pc[t] = "wake_first" /\ Wake(t, "quiesce", Asleep(local[t].g1))
  BY DEF WakeFirst, G1
<1>2. Asleep(local[t].g1) \in SUBSET Asleep(local[t].g1) /\ pc[t] # "asleep"
  BY <1>1
<1>3. QED BY <1>1, <1>2, WakeDoes

LEMMA WakeSignalledDoes ==
  ASSUME Typed, NEW t \in Threads, WakeSignalled(t)
  PROVE  /\ pc[t] = "wake" /\ Done(t)
         /\ \/ local[t].all /\ Wakes(t, local[t].g1, Asleep(local[t].g1))
            \/ ~local[t].all /\ WakesOne(t, local[t].g1)
<1>1. /\ pc[t] = "wake" /\ pc[t] # "asleep"
      /\ \/ local[t].all /\ Wake(t, Back(t), Asleep(local[t].g1))
         \/ ~local[t].all /\ WakeOne(t, Back(t), local[t].g1)
  BY DEF WakeSignalled, G1
<1>2. Back(t) # "quiesce"
  BY BackLabels
<1>3. CASE local[t].all /\ Wake(t, Back(t), Asleep(local[t].g1))
  <2>1. Asleep(local[t].g1) \in SUBSET Asleep(local[t].g1)
    OBVIOUS
  <2>2. QED BY <1>1, <1>2, <1>3, <2>1, WakeDoes DEF Done
<1>4. CASE ~local[t].all /\ WakeOne(t, Back(t), local[t].g1)
  BY <1>1, <1>2, <1>4, WakeOneDoes DEF Done
<1>5. QED BY <1>1, <1>3, <1>4

LEMMA QuiesceDoes ==
  ASSUME Typed, NEW t \in Threads, Quiesce(t)
  PROVE  /\ Only(t) /\ pc[t] = "quiesce"
         /\ \/ /\ local[t].count - g1_start.pos - orig_size + g_size[1 - local[t].g1] = 0
               /\ Done(t) /\ UNCHANGED g_signals
            \/ /\ local[t].count - g1_start.pos - orig_size + g_size[1 - local[t].g1] # 0
               /\ pc'[t] = "quiesce_refs" /\ Alike(t) /\ local'[t].ended = local[t].ended
               /\ UNCHANGED lock
               /\ g_signals' = [g_signals EXCEPT ![local[t].g1].closed = TRUE]
<1> DEFINE c == local[t].count - g1_start.pos - orig_size + g_size[1 - local[t].g1] = 0
<1>1. /\ pc[t] = "quiesce"
      /\ \/ c /\ GoBack(t, Back(t)) /\ UNCHANGED g_signals
         \/ /\ ~c /\ Go(t, "quiesce_refs", SetCount(t, 0)) /\ UNCHANGED lock
            /\ g_signals' = [g_signals EXCEPT ![local[t].g1].closed = TRUE]
  BY DEF Quiesce, G1, SetCount
<1> HIDE DEF c
<1>2. QED BY <1>1, DoneAt, GoAt, Fields DEF Alike, c

LEMMA QuiesceRefsDoes ==
  ASSUME Typed, NEW t \in Threads, QuiesceRefs(t)
  PROVE  /\ Only(t) /\ pc[t] = "quiesce_refs" /\ Alike(t) /\ local'[t].ended = local[t].ended
         /\ pc'[t] \in {"quiesce_request", "close"}
<1>1. /\ pc[t] = "quiesce_refs"
      /\ \E l \in {"quiesce_request", "close"} : Go(t, l, SetCount(t, 0))
  BY DEF QuiesceRefs, SetCount
<1>2. QED BY <1>1, GoAt, Fields DEF Alike

LEMMA QuiesceRequestDoes ==
  ASSUME Typed, NEW t \in Threads, QuiesceRequest(t)
  PROVE  /\ Only(t) /\ pc[t] = "quiesce_request" /\ Alike(t) /\ local'[t].ended = local[t].ended
         /\ \/ pc'[t] = "quiesce_wait" /\ g_refs[local[t].g1].n > 0 /\ local'[t].count = g_refs[local[t].g1].n
            \/ pc'[t] = "quiesce_refs"
<1>1. /\ pc[t] = "quiesce_request"
      /\ \/ g_refs[local[t].g1].n > 0 /\ Go(t, "quiesce_wait", SetCount(t, g_refs[local[t].g1].n))
         \/ Go(t, "quiesce_refs", SetCount(t, g_refs[local[t].g1].n))
  BY DEF QuiesceRequest, SetCount, G1
<1>2. QED BY <1>1, GoAt, Fields DEF Alike

LEMMA QuiesceWaitDoes ==
  ASSUME Typed, NEW t \in Threads, QuiesceWait(t)
  PROVE  /\ Only(t) /\ pc[t] = "quiesce_wait" /\ local'[t] = local[t]
         /\ \/ pc'[t] = "quiesce_asleep" /\ g_refs[local[t].g1] = [n |-> local[t].count, wake |-> TRUE]
            \/ pc'[t] = "quiesce_refs"
<1>1. /\ pc[t] = "quiesce_wait"
      /\ \/ g_refs[local[t].g1] = [n |-> local[t].count, wake |-> TRUE] /\ Goto(t, "quiesce_asleep")
         \/ Goto(t, "quiesce_refs")
  BY DEF QuiesceWait, G1
<1>2. QED BY <1>1, GotoAt, Zenon

LEMMA CloseDoes ==
  ASSUME Typed, NEW t \in Threads, Close(t)
  PROVE  /\ Only(t) /\ pc[t] = "close" /\ pc'[t] = "reopen" /\ local'[t] = local[t] /\ local' = local
         /\ g1_start' = [pos |-> g1_start.pos + orig_size, g2 |-> local[t].g1]
BY GotoAt DEF Close, G1

LEMMA ReopenDoes ==
  ASSUME Typed, NEW t \in Threads, Reopen(t)
  PROVE  /\ Only(t) /\ pc[t] = "reopen" /\ pc'[t] = "switch" /\ local'[t] = local[t] /\ local' = local
         /\ g_signals' = [g_signals EXCEPT ![local[t].g1] = [n |-> 0, closed |-> FALSE]]
<1>1. /\ Goto(t, "switch") /\ pc[t] = "reopen"
      /\ g_signals' = [g_signals EXCEPT ![local[t].g1] = [n |-> 0, closed |-> FALSE]]
  BY DEF Reopen, G1
<1>2. QED BY <1>1, GotoAt, Zenon

LEMMA SwitchDoes ==
  ASSUME Typed, NEW t \in Threads, Switch(t)
  PROVE  /\ Only(t) /\ pc[t] = "switch"
         /\ \/ Done(t)
            \/ /\ pc'[t] = "add" /\ local'[t].g1 = 1 - local[t].g1 /\ local'[t].all = local[t].all
               /\ local'[t].g = local[t].g /\ local'[t].ended = local[t].ended
<1>1. local[t] \in Locals
  BY DEF Typed, Own
<1> DEFINE x == [local[t] EXCEPT !.g1 = 1 - local[t].g1]
<1>2. /\ x.g1 = 1 - local[t].g1 /\ x.all = local[t].all
      /\ x.g = local[t].g /\ x.ended = local[t].ended
  BY <1>1 DEF Locals
<1>3. pc[t] = "switch" /\ (GoBack(t, Back(t)) \/ Go(t, "add", x))
  BY DEF Switch, G1
<1> HIDE DEF x
<1>4. QED BY <1>2, <1>3, DoneAt, GoAt

LEMMA DestroyDoes ==
  ASSUME Typed, NEW t \in Threads, Destroy(t) \/ DestroyWait(t) \/ DestroyLoad(t)
  PROVE  Only(t) /\ pc[t] \in {"idle"} \cup DestroyLabels /\ pc'[t] \in DestroyLabels
<1>1. ASSUME Destroy(t) PROVE pc[t] = "idle"
  BY <1>1 DEF Destroy, NoneBlocked
<1>2. \/ \E l \in DestroyLabels : \E x : Go(t, l, x)
      \/ \E l \in DestroyLabels : Goto(t, l)
  BY Zenon DEF Destroy, DestroyWait, DestroyLoad, DestroyLabels
<1>3. pc[t] \in {"idle"} \cup DestroyLabels
  BY <1>1 DEF DestroyWait, DestroyLoad, DestroyLabels
<1>4. QED BY <1>2, <1>3, GoAt, GotoAt

\* The steps of a waiter, and those of a signal or of the destruction.
WaiterActs(w) ==
  \/ Wait(w) \/ WaiterStep(w) \/ SpuriousWake(w)
  \/ \E how \in Interrupts \cap {"timed_out", "cancelled"} : GiveUp(w, how)

SignalActs(t) == SignalStep(t) \/ \E all \in Kinds : Call(t, all)

LEMMA ActsAre ==
  ASSUME [Next]_vars
  PROVE  UNCHANGED vars \/ (\E w \in Waiters : WaiterActs(w)) \/ (\E t \in Threads : SignalActs(t))
BY DEF Next, WaiterActs, SignalActs

\* The others are woken at most.
Others(t) == \A u \in Threads : u # t => Stays(u)

LEMMA OnlyOthers == ASSUME NEW t, Only(t) PROVE Others(t)
BY DEF Only, Others, Stays

LEMMA WakesOthers ==
  ASSUME NEW t, NEW g, NEW s, Wakes(t, g, s)
  PROVE  Others(t)
BY DEF Wakes, Others, Stays, Asleep

LEMMA WakesOneOthers ==
  ASSUME NEW t, NEW g, WakesOne(t, g)
  PROVE  Others(t)
BY WakesOthers DEF WakesOne

LEMMA WaiterOthers ==
  ASSUME Typed, NEW w \in Waiters, WaiterActs(w)
  PROVE  Others(w)
<1>1. CASE UndoWake(w) \/ CleanupWake(w)
  BY <1>1, PassOnDoes, WakesOneOthers
<1>2. CASE WakeRefs(w)
  BY <1>2, WakeRefsDoes DEF Others, Stays
<1>3. CASE WakeDestroyer(w)
  BY <1>3, WakeDestroyerDoes DEF Others, Stays
<1>4. ASSUME NEW how \in Interrupts \cap {"timed_out", "cancelled"}, GiveUp(w, how) PROVE Others(w)
  BY <1>4, GiveUpDoes, OnlyOthers
<1>5. CASE Wait(w) \/ Register(w) \/ Load(w) \/ TakeRef(w) \/ CheckClosed(w) \/ CheckStart(w)
  BY <1>5, WaitDoes, RegisterDoes, ConsiderDoes, TakeRefDoes, CheckClosedDoes, CheckStartDoes, OnlyOthers
     DEF Load
<1>6. CASE FutexWait(w) \/ SpuriousWake(w) \/ DropRef(w) \/ ClearRequest(w) \/ Grab(w) \/ Cancel(w)
  BY <1>6, FutexWaitDoes, SpuriousWakeDoes, DropRefDoes, ClearRequestDoes, GrabDoes, CancelDoes, OnlyOthers
<1>7. CASE CheckSteal(w) \/ UndoLoad(w) \/ UndoCheck(w) \/ UndoCas(w) \/ Confirm(w)
  BY <1>7, CheckStealDoes, UndoLoadDoes, UndoCheckDoes, UndoCasDoes, ConfirmDoes, OnlyOthers
<1>8. QED BY <1>1, <1>2, <1>3, <1>4, <1>5, <1>6, <1>7 DEF WaiterActs, WaiterStep

LEMMA KindsAre == \A all \in Kinds : all \in BOOLEAN
BY CondVarAssumption

LEMMA SignalOthers ==
  ASSUME Typed, NEW t \in Threads, SignalActs(t)
  PROVE  Others(t)
<1>1. CASE WakeFirst(t) \/ WakeSignalled(t)
  BY <1>1, WakeFirstDoes, WakeSignalledDoes, WakesOthers, WakesOneOthers
<1>2. ASSUME NEW all \in Kinds, Call(t, all) PROVE Others(t)
  BY <1>2, KindsAre, CallDoes, OnlyOthers
<1>3. CASE CheckRefs(t) \/ Lock(t) \/ AddFirst(t) \/ Add(t) \/ Quiesce(t) \/ QuiesceRefs(t)
  BY <1>3, CheckRefsDoes, LockDoes, AddDoes, QuiesceDoes, QuiesceRefsDoes, OnlyOthers
<1>4. CASE QuiesceRequest(t) \/ QuiesceWait(t) \/ Close(t) \/ Reopen(t) \/ Switch(t)
  BY <1>4, QuiesceRequestDoes, QuiesceWaitDoes, CloseDoes, ReopenDoes, SwitchDoes, OnlyOthers
<1>5. CASE Destroy(t) \/ DestroyWait(t) \/ DestroyLoad(t)
  BY <1>5, DestroyDoes, OnlyOthers
<1>6. QED BY <1>1, <1>2, <1>3, <1>4, <1>5 DEF SignalActs, SignalStep

\* The groups keep their roles and their places.
Fixed ==
  /\ UNCHANGED <<g1_start, orig_size>> /\ wseq'.g2 = wseq.g2
  /\ (Shift' <=> Shift) /\ Frontier' = Frontier

LEMMA FixedIs ==
  ASSUME UNCHANGED <<g1_start, orig_size>>, wseq'.g2 = wseq.g2, NEW t \in Threads, Others(t),
         pc'[t] \in Shifting <=> pc[t] \in Shifting
  PROVE  Fixed
<1>1. \A u \in Threads : u # t => (pc'[u] \in Shifting <=> pc[u] \in Shifting)
  BY DEF Others, Stays, Shifting
<1>2. Shift' <=> Shift
  BY <1>1 DEF Shift
<1>3. QED BY <1>2 DEF Fixed, Frontier

LEMMA WaiterFixed ==
  ASSUME Typed, NEW w \in Waiters, WaiterActs(w)
  PROVE  /\ Fixed /\ UNCHANGED lock /\ w \in Threads
         /\ ~Wait(w) => UNCHANGED wseq
         /\ ~Cancel(w) => UNCHANGED g_size
         /\ ~(Grab(w) \/ UndoCas(w)) => UNCHANGED g_signals
         /\ ~Confirm(w) => UNCHANGED owed
         /\ UNCHANGED calls
         /\ ~UndoCas(w) => UNCHANGED undone
<1>1. /\ Moves(w, Calm, Calm) /\ UNCHANGED <<orig_size, g1_start, lock>>
      /\ ~Wait(w) => UNCHANGED wseq
      /\ ~Cancel(w) => UNCHANGED g_size
  BY WaiterMoves DEF WaiterActs
<1>2. wseq'.g2 = wseq.g2
  <2>1. CASE Wait(w)
    BY <2>1 DEF Wait, Typed, Shared
  <2>2. QED BY <1>1, <2>1
<1>3. pc'[w] \notin Shifting /\ pc[w] \notin Shifting
  BY <1>1 DEF Moves, Calm, Shifting, Unsettled, UserLabels, Leaving
<1>4. Fixed
  BY <1>1, <1>2, <1>3, WaiterOthers, FixedIs, ThreadsAre
<1>5. ~(Grab(w) \/ UndoCas(w)) => UNCHANGED g_signals
  BY DEF WaiterActs, WaiterStep, Wait, Register, Load, TakeRef, CheckClosed, CheckStart, FutexWait, SpuriousWake,
         GiveUp, DropRef, ClearRequest, WakeRefs, CheckSteal, UndoLoad, UndoCheck, UndoWake, Confirm,
         WakeDestroyer, Cancel, CleanupWake, condvar
<1>6. UNCHANGED calls /\ (~Confirm(w) => UNCHANGED owed) /\ (~UndoCas(w) => UNCHANGED undone)
  BY DEF WaiterActs, WaiterStep, Wait, Register, Load, TakeRef, CheckClosed, CheckStart, FutexWait, SpuriousWake,
         GiveUp, DropRef, ClearRequest, WakeRefs, Grab, CheckSteal, UndoLoad, UndoCheck, UndoCas, UndoWake, Confirm,
         WakeDestroyer, Cancel, CleanupWake, condvar, bounds, ghost
<1>7. QED BY <1>1, <1>4, <1>5, <1>6, ThreadsAre

LEMMA SignalFixed ==
  ASSUME Typed, NEW t \in Threads, SignalActs(t)
  PROVE  /\ Fixed \/ Close(t) \/ Switch(t)
         /\ ~Switch(t) => UNCHANGED wseq
         /\ ~(Add(t) \/ AddFirst(t) \/ Switch(t)) => UNCHANGED g_size
         /\ ~(Add(t) \/ AddFirst(t) \/ Quiesce(t) \/ Reopen(t)) => UNCHANGED g_signals
         /\ (~\E all \in Kinds : Call(t, all)) => UNCHANGED <<owed, calls>>
         /\ UNCHANGED undone
<1>1. CASE \E all \in Kinds : Call(t, all)
  <2>1. UNCHANGED <<condvar, undone>>
    BY <1>1, Zenon DEF Call
  <2>2. pc'[t] \notin Shifting /\ pc[t] \notin Shifting
    BY <1>1, KindsAre, CallDoes DEF Shifting
  <2>3. Fixed
    BY <2>1, <2>2, SignalOthers, FixedIs DEF condvar
  <2>4. QED BY <1>1, <2>1, <2>3 DEF condvar
<1>2. CASE SignalStep(t)
  <2>1. /\ ~Switch(t) => UNCHANGED wseq
        /\ ~(Add(t) \/ AddFirst(t) \/ Switch(t)) => UNCHANGED g_size
        /\ ~(Add(t) \/ AddFirst(t) \/ Quiesce(t) \/ Reopen(t)) => UNCHANGED g_signals
        /\ Close(t) \/ Switch(t) \/ UNCHANGED <<g1_start, orig_size>>
        /\ UNCHANGED <<owed, calls, undone>>
    BY <1>2 DEF SignalStep, CheckRefs, Lock, AddFirst, WakeFirst, Add, WakeSignalled, Quiesce, QuiesceRefs,
         QuiesceRequest, QuiesceWait, Close, Reopen, Switch, Destroy, DestroyWait, DestroyLoad, condvar, bounds, ghost
  <2>2. ASSUME ~(Close(t) \/ Switch(t)) PROVE pc'[t] \in Shifting <=> pc[t] \in Shifting
    <3>1. CASE CheckRefs(t) \/ Lock(t) \/ AddFirst(t) \/ WakeFirst(t) \/ Add(t) \/ WakeSignalled(t) \/ Quiesce(t)
      BY <3>1, CheckRefsDoes, LockDoes, AddDoes, WakeFirstDoes, WakeSignalledDoes, QuiesceDoes, BackLabels
         DEF Shifting, Done
    <3>2. CASE QuiesceRefs(t) \/ QuiesceRequest(t) \/ QuiesceWait(t) \/ Reopen(t)
      BY <3>2, QuiesceRefsDoes, QuiesceRequestDoes, QuiesceWaitDoes, ReopenDoes DEF Shifting
    <3>3. CASE Destroy(t) \/ DestroyWait(t) \/ DestroyLoad(t)
      BY <3>3, DestroyDoes DEF Shifting, DestroyLabels
    <3>4. QED BY <1>2, <2>2, <3>1, <3>2, <3>3 DEF SignalStep
  <2>3. Fixed \/ Close(t) \/ Switch(t)
    BY <2>1, <2>2, SignalOthers, FixedIs
  <2>4. QED BY <2>1, <2>3
<1>3. QED BY <1>1, <1>2 DEF SignalActs

-----------------------------------------------------------------------------
(* What a waiter knows. *)

\* On the way out of the wait without a signal.
GivingUp(w) ==
  pc[w] = "cancel" \/ (pc[w] \in {"drop_ref", "clear_request", "wake_refs"} /\ local[w].to = "cancel")

GaveUp == {"not_unlocked", "timed_out", "cancelled"}

Knows(w) ==
  /\ pc[w] = "grab" => local[w].signals > 0
  /\ pc[w] \in Unsettled => ~local[w].all
  /\ pc[w] \in Unsettled /\ ~GivingUp(w) => local[w].ended = ""
  /\ pc[w] \in Unsettled /\ GivingUp(w) => local[w].ended \in GaveUp
  /\ pc[w] \in SignalLabels => local[w].ended \in GaveUp

LEMMA Init_Knows == Init => \A w \in Waiters : Knows(w)
BY ThreadsAre DEF Init, Knows, Unsettled, UserLabels, SignalLabels, Holding, Quiescing, Shifting

LEMMA StaysKnows ==
  ASSUME Typed, NEW u \in Threads, Stays(u), Knows(u)
  PROVE  Knows(u)'
<1>1. CASE pc[u] = "asleep" /\ pc'[u] = "drop_ref" /\ local'[u] = [local[u] EXCEPT !.to = "load"]
  <2>1. Alike(u) /\ local'[u].ended = local[u].ended /\ local'[u].to = "load"
    BY <1>1, WokenFields
  <2>2. pc'[u] \in Unsettled /\ pc[u] \in Unsettled /\ ~GivingUp(u) /\ ~GivingUp(u)' /\ pc'[u] \notin SignalLabels
    BY <1>1, <2>1 DEF Unsettled, UserLabels, GivingUp, SignalLabels, Holding, Quiescing, Shifting
  <2>3. QED BY <1>1, <2>1, <2>2 DEF Knows, Alike, Places
<1>2. CASE pc'[u] = pc[u] /\ local'[u] = local[u]
  <2>1. GivingUp(u)' <=> GivingUp(u)
    BY <1>2 DEF GivingUp
  <2>2. QED BY <1>2, <2>1 DEF Knows
<1>3. CASE \/ pc[u] = "quiesce_asleep" /\ pc'[u] = "quiesce_refs" /\ local'[u] = local[u]
           \/ pc[u] = "destroy_asleep" /\ pc'[u] = "destroy_load" /\ local'[u] = local[u]
  BY <1>3 DEF Knows, Unsettled, UserLabels, SignalLabels, Holding, Quiescing, Shifting
<1>4. QED BY <1>1, <1>2, <1>3 DEF Stays

\* Settled, and without a signal to give.
LEMMA QuietKnows ==
  ASSUME NEW w, pc'[w] \notin Unsettled, pc'[w] \notin SignalLabels
  PROVE  Knows(w)'
<1>1. pc'[w] # "grab"
  BY DEF Unsettled
<1>2. QED BY <1>1 DEF Knows

LEMMA WaiterKnows ==
  ASSUME Typed, NEW w \in Waiters, WaiterActs(w), Knows(w)
  PROVE  Knows(w)'
<1> USE DEF Knows, GivingUp, GaveUp, Alike, Places
<1>1. ASSUME NEW l, l \in Unsettled PROVE l \notin SignalLabels
  BY <1>1 DEF Unsettled, UserLabels, SignalLabels, Holding, Quiescing, Shifting
<1>2. ASSUME pc'[w] \in Leaving \cup {"idle", "wake_destroyer"} PROVE Knows(w)'
  BY <1>2, QuietKnows DEF Unsettled, UserLabels, SignalLabels, Holding, Quiescing, Shifting, Leaving
<1>3. ASSUME Consider(w), pc[w] \in {"load", "grab"} PROVE Knows(w)'
  <2>1. pc[w] \in Unsettled /\ ~GivingUp(w)
    BY <1>3 DEF Unsettled
  <2>2. CASE pc'[w] = "confirm"
    BY <1>2, <2>2 DEF Leaving
  <2>3. CASE pc'[w] # "confirm"
    <3>1. /\ pc'[w] \in {"grab", "take_ref"} /\ Alike(w) /\ local'[w].ended = local[w].ended
          /\ pc'[w] = "grab" => local'[w].signals > 0
      BY <1>3, <2>3, ConsiderDoes
    <3>2. QED BY <1>1, <2>1, <3>1 DEF Unsettled
  <2>4. QED BY <2>2, <2>3
<1>4. CASE Wait(w)
  BY <1>1, <1>4, WaitDoes DEF Unsettled
<1>5. CASE Register(w)
  BY <1>1, <1>5, RegisterDoes DEF Unsettled
<1>6. CASE Load(w)
  BY <1>3, <1>6 DEF Load
<1>7. CASE TakeRef(w) \/ CheckClosed(w) \/ CheckStart(w)
  BY <1>1, <1>7, TakeRefDoes, CheckClosedDoes, CheckStartDoes DEF Unsettled, UserLabels
<1>8. CASE FutexWait(w) \/ SpuriousWake(w)
  BY <1>1, <1>8, FutexWaitDoes, SpuriousWakeDoes DEF Unsettled, UserLabels
<1>9. ASSUME NEW how \in Interrupts \cap {"timed_out", "cancelled"}, GiveUp(w, how) PROVE Knows(w)'
  BY <1>1, <1>9, GiveUpDoes DEF Unsettled, UserLabels
<1>10. CASE DropRef(w) \/ ClearRequest(w) \/ WakeRefs(w)
  <2>1. /\ Alike(w) /\ local'[w].ended = local[w].ended /\ pc[w] \in {"drop_ref", "clear_request", "wake_refs"}
        /\ \/ pc'[w] \in {"clear_request", "wake_refs"} /\ local'[w].to = local[w].to
           \/ pc'[w] = local[w].to /\ Aims(w)
    BY <1>10, DropRefDoes, ClearRequestDoes, WakeRefsDoes
  <2>2. CASE pc'[w] = "confirm"
    BY <1>2, <2>2 DEF Leaving
  <2>3. CASE pc'[w] # "confirm"
    <3>1. pc[w] \in Unsettled /\ pc'[w] \in Unsettled
      BY <2>1, <2>3 DEF Aims, Unsettled, UserLabels
    <3>2. GivingUp(w)' <=> GivingUp(w)
      BY <2>1, <2>3 DEF Aims
    <3>3. QED BY <1>1, <2>1, <3>1, <3>2 DEF Aims
  <2>4. QED BY <2>2, <2>3
<1>11. CASE Grab(w)
  <2>1. CASE pc'[w] = "check_steal"
    BY <1>2, <2>1 DEF Leaving
  <2>2. QED BY <1>3, <1>11, <2>1, GrabDoes
<1>12. CASE Cancel(w)
  <2>1. pc[w] \in Unsettled /\ GivingUp(w)
    BY <1>12, CancelDoes DEF Unsettled
  <2>2. CASE pc'[w] = "signal"
    <3>1. local'[w].ended = local[w].ended
      BY <1>12, <2>2, CancelDoes DEF Gone, Reduced
    <3>2. pc'[w] \notin Unsettled
      BY <2>2 DEF Unsettled, UserLabels
    <3>3. QED BY <2>1, <2>2, <3>1, <3>2
  <2>3. CASE pc'[w] # "signal"
    BY <1>2, <1>12, <2>3, CancelDoes DEF Gone, Leaving
  <2>4. QED BY <2>2, <2>3
<1>13. CASE CheckSteal(w) \/ UndoLoad(w) \/ UndoCheck(w) \/ UndoCas(w)
  BY <1>2, <1>13, CheckStealDoes, UndoLoadDoes, UndoCheckDoes, UndoCasDoes DEF Leaving, Looks
<1>14. CASE UndoWake(w) \/ CleanupWake(w) \/ Confirm(w) \/ WakeDestroyer(w)
  BY <1>2, <1>14, PassOnDoes, ConfirmDoes, WakeDestroyerDoes DEF Leaving
<1>15. QED
  BY <1>4, <1>5, <1>6, <1>7, <1>8, <1>9, <1>10, <1>11, <1>12, <1>13, <1>14 DEF WaiterActs, WaiterStep

\* A thread that gives a signal is not unsettled, and it keeps what it knows of its end.
LEMMA SignalEnds ==
  ASSUME Typed, NEW t \in Threads, SignalActs(t)
  PROVE  /\ pc[t] \notin Unsettled \cup Leaving \cup {"wake_destroyer"} /\ pc'[t] \notin Unsettled
         /\ t \in Waiters => pc[t] \in SignalLabels /\ local'[t].ended = local[t].ended /\ local'[t].g = local[t].g
<1> DEFINE S == SignalLabels \cup {"idle"} \cup DestroyLabels
           T == SignalLabels \cup {"idle", "confirm", "cleanup_wake"} \cup DestroyLabels
           E == local'[t].ended = local[t].ended /\ local'[t].g = local[t].g
<1>1. S \cap (Unsettled \cup Leaving \cup {"wake_destroyer"}) = {} /\ T \cap Unsettled = {}
  BY DEF Unsettled, UserLabels, SignalLabels, Holding, Quiescing, Shifting, Leaving, DestroyLabels
<1>2. {"idle", "confirm", "cleanup_wake"} \subseteq T /\ DestroyLabels \subseteq T /\ SignalLabels \subseteq T
      /\ SignalLabels \subseteq S /\ DestroyLabels \subseteq S /\ "idle" \in S
  OBVIOUS
<1>3. {"signal", "lock", "wake", "add_first", "wake_first", "add", "quiesce", "quiesce_refs", "quiesce_request",
       "quiesce_wait", "quiesce_asleep", "close", "reopen", "switch"} \subseteq SignalLabels
  BY DEF SignalLabels, Holding, Quiescing, Shifting
<1>4. t \in Signalers => t \notin Waiters
  BY ThreadsAre
<1>5. ASSUME Done(t) PROVE pc'[t] \in T /\ E
  BY <1>2, <1>5, BackLabels DEF Done, Reduced
<1>6. SUFFICES /\ pc[t] \in S /\ pc'[t] \in T
               /\ t \in Waiters => pc[t] \in SignalLabels /\ E
  BY <1>1
<1> HIDE DEF S, T
<1>7. CASE \E all \in Kinds : Call(t, all)
  BY <1>2, <1>3, <1>4, <1>7, KindsAre, CallDoes
<1>8. CASE CheckRefs(t) \/ Lock(t)
  BY <1>2, <1>3, <1>5, <1>8, CheckRefsDoes, LockDoes
<1>9. CASE AddFirst(t) \/ Add(t) \/ WakeFirst(t)
  BY <1>2, <1>3, <1>9, AddDoes, WakeFirstDoes
<1>10. CASE WakeSignalled(t) \/ Quiesce(t)
  BY <1>2, <1>3, <1>5, <1>10, WakeSignalledDoes, QuiesceDoes DEF Alike, Places
<1>11. CASE QuiesceRefs(t) \/ QuiesceRequest(t) \/ QuiesceWait(t)
  BY <1>2, <1>3, <1>11, QuiesceRefsDoes, QuiesceRequestDoes, QuiesceWaitDoes DEF Alike, Places
<1>12. CASE Close(t) \/ Reopen(t) \/ Switch(t)
  BY <1>2, <1>3, <1>5, <1>12, CloseDoes, ReopenDoes, SwitchDoes
<1>13. CASE Destroy(t) \/ DestroyWait(t) \/ DestroyLoad(t)
  <2>1. t \notin Waiters
    <3>1. CASE Destroy(t)
      BY <1>4, <3>1 DEF Destroy
    <3>2. CASE DestroyWait(t) \/ DestroyLoad(t)
      BY <3>2 DEF DestroyWait, DestroyLoad, Typed, Own, WaiterLabels, Unsettled, UserLabels, SignalLabels, Holding,
         Quiescing, Shifting, Leaving
    <3>3. QED BY <1>13, <3>1, <3>2
  <2>2. pc[t] \in {"idle"} \cup DestroyLabels /\ pc'[t] \in DestroyLabels
    BY <1>13, DestroyDoes
  <2>3. QED BY <1>2, <2>1, <2>2
<1>14. QED
  BY <1>7, <1>8, <1>9, <1>10, <1>11, <1>12, <1>13 DEF SignalActs, SignalStep

LEMMA KnowsStep ==
  ASSUME Typed, \A w \in Waiters : Knows(w), [Next]_vars
  PROVE  \A w \in Waiters : Knows(w)'
<1>1. CASE UNCHANGED vars
  BY <1>1 DEF vars, Knows, GivingUp
<1>2. ASSUME NEW w \in Waiters, WaiterActs(w) PROVE \A v \in Waiters : Knows(v)'
  BY <1>2, WaiterKnows, WaiterOthers, StaysKnows, ThreadsAre DEF Others
<1>3. ASSUME NEW t \in Threads, SignalActs(t) PROVE \A v \in Waiters : Knows(v)'
  <2>1. ASSUME t \in Waiters PROVE Knows(t)'
    <3>1. pc'[t] \notin Unsettled /\ pc[t] \in SignalLabels /\ local'[t].ended = local[t].ended
      BY <1>3, <2>1, SignalEnds
    <3>2. pc'[t] # "grab"
      BY <3>1 DEF Unsettled
    <3>3. QED BY <2>1, <3>1, <3>2 DEF Knows
  <2>2. QED BY <1>3, <2>1, SignalOthers, StaysKnows, ThreadsAre DEF Others
<1>4. QED BY <1>1, <1>2, <1>3, ActsAre

-----------------------------------------------------------------------------
(* The signals and the positions. *)

\* The group whose waiters may consume signals.
G1Slot == 1 - wseq.g2

LEMMA SlotFacts ==
  ASSUME Typed
  PROVE  /\ G1Slot \in Groups /\ wseq.g2 \in Groups /\ G1Slot # wseq.g2
         /\ g_signals[G1Slot].n \in Int /\ g_signals[wseq.g2].n \in Int
         /\ g_size[G1Slot] \in Int /\ g_size[wseq.g2] \in Int
         /\ \A g \in Groups : g = G1Slot \/ g = wseq.g2
<1>1. wseq.g2 \in {0, 1}
  BY DEF Typed, Shared, Groups
<1>2. G1Slot \in Groups /\ wseq.g2 \in Groups /\ G1Slot # wseq.g2 /\ \A g \in Groups : g = G1Slot \/ g = wseq.g2
  BY <1>1 DEF G1Slot, Groups
<1>3. QED BY <1>2 DEF Typed, Shared

\* No other thread holds the lock.
LEMMA HoldsAlone ==
  ASSUME Mutex, NEW t \in Threads, Others(t), pc[t] \in Holding \/ ~lock
  PROVE  \A u \in Threads : u # t => pc[u] \notin Holding /\ pc'[u] \notin Holding
<1>1. \A u \in Threads : u # t => pc[u] \notin Holding
  BY DEF Mutex
<1>2. \A u \in Threads : u # t => (pc'[u] \in Holding => pc[u] \in Holding)
  BY DEF Others, Stays, Holding, Quiescing, Shifting
<1>3. QED BY <1>1, <1>2

LEMMA HoldingAre ==
  /\ {"add_first", "wake_first", "add", "quiesce", "quiesce_refs", "quiesce_request", "quiesce_wait",
      "quiesce_asleep", "close", "reopen", "switch"} = Holding
  /\ Quiescing \subseteq Holding /\ Shifting \subseteq Holding /\ Emptied \subseteq Holding
  /\ Calm \cap Holding = {}
BY DEF Holding, Quiescing, Shifting, Emptied, Calm, Unsettled, UserLabels, Leaving

\* The thread that changes the groups sees G1, and its view of G2 is not ahead.
LEMMA HolderFacts ==
  ASSUME Typed, SizeInv, NEW t \in Threads, pc[t] \in Holding
  PROVE  /\ local[t].g1 = G1Slot /\ 1 - local[t].g1 = wseq.g2
         /\ pc[t] \in Emptied => g_size[G1Slot] = 0
         /\ pc[t] = "add" => g_size[G1Slot] > 0
         /\ pc[t] \in Shifting => Shift /\ Frontier = g1_start.pos
BY GroupFacts DEF SizeInv, Roles, HolderSees, G1Slot, Shift, Frontier

LEMMA SizeFacts ==
  ASSUME Typed, SizeInv
  PROVE  g_size[G1Slot] >= 0 /\ g_size[wseq.g2] <= 0 /\ orig_size >= 0 /\ Frontier <= wseq.pos
<1>1. g_size[G1Slot] \in 0 .. orig_size /\ g_size[wseq.g2] <= 0 /\ orig_size \in Nat /\ g_size[wseq.g2] \in Int
  BY GroupFacts DEF SizeInv, Roles, G1Slot
<1>2. Frontier <= wseq.pos
  BY GroupFacts, NewcomersType, <1>1 DEF SizeInv, Room
<1>3. QED BY <1>1, <1>2

\* A broadcast or a change of groups that has read wseq.
ReadEarlier == {"add_first", "wake_first", "quiesce"}

ReadOK(t) ==
  /\ pc[t] \in ReadEarlier => local[t].count >= Frontier /\ local[t].count <= wseq.pos
  /\ pc[t] \in Quiescing \cup Shifting => wseq.pos > Frontier

\* Every G1 but the first, empty one has got positions.
Ahead ==
  /\ \A t \in Threads : ReadOK(t)
  /\ g1_start.pos >= 0
  /\ ~Shift /\ g1_start.pos > 0 => orig_size > 0

LEMMA Init_Ahead == Init => Ahead
BY DEF Init, Ahead, ReadOK, ReadEarlier, Quiescing, Shifting

LEMMA StaysRead ==
  ASSUME Typed, NEW u \in Threads, Stays(u), ReadOK(u), Frontier' = Frontier, wseq'.pos \in Nat, wseq'.pos >= wseq.pos
  PROVE  ReadOK(u)'
<1>1. local[u].count \in Int /\ wseq.pos \in Nat /\ Frontier \in Int
  BY GroupFacts DEF Typed, Own, Locals
<1>2. \/ pc'[u] = pc[u] /\ local'[u] = local[u]
      \/ pc[u] \in Quiescing /\ pc'[u] \in Quiescing /\ pc'[u] \notin ReadEarlier
      \/ pc'[u] \notin Quiescing \cup Shifting \cup ReadEarlier
  BY DEF Stays, Quiescing, Shifting, ReadEarlier
<1>3. QED BY <1>1, <1>2 DEF ReadOK

LEMMA AheadStep ==
  ASSUME Typed, Mutex, SizeInv, Ahead, [Next]_vars
  PROVE  Ahead'
<1>0. wseq.pos \in Nat /\ Frontier \in Int /\ g1_start.pos \in Int /\ orig_size \in Int
  BY GroupFacts
<1>1. ASSUME Fixed, UNCHANGED wseq \/ wseq'.pos = wseq.pos + 1, NEW t \in Threads, Others(t), ReadOK(t)' PROVE Ahead'
  <2>1. wseq'.pos \in Nat /\ wseq'.pos >= wseq.pos
    BY <1>0, <1>1
  <2>2. \A u \in Threads : ReadOK(u)'
    BY <1>1, <2>1, StaysRead DEF Others, Ahead, Fixed
  <2>3. QED BY <1>1, <2>2 DEF Ahead, Fixed
<1>2. CASE UNCHANGED vars
  BY <1>2 DEF vars, condvar, Ahead, ReadOK, Frontier, Shift
<1>3. ASSUME NEW w \in Waiters, WaiterActs(w) PROVE Ahead'
  <2>1. Moves(w, Calm, Calm)
    BY <1>3, WaiterMoves DEF WaiterActs
  <2>2. pc'[w] \notin Holding
    BY <2>1, HoldingAre DEF Moves
  <2>3. ReadOK(w)'
    BY <2>2, HoldingAre DEF ReadOK, ReadEarlier
  <2>4. UNCHANGED wseq \/ wseq'.pos = wseq.pos + 1
    BY <1>3, WaiterFixed DEF Wait, Typed, Shared
  <2>5. QED BY <1>1, <1>3, <2>3, <2>4, WaiterFixed, WaiterOthers
<1>4. ASSUME NEW t \in Threads, SignalActs(t) PROVE Ahead'
  <2>1. Others(t) /\ (Fixed \/ Close(t) \/ Switch(t)) /\ (~Switch(t) => UNCHANGED wseq)
    BY <1>4, SignalOthers, SignalFixed
  <2>2. ReadOK(t) /\ local[t].count \in Int
    BY DEF Ahead, Typed, Own, Locals
  <2>3. CASE Close(t)
    <3>1. /\ pc[t] = "close" /\ pc'[t] = "reopen" /\ g1_start'.pos = g1_start.pos + orig_size /\ UNCHANGED wseq
      BY <2>3, CloseDoes DEF Close
    <3>2. pc[t] \in Holding /\ pc[t] \in Quiescing /\ pc[t] \notin Shifting /\ pc'[t] \in Shifting
      BY <3>1 DEF Holding, Quiescing, Shifting
    <3>3. ~Shift /\ Shift'
      BY <2>1, <3>2, HoldsAlone, HoldingAre DEF Shift
    <3>4. Frontier' = Frontier /\ Frontier = g1_start'.pos
      BY <3>1, <3>3 DEF Frontier
    <3>5. ReadOK(t)'
      BY <2>2, <3>1, <3>2, <3>4 DEF ReadOK, ReadEarlier
    <3>6. \A u \in Threads : ReadOK(u)'
      BY <1>0, <2>1, <3>1, <3>4, <3>5, StaysRead DEF Others, Ahead
    <3>7. g1_start'.pos >= 0
      BY <1>0, <3>1, SizeFacts DEF Ahead
    <3>8. QED BY <3>3, <3>6, <3>7 DEF Ahead
  <2>4. CASE Switch(t)
    <3>1. /\ pc[t] = "switch" /\ pc'[t] \in {"add", "idle", "confirm", "cleanup_wake"}
          /\ UNCHANGED g1_start /\ orig_size' = wseq.pos - g1_start.pos
      BY <2>4, SwitchDoes, BackLabels DEF Switch, Done
    <3>2. pc[t] \in Holding /\ pc[t] \in Shifting
      BY <3>1 DEF Holding, Shifting
    <3>3. wseq.pos > Frontier /\ Frontier = g1_start.pos
      BY <2>2, <3>2, HolderFacts DEF ReadOK
    <3>4. \A u \in Threads : ReadOK(u)'
      <4>1. \A u \in Threads : pc'[u] \notin ReadEarlier \cup Quiescing \cup Shifting
        BY <2>1, <3>1, <3>2, HoldsAlone DEF ReadEarlier, Holding, Quiescing, Shifting
      <4>2. QED BY <4>1 DEF ReadOK
    <3>5. QED BY <1>0, <3>1, <3>3, <3>4 DEF Ahead
  <2>5. CASE Fixed /\ ~Switch(t) /\ ~Close(t)
    <3>1. UNCHANGED wseq /\ Frontier' = Frontier
      BY <2>1, <2>5 DEF Fixed
    <3>10. SUFFICES ReadOK(t)'
      BY <1>1, <2>1, <2>5, <3>1
    <3>2. ASSUME pc'[t] \notin ReadEarlier \cup Quiescing \cup Shifting PROVE ReadOK(t)'
      BY <3>2 DEF ReadOK
    <3>3. CASE \E all \in Kinds : Call(t, all)
      BY <3>2, <3>3, KindsAre, CallDoes DEF ReadEarlier, Quiescing, Shifting
    <3>4. CASE CheckRefs(t) \/ Add(t) \/ WakeSignalled(t)
      BY <3>2, <3>4, CheckRefsDoes, AddDoes, WakeSignalledDoes, BackLabels DEF Done, ReadEarlier, Quiescing, Shifting
    <3>5. CASE Lock(t)
      <4>1. local'[t].count = wseq.pos /\ pc'[t] \notin Quiescing \cup Shifting
        BY <3>5, LockDoes DEF Quiescing, Shifting
      <4>2. QED BY <1>0, <3>1, <4>1, SizeFacts DEF ReadOK
    <3>6. CASE AddFirst(t) \/ WakeFirst(t)
      <4>1. local'[t] = local[t] /\ pc[t] \in ReadEarlier /\ pc'[t] \notin Quiescing \cup Shifting
        BY <3>6, AddDoes, WakeFirstDoes DEF ReadEarlier, Quiescing, Shifting
      <4>2. QED BY <2>2, <3>1, <4>1 DEF ReadOK
    <3>7. CASE Quiesce(t)
      <4>1. pc[t] = "quiesce" /\ pc[t] \in ReadEarlier /\ pc[t] \in Holding
        BY <3>7, QuiesceDoes DEF ReadEarlier, Holding
      <4>2. CASE Done(t)
        BY <3>2, <4>2, BackLabels DEF Done, ReadEarlier, Quiescing, Shifting
      <4>3. CASE /\ local[t].count - g1_start.pos - orig_size + g_size[1 - local[t].g1] # 0
                 /\ pc'[t] = "quiesce_refs"
        <5>1. Frontier = g1_start.pos + orig_size
          <6>1. pc[t] \notin Shifting
            BY <4>1 DEF Shifting
          <6>2. ~Shift
            BY <2>1, <4>1, <6>1, HoldsAlone, HoldingAre DEF Shift
          <6>3. QED BY <6>2 DEF Frontier
        <5>2. g_size[1 - local[t].g1] = g_size[wseq.g2] /\ g_size[wseq.g2] \in Int
          BY <4>1, HolderFacts, SlotFacts
        <5>3. local[t].count >= Frontier /\ local[t].count <= wseq.pos /\ g_size[wseq.g2] <= 0
          BY <2>2, <4>1, SizeFacts DEF ReadOK
        <5>4. Cardinality(Newcomers) <= wseq.pos - Frontier + g_size[wseq.g2] /\ Cardinality(Newcomers) \in Nat
          BY NewcomersType DEF SizeInv, Room
        <5>5. wseq.pos - Frontier + g_size[wseq.g2] >= 0
          BY <1>0, <5>2, <5>4
        <5>7. local[t].count - Frontier + g_size[wseq.g2] # 0
          BY <1>0, <2>2, <4>3, <5>1, <5>2
        <5>8. wseq.pos > Frontier
          BY <1>0, <2>2, <5>2, <5>3, <5>5, <5>7
        <5>9. QED BY <3>1, <4>3, <5>8 DEF ReadOK, ReadEarlier
      <4>4. QED BY <3>7, <4>2, <4>3, QuiesceDoes
    <3>8. CASE QuiesceRefs(t) \/ QuiesceRequest(t) \/ QuiesceWait(t) \/ Reopen(t)
      <4>1. pc[t] \in Quiescing \cup Shifting /\ pc'[t] \notin ReadEarlier
        BY <3>8, QuiesceRefsDoes, QuiesceRequestDoes, QuiesceWaitDoes, ReopenDoes DEF ReadEarlier, Quiescing, Shifting
      <4>2. QED BY <2>2, <3>1, <4>1 DEF ReadOK
    <3>9. CASE Destroy(t) \/ DestroyWait(t) \/ DestroyLoad(t)
      BY <3>2, <3>9, DestroyDoes DEF DestroyLabels, ReadEarlier, Quiescing, Shifting
    <3>11. QED
      BY <1>4, <2>5, <3>3, <3>4, <3>5, <3>6, <3>7, <3>8, <3>9 DEF SignalActs, SignalStep
  <2>6. QED BY <2>1, <2>3, <2>4, <2>5
<1>5. QED BY <1>2, <1>3, <1>4, ActsAre

\* The flags of the groups stay.
FlagsStay == \A g \in Groups : g_signals'[g].closed <=> g_signals[g].closed

\* n signals are added to group g, or taken from it.
Added(g, n) ==
  /\ g_signals'[g].n = g_signals[g].n + n /\ FlagsStay
  /\ \A h \in Groups : h # g => g_signals'[h] = g_signals[h]

LEMMA GrabEffect ==
  ASSUME Typed, NEW w \in Waiters, Knows(w), Grab(w), pc'[w] = "check_steal"
  PROVE  g_signals[local[w].g].n > 0 /\ ~g_signals[local[w].g].closed /\ Added(local[w].g, -1)
<1>1. w \in Threads /\ local[w].g \in Groups
  BY ThreadsAre, LocalFacts
<1>2. /\ g_signals[local[w].g].n = local[w].signals /\ ~g_signals[local[w].g].closed /\ pc[w] = "grab"
      /\ g_signals' = [g_signals EXCEPT ![local[w].g].n = @ - 1]
  BY GrabDoes, ConsiderDoes DEF G
<1>3. g_signals[local[w].g].n > 0
  BY <1>2 DEF Knows
<1>4. g_signals[local[w].g].n \in Int
  BY <1>1 DEF Typed, Shared
<1>5. g_signals'[local[w].g].n = g_signals[local[w].g].n - 1 /\ FlagsStay
      /\ \A h \in Groups : h # local[w].g => g_signals'[h] = g_signals[h]
  BY <1>1, <1>2 DEF FlagsStay, Typed, Shared
<1>6. QED BY <1>2, <1>3, <1>4, <1>5 DEF Added

LEMMA UndoCasEffect ==
  ASSUME Typed, NEW w \in Waiters, UndoCas(w)
  PROVE  \/ pc'[w] = "undo_wake" /\ Reduced(w) /\ undone' /\ ~g_signals[local[w].g].closed /\ Added(local[w].g, 1)
         \/ Looks(w) /\ UNCHANGED <<g_signals, undone>>
<1>1. w \in Threads /\ local[w].g \in Groups
  BY ThreadsAre, LocalFacts
<1>2. CASE g_signals' = [g_signals EXCEPT ![local[w].g].n = @ + 1]
  <2>1. Added(local[w].g, 1)
    BY <1>1, <1>2 DEF Added, FlagsStay, Typed, Shared
  <2>2. QED BY <2>1, UndoCasDoes
<1>3. QED BY <1>2, UndoCasDoes

\* What thread t signals when it adds signals.
Amount(t) == IF pc[t] = "add_first" \/ local[t].all THEN g_size[G1Slot] ELSE 1

LEMMA AddEffect ==
  ASSUME Typed, SizeInv, NEW t \in Threads, AddFirst(t) \/ Add(t)
  PROVE  /\ Amount(t) \in 0 .. g_size[G1Slot] /\ local[t].g1 = G1Slot
         /\ (pc[t] = "add" => Amount(t) > 0)
         /\ Added(G1Slot, Amount(t))
         /\ g_size'[G1Slot] = g_size[G1Slot] - Amount(t) /\ g_size'[wseq.g2] = g_size[wseq.g2]
<1>1. pc[t] \in Holding
  BY AddDoes, HoldingAre
<1>2. local[t].g1 = G1Slot /\ (pc[t] = "add" => g_size[G1Slot] > 0)
  BY <1>1, HolderFacts
<1>3. g_size[G1Slot] >= 0 /\ g_size[G1Slot] \in Int /\ G1Slot \in Groups /\ wseq.g2 \in Groups /\ G1Slot # wseq.g2
  BY SizeFacts, SlotFacts
<1>4. AddSignals(t, Amount(t))
  BY <1>2, AddDoes DEF Amount
<1>5. pc[t] \in {"add", "add_first"}
  BY AddDoes
<1>6. Amount(t) \in 0 .. g_size[G1Slot] /\ (pc[t] = "add" => Amount(t) > 0)
  BY <1>2, <1>3, <1>5 DEF Amount
<1>7. /\ g_signals' = [g_signals EXCEPT ![G1Slot].n = @ + Amount(t)]
      /\ g_size' = [g_size EXCEPT ![G1Slot] = @ - Amount(t)]
  BY <1>2, <1>4 DEF AddSignals, G1
<1>8. Added(G1Slot, Amount(t))
  <2>1. Amount(t) \in Int
    BY <1>3, <1>6
  <2>2. QED BY <1>3, <1>7, <2>1 DEF Added, FlagsStay, Typed, Shared
<1>9. g_size'[G1Slot] = g_size[G1Slot] - Amount(t) /\ g_size'[wseq.g2] = g_size[wseq.g2]
  BY <1>3, <1>7 DEF Typed, Shared
<1>10. QED BY <1>2, <1>6, <1>8, <1>9

LEMMA QuiesceEffect ==
  ASSUME Typed, SizeInv, NEW t \in Threads, Quiesce(t), pc'[t] = "quiesce_refs"
  PROVE  /\ \A g \in Groups : g_signals'[g].n = g_signals[g].n
         /\ g_signals'[G1Slot].closed /\ g_signals'[wseq.g2] = g_signals[wseq.g2]
         /\ local[t].g1 = G1Slot
<1>1. pc[t] \in Holding
  BY QuiesceDoes, HoldingAre
<1>2. local[t].g1 = G1Slot
  BY <1>1, HolderFacts
<1>3. g_signals' = [g_signals EXCEPT ![G1Slot].closed = TRUE]
  BY <1>2, QuiesceDoes, BackLabels DEF Done
<1>4. QED BY <1>2, <1>3, SlotFacts DEF Typed, Shared

LEMMA ReopenEffect ==
  ASSUME Typed, SizeInv, NEW t \in Threads, Reopen(t)
  PROVE  /\ g_signals'[G1Slot].n = 0 /\ ~g_signals'[G1Slot].closed /\ g_signals'[wseq.g2] = g_signals[wseq.g2]
         /\ local[t].g1 = G1Slot
<1>1. pc[t] \in Holding
  BY ReopenDoes, HoldingAre
<1>2. local[t].g1 = G1Slot
  BY <1>1, HolderFacts
<1> DEFINE fresh == [n |-> 0, closed |-> FALSE]
<1>3. g_signals' = [g_signals EXCEPT ![G1Slot] = fresh]
  BY <1>2, ReopenDoes
<1>4. fresh.n = 0 /\ ~fresh.closed
  OBVIOUS
<1> HIDE DEF fresh
<1>5. QED BY <1>2, <1>3, <1>4, SlotFacts DEF Typed, Shared

\* Signals are not consumed before they are put.
Positive == \A g \in Groups : g_signals[g].n >= 0

LEMMA PositiveStep ==
  ASSUME Typed, SizeInv, \A w \in Waiters : Knows(w), Positive, [Next]_vars
  PROVE  Positive'
<1>0. \A g \in Groups : g_signals[g].n \in Int
  BY DEF Typed, Shared
<1>1. ASSUME NEW g \in Groups, NEW n \in Int, Added(g, n), g_signals[g].n + n >= 0 PROVE Positive'
  BY <1>1 DEF Positive, Added
<1>2. CASE UNCHANGED g_signals
  BY <1>2 DEF Positive
<1>3. ASSUME NEW w \in Waiters, WaiterActs(w) PROVE Positive'
  <2>1. CASE Grab(w)
    <3>1. local[w].g \in Groups
      BY LocalFacts, ThreadsAre
    <3>2. CASE pc'[w] = "check_steal"
      BY <1>0, <1>1, <2>1, <3>1, <3>2, GrabEffect
    <3>3. QED BY <1>2, <2>1, <3>2, GrabDoes
  <2>2. CASE UndoCas(w)
    BY <1>0, <1>1, <1>2, <2>2, UndoCasEffect, LocalFacts, ThreadsAre DEF Positive
  <2>3. QED BY <1>2, <1>3, <2>1, <2>2, WaiterFixed
<1>4. ASSUME NEW t \in Threads, SignalActs(t) PROVE Positive'
  <2>1. CASE AddFirst(t) \/ Add(t)
    BY <1>0, <1>1, <2>1, AddEffect, SlotFacts DEF Positive
  <2>2. CASE Quiesce(t)
    BY <1>2, <2>2, QuiesceDoes, QuiesceEffect DEF Positive
  <2>3. CASE Reopen(t)
    BY <2>3, ReopenEffect, SlotFacts DEF Positive
  <2>4. QED BY <1>2, <1>4, <2>1, <2>2, <2>3, SignalFixed
<1>5. QED BY <1>2, <1>3, <1>4, ActsAre DEF vars, condvar

\* A group is closed by the thread that is about to make it the new G2.
ClosedHeld ==
  \A g \in Groups : g_signals[g].closed =>
    \E t \in Threads : pc[t] \in Quiescing \cup {"reopen"} /\ local[t].g1 = g

LEMMA ClosedFacts ==
  ASSUME Typed, SizeInv, ClosedHeld
  PROVE  /\ ~g_signals[wseq.g2].closed
         /\ g_signals[G1Slot].closed => g_size[G1Slot] = 0
<1>1. ASSUME NEW t \in Threads, pc[t] \in Quiescing \cup {"reopen"} PROVE local[t].g1 = G1Slot /\ g_size[G1Slot] = 0
  <2>1. pc[t] \in Holding /\ pc[t] \in Emptied
    BY <1>1 DEF Holding, Emptied, Shifting
  <2>2. QED BY <2>1, HolderFacts
<1>2. QED BY <1>1, SlotFacts DEF ClosedHeld

LEMMA ClosedHeldStep ==
  ASSUME Typed, Mutex, SizeInv, ClosedHeld, [Next]_vars
  PROVE  ClosedHeld'
<1> DEFINE Q == Quiescing \cup {"reopen"}
<1>1. ASSUME NEW t \in Threads, Others(t), FlagsStay,
             pc[t] \in Q => pc'[t] \in Q /\ local'[t].g1 = local[t].g1
      PROVE  ClosedHeld'
  <2>1. \A u \in Threads : u # t => (pc[u] \in Q => pc'[u] \in Q /\ local'[u].g1 = local[u].g1)
    BY <1>1 DEF Others, Stays, Quiescing
  <2>2. QED BY <1>1, <2>1 DEF ClosedHeld, FlagsStay
<1>2. CASE UNCHANGED vars
  BY <1>2 DEF vars, condvar, ClosedHeld
<1>3. UNCHANGED g_signals => FlagsStay
  BY DEF FlagsStay
<1>4. ASSUME NEW w \in Waiters, WaiterActs(w) PROVE ClosedHeld'
  <2>1. FlagsStay
    <3>1. CASE Grab(w)
      <4>1. w \in Threads /\ local[w].g \in Groups
        BY ThreadsAre, LocalFacts
      <4>2. CASE g_signals' = [g_signals EXCEPT ![local[w].g].n = @ - 1]
        BY <4>1, <4>2 DEF FlagsStay, Typed, Shared
      <4>3. QED BY <1>3, <3>1, <4>2, GrabDoes DEF G
    <3>2. CASE UndoCas(w)
      BY <1>3, <3>2, UndoCasEffect DEF Added
    <3>3. QED BY <1>3, <1>4, <3>1, <3>2, WaiterFixed
  <2>2. Moves(w, Calm, Calm)
    BY <1>4, WaiterMoves DEF WaiterActs
  <2>3. pc[w] \notin Q
    BY <2>2, HoldingAre DEF Moves, Holding, Shifting
  <2>4. QED BY <1>1, <1>4, <2>1, <2>3, WaiterOthers, ThreadsAre
<1>5. ASSUME NEW t \in Threads, SignalActs(t) PROVE ClosedHeld'
  <2>1. Others(t)
    BY <1>5, SignalOthers
  <2>2. CASE Quiesce(t)
    <3>1. CASE Done(t)
      BY <1>1, <1>3, <2>1, <2>2, <3>1, QuiesceDoes, BackLabels DEF Done, Quiescing
    <3>2. CASE pc'[t] = "quiesce_refs" /\ Alike(t)
      <4>1. /\ g_signals'[wseq.g2].closed <=> g_signals[wseq.g2].closed
            /\ local[t].g1 = G1Slot
        BY <2>2, <3>2, QuiesceEffect
      <4>2. pc'[t] \in Q /\ local'[t].g1 = G1Slot
        BY <3>2, <4>1 DEF Alike, Places, Quiescing
      <4>3. ~g_signals[wseq.g2].closed
        BY ClosedFacts
      <4>4. ASSUME NEW g \in Groups, g_signals'[g].closed PROVE g = G1Slot
        BY <4>1, <4>3, <4>4, SlotFacts
      <4>5. QED BY <4>2, <4>4 DEF ClosedHeld
    <3>3. QED BY <2>2, <3>1, <3>2, QuiesceDoes
  <2>3. CASE Reopen(t)
    <3>1. ~g_signals'[G1Slot].closed /\ (g_signals'[wseq.g2].closed <=> g_signals[wseq.g2].closed)
      BY <2>3, ReopenEffect
    <3>2. ASSUME NEW g \in Groups PROVE ~g_signals'[g].closed
      BY <3>1, ClosedFacts, SlotFacts
    <3>3. QED BY <3>2 DEF ClosedHeld
  <2>4. CASE AddFirst(t) \/ Add(t)
    BY <1>1, <2>1, <2>4, AddEffect, AddDoes DEF Added, Quiescing
  <2>5. CASE UNCHANGED g_signals
    <3>1. CASE QuiesceRefs(t) \/ QuiesceRequest(t) \/ QuiesceWait(t) \/ Close(t)
      BY <1>1, <1>3, <2>1, <2>5, <3>1, QuiesceRefsDoes, QuiesceRequestDoes, QuiesceWaitDoes, CloseDoes
         DEF Quiescing, Alike, Places
    <3>2. CASE CheckRefs(t) \/ Lock(t) \/ WakeFirst(t) \/ WakeSignalled(t) \/ Switch(t)
      BY <1>1, <1>3, <2>1, <2>5, <3>2, CheckRefsDoes, LockDoes, WakeFirstDoes, WakeSignalledDoes, SwitchDoes
         DEF Quiescing
    <3>3. CASE \E all \in Kinds : Call(t, all)
      BY <1>1, <1>3, <2>1, <2>5, <3>3, KindsAre, CallDoes DEF Quiescing
    <3>4. CASE Destroy(t) \/ DestroyWait(t) \/ DestroyLoad(t)
      BY <1>1, <1>3, <2>1, <2>5, <3>4, DestroyDoes DEF Quiescing, DestroyLabels
    <3>5. QED BY <1>5, <2>2, <2>3, <2>4, <3>1, <3>2, <3>3, <3>4 DEF SignalActs, SignalStep
  <2>6. QED BY <1>5, <2>2, <2>3, <2>4, <2>5, SignalFixed
<1>6. QED BY <1>2, <1>4, <1>5, ActsAre

\* About to add a signal again.
Undo == {"undo_load", "undo_check", "undo_cas"}

\* The copy of g1_start is that of an earlier group in the same slot, or of the current one.
Began(w) ==
  pc[w] \in Undo =>
    /\ local[w].start.pos > 0 /\ local[w].start.pos <= g1_start.pos
    /\ local[w].start.g2 = 1 - local[w].g
    /\ local[w].start.pos = g1_start.pos => local[w].start = g1_start
    /\ local[w].start = g1_start /\ pc[w] = "undo_check" /\ local[w].closed => g_signals[local[w].g].closed

LEMMA StartType ==
  ASSUME Typed, NEW t \in Threads
  PROVE  local[t].start.pos \in Int /\ local[t].start.g2 \in Groups /\ local[t].start \in [pos : Int, g2 : Groups]
<1>1. local[t] \in Locals
  BY DEF Typed, Own
<1>2. local[t].start \in [pos : Int, g2 : Groups]
  BY <1>1 DEF Locals
<1>3. QED BY <1>2

LEMMA StaysUndo ==
  ASSUME NEW u, Stays(u), pc'[u] \in Undo
  PROVE  pc'[u] = pc[u] /\ local'[u] = local[u]
BY DEF Stays, Undo

LEMMA SameBegan ==
  ASSUME Typed, NEW u \in Threads, Began(u), pc'[u] = pc[u], local'[u] = local[u], UNCHANGED g1_start,
         g_signals[local[u].g].closed => g_signals'[local[u].g].closed
  PROVE  Began(u)'
BY DEF Began

LEMMA WaiterBegan ==
  ASSUME Typed, NEW w \in Waiters, WaiterActs(w), Began(w)
  PROVE  Began(w)'
<1>1. w \in Threads /\ UNCHANGED g1_start
  BY WaiterFixed DEF Fixed
<1>2. ASSUME pc'[w] \notin Undo PROVE Began(w)'
  BY <1>2 DEF Began
<1>3. ASSUME Looks(w), UNCHANGED g_signals, pc[w] \in Undo PROVE Began(w)'
  BY <1>1, <1>3 DEF Looks, Began
<1>4. CASE CheckSteal(w)
  <2>1. CASE pc'[w] = "undo_load"
    <3>1. /\ local[w].seq < g1_start.pos /\ 1 - g1_start.g2 = local[w].g
          /\ local'[w].g = local[w].g /\ local'[w].start = g1_start
      BY <1>4, <2>1, CheckStealDoes
    <3>2. local[w].seq \in Nat /\ g1_start.pos \in Int /\ g1_start.g2 \in Int
      BY <1>1, LocalFacts DEF Typed, Shared, Groups
    <3>3. g1_start.g2 = 1 - local[w].g /\ g1_start.pos > 0
      BY <3>1, <3>2
    <3>4. QED BY <1>1, <2>1, <3>1, <3>2, <3>3 DEF Began
  <2>2. QED BY <1>2, <1>4, <2>1, CheckStealDoes DEF Undo
<1>5. CASE UndoLoad(w)
  BY <1>3, <1>5, UndoLoadDoes, WaiterFixed DEF Undo, UndoLoad, condvar
<1>6. CASE UndoCheck(w)
  <2>1. CASE pc'[w] = "undo_cas" /\ local'[w] = local[w]
    BY <1>1, <1>6, <2>1, UndoCheckDoes DEF Began, Undo
  <2>2. QED BY <1>2, <1>6, <2>1, UndoCheckDoes DEF Undo
<1>7. CASE UndoCas(w)
  BY <1>2, <1>3, <1>7, UndoCasDoes DEF Undo
<1>8. CASE ~(CheckSteal(w) \/ UndoLoad(w) \/ UndoCheck(w) \/ UndoCas(w))
  <2>1. ASSUME Consider(w) PROVE pc'[w] \notin Undo
    BY <2>1, ConsiderDoes DEF Undo
  <2>2. CASE Wait(w) \/ Register(w) \/ Load(w) \/ TakeRef(w) \/ CheckClosed(w) \/ CheckStart(w)
    BY <1>2, <2>1, <2>2, WaitDoes, RegisterDoes, TakeRefDoes, CheckClosedDoes, CheckStartDoes DEF Load, Undo
  <2>3. CASE FutexWait(w) \/ SpuriousWake(w) \/ DropRef(w) \/ ClearRequest(w) \/ WakeRefs(w)
    BY <1>2, <2>3, FutexWaitDoes, SpuriousWakeDoes, DropRefDoes, ClearRequestDoes, WakeRefsDoes DEF Undo, Aims
  <2>4. ASSUME NEW how \in Interrupts \cap {"timed_out", "cancelled"}, GiveUp(w, how) PROVE Began(w)'
    BY <1>2, <2>4, GiveUpDoes DEF Undo
  <2>5. CASE Grab(w) \/ Cancel(w)
    BY <1>2, <2>1, <2>5, GrabDoes, CancelDoes DEF Undo, Gone
  <2>6. CASE UndoWake(w) \/ CleanupWake(w) \/ Confirm(w) \/ WakeDestroyer(w)
    BY <1>2, <2>6, PassOnDoes, ConfirmDoes, WakeDestroyerDoes DEF Undo
  <2>7. QED BY <1>8, <2>2, <2>3, <2>4, <2>5, <2>6 DEF WaiterActs, WaiterStep
<1>9. QED BY <1>4, <1>5, <1>6, <1>7, <1>8

LEMMA WaiterFlags ==
  ASSUME Typed, NEW w \in Waiters, WaiterActs(w)
  PROVE  FlagsStay
<1>1. UNCHANGED g_signals => FlagsStay
  BY DEF FlagsStay
<1>2. CASE Grab(w)
  <2>1. w \in Threads /\ local[w].g \in Groups
    BY ThreadsAre, LocalFacts
  <2>2. CASE g_signals' = [g_signals EXCEPT ![local[w].g].n = @ - 1]
    BY <2>1, <2>2 DEF FlagsStay, Typed, Shared
  <2>3. QED BY <1>1, <1>2, <2>2, GrabDoes DEF G
<1>3. CASE UndoCas(w)
  BY <1>1, <1>3, UndoCasEffect DEF Added
<1>4. QED BY <1>1, <1>2, <1>3, WaiterFixed

LEMMA SignalFlags ==
  ASSUME Typed, SizeInv, NEW t \in Threads, SignalActs(t)
  PROVE  Reopen(t) \/ \A g \in Groups : g_signals[g].closed => g_signals'[g].closed
<1>1. CASE UNCHANGED g_signals
  BY <1>1
<1>2. CASE Quiesce(t)
  <2>1. CASE pc'[t] = "quiesce_refs"
    BY <1>2, <2>1, QuiesceEffect, SlotFacts
  <2>2. QED BY <1>1, <1>2, <2>1, QuiesceDoes
<1>3. CASE AddFirst(t) \/ Add(t)
  BY <1>3, AddEffect DEF Added, FlagsStay
<1>4. QED BY <1>1, <1>2, <1>3, SignalFixed

LEMMA BeganStep ==
  ASSUME Typed, Mutex, SizeInv, Ahead, \A w \in Waiters : Began(w), [Next]_vars
  PROVE  \A w \in Waiters : Began(w)'
<1>1. CASE UNCHANGED vars
  BY <1>1 DEF vars, condvar, Began
<1>2. ASSUME NEW w \in Waiters, WaiterActs(w), NEW v \in Waiters PROVE Began(v)'
  <2>1. CASE v = w
    BY <1>2, <2>1, WaiterBegan
  <2>2. CASE v # w /\ pc'[v] \in Undo
    <3>1. v \in Threads /\ local[v].g \in Groups
      BY ThreadsAre, LocalFacts
    <3>2. pc'[v] = pc[v] /\ local'[v] = local[v]
      BY <1>2, <2>2, <3>1, WaiterOthers, StaysUndo DEF Others
    <3>3. UNCHANGED g1_start /\ FlagsStay
      BY <1>2, WaiterFixed, WaiterFlags DEF Fixed
    <3>4. QED BY <3>1, <3>2, <3>3, SameBegan DEF FlagsStay
  <2>3. QED BY <2>1, <2>2 DEF Began
<1>3. ASSUME NEW t \in Threads, SignalActs(t), NEW v \in Waiters PROVE Began(v)'
  <2>1. SUFFICES ASSUME pc'[v] \in Undo PROVE Began(v)'
    BY DEF Began
  <2>2. v # t
    <3>1. t \in Waiters => pc'[t] \notin Undo
      <4>1. CASE CheckRefs(t) \/ Lock(t) \/ AddFirst(t) \/ Add(t) \/ WakeFirst(t)
        BY <4>1, CheckRefsDoes, LockDoes, AddDoes, WakeFirstDoes, BackLabels DEF Undo, Done
      <4>2. CASE WakeSignalled(t) \/ Quiesce(t) \/ QuiesceRefs(t) \/ QuiesceRequest(t) \/ QuiesceWait(t)
        BY <4>2, WakeSignalledDoes, QuiesceDoes, QuiesceRefsDoes, QuiesceRequestDoes, QuiesceWaitDoes, BackLabels
           DEF Undo, Done
      <4>3. CASE Close(t) \/ Reopen(t) \/ Switch(t)
        BY <4>3, CloseDoes, ReopenDoes, SwitchDoes, BackLabels DEF Undo, Done
      <4>4. CASE Destroy(t) \/ DestroyWait(t) \/ DestroyLoad(t)
        BY <4>4, DestroyDoes DEF Undo, DestroyLabels
      <4>5. CASE \E all \in Kinds : Call(t, all)
        BY <4>5, KindsAre, CallDoes DEF Undo
      <4>6. QED BY <1>3, <4>1, <4>2, <4>3, <4>4, <4>5 DEF SignalActs, SignalStep
    <3>2. QED BY <2>1, <3>1
  <2>3. v \in Threads /\ local[v].g \in Groups /\ Began(v)
    BY ThreadsAre, LocalFacts
  <2>4. pc'[v] = pc[v] /\ local'[v] = local[v]
    BY <1>3, <2>1, <2>2, <2>3, SignalOthers, StaysUndo DEF Others
  <2>5. CASE Close(t)
    <3>1. pc[t] = "close" /\ g1_start'.pos = g1_start.pos + orig_size
      BY <2>5, CloseDoes
    <3>2. pc[t] \in Holding /\ pc[t] \notin Shifting
      BY <3>1 DEF Holding, Quiescing, Shifting
    <3>3. ~Shift
      BY <1>3, <3>2, SignalOthers, HoldsAlone, HoldingAre DEF Shift
    <3>4. g1_start.pos > 0 => orig_size > 0
      BY <3>3 DEF Ahead
    <3>5. /\ local[v].start.pos > 0 /\ local[v].start.pos <= g1_start.pos
          /\ local[v].start.g2 = 1 - local[v].g
      BY <2>1, <2>3, <2>4 DEF Began
    <3>6. local[v].start.pos \in Int /\ g1_start.pos \in Int /\ orig_size \in Int
      BY <2>3, StartType, GroupFacts
    <3>7. local[v].start.pos < g1_start'.pos
      BY <3>1, <3>4, <3>5, <3>6
    <3>8. g1_start'.pos \in Int
      BY <3>1, <3>6
    <3>9. local[v].start # g1_start' /\ local[v].start.pos # g1_start'.pos /\ local[v].start.pos <= g1_start'.pos
      BY <3>6, <3>7, <3>8
    <3>10. QED BY <2>4, <3>5, <3>9 DEF Began
  <2>6. CASE Reopen(t)
    <3>1. pc[t] = "reopen" /\ UNCHANGED g1_start
      BY <2>6, ReopenDoes DEF Reopen
    <3>2. Shift
      BY <3>1 DEF Shift, Shifting
    <3>3. g1_start.g2 = G1Slot
      BY <3>2 DEF SizeInv, Roles, G1Slot
    <3>4. local[v].start = g1_start => local[v].g = wseq.g2
      <4>1. local[v].start.g2 = 1 - local[v].g
        BY <2>1, <2>3, <2>4 DEF Began
      <4>2. local[v].start = g1_start => 1 - local[v].g = 1 - wseq.g2
        BY <3>3, <4>1 DEF G1Slot
      <4>3. local[v].g \in {0, 1} /\ wseq.g2 \in {0, 1}
        BY <2>3, SlotFacts DEF Groups
      <4>4. QED BY <4>2, <4>3
    <3>5. g_signals'[wseq.g2] = g_signals[wseq.g2]
      BY <2>6, ReopenEffect
    <3>6. QED BY <2>3, <2>4, <3>1, <3>4, <3>5 DEF Began
  <2>7. CASE ~Close(t) /\ ~Reopen(t)
    <3>1. UNCHANGED g1_start
      BY <1>3, <2>7, SignalFixed DEF Fixed, Switch
    <3>2. QED BY <1>3, <2>3, <2>4, <2>7, <3>1, SignalFlags, SameBegan
  <2>8. QED BY <2>5, <2>6, <2>7
<1>4. QED BY <1>1, <1>2, <1>3, ActsAre

-----------------------------------------------------------------------------
(* Counting. *)

One(t, S) == IF t \in S THEN 1 ELSE 0

LEMMA ThreadSets ==
  ASSUME NEW S \in SUBSET Threads
  PROVE  IsFiniteSet(S) /\ Cardinality(S) \in Nat
BY CondVarAssumption, FS_Subset, FS_CardinalityType

\* A set changes for one thread.
LEMMA Recount ==
  ASSUME NEW S \in SUBSET Threads, NEW T \in SUBSET Threads, NEW t,
         \A u \in Threads : u # t => (u \in T <=> u \in S)
  PROVE  /\ Cardinality(S) \in Nat /\ Cardinality(T) \in Nat
         /\ Cardinality(T) = Cardinality(S) + One(t, T) - One(t, S)
<1>1. IsFiniteSet(S) /\ IsFiniteSet(T) /\ Cardinality(S) \in Nat /\ Cardinality(T) \in Nat
  BY ThreadSets
<1>2. CASE (t \in T <=> t \in S)
  <2>1. T = S
    BY <1>2
  <2>2. QED BY <1>1, <2>1 DEF One
<1>3. CASE t \in T /\ t \notin S
  <2>1. T = S \cup {t}
    BY <1>3
  <2>2. Cardinality(T) = Cardinality(S) + 1
    BY <1>1, <1>3, <2>1, FS_AddElement
  <2>3. QED BY <1>1, <1>3, <2>2 DEF One
<1>4. CASE t \notin T /\ t \in S
  <2>1. T = S \ {t}
    BY <1>4
  <2>2. Cardinality(T) = Cardinality(S) - 1
    BY <1>1, <1>4, <2>1, FS_RemoveElement
  <2>3. QED BY <1>1, <1>4, <2>2 DEF One
<1>5. QED BY <1>2, <1>3, <1>4

\* A set loses for the others, and one thread may join it.
LEMMA Recount_Less ==
  ASSUME NEW S \in SUBSET Threads, NEW T \in SUBSET Threads, T \subseteq S
  PROVE  Cardinality(T) <= Cardinality(S) /\ Cardinality(S) \in Nat /\ Cardinality(T) \in Nat
BY ThreadSets, FS_Subset

LEMMA Recount_Disjoint ==
  ASSUME NEW S \in SUBSET Threads, NEW T \in SUBSET Threads, NEW U \in SUBSET Threads,
         S \cap T = {}, S \subseteq U, T \subseteq U
  PROVE  /\ Cardinality(S) + Cardinality(T) <= Cardinality(U)
         /\ Cardinality(S) \in Nat /\ Cardinality(T) \in Nat /\ Cardinality(U) \in Nat
<1>1. IsFiniteSet(S) /\ IsFiniteSet(T) /\ IsFiniteSet(U) /\ Cardinality(S) \in Nat /\ Cardinality(T) \in Nat
      /\ Cardinality(U) \in Nat
  BY ThreadSets
<1>2. Cardinality(S \cup T) = Cardinality(S) + Cardinality(T) - Cardinality(S \cap T)
  BY <1>1, FS_Union
<1>3. Cardinality(S \cap T) = 0
  BY FS_EmptySet
<1>4. S \cup T \subseteq U
  OBVIOUS
<1>5. Cardinality(S \cup T) <= Cardinality(U)
  BY <1>1, <1>4, FS_Subset
<1>6. QED BY <1>1, <1>2, <1>3, <1>5

-----------------------------------------------------------------------------
(* The waiters of G1 and those who owe them a signal or a wake-up. *)

Member(w) ==
  pc[w] \in Unsettled /\ local[w].seq >= g1_start.pos /\ local[w].seq < Frontier

Members == {w \in Waiters : Member(w)}

\* With a signal of the current G1 that a waiter of an older group has consumed, and that
\* it is about to add again.
Thief(w) ==
  /\ local[w].g = G1Slot
  /\ \/ pc[w] = "check_steal" /\ local[w].seq < g1_start.pos
     \/ pc[w] \in Undo /\ local[w].start = g1_start

Thieves == {w \in Waiters : Thief(w)}

\* The waiters of G1 have a signal, are not yet signalled, or had theirs stolen.
Enough ==
  ~g_signals[G1Slot].closed =>
    Cardinality(Members) <= g_signals[G1Slot].n + g_size[G1Slot] + Cardinality(Thieves)

\* May give up before the next look at the signals.
Blind == {"register", "take_ref", "check_closed", "check_start", "futex_wait"}

\* Waiters of G1 that saw no signal and may give up, or did, without passing a wake-up on.
Doomed == {w \in Waiters : Member(w) /\ (pc[w] \in Blind \/ local[w].ended \in {"timed_out", "not_unlocked"})}

\* About to wake a waiter of G1.
Rescuer(t) ==
  \/ Thief(t)
  \/ pc[t] = "wake" /\ local[t].g1 = G1Slot
  \/ pc[t] \in {"undo_wake", "cleanup_wake"} /\ local[t].g = G1Slot

Rescuers == {t \in Threads : Rescuer(t)}

\* About to wake all waiters of G1.
Waker(t) == local[t].g1 = G1Slot /\ (pc[t] = "wake_first" \/ (pc[t] = "wake" /\ local[t].all))

Sleepers == Asleep(G1Slot)

\* Every sleeper of G1 is still to be signalled, or somebody is about to wake it.
Attended ==
  \/ Sleepers = {}
  \/ \E t \in Threads : Waker(t)
  \/ Cardinality(Sleepers) + Cardinality(Doomed) <= g_size[G1Slot] + Cardinality(Rescuers)

LEMMA SetsAre ==
  /\ Members \in SUBSET Threads /\ Thieves \in SUBSET Threads /\ Doomed \in SUBSET Threads
  /\ Rescuers \in SUBSET Threads /\ Sleepers \in SUBSET Threads /\ Newcomers \in SUBSET Threads
  /\ Thieves \subseteq Rescuers
BY ThreadsAre DEF Members, Thieves, Doomed, Rescuers, Rescuer, Sleepers, Asleep, Newcomers

\* A thread that does not act stays where it is.
LEMMA StaysIn ==
  ASSUME Typed, Fixed, NEW u \in Threads, Stays(u)
  PROVE  /\ u \in Members' <=> u \in Members
         /\ u \in Thieves' <=> u \in Thieves
         /\ u \in Doomed' <=> u \in Doomed
         /\ u \in Rescuers' <=> u \in Rescuers
         /\ u \in Newcomers' <=> u \in Newcomers
         /\ Waker(u)' <=> Waker(u)
         /\ u \in Sleepers' => u \in Sleepers
<1> DEFINE Same == pc'[u] = pc[u] /\ local'[u] = local[u]
<1>1. CASE Same
  BY <1>1 DEF Fixed, Members, Member, Thieves, Thief, Doomed, Blind, Rescuers, Rescuer, Newcomers, Waker, Sleepers,
     Asleep, G1Slot, G
<1>2. CASE pc[u] = "asleep" /\ pc'[u] = "drop_ref" /\ local'[u] = [local[u] EXCEPT !.to = "load"]
  <2>1. Alike(u) /\ local'[u].ended = local[u].ended
    BY <1>2, WokenFields
  <2>2. pc[u] \in Unsettled /\ pc'[u] \in Unsettled
    BY <1>2 DEF Unsettled, UserLabels
  <2>3. QED
    BY <1>2, <2>1, <2>2 DEF Alike, Places, Fixed, Members, Member, Thieves, Thief, Doomed, Blind, Rescuers, Rescuer,
       Newcomers, Waker, Sleepers, Asleep, G1Slot, G, Undo
<1>3. CASE \/ pc[u] = "quiesce_asleep" /\ pc'[u] = "quiesce_refs" /\ local'[u] = local[u]
           \/ pc[u] = "destroy_asleep" /\ pc'[u] = "destroy_load" /\ local'[u] = local[u]
  <2>1. pc[u] \notin Unsettled /\ pc'[u] \notin Unsettled
    BY <1>3 DEF Unsettled, UserLabels
  <2>2. QED
    BY <1>3, <2>1 DEF Members, Member, Thieves, Thief, Doomed, Rescuers, Rescuer, Newcomers, Waker, Sleepers, Asleep, Undo
<1>4. QED BY <1>1, <1>2, <1>3 DEF Stays

\* What the acting thread changes.
LEMMA Changes ==
  ASSUME Typed, Fixed, NEW t \in Threads, Others(t)
  PROVE  /\ Cardinality(Members') = Cardinality(Members) + One(t, Members') - One(t, Members)
         /\ Cardinality(Thieves') = Cardinality(Thieves) + One(t, Thieves') - One(t, Thieves)
         /\ Cardinality(Doomed') = Cardinality(Doomed) + One(t, Doomed') - One(t, Doomed)
         /\ Cardinality(Rescuers') = Cardinality(Rescuers) + One(t, Rescuers') - One(t, Rescuers)
         /\ Cardinality(Newcomers') = Cardinality(Newcomers) + One(t, Newcomers') - One(t, Newcomers)
         /\ Sleepers' \ {t} \subseteq Sleepers
<1>1. ASSUME NEW u \in Threads, u # t
      PROVE  /\ u \in Members' <=> u \in Members
             /\ u \in Thieves' <=> u \in Thieves
             /\ u \in Doomed' <=> u \in Doomed
             /\ u \in Rescuers' <=> u \in Rescuers
             /\ u \in Newcomers' <=> u \in Newcomers
             /\ u \in Sleepers' => u \in Sleepers
  BY <1>1, StaysIn DEF Others
<1>2. /\ Members' \in SUBSET Threads /\ Thieves' \in SUBSET Threads /\ Doomed' \in SUBSET Threads
      /\ Rescuers' \in SUBSET Threads /\ Sleepers' \in SUBSET Threads /\ Newcomers' \in SUBSET Threads
  BY ThreadsAre DEF Members, Thieves, Doomed, Rescuers, Sleepers, Asleep, Newcomers
<1>3. Cardinality(Members') = Cardinality(Members) + One(t, Members') - One(t, Members)
  BY <1>1, <1>2, SetsAre, Recount
<1>4. Cardinality(Thieves') = Cardinality(Thieves) + One(t, Thieves') - One(t, Thieves)
  BY <1>1, <1>2, SetsAre, Recount
<1>5. Cardinality(Doomed') = Cardinality(Doomed) + One(t, Doomed') - One(t, Doomed)
  BY <1>1, <1>2, SetsAre, Recount
<1>6. Cardinality(Rescuers') = Cardinality(Rescuers) + One(t, Rescuers') - One(t, Rescuers)
  BY <1>1, <1>2, SetsAre, Recount
<1>7. Cardinality(Newcomers') = Cardinality(Newcomers) + One(t, Newcomers') - One(t, Newcomers)
  BY <1>1, <1>2, SetsAre, Recount
<1>8. Sleepers' \ {t} \subseteq Sleepers
  BY <1>1, <1>2
<1>9. QED BY <1>3, <1>4, <1>5, <1>6, <1>7, <1>8

LEMMA CountTypes ==
  /\ Cardinality(Members) \in Nat /\ Cardinality(Thieves) \in Nat /\ Cardinality(Doomed) \in Nat
  /\ Cardinality(Rescuers) \in Nat /\ Cardinality(Sleepers) \in Nat /\ Cardinality(Newcomers) \in Nat
BY SetsAre, ThreadSets

LEMMA CountTypesNext ==
  /\ Cardinality(Members') \in Nat /\ Cardinality(Thieves') \in Nat /\ Cardinality(Doomed') \in Nat
  /\ Cardinality(Rescuers') \in Nat /\ Cardinality(Sleepers') \in Nat /\ Cardinality(Newcomers') \in Nat
  /\ Members' \in SUBSET Threads /\ Thieves' \in SUBSET Threads /\ Doomed' \in SUBSET Threads
  /\ Rescuers' \in SUBSET Threads /\ Sleepers' \in SUBSET Threads /\ Newcomers' \in SUBSET Threads
  /\ Thieves' \subseteq Rescuers'
<1>1. /\ Members' \in SUBSET Threads /\ Thieves' \in SUBSET Threads /\ Doomed' \in SUBSET Threads
      /\ Rescuers' \in SUBSET Threads /\ Sleepers' \in SUBSET Threads /\ Newcomers' \in SUBSET Threads
      /\ Thieves' \subseteq Rescuers'
  BY ThreadsAre DEF Members, Thieves, Doomed, Rescuers, Rescuer, Sleepers, Asleep, Newcomers
<1>2. QED BY <1>1, ThreadSets

\* The next state's values.
LEMMA NextFacts ==
  ASSUME Typed'
  PROVE  /\ G1Slot' \in Groups /\ wseq'.g2 \in Groups /\ G1Slot' # wseq'.g2
         /\ \A g \in Groups : g_signals'[g].n \in Int /\ g_size'[g] \in Int
         /\ g1_start'.pos \in Int /\ wseq'.pos \in Nat /\ orig_size' \in Int /\ Frontier' \in Int
         /\ \A t \in Threads : local'[t].seq \in Nat
         /\ \A g \in Groups : g = G1Slot' \/ g = wseq'.g2
<1>1. wseq'.g2 \in {0, 1}
  BY DEF Typed, Shared, Groups
<1>2. G1Slot' \in Groups /\ wseq'.g2 \in Groups /\ G1Slot' # wseq'.g2 /\ \A g \in Groups : g = G1Slot' \/ g = wseq'.g2
  BY <1>1 DEF G1Slot, Groups
<1>3. \A g \in Groups : g_signals'[g].n \in Int /\ g_size'[g] \in Int
  BY DEF Typed, Shared
<1>4. g1_start'.pos \in Int /\ wseq'.pos \in Nat /\ orig_size' \in Int
  BY DEF Typed, Shared
<1>5. \A t \in Threads : local'[t].seq \in Nat
  BY DEF Typed, Own, Locals
<1>6. QED BY <1>2, <1>3, <1>4, <1>5 DEF Frontier

LEMMA EnoughLess ==
  ASSUME Typed, Typed', Fixed, Enough, NEW t \in Threads, Others(t),
         t \in Members' => t \in Members, t \in Thieves => t \in Thieves',
         ~g_signals'[G1Slot].closed => ~g_signals[G1Slot].closed,
         g_signals'[G1Slot].n + g_size'[G1Slot] >= g_signals[G1Slot].n + g_size[G1Slot]
  PROVE  Enough'
<1>1. G1Slot' = G1Slot
  BY DEF Fixed, G1Slot
<1>2. Cardinality(Members') <= Cardinality(Members) /\ Cardinality(Thieves') >= Cardinality(Thieves)
  BY Changes, CountTypes DEF One
<1>3. /\ g_signals'[G1Slot].n \in Int /\ g_size'[G1Slot] \in Int
      /\ g_signals[G1Slot].n \in Int /\ g_size[G1Slot] \in Int
  BY <1>1, SlotFacts, NextFacts
<1>4. QED BY <1>1, <1>2, <1>3, CountTypes, CountTypesNext DEF Enough

\* Between the two halves of a change of groups nobody is in G1.
LEMMA EnoughShift ==
  ASSUME Typed', SizeInv', Positive', Shift'
  PROVE  Enough'
<1>1. Frontier' = g1_start'.pos
  BY DEF Frontier
<1>2. Members' = {}
  BY <1>1, NextFacts, ThreadsAre DEF Members, Member
<1>3. Cardinality(Members') = 0
  BY <1>2, FS_EmptySet
<1>4. g_signals'[G1Slot'].n >= 0 /\ g_size'[G1Slot'] >= 0
  BY NextFacts DEF Positive, SizeInv, Roles, G1Slot
<1>5. QED BY <1>3, <1>4, NextFacts, CountTypesNext DEF Enough

\* The steps of a waiter that has a position and keeps it.
Strolls(w) == pc[w] \in Unsettled /\ pc'[w] \in Unsettled /\ Alike(w)

\* Neither to sleep nor to give up, and past the signals only if there are none.
Quietly(w) ==
  /\ pc'[w] \notin {"asleep", "register"} /\ (pc[w] = "register" \/ local'[w].ended = local[w].ended)
  /\ pc'[w] \in Blind => pc[w] \in Blind \/ (~g_signals[G(w)].closed /\ ~(g_signals[G(w)].n > 0))

GivesUp(w) == \E how \in {"timed_out", "cancelled"} : GiveUp(w, how)

\* Where a settled waiter goes on, without a stolen signal.
Settled == {"confirm", "signal", "cleanup_wake", "undo_wake", "idle", "wake_destroyer"}

LEMMA SettledOut ==
  ASSUME NEW w, pc'[w] \in Settled
  PROVE  w \notin Members' /\ w \notin Thieves'
BY DEF Members, Member, Thieves, Thief, Settled, Unsettled, UserLabels, Undo

LEMMA UnsettledNoThief ==
  ASSUME NEW w, pc[w] \in Unsettled
  PROVE  w \notin Thieves
BY DEF Thieves, Thief, Unsettled, UserLabels, Undo

LEMMA StrollMember ==
  ASSUME NEW w, Strolls(w), Fixed
  PROVE  w \in Members' <=> w \in Members
BY DEF Strolls, Alike, Places, Members, Member, Fixed

\* What the steps of a waiter are to the counts.
LEMMA WaiterSteps ==
  ASSUME Typed, NEW w \in Waiters, WaiterActs(w)
  PROVE  \/ Wait(w)
         \/ Strolls(w) /\ UNCHANGED <<g_signals, g_size>> /\ (FutexWait(w) \/ GivesUp(w) \/ Quietly(w))
         \/ pc[w] \in Unsettled /\ pc'[w] = "confirm" /\ Reduced(w) /\ UNCHANGED <<g_signals, g_size>>
         \/ Grab(w) /\ pc'[w] = "check_steal"
         \/ Cancel(w) \/ CheckSteal(w) \/ UndoLoad(w) \/ UndoCheck(w) \/ UndoCas(w)
         \/ /\ UndoWake(w) \/ CleanupWake(w) \/ Confirm(w) \/ WakeDestroyer(w)
            /\ UNCHANGED <<g_signals, g_size>>
         \/ /\ pc[w] \in {"drop_ref", "wake_refs"} /\ local[w].to = "confirm" /\ pc'[w] = "confirm"
            /\ local'[w].ended = local[w].ended /\ UNCHANGED <<g_signals, g_size>>
<1>1. CASE Wait(w) \/ Cancel(w) \/ CheckSteal(w) \/ UndoLoad(w) \/ UndoCheck(w) \/ UndoCas(w)
  BY <1>1
<1>2. CASE UndoWake(w) \/ CleanupWake(w) \/ Confirm(w) \/ WakeDestroyer(w)
  BY <1>2 DEF UndoWake, CleanupWake, Confirm, WakeDestroyer, condvar
<1>3. ASSUME Consider(w), UNCHANGED <<g_signals, g_size>>, pc[w] \in {"load", "grab"}
      PROVE  \/ Strolls(w) /\ Quietly(w)
             \/ pc[w] \in Unsettled /\ pc'[w] = "confirm" /\ Reduced(w)
  BY <1>3, ConsiderDoes DEF Strolls, Quietly, Blind, Unsettled
<1>4. CASE Load(w)
  BY <1>3, <1>4 DEF Load, condvar
<1>5. CASE Grab(w)
  BY <1>3, <1>5, GrabDoes DEF Grab
<1>6. CASE Register(w) \/ TakeRef(w) \/ CheckClosed(w) \/ CheckStart(w)
  <2>1. UNCHANGED <<g_signals, g_size>>
    BY <1>6 DEF Register, TakeRef, CheckClosed, CheckStart, condvar
  <2>2. Strolls(w) /\ Quietly(w)
    BY <1>6, RegisterDoes, TakeRefDoes, CheckClosedDoes, CheckStartDoes DEF Strolls, Quietly, Blind, Unsettled, UserLabels
  <2>3. QED BY <2>1, <2>2
<1>7. CASE FutexWait(w) \/ SpuriousWake(w) \/ ClearRequest(w)
  <2>1. UNCHANGED <<g_signals, g_size>>
    BY <1>7 DEF FutexWait, SpuriousWake, ClearRequest, condvar
  <2>2. Strolls(w) /\ (FutexWait(w) \/ Quietly(w))
    BY <1>7, FutexWaitDoes, SpuriousWakeDoes, ClearRequestDoes DEF Strolls, Quietly, Blind, Unsettled, UserLabels
  <2>3. QED BY <2>1, <2>2
<1>8. ASSUME NEW how \in Interrupts \cap {"timed_out", "cancelled"}, GiveUp(w, how)
      PROVE  Strolls(w) /\ UNCHANGED <<g_signals, g_size>> /\ GivesUp(w)
  BY <1>8, GiveUpDoes DEF Strolls, Unsettled, UserLabels, GiveUp, GivesUp, condvar
<1>9. CASE DropRef(w) \/ WakeRefs(w)
  <2>1. UNCHANGED <<g_signals, g_size>>
    BY <1>9 DEF DropRef, WakeRefs, condvar
  <2>2. /\ Alike(w) /\ local'[w].ended = local[w].ended /\ pc[w] \in {"drop_ref", "wake_refs"}
        /\ pc'[w] = "clear_request" \/ (pc'[w] = local[w].to /\ Aims(w))
    BY <1>9, DropRefDoes, WakeRefsDoes
  <2>3. CASE pc'[w] = "confirm"
    BY <2>1, <2>2, <2>3
  <2>4. CASE pc'[w] # "confirm"
    BY <2>1, <2>2, <2>4 DEF Strolls, Quietly, Blind, Aims, Unsettled, UserLabels
  <2>5. QED BY <2>3, <2>4
<1>10. QED BY <1>1, <1>2, <1>4, <1>5, <1>6, <1>7, <1>8, <1>9 DEF WaiterActs, WaiterStep

\* The other facts about a state.
LocalInv == (\A w \in Waiters : Knows(w) /\ Began(w)) /\ Positive /\ Ahead /\ ClosedHeld

LEMMA SwitchEffect ==
  ASSUME Typed, Mutex, SizeInv, NEW t \in Threads, Switch(t)
  PROVE  /\ pc[t] = "switch" /\ Only(t) /\ Others(t) /\ UNCHANGED <<g1_start, g_signals>>
         /\ wseq'.pos = wseq.pos /\ wseq'.g2 = G1Slot /\ G1Slot' = wseq.g2
         /\ Shift /\ ~Shift' /\ Frontier = g1_start.pos /\ Frontier' = wseq.pos
         /\ g_size'[wseq.g2] = g_size[wseq.g2] + wseq.pos - Frontier
         /\ g_size[G1Slot] = 0 /\ g_size'[G1Slot] = 0
         /\ pc'[t] = "add" \/ Done(t)
         /\ pc'[t] = "add" <=> g_size'[wseq.g2] # 0
         /\ pc'[t] # "add" => ~lock'
<1>1. pc[t] = "switch" /\ Only(t) /\ Others(t)
  BY SwitchDoes, OnlyOthers
<1>2. pc[t] \in Holding /\ pc[t] \in Shifting /\ pc[t] \in Emptied
  BY <1>1, HoldingAre DEF Shifting, Emptied
<1>3. /\ local[t].g1 = G1Slot /\ 1 - local[t].g1 = wseq.g2 /\ g_size[G1Slot] = 0 /\ Shift /\ Frontier = g1_start.pos
  BY <1>2, HolderFacts
<1>4. /\ UNCHANGED <<g1_start, g_signals>> /\ wseq' = [wseq EXCEPT !.g2 = G1Slot]
      /\ orig_size' = wseq.pos - g1_start.pos
      /\ g_size' = [g_size EXCEPT ![wseq.g2] = @ + (wseq.pos - g1_start.pos)]
  BY <1>3 DEF Switch, G1
<1>5. wseq'.pos = wseq.pos /\ wseq'.g2 = G1Slot
  BY <1>4 DEF Typed, Shared
<1>6. G1Slot' = wseq.g2
  BY <1>5, GroupFacts DEF G1Slot
<1>7. g_size'[wseq.g2] = g_size[wseq.g2] + wseq.pos - Frontier /\ g_size'[G1Slot] = 0
  BY <1>3, <1>4, SlotFacts, GroupFacts DEF Typed, Shared
<1>8. pc'[t] \in {"add", "idle", "confirm", "cleanup_wake"} /\ (pc'[t] = "add" \/ Done(t))
  BY SwitchDoes, BackLabels DEF Done
<1>9. ~Shift'
  <2>1. pc'[t] \notin Shifting
    BY <1>8 DEF Shifting
  <2>2. QED BY <1>1, <1>2, <2>1, HoldsAlone, HoldingAre DEF Shift
<1>10. Frontier' = wseq.pos
  BY <1>4, <1>9, GroupFacts DEF Frontier
<1>11. (pc'[t] = "add" <=> g_size'[wseq.g2] # 0) /\ (pc'[t] # "add" => ~lock')
  <2> DEFINE c == g_size[1 - local[t].g1] + (wseq.pos - g1_start.pos) # 0
  <2>1. /\ c => pc'[t] = "add"
        /\ ~c => pc'[t] = Back(t) /\ ~lock'
    BY GoAt, GoBackAt DEF Switch, G1
  <2>2. c <=> g_size'[wseq.g2] # 0
    BY <1>3, <1>7, SlotFacts, GroupFacts
  <2>3. QED BY <2>1, <2>2, BackLabels
<1>12. QED BY <1>1, <1>3, <1>4, <1>5, <1>6, <1>7, <1>8, <1>9, <1>10, <1>11

LEMMA SwitchMembers ==
  ASSUME Typed, Mutex, SizeInv, NEW t \in Threads, Switch(t)
  PROVE  Members' = Newcomers /\ Newcomers' = {}
<1>1. /\ Only(t) /\ UNCHANGED g1_start /\ Frontier = g1_start.pos /\ Frontier' = wseq.pos
      /\ pc[t] = "switch" /\ (pc'[t] = "add" \/ Done(t))
  BY SwitchEffect
<1>2. pc[t] \notin Unsettled /\ pc'[t] \notin Unsettled
  BY <1>1, BackLabels DEF Done, Unsettled, UserLabels
<1>3. ASSUME NEW w \in Waiters
      PROVE  (w \in Members' <=> w \in Newcomers) /\ w \notin Newcomers'
  <2>1. CASE w = t
    BY <1>2, <2>1 DEF Members, Member, Newcomers
  <2>2. CASE w # t
    <3>1. pc'[w] = pc[w] /\ local'[w] = local[w]
      BY <1>1, <2>2, ThreadsAre DEF Only
    <3>2. pc[w] \in Unsettled => local[w].seq < wseq.pos
      BY DEF SizeInv, Placed
    <3>3. local[w].seq \in Nat /\ wseq.pos \in Nat
      BY LocalFacts, GroupFacts, ThreadsAre
    <3>4. QED BY <1>1, <3>1, <3>2, <3>3 DEF Members, Member, Newcomers
  <2>3. QED BY <2>1, <2>2
<1>4. QED BY <1>3 DEF Members, Newcomers

LEMMA WaiterEnough ==
  ASSUME Typed, Typed', SizeInv, LocalInv, ~Shift, Enough, NEW w \in Waiters, WaiterActs(w)
  PROVE  Enough'
<1>0. /\ w \in Threads /\ Fixed /\ Others(w) /\ FlagsStay /\ Knows(w) /\ Began(w) /\ Placed(w)
      /\ local[w].seq \in Nat /\ local[w].g \in Groups
  BY WaiterFixed, WaiterOthers, WaiterFlags, LocalFacts DEF LocalInv, SizeInv
<1>1. /\ g_signals[G1Slot].n \in Int /\ g_size[G1Slot] \in Int /\ G1Slot \in Groups /\ G1Slot # wseq.g2
      /\ g_signals'[G1Slot].n \in Int /\ g_size'[G1Slot] \in Int
      /\ local[w].g = G1Slot \/ local[w].g = wseq.g2
  BY <1>0, SlotFacts, NextFacts
<1>2. ~g_signals'[G1Slot].closed => ~g_signals[G1Slot].closed
  BY <1>0, <1>1 DEF FlagsStay
<1>3. G1Slot' = G1Slot /\ g1_start' = g1_start /\ Frontier' = Frontier /\ g1_start.g2 = wseq.g2
  BY <1>0 DEF Fixed, G1Slot, SizeInv, Roles
<1>4. wseq.pos \in Nat /\ Frontier \in Int /\ g1_start.pos \in Int /\ Frontier <= wseq.pos
  BY GroupFacts, SizeFacts
<1>5. ASSUME w \in Members' => w \in Members, w \in Thieves => w \in Thieves',
             g_signals'[G1Slot].n + g_size'[G1Slot] >= g_signals[G1Slot].n + g_size[G1Slot]
      PROVE  Enough'
  BY <1>0, <1>2, <1>5, EnoughLess
<1>6. ASSUME w \in Members' => w \in Members, w \in Thieves => w \in Thieves', UNCHANGED <<g_signals, g_size>>
      PROVE  Enough'
  BY <1>1, <1>5, <1>6
<1>7. CASE Wait(w)
  <2>1. pc[w] = "idle" /\ local'[w].seq = wseq.pos /\ UNCHANGED <<g_signals, g_size>>
    BY <1>7, WaitDoes DEF Wait
  <2>2. w \notin Members'
    BY <1>3, <1>4, <2>1 DEF Members, Member
  <2>3. w \notin Thieves
    BY <2>1 DEF Thieves, Thief, Undo
  <2>4. QED BY <1>6, <2>1, <2>2, <2>3
<1>8. CASE Strolls(w) /\ UNCHANGED <<g_signals, g_size>>
  BY <1>0, <1>6, <1>8, StrollMember, UnsettledNoThief DEF Strolls
<1>9. CASE pc[w] \in Unsettled /\ pc'[w] = "confirm" /\ UNCHANGED <<g_signals, g_size>>
  BY <1>6, <1>9, SettledOut, UnsettledNoThief DEF Settled
<1>10. CASE Grab(w) /\ pc'[w] = "check_steal"
  <2>1. /\ g_signals[local[w].g].n > 0 /\ ~g_signals[local[w].g].closed /\ Added(local[w].g, -1)
        /\ UNCHANGED g_size
    BY <1>0, <1>10, GrabEffect DEF Grab
  <2>2. pc[w] \in Unsettled /\ pc'[w] \notin Unsettled
    BY <1>10, GrabDoes DEF Unsettled, UserLabels
  <2>3. w \notin Members' /\ w \notin Thieves
    BY <2>2, UnsettledNoThief DEF Members, Member
  <2>4. CASE local[w].g # G1Slot
    BY <1>1, <1>5, <2>1, <2>3, <2>4 DEF Added
  <2>5. CASE local[w].g = G1Slot
    <3>1. g_signals'[G1Slot].n = g_signals[G1Slot].n - 1 /\ ~g_signals[G1Slot].closed
      BY <1>1, <2>1, <2>5 DEF Added
    <3>2. CASE w \in Members
      <4>1. Cardinality(Members') = Cardinality(Members) - 1 /\ Cardinality(Thieves') >= Cardinality(Thieves)
        BY <1>0, <2>3, <3>2, Changes, CountTypes DEF One
      <4>2. QED BY <1>1, <1>3, <2>1, <3>1, <4>1, CountTypes, CountTypesNext DEF Enough
    <3>3. CASE w \notin Members
      <4>1. local[w].seq < g1_start.pos
        BY <1>0, <1>1, <1>4, <2>2, <2>5, <3>3 DEF Placed, Members, Member
      <4>2. w \in Thieves'
        BY <1>3, <1>10, <2>5, <4>1, GrabDoes, ConsiderDoes DEF Thieves, Thief, Alike, Places
      <4>3. Cardinality(Members') = Cardinality(Members) /\ Cardinality(Thieves') = Cardinality(Thieves) + 1
        BY <1>0, <2>3, <3>3, <4>2, Changes, CountTypes DEF One
      <4>4. QED BY <1>1, <1>3, <2>1, <3>1, <4>3, CountTypes, CountTypesNext DEF Enough
    <3>4. QED BY <3>2, <3>3
  <2>6. QED BY <2>4, <2>5
<1>11. CASE Cancel(w)
  <2>1. UNCHANGED g_signals /\ pc[w] = "cancel" /\ pc'[w] \in {"signal", "confirm", "cleanup_wake"}
    BY <1>11, CancelDoes DEF Cancel, Gone
  <2>2. w \notin Members' /\ w \notin Thieves /\ pc[w] \in Unsettled
    BY <2>1, SettledOut, UnsettledNoThief DEF Settled, Unsettled
  <2>3. CASE UNCHANGED g_size
    BY <1>6, <2>1, <2>2, <2>3
  <2>4. CASE g_size' = [g_size EXCEPT ![local[w].g] = @ - 1] /\ local[w].seq >= g1_start.pos
    <3>1. CASE local[w].g # G1Slot
      <4>1. g_size'[G1Slot] = g_size[G1Slot]
        BY <1>1, <2>4, <3>1 DEF Typed, Shared
      <4>2. QED BY <1>1, <1>5, <2>1, <2>2, <4>1
    <3>2. CASE local[w].g = G1Slot
      <4>1. g_size'[G1Slot] = g_size[G1Slot] - 1
        BY <1>1, <2>4, <3>2 DEF Typed, Shared
      <4>2. w \in Members
        BY <1>0, <1>1, <1>4, <2>2, <2>4, <3>2 DEF Placed, Members, Member
      <4>3. Cardinality(Members') = Cardinality(Members) - 1 /\ Cardinality(Thieves') >= Cardinality(Thieves)
        BY <1>0, <2>2, <4>2, Changes, CountTypes DEF One
      <4>4. QED BY <1>1, <1>2, <1>3, <2>1, <4>1, <4>3, CountTypes, CountTypesNext DEF Enough
    <3>3. QED BY <3>1, <3>2
  <2>5. QED BY <1>11, <2>3, <2>4, CancelDoes
<1>12. ASSUME Looks(w), UNCHANGED <<g_signals, g_size>>, pc[w] \in Undo PROVE Enough'
  <2>1. w \in Thieves => w \in Thieves'
    BY <1>3, <1>12 DEF Looks, Thieves, Thief, Undo
  <2>2. w \notin Members'
    BY <1>12 DEF Looks, Members, Member, Unsettled, UserLabels
  <2>3. QED BY <1>6, <1>12, <2>1, <2>2
<1>13. CASE CheckSteal(w)
  <2>1. UNCHANGED <<g_signals, g_size>> /\ pc[w] = "check_steal"
    BY <1>13 DEF CheckSteal, condvar
  <2>2. w \notin Members'
    BY <1>13, CheckStealDoes DEF Members, Member, Unsettled, UserLabels
  <2>3. w \in Thieves => w \in Thieves'
    <3>1. CASE pc'[w] = "undo_load" /\ local'[w].g = local[w].g /\ local'[w].start = g1_start
      BY <1>3, <3>1 DEF Thieves, Thief, Undo
    <3>2. CASE ~(local[w].seq < g1_start.pos /\ 1 - g1_start.g2 = local[w].g)
      BY <1>3, <2>1, <3>2 DEF Thieves, Thief, Undo, G1Slot
    <3>3. QED BY <1>13, <3>1, <3>2, CheckStealDoes
  <2>4. QED BY <1>6, <2>1, <2>2, <2>3
<1>14. CASE UndoLoad(w)
  BY <1>12, <1>14, UndoLoadDoes DEF UndoLoad, Undo, condvar
<1>15. CASE UndoCheck(w)
  <2>1. UNCHANGED <<g_signals, g_size>> /\ pc[w] = "undo_check"
    BY <1>15 DEF UndoCheck, condvar
  <2>2. w \notin Members'
    BY <1>15, UndoCheckDoes DEF Members, Member, Unsettled, UserLabels
  <2>3. CASE pc'[w] = "confirm" /\ local[w].start # g1_start
    BY <1>6, <2>1, <2>2, <2>3 DEF Thieves, Thief
  <2>4. CASE pc'[w] = "undo_cas" /\ local'[w] = local[w] /\ local[w].start = g1_start
    <3>1. w \in Thieves => w \in Thieves'
      BY <1>3, <2>1, <2>4 DEF Thieves, Thief, Undo
    <3>2. QED BY <1>6, <2>1, <2>2, <3>1
  <2>5. CASE pc'[w] = "undo_wake" /\ local[w].start = g1_start /\ local[w].closed
    <3>1. g_signals[local[w].g].closed
      BY <1>0, <2>1, <2>5 DEF Began, Undo
    <3>2. CASE local[w].g = G1Slot
      BY <1>3, <2>1, <3>1, <3>2 DEF Enough
    <3>3. CASE local[w].g # G1Slot
      <4>1. w \notin Thieves
        BY <3>3 DEF Thieves, Thief
      <4>2. QED BY <1>6, <2>1, <2>2, <4>1
    <3>4. QED BY <3>2, <3>3
  <2>6. QED BY <1>15, <2>3, <2>4, <2>5, UndoCheckDoes
<1>16. CASE UndoCas(w)
  <2>1. pc[w] = "undo_cas" /\ UNCHANGED g_size
    BY <1>16 DEF UndoCas
  <2>2. CASE pc'[w] = "undo_wake" /\ Added(local[w].g, 1)
    <3>1. w \notin Members' /\ w \notin Members
      BY <2>1, <2>2 DEF Members, Member, Unsettled, UserLabels
    <3>2. CASE local[w].g = G1Slot
      <4>1. g_signals'[G1Slot].n = g_signals[G1Slot].n + 1
        BY <2>2, <3>2 DEF Added
      <4>2. Cardinality(Members') = Cardinality(Members) /\ Cardinality(Thieves') >= Cardinality(Thieves) - 1
        BY <1>0, <3>1, Changes, CountTypes DEF One
      <4>3. QED BY <1>1, <1>2, <1>3, <2>1, <4>1, <4>2, CountTypes, CountTypesNext DEF Enough
    <3>3. CASE local[w].g # G1Slot
      <4>1. w \notin Thieves
        BY <3>3 DEF Thieves, Thief
      <4>2. g_signals'[G1Slot] = g_signals[G1Slot]
        BY <1>1, <2>2, <3>3 DEF Added
      <4>3. QED BY <1>1, <1>5, <2>1, <3>1, <4>1, <4>2
    <3>4. QED BY <3>2, <3>3
  <2>3. CASE Looks(w) /\ UNCHANGED g_signals
    BY <1>12, <2>1, <2>3 DEF Undo
  <2>4. QED BY <1>16, <2>2, <2>3, UndoCasEffect
<1>17. CASE /\ UndoWake(w) \/ CleanupWake(w) \/ Confirm(w) \/ WakeDestroyer(w)
            /\ UNCHANGED <<g_signals, g_size>>
  <2>1. /\ pc[w] \in {"undo_wake", "cleanup_wake", "confirm", "wake_destroyer"}
        /\ pc'[w] \in {"confirm", "idle", "wake_destroyer"}
    BY <1>17, PassOnDoes, ConfirmDoes, WakeDestroyerDoes
  <2>2. w \notin Members' /\ w \notin Thieves
    BY <2>1, SettledOut DEF Settled, Thieves, Thief, Undo
  <2>3. QED BY <1>6, <1>17, <2>2
<1>18. CASE pc[w] \in {"drop_ref", "wake_refs"} /\ pc'[w] = "confirm" /\ UNCHANGED <<g_signals, g_size>>
  BY <1>9, <1>18 DEF Unsettled, UserLabels
<1>19. QED
  BY <1>7, <1>8, <1>9, <1>10, <1>11, <1>13, <1>14, <1>15, <1>16, <1>17, <1>18, WaiterSteps

LEMMA SignalEnough ==
  ASSUME Typed, Typed', Mutex, SizeInv, SizeInv', LocalInv, LocalInv', Enough, NEW t \in Threads, SignalActs(t)
  PROVE  Enough'
<1>1. CASE Shift'
  BY <1>1, EnoughShift DEF LocalInv
<1>2. CASE Switch(t)
  <2>1. /\ G1Slot' = wseq.g2 /\ g_size'[wseq.g2] = g_size[wseq.g2] + wseq.pos - Frontier
    BY <1>2, SwitchEffect
  <2>2. Members' = Newcomers
    BY <1>2, SwitchMembers
  <2>3. Cardinality(Newcomers) <= wseq.pos - Frontier + g_size[wseq.g2]
    BY DEF SizeInv, Room
  <2>4. g_signals'[G1Slot'].n >= 0 /\ g_signals'[G1Slot'].n \in Int
    BY NextFacts DEF LocalInv, Positive
  <2>5. Cardinality(Members') <= g_size'[G1Slot'] /\ g_size'[G1Slot'] \in Int
    BY <2>1, <2>2, <2>3, GroupFacts, NextFacts, CountTypes
  <2>6. QED BY <2>4, <2>5, CountTypesNext DEF Enough
<1>3. CASE ~Shift' /\ ~Switch(t)
  <2>1. Others(t) /\ ~Close(t) /\ ~Reopen(t)
    <3>1. Close(t) \/ Reopen(t) => Shift'
      BY CloseDoes, ReopenDoes DEF Shift, Shifting
    <3>2. QED BY <1>3, <3>1, SignalOthers
  <2>2. Fixed
    BY <1>3, <2>1, SignalFixed
  <2>3. G1Slot' = G1Slot
    BY <2>2 DEF Fixed, G1Slot
  <2>4. t \notin Members' /\ t \notin Thieves
    BY SignalEnds DEF Members, Member, Thieves, Thief, Undo, Leaving
  <2>5. ~g_signals'[G1Slot].closed => ~g_signals[G1Slot].closed
    BY <2>1, SignalFlags, SlotFacts
  <2>6. /\ g_signals[G1Slot].n \in Int /\ g_size[G1Slot] \in Int
        /\ g_signals'[G1Slot].n \in Int /\ g_size'[G1Slot] \in Int
    BY SlotFacts, NextFacts
  <2>7. CASE g_signals'[G1Slot].n + g_size'[G1Slot] >= g_signals[G1Slot].n + g_size[G1Slot]
    BY <2>1, <2>2, <2>4, <2>5, <2>7, EnoughLess
  <2>8. CASE AddFirst(t) \/ Add(t)
    <3>1. /\ g_signals'[G1Slot].n = g_signals[G1Slot].n + Amount(t)
          /\ g_size'[G1Slot] = g_size[G1Slot] - Amount(t) /\ Amount(t) \in Int
      BY <2>8, AddEffect DEF Added
    <3>2. QED BY <2>6, <2>7, <3>1
  <2>9. CASE Quiesce(t)
    <3>1. UNCHANGED g_size
      BY <2>9 DEF Quiesce
    <3>2. CASE pc'[t] = "quiesce_refs"
      BY <2>3, <2>9, <3>2, QuiesceEffect DEF Enough
    <3>3. CASE UNCHANGED g_signals
      BY <2>6, <2>7, <3>1, <3>3
    <3>4. QED BY <2>9, <3>2, <3>3, QuiesceDoes
  <2>10. CASE UNCHANGED <<g_signals, g_size>>
    BY <2>6, <2>7, <2>10
  <2>11. QED BY <1>3, <2>1, <2>8, <2>9, <2>10, SignalFixed
<1>4. QED BY <1>1, <1>2, <1>3

LEMMA SleepersIn ==
  ASSUME Typed', SizeInv', SleepInv', LocalInv'
  PROVE  Sleepers' \subseteq Members' /\ Doomed' \subseteq Members' /\ Sleepers' \cap Doomed' = {}
<1>1. Doomed' \subseteq Members'
  BY DEF Doomed, Members
<1>2. ASSUME NEW w \in Sleepers' PROVE w \in Members' /\ w \notin Doomed'
  <2>1. w \in Waiters /\ pc'[w] = "asleep" /\ local'[w].g = G1Slot'
    BY <1>2 DEF Sleepers, Asleep, G
  <2>2. local'[w].seq >= g1_start'.pos
    BY <2>1 DEF SleepInv, Current, Dozing
  <2>3. pc'[w] \in Unsettled /\ ~GivingUp(w)'
    BY <2>1 DEF Unsettled, UserLabels, GivingUp
  <2>4. ~(local'[w].seq >= Frontier')
    BY <2>1, <2>3, NextFacts DEF SizeInv, Placed
  <2>5. local'[w].ended = ""
    BY <2>1, <2>3 DEF LocalInv, Knows
  <2>6. local'[w].seq < Frontier'
    BY <2>1, <2>4, NextFacts, ThreadsAre
  <2>7. QED BY <2>1, <2>2, <2>3, <2>5, <2>6 DEF Members, Member, Doomed, Blind
<1>3. QED BY <1>1, <1>2

LEMMA AttendedMembers ==
  ASSUME Typed', SizeInv', SleepInv', LocalInv',
         Cardinality(Members') <= g_size'[G1Slot'] + Cardinality(Thieves')
  PROVE  Attended'
<1>1. Cardinality(Sleepers') + Cardinality(Doomed') <= Cardinality(Members')
  BY SleepersIn, CountTypesNext, Recount_Disjoint
<1>2. Cardinality(Thieves') <= Cardinality(Rescuers')
  BY CountTypesNext, Recount_Less
<1>3. g_size'[G1Slot'] \in Int
  BY NextFacts
<1>4. QED BY <1>1, <1>2, <1>3, CountTypesNext DEF Attended

LEMMA AttendedShift ==
  ASSUME Typed', SizeInv', SleepInv', LocalInv', Shift'
  PROVE  Attended'
<1>1. Members' = {}
  BY NextFacts, ThreadsAre DEF Members, Member, Frontier
<1>2. QED BY <1>1, SleepersIn DEF Attended

LEMMA AttendedLess ==
  ASSUME Typed, Typed', Fixed, Attended, NEW t \in Threads, Others(t),
         t \in Sleepers' => t \in Sleepers, Waker(t) => Waker(t)',
         t \in Doomed' => t \in Doomed, t \in Rescuers => t \in Rescuers',
         g_size'[G1Slot] >= g_size[G1Slot]
  PROVE  Attended'
<1>1. G1Slot' = G1Slot
  BY DEF Fixed, G1Slot
<1>2. Sleepers' \subseteq Sleepers
  BY Changes
<1>3. Cardinality(Sleepers') <= Cardinality(Sleepers)
  BY <1>2, SetsAre, CountTypesNext, Recount_Less
<1>4. Cardinality(Doomed') <= Cardinality(Doomed) /\ Cardinality(Rescuers') >= Cardinality(Rescuers)
  BY Changes, CountTypes DEF One
<1>5. g_size[G1Slot] \in Int /\ g_size'[G1Slot] \in Int
  BY SlotFacts, NextFacts
<1>6. \A u \in Threads : Waker(u) => Waker(u)'
  BY StaysIn DEF Others
<1>7. QED BY <1>1, <1>2, <1>3, <1>4, <1>5, <1>6, CountTypes, CountTypesNext DEF Attended

\* The acting thread wakes a sleeper of G1 if there is one.
LEMMA AttendedOne ==
  ASSUME Typed, Typed', Fixed, Attended, NEW t \in Threads, WakesOne(t, G1Slot), UNCHANGED g_size,
         pc[t] # "asleep", pc'[t] # "asleep", ~Waker(t), t \notin Doomed'
  PROVE  Attended'
<1>1. G1Slot' = G1Slot /\ Others(t)
  BY WakesOneOthers DEF Fixed, G1Slot
<1>2. t \notin Sleepers /\ t \notin Sleepers'
  BY DEF Sleepers, Asleep
<1>3. Sleepers' \subseteq Sleepers
  BY <1>1, <1>2, Changes
<1>4. CASE Sleepers = {}
  BY <1>3, <1>4 DEF Attended
<1>5. CASE \E u \in Threads : Waker(u)
  BY <1>1, <1>5, StaysIn DEF Others, Attended
<1>6. CASE Sleepers # {} /\ Cardinality(Sleepers) + Cardinality(Doomed) <= g_size[G1Slot] + Cardinality(Rescuers)
  <2>1. PICK v \in Sleepers : Wakes(t, G1Slot, {v})
    BY <1>6 DEF WakesOne, Sleepers
  <2>2. v \in Threads /\ v # t
    BY <1>2, <2>1, SetsAre
  <2>3. pc'[v] = "drop_ref"
    BY <2>1, <2>2 DEF Wakes
  <2>4. Sleepers' \subseteq Sleepers \ {v}
    BY <1>3, <2>3 DEF Sleepers, Asleep
  <2>5. Cardinality(Sleepers \ {v}) = Cardinality(Sleepers) - 1 /\ IsFiniteSet(Sleepers)
    BY <2>1, SetsAre, ThreadSets, FS_RemoveElement
  <2>6. Cardinality(Sleepers') <= Cardinality(Sleepers \ {v})
    BY <2>4, SetsAre, CountTypesNext, Recount_Less
  <2>7. Cardinality(Doomed') <= Cardinality(Doomed) /\ Cardinality(Rescuers') >= Cardinality(Rescuers) - 1
    BY <1>1, Changes, CountTypes DEF One
  <2>8. g_size[G1Slot] \in Int
    BY SlotFacts
  <2>9. QED BY <1>1, <1>6, <2>5, <2>6, <2>7, <2>8, CountTypes, CountTypesNext DEF Attended
<1>7. QED BY <1>4, <1>5, <1>6 DEF Attended

LEMMA WaiterAttended ==
  ASSUME Typed, Typed', SizeInv, SizeInv', SleepInv, SleepInv', LocalInv, LocalInv', Enough', ~Shift, Attended,
         NEW w \in Waiters, WaiterActs(w)
  PROVE  Attended'
<1>0. /\ w \in Threads /\ Fixed /\ Others(w) /\ Knows(w) /\ Began(w) /\ Placed(w)
      /\ local[w].seq \in Nat /\ local[w].g \in Groups
  BY WaiterFixed, WaiterOthers, LocalFacts DEF LocalInv, SizeInv
<1>1. /\ g_size[G1Slot] \in Int /\ G1Slot \in Groups /\ G1Slot # wseq.g2 /\ g_size'[G1Slot] \in Int
      /\ local[w].g = G1Slot \/ local[w].g = wseq.g2
  BY <1>0, SlotFacts, NextFacts
<1>2. ~Waker(w)
  <2>1. Moves(w, Calm, Calm)
    BY WaiterMoves DEF WaiterActs
  <2>2. QED BY <2>1 DEF Moves, Calm, Unsettled, UserLabels, Leaving, Waker
<1>3. G1Slot' = G1Slot /\ g1_start' = g1_start /\ Frontier' = Frontier /\ g1_start.g2 = wseq.g2
  BY <1>0 DEF Fixed, G1Slot, SizeInv, Roles
<1>4. wseq.pos \in Nat /\ Frontier \in Int /\ g1_start.pos \in Int /\ Frontier <= wseq.pos
  BY GroupFacts, SizeFacts
<1>5. ASSUME pc'[w] # "asleep", w \in Doomed' => w \in Doomed, w \in Rescuers => w \in Rescuers',
             g_size'[G1Slot] = g_size[G1Slot]
      PROVE  Attended'
  <2>1. w \notin Sleepers'
    BY <1>5 DEF Sleepers, Asleep
  <2>2. QED BY <1>0, <1>1, <1>2, <1>5, <2>1, AttendedLess
<1>6. ASSUME pc[w] \in Unsettled PROVE w \notin Rescuers
  BY <1>6 DEF Rescuers, Rescuer, Thief, Unsettled, UserLabels, Undo
<1>7. ASSUME pc'[w] \notin Unsettled PROVE w \notin Doomed' /\ pc'[w] # "asleep"
  BY <1>7 DEF Doomed, Member, Unsettled, UserLabels
<1>8. CASE Wait(w)
  <2>1. pc[w] = "idle" /\ pc'[w] = "register" /\ local'[w].seq = wseq.pos /\ UNCHANGED g_size
    BY <1>8, WaitDoes DEF Wait
  <2>2. w \notin Doomed'
    BY <1>3, <1>4, <2>1 DEF Doomed, Member
  <2>3. w \notin Rescuers
    BY <2>1 DEF Rescuers, Rescuer, Thief, Undo
  <2>4. QED BY <1>5, <2>1, <2>2, <2>3
<1>9. CASE Strolls(w) /\ UNCHANGED <<g_signals, g_size>> /\ Quietly(w)
  <2>1. w \in Members' <=> w \in Members
    BY <1>0, <1>9, StrollMember
  <2>2. CASE w \in Doomed' => w \in Doomed
    BY <1>5, <1>6, <1>9, <2>2 DEF Strolls, Quietly
  <2>3. CASE w \in Doomed' /\ w \notin Doomed
    <3>1. w \in Members /\ pc'[w] \in Blind /\ pc[w] \notin Blind
      BY <1>9, <2>1, <2>3 DEF Quietly, Doomed, Members, Blind
    <3>2. local[w].g = G1Slot
      BY <1>0, <3>1 DEF Members, Member, Placed, G1Slot
    <3>3. ~g_signals[G1Slot].closed /\ ~(g_signals[G1Slot].n > 0)
      BY <1>9, <3>1, <3>2 DEF Quietly, G
    <3>4. g_signals'[G1Slot'].n = 0 /\ ~g_signals'[G1Slot'].closed
      BY <1>1, <1>3, <1>9, <3>3 DEF LocalInv, Positive, Typed, Shared
    <3>5. Cardinality(Members') <= g_size'[G1Slot'] + Cardinality(Thieves')
      BY <1>1, <1>3, <3>4, CountTypesNext DEF Enough
    <3>6. QED BY <3>5, AttendedMembers
  <2>4. QED BY <2>2, <2>3
<1>10. CASE Strolls(w) /\ UNCHANGED <<g_signals, g_size>> /\ FutexWait(w)
  <2>1. CASE pc'[w] # "asleep"
    <3>1. Quietly(w)
      BY <1>10, <2>1, FutexWaitDoes DEF Quietly, Blind
    <3>2. QED BY <1>9, <1>10, <3>1
  <2>2. CASE pc'[w] = "asleep"
    <3>1. g_signals[local[w].g].n = 0 /\ ~g_signals[local[w].g].closed
      BY <1>10, <2>2, FutexWaitDoes DEF G
    <3>2. local'[w].g = local[w].g
      BY <1>10 DEF Strolls, Alike, Places
    <3>3. CASE local[w].g = G1Slot
      <4>1. g_signals'[G1Slot'].n = 0 /\ ~g_signals'[G1Slot'].closed
        BY <1>3, <1>10, <3>1, <3>3
      <4>2. Cardinality(Members') <= g_size'[G1Slot'] + Cardinality(Thieves')
        BY <1>1, <1>3, <4>1, CountTypesNext DEF Enough
      <4>3. QED BY <4>2, AttendedMembers
    <3>4. CASE local[w].g # G1Slot
      <4>1. w \notin Sleepers'
        BY <1>3, <3>2, <3>4 DEF Sleepers, Asleep, G
      <4>2. w \in Doomed' => w \in Doomed
        <5>1. w \in Members' <=> w \in Members
          BY <1>0, <1>10, StrollMember
        <5>2. QED BY <1>10, <5>1, <2>2, FutexWaitDoes DEF Doomed, Members, Blind
      <4>3. QED BY <1>0, <1>1, <1>2, <1>6, <1>10, <4>1, <4>2, AttendedLess DEF Strolls
    <3>5. QED BY <3>3, <3>4
  <2>3. QED BY <2>1, <2>2
<1>11. CASE Strolls(w) /\ UNCHANGED <<g_signals, g_size>> /\ GivesUp(w)
  <2>1. PICK how \in {"timed_out", "cancelled"} : GiveUp(w, how)
    BY <1>11 DEF GivesUp
  <2>2. /\ pc'[w] = "drop_ref" /\ local'[w].ended = how
        /\ pc[w] \in {"futex_wait", "asleep"} \/ (how = "cancelled" /\ pc[w] = "drop_ref" /\ local[w].to = "load")
    BY <2>1, GiveUpDoes
  <2>3. CASE w \in Doomed' => w \in Doomed
    BY <1>5, <1>6, <1>11, <2>2, <2>3 DEF Strolls
  <2>4. CASE w \in Doomed' /\ w \notin Doomed
    <3>1. w \in Members
      BY <1>0, <1>11, <2>4, StrollMember DEF Doomed, Members
    <3>2. how = "timed_out" /\ pc[w] = "asleep"
      BY <2>2, <2>4, <3>1 DEF Doomed, Members, Blind
    <3>3. local[w].g = G1Slot
      BY <1>0, <3>1 DEF Members, Member, Placed, G1Slot
    <3>4. w \in Sleepers /\ w \notin Sleepers'
      BY <2>2, <3>2, <3>3 DEF Sleepers, Asleep, G
    <3>5. Sleepers' \subseteq Sleepers \ {w}
      BY <1>0, <3>4, Changes
    <3>6. Cardinality(Sleepers \ {w}) = Cardinality(Sleepers) - 1 /\ IsFiniteSet(Sleepers)
      BY <3>4, SetsAre, ThreadSets, FS_RemoveElement
    <3>7. Cardinality(Sleepers') <= Cardinality(Sleepers \ {w})
      BY <3>5, SetsAre, CountTypesNext, Recount_Less
    <3>8. Cardinality(Doomed') <= Cardinality(Doomed) + 1 /\ Cardinality(Rescuers') >= Cardinality(Rescuers)
      BY <1>0, <1>6, <1>11, Changes, CountTypes DEF One, Strolls
    <3>9. \A u \in Threads : Waker(u) => Waker(u)'
      BY <1>0, <1>2, StaysIn DEF Others
    <3>10. QED
      BY <1>1, <1>3, <1>11, <3>4, <3>6, <3>7, <3>8, <3>9, CountTypes, CountTypesNext DEF Attended
  <2>5. QED BY <2>3, <2>4
<1>12. CASE pc[w] \in Unsettled /\ pc'[w] = "confirm" /\ UNCHANGED <<g_signals, g_size>>
  BY <1>5, <1>6, <1>7, <1>12 DEF Unsettled, UserLabels
<1>13. CASE Grab(w) /\ pc'[w] = "check_steal"
  <2>1. pc[w] \in Unsettled /\ pc'[w] \notin Unsettled /\ UNCHANGED g_size
    BY <1>13, GrabDoes DEF Unsettled, UserLabels, Grab
  <2>2. QED BY <1>5, <1>6, <1>7, <2>1
<1>14. CASE Cancel(w)
  <2>1. pc[w] = "cancel" /\ pc'[w] \in {"signal", "confirm", "cleanup_wake"}
    BY <1>14, CancelDoes DEF Gone
  <2>2. pc[w] \in Unsettled /\ pc'[w] \notin Unsettled
    BY <2>1 DEF Unsettled, UserLabels
  <2>3. CASE g_size'[G1Slot] = g_size[G1Slot]
    BY <1>5, <1>6, <1>7, <2>2, <2>3
  <2>4. CASE /\ g_size' = [g_size EXCEPT ![local[w].g] = @ - 1] /\ local[w].seq >= g1_start.pos
             /\ pc'[w] = Gone(w) /\ Reduced(w) /\ local[w].g = G1Slot
    <3>1. g_size'[G1Slot] = g_size[G1Slot] - 1
      BY <1>1, <2>4 DEF Typed, Shared
    <3>2. Member(w)
      BY <1>0, <1>1, <1>4, <2>2, <2>4 DEF Placed, Member
    <3>3. w \notin Doomed' /\ w \notin Rescuers /\ w \notin Sleepers'
      BY <1>6, <1>7, <2>2 DEF Sleepers, Asleep
    <3>4. local[w].ended \in GaveUp
      BY <1>0, <2>1, <2>2 DEF Knows, GivingUp
    <3>5. w \in Doomed \/ w \in Rescuers'
      <4>1. CASE local[w].ended = "cancelled"
        <5>1. pc'[w] = "cleanup_wake" /\ local'[w].g = G1Slot
          BY <2>4, <4>1 DEF Gone, Reduced
        <5>2. QED BY <1>0, <1>3, <5>1 DEF Rescuers, Rescuer
      <4>2. CASE local[w].ended # "cancelled"
        BY <3>2, <3>4, <4>2 DEF Doomed, GaveUp
      <4>3. QED BY <4>1, <4>2
    <3>6. Cardinality(Doomed') - Cardinality(Rescuers') <= Cardinality(Doomed) - Cardinality(Rescuers) - 1
      BY <1>0, <3>3, <3>5, Changes, CountTypes, CountTypesNext DEF One
    <3>7. Sleepers' \subseteq Sleepers
      BY <1>0, <3>3, Changes
    <3>8. Cardinality(Sleepers') <= Cardinality(Sleepers)
      BY <3>7, SetsAre, CountTypesNext, Recount_Less
    <3>9. \A u \in Threads : Waker(u) => Waker(u)'
      BY <1>0, <1>2, StaysIn DEF Others
    <3>10. QED
      BY <1>1, <1>3, <3>1, <3>6, <3>7, <3>8, <3>9, CountTypes, CountTypesNext DEF Attended
  <2>5. ASSUME g_size' = [g_size EXCEPT ![local[w].g] = @ - 1], local[w].g # G1Slot
        PROVE  g_size'[G1Slot] = g_size[G1Slot]
    BY <1>1, <2>5 DEF Typed, Shared
  <2>6. QED BY <1>14, <2>3, <2>4, <2>5, CancelDoes
<1>15. ASSUME Looks(w), UNCHANGED g_size, pc[w] \in Undo PROVE Attended'
  <2>1. w \in Rescuers => w \in Rescuers'
    BY <1>0, <1>3, <1>15 DEF Looks, Rescuers, Rescuer, Thief, Undo
  <2>2. pc'[w] \notin Unsettled
    BY <1>15 DEF Looks, Unsettled, UserLabels
  <2>3. QED BY <1>5, <1>7, <1>15, <2>1, <2>2
<1>16. CASE CheckSteal(w)
  <2>1. UNCHANGED g_size /\ pc[w] = "check_steal" /\ pc'[w] \notin Unsettled
    BY <1>16, CheckStealDoes DEF CheckSteal, condvar, Unsettled, UserLabels
  <2>2. w \in Rescuers => w \in Rescuers'
    <3>1. CASE pc'[w] = "undo_load" /\ local'[w].g = local[w].g /\ local'[w].start = g1_start
      BY <1>0, <1>3, <2>1, <3>1 DEF Rescuers, Rescuer, Thief, Undo
    <3>2. CASE ~(local[w].seq < g1_start.pos /\ 1 - g1_start.g2 = local[w].g)
      BY <1>3, <2>1, <3>2 DEF Rescuers, Rescuer, Thief, Undo, G1Slot
    <3>3. QED BY <1>16, <3>1, <3>2, CheckStealDoes
  <2>3. QED BY <1>5, <1>7, <2>1, <2>2
<1>17. CASE UndoLoad(w)
  BY <1>15, <1>17, UndoLoadDoes DEF UndoLoad, Undo, condvar
<1>18. ASSUME pc'[w] = "undo_wake", Reduced(w), UNCHANGED g_size, pc[w] \in Undo PROVE Attended'
  <2>1. w \in Rescuers => w \in Rescuers'
    BY <1>0, <1>3, <1>18 DEF Reduced, Rescuers, Rescuer, Thief, Undo
  <2>2. pc'[w] \notin Unsettled
    BY <1>18 DEF Unsettled, UserLabels
  <2>3. QED BY <1>5, <1>7, <1>18, <2>1, <2>2
<1>19. CASE UndoCheck(w)
  <2>1. UNCHANGED g_size /\ pc[w] = "undo_check" /\ pc[w] \in Undo
    BY <1>19 DEF UndoCheck, condvar, Undo
  <2>2. CASE pc'[w] = "confirm" /\ local[w].start # g1_start
    <3>1. w \notin Rescuers /\ pc'[w] \notin Unsettled
      BY <2>1, <2>2 DEF Rescuers, Rescuer, Thief, Unsettled, UserLabels
    <3>2. QED BY <1>5, <1>7, <2>1, <3>1
  <2>3. CASE pc'[w] = "undo_cas" /\ local'[w] = local[w] /\ local[w].start = g1_start
    <3>1. w \in Rescuers => w \in Rescuers'
      BY <1>0, <1>3, <2>1, <2>3 DEF Rescuers, Rescuer, Thief, Undo
    <3>2. pc'[w] \notin Unsettled
      BY <2>3 DEF Unsettled, UserLabels
    <3>3. QED BY <1>5, <1>7, <2>1, <3>1, <3>2
  <2>4. QED BY <1>18, <1>19, <2>1, <2>2, <2>3, UndoCheckDoes
<1>20. CASE UndoCas(w)
  <2>1. pc[w] = "undo_cas" /\ UNCHANGED g_size /\ pc[w] \in Undo
    BY <1>20 DEF UndoCas, Undo
  <2>2. QED BY <1>15, <1>18, <1>20, <2>1, UndoCasEffect
<1>21. CASE UndoWake(w) \/ CleanupWake(w)
  <2>1. /\ pc[w] \in {"undo_wake", "cleanup_wake"} /\ pc'[w] = "confirm" /\ Reduced(w)
        /\ WakesOne(w, local[w].g) /\ UNCHANGED g_size
    BY <1>21, PassOnDoes DEF UndoWake, CleanupWake, condvar
  <2>2. pc'[w] \notin Unsettled
    BY <2>1 DEF Unsettled, UserLabels
  <2>3. CASE local[w].g = G1Slot
    BY <1>0, <1>2, <1>7, <2>1, <2>2, <2>3, AttendedOne
  <2>4. CASE local[w].g # G1Slot
    <3>1. w \notin Rescuers
      BY <2>1, <2>4 DEF Rescuers, Rescuer, Thief, Undo
    <3>2. QED BY <1>5, <1>7, <2>1, <2>2, <3>1
  <2>5. QED BY <2>3, <2>4
<1>22. CASE (Confirm(w) \/ WakeDestroyer(w)) /\ UNCHANGED <<g_signals, g_size>>
  <2>1. pc[w] \in {"confirm", "wake_destroyer"} /\ pc'[w] \in {"idle", "wake_destroyer"}
    BY <1>22, ConfirmDoes, WakeDestroyerDoes
  <2>2. w \notin Rescuers /\ pc'[w] \notin Unsettled
    BY <2>1 DEF Rescuers, Rescuer, Thief, Undo, Unsettled, UserLabels
  <2>3. QED BY <1>5, <1>7, <1>22, <2>2
<1>23. CASE pc[w] \in {"drop_ref", "wake_refs"} /\ pc'[w] = "confirm" /\ UNCHANGED <<g_signals, g_size>>
  BY <1>12, <1>23 DEF Unsettled, UserLabels
<1>24. QED
  BY <1>8, <1>9, <1>10, <1>11, <1>12, <1>13, <1>14, <1>16, <1>17, <1>19, <1>20, <1>21, <1>22, <1>23, WaiterSteps

LEMMA AttendedEmpty ==
  ASSUME Typed, Fixed, NEW t \in Threads, Others(t), pc'[t] # "asleep",
         \A u \in Sleepers : u # t => pc'[u] # "asleep"
  PROVE  Attended'
<1>1. Sleepers' \ {t} \subseteq Sleepers
  BY Changes
<1>2. \A u \in Sleepers' : pc'[u] = "asleep"
  BY DEF Sleepers, Asleep
<1>3. Sleepers' = {}
  BY <1>1, <1>2
<1>4. QED BY <1>3 DEF Attended

LEMMA SignalAttended ==
  ASSUME Typed, Typed', Mutex, SizeInv, SizeInv', SleepInv', LocalInv, LocalInv', Attended,
         NEW t \in Threads, SignalActs(t)
  PROVE  Attended'
<1>1. CASE Shift'
  BY <1>1, AttendedShift
<1>2. CASE Switch(t)
  <2>1. G1Slot' = wseq.g2 /\ g_size'[wseq.g2] = g_size[wseq.g2] + wseq.pos - Frontier
    BY <1>2, SwitchEffect
  <2>2. Members' = Newcomers
    BY <1>2, SwitchMembers
  <2>3. Cardinality(Newcomers) <= wseq.pos - Frontier + g_size[wseq.g2]
    BY DEF SizeInv, Room
  <2>4. Cardinality(Members') <= g_size'[G1Slot'] + Cardinality(Thieves')
    BY <2>1, <2>2, <2>3, GroupFacts, NextFacts, CountTypes, CountTypesNext
  <2>5. QED BY <2>4, AttendedMembers
<1>3. CASE ~Shift' /\ ~Switch(t)
  <2>1. Others(t) /\ ~Close(t) /\ ~Reopen(t)
    <3>1. Close(t) \/ Reopen(t) => Shift'
      BY CloseDoes, ReopenDoes DEF Shift, Shifting
    <3>2. QED BY <1>3, <3>1, SignalOthers
  <2>2. Fixed
    BY <1>3, <2>1, SignalFixed
  <2>3. G1Slot' = G1Slot
    BY <2>2 DEF Fixed, G1Slot
  <2>4. pc[t] \notin Unsettled \cup Leaving /\ pc'[t] \notin Unsettled
    BY SignalEnds
  <2>5. t \notin Doomed' /\ t \notin Sleepers' /\ pc'[t] # "asleep" /\ pc[t] # "asleep"
    BY <2>4 DEF Doomed, Member, Sleepers, Asleep, Unsettled, UserLabels
  <2>6. g_size[G1Slot] \in Int /\ g_size'[G1Slot] \in Int
    BY <2>3, SlotFacts, NextFacts
  <2>7. ~Thief(t)
    BY <2>4 DEF Thief, Undo, Leaving
  <2>8. ASSUME t \notin Rescuers \/ t \in Rescuers', ~Waker(t) \/ Waker(t)', g_size'[G1Slot] = g_size[G1Slot] PROVE Attended'
    BY <2>1, <2>2, <2>5, <2>6, <2>8, AttendedLess
  <2>9. ASSUME pc[t] \notin {"wake", "wake_first"} PROVE t \notin Rescuers /\ ~Waker(t)
    BY <2>4, <2>7, <2>9 DEF Rescuers, Rescuer, Waker, Leaving
  <2>10. CASE AddFirst(t) \/ Add(t)
    <3>1. /\ g_size'[G1Slot] = g_size[G1Slot] - Amount(t) /\ local'[t] = local[t] /\ local[t].g1 = G1Slot
          /\ (pc[t] = "add_first" /\ pc'[t] = "wake_first") \/ (pc[t] = "add" /\ pc'[t] = "wake")
      BY <2>10, AddEffect, AddDoes
    <3>2. CASE pc[t] = "add_first" \/ local[t].all
      <4>1. Waker(t)'
        BY <2>3, <3>1, <3>2 DEF Waker
      <4>2. QED BY <4>1 DEF Attended
    <3>3. CASE pc[t] # "add_first" /\ ~local[t].all
      <4>1. Amount(t) = 1 /\ pc'[t] = "wake" /\ pc[t] = "add"
        BY <3>1, <3>3 DEF Amount
      <4>2. t \in Rescuers' /\ t \notin Rescuers /\ ~Waker(t)
        BY <2>3, <2>9, <3>1, <4>1 DEF Rescuers, Rescuer
      <4>3. Cardinality(Rescuers') = Cardinality(Rescuers) + 1 /\ Cardinality(Doomed') <= Cardinality(Doomed)
        BY <2>1, <2>2, <2>5, <4>2, Changes, CountTypes DEF One
      <4>4. Sleepers' \subseteq Sleepers
        BY <2>1, <2>2, <2>5, Changes
      <4>5. Cardinality(Sleepers') <= Cardinality(Sleepers)
        BY <4>4, SetsAre, CountTypesNext, Recount_Less
      <4>6. \A u \in Threads : Waker(u) => Waker(u)'
        BY <2>1, <2>2, <4>2, StaysIn DEF Others
      <4>7. QED BY <2>3, <2>6, <3>1, <4>1, <4>3, <4>4, <4>5, <4>6, CountTypes, CountTypesNext DEF Attended
    <3>4. QED BY <3>2, <3>3
  <2>11. ASSUME Wakes(t, G1Slot, Sleepers) PROVE Attended'
    BY <2>1, <2>2, <2>5, <2>11, SetsAre, AttendedEmpty DEF Wakes
  <2>12. CASE WakeFirst(t)
    <3>1. pc[t] = "wake_first" /\ Wakes(t, local[t].g1, Asleep(local[t].g1))
      BY <2>12, WakeFirstDoes
    <3>2. local[t].g1 = G1Slot
      BY <3>1, HolderFacts, HoldingAre
    <3>3. QED BY <2>11, <3>1, <3>2 DEF Sleepers
  <2>13. CASE WakeSignalled(t)
    <3>1. /\ pc[t] = "wake" /\ UNCHANGED g_size
          /\ \/ local[t].all /\ Wakes(t, local[t].g1, Asleep(local[t].g1))
             \/ ~local[t].all /\ WakesOne(t, local[t].g1)
      BY <2>13, WakeSignalledDoes DEF WakeSignalled, condvar
    <3>2. CASE local[t].g1 # G1Slot
      <4>1. t \notin Rescuers /\ ~Waker(t)
        BY <2>7, <3>1, <3>2 DEF Rescuers, Rescuer, Waker
      <4>2. QED BY <2>8, <3>1, <4>1
    <3>3. CASE local[t].g1 = G1Slot /\ local[t].all
      BY <2>11, <3>1, <3>3 DEF Sleepers
    <3>4. CASE local[t].g1 = G1Slot /\ ~local[t].all
      <4>1. ~Waker(t)
        BY <3>1, <3>4 DEF Waker
      <4>2. QED BY <2>2, <2>5, <3>1, <3>4, <4>1, AttendedOne
    <3>5. QED BY <3>2, <3>3, <3>4
  <2>14. CASE ~(AddFirst(t) \/ Add(t) \/ WakeFirst(t) \/ WakeSignalled(t))
    <3>1. g_size'[G1Slot] = g_size[G1Slot]
      BY <1>3, <2>14, SignalFixed
    <3>2. pc[t] \notin {"wake", "wake_first"}
      <4>1. CASE \E all \in Kinds : Call(t, all)
        BY <4>1, KindsAre, CallDoes
      <4>2. CASE CheckRefs(t) \/ Lock(t) \/ Quiesce(t) \/ QuiesceRefs(t) \/ QuiesceRequest(t) \/ QuiesceWait(t)
        BY <4>2 DEF CheckRefs, Lock, Quiesce, QuiesceRefs, QuiesceRequest, QuiesceWait
      <4>3. CASE Destroy(t) \/ DestroyWait(t) \/ DestroyLoad(t)
        BY <4>3, DestroyDoes DEF DestroyLabels
      <4>4. QED BY <1>3, <2>1, <2>14, <4>1, <4>2, <4>3 DEF SignalActs, SignalStep
    <3>3. QED BY <2>8, <2>9, <3>1, <3>2
  <2>15. QED BY <2>10, <2>12, <2>13, <2>14
<1>4. QED BY <1>1, <1>2, <1>3

-----------------------------------------------------------------------------
(* The thread with the lock, and what it waits for. *)

\* The lock belongs to somebody.
Held == lock => \E t \in Threads : pc[t] \in Holding

LEMMA Init_Held == Init => Held
BY DEF Init, Held

LEMMA StaysHolding ==
  ASSUME NEW u, Stays(u)
  PROVE  pc'[u] \in Holding <=> pc[u] \in Holding
BY DEF Stays, Holding, Quiescing, Shifting

LEMMA HeldStep ==
  ASSUME Typed, Held, [Next]_vars
  PROVE  Held'
<1>1. CASE UNCHANGED vars
  BY <1>1 DEF vars, condvar, Held
<1>2. ASSUME NEW t \in Threads, Others(t), UNCHANGED lock, pc[t] \notin Holding PROVE Held'
  BY <1>2, StaysHolding DEF Held, Others
<1>3. ASSUME NEW w \in Waiters, WaiterActs(w) PROVE Held'
  <2>1. Moves(w, Calm, Calm)
    BY <1>3, WaiterMoves DEF WaiterActs
  <2>2. pc[w] \notin Holding
    BY <2>1, HoldingAre DEF Moves
  <2>3. QED BY <1>2, <1>3, <2>2, WaiterFixed, WaiterOthers
<1>4. ASSUME NEW t \in Threads, SignalActs(t) PROVE Held'
  <2>1. Others(t)
    BY <1>4, SignalOthers
  <2>2. ASSUME pc'[t] \in Holding PROVE Held'
    BY <2>2 DEF Held
  <2>3. ASSUME ~lock' PROVE Held'
    BY <2>3 DEF Held
  <2>4. CASE \E all \in Kinds : Call(t, all)
    <3>1. UNCHANGED lock
      BY <2>4, Zenon DEF Call, condvar
    <3>2. QED BY <1>2, <2>1, <2>4, <3>1, KindsAre, CallDoes, HoldingAre
  <2>5. CASE CheckRefs(t) \/ WakeSignalled(t)
    <3>1. UNCHANGED lock /\ pc[t] \in {"signal", "wake"}
      BY <2>5 DEF CheckRefs, WakeSignalled, condvar
    <3>2. QED BY <1>2, <2>1, <3>1, HoldingAre
  <2>6. CASE Destroy(t) \/ DestroyWait(t) \/ DestroyLoad(t)
    <3>1. UNCHANGED lock
      BY <2>6 DEF Destroy, DestroyWait, DestroyLoad, condvar
    <3>2. QED BY <1>2, <2>1, <2>6, <3>1, DestroyDoes, HoldingAre DEF DestroyLabels
  <2>7. CASE Add(t)
    BY <2>3, <2>7 DEF Add
  <2>8. CASE Quiesce(t)
    <3>1. CASE pc'[t] = "quiesce_refs"
      BY <2>2, <3>1, HoldingAre
    <3>2. CASE pc'[t] # "quiesce_refs"
      <4>1. ~lock'
        BY <2>8, <3>2, GoAt DEF Quiesce
      <4>2. QED BY <2>3, <4>1
    <3>3. QED BY <3>1, <3>2
  <2>9. CASE Switch(t)
    <3>1. pc'[t] = "add" \/ ~lock'
      BY <2>9, GoAt DEF Switch
    <3>2. QED BY <2>2, <2>3, <3>1, HoldingAre
  <2>10. CASE Lock(t) \/ AddFirst(t) \/ WakeFirst(t) \/ Close(t) \/ Reopen(t)
    BY <2>2, <2>10, LockDoes, AddDoes, WakeFirstDoes, CloseDoes, ReopenDoes, HoldingAre
  <2>11. CASE QuiesceRefs(t) \/ QuiesceRequest(t) \/ QuiesceWait(t)
    BY <2>2, <2>11, QuiesceRefsDoes, QuiesceRequestDoes, QuiesceWaitDoes, HoldingAre
  <2>12. QED
    BY <1>4, <2>4, <2>5, <2>6, <2>7, <2>8, <2>9, <2>10, <2>11 DEF SignalActs, SignalStep
<1>5. QED BY <1>1, <1>3, <1>4, ActsAre

\* The last user of a group has seen the wake-up request and not yet woken anybody.
Answering(w, g) == pc[w] \in {"clear_request", "wake_refs"} /\ local[w].g = g

\* Whoever sleeps until a group is unused has left its request, or is being woken.
Asked(t) ==
  /\ pc[t] = "quiesce_wait" => local[t].count > 0
  /\ pc[t] = "quiesce_asleep" =>
       \/ g_refs[local[t].g1].n > 0 /\ g_refs[local[t].g1].wake
       \/ \E w \in Waiters : Answering(w, local[t].g1)

Requested == \A t \in Threads : Asked(t)

LEMMA Init_Requested == Init => Requested
BY DEF Init, Requested, Asked

LEMMA RefsType ==
  ASSUME Typed, NEW g \in Groups
  PROVE  g_refs[g].n \in Int /\ g_refs[g].wake \in BOOLEAN
BY DEF Typed, Shared

\* A request stays while the group is in use.
StillAsked(g) ==
  g_refs[g].n > 0 /\ g_refs[g].wake => g_refs'[g].n > 0 /\ g_refs'[g].wake

LEMMA StaysG1 ==
  ASSUME Typed, NEW u \in Threads, Stays(u)
  PROVE  local'[u].g1 = local[u].g1
BY WokenFields DEF Stays, Alike, Places

LEMMA StaysAsked ==
  ASSUME Typed, NEW t \in Threads, Others(t), NEW u \in Threads, u # t, Asked(u),
         \/ StillAsked(local[u].g1)
         \/ \E w \in Waiters : Answering(w, local[u].g1)',
         t \in Waiters /\ Answering(t, local[u].g1) /\ pc'[u] = "quiesce_asleep" =>
           Answering(t, local[u].g1)'
  PROVE  Asked(u)'
<1>1. Stays(u)
  BY DEF Others
<1>2. CASE pc'[u] = "quiesce_wait"
  BY <1>1, <1>2 DEF Stays, Asked
<1>3. CASE pc'[u] = "quiesce_asleep"
  <2>1. pc[u] = "quiesce_asleep" /\ local'[u] = local[u]
    BY <1>1, <1>3 DEF Stays
  <2>2. CASE g_refs[local[u].g1].n > 0 /\ g_refs[local[u].g1].wake
    BY <1>3, <2>1, <2>2 DEF Asked, StillAsked
  <2>3. ASSUME NEW w \in Waiters, Answering(w, local[u].g1) PROVE Asked(u)'
    <3>1. Answering(w, local[u].g1)'
      <4>1. CASE w = t
        BY <1>3, <2>3, <4>1
      <4>2. CASE w # t
        <5>1. Stays(w)
          BY <4>2, ThreadsAre DEF Others
        <5>2. QED BY <2>1, <2>3, <5>1 DEF Stays, Answering
      <4>3. QED BY <4>1, <4>2
    <3>2. QED BY <1>3, <2>1, <3>1 DEF Asked
  <2>4. QED BY <2>1, <2>2, <2>3 DEF Asked
<1>4. QED BY <1>2, <1>3 DEF Asked

LEMMA RequestedStep ==
  ASSUME Typed, Requested, [Next]_vars
  PROVE  Requested'
<1>1. CASE UNCHANGED vars
  BY <1>1 DEF vars, condvar, Requested, Asked, Answering
<1>2. ASSUME NEW w \in Waiters, WaiterActs(w) PROVE Requested'
  <2>1. w \in Threads /\ Others(w) /\ local[w].g \in Groups
    BY <1>2, WaiterFixed, WaiterOthers, LocalFacts
  <2>2. Asked(w)'
    <3>1. Moves(w, Calm, Calm)
      BY <1>2, WaiterMoves DEF WaiterActs
    <3>2. pc'[w] \notin Holding
      BY <3>1, HoldingAre DEF Moves
    <3>3. QED BY <3>2, HoldingAre DEF Asked
  <2>3. SUFFICES ASSUME NEW u \in Threads, u # w PROVE Asked(u)'
    BY <2>2 DEF Requested
  <2>4. Asked(u) /\ local[u].g1 \in Groups
    BY LocalFacts DEF Requested
  <2>12. local'[u].g1 = local[u].g1
    BY <2>1, <2>3, StaysG1 DEF Others
  <2>5. CASE UNCHANGED g_refs /\ ~WakeRefs(w) /\ ~ClearRequest(w)
    <3>1. ~Answering(w, local[u].g1)
      BY <1>2, <2>5 DEF WaiterActs, WaiterStep, Wait, Register, Load, TakeRef, CheckClosed, CheckStart, FutexWait,
         SpuriousWake, GiveUp, DropRef, Grab, CheckSteal, UndoLoad, UndoCheck, UndoCas, UndoWake, Confirm,
         WakeDestroyer, Cancel, CleanupWake, Answering
    <3>2. QED BY <2>1, <2>3, <2>4, <2>5, <3>1, StaysAsked DEF StillAsked
  <2>6. CASE WakeRefs(w)
    <3>1. UNCHANGED g_refs
      BY <2>6 DEF WakeRefs, condvar
    <3>2. pc'[u] = "quiesce_asleep" => ~Answering(w, local[u].g1)
      BY <2>3, <2>6, WakeRefsDoes DEF Answering
    <3>3. QED BY <2>1, <2>3, <2>4, <3>1, <3>2, StaysAsked DEF StillAsked
  <2>7. CASE ClearRequest(w)
    <3>1. pc'[w] = "wake_refs" /\ local'[w].g = local[w].g
      BY <2>7, ClearRequestDoes DEF Alike, Places
    <3>2. CASE local[w].g = local[u].g1
      <4>1. Answering(w, local[u].g1)'
        BY <2>12, <3>1, <3>2 DEF Answering
      <4>2. QED BY <2>1, <2>3, <2>4, <4>1, StaysAsked
    <3>3. CASE local[w].g # local[u].g1
      <4>1. g_refs'[local[u].g1] = g_refs[local[u].g1]
        BY <2>1, <2>4, <2>7, <3>3 DEF ClearRequest, G, Typed, Shared
      <4>2. ~Answering(w, local[u].g1)
        BY <3>3 DEF Answering
      <4>3. QED BY <2>1, <2>3, <2>4, <4>1, <4>2, StaysAsked DEF StillAsked
    <3>4. QED BY <3>2, <3>3
  <2>8. CASE TakeRef(w)
    <3>1. StillAsked(local[u].g1)
      BY <2>1, <2>4, <2>8 DEF TakeRef, G, Typed, Shared, StillAsked
    <3>2. ~Answering(w, local[u].g1)
      BY <2>8 DEF TakeRef, Answering
    <3>3. QED BY <2>1, <2>3, <2>4, <3>1, <3>2, StaysAsked
  <2>9. CASE DropRef(w)
    <3>1. ~Answering(w, local[u].g1)
      BY <2>9 DEF DropRef, Answering
    <3>2. CASE pc'[w] = "clear_request"
      <4>1. local'[w].g = local[w].g
        BY <2>9, DropRefDoes DEF Alike, Places
      <4>2. CASE local[w].g = local[u].g1
        <5>1. Answering(w, local[u].g1)'
          BY <2>12, <3>2, <4>1, <4>2 DEF Answering
        <5>2. QED BY <2>1, <2>3, <2>4, <3>1, <5>1, StaysAsked
      <4>3. CASE local[w].g # local[u].g1
        <5>1. g_refs'[local[u].g1] = g_refs[local[u].g1]
          BY <2>1, <2>4, <2>9, <4>3 DEF DropRef, G, Typed, Shared
        <5>2. QED BY <2>1, <2>3, <2>4, <3>1, <5>1, StaysAsked DEF StillAsked
      <4>4. QED BY <4>2, <4>3
    <3>3. CASE pc'[w] # "clear_request"
      <4>1. g_refs[local[w].g] # [n |-> 1, wake |-> TRUE]
        BY <2>9, <3>3, DropRefDoes DEF G
      <4>2. g_refs[local[w].g] \in [n : Int, wake : BOOLEAN]
        BY <2>1 DEF Typed, Shared
      <4>3. ~(g_refs[local[w].g].n = 1 /\ g_refs[local[w].g].wake)
        BY <4>1, <4>2
      <4>4. g_refs' = [g_refs EXCEPT ![local[w].g].n = @ - 1]
        BY <2>9 DEF DropRef, G
      <4>5. StillAsked(local[u].g1)
        BY <2>1, <2>4, <4>3, <4>4 DEF Typed, Shared, StillAsked
      <4>6. QED BY <2>1, <2>3, <2>4, <3>1, <4>5, StaysAsked
    <3>4. QED BY <3>2, <3>3
  <2>10. UNCHANGED g_refs \/ TakeRef(w) \/ DropRef(w) \/ ClearRequest(w)
    BY <1>2 DEF WaiterActs, WaiterStep, Wait, Register, Load, CheckClosed, CheckStart, FutexWait, SpuriousWake,
       GiveUp, WakeRefs, Grab, CheckSteal, UndoLoad, UndoCheck, UndoCas, UndoWake, Confirm,
       WakeDestroyer, Cancel, CleanupWake, condvar
  <2>11. QED BY <2>5, <2>6, <2>7, <2>8, <2>9, <2>10
<1>3. ASSUME NEW t \in Threads, SignalActs(t) PROVE Requested'
  <2>1. Others(t) /\ local[t].g1 \in Groups /\ Asked(t)
    BY <1>3, SignalOthers, LocalFacts DEF Requested
  <2>2. CASE QuiesceRequest(t)
    <3>1. Asked(t)'
      BY <2>2, QuiesceRequestDoes DEF Asked
    <3>2. ASSUME NEW u \in Threads, u # t PROVE Asked(u)'
      <4>1. Asked(u) /\ local[u].g1 \in Groups
        BY LocalFacts DEF Requested
      <4>2. StillAsked(local[u].g1)
        BY <2>1, <2>2, <4>1 DEF QuiesceRequest, G1, Typed, Shared, StillAsked
      <4>3. ~Answering(t, local[u].g1)
        BY <2>2 DEF QuiesceRequest, Answering
      <4>4. QED BY <2>1, <3>2, <4>1, <4>2, <4>3, StaysAsked
    <3>3. QED BY <3>1, <3>2 DEF Requested
  <2>3. CASE UNCHANGED g_refs
    <3>1. ASSUME NEW u \in Threads, u # t PROVE Asked(u)'
      <4>1. Asked(u)
        BY DEF Requested
      <4>2. ~Answering(t, local[u].g1)
        BY <1>3, SignalEnds DEF Answering, Unsettled
      <4>3. QED BY <2>1, <2>3, <3>1, <4>1, <4>2, StaysAsked DEF StillAsked
    <3>2. Asked(t)'
      <4>1. ASSUME pc'[t] \notin {"quiesce_wait", "quiesce_asleep"} PROVE Asked(t)'
        BY <4>1 DEF Asked
      <4>2. CASE QuiesceWait(t)
        <5>1. CASE pc'[t] = "quiesce_asleep"
          <6>1. /\ g_refs[local[t].g1] = [n |-> local[t].count, wake |-> TRUE] /\ local'[t] = local[t]
                /\ pc[t] = "quiesce_wait"
            BY <4>2, <5>1, QuiesceWaitDoes
          <6>2. g_refs[local[t].g1].n = local[t].count /\ g_refs[local[t].g1].wake
            BY <6>1
          <6>3. QED BY <2>1, <2>3, <5>1, <6>1, <6>2 DEF Asked
        <5>2. QED BY <4>1, <4>2, <5>1, QuiesceWaitDoes
      <4>3. CASE QuiesceRequest(t)
        BY <4>3, QuiesceRequestDoes DEF Asked
      <4>4. CASE \E all \in Kinds : Call(t, all)
        BY <4>1, <4>4, KindsAre, CallDoes
      <4>5. CASE CheckRefs(t) \/ Lock(t) \/ AddFirst(t) \/ WakeFirst(t) \/ Add(t) \/ WakeSignalled(t) \/ Quiesce(t)
        BY <4>1, <4>5, CheckRefsDoes, LockDoes, AddDoes, WakeFirstDoes, WakeSignalledDoes, QuiesceDoes, BackLabels
           DEF Done
      <4>6. CASE QuiesceRefs(t) \/ Close(t) \/ Reopen(t) \/ Switch(t)
        BY <4>1, <4>6, QuiesceRefsDoes, CloseDoes, ReopenDoes, SwitchDoes, BackLabels DEF Done
      <4>7. CASE Destroy(t) \/ DestroyWait(t) \/ DestroyLoad(t)
        BY <4>1, <4>7, DestroyDoes DEF DestroyLabels
      <4>8. QED BY <1>3, <4>2, <4>3, <4>4, <4>5, <4>6, <4>7 DEF SignalActs, SignalStep
    <3>3. QED BY <3>1, <3>2 DEF Requested
  <2>4. UNCHANGED g_refs \/ QuiesceRequest(t)
    BY <1>3 DEF SignalActs, Call, SignalStep, CheckRefs, Lock, AddFirst, WakeFirst, Add, WakeSignalled, Quiesce, QuiesceRefs,
       QuiesceWait, Close, Reopen, Switch, Destroy, DestroyWait, DestroyLoad, condvar
  <2>5. QED BY <2>2, <2>3, <2>4
<1>4. QED BY <1>1, <1>2, <1>3, ActsAre

LEMMA Init_Local == Init => LocalInv
<1>1. SUFFICES ASSUME Init PROVE LocalInv
  OBVIOUS
<1>2. \A g \in Groups : g_signals[g] = [n |-> 0, closed |-> FALSE]
  BY <1>1 DEF Init
<1>3. \A g \in Groups : g_signals[g].n = 0 /\ ~g_signals[g].closed
  BY <1>2
<1>4. Positive /\ ClosedHeld
  BY <1>3 DEF Positive, ClosedHeld
<1>5. \A w \in Waiters : Began(w)
  BY <1>1, ThreadsAre DEF Init, Began, Undo
<1>6. QED BY <1>1, <1>4, <1>5, Init_Knows, Init_Ahead DEF LocalInv

LEMMA LocalStep ==
  ASSUME Typed, Mutex, SizeInv, LocalInv, [Next]_vars
  PROVE  LocalInv'
<1>1. \A w \in Waiters : Knows(w)'
  BY KnowsStep DEF LocalInv
<1>2. \A w \in Waiters : Began(w)'
  BY BeganStep DEF LocalInv
<1>3. Positive' /\ Ahead' /\ ClosedHeld'
  BY PositiveStep, AheadStep, ClosedHeldStep DEF LocalInv
<1>4. QED BY <1>1, <1>2, <1>3 DEF LocalInv

\* What keeps a thread with the lock from waiting for ever.
CountInv == Enough /\ Attended

LEMMA Init_Count == Init => CountInv
<1>1. SUFFICES ASSUME Init PROVE CountInv
  OBVIOUS
<1>2. Typed
  BY <1>1, Init_Typed
<1>3. \A w \in Waiters : pc[w] = "idle"
  BY <1>1, ThreadsAre DEF Init
<1>4. Members = {} /\ Sleepers = {}
  BY <1>3 DEF Members, Member, Sleepers, Asleep, Unsettled, UserLabels
<1>5. g_signals[G1Slot].n = 0 /\ g_size[G1Slot] = 0
  BY <1>1, <1>2, SlotFacts DEF Init
<1>6. Cardinality(Members) = 0
  BY <1>4, FS_EmptySet
<1>7. QED BY <1>4, <1>5, <1>6, CountTypes DEF CountInv, Enough, Attended

LEMMA CountStep ==
  ASSUME Typed, Mutex, SizeInv, SleepInv, LocalInv, CountInv, [Next]_vars
  PROVE  CountInv'
<1>1. Typed' /\ SizeInv' /\ SleepInv' /\ LocalInv'
  BY TypedStep, SizeStep, SleepStep, LocalStep
<1>2. CASE UNCHANGED vars
  <2>1. /\ UNCHANGED <<pc, local, g1_start, g_signals, g_size, wseq, orig_size>>
    BY <1>2 DEF vars, condvar
  <2>2. G1Slot' = G1Slot /\ Frontier' = Frontier
    BY <2>1 DEF G1Slot, Frontier, Shift
  <2>3. \A t : (Member(t)' <=> Member(t)) /\ (Thief(t)' <=> Thief(t)) /\ (Waker(t)' <=> Waker(t))
    BY <2>1, <2>2 DEF Member, Thief, Waker
  <2>4. \A t : Rescuer(t)' <=> Rescuer(t)
    BY <2>1, <2>2, <2>3 DEF Rescuer
  <2>5. /\ Members' = Members /\ Thieves' = Thieves /\ Doomed' = Doomed /\ Rescuers' = Rescuers
        /\ Sleepers' = Sleepers
    BY <2>1, <2>2, <2>3, <2>4 DEF Members, Thieves, Doomed, Rescuers, Sleepers, Asleep, G
  <2>6. QED BY <2>1, <2>2, <2>3, <2>5 DEF CountInv, Enough, Attended
<1>3. ASSUME NEW w \in Waiters, WaiterActs(w) PROVE CountInv'
  <2>1. CASE Shift
    <3>1. Shift'
      BY <1>3, <2>1, WaiterFixed DEF Fixed
    <3>2. Positive'
      BY <1>1 DEF LocalInv
    <3>3. QED BY <1>1, <3>1, <3>2, EnoughShift, AttendedShift DEF CountInv
  <2>2. CASE ~Shift
    <3>1. Enough'
      BY <1>1, <1>3, <2>2, WaiterEnough DEF CountInv
    <3>2. Attended'
      BY <1>1, <1>3, <2>2, <3>1, WaiterAttended DEF CountInv
    <3>3. QED BY <3>1, <3>2 DEF CountInv
  <2>3. QED BY <2>1, <2>2
<1>4. ASSUME NEW t \in Threads, SignalActs(t) PROVE CountInv'
  BY <1>1, <1>4, SignalEnough, SignalAttended DEF CountInv
<1>5. QED BY <1>2, <1>3, <1>4, ActsAre

LockInv == Mutex /\ SizeInv /\ SleepInv /\ LocalInv /\ CountInv /\ Held /\ Requested

LEMMA LockInvariance == Spec => [](Typed /\ LockInv)
<1>1. Init => Typed /\ LockInv
  BY Init_Typed, Init_Mutex, Init_Size, Init_Sleep, Init_Local, Init_Count, Init_Held, Init_Requested DEF LockInv
<1>2. Typed /\ LockInv /\ [Next]_vars => (Typed /\ LockInv)'
  <2>1. SUFFICES ASSUME Typed, LockInv, [Next]_vars PROVE Typed' /\ LockInv'
    OBVIOUS
  <2>2. Mutex /\ SizeInv /\ SleepInv /\ LocalInv /\ CountInv /\ Held /\ Requested
    BY <2>1 DEF LockInv
  <2>3. Typed' /\ Mutex' /\ SizeInv'
    BY <2>1, <2>2, TypedStep, MutexStep, SizeStep
  <2>4. SleepInv' /\ LocalInv' /\ CountInv'
    BY <2>1, <2>2, SleepStep, LocalStep, CountStep
  <2>5. Held' /\ Requested'
    BY <2>1, <2>2, HeldStep, RequestedStep
  <2>6. QED BY <2>3, <2>4, <2>5 DEF LockInv
<1>3. QED BY <1>1, <1>2, PTL DEF Spec

LEMMA LockMoves ==
  ASSUME Typed, LockInv
  PROVE  LockMovesOn
<1> DEFINE Stuck == {"idle", "asleep", "quiesce_asleep", "cancel", "lock", "destroy_load", "destroy_wait",
                     "destroy_asleep", "destroyed"}
<1>1. SUFFICES ASSUME lock, \A t \in Threads : pc[t] \in Stuck PROVE FALSE
  BY DEF LockMovesOn
<1>2. PICK t \in Threads : pc[t] \in Holding
  BY <1>1 DEF LockInv, Held
<1>3. pc[t] = "quiesce_asleep"
  BY <1>1, <1>2, HoldingAre
<1>4. local[t].g1 = G1Slot /\ g_size[G1Slot] = 0
  BY <1>2, <1>3, HolderFacts DEF LockInv, Emptied, Quiescing
<1>5. ASSUME NEW w \in Waiters PROVE ~Answering(w, G1Slot) /\ ~Waker(w) /\ ~Rescuer(w)
  BY <1>1, ThreadsAre DEF Answering, Waker, Rescuer, Thief, Undo
<1>6. g_refs[G1Slot].n > 0
  BY <1>3, <1>4, <1>5 DEF LockInv, Requested, Asked
<1>7. Users(G1Slot) # {}
  <2>1. Cardinality(Users(G1Slot)) # 0
    BY <1>6, SlotFacts, UsersType DEF LockInv, SleepInv, RefsCount
  <2>2. QED BY <2>1, FS_EmptySet
<1>8. PICK w \in Users(G1Slot) : TRUE
  BY <1>7
<1>9. w \in Sleepers
  BY <1>1, <1>8, ThreadsAre DEF Users, UserLabels, Sleepers, Asleep, G
<1>10. \A u \in Threads : ~Waker(u) /\ ~Rescuer(u)
  BY <1>1 DEF Waker, Rescuer, Thief, Undo
<1>11. Rescuers = {}
  BY <1>10 DEF Rescuers
<1>12. Cardinality(Rescuers) = 0
  BY <1>11, FS_EmptySet
<1>13. Cardinality(Sleepers) = 0
  BY <1>4, <1>9, <1>10, <1>12, CountTypes DEF LockInv, CountInv, Attended
<1>14. Sleepers = {}
  BY <1>13, SetsAre, ThreadSets, FS_EmptySet
<1>15. QED BY <1>9, <1>14

\* "No deadlock with group switching is possible here" (pthread_cond_wait.c): a signaller that
\* holds the internal lock and sleeps until G1 is unused waits only for threads that can go on,
\* and never for sleepers that nobody wakes or for waiters that wait for the lock.
THEOREM NoLockDeadlock == Spec => []LockMovesOn
<1>1. Typed /\ LockInv => LockMovesOn
  BY LockMoves
<1>2. QED BY <1>1, LockInvariance, PTL

-----------------------------------------------------------------------------
(* What is owed to a waiter. *)

\* The request for the destroyer's wake-up comes from pthread_cond_destroy.
Ending == wrefs.wake \/ (\E w \in Waiters : pc[w] = "wake_destroyer") => Destroyed

LEMMA Init_Ending == Init => Ending
BY ThreadsAre DEF Init, Ending

LEMMA EndingStep ==
  ASSUME Typed, Ending, [Next]_vars
  PROVE  Ending'
<1>1. CASE UNCHANGED vars
  BY <1>1 DEF vars, condvar, Ending, Destroyed
<1>2. ASSUME NEW t \in Threads, Others(t), pc[t] \in DestroyLabels => pc'[t] \in DestroyLabels, Destroyed
      PROVE  Destroyed'
  <2>1. \A u \in Threads : pc[u] \in DestroyLabels => pc'[u] \in DestroyLabels
    BY <1>2 DEF Others, Stays, DestroyLabels
  <2>2. QED BY <1>2, <2>1, ThreadsAre DEF Destroyed, DestroyLabels
<1>3. ASSUME NEW w \in Waiters, WaiterActs(w) PROVE Ending'
  <2>1. w \in Threads /\ Others(w) /\ pc[w] \notin DestroyLabels
    <3>1. Moves(w, Calm, Calm)
      BY <1>3, WaiterMoves DEF WaiterActs
    <3>2. QED
      BY <1>3, <3>1, WaiterFixed, WaiterOthers DEF Moves, Calm, Unsettled, UserLabels, Leaving, DestroyLabels
  <2>2. Destroyed => Destroyed'
    BY <1>2, <2>1
  <2>3. wrefs'.wake => wrefs.wake
    BY <1>3 DEF WaiterActs, WaiterStep, Wait, Register, Load, TakeRef, CheckClosed, CheckStart, FutexWait, SpuriousWake,
       GiveUp, DropRef, ClearRequest, WakeRefs, Grab, CheckSteal, UndoLoad, UndoCheck, UndoCas, UndoWake, Confirm,
       WakeDestroyer, Cancel, CleanupWake, condvar, Typed, Shared
  <2>4. ASSUME NEW v \in Waiters, pc'[v] = "wake_destroyer" PROVE pc[v] = "wake_destroyer" \/ wrefs.wake
    <3>1. CASE v # w
      BY <2>1, <2>4, <3>1, ThreadsAre DEF Others, Stays
    <3>2. CASE v = w
      <4>1. ASSUME Confirm(w) PROVE wrefs = [n |-> 1, wake |-> TRUE]
        <5> DEFINE c == wrefs = [n |-> 1, wake |-> TRUE]
        <5>1. Go(w, IF c THEN "wake_destroyer" ELSE "idle", NoLocals)
          BY <4>1 DEF Confirm
        <5>2. pc'[w] = IF c THEN "wake_destroyer" ELSE "idle"
          BY <2>1, <5>1, GoAt
        <5> HIDE DEF c
        <5>3. c
          BY <2>4, <3>2, <5>2
        <5>4. QED BY <5>3 DEF c
      <4>2. ASSUME ~Confirm(w) PROVE pc'[w] # "wake_destroyer"
        <5>1. CASE Cancel(w) \/ UndoWake(w) \/ CleanupWake(w) \/ WakeDestroyer(w)
          BY <5>1, CancelDoes, PassOnDoes, WakeDestroyerDoes DEF Gone
        <5>2. CASE CheckSteal(w) \/ UndoLoad(w) \/ UndoCheck(w) \/ UndoCas(w)
          BY <5>2, CheckStealDoes, UndoLoadDoes, UndoCheckDoes, UndoCasDoes DEF Looks
        <5>3. QED BY <1>3, <4>2, <5>1, <5>2, WaiterSteps, WaitDoes DEF Strolls, Unsettled, UserLabels
      <4>3. QED BY <2>4, <3>2, <4>1, <4>2
    <3>3. QED BY <3>1, <3>2
  <2>5. QED BY <2>2, <2>3, <2>4 DEF Ending
<1>4. ASSUME NEW t \in Threads, SignalActs(t) PROVE Ending'
  <2>1. Others(t)
    BY <1>4, SignalOthers
  <2>2. pc'[t] # "wake_destroyer"
    <3>1. CASE \E all \in Kinds : Call(t, all)
      BY <3>1, KindsAre, CallDoes
    <3>2. CASE CheckRefs(t) \/ Lock(t) \/ AddFirst(t) \/ WakeFirst(t) \/ Add(t) \/ WakeSignalled(t) \/ Quiesce(t)
      BY <3>2, CheckRefsDoes, LockDoes, AddDoes, WakeFirstDoes, WakeSignalledDoes, QuiesceDoes, BackLabels DEF Done
    <3>3. CASE QuiesceRefs(t) \/ QuiesceRequest(t) \/ QuiesceWait(t) \/ Close(t) \/ Reopen(t) \/ Switch(t)
      BY <3>3, QuiesceRefsDoes, QuiesceRequestDoes, QuiesceWaitDoes, CloseDoes, ReopenDoes, SwitchDoes, BackLabels DEF Done
    <3>4. CASE Destroy(t) \/ DestroyWait(t) \/ DestroyLoad(t)
      BY <3>4, DestroyDoes DEF DestroyLabels
    <3>5. QED BY <1>4, <3>1, <3>2, <3>3, <3>4 DEF SignalActs, SignalStep
  <2>3. \A v \in Waiters : pc'[v] = "wake_destroyer" => pc[v] = "wake_destroyer"
    BY <2>1, <2>2, ThreadsAre DEF Others, Stays
  <2>4. CASE Destroy(t)
    <3>1. t \in Signalers /\ pc'[t] \in DestroyLabels
      BY <2>4, DestroyDoes DEF Destroy
    <3>2. QED BY <3>1 DEF Ending, Destroyed, DestroyLabels
  <2>5. CASE ~Destroy(t)
    <3>1. wrefs' = wrefs
      BY <1>4, <2>5 DEF SignalActs, Call, SignalStep, CheckRefs, Lock, AddFirst, WakeFirst, Add, WakeSignalled, Quiesce,
         QuiesceRefs, QuiesceRequest, QuiesceWait, Close, Reopen, Switch, DestroyWait, DestroyLoad, condvar
    <3>2. pc[t] \in DestroyLabels => pc'[t] \in DestroyLabels
      <4>1. CASE DestroyWait(t) \/ DestroyLoad(t)
        BY <4>1, DestroyDoes
      <4>2. CASE ~(DestroyWait(t) \/ DestroyLoad(t))
        BY <1>4, <2>5, <4>2 DEF SignalActs, Call, SignalStep, CheckRefs, Lock, AddFirst, WakeFirst, Add, WakeSignalled,
           Quiesce, QuiesceRefs, QuiesceRequest, QuiesceWait, Close, Reopen, Switch, DestroyLabels
      <4>3. QED BY <4>1, <4>2
    <3>3. QED BY <1>2, <2>1, <2>3, <3>1, <3>2 DEF Ending
  <2>6. QED BY <2>4, <2>5
<1>5. QED BY <1>1, <1>3, <1>4, ActsAre

\* What is owed is a number of calls or everything, and nothing to those who do not wait.
Owing ==
  /\ calls \in 0 .. MaxCalls
  /\ owed \in [Waiters -> 0 .. calls \cup {Everything}]
  /\ \A w \in Waiters : pc[w] \in Outside => owed[w] = 0

LEMMA Init_Owing == Init => Owing
BY CondVarAssumption DEF Init, Owing

\* The wait of w did not give up.
Persists(w) == local[w].ended = ""

\* The return of waiter w.
LEMMA ConfirmOwes ==
  ASSUME Owing, NEW w \in Waiters, Confirm(w)
  PROVE  /\ owed'[w] = 0
         /\ \A v \in Waiters : v # w =>
              \/ owed'[v] = owed[v] /\ (Persists(w) => owed[v] \in {0, Everything})
              \/ owed'[v] = owed[v] - 1 /\ Persists(w) /\ owed[v] \in 1 .. MaxCalls
         /\ owed' \in [Waiters -> 0 .. calls \cup {Everything}]
<1>1. owed' = [v \in Waiters |->
                IF v = w THEN 0
                ELSE IF Persists(w) /\ owed[v] \in 1 .. MaxCalls THEN owed[v] - 1
                ELSE owed[v]]
  BY DEF Confirm, Persists
<1>2. calls \in 0 .. MaxCalls /\ MaxCalls \in Nat /\ calls \in Nat
  BY CondVarAssumption DEF Owing
<1>3. \A v \in Waiters : owed[v] \in 0 .. calls \cup {Everything}
  BY DEF Owing
<1>4. ASSUME NEW v \in Waiters, v # w
      PROVE  /\ \/ owed'[v] = owed[v] /\ (Persists(w) => owed[v] \in {0, Everything})
                \/ owed'[v] = owed[v] - 1 /\ Persists(w) /\ owed[v] \in 1 .. MaxCalls
             /\ owed'[v] \in 0 .. calls \cup {Everything}
  <2>1. owed'[v] = IF Persists(w) /\ owed[v] \in 1 .. MaxCalls THEN owed[v] - 1 ELSE owed[v]
    BY <1>1, <1>4
  <2>2. CASE Persists(w) /\ owed[v] \in 1 .. MaxCalls
    BY <1>2, <1>3, <2>1, <2>2 DEF Everything
  <2>3. CASE ~(Persists(w) /\ owed[v] \in 1 .. MaxCalls)
    BY <1>2, <1>3, <2>1, <2>3 DEF Everything
  <2>4. QED BY <2>2, <2>3
<1>5. owed'[w] = 0 /\ DOMAIN owed' = Waiters /\ owed' = [v \in Waiters |-> owed'[v]]
  BY <1>1
<1>6. \A v \in Waiters : owed'[v] \in 0 .. calls \cup {Everything}
  BY <1>2, <1>4, <1>5
<1>7. owed' \in [Waiters -> 0 .. calls \cup {Everything}]
  BY <1>5, <1>6
<1>8. QED BY <1>4, <1>5, <1>7

\* A signal or a broadcast begins.
LEMMA CallOwes ==
  ASSUME Owing, NEW t, NEW all \in BOOLEAN, Call(t, all)
  PROVE  /\ \A w \in Waiters :
              \/ pc[w] \in {"idle", "register"} /\ owed'[w] = owed[w]
              \/ pc[w] \notin {"idle", "register"} /\ (all \/ owed[w] = Everything) /\ owed'[w] = Everything
              \/ pc[w] \notin {"idle", "register"} /\ ~all /\ owed[w] \in 0 .. MaxCalls /\ owed'[w] = owed[w] + 1
         /\ owed' \in [Waiters -> 0 .. calls' \cup {Everything}]
         /\ calls' \in 0 .. MaxCalls
<1>1. /\ owed' = [w \in Waiters |-> IF w \notin Waiting THEN owed[w]
                                     ELSE IF all \/ owed[w] = Everything THEN Everything
                                     ELSE owed[w] + 1]
      /\ calls' = calls + 1 /\ calls < MaxCalls
  BY DEF Call
<1>2. calls \in 0 .. MaxCalls /\ MaxCalls \in Nat /\ calls \in Nat
  BY CondVarAssumption DEF Owing
<1>3. \A v \in Waiters : owed[v] \in 0 .. calls \cup {Everything}
  BY DEF Owing
<1>4. ASSUME NEW w \in Waiters
      PROVE  /\ \/ pc[w] \in {"idle", "register"} /\ owed'[w] = owed[w]
                \/ pc[w] \notin {"idle", "register"} /\ (all \/ owed[w] = Everything) /\ owed'[w] = Everything
                \/ pc[w] \notin {"idle", "register"} /\ ~all /\ owed[w] \in 0 .. MaxCalls /\ owed'[w] = owed[w] + 1
             /\ owed'[w] \in 0 .. calls' \cup {Everything}
  <2>1. owed'[w] = IF w \notin Waiting THEN owed[w]
                   ELSE IF all \/ owed[w] = Everything THEN Everything ELSE owed[w] + 1
    BY <1>1
  <2>2. w \in Waiting <=> pc[w] \notin {"idle", "register"}
    BY DEF Waiting
  <2>3. CASE w \notin Waiting
    BY <1>1, <1>2, <1>3, <2>1, <2>2, <2>3
  <2>4. CASE w \in Waiting /\ (all \/ owed[w] = Everything)
    BY <2>1, <2>2, <2>4
  <2>5. CASE w \in Waiting /\ ~(all \/ owed[w] = Everything)
    BY <1>1, <1>2, <1>3, <2>1, <2>2, <2>5
  <2>6. QED BY <2>3, <2>4, <2>5
<1>5. DOMAIN owed' = Waiters /\ owed' = [v \in Waiters |-> owed'[v]]
  BY <1>1
<1>6. owed' \in [Waiters -> 0 .. calls' \cup {Everything}]
  BY <1>4, <1>5
<1>7. QED BY <1>1, <1>2, <1>4, <1>6

LEMMA OwingStep ==
  ASSUME Typed, Ending, Owing, [Next]_vars
  PROVE  Owing'
<1>1. CASE UNCHANGED vars
  BY <1>1 DEF vars, Owing, bounds, ghost
<1>2. ASSUME NEW t \in Threads, Others(t), UNCHANGED <<owed, calls>>,
             t \in Waiters /\ pc'[t] \in Outside => pc[t] \in Outside
      PROVE  Owing'
  <2>1. \A w \in Waiters : pc'[w] \in Outside => pc[w] \in Outside
    BY <1>2, ThreadsAre DEF Others, Stays, Outside
  <2>2. QED BY <1>2, <2>1 DEF Owing
<1>3. ASSUME NEW w \in Waiters, WaiterActs(w) PROVE Owing'
  <2>1. w \in Threads /\ Others(w) /\ UNCHANGED calls /\ (~Confirm(w) => UNCHANGED owed)
    BY <1>3, WaiterFixed, WaiterOthers
  <2>2. CASE Confirm(w)
    <3>1. ASSUME NEW v \in Waiters, pc'[v] \in Outside PROVE owed'[v] = 0
      <4>1. CASE v = w
        BY <2>2, <4>1, ConfirmOwes
      <4>2. CASE v # w
        <5>1. pc[v] \in Outside
          BY <2>1, <3>1, <4>2, ThreadsAre DEF Others, Stays, Outside
        <5>2. owed[v] = 0
          BY <5>1 DEF Owing
        <5>3. \/ owed'[v] = owed[v]
              \/ owed[v] \in 1 .. MaxCalls
          BY <2>2, <4>2, ConfirmOwes
        <5>4. QED BY <5>2, <5>3
      <4>3. QED BY <4>1, <4>2
    <3>2. QED BY <2>1, <2>2, <3>1, ConfirmOwes DEF Owing
  <2>3. CASE ~Confirm(w)
    <3>1. pc'[w] \in Outside => pc[w] \in Outside
      <4>1. CASE Cancel(w) \/ UndoWake(w) \/ CleanupWake(w) \/ WakeDestroyer(w) \/ Wait(w)
        BY <4>1, CancelDoes, PassOnDoes, WakeDestroyerDoes, WaitDoes DEF Gone, Outside
      <4>2. CASE CheckSteal(w) \/ UndoLoad(w) \/ UndoCheck(w) \/ UndoCas(w)
        BY <4>2, CheckStealDoes, UndoLoadDoes, UndoCheckDoes, UndoCasDoes DEF Looks, Outside
      <4>3. CASE Strolls(w) /\ (FutexWait(w) \/ GivesUp(w) \/ Quietly(w))
        BY <4>3, FutexWaitDoes, GiveUpDoes DEF Strolls, Quietly, Blind, GivesUp, Outside, Unsettled, UserLabels
      <4>4. QED BY <1>3, <2>3, <4>1, <4>2, <4>3, WaiterSteps DEF Outside
    <3>2. QED BY <1>2, <2>1, <2>3, <3>1
  <2>4. QED BY <2>2, <2>3
<1>4. ASSUME NEW t \in Threads, SignalActs(t) PROVE Owing'
  <2>1. Others(t)
    BY <1>4, SignalOthers
  <2>2. CASE \E all \in Kinds : Call(t, all)
    <3>1. PICK all \in BOOLEAN : Call(t, all)
      BY <2>2, KindsAre
    <3>2. ~Destroyed /\ t \in Signalers
      BY <3>1 DEF Call
    <3>3. ASSUME NEW v \in Waiters, pc'[v] \in Outside PROVE owed'[v] = 0
      <4>1. v # t
        BY <3>2, ThreadsAre
      <4>2. pc[v] \in Outside
        BY <2>1, <3>3, <4>1, ThreadsAre DEF Others, Stays, Outside
      <4>3. pc[v] \in {"idle", "register"}
        BY <3>2, <4>2 DEF Ending, Outside
      <4>4. owed[v] = 0
        BY <4>2 DEF Owing
      <4>5. QED BY <3>1, <4>3, <4>4, CallOwes
    <3>4. QED BY <3>1, <3>3, CallOwes DEF Owing
  <2>3. CASE ~\E all \in Kinds : Call(t, all)
    <3>1. UNCHANGED <<owed, calls>>
      BY <1>4, <2>3, SignalFixed
    <3>2. t \in Waiters => pc'[t] \notin Outside
      <4>1. CASE CheckRefs(t) \/ Lock(t) \/ AddFirst(t) \/ WakeFirst(t) \/ Add(t) \/ WakeSignalled(t) \/ Quiesce(t)
        BY <4>1, CheckRefsDoes, LockDoes, AddDoes, WakeFirstDoes, WakeSignalledDoes, QuiesceDoes, BackLabels
           DEF Done, Outside
      <4>2. CASE QuiesceRefs(t) \/ QuiesceRequest(t) \/ QuiesceWait(t) \/ Close(t) \/ Reopen(t) \/ Switch(t)
        BY <4>2, QuiesceRefsDoes, QuiesceRequestDoes, QuiesceWaitDoes, CloseDoes, ReopenDoes, SwitchDoes, BackLabels
           DEF Done, Outside
      <4>3. CASE Destroy(t) \/ DestroyWait(t) \/ DestroyLoad(t)
        BY <4>3, DestroyDoes DEF DestroyLabels, Outside
      <4>4. QED BY <1>4, <2>3, <4>1, <4>2, <4>3 DEF SignalActs, SignalStep
    <3>3. QED BY <1>2, <2>1, <3>1, <3>2
  <2>4. QED BY <2>2, <2>3
<1>5. QED BY <1>1, <1>3, <1>4, ActsAre

-----------------------------------------------------------------------------
(* What a broadcast reaches. *)

LEMMA WaiterFrom ==
  ASSUME NEW w, WaiterActs(w)
  PROVE  pc[w] \notin SignalLabels
BY DEF WaiterActs, WaiterStep, Wait, Register, Load, TakeRef, CheckClosed, CheckStart, FutexWait, SpuriousWake,
   GiveUp, DropRef, ClearRequest, WakeRefs, Grab, CheckSteal, UndoLoad, UndoCheck, UndoCas, UndoWake, Confirm,
   WakeDestroyer, Cancel, CleanupWake, SignalLabels, Holding, Quiescing, Shifting

\* Thread a takes a step.
Acts(a) == (a \in Waiters /\ WaiterActs(a)) \/ SignalActs(a)

LEMMA NextActs ==
  ASSUME [Next]_vars
  PROVE  UNCHANGED vars \/ \E a \in Threads : Acts(a)
BY ActsAre, ThreadsAre DEF Acts

LEMMA ActsOthers ==
  ASSUME Typed, NEW a \in Threads, Acts(a)
  PROVE  Others(a)
BY WaiterOthers, SignalOthers DEF Acts

\* The steps of the others while thread t holds the lock.
LEMMA HolderCalm ==
  ASSUME Typed, Mutex, NEW t \in Threads, pc[t] \in Holding, NEW a \in Threads, a # t, Acts(a)
  PROVE  Fixed /\ UNCHANGED g_size /\ (SignalActs(a) => UNCHANGED <<wseq, g_signals>>)
<1>1. lock /\ pc[a] \notin Holding
  BY DEF Mutex
<1>2. CASE a \in Waiters /\ WaiterActs(a)
  <2>1. ~Cancel(a)
    BY <1>1 DEF Cancel
  <2>2. ~SignalActs(a)
    BY <1>2, WaiterFrom, SignalEnds
  <2>3. QED BY <1>2, <2>1, <2>2, WaiterFixed
<1>3. CASE SignalActs(a)
  <2>1. ~Switch(a) /\ ~Close(a) /\ ~Add(a) /\ ~AddFirst(a) /\ ~Quiesce(a) /\ ~Reopen(a)
    BY <1>1, HoldingAre DEF Switch, Close, Add, AddFirst, Quiesce, Reopen
  <2>2. QED BY <1>3, <2>1, SignalFixed
<1>4. QED BY <1>2, <1>3 DEF Acts

LEMMA StaysSeq ==
  ASSUME Typed, NEW u \in Threads, Stays(u)
  PROVE  /\ local'[u].seq = local[u].seq /\ local'[u].count = local[u].count /\ local'[u].all = local[u].all
         /\ local'[u].g = local[u].g /\ local'[u].ended = local[u].ended
         /\ pc'[u] \in Unsettled <=> pc[u] \in Unsettled
         /\ pc'[u] \in Quiescing \cup Shifting <=> pc[u] \in Quiescing \cup Shifting
<1>1. CASE pc'[u] = pc[u] /\ local'[u] = local[u]
  BY <1>1
<1>2. CASE pc[u] = "asleep" /\ pc'[u] = "drop_ref" /\ local'[u] = [local[u] EXCEPT !.to = "load"]
  <2>1. local'[u].count = local[u].count
    BY <1>2 DEF Typed, Own, Locals
  <2>2. QED BY <1>2, <2>1, WokenFields DEF Alike, Places, Unsettled, UserLabels, Quiescing, Shifting
<1>3. CASE \/ pc[u] = "quiesce_asleep" /\ pc'[u] = "quiesce_refs" /\ local'[u] = local[u]
           \/ pc[u] = "destroy_asleep" /\ pc'[u] = "destroy_load" /\ local'[u] = local[u]
  BY <1>3 DEF Unsettled, UserLabels, Quiescing, Shifting
<1>4. QED BY <1>1, <1>2, <1>3 DEF Stays

\* A waiter keeps its position until it is settled.
LEMMA SeqKept ==
  ASSUME Typed, NEW a \in Threads, Acts(a), NEW w \in Waiters, pc'[w] \in Unsettled
  PROVE  \/ pc[w] \in Unsettled /\ local'[w].seq = local[w].seq
         \/ w = a /\ Wait(w) /\ pc[w] = "idle" /\ pc'[w] = "register" /\ local'[w].seq = wseq.pos
<1>1. w \in Threads
  BY ThreadsAre
<1>2. CASE w # a
  BY <1>1, <1>2, ActsOthers, StaysSeq DEF Others
<1>3. CASE w = a /\ SignalActs(a)
  BY <1>3, SignalEnds
<1>4. CASE w = a /\ WaiterActs(a)
  <2>1. CASE Wait(w)
    BY <1>4, <2>1, WaitDoes
  <2>2. CASE Strolls(w)
    BY <2>2 DEF Strolls, Alike, Places
  <2>3. CASE Cancel(w) \/ UndoWake(w) \/ CleanupWake(w) \/ WakeDestroyer(w) \/ Confirm(w)
    BY <2>3, CancelDoes, PassOnDoes, WakeDestroyerDoes, ConfirmDoes DEF Gone, Unsettled, UserLabels
  <2>4. CASE CheckSteal(w) \/ UndoLoad(w) \/ UndoCheck(w) \/ UndoCas(w)
    BY <2>4, CheckStealDoes, UndoLoadDoes, UndoCheckDoes, UndoCasDoes DEF Looks, Unsettled, UserLabels
  <2>5. QED BY <1>4, <2>1, <2>2, <2>3, <2>4, WaiterSteps DEF Unsettled, UserLabels
<1>5. QED BY <1>2, <1>3, <1>4 DEF Acts

\* The newcomers that a thread has seen when it read wseq.
Seen(t) == {w \in Newcomers : local[w].seq < local[t].count}

SeenRoom(t) ==
  pc[t] \in ReadEarlier => Cardinality(Seen(t)) <= local[t].count - Frontier + g_size[wseq.g2]

LEMMA SeenType ==
  ASSUME NEW t
  PROVE  /\ Seen(t) \in SUBSET Threads /\ Seen(t)' \in SUBSET Threads
         /\ Cardinality(Seen(t)) \in Nat /\ Cardinality(Seen(t)') \in Nat
<1>1. Seen(t) \in SUBSET Threads /\ Seen(t)' \in SUBSET Threads
  BY ThreadsAre DEF Seen, Newcomers
<1>2. QED BY <1>1, ThreadSets

\* The labels from which a signal comes to one where its copy of wseq matters.
LEMMA ReadBefore ==
  ASSUME Typed, NEW t \in Threads, SignalActs(t), pc'[t] \in ReadEarlier
  PROVE  \/ Lock(t)
         \/ (AddFirst(t) \/ WakeFirst(t)) /\ pc[t] \in ReadEarlier /\ local'[t] = local[t]
<1>1. CASE AddFirst(t) \/ WakeFirst(t) \/ Lock(t)
  BY <1>1, AddDoes, WakeFirstDoes DEF ReadEarlier
<1>2. CASE \E all \in Kinds : Call(t, all)
  BY <1>2, KindsAre, CallDoes DEF ReadEarlier
<1>3. CASE CheckRefs(t) \/ Add(t) \/ WakeSignalled(t) \/ Quiesce(t)
  BY <1>3, CheckRefsDoes, AddDoes, WakeSignalledDoes, QuiesceDoes, BackLabels DEF Done, ReadEarlier
<1>4. CASE QuiesceRefs(t) \/ QuiesceRequest(t) \/ QuiesceWait(t) \/ Close(t) \/ Reopen(t) \/ Switch(t)
  BY <1>4, QuiesceRefsDoes, QuiesceRequestDoes, QuiesceWaitDoes, CloseDoes, ReopenDoes, SwitchDoes, BackLabels
     DEF Done, ReadEarlier
<1>5. CASE Destroy(t) \/ DestroyWait(t) \/ DestroyLoad(t)
  BY <1>5, DestroyDoes DEF DestroyLabels, ReadEarlier
<1>6. QED BY <1>1, <1>2, <1>3, <1>4, <1>5 DEF SignalActs, SignalStep

LEMMA SeenStep ==
  ASSUME Typed, Typed', Mutex, SizeInv, SizeInv', Ahead, NEW a \in Threads, Acts(a), NEW t \in Threads, SeenRoom(t)
  PROVE  SeenRoom(t)'
<1>1. SUFFICES ASSUME pc'[t] \in ReadEarlier
      PROVE  Cardinality(Seen(t)') <= local'[t].count - Frontier' + g_size'[wseq'.g2]
  BY DEF SeenRoom
<1>2. Others(a)
  BY ActsOthers
<1>3. local[t].count \in Int /\ local'[t].count \in Int /\ wseq.pos \in Nat /\ Frontier \in Int /\ wseq.g2 \in Groups
      /\ g_size[wseq.g2] \in Int
  BY GroupFacts, SlotFacts DEF Typed, Own, Locals
<1>4. CASE pc[t] \in ReadEarlier /\ local'[t].count = local[t].count /\ Fixed /\ g_size'[wseq.g2] = g_size[wseq.g2]
  <2>1. Seen(t)' \subseteq Seen(t)
    <3>1. SUFFICES ASSUME NEW w \in Waiters, pc'[w] \in Unsettled, local'[w].seq >= Frontier', local'[w].seq < local'[t].count
          PROVE  w \in Seen(t)
      BY DEF Seen, Newcomers
    <3>2. local[t].count <= wseq.pos
      BY <1>4 DEF Ahead, ReadOK
    <3>3. pc[w] \in Unsettled /\ local'[w].seq = local[w].seq
      <4>1. CASE local'[w].seq = wseq.pos
        BY <1>3, <1>4, <3>1, <3>2, <4>1
      <4>2. QED BY <3>1, <4>1, SeqKept
    <3>4. QED BY <1>4, <3>1, <3>3 DEF Seen, Newcomers, Fixed
  <2>2. Cardinality(Seen(t)') <= Cardinality(Seen(t))
    BY <2>1, SeenType, Recount_Less
  <2>3. Cardinality(Seen(t)) <= local[t].count - Frontier + g_size[wseq.g2]
    BY <1>4 DEF SeenRoom
  <2>4. Frontier' = Frontier /\ wseq'.g2 = wseq.g2
    BY <1>4 DEF Fixed
  <2>5. QED BY <1>3, <1>4, <2>2, <2>3, <2>4, SeenType
<1>5. CASE t # a
  <2>1. Stays(t)
    BY <1>2, <1>5 DEF Others
  <2>2. pc[t] = pc'[t] /\ local'[t] = local[t]
    BY <1>1, <2>1 DEF Stays, ReadEarlier
  <2>3. pc[t] \in Holding
    BY <1>1, <2>2, HoldingAre DEF ReadEarlier
  <2>4. QED BY <1>1, <1>4, <1>5, <2>2, <2>3, HolderCalm
<1>6. CASE t = a
  <2>1. SignalActs(t)
    <3>1. ASSUME t \in Waiters, WaiterActs(t) PROVE FALSE
      <4>1. Moves(t, Calm, Calm)
        BY <3>1, WaiterMoves DEF WaiterActs
      <4>2. QED BY <1>1, <4>1, HoldingAre DEF Moves, ReadEarlier
    <3>2. QED BY <1>6, <3>1 DEF Acts
  <2>2. CASE Lock(t)
    <3>1. local'[t].count = wseq.pos /\ UNCHANGED wseq
      BY <2>2, LockDoes DEF Lock
    <3>2. Cardinality(Newcomers') <= wseq'.pos - Frontier' + g_size'[wseq'.g2]
      BY DEF SizeInv, Room
    <3>3. Seen(t)' \subseteq Newcomers'
      BY DEF Seen
    <3>4. Cardinality(Seen(t)') <= Cardinality(Newcomers')
      BY <3>3, SeenType, CountTypesNext, Recount_Less
    <3>5. QED BY <3>1, <3>2, <3>4, SeenType, CountTypesNext, NextFacts
  <2>3. CASE (AddFirst(t) \/ WakeFirst(t)) /\ pc[t] \in ReadEarlier /\ local'[t] = local[t]
    <3>1. pc[t] # "close" /\ pc[t] # "switch" /\ pc[t] # "add"
      BY <2>3 DEF ReadEarlier
    <3>2. ~Close(t) /\ ~Switch(t) /\ ~Add(t)
      BY <3>1 DEF Close, Switch, Add
    <3>3. Fixed
      BY <2>1, <3>2, SignalFixed
    <3>4. g_size'[wseq.g2] = g_size[wseq.g2]
      <4>1. CASE AddFirst(t)
        BY <4>1, AddEffect
      <4>2. CASE ~AddFirst(t)
        BY <2>1, <3>2, <4>2, SignalFixed
      <4>3. QED BY <4>1, <4>2
    <3>5. QED BY <1>4, <2>3, <3>3, <3>4
  <2>4. QED BY <1>1, <2>1, <2>2, <2>3, ReadBefore
<1>7. QED BY <1>5, <1>6

\* Waiter w belongs to a group that is over, or to a G1 that has been signalled.
Covered(w) == local[w].seq < Frontier /\ (local[w].seq < g1_start.pos \/ g_size[G1Slot] = 0)

\* The broadcast of thread t is still to signal waiter w.
Reaching(t, w) ==
  /\ local[t].all
  /\ \/ pc[t] \in {"signal", "lock"} \cup Quiescing \cup Shifting
     \/ pc[t] \in ReadEarlier /\ local[w].seq < local[t].count
     \/ pc[t] = "add" /\ local[w].seq < Frontier

Served(w) == Covered(w) \/ \E t \in Threads : Reaching(t, w)

LEMMA SizeLeft ==
  ASSUME Typed, Typed', SizeInv, SizeInv', NEW a \in Threads, Acts(a), ~Switch(a), g_size[G1Slot] = 0,
         G1Slot' = G1Slot
  PROVE  g_size'[G1Slot] = 0
<1>1. g_size[G1Slot] \in Int /\ g_size'[G1Slot] \in Int /\ g_size'[G1Slot] >= 0 /\ G1Slot \in Groups
  <2>1. g_size'[G1Slot'] >= 0
    BY NextFacts DEF SizeInv, Roles, G1Slot
  <2>2. QED BY <2>1, SlotFacts, NextFacts
<1>2. CASE a \in Waiters /\ WaiterActs(a)
  <2>1. CASE Cancel(a)
    <3>1. CASE UNCHANGED g_size
      BY <3>1
    <3>2. CASE g_size' = [g_size EXCEPT ![local[a].g] = @ - 1]
      <4>1. local[a].g \in Groups
        BY LocalFacts
      <4>2. g_size'[G1Slot] <= g_size[G1Slot]
        BY <1>1, <3>2, <4>1 DEF Typed, Shared
      <4>3. QED BY <1>1, <4>2
    <3>3. QED BY <1>2, <2>1, <3>1, <3>2, CancelDoes
  <2>2. QED BY <1>2, <2>1, WaiterFixed
<1>3. CASE SignalActs(a)
  <2>1. CASE Add(a) \/ AddFirst(a)
    BY <1>1, <2>1, AddEffect
  <2>2. QED BY <1>3, <2>1, SignalFixed
<1>4. QED BY <1>2, <1>3 DEF Acts

LEMMA CloseEffect ==
  ASSUME Typed, Mutex, SizeInv, NEW t \in Threads, Close(t)
  PROVE  /\ g1_start'.pos = Frontier /\ Frontier' = Frontier /\ UNCHANGED <<wseq, g_size, g_signals>>
         /\ G1Slot' = G1Slot /\ ~Shift /\ Shift' /\ pc[t] = "close" /\ pc'[t] = "reopen" /\ local' = local /\ Only(t)
<1>1. /\ pc[t] = "close" /\ pc'[t] = "reopen" /\ g1_start'.pos = g1_start.pos + orig_size
      /\ UNCHANGED <<wseq, g_size, g_signals, local>> /\ Only(t)
  BY CloseDoes DEF Close
<1>2. pc[t] \in Holding /\ pc[t] \notin Shifting /\ pc'[t] \in Shifting
  BY <1>1 DEF Holding, Quiescing, Shifting
<1>3. Others(t)
  BY <1>1, OnlyOthers
<1>4. ~Shift /\ Shift'
  BY <1>2, <1>3, HoldsAlone, HoldingAre DEF Shift
<1>5. QED BY <1>1, <1>4 DEF Frontier, G1Slot

\* What has been signalled stays signalled.
LEMMA CoveredStep ==
  ASSUME Typed, Typed', Mutex, SizeInv, SizeInv', NEW a \in Threads, Acts(a), NEW w \in Waiters,
         local'[w].seq = local[w].seq, Covered(w)
  PROVE  Covered(w)'
<1>1. /\ local[w].seq \in Nat /\ Frontier \in Int /\ g1_start.pos \in Int /\ wseq.pos \in Nat
      /\ Frontier <= wseq.pos
  BY LocalFacts, GroupFacts, ThreadsAre, SizeFacts
<1>2. CASE Switch(a)
  <2>1. Frontier = g1_start.pos /\ Frontier' = wseq.pos /\ UNCHANGED g1_start
    BY <1>2, SwitchEffect
  <2>2. QED BY <1>1, <2>1 DEF Covered
<1>3. CASE Close(a)
  BY <1>3, CloseEffect DEF Covered
<1>4. CASE Fixed /\ ~Switch(a)
  <2>1. G1Slot' = G1Slot
    BY <1>4 DEF Fixed, G1Slot
  <2>2. g_size[G1Slot] = 0 => g_size'[G1Slot] = 0
    BY <1>4, <2>1, SizeLeft
  <2>3. QED BY <1>4, <2>1, <2>2 DEF Covered, Fixed
<1>5. Fixed \/ Switch(a) \/ Close(a)
  BY WaiterFixed, SignalFixed DEF Acts
<1>6. QED BY <1>2, <1>3, <1>4, <1>5

\* No signal turns back for want of waiters while one waits.
LEMMA RefsSeen ==
  ASSUME WrefsCount, NEW w \in Waiters, pc[w] \notin Outside
  PROVE  wrefs.n # 0
BY RegisteredSome

\* A signal that finds nothing to do has seen all waiters signalled.
LEMMA QuiesceSeen ==
  ASSUME Typed, Mutex, SizeInv, NEW t \in Threads, SeenRoom(t), Quiesce(t), Done(t),
         NEW w \in Waiters, pc[w] \in Unsettled, local[w].seq < local[t].count
  PROVE  Covered(w)
<1>1. /\ Only(t) /\ pc[t] = "quiesce" /\ local[t].count - g1_start.pos - orig_size + g_size[1 - local[t].g1] = 0
  BY QuiesceDoes, BackLabels DEF Done
<1>2. pc[t] \in Holding /\ pc[t] \notin Shifting /\ pc[t] \in Emptied /\ pc[t] \in ReadEarlier
  BY <1>1 DEF Holding, Shifting, Emptied, ReadEarlier
<1>3. ~Shift
  BY <1>1, <1>2, OnlyOthers, HoldsAlone, HoldingAre DEF Shift
<1>4. Frontier = g1_start.pos + orig_size /\ 1 - local[t].g1 = wseq.g2 /\ g_size[G1Slot] = 0
  BY <1>2, <1>3, HolderFacts DEF Frontier
<1>5. local[t].count \in Int /\ g1_start.pos \in Int /\ orig_size \in Int /\ g_size[wseq.g2] \in Int /\ Frontier \in Int
      /\ local[w].seq \in Nat
  BY GroupFacts, LocalFacts, ThreadsAre DEF Typed, Own, Locals
<1>6. Cardinality(Seen(t)) <= 0
  BY <1>1, <1>2, <1>4, <1>5 DEF SeenRoom
<1>7. Seen(t) = {}
  <2>1. Cardinality(Seen(t)) = 0 /\ IsFiniteSet(Seen(t))
    BY <1>6, SeenType, ThreadSets
  <2>2. QED BY <2>1, FS_EmptySet
<1>8. ~(local[w].seq >= Frontier)
  BY <1>7 DEF Seen, Newcomers
<1>9. QED BY <1>4, <1>5, <1>8 DEF Covered

\* A broadcast goes on until it has reached the waiter.
LEMMA ReachingOwn ==
  ASSUME Typed, Typed', Mutex, SizeInv, WrefsCount, NEW t \in Threads, SeenRoom(t), SignalActs(t),
         NEW w \in Waiters, w # t, pc[w] \in Unsettled \ {"register"}, local'[w].seq = local[w].seq, Reaching(t, w)
  PROVE  Covered(w)' \/ Covered(w) \/ Reaching(t, w)'
<1>0. Placed(w) /\ local[w].seq < wseq.pos
  BY DEF SizeInv, Placed
<1>1. pc[t] \in {"signal", "lock", "add"} \cup ReadEarlier \cup Quiescing \cup Shifting /\ local[t].all
  BY DEF Reaching
<1>2. pc[t] \notin {"idle", "wake"} \cup DestroyLabels
  BY <1>1 DEF Quiescing, Shifting, ReadEarlier, DestroyLabels
<1>3. CASE CheckRefs(t)
  <2>1. wrefs.n # 0
    BY RefsSeen DEF Outside, Unsettled, UserLabels
  <2>2. QED BY <1>1, <1>3, <2>1, CheckRefsDoes DEF Reaching
<1>4. CASE Lock(t)
  <2>1. local'[t].all /\ pc'[t] \in ReadEarlier /\ local'[t].count = wseq.pos
    BY <1>1, <1>4, LockDoes DEF ReadEarlier
  <2>2. QED BY <1>0, <2>1 DEF Reaching
<1>5. CASE AddFirst(t) \/ WakeFirst(t)
  <2>1. pc[t] \in ReadEarlier /\ pc'[t] \in ReadEarlier /\ local'[t] = local[t]
    BY <1>5, AddDoes, WakeFirstDoes DEF ReadEarlier
  <2>2. local[w].seq < local[t].count
    BY <2>1 DEF Reaching, ReadEarlier, Quiescing, Shifting
  <2>3. QED BY <1>1, <2>1, <2>2 DEF Reaching
<1>6. CASE Add(t)
  <2>1. pc[t] = "add"
    BY <1>6 DEF Add
  <2>2. local[w].seq < Frontier
    BY <2>1 DEF Reaching, ReadEarlier, Quiescing, Shifting
  <2>3. Amount(t) = g_size[G1Slot]
    BY <1>1 DEF Amount
  <2>4. g_size'[G1Slot] = 0
    BY <1>6, <2>3, AddEffect, SlotFacts
  <2>5. Fixed
    BY <1>6, <2>1, SignalFixed DEF Close, Switch
  <2>6. G1Slot' = G1Slot /\ Frontier' = Frontier
    BY <2>5 DEF Fixed, G1Slot
  <2>7. QED BY <2>2, <2>4, <2>6 DEF Covered
<1>7. CASE Quiesce(t)
  <2>1. pc[t] = "quiesce"
    BY <1>7 DEF Quiesce
  <2>2. local[w].seq < local[t].count
    BY <2>1 DEF Reaching, Quiescing, Shifting
  <2>3. CASE Done(t)
    BY <1>7, <2>2, <2>3, QuiesceSeen
  <2>4. CASE pc'[t] = "quiesce_refs" /\ Alike(t)
    BY <1>1, <2>4 DEF Reaching, Alike, Places, Quiescing
  <2>5. QED BY <1>7, <2>3, <2>4, QuiesceDoes
<1>8. CASE QuiesceRefs(t) \/ QuiesceRequest(t) \/ QuiesceWait(t) \/ Close(t) \/ Reopen(t)
  <2>1. local'[t].all = local[t].all /\ pc'[t] \in Quiescing \cup Shifting
    BY <1>8, QuiesceRefsDoes, QuiesceRequestDoes, QuiesceWaitDoes, CloseDoes, ReopenDoes
       DEF Alike, Places, Quiescing, Shifting
  <2>2. QED BY <1>1, <2>1 DEF Reaching
<1>9. CASE Switch(t)
  <2>1. /\ Frontier' = wseq.pos /\ G1Slot' = wseq.g2
        /\ pc'[t] = "add" <=> g_size'[wseq.g2] # 0
    BY <1>9, SwitchEffect
  <2>2. CASE pc'[t] = "add"
    <3>1. local'[t].all
      BY <1>1, <1>9, <2>2, SwitchDoes, BackLabels DEF Done
    <3>2. QED BY <1>0, <2>1, <2>2, <3>1 DEF Reaching
  <2>3. CASE pc'[t] # "add"
    BY <1>0, <2>1, <2>3 DEF Covered
  <2>4. QED BY <2>2, <2>3
<1>10. ~(\E all \in Kinds : Call(t, all)) /\ ~WakeSignalled(t) /\ ~Destroy(t) /\ ~DestroyWait(t) /\ ~DestroyLoad(t)
  <2>1. ~WakeSignalled(t) /\ ~DestroyWait(t) /\ ~DestroyLoad(t)
    BY <1>2 DEF WakeSignalled, DestroyWait, DestroyLoad, DestroyLabels
  <2>2. ~Destroy(t)
    BY <1>2, DestroyDoes
  <2>3. ~(\E all \in Kinds : Call(t, all))
    BY <1>2, KindsAre, CallDoes
  <2>4. QED BY <2>1, <2>2, <2>3
<1>11. QED BY <1>3, <1>4, <1>5, <1>6, <1>7, <1>8, <1>9, <1>10 DEF SignalActs, SignalStep

LEMMA ServedStep ==
  ASSUME Typed, Typed', Mutex, SizeInv, SizeInv', WrefsCount, \A t \in Threads : SeenRoom(t),
         NEW a \in Threads, Acts(a), NEW w \in Waiters, pc[w] \in Unsettled \ {"register"}, pc'[w] \in Unsettled,
         Served(w)
  PROVE  Served(w)'
<1>1. local'[w].seq = local[w].seq
  BY SeqKept DEF Unsettled, UserLabels
<1>2. ASSUME Covered(w) PROVE Served(w)'
  BY <1>1, <1>2, CoveredStep DEF Served
<1>3. ASSUME NEW t \in Threads, Reaching(t, w) PROVE Served(w)'
  <2>1. pc[t] \in {"signal", "lock", "add"} \cup ReadEarlier \cup Quiescing \cup Shifting
    BY <1>3 DEF Reaching
  <2>2. pc[t] \in SignalLabels /\ pc[t] \notin Unsettled
    BY <2>1 DEF SignalLabels, Holding, ReadEarlier, Quiescing, Shifting, Unsettled, UserLabels
  <2>3. t # w
    BY <2>2
  <2>4. CASE a = t
    <3>1. SignalActs(t)
      BY <2>2, <2>4, WaiterFrom DEF Acts
    <3>2. Covered(w)' \/ Covered(w) \/ Reaching(t, w)'
      BY <1>1, <1>3, <2>3, <3>1, ReachingOwn
    <3>3. QED BY <1>2, <3>2 DEF Served
  <2>5. CASE a # t
    <3>1. Stays(t)
      BY <2>5, ActsOthers DEF Others
    <3>2. pc'[t] = pc[t] \/ (pc[t] \in Quiescing /\ pc'[t] \in Quiescing)
      BY <2>2, <3>1 DEF Stays, SignalLabels, Holding, Quiescing, Shifting
    <3>3. local'[t].all = local[t].all /\ local'[t].count = local[t].count
      BY <3>1, StaysSeq
    <3>4. pc[t] = "add" => Frontier' = Frontier
      BY <2>5, HolderCalm, HoldingAre DEF Fixed
    <3>5. Reaching(t, w)'
      BY <1>1, <1>3, <3>2, <3>3, <3>4 DEF Reaching
    <3>6. QED BY <3>5 DEF Served
  <2>6. QED BY <2>4, <2>5
<1>4. QED BY <1>2, <1>3 DEF Served

-----------------------------------------------------------------------------
(* As long as no signal was added again the groups do not lose waiters. *)

\* A waiter that has decided that its group is over.
Decided(w) ==
  pc[w] \in {"drop_ref", "clear_request", "wake_refs"} /\ local[w].to = "confirm" => Covered(w)

\* There are no signals for G2, nor for the group that is to become it.
Clean ==
  \/ undone
  \/ /\ g_signals[wseq.g2].n = 0
     /\ \A t \in Threads : pc[t] = "switch" => g_signals[G1Slot].n = 0

\* Waiter t gave up and its broadcast is still to signal all of G1.
Clearing(t) == local[t].all /\ pc[t] \in {"signal", "lock", "add_first", "add"}

\* G1 has a waiter for each of its signals and of those that it still owes.
Filled ==
  \/ undone
  \/ g_size[G1Slot] = 0
  \/ \E t \in Waiters : Clearing(t)
  \/ Cardinality(Members) >= g_signals[G1Slot].n + g_size[G1Slot]

\* Waiter t gave up and its broadcast is still to signal all of G2.
Sweeping(t) ==
  /\ local[t].all
  /\ \/ pc[t] \in {"signal", "lock"} \cup Quiescing \cup Shifting
     \/ pc[t] \in ReadEarlier /\ local[t].count - Frontier + g_size[wseq.g2] # 0

\* G2 has as many waiters as it has positions that were not given up.
Joined ==
  \/ undone
  \/ \E t \in Waiters : Sweeping(t)
  \/ Cardinality(Newcomers) >= wseq.pos - Frontier + g_size[wseq.g2]

LEMMA DecidedStep ==
  ASSUME Typed, Typed', Mutex, SizeInv, SizeInv', LocalInv, NEW a \in Threads, Acts(a), NEW w \in Waiters, Decided(w)
  PROVE  Decided(w)'
<1>1. SUFFICES ASSUME pc'[w] \in {"drop_ref", "clear_request", "wake_refs"}, local'[w].to = "confirm"
      PROVE  Covered(w)'
  BY DEF Decided
<1>2. w \in Threads /\ Others(a) /\ Placed(w)
  BY ThreadsAre, ActsOthers DEF SizeInv
<1>3. pc'[w] \in Unsettled /\ pc'[w] # "register"
  BY <1>1 DEF Unsettled, UserLabels
<1>4. pc[w] \in Unsettled /\ local'[w].seq = local[w].seq
  BY <1>3, SeqKept
<1>5. SUFFICES Covered(w)
  BY <1>4, CoveredStep
<1>6. /\ local[w].seq \in Nat /\ Frontier \in Int /\ g1_start.pos \in Int /\ g1_start.pos <= Frontier
      /\ local[w].g \in Groups
  BY <1>2, LocalFacts, GroupFacts DEF Frontier, SizeInv, Roles
<1>7. CASE w # a
  <2>1. Stays(w)
    BY <1>2, <1>7 DEF Others
  <2>2. pc'[w] = pc[w] /\ local'[w] = local[w]
    BY <1>1, <1>2, <1>4, <2>1, WokenFields DEF Stays, Unsettled, UserLabels
  <2>3. QED BY <1>1, <2>2 DEF Decided
<1>8. CASE w = a
  <2>1. WaiterActs(w)
    BY <1>4, <1>8, SignalEnds DEF Acts
  <2>2. CASE CheckClosed(w)
    <3>1. g_signals[local[w].g].closed
      BY <1>1, <2>2, CheckClosedDoes DEF G
    <3>2. local[w].g = G1Slot /\ g_size[G1Slot] = 0
      BY <1>6, <3>1, ClosedFacts, SlotFacts DEF LocalInv
    <3>3. ~(local[w].seq >= Frontier)
      BY <1>2, <1>4, <3>2, SlotFacts DEF Placed
    <3>4. QED BY <1>6, <3>2, <3>3 DEF Covered
  <2>3. CASE CheckStart(w)
    <3>1. local[w].seq < g1_start.pos
      BY <1>1, <2>3, CheckStartDoes
    <3>2. QED BY <1>6, <3>1 DEF Covered
  <2>4. CASE DropRef(w) \/ ClearRequest(w)
    <3>1. pc[w] \in {"drop_ref", "clear_request"} /\ local[w].to = "confirm"
      BY <1>1, <2>4, DropRefDoes, ClearRequestDoes DEF Aims
    <3>2. QED BY <3>1 DEF Decided
  <2>5. ASSUME \/ Wait(w) \/ Register(w) \/ Load(w) \/ TakeRef(w) \/ FutexWait(w) \/ SpuriousWake(w)
               \/ \E how \in Interrupts \cap {"timed_out", "cancelled"} : GiveUp(w, how)
        PROVE  FALSE
    BY <1>1, <2>5, WaitDoes, RegisterDoes, ConsiderDoes, TakeRefDoes, FutexWaitDoes, SpuriousWakeDoes, GiveUpDoes
       DEF Load
  <2>6. ASSUME Grab(w) \/ WakeRefs(w) \/ Cancel(w) PROVE FALSE
    BY <1>1, <2>6, GrabDoes, ConsiderDoes, WakeRefsDoes, CancelDoes DEF Aims, Gone
  <2>7. ASSUME \/ CheckSteal(w) \/ UndoLoad(w) \/ UndoCheck(w) \/ UndoCas(w) \/ UndoWake(w)
               \/ Confirm(w) \/ WakeDestroyer(w) \/ CleanupWake(w)
        PROVE  FALSE
    BY <1>1, <2>7, CheckStealDoes, UndoLoadDoes, UndoCheckDoes, UndoCasDoes, PassOnDoes, ConfirmDoes,
       WakeDestroyerDoes DEF Looks
  <2>8. QED BY <2>1, <2>2, <2>3, <2>4, <2>5, <2>6, <2>7 DEF WaiterActs, WaiterStep
<1>9. QED BY <1>7, <1>8

\* Only a signal that is added again makes the condition variable undone.
LEMMA NotUndone ==
  ASSUME Typed, NEW a \in Threads, Acts(a), ~undone'
  PROVE  ~undone /\ (UndoCas(a) => UNCHANGED g_signals)
<1>1. CASE a \in Waiters /\ WaiterActs(a)
  <2>1. CASE UndoCas(a)
    BY <1>1, <2>1, UndoCasDoes
  <2>2. QED BY <1>1, <2>1, WaiterFixed
<1>2. CASE SignalActs(a)
  <2>1. ~UndoCas(a)
    BY <1>2, SignalEnds DEF UndoCas, Leaving
  <2>2. QED BY <1>2, <2>1, SignalFixed
<1>3. QED BY <1>1, <1>2 DEF Acts

LEMMA CleanStep ==
  ASSUME Typed, Typed', Mutex, SizeInv, LocalInv, NEW a \in Threads, Acts(a), Clean
  PROVE  Clean'
<1>1. SUFFICES ASSUME ~undone'
      PROVE  /\ g_signals'[wseq'.g2].n = 0
             /\ \A t \in Threads : pc'[t] = "switch" => g_signals'[G1Slot'].n = 0
  BY DEF Clean
<1>2. Others(a) /\ ~undone /\ (UndoCas(a) => UNCHANGED g_signals)
  BY <1>1, ActsOthers, NotUndone
<1>3. g_signals[wseq.g2].n = 0 /\ \A t \in Threads : pc[t] = "switch" => g_signals[G1Slot].n = 0
  BY <1>2 DEF Clean
<1>4. ASSUME NEW t \in Threads, t # a, pc'[t] = "switch" PROVE pc[t] = "switch" /\ ~Switch(a)
  <2>1. pc[t] = "switch"
    BY <1>2, <1>4 DEF Others, Stays
  <2>2. QED BY <1>4, <2>1, HoldingAre DEF Switch, Mutex
<1>5. CASE a \in Waiters /\ WaiterActs(a)
  <2>1. Fixed /\ (~(Grab(a) \/ UndoCas(a)) => UNCHANGED g_signals)
    BY <1>5, WaiterFixed
  <2>2. G1Slot' = G1Slot /\ wseq'.g2 = wseq.g2
    BY <2>1 DEF Fixed, G1Slot
  <2>3. pc'[a] # "switch"
    <3>1. Moves(a, Calm, Calm)
      BY <1>5, WaiterMoves DEF WaiterActs
    <3>2. QED BY <3>1, HoldingAre DEF Moves
  <2>4. CASE UNCHANGED g_signals
    BY <1>3, <1>4, <2>2, <2>3, <2>4
  <2>5. CASE Grab(a) /\ pc'[a] = "check_steal"
    <3>1. g_signals[local[a].g].n > 0 /\ Added(local[a].g, -1) /\ local[a].g \in Groups
      BY <1>5, <2>5, GrabEffect, LocalFacts DEF LocalInv
    <3>2. local[a].g = G1Slot
      BY <1>3, <3>1, SlotFacts
    <3>3. g_signals'[wseq.g2] = g_signals[wseq.g2]
      BY <3>1, <3>2, SlotFacts DEF Added
    <3>4. QED BY <1>3, <1>4, <2>2, <2>3, <3>1, <3>2, <3>3
  <2>6. QED BY <1>2, <1>5, <2>1, <2>4, <2>5, GrabDoes
<1>6. CASE SignalActs(a)
  <2>1. CASE Switch(a)
    <3>1. /\ pc[a] = "switch" /\ UNCHANGED g_signals /\ wseq'.g2 = G1Slot
          /\ pc'[a] = "add" \/ Done(a)
      BY <2>1, SwitchEffect
    <3>2. pc'[a] # "switch"
      BY <3>1, BackLabels DEF Done
    <3>3. QED BY <1>3, <1>4, <2>1, <3>1, <3>2
  <2>2. CASE Reopen(a)
    <3>1. g_signals'[G1Slot].n = 0 /\ g_signals'[wseq.g2] = g_signals[wseq.g2] /\ UNCHANGED wseq
      BY <2>2, ReopenEffect DEF Reopen
    <3>2. QED BY <1>3, <3>1 DEF G1Slot
  <2>3. CASE ~Switch(a) /\ ~Reopen(a)
    <3>1. UNCHANGED wseq /\ G1Slot' = G1Slot
      BY <1>6, <2>3, SignalFixed DEF G1Slot
    <3>2. pc'[a] # "switch"
      <4>1. CASE \E all \in Kinds : Call(a, all)
        BY <4>1, KindsAre, CallDoes
      <4>2. CASE CheckRefs(a) \/ Add(a) \/ AddFirst(a) \/ WakeFirst(a) \/ WakeSignalled(a) \/ Quiesce(a) \/ Lock(a)
        BY <4>2, CheckRefsDoes, AddDoes, WakeSignalledDoes, QuiesceDoes, WakeFirstDoes, LockDoes, BackLabels DEF Done
      <4>3. CASE QuiesceRefs(a) \/ QuiesceRequest(a) \/ QuiesceWait(a) \/ Close(a)
        BY <4>3, QuiesceRefsDoes, QuiesceRequestDoes, QuiesceWaitDoes, CloseDoes
      <4>4. CASE Destroy(a) \/ DestroyWait(a) \/ DestroyLoad(a)
        BY <4>4, DestroyDoes DEF DestroyLabels
      <4>5. QED BY <1>6, <2>3, <4>1, <4>2, <4>3, <4>4 DEF SignalActs, SignalStep
    <3>3. CASE Add(a) \/ AddFirst(a)
      <4>1. g_signals'[wseq.g2] = g_signals[wseq.g2]
        BY <3>3, AddEffect, SlotFacts DEF Added
      <4>2. pc[a] \in Holding
        BY <3>3, HoldingAre DEF Add, AddFirst
      <4>3. \A t \in Threads : pc'[t] # "switch"
        BY <1>2, <3>2, <4>2, HoldsAlone, HoldingAre
      <4>4. QED BY <1>3, <3>1, <4>1, <4>3
    <3>4. CASE \A g \in Groups : g_signals'[g].n = g_signals[g].n
      BY <1>3, <1>4, <3>1, <3>2, <3>4, SlotFacts
    <3>5. CASE Quiesce(a)
      BY <3>4, <3>5, QuiesceDoes, QuiesceEffect
    <3>6. QED BY <1>6, <2>3, <3>3, <3>4, <3>5, SignalFixed
  <2>4. QED BY <2>1, <2>2, <2>3
<1>7. QED BY <1>5, <1>6 DEF Acts

\* How a waiter that is not settled goes on: it stays so, or its group is over or has been
\* signalled, or it has got a signal, or it gives up.
LEMMA UnsettledSteps ==
  ASSUME Typed, SizeInv, LocalInv, NEW w \in Waiters, WaiterActs(w), pc[w] \in Unsettled, Decided(w)
  PROVE  \/ pc'[w] \in Unsettled /\ local'[w].seq = local[w].seq /\ UNCHANGED <<g_signals, g_size>>
         \/ /\ Covered(w) /\ pc'[w] = "confirm" /\ local'[w].ended = local[w].ended
            /\ ~GivingUp(w) /\ UNCHANGED <<g_signals, g_size>>
         \/ /\ pc'[w] = "check_steal" /\ local'[w].ended = local[w].ended /\ ~GivingUp(w) /\ UNCHANGED g_size
            /\ local[w].g \in Groups /\ g_signals[local[w].g].n > 0 /\ Added(local[w].g, -1)
         \/ Cancel(w)
<1>1. /\ w \in Threads /\ Placed(w) /\ Knows(w) /\ local[w].seq \in Nat /\ Frontier \in Int /\ local[w].g \in Groups
  BY ThreadsAre, LocalFacts, GroupFacts DEF SizeInv, LocalInv
<1>2. ASSUME Consider(w), UNCHANGED <<g_signals, g_size>>, pc[w] \in {"load", "grab"}
      PROVE  \/ pc'[w] \in Unsettled /\ local'[w].seq = local[w].seq
             \/ Covered(w) /\ pc'[w] = "confirm" /\ local'[w].ended = local[w].ended /\ ~GivingUp(w)
  <2>1. CASE pc'[w] = "confirm" /\ g_signals[local[w].g].closed /\ Reduced(w)
    <3>1. local[w].g = G1Slot /\ g_size[G1Slot] = 0
      BY <1>1, <2>1, ClosedFacts, SlotFacts DEF LocalInv
    <3>2. ~(local[w].seq >= Frontier)
      BY <1>1, <3>1, SlotFacts DEF Placed
    <3>3. Covered(w)
      BY <1>1, <3>1, <3>2 DEF Covered
    <3>4. QED BY <1>2, <2>1, <3>3 DEF Reduced, GivingUp
  <2>2. QED BY <1>2, <2>1, ConsiderDoes DEF G, Alike, Places, Unsettled
<1>3. CASE Strolls(w) /\ UNCHANGED <<g_signals, g_size>>
  BY <1>3 DEF Strolls, Alike, Places
<1>4. CASE Load(w)
  BY <1>2, <1>4 DEF Load, condvar
<1>5. CASE Grab(w)
  <2>1. UNCHANGED g_size /\ pc[w] = "grab"
    BY <1>5 DEF Grab
  <2>2. CASE pc'[w] = "check_steal" /\ local'[w].ended = local[w].ended
    BY <1>1, <1>5, <2>1, <2>2, GrabEffect DEF GivingUp
  <2>3. CASE Consider(w) /\ UNCHANGED g_signals
    BY <1>2, <2>1, <2>3
  <2>4. QED BY <1>5, <2>2, <2>3, GrabDoes
<1>6. CASE /\ pc[w] \in {"drop_ref", "wake_refs"} /\ local[w].to = "confirm" /\ pc'[w] = "confirm"
           /\ local'[w].ended = local[w].ended /\ UNCHANGED <<g_signals, g_size>>
  BY <1>6 DEF Decided, GivingUp
<1>7. CASE Register(w) \/ TakeRef(w) \/ CheckClosed(w) \/ CheckStart(w) \/ FutexWait(w) \/ SpuriousWake(w) \/ ClearRequest(w)
  <2>1. UNCHANGED <<g_signals, g_size>>
    BY <1>7 DEF Register, TakeRef, CheckClosed, CheckStart, FutexWait, SpuriousWake, ClearRequest, condvar
  <2>2. Alike(w) /\ pc'[w] \in Unsettled
    BY <1>7, RegisterDoes, TakeRefDoes, CheckClosedDoes, CheckStartDoes, FutexWaitDoes, SpuriousWakeDoes,
       ClearRequestDoes DEF Unsettled, UserLabels
  <2>3. QED BY <1>3, <2>1, <2>2 DEF Strolls
<1>8. CASE \E how \in Interrupts \cap {"timed_out", "cancelled"} : GiveUp(w, how)
  <2>1. Alike(w) /\ pc'[w] = "drop_ref" /\ UNCHANGED <<g_signals, g_size>>
    BY <1>8, GiveUpDoes DEF GiveUp, condvar
  <2>2. QED BY <1>3, <2>1 DEF Strolls, Unsettled, UserLabels
<1>9. CASE DropRef(w) \/ WakeRefs(w)
  <2>1. UNCHANGED <<g_signals, g_size>> /\ Alike(w) /\ local'[w].ended = local[w].ended /\ Aims(w)
        /\ pc[w] \in {"drop_ref", "wake_refs"} /\ pc'[w] \in {"clear_request", local[w].to}
    BY <1>9, DropRefDoes, WakeRefsDoes DEF DropRef, WakeRefs, condvar
  <2>2. CASE pc'[w] = "confirm"
    BY <1>6, <2>1, <2>2
  <2>3. CASE pc'[w] \in {"clear_request", "load", "cancel"}
    BY <1>3, <2>1, <2>3 DEF Strolls, Unsettled, UserLabels
  <2>4. QED BY <2>1, <2>2, <2>3 DEF Aims
<1>10. ~Wait(w) /\ ~CheckSteal(w) /\ ~UndoLoad(w) /\ ~UndoCheck(w) /\ ~UndoCas(w) /\ ~UndoWake(w)
       /\ ~Confirm(w) /\ ~WakeDestroyer(w) /\ ~CleanupWake(w)
  BY DEF Wait, CheckSteal, UndoLoad, UndoCheck, UndoCas, UndoWake, Confirm, WakeDestroyer, CleanupWake,
     Unsettled, UserLabels
<1>11. QED BY <1>4, <1>5, <1>7, <1>8, <1>9, <1>10 DEF WaiterActs, WaiterStep

\* A waiter that is settled, or outside, stays so, but for a new wait.
LEMMA SettledSteps ==
  ASSUME Typed, NEW w \in Waiters, WaiterActs(w), pc[w] \notin Unsettled
  PROVE  \/ Wait(w)
         \/ pc'[w] \notin Unsettled /\ UNCHANGED g_size /\ ~Cancel(w) /\ (UndoCas(w) \/ UNCHANGED g_signals)
<1>1. ~Cancel(w) /\ ~Grab(w)
  BY DEF Cancel, Grab, Unsettled
<1>2. CASE ~Wait(w)
  <2>1. UNCHANGED g_size /\ (UndoCas(w) \/ UNCHANGED g_signals)
    BY <1>1, WaiterFixed
  <2>2. w \in Threads /\ Acts(w)
    BY ThreadsAre DEF Acts
  <2>3. pc'[w] \notin Unsettled
    BY <1>2, <2>2, SeqKept
  <2>4. QED BY <1>1, <2>1, <2>3
<1>3. QED BY <1>2

LEMMA SweepingStep ==
  ASSUME Typed, Typed', Mutex, SizeInv, SizeInv', WrefsCount, NEW a \in Threads, Acts(a),
         NEW t \in Waiters, Sweeping(t)
  PROVE  \/ Sweeping(t)'
         \/ wseq'.pos - Frontier' + g_size'[wseq'.g2] = 0
<1>1. t \in Threads /\ pc[t] \in {"signal", "lock"} \cup ReadEarlier \cup Quiescing \cup Shifting /\ local[t].all
  BY ThreadsAre DEF Sweeping
<1>2. pc[t] \in SignalLabels /\ pc[t] \notin {"wake", "add", "idle"} \cup DestroyLabels
  BY <1>1 DEF SignalLabels, Holding, ReadEarlier, Quiescing, Shifting, DestroyLabels
<1>3. CASE a # t
  <2>1. Stays(t)
    BY <1>1, <1>3, ActsOthers DEF Others
  <2>2. pc'[t] = pc[t] \/ (pc[t] \in Quiescing /\ pc'[t] \in Quiescing)
    BY <1>2, <2>1 DEF Stays, SignalLabels, Holding, Quiescing, Shifting
  <2>3. local'[t].all = local[t].all /\ local'[t].count = local[t].count
    BY <1>1, <2>1, StaysSeq
  <2>4. pc[t] \in ReadEarlier => Frontier' = Frontier /\ wseq'.g2 = wseq.g2 /\ UNCHANGED g_size
    BY <1>1, <1>3, HolderCalm, HoldingAre DEF ReadEarlier, Fixed
  <2>5. QED BY <2>2, <2>3, <2>4 DEF Sweeping
<1>4. CASE a = t
  <2>1. SignalActs(t)
    BY <1>2, <1>4, WaiterFrom DEF Acts
  <2>2. CASE CheckRefs(t)
    <3>1. wrefs.n # 0
      BY <1>2, RefsSeen DEF Outside, SignalLabels, Holding, Quiescing, Shifting
    <3>2. QED BY <1>1, <2>2, <3>1, CheckRefsDoes DEF Sweeping
  <2>3. CASE Lock(t)
    <3>1. local'[t].all /\ pc'[t] \in ReadEarlier /\ local'[t].count = wseq.pos /\ UNCHANGED wseq
      BY <1>1, <2>3, LockDoes DEF ReadEarlier, Lock
    <3>2. QED BY <3>1 DEF Sweeping
  <2>4. CASE AddFirst(t) \/ WakeFirst(t)
    <3>1. pc[t] \in ReadEarlier /\ pc'[t] \in ReadEarlier /\ local'[t] = local[t]
      BY <1>1, <2>4, AddDoes, WakeFirstDoes DEF ReadEarlier
    <3>2. Fixed /\ g_size'[wseq.g2] = g_size[wseq.g2]
      <4>1. pc[t] # "close" /\ pc[t] # "switch"
        BY <3>1 DEF ReadEarlier
      <4>2. ~Close(t) /\ ~Switch(t)
        BY <4>1 DEF Close, Switch
      <4>3. CASE AddFirst(t)
        BY <1>1, <2>1, <4>2, <4>3, AddEffect, SignalFixed
      <4>4. CASE WakeFirst(t)
        BY <1>1, <2>1, <4>2, <4>4, SignalFixed DEF WakeFirst, condvar
      <4>5. QED BY <2>4, <4>3, <4>4
    <3>3. local[t].count - Frontier + g_size[wseq.g2] # 0
      BY <3>1 DEF Sweeping, ReadEarlier, Quiescing, Shifting
    <3>4. QED BY <1>1, <3>1, <3>2, <3>3 DEF Sweeping, Fixed
  <2>5. CASE Quiesce(t)
    <3>1. pc[t] = "quiesce"
      BY <2>5 DEF Quiesce
    <3>2. pc[t] \in Holding /\ pc[t] \notin Shifting /\ pc[t] \notin {"signal", "lock"} \cup Quiescing
      BY <3>1 DEF Holding, Quiescing, Shifting
    <3>3. ~Shift
      BY <1>1, <2>1, <3>2, SignalOthers, HoldsAlone, HoldingAre DEF Shift
    <3>4. Frontier = g1_start.pos + orig_size /\ 1 - local[t].g1 = wseq.g2
      BY <1>1, <3>2, <3>3, HolderFacts DEF Frontier
    <3>5. local[t].count - Frontier + g_size[wseq.g2] # 0
      BY <3>1, <3>2 DEF Sweeping
    <3>6. local[t].count \in Int /\ g1_start.pos \in Int /\ orig_size \in Int /\ g_size[wseq.g2] \in Int
      BY <1>1, GroupFacts DEF Typed, Own, Locals
    <3>7. local[t].count - g1_start.pos - orig_size + g_size[1 - local[t].g1] # 0
      BY <3>4, <3>5, <3>6
    <3>8. pc'[t] = "quiesce_refs" /\ Alike(t)
      BY <1>1, <2>5, <3>7, QuiesceDoes
    <3>9. QED BY <1>1, <3>8 DEF Sweeping, Alike, Places, Quiescing
  <2>6. CASE QuiesceRefs(t) \/ QuiesceRequest(t) \/ QuiesceWait(t) \/ Close(t) \/ Reopen(t)
    <3>1. local'[t].all = local[t].all /\ pc'[t] \in Quiescing \cup Shifting
      BY <1>1, <2>6, QuiesceRefsDoes, QuiesceRequestDoes, QuiesceWaitDoes, CloseDoes, ReopenDoes
         DEF Alike, Places, Quiescing, Shifting
    <3>2. QED BY <1>1, <3>1 DEF Sweeping
  <2>7. CASE Switch(t)
    <3>1. wseq'.pos = wseq.pos /\ Frontier' = wseq.pos /\ wseq'.g2 = G1Slot /\ g_size'[G1Slot] = 0
      BY <1>1, <2>7, SwitchEffect
    <3>2. QED BY <3>1, GroupFacts
  <2>8. ~(\E all \in Kinds : Call(t, all)) /\ ~WakeSignalled(t) /\ ~Destroy(t) /\ ~DestroyWait(t) /\ ~DestroyLoad(t) /\ ~Add(t)
    <3>1. ~WakeSignalled(t) /\ ~DestroyWait(t) /\ ~DestroyLoad(t) /\ ~Add(t)
      BY <1>2 DEF WakeSignalled, DestroyWait, DestroyLoad, DestroyLabels, Add
    <3>2. ~Destroy(t)
      BY <1>1, <1>2, DestroyDoes
    <3>3. ~(\E all \in Kinds : Call(t, all))
      BY <1>1, <1>2, KindsAre, CallDoes
    <3>4. QED BY <3>1, <3>2, <3>3
  <2>9. QED BY <2>1, <2>2, <2>3, <2>4, <2>5, <2>6, <2>7, <2>8 DEF SignalActs, SignalStep
<1>5. QED BY <1>3, <1>4

LEMMA FreeFrontier ==
  ASSUME Mutex, ~lock
  PROVE  ~Shift /\ Frontier = g1_start.pos + orig_size
BY HoldingAre DEF Mutex, Shift, Frontier

\* How a wait that gives up leaves its group.
LEMMA CancelLeaves ==
  ASSUME Typed, Mutex, SizeInv, NEW w \in Waiters, Cancel(w)
  PROVE  /\ w \in Threads /\ pc[w] = "cancel" /\ pc[w] \in Unsettled /\ pc'[w] \notin Unsettled /\ Only(w)
         /\ UNCHANGED g_signals /\ ~lock
         /\ \/ /\ pc'[w] = "signal" /\ local'[w] = local[w] /\ UNCHANGED g_size /\ w \notin Newcomers
               /\ w \in Members => g_size[G1Slot] = 0
            \/ pc'[w] = "signal" /\ local'[w].all /\ UNCHANGED g_size /\ w \in Newcomers
            \/ /\ pc'[w] = Gone(w) /\ Reduced(w) /\ w \in Newcomers /\ w \notin Members
               /\ g_size'[wseq.g2] = g_size[wseq.g2] - 1 /\ g_size'[G1Slot] = g_size[G1Slot]
            \/ /\ pc'[w] = Gone(w) /\ Reduced(w) /\ w \in Members /\ w \notin Newcomers
               /\ g_size'[G1Slot] = g_size[G1Slot] - 1 /\ g_size'[wseq.g2] = g_size[wseq.g2]
               /\ g_size[G1Slot] # 0
<1>1. /\ w \in Threads /\ Placed(w) /\ local[w].seq \in Nat /\ local[w].g \in Groups /\ Frontier \in Int
      /\ g1_start.pos \in Int /\ orig_size \in Int /\ orig_size >= 0
  BY ThreadsAre, LocalFacts, GroupFacts, SizeFacts DEF SizeInv
<1>2. pc[w] = "cancel" /\ ~lock /\ UNCHANGED g_signals /\ Only(w)
  BY CancelDoes DEF Cancel
<1>3. Frontier = g1_start.pos + orig_size
  BY <1>2, FreeFrontier
<1>4. pc[w] \in Unsettled /\ "signal" \notin Unsettled /\ Gone(w) \notin Unsettled
  BY <1>2 DEF Unsettled, UserLabels, Gone
<1>5. CASE /\ pc'[w] = "signal" /\ local'[w] = local[w] /\ UNCHANGED g_size
           /\ \/ local[w].seq < g1_start.pos
              \/ local[w].seq < g1_start.pos + orig_size /\ g_size[local[w].g] = 0
  <2>1. w \notin Newcomers
    BY <1>1, <1>3, <1>5 DEF Newcomers
  <2>2. w \in Members => g_size[G1Slot] = 0
    BY <1>1, <1>3, <1>5 DEF Members, Member, Placed, G1Slot
  <2>3. QED BY <1>1, <1>2, <1>4, <1>5, <2>1, <2>2
<1>6. CASE pc'[w] = "signal" /\ local'[w].all /\ UNCHANGED g_size /\ local[w].seq >= g1_start.pos + orig_size
  BY <1>1, <1>2, <1>3, <1>4, <1>6 DEF Newcomers
<1>7. CASE /\ pc'[w] = Gone(w) /\ Reduced(w) /\ g_size' = [g_size EXCEPT ![local[w].g] = @ - 1]
           /\ local[w].seq >= g1_start.pos
           /\ local[w].seq >= g1_start.pos + orig_size \/ g_size[local[w].g] # 0
  <2>1. CASE local[w].seq >= Frontier
    <3>1. w \in Newcomers /\ w \notin Members /\ local[w].g = wseq.g2
      BY <1>1, <1>4, <2>1 DEF Newcomers, Members, Member, Placed
    <3>2. g_size'[wseq.g2] = g_size[wseq.g2] - 1 /\ g_size'[G1Slot] = g_size[G1Slot]
      BY <1>7, <3>1, SlotFacts DEF Typed, Shared
    <3>3. QED BY <1>1, <1>2, <1>4, <1>7, <3>1, <3>2
  <2>2. CASE ~(local[w].seq >= Frontier)
    <3>1. w \notin Newcomers /\ w \in Members /\ local[w].g = G1Slot
      BY <1>1, <1>4, <1>7, <2>2 DEF Newcomers, Members, Member, Placed, G1Slot
    <3>2. g_size'[G1Slot] = g_size[G1Slot] - 1 /\ g_size'[wseq.g2] = g_size[wseq.g2]
      BY <1>7, <3>1, SlotFacts DEF Typed, Shared
    <3>3. QED BY <1>1, <1>2, <1>3, <1>4, <1>7, <2>2, <3>1, <3>2
  <2>3. QED BY <2>1, <2>2
<1>8. QED BY <1>5, <1>6, <1>7, CancelDoes

LEMMA JoinedStep ==
  ASSUME Typed, Typed', Mutex, SizeInv, SizeInv', LocalInv, WrefsCount, \A w \in Waiters : Decided(w), Clean,
         NEW a \in Threads, Acts(a), Joined
  PROVE  Joined'
<1>1. SUFFICES ASSUME ~undone', \A t \in Waiters : ~Sweeping(t)',
                      wseq'.pos - Frontier' + g_size'[wseq'.g2] # 0
      PROVE  Cardinality(Newcomers') >= wseq'.pos - Frontier' + g_size'[wseq'.g2]
  BY NextFacts, CountTypesNext DEF Joined
<1>2. ~undone /\ (UndoCas(a) => UNCHANGED g_signals) /\ Others(a)
  BY <1>1, NotUndone, ActsOthers
<1>3. Cardinality(Newcomers) >= wseq.pos - Frontier + g_size[wseq.g2]
  BY <1>1, <1>2, SweepingStep DEF Joined
<1>4. /\ wseq.pos \in Nat /\ Frontier \in Int /\ g_size[wseq.g2] \in Int /\ wseq.g2 \in Groups /\ Frontier <= wseq.pos
      /\ Cardinality(Newcomers) \in Nat
  BY GroupFacts, CountTypes, SizeFacts
<1>5. CASE Switch(a)
  <2>1. wseq'.pos = wseq.pos /\ Frontier' = wseq.pos /\ wseq'.g2 = G1Slot /\ g_size'[G1Slot] = 0
    BY <1>5, SwitchEffect
  <2>2. QED BY <1>1, <1>4, <2>1
<1>6. CASE Close(a)
  <2>1. /\ Frontier' = Frontier /\ UNCHANGED <<wseq, g_size>> /\ local' = local /\ Only(a)
        /\ pc[a] = "close" /\ pc'[a] = "reopen"
    BY <1>6, CloseEffect
  <2>2. \A w \in Waiters : pc'[w] \in Unsettled <=> pc[w] \in Unsettled
    BY <2>1, ThreadsAre DEF Only, Unsettled, UserLabels
  <2>3. Newcomers' = Newcomers
    BY <2>1, <2>2 DEF Newcomers
  <2>4. QED BY <1>3, <2>1, <2>3
<1>7. ASSUME Fixed PROVE /\ Cardinality(Newcomers') = Cardinality(Newcomers) + One(a, Newcomers') - One(a, Newcomers)
                         /\ Frontier' = Frontier /\ wseq'.g2 = wseq.g2
  BY <1>2, <1>7, Changes DEF Fixed
<1>8. ASSUME Fixed, UNCHANGED wseq, g_size'[wseq.g2] = g_size[wseq.g2], a \in Newcomers => a \in Newcomers'
      PROVE  Cardinality(Newcomers') >= wseq'.pos - Frontier' + g_size'[wseq'.g2]
  BY <1>3, <1>4, <1>7, <1>8 DEF One
<1>9. CASE SignalActs(a) /\ ~Switch(a) /\ ~Close(a)
  <2>1. Fixed /\ UNCHANGED wseq
    BY <1>9, SignalFixed
  <2>2. g_size'[wseq.g2] = g_size[wseq.g2]
    BY <1>9, SignalFixed, AddEffect
  <2>3. a \notin Newcomers
    BY <1>9, SignalEnds DEF Newcomers
  <2>4. QED BY <1>8, <2>1, <2>2, <2>3
<1>10. CASE a \in Waiters /\ WaiterActs(a)
  <2>1. Fixed /\ (~Wait(a) => UNCHANGED wseq) /\ Placed(a) /\ Decided(a) /\ local[a].seq \in Nat
    BY <1>10, WaiterFixed, LocalFacts DEF SizeInv
  <2>2. CASE Wait(a)
    <3>1. /\ pc[a] = "idle" /\ pc'[a] = "register" /\ local'[a].seq = wseq.pos /\ UNCHANGED g_size
      BY <1>10, <2>2, WaitDoes DEF Wait
    <3>2. wseq'.pos = wseq.pos + 1
      BY <2>2 DEF Wait, Typed, Shared
    <3>3. a \in Newcomers' /\ a \notin Newcomers
      BY <1>4, <1>7, <1>10, <2>1, <3>1 DEF Newcomers, Unsettled, UserLabels
    <3>4. Cardinality(Newcomers') = Cardinality(Newcomers) + 1
      BY <1>4, <1>7, <2>1, <3>3 DEF One
    <3>5. QED BY <1>3, <1>4, <1>7, <2>1, <3>1, <3>2, <3>4
  <2>3. CASE pc[a] \notin Unsettled /\ ~Wait(a)
    <3>1. UNCHANGED g_size /\ a \notin Newcomers
      BY <1>10, <2>3, SettledSteps DEF Newcomers
    <3>2. QED BY <1>8, <2>1, <2>3, <3>1
  <2>4. CASE pc[a] \in Unsettled /\ ~Wait(a)
    <3>1. CASE pc'[a] \in Unsettled /\ local'[a].seq = local[a].seq /\ UNCHANGED g_size
      <4>1. a \in Newcomers => a \in Newcomers'
        BY <1>7, <2>1, <3>1 DEF Newcomers
      <4>2. QED BY <1>8, <2>1, <2>4, <3>1, <4>1
    <3>2. CASE Covered(a) /\ UNCHANGED g_size
      <4>1. a \notin Newcomers
        BY <1>4, <2>1, <3>2 DEF Newcomers, Covered
      <4>2. QED BY <1>8, <2>1, <2>4, <3>2, <4>1
    <3>3. CASE local[a].g \in Groups /\ g_signals[local[a].g].n > 0 /\ UNCHANGED g_size
      <4>1. local[a].g # wseq.g2
        BY <1>2, <3>3 DEF Clean
      <4>2. a \notin Newcomers
        BY <2>1, <4>1 DEF Newcomers, Placed
      <4>3. QED BY <1>8, <2>1, <2>4, <3>3, <4>2
    <3>4. CASE Cancel(a)
      <4>1. CASE a \notin Newcomers
        <5>1. g_size'[wseq.g2] = g_size[wseq.g2]
          BY <1>10, <3>4, <4>1, CancelLeaves
        <5>2. QED BY <1>8, <2>1, <2>4, <4>1, <5>1
      <4>2. CASE pc'[a] = "signal" /\ local'[a].all
        <5>1. Sweeping(a)'
          BY <4>2 DEF Sweeping
        <5>2. QED BY <1>1, <1>10, <5>1
      <4>3. CASE a \in Newcomers /\ g_size'[wseq.g2] = g_size[wseq.g2] - 1
        <5>1. Cardinality(Newcomers') >= Cardinality(Newcomers) - 1
          BY <1>4, <1>7, <2>1 DEF One
        <5>2. QED BY <1>3, <1>4, <1>7, <2>1, <2>4, <4>3, <5>1, CountTypesNext
      <4>4. QED BY <1>10, <3>4, <4>1, <4>2, <4>3, CancelLeaves
    <3>5. QED BY <1>10, <2>1, <2>4, <3>1, <3>2, <3>3, <3>4, UnsettledSteps
  <2>5. QED BY <2>2, <2>3, <2>4
<1>11. QED BY <1>5, <1>6, <1>9, <1>10 DEF Acts

LEMMA ClearingStep ==
  ASSUME Typed, Typed', Mutex, SizeInv, SizeInv', WrefsCount, NEW a \in Threads, Acts(a), ~Switch(a),
         G1Slot' = G1Slot, NEW t \in Waiters, Clearing(t)
  PROVE  Clearing(t)' \/ g_size'[G1Slot] = 0
<1>1. t \in Threads /\ pc[t] \in {"signal", "lock", "add_first", "add"} /\ local[t].all
  BY ThreadsAre DEF Clearing
<1>2. pc[t] \in SignalLabels
  BY <1>1 DEF SignalLabels, Holding
<1>3. CASE a # t
  <2>1. Stays(t)
    BY <1>1, <1>3, ActsOthers DEF Others
  <2>2. pc'[t] = pc[t] /\ local'[t] = local[t]
    BY <1>1, <2>1 DEF Stays
  <2>3. QED BY <2>2 DEF Clearing
<1>4. CASE a = t
  <2>1. SignalActs(t)
    BY <1>2, <1>4, WaiterFrom DEF Acts
  <2>2. CASE CheckRefs(t)
    <3>1. wrefs.n # 0
      BY <1>1, RefsSeen DEF Outside
    <3>2. QED BY <1>1, <2>2, <3>1, CheckRefsDoes DEF Clearing
  <2>3. CASE Lock(t)
    <3>1. CASE g_size[G1Slot] = 0
      BY <2>3, <3>1 DEF Lock
    <3>2. CASE g_size[G1Slot] # 0
      BY <1>1, <2>3, <3>2, LockDoes DEF Clearing, G1Slot
    <3>3. QED BY <3>1, <3>2
  <2>4. CASE AddFirst(t) \/ Add(t)
    <3>1. Amount(t) = g_size[G1Slot]
      BY <1>1 DEF Amount
    <3>2. QED BY <1>1, <2>4, <3>1, AddEffect, SlotFacts
  <2>5. QED
    <3>1. ~WakeFirst(t) /\ ~WakeSignalled(t) /\ ~Quiesce(t) /\ ~QuiesceRefs(t) /\ ~QuiesceRequest(t) /\ ~QuiesceWait(t)
          /\ ~Close(t) /\ ~Reopen(t) /\ ~Switch(t) /\ ~DestroyWait(t) /\ ~DestroyLoad(t)
      BY <1>1 DEF WakeFirst, WakeSignalled, Quiesce, QuiesceRefs, QuiesceRequest, QuiesceWait, Close, Reopen,
                  Switch, DestroyWait, DestroyLoad
    <3>2. ~Destroy(t)
      BY <1>1, DestroyDoes DEF DestroyLabels
    <3>3. ~(\E all \in Kinds : Call(t, all))
      BY <1>1, KindsAre, CallDoes
    <3>4. QED BY <2>1, <2>2, <2>3, <2>4, <3>1, <3>2, <3>3 DEF SignalActs, SignalStep
<1>5. QED BY <1>3, <1>4

LEMMA FilledStep ==
  ASSUME Typed, Typed', Mutex, SizeInv, SizeInv', LocalInv, WrefsCount, \A w \in Waiters : Decided(w), Clean, Joined,
         NEW a \in Threads, Acts(a), Filled
  PROVE  Filled'
<1>1. SUFFICES ASSUME ~undone', \A t \in Waiters : ~Clearing(t)', g_size'[G1Slot'] # 0
      PROVE  Cardinality(Members') >= g_signals'[G1Slot'].n + g_size'[G1Slot']
  BY DEF Filled
<1>2. ~undone /\ (UndoCas(a) => UNCHANGED g_signals) /\ Others(a)
  BY <1>1, NotUndone, ActsOthers
<1>3. /\ g_signals[G1Slot].n \in Int /\ g_size[G1Slot] \in Int /\ G1Slot \in Groups
      /\ Frontier \in Int /\ wseq.pos \in Nat /\ g_size[wseq.g2] \in Int /\ g1_start.pos \in Int
      /\ Cardinality(Members) \in Nat /\ Cardinality(Newcomers) \in Nat
  BY SlotFacts, CountTypes, GroupFacts
<1>4. CASE Switch(a)
  <2>1. /\ pc[a] = "switch" /\ G1Slot' = wseq.g2 /\ UNCHANGED g_signals
        /\ g_size'[wseq.g2] = g_size[wseq.g2] + wseq.pos - Frontier
        /\ pc'[a] = "add" <=> g_size'[wseq.g2] # 0
    BY <1>4, SwitchEffect
  <2>2. g_signals[wseq.g2].n = 0
    BY <1>2 DEF Clean
  <2>3. Members' = Newcomers
    BY <1>4, SwitchMembers
  <2>4. ASSUME NEW t \in Waiters, Sweeping(t) PROVE FALSE
    <3>1. t \in Threads /\ local[t].all
      BY <2>4, ThreadsAre DEF Sweeping
    <3>2. CASE t = a
      <4>1. pc'[a] = "add"
        BY <1>1, <2>1
      <4>2. local'[a].all
        BY <1>4, <3>1, <3>2, <4>1, SwitchDoes, BackLabels DEF Done
      <4>3. QED BY <1>1, <3>2, <4>1, <4>2 DEF Clearing
    <3>3. CASE t # a
      <4>1. pc[t] \notin Holding
        BY <2>1, <3>1, <3>3, HoldingAre DEF Mutex
      <4>2. pc[t] \in {"signal", "lock"}
        BY <2>4, <4>1, HoldingAre DEF Sweeping, ReadEarlier
      <4>3. pc'[t] = pc[t] /\ local'[t] = local[t]
        BY <1>2, <3>1, <3>3, <4>2 DEF Others, Stays
      <4>4. QED BY <1>1, <3>1, <4>2, <4>3 DEF Clearing
    <3>4. QED BY <3>2, <3>3
  <2>5. Cardinality(Newcomers) >= wseq.pos - Frontier + g_size[wseq.g2]
    BY <1>2, <2>4 DEF Joined
  <2>6. QED BY <1>3, <2>1, <2>2, <2>3, <2>5
<1>5. CASE Close(a)
  <2>1. pc[a] = "close" /\ UNCHANGED g_size /\ G1Slot' = G1Slot
    BY <1>5, CloseEffect
  <2>2. g_size[G1Slot] = 0
    BY <2>1, HolderFacts, HoldingAre DEF Emptied, Quiescing
  <2>3. QED BY <1>1, <2>1, <2>2
<1>6. CASE ~Switch(a) /\ ~Close(a)
  <2>1. Fixed
    BY <1>6, WaiterFixed, SignalFixed DEF Acts
  <2>2. G1Slot' = G1Slot /\ Frontier' = Frontier /\ UNCHANGED g1_start
    BY <2>1 DEF Fixed, G1Slot
  <2>3. g_size[G1Slot] # 0
    BY <1>1, <1>6, <2>2, SizeLeft
  <2>4. Cardinality(Members) >= g_signals[G1Slot].n + g_size[G1Slot]
    BY <1>1, <1>2, <1>6, <2>2, <2>3, ClearingStep DEF Filled
  <2>5. Cardinality(Members') = Cardinality(Members) + One(a, Members') - One(a, Members)
    BY <1>2, <2>1, Changes
  <2>6. g_signals'[G1Slot].n \in Int /\ g_size'[G1Slot] \in Int /\ Cardinality(Members') \in Nat
    BY <1>3, NextFacts, CountTypesNext
  <2>7. ASSUME a \in Members => a \in Members',
               g_signals'[G1Slot].n + g_size'[G1Slot] <= g_signals[G1Slot].n + g_size[G1Slot]
        PROVE  Cardinality(Members') >= g_signals'[G1Slot].n + g_size'[G1Slot]
    BY <1>3, <2>4, <2>5, <2>6, <2>7 DEF One
  <2>8. ASSUME g_signals'[G1Slot].n + g_size'[G1Slot] <= g_signals[G1Slot].n + g_size[G1Slot] - 1
        PROVE  Cardinality(Members') >= g_signals'[G1Slot].n + g_size'[G1Slot]
    BY <1>3, <2>4, <2>5, <2>6, <2>8 DEF One
  <2>9. CASE SignalActs(a)
    <3>1. a \notin Members
      BY <2>9, SignalEnds DEF Members, Member
    <3>2. CASE Add(a) \/ AddFirst(a)
      <4>1. /\ g_signals'[G1Slot].n = g_signals[G1Slot].n + Amount(a) /\ Amount(a) \in Int
            /\ g_size'[G1Slot] = g_size[G1Slot] - Amount(a)
        BY <3>2, AddEffect, SlotFacts DEF Added
      <4>2. QED BY <1>3, <2>2, <2>7, <3>1, <4>1
    <3>3. ~Quiesce(a) /\ ~Reopen(a)
      <4>1. pc[a] \notin Emptied
        BY <2>3, HolderFacts, HoldingAre
      <4>2. QED BY <4>1 DEF Quiesce, Reopen, Emptied, Shifting
    <3>4. CASE UNCHANGED <<g_signals, g_size>>
      BY <1>3, <2>2, <2>7, <3>1, <3>4
    <3>5. QED BY <1>6, <2>9, <3>2, <3>3, <3>4, SignalFixed
  <2>10. CASE a \in Waiters /\ WaiterActs(a)
    <3>1. Decided(a) /\ Placed(a) /\ local[a].seq \in Nat
      BY <2>10, LocalFacts DEF SizeInv
    <3>2. CASE pc[a] \notin Unsettled
      <4>1. a \notin Members
        BY <3>2 DEF Members, Member
      <4>2. UNCHANGED <<g_signals, g_size>>
        BY <1>2, <2>10, <3>2, SettledSteps DEF Wait
      <4>3. QED BY <1>3, <2>2, <2>7, <4>1, <4>2
    <3>3. CASE pc[a] \in Unsettled
      <4>1. CASE pc'[a] \in Unsettled /\ local'[a].seq = local[a].seq /\ UNCHANGED <<g_signals, g_size>>
        <5>1. a \in Members => a \in Members'
          BY <2>2, <2>10, <4>1 DEF Members, Member
        <5>2. QED BY <1>3, <2>2, <2>7, <4>1, <5>1
      <4>2. CASE Covered(a) /\ UNCHANGED <<g_signals, g_size>>
        <5>1. a \notin Members
          BY <1>3, <2>3, <3>1, <4>2 DEF Members, Member, Covered
        <5>2. QED BY <1>3, <2>2, <2>7, <4>2, <5>1
      <4>3. CASE local[a].g \in Groups /\ g_signals[local[a].g].n > 0 /\ Added(local[a].g, -1) /\ UNCHANGED g_size
        <5>1. local[a].g = G1Slot
          BY <1>2, <4>3, SlotFacts DEF Clean
        <5>2. g_signals'[G1Slot].n = g_signals[G1Slot].n - 1
          BY <1>3, <4>3, <5>1 DEF Added
        <5>3. QED BY <1>3, <2>2, <2>8, <4>3, <5>2
      <4>4. CASE Cancel(a)
        <5>1. UNCHANGED g_signals
          BY <2>10, <4>4, CancelLeaves
        <5>2. CASE g_size'[G1Slot] = g_size[G1Slot] /\ a \notin Members
          BY <1>3, <2>2, <2>7, <5>1, <5>2
        <5>3. CASE g_size'[G1Slot] = g_size[G1Slot] - 1
          BY <1>3, <2>2, <2>8, <5>1, <5>3
        <5>4. a \in Newcomers => a \notin Members
          BY <1>3, <3>1 DEF Newcomers, Members, Member
        <5>5. QED BY <2>3, <2>10, <4>4, <5>2, <5>3, <5>4, CancelLeaves
      <4>5. QED BY <2>10, <3>1, <3>3, <4>1, <4>2, <4>3, <4>4, UnsettledSteps
    <3>4. QED BY <3>2, <3>3
  <2>11. QED BY <2>9, <2>10 DEF Acts
<1>7. QED BY <1>4, <1>5, <1>6

-----------------------------------------------------------------------------
(* The signals that are owed to a waiter. *)

\* Waiter u will return, or has got its signal.
Receiver(u) ==
  (pc[u] \in Unsettled /\ local[u].seq < Frontier) \/ (pc[u] \in Leaving /\ Persists(u))

Receivers == {u \in Waiters : Receiver(u)}

\* A broadcast signals all of G1.
Flooding(t) == local[t].all /\ pc[t] \in {"add_first", "add"}

\* The waiters of G1 for which there is neither a signal nor a broadcast yet.
Left == IF \E t \in Threads : Flooding(t) THEN 0 ELSE g_size[G1Slot]

\* The signal of thread t is still to be added, to a group that may be that of waiter w.
InFlight(t, w) ==
  /\ ~local[t].all
  /\ \/ pc[t] \in {"signal", "lock", "add"} \cup Quiescing \cup Shifting
     \/ pc[t] = "quiesce" /\ local[w].seq < local[t].count

Flying(w) == {t \in Threads : InFlight(t, w)}

Balance(w) == Cardinality(Receivers) - Left + Cardinality(Flying(w))

LEMMA BalanceTypes ==
  ASSUME NEW w
  PROVE  /\ Receivers \in SUBSET Threads /\ Receivers' \in SUBSET Threads
         /\ Flying(w) \in SUBSET Threads /\ Flying(w)' \in SUBSET Threads
         /\ Cardinality(Receivers) \in Nat /\ Cardinality(Receivers') \in Nat
         /\ Cardinality(Flying(w)) \in Nat /\ Cardinality(Flying(w)') \in Nat
<1>1. /\ Receivers \in SUBSET Threads /\ Receivers' \in SUBSET Threads
      /\ Flying(w) \in SUBSET Threads /\ Flying(w)' \in SUBSET Threads
  BY ThreadsAre DEF Receivers, Flying
<1>2. QED BY <1>1, ThreadSets

LEMMA LeftType ==
  ASSUME Typed, SizeInv
  PROVE  Left \in Int /\ Left >= 0 /\ Left <= g_size[G1Slot]
BY SlotFacts, SizeFacts DEF Left

LEMMA LeftTypeNext ==
  ASSUME Typed', SizeInv'
  PROVE  Left' \in Int /\ Left' >= 0
<1>1. g_size'[G1Slot'] >= 0 /\ g_size'[G1Slot'] \in Int
  BY NextFacts DEF SizeInv, Roles, G1Slot
<1>2. QED BY <1>1 DEF Left

\* The threads that do not act count as before.
LEMMA ReceiversChange ==
  ASSUME Typed, NEW a \in Threads, Others(a), Frontier' = Frontier
  PROVE  Cardinality(Receivers') = Cardinality(Receivers) + One(a, Receivers') - One(a, Receivers)
<1>1. ASSUME NEW u \in Threads, u # a PROVE u \in Receivers' <=> u \in Receivers
  <2>1. Stays(u)
    BY <1>1 DEF Others
  <2>2. /\ local'[u].seq = local[u].seq /\ local'[u].ended = local[u].ended
        /\ pc'[u] \in Unsettled <=> pc[u] \in Unsettled
    BY <2>1, StaysSeq
  <2>3. pc'[u] \in Leaving <=> pc[u] \in Leaving
    BY <2>1 DEF Stays, Leaving
  <2>4. Persists(u)' <=> Persists(u)
    BY <2>2 DEF Persists
  <2>5. QED BY <2>2, <2>3, <2>4 DEF Receivers, Receiver
<1>2. QED BY <1>1, BalanceTypes, Recount

LEMMA FlyingChange ==
  ASSUME Typed, NEW a \in Threads, Others(a), NEW w, local'[w].seq = local[w].seq
  PROVE  Cardinality(Flying(w)') = Cardinality(Flying(w)) + One(a, Flying(w)') - One(a, Flying(w))
<1>1. ASSUME NEW u \in Threads, u # a PROVE u \in Flying(w)' <=> u \in Flying(w)
  <2>1. Stays(u)
    BY <1>1 DEF Others
  <2>2. /\ local'[u].count = local[u].count /\ local'[u].all = local[u].all
        /\ pc'[u] \in Quiescing \cup Shifting <=> pc[u] \in Quiescing \cup Shifting
    BY <2>1, StaysSeq
  <2>3. /\ pc'[u] \in {"signal", "lock", "add"} <=> pc[u] \in {"signal", "lock", "add"}
        /\ pc'[u] = "quiesce" <=> pc[u] = "quiesce"
    BY <2>1 DEF Stays
  <2>4. QED BY <2>2, <2>3 DEF Flying, InFlight
<1>2. QED BY <1>1, BalanceTypes, Recount

LEMMA FloodingChange ==
  ASSUME Typed, NEW a \in Threads, Others(a)
  PROVE  \A u \in Threads : u # a => (Flooding(u)' <=> Flooding(u))
<1>1. ASSUME NEW u \in Threads, u # a PROVE Flooding(u)' <=> Flooding(u)
  <2>1. Stays(u)
    BY <1>1 DEF Others
  <2>2. local'[u].all = local[u].all
    BY <2>1, StaysSeq
  <2>3. QED BY <2>1, <2>2 DEF Flooding, Stays
<1>2. QED BY <1>1

\* What is left while nobody else changes the groups.
LEMMA LeftAlone ==
  ASSUME Typed, Mutex, NEW a \in Threads, Others(a), pc[a] \in Holding \/ ~lock
  PROVE  /\ Left = IF Flooding(a) THEN 0 ELSE g_size[G1Slot]
         /\ Left' = IF Flooding(a)' THEN 0 ELSE g_size'[G1Slot']
<1>1. \A u \in Threads : u # a => pc[u] \notin Holding /\ pc'[u] \notin Holding
  BY HoldsAlone
<1>2. \A u \in Threads : u # a => ~Flooding(u) /\ ~Flooding(u)'
  BY <1>1, HoldingAre DEF Flooding
<1>3. QED BY <1>2 DEF Left

\* What is left does not change with a step that neither is part of a broadcast nor
\* signals.
LEMMA LeftSame ==
  ASSUME Typed, NEW a \in Threads, Others(a), ~Flooding(a), ~Flooding(a)', g_size'[G1Slot'] = g_size[G1Slot]
  PROVE  Left' = Left
<1>1. (\E u \in Threads : Flooding(u)') <=> (\E u \in Threads : Flooding(u))
  BY FloodingChange
<1>2. QED BY <1>1 DEF Left

\* How the waits of w's fellows go on is told by how they ended.
LEMMA KnowsPersists ==
  ASSUME NEW w, Knows(w)
  PROVE  /\ pc[w] \in Unsettled /\ ~GivingUp(w) => Persists(w)
         /\ pc[w] \in SignalLabels => ~Persists(w)
<1>1. "" \notin GaveUp
  BY DEF GaveUp
<1>2. QED BY <1>1, Zenon DEF Knows, Persists

LEMMA PersistsKept ==
  ASSUME NEW w, local'[w].ended = local[w].ended
  PROVE  Persists(w)' <=> Persists(w)
BY DEF Persists

\* The signaller does not become a receiver.
LEMMA SignalReceivers ==
  ASSUME Typed, LocalInv, NEW a \in Threads, SignalActs(a)
  PROVE  a \notin Receivers /\ a \notin Receivers'
<1>1. pc[a] \notin Unsettled \cup Leaving /\ pc'[a] \notin Unsettled
  BY SignalEnds
<1>2. ASSUME a \in Waiters PROVE ~Persists(a)'
  <2>1. pc[a] \in SignalLabels /\ local'[a].ended = local[a].ended /\ Knows(a)
    BY <1>2, SignalEnds DEF LocalInv
  <2>2. QED BY <2>1, KnowsPersists, PersistsKept
<1>3. QED BY <1>1, <1>2 DEF Receivers, Receiver

\* A signal of one waiter that changes the groups' roles makes newcomers receivers.
LEMMA SwitchBalance ==
  ASSUME Typed, Typed', Mutex, SizeInv, SizeInv', LocalInv, Joined, ~undone,
         NEW a \in Threads, Switch(a), SignalActs(a), NEW w \in Waiters, pc[w] \in Unsettled,
         local'[w].seq = local[w].seq, ~Served(w), ~Served(w)'
  PROVE  Balance(w)' >= Balance(w)
<1>1. /\ pc[a] = "switch" /\ Only(a) /\ Others(a) /\ wseq'.g2 = G1Slot /\ G1Slot' = wseq.g2
      /\ Frontier' = wseq.pos /\ g_size[G1Slot] = 0
      /\ g_size'[wseq.g2] = g_size[wseq.g2] + wseq.pos - Frontier
      /\ pc'[a] = "add" <=> g_size'[wseq.g2] # 0
  BY SwitchEffect
<1>2. wseq.pos \in Nat /\ Frontier \in Int /\ g_size[wseq.g2] \in Int /\ Frontier <= wseq.pos
      /\ Cardinality(Newcomers) \in Nat
  BY GroupFacts, SizeFacts, CountTypes
<1>3. ~local[a].all /\ pc[a] \in Holding
  <2>1. ~Reaching(a, w)
    BY DEF Served
  <2>2. QED BY <1>1, <2>1, HoldingAre DEF Reaching, Shifting
<1>4. pc'[a] = "add"
  <2>1. ASSUME g_size'[wseq.g2] = 0 PROVE FALSE
    <3>1. local[w].seq < wseq.pos
      BY DEF SizeInv, Placed
    <3>2. Covered(w)'
      BY <1>1, <2>1, <3>1 DEF Covered
    <3>3. QED BY <3>2 DEF Served
  <2>2. QED BY <1>1, <2>1
<1>5. ~local'[a].all
  BY <1>3, <1>4, SwitchDoes, BackLabels DEF Done
<1>6. a \in Flying(w) /\ a \in Flying(w)'
  BY <1>1, <1>3, <1>4, <1>5 DEF Flying, InFlight, Shifting
<1>7. Cardinality(Flying(w)') = Cardinality(Flying(w))
  BY <1>1, <1>6, FlyingChange, BalanceTypes DEF One
<1>8. Left = 0 /\ Left' = wseq.pos - Frontier + g_size[wseq.g2]
  <2>1. ~Flooding(a) /\ ~Flooding(a)'
    BY <1>3, <1>5 DEF Flooding
  <2>2. QED BY <1>1, <1>2, <1>3, <2>1, LeftAlone
<1>9. Cardinality(Newcomers) >= wseq.pos - Frontier + g_size[wseq.g2]
  <2>1. ASSUME NEW t \in Waiters, Sweeping(t) PROVE FALSE
    <3>1. t \in Threads /\ local[t].all /\ ~Reaching(t, w)
      BY <2>1, ThreadsAre DEF Sweeping, Served
    <3>2. t # a
      BY <1>3, <3>1
    <3>3. pc[t] \notin Holding
      BY <1>3, <3>1, <3>2 DEF Mutex
    <3>4. pc[t] \in {"signal", "lock"}
      BY <2>1, <3>3, HoldingAre DEF Sweeping, ReadEarlier
    <3>5. QED BY <3>1, <3>4 DEF Reaching
  <2>2. QED BY <2>1 DEF Joined
<1>10. Receivers \subseteq Receivers' /\ Newcomers \subseteq Receivers' /\ Receivers \cap Newcomers = {}
  <2>1. ASSUME NEW u \in Waiters, pc[u] \in Unsettled PROVE u \in Receivers' /\ (u \in Receivers <=> u \notin Newcomers)
    <3>1. u \in Threads /\ local[u].seq \in Nat /\ local[u].seq < wseq.pos
      BY <2>1, ThreadsAre, LocalFacts DEF SizeInv, Placed
    <3>2. pc'[u] = pc[u] /\ local'[u] = local[u]
      BY <1>1, <2>1, <3>1 DEF Only, Unsettled, UserLabels
    <3>3. pc[u] \notin Leaving
      BY <2>1 DEF Unsettled, UserLabels, Leaving
    <3>4. QED BY <1>1, <1>2, <2>1, <3>1, <3>2, <3>3 DEF Receivers, Receiver, Newcomers
  <2>2. ASSUME NEW u \in Waiters, pc[u] \in Leaving, Persists(u) PROVE u \in Receivers'
    <3>1. u \in Threads /\ u # a
      BY <1>1, <2>2, ThreadsAre DEF Leaving
    <3>2. pc'[u] = pc[u] /\ local'[u] = local[u]
      BY <1>1, <3>1 DEF Only
    <3>3. QED BY <2>2, <3>2 DEF Receivers, Receiver, Persists
  <2>3. QED BY <2>1, <2>2 DEF Receivers, Receiver, Newcomers
<1>11. Cardinality(Receivers) + Cardinality(Newcomers) <= Cardinality(Receivers')
  BY <1>10, BalanceTypes, SetsAre, Recount_Disjoint
<1>12. QED BY <1>2, <1>7, <1>8, <1>9, <1>11, BalanceTypes DEF Balance

LEMMA SignalBalance ==
  ASSUME Typed, Typed', Mutex, SizeInv, SizeInv', LocalInv, WrefsCount, \A t \in Threads : SeenRoom(t),
         Joined, ~undone, NEW a \in Threads, SignalActs(a),
         NEW w \in Waiters, pc[w] \in Unsettled \ {"register"}, local'[w].seq = local[w].seq, ~Served(w), ~Served(w)'
  PROVE  /\ Balance(w)' >= Balance(w)
         /\ (\E all \in Kinds : Call(a, all)) => Balance(w)' >= Balance(w) + 1
<1>1. Others(a) /\ ~Reaching(a, w) /\ ~Reaching(a, w)' /\ ~Covered(w) /\ local[w].seq < wseq.pos
  BY SignalOthers DEF Served, SizeInv, Placed
<1>2. CASE Switch(a)
  <2>1. ~(\E all \in Kinds : Call(a, all))
    BY <1>2, KindsAre, CallDoes DEF Switch
  <2>2. QED BY <1>2, <2>1, SwitchBalance
<1>3. CASE ~Switch(a)
  <2>1. Frontier' = Frontier /\ G1Slot' = G1Slot
    BY <1>3, SignalFixed, CloseEffect DEF Fixed, G1Slot
  <2>2. Cardinality(Receivers') = Cardinality(Receivers)
    BY <1>1, <2>1, ReceiversChange, SignalReceivers, BalanceTypes DEF One
  <2>3. Cardinality(Flying(w)') = Cardinality(Flying(w)) + One(a, Flying(w)') - One(a, Flying(w))
    BY <1>1, FlyingChange
  <2>4. Left \in Int /\ Left' \in Int /\ Left >= 0
    BY LeftType, LeftTypeNext
  <2>5. ASSUME Left' <= Left, a \in Flying(w) => a \in Flying(w)' PROVE Balance(w)' >= Balance(w)
    BY <2>2, <2>3, <2>4, <2>5, BalanceTypes DEF Balance, One
  <2>6. CASE \E all \in Kinds : Call(a, all)
    <3>1. PICK all \in Kinds : Call(a, all)
      BY <2>6
    <3>2. pc[a] = "idle" /\ pc'[a] = "signal" /\ (local'[a].all <=> all) /\ UNCHANGED g_size
      BY <3>1, KindsAre, CallDoes DEF Call, condvar
    <3>3. ~local'[a].all
      BY <1>1, <3>2 DEF Reaching
    <3>4. a \notin Flying(w) /\ a \in Flying(w)'
      BY <3>2, <3>3 DEF Flying, InFlight, Quiescing, Shifting
    <3>5. Left' = Left
      BY <1>1, <2>1, <3>2, LeftSame DEF Flooding
    <3>6. QED BY <2>2, <2>3, <2>4, <3>4, <3>5, BalanceTypes DEF Balance, One
  <2>7. ~(\E all \in Kinds : Call(a, all)) => Balance(w)' >= Balance(w)
    <3>1. CASE CheckRefs(a)
      <4>1. wrefs.n # 0
        BY RefsSeen DEF Outside, Unsettled, UserLabels
      <4>2. pc[a] = "signal" /\ pc'[a] = "lock" /\ local'[a] = local[a] /\ UNCHANGED g_size
        BY <3>1, <4>1, CheckRefsDoes DEF CheckRefs, condvar
      <4>3. Left' = Left
        BY <1>1, <2>1, <4>2, LeftSame DEF Flooding
      <4>4. a \in Flying(w) => a \in Flying(w)'
        BY <4>2 DEF Flying, InFlight, Quiescing, Shifting
      <4>5. QED BY <2>4, <2>5, <4>3, <4>4
    <3>2. CASE Lock(a)
      <4>1. /\ pc[a] = "lock" /\ ~lock /\ local'[a].count = wseq.pos /\ local'[a].all = local[a].all
            /\ UNCHANGED g_size /\ pc'[a] \in {"quiesce", "add_first", "add"}
            /\ pc'[a] = "add_first" => local[a].all
        BY <3>2, LockDoes DEF Lock
      <4>2. ~local[a].all
        BY <1>1, <4>1 DEF Reaching
      <4>3. a \in Flying(w)'
        BY <1>1, <4>1, <4>2 DEF Flying, InFlight
      <4>4. Left' = Left
        BY <1>1, <2>1, <4>1, <4>2, LeftSame DEF Flooding
      <4>5. QED BY <2>4, <2>5, <4>3, <4>4
    <3>3. CASE AddFirst(a)
      <4>1. pc[a] = "add_first" /\ pc'[a] = "wake_first"
        BY <3>3, AddDoes
      <4>2. Amount(a) = g_size[G1Slot] /\ pc[a] \in Holding
        BY <4>1, HoldingAre DEF Amount
      <4>3. g_size'[G1Slot] = 0
        BY <3>3, <4>2, AddEffect, SlotFacts
      <4>4. Left' = 0
        BY <1>1, <2>1, <4>2, <4>3, LeftAlone DEF Flooding
      <4>5. a \notin Flying(w)
        BY <4>1 DEF Flying, InFlight, Quiescing, Shifting
      <4>6. QED BY <2>4, <2>5, <4>4, <4>5
    <3>4. CASE Add(a)
      <4>1. pc[a] = "add" /\ pc'[a] = "wake" /\ local'[a] = local[a]
        BY <3>4, AddDoes
      <4>2. pc[a] \in Holding
        BY <4>1, HoldingAre
      <4>3. ~Flooding(a)' /\ (Flooding(a) <=> local[a].all)
        BY <4>1 DEF Flooding
      <4>4. g_size'[G1Slot] = g_size[G1Slot] - Amount(a) /\ g_size[G1Slot] \in Int
        BY <3>4, AddEffect, SlotFacts
      <4>5. Left' = g_size'[G1Slot]
        BY <1>1, <2>1, <4>2, <4>3, LeftAlone
      <4>6. CASE local[a].all
        <5>1. Left = 0 /\ Left' = 0
          BY <1>1, <4>2, <4>3, <4>4, <4>5, <4>6, LeftAlone DEF Amount
        <5>2. a \notin Flying(w)
          BY <4>6 DEF Flying, InFlight
        <5>3. QED BY <2>5, <5>1, <5>2
      <4>7. CASE ~local[a].all
        <5>1. Amount(a) = 1
          BY <4>1, <4>7 DEF Amount
        <5>2. Left' = Left - 1
          BY <1>1, <4>2, <4>3, <4>4, <4>5, <4>7, <5>1, LeftAlone
        <5>3. QED BY <2>2, <2>3, <2>4, <5>2, BalanceTypes DEF Balance, One
      <4>8. QED BY <4>6, <4>7
    <3>5. ASSUME pc[a] \notin {"add_first", "add"}, pc'[a] \notin {"add_first", "add"}, UNCHANGED g_size
          PROVE  Left' = Left
      BY <1>1, <2>1, <3>5, LeftSame DEF Flooding
    <3>6. CASE WakeFirst(a)
      <4>1. pc[a] = "wake_first" /\ pc'[a] = "quiesce" /\ UNCHANGED g_size
        BY <3>6, WakeFirstDoes DEF WakeFirst, condvar
      <4>2. a \notin Flying(w)
        BY <4>1 DEF Flying, InFlight, Quiescing, Shifting
      <4>3. QED BY <2>4, <2>5, <3>5, <4>1, <4>2
    <3>7. CASE WakeSignalled(a)
      <4>1. pc[a] = "wake" /\ pc'[a] \in {"idle", "confirm", "cleanup_wake"} /\ UNCHANGED g_size
        BY <3>7, WakeSignalledDoes, BackLabels DEF WakeSignalled, condvar, Done
      <4>2. a \notin Flying(w)
        BY <4>1 DEF Flying, InFlight, Quiescing, Shifting
      <4>3. QED BY <2>4, <2>5, <3>5, <4>1, <4>2
    <3>8. CASE Quiesce(a)
      <4>1. pc[a] = "quiesce" /\ UNCHANGED g_size
        BY <3>8 DEF Quiesce
      <4>2. CASE Done(a)
        <5>1. ~(local[w].seq < local[a].count)
          BY <1>1, <3>8, <4>2, QuiesceSeen
        <5>2. a \notin Flying(w)
          BY <4>1, <5>1 DEF Flying, InFlight, Quiescing, Shifting
        <5>3. pc'[a] \notin {"add_first", "add"}
          BY <4>2, BackLabels DEF Done
        <5>4. QED BY <2>4, <2>5, <3>5, <4>1, <5>2, <5>3
      <4>3. CASE pc'[a] = "quiesce_refs" /\ Alike(a)
        <5>1. a \in Flying(w) => a \in Flying(w)'
          BY <4>3 DEF Flying, InFlight, Quiescing, Alike, Places
        <5>2. QED BY <2>4, <2>5, <3>5, <4>1, <4>3, <5>1
      <4>4. QED BY <3>8, <4>2, <4>3, QuiesceDoes
    <3>9. CASE QuiesceRefs(a) \/ QuiesceRequest(a) \/ QuiesceWait(a) \/ Close(a) \/ Reopen(a)
      <4>1. /\ local'[a].all = local[a].all /\ pc'[a] \in Quiescing \cup Shifting /\ pc[a] \in Quiescing \cup Shifting
        BY <3>9, QuiesceRefsDoes, QuiesceRequestDoes, QuiesceWaitDoes, CloseDoes, ReopenDoes
           DEF Alike, Places, Quiescing, Shifting
      <4>2. UNCHANGED g_size
        BY <3>9 DEF QuiesceRefs, QuiesceRequest, QuiesceWait, Close, Reopen, condvar
      <4>3. pc[a] \notin {"add_first", "add"} /\ pc'[a] \notin {"add_first", "add"}
        BY <4>1 DEF Quiescing, Shifting
      <4>4. a \in Flying(w) => a \in Flying(w)'
        BY <4>1 DEF Flying, InFlight
      <4>5. QED BY <2>4, <2>5, <3>5, <4>2, <4>3, <4>4
    <3>10. CASE Destroy(a) \/ DestroyWait(a) \/ DestroyLoad(a)
      <4>1. pc[a] \in {"idle"} \cup DestroyLabels /\ pc'[a] \in DestroyLabels
        BY <3>10, DestroyDoes
      <4>2. UNCHANGED g_size
        BY <3>10 DEF Destroy, DestroyWait, DestroyLoad, condvar
      <4>3. a \notin Flying(w) /\ pc[a] \notin {"add_first", "add"} /\ pc'[a] \notin {"add_first", "add"}
        BY <4>1 DEF Flying, InFlight, Quiescing, Shifting, DestroyLabels
      <4>4. QED BY <2>4, <2>5, <3>5, <4>2, <4>3
    <3>11. QED
      BY <1>3, <3>1, <3>2, <3>3, <3>4, <3>6, <3>7, <3>8, <3>9, <3>10 DEF SignalActs, SignalStep
  <2>8. QED BY <2>4, <2>6, <2>7, BalanceTypes DEF Balance
<1>4. QED BY <1>2, <1>3

LEMMA WaiterBalance ==
  ASSUME Typed, Typed', Mutex, SizeInv, SizeInv', LocalInv, \A v \in Waiters : Decided(v),
         NEW a \in Waiters, WaiterActs(a), NEW w \in Waiters, local'[w].seq = local[w].seq, ~Served(w)'
  PROVE  /\ Balance(w)' >= Balance(w) - 1
         /\ ~Confirm(a) \/ ~Persists(a) => Balance(w)' >= Balance(w)
<1>1. /\ a \in Threads /\ Others(a) /\ Fixed /\ Knows(a) /\ Placed(a) /\ Decided(a) /\ ~Reaching(a, w)'
      /\ local[a].seq \in Nat
  BY WaiterFixed, WaiterOthers, LocalFacts DEF LocalInv, SizeInv, Served
<1>2. Frontier' = Frontier /\ G1Slot' = G1Slot /\ Frontier \in Int /\ wseq.pos \in Nat /\ Frontier <= wseq.pos
  BY <1>1, GroupFacts, SizeFacts DEF Fixed, G1Slot
<1>3. Cardinality(Receivers') = Cardinality(Receivers) + One(a, Receivers') - One(a, Receivers)
  BY <1>1, <1>2, ReceiversChange
<1>4. Cardinality(Flying(w)') = Cardinality(Flying(w)) + One(a, Flying(w)') - One(a, Flying(w))
  BY <1>1, FlyingChange
<1>5. Left \in Int /\ Left' \in Int
  BY LeftType, LeftTypeNext
<1>6. a \notin Flying(w) /\ pc[a] \notin {"add_first", "add"} /\ pc'[a] \notin {"add_first", "add"}
  <2>1. pc[a] \notin SignalLabels
    BY WaiterFrom
  <2>2. Moves(a, Calm, Calm)
    BY WaiterMoves DEF WaiterActs
  <2>3. QED BY <2>1, <2>2, HoldingAre DEF Moves, Flying, InFlight, SignalLabels, Holding
<1>7. ASSUME g_size'[G1Slot] = g_size[G1Slot] PROVE Left' = Left
  BY <1>1, <1>2, <1>6, <1>7, LeftSame DEF Flooding
<1>8. ASSUME Left' <= Left, a \in Receivers => a \in Receivers' PROVE Balance(w)' >= Balance(w)
  BY <1>3, <1>4, <1>5, <1>6, <1>8, BalanceTypes DEF Balance, One
<1>9. ASSUME UNCHANGED g_size, a \in Receivers => a \in Receivers' PROVE Balance(w)' >= Balance(w)
  BY <1>5, <1>7, <1>8, <1>9
<1>10. ASSUME Balance(w)' >= Balance(w) PROVE Balance(w)' >= Balance(w) - 1
  BY <1>5, <1>10, BalanceTypes DEF Balance
<1>11. CASE Confirm(a)
  <2>1. pc[a] = "confirm" /\ UNCHANGED g_size
    BY <1>11 DEF Confirm
  <2>2. Left' = Left
    BY <1>7, <2>1
  <2>3. Balance(w)' >= Balance(w) - 1
    BY <1>3, <1>4, <1>5, <1>6, <2>2, BalanceTypes DEF Balance, One
  <2>4. ASSUME ~Persists(a) PROVE Balance(w)' >= Balance(w)
    <3>1. a \notin Receivers
      BY <2>1, <2>4 DEF Receivers, Receiver, Unsettled, UserLabels
    <3>2. QED BY <1>9, <2>1, <3>1
  <2>5. QED BY <1>11, <2>3, <2>4
<1>12. ~Confirm(a) => Balance(w)' >= Balance(w)
  <2>1. SUFFICES ASSUME ~Confirm(a) PROVE Balance(w)' >= Balance(w)
    OBVIOUS
  <2>2. CASE Wait(a)
    <3>1. pc[a] = "idle" /\ UNCHANGED g_size
      BY <2>2 DEF Wait
    <3>2. a \notin Receivers
      BY <3>1 DEF Receivers, Receiver, Unsettled, UserLabels, Leaving
    <3>3. QED BY <1>9, <3>1, <3>2
  <2>3. CASE pc[a] \in Unsettled
    <3>1. pc[a] \notin Leaving
      BY <2>3 DEF Unsettled, UserLabels, Leaving
    <3>2. CASE pc'[a] \in Unsettled /\ local'[a].seq = local[a].seq /\ UNCHANGED g_size
      <4>1. a \in Receivers => a \in Receivers'
        BY <1>2, <3>1, <3>2 DEF Receivers, Receiver
      <4>2. QED BY <1>9, <3>2, <4>1
    <3>3. CASE pc'[a] \in {"confirm", "check_steal"} /\ local'[a].ended = local[a].ended /\ ~GivingUp(a) /\ UNCHANGED g_size
      <4>1. Persists(a)'
        BY <1>1, <2>3, <3>3, KnowsPersists, PersistsKept
      <4>2. a \in Receivers'
        BY <3>3, <4>1 DEF Receivers, Receiver, Leaving
      <4>3. QED BY <1>9, <3>3, <4>2
    <3>4. CASE Cancel(a)
      <4>1. CASE pc'[a] = "signal" /\ local'[a] = local[a] /\ UNCHANGED g_size
        <5>1. ~local[a].all
          BY <1>1, <2>3 DEF Knows
        <5>2. a \in Flying(w)'
          BY <1>1, <4>1, <5>1 DEF Flying, InFlight
        <5>3. QED BY <1>3, <1>4, <1>5, <1>6, <1>7, <4>1, <5>2, BalanceTypes DEF Balance, One
      <4>2. ~(pc'[a] = "signal" /\ local'[a].all)
        BY <1>1 DEF Reaching
      <4>3. CASE a \in Newcomers /\ g_size'[G1Slot] = g_size[G1Slot]
        <5>1. a \notin Receivers
          BY <1>1, <1>2, <3>1, <4>3 DEF Newcomers, Receivers, Receiver
        <5>2. QED BY <1>5, <1>7, <1>8, <4>3, <5>1
      <4>4. CASE g_size'[G1Slot] = g_size[G1Slot] - 1
        <5>1. ~lock
          BY <3>4 DEF Cancel
        <5>2. Left = g_size[G1Slot] /\ Left' = g_size'[G1Slot]
          BY <1>1, <1>2, <1>6, <5>1, LeftAlone DEF Flooding
        <5>3. QED BY <1>3, <1>4, <1>5, <1>6, <4>4, <5>2, BalanceTypes DEF Balance, One
      <4>5. QED BY <3>4, <4>1, <4>2, <4>3, <4>4, CancelLeaves
    <3>5. QED BY <1>1, <2>3, <3>2, <3>3, <3>4, UnsettledSteps
  <2>4. CASE pc[a] \notin Unsettled /\ ~Wait(a)
    <3>1. UNCHANGED g_size
      BY <2>4, SettledSteps
    <3>2. CASE WakeDestroyer(a)
      <4>1. a \notin Receivers
        BY <2>4, <3>2 DEF WakeDestroyer, Receivers, Receiver, Leaving
      <4>2. QED BY <1>9, <3>1, <4>1
    <3>3. CASE CheckSteal(a) \/ UndoLoad(a) \/ UndoCheck(a) \/ UndoCas(a) \/ UndoWake(a) \/ CleanupWake(a)
      <4>1. pc'[a] \in Leaving /\ local'[a].ended = local[a].ended
        BY <3>3, CheckStealDoes, UndoLoadDoes, UndoCheckDoes, UndoCasDoes, PassOnDoes DEF Looks, Reduced, Leaving
      <4>2. a \in Receivers => a \in Receivers'
        BY <2>4, <4>1, PersistsKept DEF Receivers, Receiver
      <4>3. QED BY <1>9, <3>1, <4>2
    <3>4. /\ ~Register(a) /\ ~Load(a) /\ ~TakeRef(a) /\ ~CheckClosed(a) /\ ~CheckStart(a) /\ ~FutexWait(a)
          /\ ~DropRef(a) /\ ~ClearRequest(a) /\ ~WakeRefs(a) /\ ~Grab(a) /\ ~Cancel(a) /\ ~SpuriousWake(a)
          /\ ~\E how \in Interrupts \cap {"timed_out", "cancelled"} : GiveUp(a, how)
      BY <2>4 DEF Register, Load, TakeRef, CheckClosed, CheckStart, FutexWait, DropRef, ClearRequest, WakeRefs,
                  Grab, Cancel, SpuriousWake, GiveUp, Unsettled, UserLabels
    <3>5. QED BY <2>1, <2>4, <3>2, <3>3, <3>4 DEF WaiterActs, WaiterStep
  <2>5. QED BY <2>2, <2>3, <2>4
<1>13. QED BY <1>10, <1>11, <1>12

\* A waiter that sleeps or may still sleep is served, or is owed no more signals than there
\* are returns to come.
Delivered(w) ==
  pc[w] \in Unsettled \ {"register"} =>
    \/ Served(w)
    \/ owed[w] # Everything /\ (undone \/ owed[w] = 0 \/ owed[w] <= Balance(w))

\* There are never fewer receivers than waiters left in G1.
LEMMA BalanceNat ==
  ASSUME Typed, SizeInv, LocalInv, Filled, ~undone, NEW w \in Waiters, ~Served(w)
  PROVE  Balance(w) \in Int /\ Balance(w) >= 0
<1>1. /\ Left \in Int /\ Left >= 0 /\ Left <= g_size[G1Slot] /\ g_size[G1Slot] \in Int
      /\ g_signals[G1Slot].n \in Int /\ g_signals[G1Slot].n >= 0
  BY LeftType, SlotFacts DEF LocalInv, Positive
<1>2. CASE Left = 0
  BY <1>2, BalanceTypes DEF Balance
<1>3. ASSUME NEW t \in Waiters, Clearing(t) PROVE Left = 0
  <2>1. t \in Threads /\ ~Reaching(t, w)
    BY ThreadsAre DEF Served
  <2>2. Flooding(t)
    BY <1>3, <2>1 DEF Clearing, Reaching, Flooding
  <2>3. QED BY <2>1, <2>2 DEF Left
<1>4. CASE Cardinality(Members) >= g_signals[G1Slot].n + g_size[G1Slot]
  <2>1. Members \subseteq Receivers
    BY DEF Members, Member, Receivers, Receiver
  <2>2. Cardinality(Members) <= Cardinality(Receivers)
    BY <2>1, BalanceTypes, SetsAre, Recount_Less
  <2>3. QED BY <1>1, <1>4, <2>2, BalanceTypes, CountTypes DEF Balance
<1>5. g_size[G1Slot] = 0 => Left = 0
  BY <1>1
<1>6. QED BY <1>2, <1>3, <1>4, <1>5 DEF Filled

LEMMA OwedTypes ==
  ASSUME Owing, NEW w \in Waiters
  PROVE  /\ owed[w] \in Int /\ owed[w] >= 0 /\ (owed[w] # Everything => owed[w] <= calls)
         /\ Everything \in Int /\ Everything > MaxCalls /\ calls \in Int /\ calls <= MaxCalls /\ MaxCalls \in Nat
<1>1. MaxCalls \in Nat
  BY CondVarAssumption
<1>2. owed[w] \in 0 .. calls \cup {Everything} /\ calls \in 0 .. MaxCalls
  BY DEF Owing
<1>3. Everything = MaxCalls + 1
  BY DEF Everything
<1>4. QED BY <1>1, <1>2, <1>3

LEMMA DeliveredStep ==
  ASSUME Typed, Typed', Mutex, SizeInv, SizeInv', LocalInv, WrefsCount, Owing, Owing',
         \A t \in Threads : SeenRoom(t), \A v \in Waiters : Decided(v), Filled, Joined,
         NEW a \in Threads, Acts(a), NEW w \in Waiters, Delivered(w)
  PROVE  Delivered(w)'
<1>1. SUFFICES ASSUME pc'[w] \in Unsettled, pc'[w] # "register", ~Served(w)'
      PROVE  owed'[w] # Everything /\ (undone' \/ owed'[w] = 0 \/ owed'[w] <= Balance(w)')
  BY DEF Delivered, Everything
<1>2. pc[w] \in Unsettled /\ local'[w].seq = local[w].seq /\ w \in Threads
  BY <1>1, SeqKept, ThreadsAre
<1>3. /\ owed[w] \in Int /\ owed[w] >= 0 /\ (owed[w] # Everything => owed[w] <= calls)
      /\ Everything \in Int /\ Everything > MaxCalls /\ calls \in Int /\ calls <= MaxCalls /\ MaxCalls \in Nat
  BY OwedTypes
<1>4. CASE pc[w] = "register"
  <2>1. owed[w] = 0
    BY <1>4 DEF Owing, Outside
  <2>2. w = a
    <3>1. ~Stays(w)
      BY <1>1, <1>4 DEF Stays
    <3>2. QED BY <1>2, <3>1, ActsOthers DEF Others
  <2>3. WaiterActs(a) /\ ~Confirm(a)
    BY <1>2, <1>4, <2>2, SignalEnds DEF Acts, Confirm
  <2>4. owed' = owed
    BY <2>2, <2>3, WaiterFixed
  <2>5. QED BY <1>3, <2>1, <2>4
<1>5. CASE pc[w] # "register"
  <2>1. ~Served(w)
    BY <1>1, <1>2, <1>5, ServedStep
  <2>2. owed[w] # Everything /\ (undone \/ owed[w] = 0 \/ owed[w] <= Balance(w))
    BY <1>2, <1>5, <2>1 DEF Delivered
  <2>3. ~undone' => ~undone
    BY NotUndone
  <2>4. Left \in Int /\ Left' \in Int
    BY LeftType, LeftTypeNext
  <2>5. Balance(w) \in Int /\ Balance(w)' \in Int
    BY <2>4, BalanceTypes DEF Balance
  <2>6. ASSUME owed'[w] = owed[w], ~undone' /\ owed[w] # 0 => Balance(w)' >= Balance(w)
        PROVE  owed'[w] # Everything /\ (undone' \/ owed'[w] = 0 \/ owed'[w] <= Balance(w)')
    BY <1>3, <2>2, <2>3, <2>5, <2>6
  <2>7. CASE a \in Waiters /\ WaiterActs(a)
    <3>1. /\ Balance(w)' >= Balance(w) - 1
          /\ ~Confirm(a) \/ ~Persists(a) => Balance(w)' >= Balance(w)
      BY <1>1, <1>2, <2>7, WaiterBalance
    <3>2. CASE ~Confirm(a)
      BY <2>6, <2>7, <3>1, <3>2, WaiterFixed
    <3>3. CASE Confirm(a)
      <4>1. w # a
        BY <1>2, <3>3 DEF Confirm, Unsettled, UserLabels
      <4>2. CASE owed'[w] = owed[w] /\ (Persists(a) => owed[w] \in {0, Everything})
        BY <2>2, <2>6, <3>1, <4>2
      <4>3. CASE owed'[w] = owed[w] - 1 /\ owed[w] \in 1 .. MaxCalls
        BY <1>3, <2>2, <2>3, <2>5, <3>1, <4>3
      <4>4. QED BY <2>7, <3>3, <4>1, <4>2, <4>3, ConfirmOwes
    <3>4. QED BY <3>2, <3>3
  <2>8. CASE SignalActs(a)
    <3>1. ~undone' => /\ Balance(w)' >= Balance(w)
                      /\ (\E all \in Kinds : Call(a, all)) => Balance(w)' >= Balance(w) + 1
      BY <1>1, <1>2, <1>5, <2>1, <2>3, <2>8, SignalBalance
    <3>2. CASE ~(\E all \in Kinds : Call(a, all))
      BY <2>6, <2>8, <3>1, <3>2, SignalFixed
    <3>3. CASE \E all \in Kinds : Call(a, all)
      <4>1. PICK all \in Kinds : Call(a, all)
        BY <3>3
      <4>2. pc'[a] = "signal" /\ (local'[a].all <=> all) /\ calls < MaxCalls /\ all \in BOOLEAN
        BY <4>1, KindsAre, CallDoes DEF Call
      <4>3. ~all
        <5>1. ~Reaching(a, w)'
          BY <1>1 DEF Served
        <5>2. QED BY <4>2, <5>1 DEF Reaching
      <4>4. pc[w] \notin {"idle", "register"}
        BY <1>2, <1>5 DEF Unsettled, UserLabels
      <4>5. owed'[w] = owed[w] + 1
        BY <2>2, <4>1, <4>2, <4>3, <4>4, CallOwes
      <4>6. ~undone' => Balance(w) >= 0
        BY <2>1, <2>3, BalanceNat
      <4>7. QED BY <1>3, <2>2, <2>3, <2>5, <3>1, <3>3, <4>2, <4>5, <4>6
    <3>4. QED BY <3>2, <3>3
  <2>9. QED BY <2>7, <2>8 DEF Acts
<1>6. QED BY <1>4, <1>5

WakeInv ==
  /\ DestroyInv /\ Ending /\ Owing
  /\ \A t \in Threads : SeenRoom(t)
  /\ \A w \in Waiters : Decided(w) /\ Delivered(w)
  /\ Clean /\ Joined /\ Filled

LEMMA Init_Wake == Init => WakeInv
<1>1. SUFFICES ASSUME Init PROVE WakeInv
  OBVIOUS
<1>2. /\ wseq = [pos |-> 0, g2 |-> 0] /\ g1_start = [pos |-> 0, g2 |-> 0] /\ orig_size = 0
      /\ g_size = [g \in Groups |-> 0] /\ \A t \in Threads : pc[t] = "idle"
      /\ g_signals = [g \in Groups |-> [n |-> 0, closed |-> FALSE]]
  BY <1>1 DEF Init
<1>3. \A t \in Threads : pc[t] \notin Shifting \cup ReadEarlier \cup Unsettled
  BY <1>2 DEF Shifting, ReadEarlier, Unsettled, UserLabels
<1>4. ~Shift /\ Frontier = 0
  BY <1>2, <1>3 DEF Shift, Frontier
<1>5. wseq.pos = 0 /\ wseq.g2 = 0 /\ G1Slot = 1 /\ g_size[0] = 0 /\ g_size[1] = 0 /\ g_signals[0].n = 0
  BY <1>2 DEF Groups, G1Slot
<1>6. Clean
  BY <1>2, <1>5 DEF Clean
<1>7. Filled
  BY <1>5 DEF Filled
<1>8. Joined
  BY <1>4, <1>5, CountTypes DEF Joined
<1>9. \A t \in Threads : SeenRoom(t)
  BY <1>3 DEF SeenRoom
<1>10. \A w \in Waiters : Decided(w) /\ Delivered(w)
  BY <1>2, <1>3, ThreadsAre DEF Decided, Delivered
<1>11. QED BY <1>1, <1>6, <1>7, <1>8, <1>9, <1>10, Init_Destroy, Init_Ending, Init_Owing DEF WakeInv

LEMMA WakeStep ==
  ASSUME Typed, Typed', LockInv, LockInv', WakeInv, [Next]_vars
  PROVE  WakeInv'
<1>1. /\ Mutex /\ SizeInv /\ SizeInv' /\ LocalInv /\ WrefsCount /\ Ahead
  BY DEF LockInv, WakeInv, DestroyInv, LocalInv
<1>2. DestroyInv' /\ Ending' /\ Owing'
  BY DestroyStep, EndingStep, OwingStep DEF WakeInv
<1>3. CASE UNCHANGED vars
  <2>1. \A t \in Threads : SeenRoom(t)'
    BY <1>3 DEF WakeInv, SeenRoom, Seen, Newcomers, Frontier, Shift, vars, condvar
  <2>2. \A w \in Waiters : Decided(w)'
    BY <1>3 DEF WakeInv, Decided, Covered, Frontier, Shift, G1Slot, vars, condvar
  <2>3. Clean' /\ Joined' /\ Filled'
    BY <1>3 DEF WakeInv, Clean, Joined, Filled, Sweeping, Clearing, Members, Member, Newcomers, Frontier, Shift,
                G1Slot, vars, condvar, ghost
  <2>4. \A w \in Waiters : Delivered(w)'
    BY <1>3 DEF WakeInv, Delivered, Served, Covered, Reaching, Balance, Receivers, Receiver, Persists, Left, Flooding,
                Flying, InFlight, Frontier, Shift, G1Slot, vars, condvar, ghost
  <2>5. QED BY <1>2, <2>1, <2>2, <2>3, <2>4 DEF WakeInv
<1>4. CASE \E a \in Threads : Acts(a)
  <2>1. PICK a \in Threads : Acts(a)
    BY <1>4
  <2>2. \A t \in Threads : SeenRoom(t)'
    BY <1>1, <2>1, SeenStep DEF WakeInv
  <2>3. \A w \in Waiters : Decided(w)'
    BY <1>1, <2>1, DecidedStep DEF WakeInv
  <2>4. Clean'
    BY <1>1, <2>1, CleanStep DEF WakeInv
  <2>5. Joined'
    BY <1>1, <2>1, JoinedStep DEF WakeInv
  <2>6. Filled'
    BY <1>1, <2>1, FilledStep DEF WakeInv
  <2>7. \A w \in Waiters : Delivered(w)'
    BY <1>1, <1>2, <2>1, DeliveredStep DEF WakeInv
  <2>8. QED BY <1>2, <2>2, <2>3, <2>4, <2>5, <2>6, <2>7 DEF WakeInv
<1>5. QED BY <1>3, <1>4, NextActs

\* When nobody is on the way, the sleepers of G1 are not more than those still to be signalled.
LEMMA WakeupsAre ==
  ASSUME Typed, LockInv, WakeInv
  PROVE  WakeupsArrive
<1>1. SUFFICES ASSUME Quiet, NEW w \in Waiters, pc[w] = "asleep"
      PROVE  owed[w] # Everything /\ (owed[w] = 0 \/ undone)
  BY DEF WakeupsArrive
<1>2. Mutex /\ SizeInv /\ SleepInv /\ Attended /\ Owing /\ Delivered(w)
  BY DEF LockInv, CountInv, WakeInv
<1>3. ~lock
  BY <1>1, LockMoves DEF LockMovesOn, Quiet
<1>4. \A t \in Threads : pc[t] \in {"idle", "asleep", "destroy_asleep", "destroyed"}
  BY <1>1, <1>2, <1>3, HoldingAre DEF Quiet, Mutex
<1>5. ~(\E t \in Threads : Waker(t)) /\ Rescuers = {} /\ ~(\E t \in Threads : Flooding(t)) /\ Flying(w) = {}
      /\ ~(\E t \in Threads : Reaching(t, w))
  <2>1. ASSUME NEW t \in Threads PROVE ~Waker(t) /\ ~Rescuer(t) /\ ~Flooding(t) /\ ~InFlight(t, w) /\ ~Reaching(t, w)
    BY <1>4 DEF Waker, Rescuer, Thief, Undo, Flooding, InFlight, Reaching, Quiescing, Shifting, ReadEarlier
  <2>2. QED BY <2>1 DEF Rescuers, Flying
<1>6. Cardinality(Rescuers) = 0 /\ Cardinality(Flying(w)) = 0 /\ Left = g_size[G1Slot]
  BY <1>5, FS_EmptySet DEF Left
<1>7. g_size[G1Slot] \in Int /\ g_size[G1Slot] >= 0
  BY <1>2, SlotFacts, SizeFacts
<1>8. Cardinality(Sleepers) <= g_size[G1Slot]
  <2>1. CASE Sleepers = {}
    BY <1>7, <2>1, FS_EmptySet
  <2>2. QED BY <1>2, <1>5, <1>6, <1>7, <2>1, CountTypes DEF Attended
<1>9. ASSUME NEW u \in Waiters, pc[u] \in Unsettled, local[u].seq < Frontier PROVE u \in Sleepers /\ local[u].seq >= g1_start.pos
  <2>1. pc[u] = "asleep"
    BY <1>4, <1>9, ThreadsAre DEF Unsettled, UserLabels, DestroyLabels
  <2>2. local[u].seq >= g1_start.pos
    BY <1>2, <2>1 DEF SleepInv, Current, Dozing
  <2>3. local[u].g = G1Slot
    BY <1>2, <1>9, <2>2 DEF SizeInv, Placed, G1Slot
  <2>4. QED BY <2>1, <2>2, <2>3 DEF Sleepers, Asleep, G
<1>10. Receivers \subseteq Sleepers
  <2>1. \A u \in Waiters : pc[u] \notin Leaving
    BY <1>4, ThreadsAre DEF Leaving
  <2>2. QED BY <1>9, <2>1 DEF Receivers, Receiver
<1>11. Cardinality(Receivers) <= Cardinality(Sleepers)
  BY <1>10, BalanceTypes, SetsAre, Recount_Less
<1>12. pc[w] \in Unsettled \ {"register"}
  BY <1>1 DEF Unsettled, UserLabels
<1>13. ~Covered(w)
  <2>1. SUFFICES ASSUME Covered(w) PROVE FALSE
    OBVIOUS
  <2>2. w \in Sleepers /\ local[w].seq >= g1_start.pos /\ local[w].seq < Frontier
    BY <1>9, <1>12, <2>1 DEF Covered
  <2>3. local[w].seq \in Nat /\ g1_start.pos \in Int
    BY LocalFacts, GroupFacts, ThreadsAre
  <2>4. g_size[G1Slot] = 0
    BY <2>1, <2>2, <2>3 DEF Covered
  <2>5. Cardinality(Sleepers) = 0 /\ IsFiniteSet(Sleepers)
    BY <1>8, <2>4, CountTypes, SetsAre, ThreadSets
  <2>6. QED BY <2>2, <2>5, FS_EmptySet
<1>14. owed[w] # Everything /\ (undone \/ owed[w] = 0 \/ owed[w] <= Balance(w))
  BY <1>2, <1>5, <1>12, <1>13 DEF Delivered, Served
<1>15. Balance(w) <= 0 /\ Balance(w) \in Int
  BY <1>6, <1>7, <1>8, <1>11, BalanceTypes, CountTypes DEF Balance
<1>16. owed[w] \in Int /\ owed[w] >= 0
  BY <1>2, OwedTypes
<1>17. QED BY <1>14, <1>15, <1>16

\* No wake-up is lost.  When every thread is outside or asleep, no waiter sleeps to whom a
\* broadcast was made, and, as long as no signal was added again by __pthread_cond_wait_common's
\* compensation for a stolen one, none for whom more signals were sent than waiters returned:
\* with time-outs, cancellations, spurious wake-ups and signals that overtake one another.
THEOREM NoWakeupLost == Spec => []WakeupsArrive
<1>1. Init => WakeInv
  BY Init_Wake
<1>2. Typed /\ Typed' /\ LockInv /\ LockInv' /\ WakeInv /\ [Next]_vars => WakeInv'
  BY WakeStep
<1>3. Typed /\ LockInv /\ WakeInv => WakeupsArrive
  BY WakeupsAre
<1>4. QED BY <1>1, <1>2, <1>3, LockInvariance, PTL DEF Spec

-----------------------------------------------------------------------------
(* What the destroyer waits for. *)

\* pthread_cond_destroy is called when everybody has been signalled, and that stays so: the
\* signals sent to a waiter that may still sleep are enough for all who may take one.
Promised == Destroyed => \A w \in Waiters : pc[w] \in Unsettled /\ Persists(w) => Signalled(w)

LEMMA TakersAre ==
  /\ Takers \in SUBSET Threads
  /\ \A w \in Waiters : w \in Takers <=> pc[w] \notin Outside /\ Persists(w)
BY ThreadsAre DEF Takers, Waiting, Outside, Persists

LEMMA TakersAreNext ==
  /\ Takers' \in SUBSET Threads
  /\ \A w \in Waiters : w \in Takers' <=> pc'[w] \notin Outside /\ Persists(w)'
BY ThreadsAre DEF Takers, Waiting, Outside, Persists

\* A waiter that acts and may still take a signal could take one before.
LEMMA WaiterTakes ==
  ASSUME Typed, NEW a \in Waiters, WaiterActs(a), ~Wait(a), pc[a] # "register", a \in Takers'
  PROVE  a \in Takers
<1>1. pc'[a] \notin Outside /\ Persists(a)'
  BY TakersAreNext
<1>2. ASSUME pc[a] \in Unsettled \cup Leaving, local'[a].ended = local[a].ended PROVE a \in Takers
  <2>1. Persists(a)
    BY <1>1, <1>2, PersistsKept
  <2>2. pc[a] \notin Outside
    BY <1>2 DEF Outside, Unsettled, UserLabels, Leaving
  <2>3. QED BY <2>1, <2>2, TakersAre
<1>3. CASE Strolls(a) /\ (FutexWait(a) \/ Quietly(a))
  <2>1. pc[a] \in Unsettled /\ local'[a].ended = local[a].ended
    BY <1>3, FutexWaitDoes DEF Strolls, Quietly
  <2>2. QED BY <1>2, <2>1
<1>4. CASE GivesUp(a)
  <2>1. local'[a].ended # ""
    BY <1>4, GiveUpDoes DEF GivesUp
  <2>2. QED BY <1>1, <2>1 DEF Persists
<1>5. CASE pc[a] \in Unsettled /\ pc'[a] = "confirm" /\ Reduced(a)
  BY <1>2, <1>5 DEF Reduced
<1>6. CASE Grab(a) /\ pc'[a] = "check_steal"
  <2>1. pc[a] \in Unsettled /\ local'[a].ended = local[a].ended
    BY <1>6, GrabDoes, ConsiderDoes DEF Alike, Places, Unsettled
  <2>2. QED BY <1>2, <2>1
<1>7. CASE Cancel(a)
  <2>1. pc[a] \in Unsettled /\ local'[a].ended = local[a].ended
    BY <1>7, CancelDoes DEF Reduced, Unsettled
  <2>2. QED BY <1>2, <2>1
<1>8. CASE CheckSteal(a) \/ UndoLoad(a) \/ UndoCheck(a) \/ UndoCas(a) \/ UndoWake(a) \/ CleanupWake(a)
  <2>1. pc[a] \in Leaving /\ local'[a].ended = local[a].ended
    BY <1>8, CheckStealDoes, UndoLoadDoes, UndoCheckDoes, UndoCasDoes, PassOnDoes DEF Looks, Reduced, Leaving
  <2>2. QED BY <1>2, <2>1
<1>9. CASE Confirm(a) \/ WakeDestroyer(a)
  BY <1>1, <1>9, ConfirmDoes, WakeDestroyerDoes DEF Outside
<1>10. CASE pc[a] \in {"drop_ref", "wake_refs"} /\ pc'[a] = "confirm" /\ local'[a].ended = local[a].ended
  BY <1>2, <1>10 DEF Unsettled, UserLabels
<1>11. QED BY <1>3, <1>4, <1>5, <1>6, <1>7, <1>8, <1>9, <1>10, WaiterSteps

\* During the destruction nobody begins to wait.
LEMMA TakersLess ==
  ASSUME Typed, LocalInv, DestroyInv, Destroyed, NEW a \in Threads, Acts(a)
  PROVE  Takers' \subseteq Takers
<1>1. SUFFICES ASSUME NEW w \in Takers' PROVE w \in Takers
  OBVIOUS
<1>2. w \in Waiters /\ w \in Threads /\ pc'[w] \notin Outside /\ Persists(w)' /\ Knows(w)
  BY ThreadsAre, TakersAreNext DEF Takers, Waiting, LocalInv
<1>3. \A v \in Waiters : pc[v] # "register"
  BY DEF DestroyInv, Retiring
<1>4. CASE w # a
  <2>1. Stays(w)
    BY <1>2, <1>4, ActsOthers DEF Others
  <2>2. Persists(w)
    BY <1>2, <2>1, StaysSeq, PersistsKept
  <2>3. pc[w] \notin Outside
    BY <1>2, <2>1 DEF Stays, Outside
  <2>4. QED BY <1>2, <2>2, <2>3, TakersAre
<1>5. CASE w = a /\ SignalActs(a)
  BY <1>2, <1>5, SignalEnds, KnowsPersists, PersistsKept
<1>6. CASE w = a /\ WaiterActs(a)
  <2>1. ~Wait(a)
    BY DEF Wait
  <2>2. QED BY <1>1, <1>2, <1>3, <1>6, <2>1, WaiterTakes
<1>7. QED BY <1>4, <1>5, <1>6 DEF Acts

LEMMA PromisedStep ==
  ASSUME Typed, Typed', LocalInv, DestroyInv, DestroyInv', Owing, Promised, NEW a \in Threads, Acts(a)
  PROVE  Promised'
<1>1. SUFFICES ASSUME Destroyed', NEW w \in Waiters, pc'[w] \in Unsettled, Persists(w)' PROVE Signalled(w)'
  BY DEF Promised
<1>2. Others(a) /\ w \in Threads /\ owed[w] \in Int
  BY ActsOthers, ThreadsAre, OwedTypes
<1>3. CASE ~Destroyed
  <2>1. PICK s \in Signalers : pc'[s] \in DestroyLabels
    BY <1>1 DEF Destroyed, DestroyLabels
  <2>2. pc[s] \notin DestroyLabels /\ s \in Threads
    BY <1>3, ThreadsAre DEF Destroyed, DestroyLabels
  <2>3. s = a
    BY <1>2, <2>1, <2>2 DEF Others, Stays, DestroyLabels
  <2>4. Destroy(a)
    <3>1. SignalActs(a)
      BY <2>1, <2>3, ThreadsAre DEF Acts
    <3>2. CASE \E all \in Kinds : Call(a, all)
      BY <2>1, <2>3, <3>2, CallDoes, KindsAre DEF DestroyLabels
    <3>3. CASE CheckRefs(a) \/ Lock(a) \/ AddFirst(a) \/ WakeFirst(a) \/ Add(a) \/ WakeSignalled(a) \/ Quiesce(a)
      BY <2>1, <2>3, <3>3, CheckRefsDoes, LockDoes, AddDoes, WakeFirstDoes, WakeSignalledDoes, QuiesceDoes, BackLabels
         DEF Done, DestroyLabels
    <3>4. CASE QuiesceRefs(a) \/ QuiesceRequest(a) \/ QuiesceWait(a) \/ Close(a) \/ Reopen(a) \/ Switch(a)
      BY <2>1, <2>3, <3>4, QuiesceRefsDoes, QuiesceRequestDoes, QuiesceWaitDoes, CloseDoes, ReopenDoes, SwitchDoes,
         BackLabels DEF Done, DestroyLabels
    <3>5. CASE DestroyWait(a) \/ DestroyLoad(a)
      BY <2>2, <2>3, <3>5 DEF DestroyWait, DestroyLoad, DestroyLabels
    <3>6. QED BY <3>1, <3>2, <3>3, <3>4, <3>5 DEF SignalActs, SignalStep
  <2>5. \A v \in Waiters : pc'[v] = pc[v] /\ local'[v] = local[v]
    BY <2>3, <2>4, DestroyDoes, ThreadsAre DEF Only
  <2>6. Takers' = Takers /\ UNCHANGED owed
    BY <2>4, <2>5 DEF Takers, Waiting, Destroy, ghost
  <2>7. NoneBlocked /\ pc[w] \in Unsettled /\ local[w].ended = ""
    BY <1>1, <2>4, <2>5 DEF Destroy, Persists
  <2>8. Signalled(w)
    BY <2>7 DEF NoneBlocked, Unsettled, UserLabels
  <2>9. QED BY <2>6, <2>8 DEF Signalled
<1>4. CASE Destroyed
  <2>1. Takers' \subseteq Takers
    BY <1>4, TakersLess
  <2>2. pc'[w] # "register"
    BY <1>1 DEF DestroyInv, Retiring
  <2>3. w \in Takers
    <3>1. pc'[w] \notin Outside
      BY <1>1, <2>2 DEF Outside, Unsettled, UserLabels
    <3>2. QED BY <1>1, <2>1, <3>1, TakersAreNext
  <2>4. Persists(w)
    BY <2>3, TakersAre
  <2>5. pc[w] \in Unsettled
    <3>1. ~Wait(w)
      BY <1>4 DEF Wait
    <3>2. QED BY <1>1, <3>1, SeqKept
  <2>6. Signalled(w)
    BY <1>4, <2>4, <2>5 DEF Promised
  <2>7. Cardinality(Takers') <= Cardinality(Takers) /\ Cardinality(Takers') \in Nat /\ Cardinality(Takers) \in Nat
    BY <2>1, TakersAre, TakersAreNext, Recount_Less
  <2>8. CASE owed'[w] = owed[w]
    BY <1>2, <2>6, <2>7, <2>8 DEF Signalled, Everything
  <2>9. CASE a \in Waiters /\ Confirm(a)
    <3>1. pc[a] = "confirm" /\ pc'[a] \in {"idle", "wake_destroyer"}
      BY <2>9, ConfirmDoes
    <3>2. w # a
      BY <2>5, <3>1 DEF Unsettled, UserLabels
    <3>3. CASE owed'[w] = owed[w] - 1 /\ Persists(a) /\ owed[w] \in 1 .. MaxCalls
      <4>1. a \in Takers
        BY <2>9, <3>1, <3>3, TakersAre DEF Outside
      <4>2. a \notin Takers'
        BY <2>9, <3>1, TakersAreNext DEF Outside
      <4>3. Takers' \subseteq Takers \ {a} /\ Takers \ {a} \in SUBSET Threads
        BY <2>1, <4>2, TakersAre
      <4>4. Cardinality(Takers \ {a}) = Cardinality(Takers) - 1
        BY <4>1, TakersAre, ThreadSets, FS_RemoveElement
      <4>5. Cardinality(Takers') <= Cardinality(Takers) - 1
        BY <4>3, <4>4, TakersAreNext, Recount_Less
      <4>6. owed[w] # Everything
        BY <3>3, CondVarAssumption DEF Everything
      <4>7. owed[w] >= Cardinality(Takers)
        BY <2>6, <4>6 DEF Signalled
      <4>8. QED BY <1>2, <2>7, <3>3, <4>5, <4>7 DEF Signalled
    <3>4. QED BY <2>8, <2>9, <3>2, <3>3, ConfirmOwes
  <2>10. CASE ~(a \in Waiters /\ Confirm(a))
    <3>1. ~\E all \in Kinds : Call(a, all)
      BY <1>4 DEF Call
    <3>2. UNCHANGED owed
      BY <2>10, <3>1, WaiterFixed, SignalFixed DEF Acts
    <3>3. QED BY <2>8, <3>2
  <2>11. QED BY <2>9, <2>10
<1>5. QED BY <1>3, <1>4

\* When nobody is on the way, the waiter that the destroyer sleeps for is asleep itself, and
\* has been signalled.
LEMMA DestroyerWoken ==
  ASSUME Typed, LockInv, WakeInv, Promised
  PROVE  DestroyedAfterUse
<1>1. DestroyInv /\ WrefsCount /\ LocalInv /\ Mutex /\ Owing
  BY DEF WakeInv, DestroyInv, LockInv
<1>2. ASSUME NEW t \in Signalers, pc[t] = "destroyed", NEW w \in Waiters
      PROVE  pc[w] \in {"idle", "wake_destroyer"}
  <2>1. wrefs.n = 0 /\ pc[w] # "register"
    BY <1>1, <1>2 DEF DestroyInv, Destroying, Destroyed, Retiring
  <2>2. QED BY <1>1, <2>1, RegisteredSome DEF Outside
<1>3. ASSUME NEW t \in Signalers, pc[t] = "destroy_asleep"
      PROVE  \E w \in Waiters : pc[w] = "wake_destroyer" \/ pc[w] \notin Outside
  <2>1. wrefs.n > 0 \/ \E w \in Waiters : pc[w] = "wake_destroyer"
    BY <1>1, <1>3 DEF DestroyInv, Destroying
  <2>2. QED BY <1>1, <2>1, RegisteredSome
<1>4. ASSUME NEW t \in Signalers, pc[t] = "destroy_asleep", Quiet PROVE undone
  <2>1. PICK w \in Waiters : pc[w] = "wake_destroyer" \/ pc[w] \notin Outside
    BY <1>3, <1>4
  <2>2. w \in Threads /\ pc[w] \in {"idle", "asleep", "quiesce_asleep", "destroy_asleep", "destroyed"}
    BY <1>4, ThreadsAre DEF Quiet
  <2>3. ~lock
    BY <1>4, LockMoves DEF LockMovesOn, Quiet
  <2>4. pc[w] \notin Holding /\ pc[w] \in WaiterLabels
    BY <1>1, <2>2, <2>3 DEF Mutex, Typed, Own
  <2>5. pc[w] = "asleep"
    BY <2>1, <2>2, <2>4 DEF Outside, Holding, Quiescing, WaiterLabels, Unsettled, UserLabels, Leaving, SignalLabels,
       Shifting
  <2>6. pc[w] \in Unsettled /\ ~GivingUp(w) /\ pc[w] \notin Outside
    BY <2>5 DEF Unsettled, UserLabels, GivingUp, Outside
  <2>7. Persists(w)
    BY <1>1, <2>6, KnowsPersists DEF LocalInv
  <2>8. Signalled(w)
    BY <1>4, <2>6, <2>7 DEF Promised, Destroyed
  <2>9. Cardinality(Takers) \in Nat /\ Cardinality(Takers) # 0
    <3>1. w \in Takers /\ IsFiniteSet(Takers)
      BY <2>6, <2>7, TakersAre, ThreadSets
    <3>2. QED BY <3>1, FS_EmptySet, FS_CardinalityType
  <2>10. owed[w] # Everything /\ (owed[w] = 0 \/ undone)
    BY <1>4, <2>5, WakeupsAre DEF WakeupsArrive
  <2>11. QED BY <2>8, <2>9, <2>10 DEF Signalled
<1>5. QED BY <1>2, <1>3, <1>4 DEF DestroyedAfterUse, Outside

\* The destruction is safe and ends.  pthread_cond_destroy may be called as soon as every waiter
\* has been signalled, while they are still on their way out, give up or fall asleep once more.
\* It returns only when none of them touches the condition variable any more, and it never
\* sleeps for a waiter that nobody wakes, unless that waiter lost its signal to the compensation
\* for a stolen one.
THEOREM SafeDestruction == Spec => []DestroyedAfterUse
<1>1. Init => WakeInv /\ Promised
  <2>1. ASSUME Init PROVE ~Destroyed
    BY <2>1, ThreadsAre DEF Init, Destroyed
  <2>2. QED BY <2>1, Init_Wake DEF Promised
<1>2. Typed /\ Typed' /\ LockInv /\ LockInv' /\ WakeInv /\ Promised /\ [Next]_vars => WakeInv' /\ Promised'
  <2>1. SUFFICES ASSUME Typed, Typed', LockInv, LockInv', WakeInv, Promised, [Next]_vars PROVE WakeInv' /\ Promised'
    OBVIOUS
  <2>2. WakeInv'
    BY <2>1, WakeStep
  <2>3. CASE UNCHANGED vars
    <3>1. UNCHANGED <<pc, local, owed>>
      BY <2>3 DEF vars, ghost
    <3>2. Takers' = Takers /\ Destroyed' = Destroyed
      BY <3>1 DEF Takers, Waiting, Destroyed
    <3>3. \A w \in Waiters : Signalled(w) => Signalled(w)'
      BY <3>1, <3>2 DEF Signalled
    <3>4. QED BY <2>1, <2>2, <3>1, <3>2, <3>3 DEF Promised, Persists
  <2>4. CASE \E a \in Threads : Acts(a)
    BY <2>1, <2>2, <2>4, PromisedStep DEF WakeInv, LockInv
  <2>5. QED BY <2>1, <2>2, <2>3, <2>4, NextActs
<1>3. Typed /\ LockInv /\ WakeInv /\ Promised => DestroyedAfterUse
  BY DestroyerWoken
<1>4. QED BY <1>1, <1>2, <1>3, LockInvariance, PTL DEF Spec

=============================================================================
