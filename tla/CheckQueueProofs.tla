-------------------------- MODULE CheckQueueProofs --------------------------
(***************************************************************************)
(* CheckQueue counts and joins rightly for any number of workers, checks   *)
(* and batch size.                                                         *)
(*                                                                         *)
(* Every turn of Loop first settles the batch of the turn before and then  *)
(* returns, sleeps or takes another.  LoopKeeps treats the second half     *)
(* once, from the values the first half leaves; the three actions that     *)
(* enter Loop differ only in those.                                        *)
(***************************************************************************)
EXTENDS CheckQueue, FiniteSetTheorems, TLAPS

Pending == queue \cup Held

\* A check is in one place.
Apart ==
  /\ \A t \in Thread : batch[t] \cap queue = {}
  /\ \A t, u \in Thread : t # u => batch[t] \cap batch[u] = {}

\* nIdle and nTotal count the threads that sleep, and that are in Loop.
CountersExact == nIdle = Cardinality(Sleeping) /\ nTotal = Cardinality(Counted)

\* Only a working thread has a batch, and only the master is outside of Loop; a
\* batch is skipped only if the result is already false.
ThreadsOK ==
  /\ \A t \in Thread : pc[t] = "work" <=> batch[t] # {}
  /\ \A t \in Thread : pc[t] = "work" /\ fOk[t] = FALSE => fAllOk = FALSE
  /\ \A w \in Worker : pc[w] \notin {"idle", "open"}

\* fAllOk is the conjunction of the checks that are settled; the rest is queued
\* or held.  Wait() hands it over and resets it.
ResultOK ==
  /\ Pending \subseteq added
  /\ pc[Master] # "idle" => (fAllOk = TRUE <=> (added \ Pending) \cap failing = {})
  /\ pc[Master] = "idle" =>
       fAllOk = TRUE /\ Pending = {} /\ (result = TRUE <=> added \cap failing = {})

IInv == TypeOK /\ TodoExact /\ CountersExact /\ ThreadsOK /\ ResultOK

-----------------------------------------------------------------------------
(* Finite sets of checks and of threads.                                   *)

\* Sets of threads and sets of checks are finite and have a natural size.
LEMMA Finite ==
  /\ IsFiniteSet(Thread)
  /\ \A S \in SUBSET Thread : IsFiniteSet(S) /\ Cardinality(S) \in Nat
  /\ \A S \in SUBSET Check : IsFiniteSet(S) /\ Cardinality(S) \in Nat
<1>1. IsFiniteSet(Thread)
  BY CheckQueueAssumption, FS_AddElement DEF Thread
<1>2. \A S \in SUBSET Thread : IsFiniteSet(S) /\ Cardinality(S) \in Nat
  BY <1>1, FS_Subset, FS_CardinalityType
<1>3. \A S \in SUBSET Check : IsFiniteSet(S) /\ Cardinality(S) \in Nat
  BY CheckQueueAssumption, FS_Subset, FS_CardinalityType
<1>4. QED BY <1>1, <1>2, <1>3

\* Removing a part reduces the count by the size of the part.
LEMMA Removed ==
  ASSUME NEW S \in SUBSET Check, NEW B \in SUBSET S
  PROVE  Cardinality(S \ B) = Cardinality(S) - Cardinality(B)
<1>1. IsFiniteSet(S \ B) /\ IsFiniteSet(B) /\ Cardinality(S \ B) \in Nat /\ Cardinality(B) \in Nat
  BY Finite
<1>2. (S \ B) \cup B = S /\ (S \ B) \cap B = {}
  OBVIOUS
<1>3. Cardinality(S) = Cardinality(S \ B) + Cardinality(B) - Cardinality({})
  BY <1>1, <1>2, FS_Union
<1>4. QED BY <1>1, <1>3, FS_EmptySet

\* BatchCount is at least one, so a thread that takes a batch has work.
LEMMA BatchNotEmpty ==
  ASSUME TypeOK, NEW total \in Nat, NEW idle \in Nat,
         NEW b \in kSubset(BatchCount(total, idle), queue)
  PROVE  b \in SUBSET queue /\ b # {}
<1>1. b \in SUBSET queue /\ Cardinality(b) = BatchCount(total, idle)
  BY DEF kSubset
<1>2. BatchCount(total, idle) >= 1
  <2>1. Cardinality(queue) \in Nat
    BY Finite DEF TypeOK
  <2>2. Cardinality(queue) \div (total + idle + 1) \in Int
    BY <2>1
  <2>3. QED BY <2>2, CheckQueueAssumption DEF BatchCount
<1>3. QED BY <1>1, <1>2, FS_EmptySet

-----------------------------------------------------------------------------
(* The second half of a turn of Loop.                                      *)

\* What the first half of a turn leaves to the second: thread t is counted in
\* total, not in idle, its batch is settled, and p differs from pc only in that a
\* sleeping thread may be woken.
Settled(t, todo, total, idle, allOk, p) ==
  /\ pc[t] \in {"start", "woken", "work"}
  /\ todo = Cardinality(Pending \ batch[t])
  /\ total = Cardinality(Counted \cup {t})
  /\ idle = Cardinality(Sleeping \ {t})
  /\ p \in [Thread -> {"idle", "open", "start", "wait", "woken", "work", "gone"}]
  /\ \A u \in Thread : p[u] = pc[u] \/ (pc[u] = "wait" /\ p[u] = "woken")
  /\ allOk \in BOOLEAN
  /\ \A u \in Thread \ {t} : pc[u] = "work" /\ fOk[u] = FALSE => allOk = FALSE
  /\ pc[Master] # "idle" =>
       (allOk = TRUE <=> (added \ (Pending \ batch[t])) \cap failing = {})
  /\ pc[Master] = "idle" => allOk = TRUE

\* From there, returning, sleeping and taking a batch keep the invariant.
LEMMA LoopKeeps ==
  ASSUME IInv, NEW t \in Thread, NEW todo, NEW total, NEW idle, NEW allOk, NEW p,
         Settled(t, todo, total, idle, allOk, p),
         Loop(t, todo, total, idle, allOk, p)
  PROVE  IInv'
<1> DEFINE Left == Pending \ batch[t]
<1> USE DEF IInv
<1>1. /\ Sleeping \in SUBSET Thread /\ Counted \in SUBSET Thread
      /\ Pending \in SUBSET Check /\ Left \in SUBSET Check
  BY DEF Sleeping, Counted, Pending, Held, TypeOK
<1>2. todo \in Nat /\ total \in Nat /\ idle \in Nat
  BY <1>1, Finite DEF Settled
<1>3. /\ Cardinality((Sleeping \ {t}) \cup {t}) = idle + 1
      /\ Cardinality((Counted \cup {t}) \ {t}) = total - 1
  <2>1. IsFiniteSet(Sleeping \ {t}) /\ IsFiniteSet(Counted \cup {t})
    BY <1>1, Finite
  <2>2. QED BY ZenonT(40), <2>1, FS_AddElement, FS_RemoveElement DEF Settled
<1>4. ASSUME NEW b \in SUBSET queue, queue' = queue \ b, batch' = [batch EXCEPT ![t] = b]
      PROVE  Pending' = Left /\ Apart'
  <2>1. batch'[t] = b /\ \A u \in Thread \ {t} : batch'[u] = batch[u]
    BY <1>4 DEF TypeOK
  <2>2. \A u \in Thread : batch[u] \cap queue = {} /\ (u # t => batch[u] \cap batch[t] = {})
    BY DEF TodoExact
  <2>3. Pending' = Left
    BY <1>4, <2>1, <2>2 DEF Pending, Held
  <2>4. Apart'
    <3>1. \A u \in Thread : batch'[u] \cap queue' = {}
      BY <1>4, <2>1, <2>2
    <3>2. ASSUME NEW u \in Thread, NEW v \in Thread, u # v
          PROVE  batch'[u] \cap batch'[v] = {}
      <4>1. CASE u # t /\ v # t
        BY <3>2, <4>1, <2>1 DEF TodoExact
      <4>2. CASE u = t \/ v = t
        BY <3>2, <4>2, <2>1, <2>2, <1>4
      <4>3. QED BY <4>1, <4>2
    <3>3. QED BY <3>1, <3>2 DEF Apart
  <2>5. QED BY <2>3, <2>4
\* Whatever the turn does, t ends at some place and the others are where p has them.
<1>5. ASSUME NEW place \in {"idle", "wait", "work"}, pc' = [p EXCEPT ![t] = place]
      PROVE  /\ pc' \in [Thread -> {"idle", "open", "start", "wait", "woken", "work", "gone"}]
             /\ pc'[t] = place
             /\ \A u \in Thread \ {t} :
                  /\ pc'[u] = "work" <=> pc[u] = "work"
                  /\ pc'[u] = "idle" <=> pc[u] = "idle"
                  /\ pc'[u] = "open" <=> pc[u] = "open"
             /\ Sleeping' = IF place = "wait" THEN (Sleeping \ {t}) \cup {t} ELSE Sleeping \ {t}
             /\ Counted' = IF place = "idle" THEN (Counted \cup {t}) \ {t} ELSE Counted \cup {t}
  <2>1. /\ pc' \in [Thread -> {"idle", "open", "start", "wait", "woken", "work", "gone"}]
        /\ pc'[t] = place
        /\ \A u \in Thread \ {t} : pc'[u] = pc[u] \/ (pc[u] = "wait" /\ pc'[u] = "woken")
    BY <1>5 DEF Settled
  <2>2. \A u \in Thread \ {t} : pc'[u] \in {"wait", "woken", "gone"} <=> pc[u] \in {"wait", "woken", "gone"}
    BY <2>1
  <2>3. Sleeping' = IF place = "wait" THEN (Sleeping \ {t}) \cup {t} ELSE Sleeping \ {t}
    BY <2>1, <2>2 DEF Sleeping
  <2>4. \A u \in Thread \ {t} : pc'[u] = "work" <=> pc[u] = "work"
    BY <2>1
  <2>5. Counted' = IF place = "idle" THEN (Counted \cup {t}) \ {t} ELSE Counted \cup {t}
    BY <2>1, <2>2, <2>4 DEF Counted, Sleeping
  <2>6. QED BY <2>1, <2>3, <2>4, <2>5
<1>6. nTodo' = todo /\ UNCHANGED <<added, failing>>
  BY DEF Loop
<1>7. CASE Return(t, todo, total, idle, allOk, p) /\ batch' = [batch EXCEPT ![t] = {}]
  <2>1. queue' = queue \ {} /\ queue = {} /\ t = Master /\ pc' = [p EXCEPT ![t] = "idle"]
    BY <1>7 DEF Return
  <2>2. Pending' = Left /\ Apart'
    BY ZenonT(40), <2>1, <1>7, <1>4
  <2>3. Left = {}
    BY ZenonT(40), <1>7, <1>1, Finite, FS_EmptySet DEF Return, Settled
  <2>4. CountersExact' /\ nIdle' \in Nat /\ nTotal' \in Nat
    <3>1. Sleeping' = Sleeping \ {t} /\ Counted' = (Counted \cup {t}) \ {t}
      BY <2>1, <1>5
    <3>2. Cardinality((Counted \cup {t}) \ {t}) \in Nat
      BY <1>1, Finite
    <3>3. QED BY <1>7, <3>1, <3>2, <1>2, <1>3 DEF Return, CountersExact, Settled
  <2>5. TypeOK'
    BY <1>7, <2>1, <2>4, <1>2, <1>5, <1>6 DEF Return, TypeOK, Settled
  <2>6. TodoExact'
    BY ZenonT(40), <2>2, <1>6 DEF TodoExact, Apart, Pending, Settled
  <2>7. ThreadsOK'
    <3>1. \A u \in Thread : batch'[u] = {}
      BY <2>2, <2>3 DEF Pending, Held
    <3>2. pc'[t] = "idle" /\ \A u \in Thread \ {t} : pc'[u] = "work" <=> pc[u] = "work"
      BY <2>1, <1>5
    <3>3. \A u \in Thread \ {t} : batch'[u] = batch[u]
      BY <1>7 DEF TypeOK
    <3>4. \A u \in Thread : pc'[u] # "work"
      BY <3>1, <3>2, <3>3 DEF ThreadsOK
    <3>5. \A w \in Worker : pc'[w] \notin {"idle", "open"}
      BY <2>1, <1>5, CheckQueueAssumption DEF ThreadsOK, Thread
    <3>6. QED BY <3>1, <3>4, <3>5 DEF ThreadsOK
  <2>8. ResultOK'
    BY <1>7, <2>1, <2>2, <2>3, <1>5, <1>6 DEF Return, ResultOK, Settled
  <2>9. QED BY <2>4, <2>5, <2>6, <2>7, <2>8
<1>8. CASE Sleep(t, todo, total, idle, allOk, p) /\ batch' = [batch EXCEPT ![t] = {}]
  <2>1. queue' = queue \ {} /\ pc' = [p EXCEPT ![t] = "wait"] /\ fOk' = fOk /\ result' = result
        /\ fAllOk' = allOk
    BY <1>8 DEF Sleep
  <2>2. Pending' = Left /\ Apart'
    BY ZenonT(40), <2>1, <1>8, <1>4
  <2>4. CountersExact' /\ nIdle' \in Nat /\ nTotal' \in Nat
    <3>1. Sleeping' = (Sleeping \ {t}) \cup {t} /\ Counted' = Counted \cup {t}
      BY <2>1, <1>5
    <3>2. QED BY <1>8, <3>1, <1>2, <1>3 DEF Sleep, CountersExact, Settled
  <2>5. TypeOK'
    BY <1>8, <2>1, <2>4, <1>2, <1>5, <1>6 DEF Sleep, TypeOK, Settled
  <2>6. TodoExact'
    BY ZenonT(40), <2>2, <1>6 DEF TodoExact, Apart, Pending, Settled
  <2>7. ThreadsOK'
    <3>1. /\ pc'[t] = "wait"
          /\ \A u \in Thread \ {t} :
               /\ pc'[u] = "work" <=> pc[u] = "work"
               /\ pc'[u] \in {"idle", "open"} => pc[u] \in {"idle", "open"}
      BY <2>1, <1>5
    <3>2. \A u \in Thread \ {t} : batch'[u] = batch[u] /\ fOk'[u] = fOk[u]
      BY <1>8, <2>1 DEF TypeOK
    <3>3. \A u \in Thread : pc'[u] = "work" <=> batch'[u] # {}
      BY <1>8, <3>1, <3>2, <2>1 DEF ThreadsOK, TypeOK
    <3>4. \A u \in Thread : pc'[u] = "work" /\ fOk'[u] = FALSE => fAllOk' = FALSE
      BY <2>1, <3>1, <3>2 DEF TypeOK, Settled
    <3>5. \A w \in Worker : pc'[w] \notin {"idle", "open"}
      BY <3>1 DEF ThreadsOK, Thread
    <3>6. QED BY <3>3, <3>4, <3>5 DEF ThreadsOK
  <2>8. ResultOK'
    BY <2>1, <2>2, <1>5, <1>6 DEF ResultOK, Settled, Thread, ThreadsOK
  <2>9. QED BY <2>4, <2>5, <2>6, <2>7, <2>8
<1>9. ASSUME NEW b \in kSubset(BatchCount(total, idle), queue),
             Take(t, todo, total, idle, allOk, p, b), batch' = [batch EXCEPT ![t] = b]
      PROVE  IInv'
  <2>1. queue' = queue \ b /\ pc' = [p EXCEPT ![t] = "work"] /\ result' = result
        /\ fOk' = [fOk EXCEPT ![t] = allOk] /\ fAllOk' = allOk
    BY <1>9 DEF Take
  <2>2. b \in SUBSET queue /\ b # {}
    BY <1>2, BatchNotEmpty
  <2>3. Pending' = Left /\ Apart'
    BY ZenonT(40), <2>1, <2>2, <1>9, <1>4
  <2>4. CountersExact' /\ nIdle' \in Nat /\ nTotal' \in Nat
    BY ZenonT(40), <1>9, <2>1, <1>2, <1>3, <1>5 DEF Take, CountersExact, Settled
  <2>5. TypeOK'
    BY <1>9, <2>1, <2>2, <2>4, <1>2, <1>5, <1>6 DEF Take, TypeOK, Settled
  <2>6. TodoExact'
    BY ZenonT(30), <2>3, <1>6 DEF TodoExact, Apart, Pending, Settled
  <2>7. ThreadsOK'
    <3>1. /\ pc'[t] = "work"
          /\ \A u \in Thread \ {t} :
               /\ pc'[u] = "work" <=> pc[u] = "work"
               /\ pc'[u] \in {"idle", "open"} => pc[u] \in {"idle", "open"}
      BY <2>1, <1>5
    <3>2. \A u \in Thread \ {t} : batch'[u] = batch[u] /\ fOk'[u] = fOk[u]
      BY <1>9, <2>1 DEF TypeOK
    <3>3. \A u \in Thread : pc'[u] = "work" <=> batch'[u] # {}
      BY <1>9, <3>1, <3>2, <2>1, <2>2 DEF ThreadsOK, TypeOK
    <3>4. \A u \in Thread : pc'[u] = "work" /\ fOk'[u] = FALSE => fAllOk' = FALSE
      BY <2>1, <3>1, <3>2 DEF TypeOK, Settled
    <3>5. \A w \in Worker : pc'[w] \notin {"idle", "open"}
      BY <3>1 DEF ThreadsOK, Thread
    <3>6. QED BY <3>3, <3>4, <3>5 DEF ThreadsOK
  <2>8. ResultOK'
    BY <2>1, <2>2, <2>3, <1>5, <1>6 DEF ResultOK, Settled, Thread, ThreadsOK, Pending
  <2>9. QED BY <2>4, <2>5, <2>6, <2>7, <2>8
<1>10. QED BY <1>7, <1>8, <1>9 DEF Loop

-----------------------------------------------------------------------------
(* Every step.                                                             *)

\* The first turn, a turn after cond.wait and a turn after a batch all leave
\* Settled values to the rest of Loop.
LEMMA StepKeeps ==
  ASSUME IInv, NEW t \in Thread, Step(t)
  PROVE  IInv'
<1> USE DEF IInv
<1>1. /\ Sleeping \in SUBSET Thread /\ Counted \in SUBSET Thread
      /\ Pending \in SUBSET Check /\ batch[t] \in SUBSET Pending
  BY DEF Sleeping, Counted, Pending, Held, TypeOK
<1>2. IsFiniteSet(Sleeping) /\ IsFiniteSet(Counted)
  BY <1>1, Finite
<1>3. CASE Enter(t)
  <2>1. pc[t] = "start" /\ t \notin Sleeping /\ t \notin Counted /\ batch[t] = {}
    BY <1>3 DEF Enter, Sleeping, Counted, ThreadsOK
  <2>2. Pending \ batch[t] = Pending /\ Sleeping \ {t} = Sleeping
    BY <2>1
  <2>3. Cardinality(Counted \cup {t}) = nTotal + 1
    BY ZenonT(40), <2>1, <1>2, FS_AddElement DEF CountersExact
  <2>4. Settled(t, nTodo, nTotal + 1, nIdle, fAllOk, pc)
    BY ZenonT(40), <2>1, <2>2, <2>3 DEF Settled, TypeOK, TodoExact, CountersExact, ThreadsOK, ResultOK, Pending
  <2>5. QED BY <1>3, <2>4, LoopKeeps DEF Enter
<1>4. CASE Resume(t)
  <2>1. pc[t] = "woken" /\ t \in Sleeping /\ t \in Counted /\ batch[t] = {}
    BY <1>4 DEF Resume, Sleeping, Counted, ThreadsOK
  <2>2. Pending \ batch[t] = Pending /\ Counted \cup {t} = Counted
    BY <2>1
  <2>3. Cardinality(Sleeping \ {t}) = nIdle - 1
    BY ZenonT(40), <2>1, <1>2, FS_RemoveElement DEF CountersExact
  <2>4. Settled(t, nTodo, nTotal, nIdle - 1, fAllOk, pc)
    BY ZenonT(40), <2>1, <2>2, <2>3 DEF Settled, TypeOK, TodoExact, CountersExact, ThreadsOK, ResultOK, Pending
  <2>5. QED BY <1>4, <2>4, LoopKeeps DEF Resume
<1>5. CASE Finish(t)
  <2>1. pc[t] = "work" /\ t \notin Sleeping /\ t \in Counted /\ batch[t] # {}
    BY <1>5 DEF Finish, Sleeping, Counted, ThreadsOK
  <2>2. Counted \cup {t} = Counted /\ Sleeping \ {t} = Sleeping
    BY <2>1
  <2>3. Cardinality(Pending \ batch[t]) = TodoAfter(t)
    BY <1>1, Removed DEF TodoAfter, TodoExact, Pending
  <2>4. pc[Master] # "idle"
    BY <1>1, <2>1 DEF ResultOK
  <2>5. AllOkAfter(t) \in BOOLEAN
    BY DEF AllOkAfter, TypeOK
  <2>6. AllOkAfter(t) = TRUE <=> fAllOk = TRUE /\ batch[t] \cap failing = {}
    BY <2>1 DEF AllOkAfter, ThreadsOK, TypeOK
  <2>7. added \ (Pending \ batch[t]) = (added \ Pending) \cup batch[t]
    BY <1>1 DEF ResultOK
  <2>8. AllOkAfter(t) = TRUE <=> (added \ (Pending \ batch[t])) \cap failing = {}
    BY <2>4, <2>6, <2>7 DEF ResultOK
  <2>9. \A u \in Thread \ {t} : pc[u] = "work" /\ fOk[u] = FALSE => AllOkAfter(t) = FALSE
    BY <2>5, <2>6 DEF ThreadsOK
  <2>10. /\ NotifyMaster(t, TodoAfter(t)) \in [Thread -> {"idle", "open", "start", "wait", "woken", "work", "gone"}]
         /\ \A u \in Thread : \/ NotifyMaster(t, TodoAfter(t))[u] = pc[u]
                              \/ pc[u] = "wait" /\ NotifyMaster(t, TodoAfter(t))[u] = "woken"
    BY DEF NotifyMaster, TypeOK, Thread
  <2>11. Settled(t, TodoAfter(t), nTotal, nIdle, AllOkAfter(t), NotifyMaster(t, TodoAfter(t)))
    BY <2>1, <2>2, <2>3, <2>4, <2>5, <2>8, <2>9, <2>10 DEF Settled, CountersExact
  <2>12. QED BY <1>5, <2>11, LoopKeeps DEF Finish
<1>6. QED BY <1>3, <1>4, <1>5 DEF Step

\* Threads that wake or are interrupted go on being counted as sleeping.
LEMMA AsleepKeeps ==
  ASSUME IInv, pc' \in [Thread -> {"idle", "open", "start", "wait", "woken", "work", "gone"}],
         \A t \in Thread : \/ pc'[t] = pc[t]
                           \/ /\ pc[t] \in {"wait", "woken", "gone"}
                              /\ pc'[t] \in {"wait", "woken", "gone"},
         UNCHANGED <<nIdle, nTotal, batch>>
  PROVE  /\ CountersExact' /\ Held' = Held
         /\ \A t \in Thread : /\ pc'[t] = "work" <=> pc[t] = "work"
                              /\ pc'[t] = "idle" <=> pc[t] = "idle"
                              /\ pc'[t] = "open" <=> pc[t] = "open"
<1>1. \A t \in Thread : /\ pc'[t] = "work" <=> pc[t] = "work"
                        /\ pc'[t] = "idle" <=> pc[t] = "idle"
                        /\ pc'[t] = "open" <=> pc[t] = "open"
                        /\ pc'[t] \in {"wait", "woken", "gone"} <=> pc[t] \in {"wait", "woken", "gone"}
  OBVIOUS
<1>2. Sleeping' = Sleeping /\ Counted' = Counted
  BY <1>1 DEF Sleeping, Counted
<1>3. QED BY <1>1, <1>2 DEF IInv, CountersExact, Held

\* The inductive invariant: every counter and flag of CCheckQueue is what the
\* threads make it, at every release of the mutex.
THEOREM Invariance == Spec => []IInv
<1>1. Init => IInv
  <2> SUFFICES ASSUME Init PROVE IInv
    OBVIOUS
  <2>1. Sleeping = {} /\ Counted = {} /\ Held = {} /\ Pending = {}
    BY DEF Init, Sleeping, Counted, Held, Pending
  <2>2. TypeOK
    BY DEF Init, TypeOK
  <2>3. TodoExact /\ CountersExact
    BY <2>1, FS_EmptySet DEF Init, TodoExact, CountersExact, Pending
  <2>4. ThreadsOK /\ ResultOK
    BY <2>1, CheckQueueAssumption DEF Init, ThreadsOK, ResultOK, Thread
  <2>5. QED BY <2>2, <2>3, <2>4 DEF IInv
<1>2. IInv /\ [Next]_vars => IInv'
  <2> SUFFICES ASSUME IInv, [Next]_vars PROVE IInv'
    OBVIOUS
  <2> USE DEF IInv
  <2>1. CASE \E t \in Thread : Step(t)
    BY <2>1, StepKeeps
  <2>2. ASSUME NEW t \in Thread, Wake(t) \/ (t \in Worker /\ Interrupt(t))
        PROVE  IInv'
    <3>1. /\ pc' \in [Thread -> {"idle", "open", "start", "wait", "woken", "work", "gone"}]
          /\ \A u \in Thread : \/ pc'[u] = pc[u]
                               \/ /\ pc[u] \in {"wait", "woken", "gone"}
                                  /\ pc'[u] \in {"wait", "woken", "gone"}
      BY <2>2 DEF Wake, Interrupt, TypeOK
    <3>2. UNCHANGED <<queue, nIdle, nTotal, fAllOk, nTodo, batch, fOk, added, failing, result>>
      BY <2>2 DEF Wake, Interrupt, control
    <3>3. /\ CountersExact' /\ Held' = Held
          /\ \A u \in Thread : /\ pc'[u] = "work" <=> pc[u] = "work"
                               /\ pc'[u] = "idle" <=> pc[u] = "idle"
                               /\ pc'[u] = "open" <=> pc[u] = "open"
      BY <3>1, <3>2, AsleepKeeps
    <3>4. TypeOK' /\ TodoExact'
      BY <3>1, <3>2, <3>3 DEF TypeOK, TodoExact
    <3>5. ThreadsOK'
      BY <3>2, <3>3 DEF ThreadsOK, Thread
    <3>6. ResultOK'
      BY <3>2, <3>3 DEF ResultOK, Pending, Thread
    <3>7. QED BY <3>3, <3>4, <3>5, <3>6
  <2>3. CASE Construct
    <3>1. pc' = [pc EXCEPT ![Master] = "open"] /\ pc[Master] = "idle"
      BY <2>3 DEF Construct
    <3>2. pc'[Master] = "open" /\ \A u \in Thread \ {Master} : pc'[u] = pc[u]
      BY <3>1 DEF TypeOK, Thread
    <3>3. Sleeping' = Sleeping /\ Counted' = Counted /\ Held' = Held /\ Pending' = Pending
      BY <2>3, <3>1, <3>2 DEF Construct, Sleeping, Counted, Held, Pending
    <3>4. TypeOK'
      BY ZenonT(40), <2>3, CheckQueueAssumption DEF Construct, TypeOK
    <3>5. TodoExact' /\ CountersExact'
      BY <2>3, <3>3 DEF Construct, TodoExact, CountersExact
    <3>6. ThreadsOK'
      BY <2>3, <3>1, <3>2, CheckQueueAssumption DEF Construct, ThreadsOK, Thread
    <3>7. ResultOK'
      BY <2>3, <3>1, <3>2, <3>3 DEF Construct, ResultOK
    <3>8. QED BY <3>4, <3>5, <3>6, <3>7
  <2>4. ASSUME NEW vChecks \in SUBSET (Check \ added), Add(vChecks)
        PROVE  IInv'
    <3>1. PICK woken \in Notified(vChecks) :
            pc' = [t \in Thread |-> IF t \in woken THEN "woken" ELSE pc[t]]
      BY <2>4 DEF Add
    <3>2. \A t \in woken : pc[t] = "wait"
      BY <3>1 DEF Notified
    <3>3. /\ pc' \in [Thread -> {"idle", "open", "start", "wait", "woken", "work", "gone"}]
          /\ \A u \in Thread : \/ pc'[u] = pc[u]
                               \/ /\ pc[u] \in {"wait", "woken", "gone"}
                                  /\ pc'[u] \in {"wait", "woken", "gone"}
      BY <3>1, <3>2 DEF TypeOK
    <3>4. /\ CountersExact' /\ Held' = Held
          /\ \A u \in Thread : /\ pc'[u] = "work" <=> pc[u] = "work"
                               /\ pc'[u] = "idle" <=> pc[u] = "idle"
                               /\ pc'[u] = "open" <=> pc[u] = "open"
      BY <2>4, <3>3, AsleepKeeps DEF Add
    <3>5. Pending' = Pending \cup vChecks /\ Pending \cap vChecks = {}
      BY <2>4, <3>4 DEF Add, Pending, ResultOK
    <3>6. nTodo' = Cardinality(Pending')
      <4>1. IsFiniteSet(Pending) /\ IsFiniteSet(vChecks) /\ Cardinality(Pending) \in Nat /\ Cardinality(vChecks) \in Nat
        BY Finite DEF Pending, Held, TypeOK
      <4>2. Cardinality(Pending \cup vChecks) = Cardinality(Pending) + Cardinality(vChecks)
        <5>1. Cardinality(Pending \cup vChecks) = Cardinality(Pending) + Cardinality(vChecks) - Cardinality(Pending \cap vChecks)
          BY <4>1, FS_Union
        <5>2. Cardinality(Pending \cap vChecks) = 0
          BY <3>5, FS_EmptySet
        <5>3. QED BY <4>1, <5>1, <5>2
      <4>3. QED BY <2>4, <4>2, <3>5 DEF Add, TodoExact, Pending
    <3>7. TypeOK'
      <4>1. Cardinality(vChecks) \in Nat
        BY Finite
      <4>2. QED BY <2>4, <3>3, <4>1 DEF Add, TypeOK
    <3>8. TodoExact'
      BY <2>4, <3>5, <3>6 DEF Add, TodoExact, Pending, Held
    <3>9. ThreadsOK'
      BY ZenonT(30), <2>4, <3>4 DEF Add, ThreadsOK, Thread
    <3>10. ResultOK'
      <4>1. added' \ Pending' = added \ Pending
        BY <2>4, <3>5 DEF Add
      <4>2. pc[Master] = "open" /\ pc'[Master] = "open"
        BY <2>4, <3>4 DEF Add, Thread
      <4>3. QED BY <2>4, <3>5, <4>1, <4>2 DEF Add, ResultOK
    <3>11. QED BY <3>4, <3>7, <3>8, <3>9, <3>10
  <2>5. CASE Wait
    <3>1. pc'[Master] = "start" /\ pc[Master] = "open" /\ \A u \in Thread \ {Master} : pc'[u] = pc[u]
      BY <2>5 DEF Wait, TypeOK, Thread
    <3>2. Sleeping' = Sleeping /\ Counted' = Counted /\ Held' = Held /\ Pending' = Pending
      BY <2>5, <3>1 DEF Wait, Sleeping, Counted, Held, Pending
    <3>3. TypeOK' /\ TodoExact' /\ CountersExact'
      BY ZenonT(40), <2>5, <3>2 DEF Wait, TypeOK, TodoExact, CountersExact, control
    <3>4. ThreadsOK'
      BY <2>5, <3>1, CheckQueueAssumption DEF Wait, ThreadsOK, Thread
    <3>5. ResultOK'
      BY <2>5, <3>1, <3>2 DEF Wait, ResultOK, control
    <3>6. QED BY <3>3, <3>4, <3>5
  <2>6. CASE UNCHANGED vars
    BY <2>6 DEF vars, TypeOK, TodoExact, CountersExact, ThreadsOK, ResultOK, Pending, Held, Sleeping, Counted
  <2>7. QED BY <2>1, <2>2, <2>3, <2>4, <2>5, <2>6 DEF Next, Thread
<1>3. QED BY <1>1, <1>2, PTL DEF Spec

\* nTodo is the number of checks queued or held, each in one place, for any
\* number of threads and checks.
THEOREM NothingCountedTwice == Spec => []TodoExact
<1>1. IInv => TodoExact
  BY DEF IInv
<1>2. QED BY <1>1, Invariance, PTL

\* When Wait() has returned, its result is the conjunction of all the checks of
\* the block, no thread holds one, and the queue is idle for the next control.
THEOREM JoinExact == Spec => []ReturnExact
<1>1. IInv => ReturnExact
  <2> SUFFICES ASSUME IInv, pc[Master] = "idle" PROVE ReturnExact
    BY DEF ReturnExact
  <2> USE DEF IInv
  <2>1. queue = {} /\ Held = {} /\ fAllOk = TRUE /\ (result = TRUE <=> added \cap failing = {})
    BY DEF ResultOK, Pending
  <2>2. \A t \in Thread : pc[t] # "work"
    BY <2>1 DEF Held, ThreadsOK
  <2>3. Counted = Sleeping /\ queue \cup Held = {}
    BY <2>1, <2>2 DEF Counted
  <2>4. IsIdle
    BY <2>1, <2>3, FS_EmptySet DEF IsIdle, CountersExact, TodoExact
  <2>5. result <=> added \cap failing = {}
    BY <2>1 DEF TypeOK
  <2>6. QED BY <2>1, <2>4, <2>5 DEF ReturnExact
<1>2. QED BY <1>1, Invariance, PTL
=============================================================================
