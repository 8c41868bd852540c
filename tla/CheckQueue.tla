----------------------------- MODULE CheckQueue -----------------------------
(***************************************************************************)
(* CCheckQueue and CCheckQueueControl (checkqueue.h): the master, which    *)
(* connects a block, hands script checks to worker threads and joins them  *)
(* in Wait().  Between two waits on a condition variable a thread holds    *)
(* the mutex, so a critical section is one action.                         *)
(*                                                                         *)
(* A check is an element of Check, failing is the set of those that would  *)
(* return false.  The queue is a set: the code uses a stack because "the   *)
(* order of booleans doesn't matter", and here a batch is any subset of    *)
(* the right size.  fQuit is never set to true and is left out.  A worker  *)
(* is interrupted at shutdown by boost, whose exception leaves Loop from   *)
(* inside cond.wait.                                                       *)
(***************************************************************************)
EXTENDS Integers, FiniteSets, FiniteSetsExt

CONSTANTS
  Worker,      \* the threads that run Thread()
  Master,      \* the thread that owns the CCheckQueueControl
  Check,       \* the checks one control may be given
  FailingSets, \* which of them may fail, as a set of sets
  nBatchSize

Thread == Worker \cup {Master}

ASSUME CheckQueueAssumption ==
  /\ IsFiniteSet(Worker) /\ Master \notin Worker
  /\ IsFiniteSet(Check) /\ FailingSets \subseteq SUBSET Check
  /\ nBatchSize \in Nat \ {0}

VARIABLES
  queue, nIdle, nTotal, fAllOk, nTodo,   \* the members of CCheckQueue
  pc,        \* where each thread is
  batch,     \* vChecks of each thread
  fOk,       \* fOk of each thread when it took its batch
  added,     \* the checks given to the current control
  failing,   \* the checks that return false
  result     \* what the last Wait() returned

vars == <<queue, nIdle, nTotal, fAllOk, nTodo, pc, batch, fOk, added, failing, result>>

control == <<added, failing, result>>

\* A worker: "start" before Loop, "wait" in cond.wait, "woken" when notified but
\* without the mutex, "work" while it executes its batch, "gone" after an
\* interruption.  The master: "idle" without a control, "open" while it adds
\* checks, "start" when Wait() is called, then as a worker.
Init ==
  /\ queue = {} /\ nIdle = 0 /\ nTotal = 0 /\ fAllOk = TRUE /\ nTodo = 0
  /\ pc = [t \in Thread |-> IF t = Master THEN "idle" ELSE "start"]
  /\ batch = [t \in Thread |-> {}]
  /\ fOk = [t \in Thread |-> TRUE]
  /\ added = {} /\ failing = {} /\ result = TRUE

-----------------------------------------------------------------------------
(* Loop.                                                                   *)

\* nNow
BatchCount(total, idle) ==
  LET share == Cardinality(queue) \div (total + idle + 1)
  IN  IF share < 1 THEN 1 ELSE IF share > nBatchSize THEN nBatchSize ELSE share

\* queue is empty and there is nothing to wait for: Wait() returns.
Return(t, todo, total, idle, allOk, p) ==
  /\ queue = {} /\ t = Master /\ todo = 0
  /\ nTotal' = total - 1
  /\ result' = allOk
  /\ fAllOk' = TRUE
  /\ nIdle' = idle
  /\ pc' = [p EXCEPT ![t] = "idle"]
  /\ UNCHANGED <<queue, fOk>>

\* queue is empty: wait.
Sleep(t, todo, total, idle, allOk, p) ==
  /\ queue = {} /\ ~(t = Master /\ todo = 0)
  /\ nIdle' = idle + 1
  /\ nTotal' = total
  /\ fAllOk' = allOk
  /\ pc' = [p EXCEPT ![t] = "wait"]
  /\ UNCHANGED <<queue, fOk, result>>

\* Take a batch.
Take(t, todo, total, idle, allOk, p, b) ==
  /\ queue' = queue \ b
  /\ fOk' = [fOk EXCEPT ![t] = allOk]
  /\ nIdle' = idle
  /\ nTotal' = total
  /\ fAllOk' = allOk
  /\ pc' = [p EXCEPT ![t] = "work"]
  /\ UNCHANGED result

\* The loop from "logically, the do loop starts here", entered with these values
\* of nTodo, nTotal, nIdle and fAllOk, up to the release of the mutex.
Loop(t, todo, total, idle, allOk, p) ==
  /\ nTodo' = todo
  /\ \/ /\ Return(t, todo, total, idle, allOk, p) \/ Sleep(t, todo, total, idle, allOk, p)
        /\ batch' = [batch EXCEPT ![t] = {}]
     \/ \E b \in kSubset(BatchCount(total, idle), queue) :
          /\ Take(t, todo, total, idle, allOk, p, b)
          /\ batch' = [batch EXCEPT ![t] = b]
  /\ UNCHANGED <<added, failing>>

\* The first iteration.
Enter(t) ==
  /\ pc[t] = "start"
  /\ Loop(t, nTodo, nTotal + 1, nIdle, fAllOk, pc)

\* cond.wait returns.
Resume(t) ==
  /\ pc[t] = "woken"
  /\ Loop(t, nTodo, nTotal, nIdle - 1, fAllOk, pc)

\* Mutant of TodoAfter: one check is subtracted for a batch of several.
TodoAfterOne(t) == nTodo - 1

TodoAfter(t) == nTodo - Cardinality(batch[t])

\* Mutant of AllOkAfter: assignment for &=.
AllOkAfterLast(t) == fOk[t] /\ batch[t] \cap failing = {}

AllOkAfter(t) == fAllOk /\ fOk[t] /\ batch[t] \cap failing = {}

\* Mutant of NotifyMaster: the master is not told.
NotifyMasterNever(t, todo) == pc

\* condMaster.notify_one() after the last element.
NotifyMaster(t, todo) ==
  IF todo = 0 /\ t # Master /\ pc[Master] = "wait"
    THEN [pc EXCEPT ![Master] = "woken"]
    ELSE pc

\* The batch has been executed; the clean-up of the previous run.
Finish(t) ==
  /\ pc[t] = "work"
  /\ Loop(t, TodoAfter(t), nTotal, nIdle, AllOkAfter(t), NotifyMaster(t, TodoAfter(t)))

\* A condition variable may wake without a notification.
Wake(t) ==
  /\ pc[t] = "wait"
  /\ pc' = [pc EXCEPT ![t] = "woken"]
  /\ UNCHANGED <<queue, nIdle, nTotal, fAllOk, nTodo, batch, fOk, control>>

\* threadGroup.interrupt_all(): boost::thread_interrupted leaves Loop, and nIdle
\* and nTotal keep counting the thread.
Interrupt(w) ==
  /\ pc[w] \in {"wait", "woken"}
  /\ pc' = [pc EXCEPT ![w] = "gone"]
  /\ UNCHANGED <<queue, nIdle, nTotal, fAllOk, nTodo, batch, fOk, control>>

-----------------------------------------------------------------------------
(* The master's calls.                                                     *)

IsIdle == nTotal = nIdle /\ nTodo = 0 /\ fAllOk = TRUE

\* The constructor of CCheckQueueControl; ReturnExact contains its assertion.
Construct ==
  /\ pc[Master] = "idle"
  /\ pc' = [pc EXCEPT ![Master] = "open"]
  /\ added' = {}
  /\ failing' \in FailingSets
  /\ UNCHANGED <<queue, nIdle, nTotal, fAllOk, nTodo, batch, fOk, result>>

\* notify_one for one check, notify_all for more, nothing for none.
Notified(vChecks) ==
  LET waiting == {w \in Worker : pc[w] = "wait"}
  IN  IF Cardinality(vChecks) = 1 /\ waiting # {}
        THEN {{w} : w \in waiting}
        ELSE {IF vChecks = {} THEN {} ELSE waiting}

Add(vChecks) ==
  /\ pc[Master] = "open"
  /\ queue' = queue \cup vChecks
  /\ nTodo' = nTodo + Cardinality(vChecks)
  /\ \E woken \in Notified(vChecks) :
       pc' = [t \in Thread |-> IF t \in woken THEN "woken" ELSE pc[t]]
  /\ added' = added \cup vChecks
  /\ UNCHANGED <<nIdle, nTotal, fAllOk, batch, fOk, failing, result>>

\* Wait() or, on an early return of ConnectBlock, the destructor.
Wait ==
  /\ pc[Master] = "open"
  /\ pc' = [pc EXCEPT ![Master] = "start"]
  /\ UNCHANGED <<queue, nIdle, nTotal, fAllOk, nTodo, batch, fOk, control>>

Step(t) == Enter(t) \/ Resume(t) \/ Finish(t)

Next ==
  \/ \E t \in Thread : Step(t) \/ Wake(t)
  \/ \E w \in Worker : Interrupt(w)
  \/ Construct
  \/ \E vChecks \in SUBSET (Check \ added) : Add(vChecks)
  \/ Wait

\* Every thread that can run runs, and ConnectBlock comes to its end.
Fairness ==
  /\ \A t \in Thread : WF_vars(Step(t))
  /\ WF_vars(Wait)

Spec == Init /\ [][Next]_vars
FairSpec == Spec /\ Fairness

-----------------------------------------------------------------------------
(* Properties.                                                             *)

Held == UNION {batch[t] : t \in Thread}
Sleeping == {t \in Thread : pc[t] \in {"wait", "woken", "gone"}}
Counted == Sleeping \cup {t \in Thread : pc[t] = "work"}

\* Every variable keeps its type; nTodo, nIdle and nTotal do not go below zero.
TypeOK ==
  /\ queue \in SUBSET Check
  /\ nIdle \in Nat /\ nTotal \in Nat /\ nTodo \in Nat
  /\ fAllOk \in BOOLEAN
  /\ pc \in [Thread -> {"idle", "open", "start", "wait", "woken", "work", "gone"}]
  /\ batch \in [Thread -> SUBSET Check]
  /\ fOk \in [Thread -> BOOLEAN]
  /\ added \in SUBSET Check /\ failing \in SUBSET Check
  /\ result \in BOOLEAN

\* nTodo counts the checks that are queued or in some thread's batch, and no
\* check is in two places: each is executed once.
TodoExact ==
  /\ nTodo = Cardinality(queue \cup Held)
  /\ \A t \in Thread : batch[t] \cap queue = {}
  /\ \A t, u \in Thread : t # u => batch[t] \cap batch[u] = {}

\* When Wait() has returned, it returned true if and only if every check added
\* passes, whoever executed it and however many were skipped after a failure; no
\* check is left (a CScriptCheck points into the transaction of the block and the
\* view, which ConnectBlock's caller frees); and the assertion in the constructor
\* of the next CCheckQueueControl holds, also after workers were interrupted and
\* while others have not entered Loop yet.
ReturnExact ==
  pc[Master] = "idle" =>
    /\ result <=> added \cap failing = {}
    /\ queue = {} /\ Held = {}
    /\ IsIdle

\* Wait() returns, also when every worker has been interrupted: no notification
\* is lost between the last check and the master's cond.wait.
WaitReturns == pc[Master] = "start" ~> pc[Master] = "idle"
=============================================================================
