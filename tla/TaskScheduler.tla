--------------------------- MODULE TaskScheduler ---------------------------
(***************************************************************************)
(* priority_wing/scheduler.hpp on the max-heap.  The caller and the tasks  *)
(* it runs share one thread: an entry point may schedule, and may dispatch *)
(* before it returns, so the calls in progress form a stack.               *)
(***************************************************************************)
EXTENDS MaxHeap, Sequences

CONSTANTS HasEntry,   \* the tasks whose m_entry_point is not null
          MaxNested   \* bound: entry points in progress at once

ASSUME EntryAssumption == HasEntry \subseteq Tasks /\ MaxNested \in Nat

VARIABLE running      \* tasks whose entry points have not returned, newest last

schedVars == <<heapVars, running>>
-----------------------------------------------------------------------------
SchedInit == HeapInit /\ running = <<>>

Schedule(x) == Push(x) /\ UNCHANGED running

\* dispatch_next(): an empty queue makes it return false at once.
DispatchNext ==
    /\ Len(running) < MaxNested
    /\ Pop
    /\ UNCHANGED running

\* Mutant: what has no entry point is thought to be everything but the top.
RunsLast ==
    /\ PopReturns
    /\ running' = IF h_size = 0 THEN Append(running, h_root) ELSE running

\* pop() has returned: a task without an entry point is dropped, dispatch_next()
\* says false; any other is called.
Runs ==
    /\ PopReturns
    /\ running' = IF h_root \in HasEntry THEN Append(running, h_root) ELSE running

EntryReturns ==
    /\ h_pc = "idle" /\ running # <<>>
    /\ running' = SubSeq(running, 1, Len(running) - 1)
    /\ UNCHANGED heapVars

SchedNext ==
    \/ \E x \in Tasks : Schedule(x)
    \/ Rise /\ UNCHANGED running
    \/ DispatchNext
    \/ Descend /\ UNCHANGED running
    \/ Runs
    \/ EntryReturns

SchedSpec == SchedInit /\ [][SchedNext]_schedVars

\* Loops end, entry points return, and the caller comes back to dispatch_next()
\* again and again, however often something is scheduled in between.
SchedFairness ==
    /\ WF_schedVars(Rise /\ UNCHANGED running)
    /\ WF_schedVars(Descend /\ UNCHANGED running)
    /\ WF_schedVars(Runs)
    /\ WF_schedVars(EntryReturns)
    /\ SF_schedVars(DispatchNext)
-----------------------------------------------------------------------------
\* A queued task that outranks every other task is called, whatever is
\* scheduled, refused or dropped meanwhile (lines 71-92).
TopTaskRuns ==
    \A x \in HasEntry :
        (\A y \in Tasks \ {x} : Less(y, x)) =>
            (HeapBag[x] > 0 ~> \E n \in 1 .. Len(running) : running[n] = x)
=============================================================================
