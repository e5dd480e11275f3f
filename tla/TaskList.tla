------------------------------ MODULE TaskList ------------------------------
(***************************************************************************)
(* TinyOS's SchedulerBasicP: the posted tasks in a linked list of task     *)
(* ids.  Whether a task waits is read off the list itself: it has a        *)
(* successor, or it is the tail.  Each operation is one atomic section.    *)
(*                                                                         *)
(* fifo is a history variable: the tasks in the order of their posts.      *)
(***************************************************************************)
EXTENDS Integers, Sequences

CONSTANTS
    Tasks,           \* the task ids below NUM_TASKS
    NoTask           \* NO_TASK

TasksAssumption == NoTask \notin Tasks

VARIABLES
    m_head, m_tail,
    m_next,          \* the successor of each task
    ret,             \* what the last call returned, or the task that was run
    fifo

vars == <<m_head, m_tail, m_next, ret, fifo>>

\* Scheduler.init
Init ==
    /\ m_next = [id \in Tasks |-> NoTask]
    /\ m_head = NoTask /\ m_tail = NoTask
    /\ ret = NoTask
    /\ fifo = <<>>

\* Slip: a task waits if it has a successor.
HasSuccessor(id) == m_next[id] # NoTask

isWaiting(id) == m_next[id] # NoTask \/ m_tail = id

\* TaskBasic.postTask, pushTask
PostTask(id) ==
    IF isWaiting(id)
    THEN ret' = "EBUSY" /\ UNCHANGED <<m_head, m_tail, m_next, fifo>>
    ELSE /\ ret' = "SUCCESS"
         /\ IF m_head = NoTask
            THEN m_head' = id /\ UNCHANGED m_next
            ELSE m_next' = [m_next EXCEPT ![m_tail] = id] /\ UNCHANGED m_head
         /\ m_tail' = id
         /\ fifo' = Append(fifo, id)

\* popTask on an empty list: the processor sleeps.
RunNothing ==
    /\ m_head = NoTask
    /\ ret' = NoTask
    /\ UNCHANGED <<m_head, m_tail, m_next, fifo>>

\* popTask, and the task that runTask is signalled for.
RunNextTask ==
    /\ m_head # NoTask
    /\ ret' = m_head
    /\ m_head' = m_next[m_head]
    /\ m_tail' = IF m_next[m_head] = NoTask THEN NoTask ELSE m_tail
    /\ m_next' = [m_next EXCEPT ![m_head] = NoTask]
    /\ fifo' = Tail(fifo)

Next == RunNothing \/ RunNextTask \/ \E id \in Tasks : PostTask(id)

Spec == Init /\ [][Next]_vars

-----------------------------------------------------------------------------
(* Properties.                                                             *)

\* The list holds exactly the tasks of fifo, in that order: the head is the
\* first, each points to the one after it, the last, which points to nothing,
\* is the tail, and the tasks that do not wait point to nothing either.
Represents ==
    /\ \A i, j \in 1 .. Len(fifo) : fifo[i] = fifo[j] => i = j
    /\ m_head = IF fifo = <<>> THEN NoTask ELSE fifo[1]
    /\ m_tail = IF fifo = <<>> THEN NoTask ELSE fifo[Len(fifo)]
    /\ \A i \in 1 .. Len(fifo) :
         m_next[fifo[i]] = IF i < Len(fifo) THEN fifo[i + 1] ELSE NoTask
    /\ \A id \in Tasks :
         (\A i \in 1 .. Len(fifo) : fifo[i] # id) => m_next[id] = NoTask

\* SchedulerBasicP serves tasks in the order of their posts, posts one that
\* waits already never a second time, and says EBUSY exactly then.
Abstract == INSTANCE TaskQueue WITH queue <- fifo
ImplementsQueue == Abstract!Spec
=============================================================================
