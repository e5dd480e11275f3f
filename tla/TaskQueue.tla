----------------------------- MODULE TaskQueue ------------------------------
(***************************************************************************)
(* What TinyOS promises of tasks (TEP 106, SchedulerBasicP): a queue in    *)
(* which a task waits at most once, and which is served in the order of    *)
(* the posts.  BackIPNode uses the scheduler in this form.                 *)
(***************************************************************************)
EXTENDS Integers, Sequences

CONSTANTS
    Tasks,           \* the task ids below NUM_TASKS
    NoTask           \* NO_TASK

VARIABLES
    queue,           \* the tasks that wait
    ret              \* what the last call returned, or the task that was run

Init == queue = <<>> /\ ret = NoTask

Waits(id) == \E i \in 1 .. Len(queue) : queue[i] = id

Post(id) ==
    IF Waits(id) THEN ret' = "EBUSY" /\ UNCHANGED queue
    ELSE ret' = "SUCCESS" /\ queue' = Append(queue, id)

Run ==
    IF queue = <<>> THEN ret' = NoTask /\ UNCHANGED queue
    ELSE ret' = Head(queue) /\ queue' = Tail(queue)

Next == Run \/ \E id \in Tasks : Post(id)

Spec == Init /\ [][Next]_<<queue, ret>>
=============================================================================
