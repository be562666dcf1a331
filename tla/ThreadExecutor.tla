---------------------------- MODULE ThreadExecutor ----------------------------
(***************************************************************************)
(* The thread that runs tasks for an application: CRThreadExecutor,        *)
(* crengine/src/crconcurrent.cpp, with its LVQueue.                        *)
(*                                                                         *)
(* What is done under the guard of the monitor is one step; the worker     *)
(* reads _stopped outside of it.  Monitor and thread come from the         *)
(* application (CRConcurrencyProvider): notify wakes the worker if it      *)
(* waits and is forgotten if it does not, and a wait may end by itself.    *)
(***************************************************************************)
EXTENDS Naturals, Sequences, SequencesExt, FiniteSets

CONSTANTS
    Tasks,  \* the tasks, each is given to the executor once
    NoTask  \* the null task

ASSUME ThreadExecutorAssumption == NoTask \notin Tasks

VARIABLES
    queue,    \* _queue
    stopped,  \* _stopped
    worker,   \* where the worker is: "test" the loop begins, "enter" at the guard,
              \* "waiting", "woken" on the way back to the guard, "running", "exited"
    task,     \* the task in the worker's hand
    owner,    \* who owns the executor: "open", "joining" in stop, "returned"
    accepted, \* the tasks accepted, in order (no variable of the program)
    ran,      \* the tasks that ran, in order (no variable of the program)
    refused,  \* the tasks that came too late (no variable of the program)
    deleted,  \* the tasks that stop deleted (no variable of the program)
    late      \* stop came when the worker had tested _stopped and was not yet under
              \* the guard (no variable of the program)

vars == <<queue, stopped, worker, task, owner, accepted, ran, refused, deleted, late>>
history == <<accepted, ran, refused, deleted, late>>

Init ==
    /\ queue = << >> /\ stopped = FALSE /\ worker = "test" /\ task = NoTask
    /\ owner = "open" /\ accepted = << >> /\ ran = << >> /\ refused = {} /\ deleted = {}
    /\ late = FALSE

-----------------------------------------------------------------------------
(* The worker: run() *)

\* The test at the head of the loop, outside of the guard.
Test ==
    /\ worker = "test"
    /\ worker' = IF stopped THEN "exited" ELSE "enter"
    /\ UNCHANGED <<queue, stopped, task, owner, history>>

\* Mutant: the task given last is taken.
TakeLast ==
    /\ task' = IF queue = << >> THEN NoTask ELSE Last(queue)
    /\ queue' = IF queue = << >> THEN queue ELSE Front(queue)
    /\ worker' = IF queue = << >> THEN "test" ELSE "running"

\* popFront, which is null when the queue is empty.
Take ==
    /\ task' = IF queue = << >> THEN NoTask ELSE Head(queue)
    /\ queue' = IF queue = << >> THEN queue ELSE Tail(queue)
    /\ worker' = IF queue = << >> THEN "test" ELSE "running"

TakeUnlessStopped ==
    \/ stopped /\ worker' = "exited" /\ UNCHANGED <<queue, task>>
    \/ ~stopped /\ Take

Enter ==
    /\ worker = "enter"
    /\ \/ queue = << >> /\ worker' = "waiting" /\ UNCHANGED <<queue, task>>
       \/ queue # << >> /\ TakeUnlessStopped
    /\ UNCHANGED <<stopped, owner, history>>

Resume ==
    /\ worker = "woken" /\ TakeUnlessStopped
    /\ UNCHANGED <<stopped, owner, history>>

RunTask ==
    /\ worker = "running" /\ worker' = "test"
    /\ ran' = Append(ran, task) /\ task' = NoTask
    /\ UNCHANGED <<queue, stopped, owner, accepted, refused, deleted, late>>

\* A wait that ends without notify.
WakeUp ==
    /\ worker = "waiting" /\ worker' = "woken"
    /\ UNCHANGED <<queue, stopped, task, owner, history>>

-----------------------------------------------------------------------------
(* The application's threads *)

\* Mutant: nobody is woken.
NotifyNobody == worker' = worker

Notify == worker' = IF worker = "waiting" THEN "woken" ELSE worker

Refuses == stopped

Execute(t) ==
    /\ t \notin ToSet(accepted) \union refused
    /\ \/ /\ Refuses /\ refused' = refused \union {t}
          /\ UNCHANGED <<queue, worker, accepted>>
       \/ /\ ~Refuses /\ queue' = Append(queue, t) /\ accepted' = Append(accepted, t)
          /\ Notify /\ UNCHANGED refused
    /\ UNCHANGED <<stopped, task, owner, ran, deleted, late>>

\* stop(), up to the join: from the destructor, which calls it if nobody did.
Stop ==
    /\ owner = "open" /\ owner' = "joining"
    /\ stopped' = TRUE /\ queue' = << >> /\ deleted' = ToSet(queue)
    /\ Notify /\ late' = (worker = "enter")
    /\ UNCHANGED <<task, accepted, ran, refused>>

Joined == worker = "exited"

Join ==
    /\ owner = "joining" /\ Joined /\ owner' = "returned"
    /\ UNCHANGED <<queue, stopped, worker, task, history>>

WorkerStep == Test \/ Enter \/ Resume \/ RunTask

Next == WorkerStep \/ WakeUp \/ (\E t \in Tasks : Execute(t)) \/ Stop \/ Join

Spec == Init /\ [][Next]_vars

\* The threads are scheduled and tasks end; nothing makes a wait end by itself, a task
\* come or the owner stop.
FairSpec == Spec /\ WF_vars(WorkerStep) /\ WF_vars(Join)

-----------------------------------------------------------------------------
(* Properties *)

InHand == IF task = NoTask THEN << >> ELSE <<task>>

\* Type invariant: the worker has a task exactly while it runs one.
TypeOK ==
    /\ worker \in {"test", "enter", "waiting", "woken", "running", "exited"}
    /\ owner \in {"open", "joining", "returned"} /\ stopped = (owner # "open")
    /\ task \in Tasks \union {NoTask} /\ (task # NoTask) = (worker = "running")
    /\ queue \in Seq(Tasks)

\* Order of the tasks.
RunsInOrder ==
    /\ IsPrefix(ran \o InHand \o queue, accepted)
    /\ ToSet(accepted) = ToSet(ran \o InHand \o queue) \union deleted
    /\ ToSet(ran \o InHand) \intersect deleted = {}

\* Nothing runs after stop.
QuietAfterStop == owner = "returned" => queue = << >> /\ task = NoTask

\* Tasks are run one after the other in the order in which they were given, each at
\* most once; one that was accepted is run, in the worker's hand, queued or, from the
\* first that had not been taken on, deleted by stop.  When stop has returned no task
\* runs, and none will.
TasksSound == TypeOK /\ RunsInOrder /\ QuietAfterStop

\* A task that was accepted is run in the end, or deleted by stop: no notify is missed
\* while there is a task, since the worker looks at the queue before it waits.
AcceptedEnds ==
    \A t \in Tasks : (t \in ToSet(accepted)) ~> (t \in ToSet(ran) \union deleted)

\* Stop returns, whether the worker runs a task, waits, is woken or has yet to test
\* _stopped when it comes.  Not so when it comes late: the worker then waits, after the
\* notify, for a task that cannot come.
StopReturns == (owner = "joining" /\ ~late) ~> (owner = "returned")
===============================================================================
