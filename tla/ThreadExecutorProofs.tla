------------------------- MODULE ThreadExecutorProofs -------------------------
(***************************************************************************)
(* Proofs about the executor, for every set of tasks.                      *)
(*                                                                         *)
(* What was accepted is, place by place, what ran, then the task in the    *)
(* worker's hand, then the queue; at stop the queue is what is deleted,    *)
(* and from then on nothing is accepted.                                   *)
(***************************************************************************)
EXTENDS ThreadExecutor, SequenceTheorems, TLAPS

\* How many tasks the worker has taken.
Taken == Len(ran) + (IF task = NoTask THEN 0 ELSE 1)

\* The places of the accepted tasks that the worker did not take.
Untaken == (Taken + 1)..Len(accepted)

HistoryOK ==
    /\ accepted \in Seq(Tasks) /\ ran \in Seq(Tasks)
    /\ deleted \subseteq Tasks

\* No task is accepted twice.
EachOnce == \A i, j \in 1..Len(accepted) : accepted[i] = accepted[j] => i = j

\* The tasks accepted are those that ran, the one in hand and those of the queue, in
\* this order; all of them as long as nobody called stop.
PlaceByPlace ==
    /\ Taken + Len(queue) <= Len(accepted)
    /\ owner = "open" => Taken + Len(queue) = Len(accepted)
    /\ \A i \in 1..Len(ran) : accepted[i] = ran[i]
    /\ task # NoTask => accepted[Len(ran) + 1] = task
    /\ \A i \in 1..Len(queue) : accepted[Taken + i] = queue[i]

\* Stop empties the queue, and deletes what was in it.
DeletedAtStop ==
    IF owner = "open" THEN deleted = {}
    ELSE queue = << >> /\ deleted = {accepted[i] : i \in Untaken}

\* The worker ends only when stop was called, and stop returns only then.
EndsStopped ==
    /\ worker = "exited" => stopped
    /\ owner = "returned" => worker = "exited"

IInv == TypeOK /\ HistoryOK /\ EachOnce /\ PlaceByPlace /\ DeletedAtStop /\ EndsStopped

-----------------------------------------------------------------------------

\* What Take does to the lengths and places of the queue.
LEMMA TakeMoves ==
    ASSUME TypeOK, queue # << >>
    PROVE  /\ Head(queue) \in Tasks /\ Head(queue) = queue[1]
           /\ Tail(queue) \in Seq(Tasks) /\ Len(Tail(queue)) = Len(queue) - 1
           /\ Len(queue) \in Nat /\ Len(queue) >= 1
           /\ \A i \in 1..(Len(queue) - 1) : Tail(queue)[i] = queue[i + 1]
<1>1. queue \in Seq(Tasks)
  BY DEF TypeOK
<1>2. Len(queue) \in Nat \ {0}
  BY <1>1, EmptySeq
<1>3. Head(queue) = queue[1]
  BY <1>1, <1>2
<1> QED
  BY <1>1, <1>2, <1>3, HeadTailProperties

\* The flag is up once stop was called.
LEMMA StoppedIs ==
    ASSUME TypeOK
    PROVE  stopped \in BOOLEAN /\ (stopped <=> owner # "open")
BY Zenon DEF TypeOK

\* What an append does to the places of a sequence of tasks.
LEMMA AppendPlaces ==
    ASSUME NEW s \in Seq(Tasks), NEW t \in Tasks
    PROVE  /\ Append(s, t) \in Seq(Tasks)
           /\ Len(s) \in Nat /\ Len(Append(s, t)) = Len(s) + 1
           /\ \A i \in 1..Len(s) : Append(s, t)[i] = s[i]
           /\ Append(s, t)[Len(s) + 1] = t
BY AppendProperties, LenProperties

LEMMA IInvInit == Init => IInv
<1> SUFFICES ASSUME Init PROVE IInv
  OBVIOUS
<1>1. << >> \in Seq(Tasks) /\ Len(<< >>) = 0
  BY EmptySeq
<1>2. TypeOK /\ HistoryOK
  BY <1>1, ThreadExecutorAssumption DEF Init, TypeOK, HistoryOK
<1> QED
  BY <1>1, <1>2 DEF Init, IInv, EachOnce, PlaceByPlace, DeletedAtStop, EndsStopped, Taken

\* The worker takes the first task of the queue.
LEMMA TakeKeeps ==
    ASSUME IInv, Take, worker \in {"enter", "woken"}, ~stopped,
           UNCHANGED <<stopped, owner, history>>
    PROVE  IInv'
<1>1. CASE queue = << >>
  BY <1>1 DEF IInv, TypeOK, HistoryOK, EachOnce, PlaceByPlace, DeletedAtStop,
              EndsStopped, Take, Taken, Untaken, history
<1>2. CASE queue # << >>
  <2>0. Len(ran) \in Nat /\ Len(accepted) \in Nat
    BY LenProperties DEF IInv, HistoryOK
  <2>1. /\ task = NoTask /\ task' = queue[1] /\ task' # NoTask /\ task' \in Tasks
        /\ queue' = Tail(queue) /\ owner = "open"
        /\ queue' \in Seq(Tasks) /\ Len(queue') = Len(queue) - 1
        /\ Len(queue) \in Nat /\ Len(queue) >= 1
        /\ \A i \in 1..(Len(queue) - 1) : queue'[i] = queue[i + 1]
    BY <1>2, TakeMoves, ThreadExecutorAssumption DEF IInv, TypeOK, Take
  <2>2. Taken = Len(ran) /\ Taken' = Len(ran) + 1
    BY <2>0, <2>1 DEF Taken, history
  <2>3. TypeOK' /\ HistoryOK' /\ EachOnce' /\ EndsStopped'
    BY <1>2, <2>1 DEF IInv, TypeOK, HistoryOK, EachOnce, EndsStopped, Take, history
  <2>4. PlaceByPlace'
    BY <2>0, <2>1, <2>2 DEF IInv, PlaceByPlace, history
  <2>5. DeletedAtStop'
    BY <2>1 DEF IInv, DeletedAtStop, history
  <2> QED
    BY <2>3, <2>4, <2>5 DEF IInv
<1> QED
  BY <1>1, <1>2

LEMMA RunTaskKeeps == ASSUME IInv, RunTask PROVE IInv'
<1>1. /\ task \in Tasks /\ task # NoTask /\ task' = NoTask
      /\ ran \in Seq(Tasks) /\ ran' = Append(ran, task)
  BY DEF IInv, TypeOK, HistoryOK, RunTask
<1>2. /\ ran' \in Seq(Tasks) /\ Len(ran) \in Nat /\ Len(ran') = Len(ran) + 1
      /\ \A i \in 1..Len(ran) : ran'[i] = ran[i]
      /\ ran'[Len(ran) + 1] = task
  BY <1>1, AppendPlaces
<1>3. Taken' = Taken /\ Taken = Len(ran) + 1 /\ Untaken' = Untaken
  BY <1>1, <1>2 DEF Taken, Untaken, RunTask
<1>4. TypeOK' /\ HistoryOK' /\ EachOnce' /\ EndsStopped'
  BY <1>1, <1>2 DEF IInv, TypeOK, HistoryOK, EachOnce, EndsStopped, RunTask
<1>5. PlaceByPlace'
  BY <1>1, <1>2, <1>3 DEF IInv, PlaceByPlace, RunTask
<1>6. DeletedAtStop'
  BY <1>3 DEF IInv, DeletedAtStop, RunTask
<1> QED
  BY <1>4, <1>5, <1>6 DEF IInv

LEMMA ExecuteKeeps == ASSUME IInv, NEW t \in Tasks, Execute(t) PROVE IInv'
<1>1. CASE Refuses
  <2>1. UNCHANGED <<queue, stopped, worker, task, owner, accepted, ran, deleted>>
    BY <1>1, Zenon DEF Execute, Refuses
  <2> QED
    BY <2>1 DEF IInv, TypeOK, HistoryOK, EachOnce, PlaceByPlace, DeletedAtStop,
                EndsStopped, Taken, Untaken
<1>2. CASE ~Refuses
  <2>1. /\ owner = "open" /\ owner' = "open" /\ ~stopped
        /\ queue' = Append(queue, t) /\ accepted' = Append(accepted, t)
        /\ t \notin ToSet(accepted)
        /\ UNCHANGED <<stopped, task, owner, ran, deleted>>
        /\ worker' = worker \/ (worker = "waiting" /\ worker' = "woken")
    BY <1>2 DEF IInv, TypeOK, Execute, Refuses, Notify
  <2>2. /\ queue' \in Seq(Tasks) /\ Len(queue) \in Nat /\ Len(queue') = Len(queue) + 1
        /\ \A i \in 1..Len(queue) : queue'[i] = queue[i]
        /\ queue'[Len(queue) + 1] = t
    BY <2>1, AppendPlaces DEF IInv, TypeOK
  <2>3. /\ accepted' \in Seq(Tasks) /\ Len(accepted) \in Nat
        /\ Len(accepted') = Len(accepted) + 1
        /\ \A i \in 1..Len(accepted) : accepted'[i] = accepted[i]
        /\ accepted'[Len(accepted) + 1] = t
    BY <2>1, AppendPlaces DEF IInv, HistoryOK
  <2>4. \A i \in 1..Len(accepted) : accepted[i] # t
    BY <2>1, LenProperties DEF ToSet, IInv, HistoryOK
  <2>5. Len(ran) \in Nat /\ Taken \in Nat /\ Taken' = Taken
    BY <2>1, LenProperties DEF Taken, IInv, HistoryOK
  <2>6. TypeOK' /\ HistoryOK' /\ EndsStopped' /\ DeletedAtStop'
    BY <2>1, <2>2, <2>3 DEF IInv, TypeOK, HistoryOK, EndsStopped, DeletedAtStop
  <2>7. EachOnce'
    BY <2>3, <2>4 DEF IInv, EachOnce
  <2>8. PlaceByPlace'
    <3>1. Taken + Len(queue) = Len(accepted)
      BY <2>1 DEF IInv, PlaceByPlace
    <3>2. \A i \in 1..Len(queue') : accepted'[Taken' + i] = queue'[i]
      <4>1. \A i \in 1..Len(queue) : /\ Taken + i \in 1..Len(accepted)
                                     /\ accepted[Taken + i] = queue[i]
        BY <2>2, <2>3, <2>5, <3>1 DEF IInv, PlaceByPlace
      <4>2. \A i \in 1..Len(queue) : accepted'[Taken + i] = queue'[i]
        BY <4>1, <2>2, <2>3
      <4>3. Taken + (Len(queue) + 1) = Len(accepted) + 1
        BY <2>2, <2>3, <2>5, <3>1
      <4>4. accepted'[Taken + (Len(queue) + 1)] = queue'[Len(queue) + 1]
        BY <4>3, <2>2, <2>3
      <4>5. \A i \in 1..Len(queue') : i \in 1..Len(queue) \/ i = Len(queue) + 1
        BY <2>2
      <4> QED
        BY <4>2, <4>4, <4>5, <2>5
    <3>3. task' # NoTask => accepted'[Len(ran') + 1] = task'
      BY <2>1, <2>2, <2>3, <2>5, <3>1 DEF IInv, PlaceByPlace, Taken
    <3>4. \A i \in 1..Len(ran') : accepted'[i] = ran'[i]
      <4>1. Len(ran) <= Len(accepted)
        BY <2>2, <2>3, <2>5, <3>1 DEF Taken
      <4> QED
        BY <2>1, <2>3, <2>5, <4>1 DEF IInv, PlaceByPlace
    <3>5. Taken' + Len(queue') = Len(accepted')
      BY <2>2, <2>3, <2>5, <3>1
    <3> QED
      BY <2>2, <2>3, <2>5, <3>2, <3>3, <3>4, <3>5 DEF PlaceByPlace
  <2> QED
    BY <2>6, <2>7, <2>8 DEF IInv
<1> QED
  BY <1>1, <1>2

LEMMA StopKeeps == ASSUME IInv, Stop PROVE IInv'
<1>1. /\ owner = "open" /\ owner' = "joining" /\ stopped' = TRUE /\ queue' = << >>
      /\ deleted' = ToSet(queue) /\ UNCHANGED <<task, accepted, ran>>
      /\ worker' = worker \/ (worker = "waiting" /\ worker' = "woken")
  BY DEF Stop, Notify
<1>2. queue' \in Seq(Tasks) /\ Len(queue') = 0
  BY <1>1, EmptySeq
<1>3. /\ Len(queue) \in Nat /\ Len(ran) \in Nat /\ Len(accepted) \in Nat
      /\ DOMAIN queue = 1..Len(queue) /\ Taken \in Nat
  BY LenProperties DEF IInv, TypeOK, HistoryOK, Taken
<1>4. Taken' = Taken /\ Untaken' = Untaken
  BY <1>1 DEF Taken, Untaken
<1>5. deleted' = {accepted[i] : i \in Untaken}
  <2>1. deleted' = {queue[i] : i \in 1..Len(queue)}
    BY <1>1, <1>3 DEF ToSet
  <2>2. /\ Taken + Len(queue) = Len(accepted)
        /\ \A i \in 1..Len(queue) : accepted[Taken + i] = queue[i]
    BY <1>1 DEF IInv, PlaceByPlace
  <2>3. \A i \in 1..Len(queue) : Taken + i \in Untaken /\ queue[i] = accepted[Taken + i]
    BY <1>3, <2>2 DEF Untaken
  <2>4. \A i \in Untaken : i - Taken \in 1..Len(queue) /\ accepted[i] = queue[i - Taken]
    <3> SUFFICES ASSUME NEW i \in Untaken
                 PROVE  i - Taken \in 1..Len(queue) /\ accepted[i] = queue[i - Taken]
      OBVIOUS
    <3>1. i - Taken \in 1..Len(queue) /\ Taken + (i - Taken) = i
      BY <1>3, <2>2 DEF Untaken
    <3> QED
      BY <3>1, <2>2
  <2> QED
    BY <2>1, <2>3, <2>4
<1>6. deleted' \subseteq Tasks
  BY <1>1, <1>3, ElementOfSeq DEF ToSet, IInv, TypeOK
<1>7. TypeOK' /\ HistoryOK' /\ EachOnce' /\ EndsStopped'
  BY <1>1, <1>2, <1>6 DEF IInv, TypeOK, HistoryOK, EachOnce, EndsStopped
<1>8. PlaceByPlace'
  BY <1>1, <1>2, <1>3, <1>4 DEF IInv, PlaceByPlace
<1>9. DeletedAtStop'
  BY <1>1, <1>4, <1>5 DEF DeletedAtStop
<1> QED
  BY <1>7, <1>8, <1>9 DEF IInv

\* Every step keeps the invariant.
LEMMA IInvStep == ASSUME IInv, [Next]_vars PROVE IInv'
<1> USE DEF TypeOK, HistoryOK, EachOnce, PlaceByPlace, DeletedAtStop, EndsStopped,
            Taken, Untaken, history
<1>1. CASE Test
  BY <1>1 DEF IInv, Test
<1>2. CASE Enter
  <2>1. CASE TakeUnlessStopped /\ ~stopped
    BY <1>2, <2>1, TakeKeeps DEF Enter, TakeUnlessStopped
  <2>2. CASE worker' \in {"exited", "waiting"} /\ UNCHANGED <<queue, task>>
             /\ (worker' = "exited" => stopped)
    BY <1>2, <2>2 DEF IInv, Enter
  <2> QED
    BY <1>2, <2>1, <2>2 DEF Enter, TakeUnlessStopped
<1>3. CASE Resume
  <2>1. CASE ~stopped
    BY <1>3, <2>1, TakeKeeps DEF Resume, TakeUnlessStopped
  <2>2. CASE stopped
    BY <1>3, <2>2 DEF IInv, Resume, TakeUnlessStopped
  <2> QED
    BY <2>1, <2>2
<1>4. CASE RunTask
  BY <1>4, RunTaskKeeps
<1>5. CASE WakeUp
  BY <1>5 DEF IInv, WakeUp
<1>6. CASE \E t \in Tasks : Execute(t)
  BY <1>6, ExecuteKeeps
<1>7. CASE Stop
  BY <1>7, StopKeeps
<1>8. CASE Join
  BY <1>8 DEF IInv, Join, Joined
<1>9. CASE UNCHANGED vars
  BY <1>9 DEF IInv, vars
<1> QED
  BY <1>1, <1>2, <1>3, <1>4, <1>5, <1>6, <1>7, <1>8, <1>9 DEF Next, WorkerStep

-----------------------------------------------------------------------------

\* The places of what ran, what is in hand and what is queued, one after the other.
LEMMA LinePlaces ==
    ASSUME IInv
    PROVE  LET line == ran \o InHand \o queue
           IN /\ ran \o InHand \in Seq(Tasks) /\ line \in Seq(Tasks)
              /\ Taken \in Nat /\ Len(ran \o InHand) = Taken
              /\ Len(queue) \in Nat /\ Len(line) = Taken + Len(queue)
              /\ \A i \in 1..Taken : (ran \o InHand)[i] = accepted[i]
              /\ \A i \in 1..(Taken + Len(queue)) : line[i] = accepted[i]
<1> DEFINE taken == ran \o InHand
<1>1. /\ ran \in Seq(Tasks) /\ Len(ran) \in Nat
      /\ queue \in Seq(Tasks) /\ Len(queue) \in Nat
  BY LenProperties DEF IInv, TypeOK, HistoryOK
<1>2. /\ InHand \in Seq(Tasks)
      /\ Len(InHand) = IF task = NoTask THEN 0 ELSE 1
      /\ task # NoTask => InHand[1] = task
  BY DEF InHand, IInv, TypeOK
<1>3. /\ taken \in Seq(Tasks) /\ Len(taken) = Len(ran) + Len(InHand)
      /\ \A i \in 1..(Len(ran) + Len(InHand)) :
            taken[i] = IF i <= Len(ran) THEN ran[i] ELSE InHand[i - Len(ran)]
  BY <1>1, <1>2, ConcatProperties
<1>4. Taken \in Nat /\ Len(taken) = Taken
  BY <1>1, <1>2, <1>3 DEF Taken
<1>5. \A i \in 1..Taken : taken[i] = accepted[i]
  <2> SUFFICES ASSUME NEW i \in 1..Taken PROVE taken[i] = accepted[i]
    OBVIOUS
  <2>1. CASE i <= Len(ran)
    BY <1>1, <1>3, <1>4, <2>1 DEF IInv, PlaceByPlace
  <2>2. CASE ~(i <= Len(ran))
    <3>1. task # NoTask /\ i = Len(ran) + 1 /\ i - Len(ran) = 1
      BY <1>1, <2>2 DEF Taken
    <3> QED
      BY <1>1, <1>2, <1>3, <1>4, <3>1 DEF IInv, PlaceByPlace
  <2> QED
    BY <2>1, <2>2
<1>6. /\ taken \o queue \in Seq(Tasks) /\ Len(taken \o queue) = Taken + Len(queue)
      /\ \A i \in 1..(Taken + Len(queue)) :
            (taken \o queue)[i] = IF i <= Taken THEN taken[i] ELSE queue[i - Taken]
  <2> HIDE DEF taken
  <2>1. taken \in Seq(Tasks)
    BY <1>3
  <2>2. /\ taken \o queue \in Seq(Tasks) /\ Len(taken \o queue) = Len(taken) + Len(queue)
        /\ \A i \in 1..(Len(taken) + Len(queue)) :
              (taken \o queue)[i] = IF i <= Len(taken) THEN taken[i] ELSE queue[i - Len(taken)]
    BY <1>1, <2>1, ConcatProperties
  <2> QED
    BY <2>2, <1>4
<1>7. \A i \in 1..(Taken + Len(queue)) : (taken \o queue)[i] = accepted[i]
  <2> SUFFICES ASSUME NEW i \in 1..(Taken + Len(queue))
               PROVE  (taken \o queue)[i] = accepted[i]
    OBVIOUS
  <2>1. CASE i <= Taken
    BY <1>4, <1>5, <1>6, <2>1
  <2>2. CASE ~(i <= Taken)
    <3>1. i - Taken \in 1..Len(queue) /\ Taken + (i - Taken) = i
      BY <1>1, <1>4, <2>2
    <3> QED
      BY <3>1, <1>6, <2>2 DEF IInv, PlaceByPlace
  <2> QED
    BY <2>1, <2>2
<1> QED
  BY <1>1, <1>3, <1>4, <1>5, <1>6, <1>7

\* The invariant says what the runs check.
LEMMA IInvSuffices == IInv => TasksSound
<1> SUFFICES ASSUME IInv PROVE TypeOK /\ RunsInOrder /\ QuietAfterStop
  BY DEF TasksSound
<1> DEFINE taken == ran \o InHand
           line == taken \o queue
<1> HIDE DEF taken, line
<1>1. /\ accepted \in Seq(Tasks) /\ Len(accepted) \in Nat
      /\ DOMAIN accepted = 1..Len(accepted)
  BY LenProperties DEF IInv, HistoryOK
<1>2. /\ taken \in Seq(Tasks) /\ line \in Seq(Tasks)
      /\ Taken \in Nat /\ Len(taken) = Taken /\ DOMAIN taken = 1..Taken
      /\ Len(queue) \in Nat /\ Len(line) = Taken + Len(queue)
      /\ DOMAIN line = 1..(Taken + Len(queue))
      /\ \A i \in 1..Taken : taken[i] = accepted[i]
      /\ \A i \in 1..(Taken + Len(queue)) : line[i] = accepted[i]
  BY LinePlaces, LenProperties DEF taken, line
<1>3. Taken + Len(queue) <= Len(accepted)
  BY DEF IInv, PlaceByPlace
<1>4. IsPrefix(line, accepted)
  <2> DEFINE a == SubSeq(line, 1, Len(line))
             b == SubSeq(accepted, 1, Len(line))
  <2>1. /\ \A i \in 1..Len(line) : line[i] \in Tasks /\ accepted[i] \in Tasks
        /\ Len(line) \in Nat
    BY <1>1, <1>2, <1>3, ElementOfSeq
  <2>2. /\ a \in Seq(Tasks) /\ b \in Seq(Tasks) /\ Len(a) = Len(line) /\ Len(b) = Len(line)
        /\ \A i \in 1..Len(line) : a[i] = line[i] /\ b[i] = accepted[i]
    BY <2>1
  <2>3. a = b
    BY <1>2, <2>2, SeqEqual
  <2> QED
    BY <1>2, <1>3, <2>3 DEF IsPrefix
<1>5. deleted = {accepted[i] : i \in (Taken + Len(queue) + 1)..Len(accepted)}
  <2>1. CASE owner = "open"
    <3>1. deleted = {} /\ Taken + Len(queue) = Len(accepted)
      BY <2>1 DEF IInv, PlaceByPlace, DeletedAtStop
    <3> QED
      BY <3>1, <1>1, <1>2
  <2>2. CASE owner # "open"
    <3>1. Len(queue) = 0 /\ deleted = {accepted[i] : i \in Untaken}
      BY <2>2, EmptySeq DEF IInv, DeletedAtStop
    <3>2. Taken + Len(queue) = Taken
      BY <3>1, <1>2
    <3> QED
      BY <3>1, <3>2 DEF Untaken
  <2> QED
    BY <2>1, <2>2
<1>6. ToSet(accepted) = ToSet(line) \union deleted
  <2>1. /\ ToSet(accepted) = {accepted[i] : i \in 1..Len(accepted)}
        /\ ToSet(line) = {line[i] : i \in 1..(Taken + Len(queue))}
    BY <1>1, <1>2 DEF ToSet
  <2>2. ToSet(line) = {accepted[i] : i \in 1..(Taken + Len(queue))}
    BY <1>2, <2>1
  <2> QED
    BY <1>1, <1>2, <1>3, <1>5, <2>1, <2>2
<1>7. ToSet(taken) \intersect deleted = {}
  <2>1. ToSet(taken) = {accepted[i] : i \in 1..Taken}
    BY <1>2 DEF ToSet
  <2>2. \A i \in 1..Taken, j \in (Taken + Len(queue) + 1)..Len(accepted) :
           accepted[i] # accepted[j]
    BY <1>1, <1>2, <1>3 DEF IInv, EachOnce
  <2> QED
    BY <1>5, <2>1, <2>2
<1>8. QuietAfterStop
  BY StoppedIs DEF QuietAfterStop, IInv, TypeOK, DeletedAtStop, EndsStopped
<1> QED
  BY <1>4, <1>6, <1>7, <1>8 DEF IInv, RunsInOrder, taken, line

\* Whatever the tasks are and whenever the threads step, they run in the order in which
\* they were given, each is run, in hand, queued or deleted by stop, and when stop has
\* returned nothing is left to run (run, execute and stop of CRThreadExecutor).
THEOREM TasksAlwaysSound == Spec => []TasksSound
<1>1. Init => IInv
  BY IInvInit
<1>2. IInv /\ [Next]_vars => IInv'
  BY IInvStep
<1>3. IInv => TasksSound
  BY IInvSuffices
<1> QED
  BY <1>1, <1>2, <1>3, PTL DEF Spec

=============================================================================
