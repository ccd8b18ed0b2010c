---------------------------- MODULE WorkerPoolProofs ----------------------------
(***************************************************************************)
(* Proofs about WorkerPool: for any number of posters and threads the      *)
(* counter of the queue is right, and no more tasks wait than the limit.   *)
(***************************************************************************)
EXTENDS WorkerPool, Integers, FiniteSetTheorems, SequenceTheorems, TLAPS

(* What an instance of WorkerPool has to be given.                         *)
Parameters ==
    /\ QueueLimit \in Nat \/ QueueLimit = NoLimit
    /\ IsFiniteSet(Posters) /\ IsFiniteSet(Workers)

Reservations == {p \in Posters : Reserved(p)}
Counted == {w \in Workers : running[w].counted}

(* The sizes of the two sets change by one at a time, so they are counted  *)
(* apart from what the actions do to the rest of the state.                *)
Places == Cardinality(Reservations) + Len(waiting) + Cardinality(Counted)

Types ==
    /\ WorkerPoolTypeOK
    /\ \A p \in Posters : post[p].step # "idle" => post[p].task \in Tasks

(* With a limit every task has a place, without one none has.              *)
PostersKnowTheLimit ==
    \A p \in Posters :
        /\ Limited => post[p].step # "unlimited"
        /\ ~Limited => post[p].step \notin {"reserving", "reserved"}

PlacesAreRight ==
    /\ Limited => queued_task_count = Places /\ queued_task_count <= QueueLimit
    /\ ~Limited => queued_task_count = 0 /\ Counted = {}

IInv == Types /\ PostersKnowTheLimit /\ PlacesAreRight

LEMMA LimitIsNatural ==
    ASSUME Parameters, Limited
    PROVE  QueueLimit \in Nat
BY DEF Parameters, Limited

LEMMA SetsAreFinite ==
    ASSUME Parameters
    PROVE  /\ IsFiniteSet(Reservations) /\ Cardinality(Reservations) \in Nat
           /\ IsFiniteSet(Counted) /\ Cardinality(Counted) \in Nat
<1>1. Reservations \subseteq Posters /\ Counted \subseteq Workers
    BY DEF Reservations, Counted
<1>. QED
    BY <1>1, FS_Subset, FS_CardinalityType DEF Parameters

LEMMA InitInvariant ==
    ASSUME Parameters, WorkerPoolInit
    PROVE  IInv
<1>. USE DEF WorkerPoolInit, Idle, Unoccupied
<1>1. Reservations = {} /\ Counted = {}
    BY DEF Reservations, Counted, Reserved
<1>2. Cardinality({}) = 0
    BY FS_EmptySet
<1>3. Places = 0
    BY <1>1, <1>2 DEF Places
<1>. QED
    BY <1>1, <1>3, LimitIsNatural, EmptySeq DEF IInv, Types, WorkerPoolTypeOK, PostersKnowTheLimit, PlacesAreRight

(* One poster's reservation, or one thread's count, comes or goes.         *)
LEMMA OneMore ==
    ASSUME NEW S, IsFiniteSet(S), NEW x, x \notin S
    PROVE  Cardinality(S \cup {x}) = Cardinality(S) + 1
BY FS_AddElement

LEMMA OneLess ==
    ASSUME NEW S, IsFiniteSet(S), NEW x, x \in S
    PROVE  Cardinality(S \ {x}) = Cardinality(S) - 1
BY FS_RemoveElement

(* Whoever has a place is counted.                                         *)
LEMMA PlacesAreCounted ==
    ASSUME Parameters, IInv, Limited, Reservations # {} \/ Counted # {}
    PROVE  queued_task_count > 0
<1>1. ASSUME NEW S, IsFiniteSet(S), S # {}
      PROVE  Cardinality(S) > 0
    <2>1. PICK x : x \in S
        BY <1>1
    <2>2. Cardinality(S \ {x}) = Cardinality(S) - 1 /\ Cardinality(S \ {x}) \in Nat
        BY <1>1, <2>1, OneLess, FS_Subset, FS_CardinalityType
    <2>3. Cardinality(S) \in Nat
        BY <1>1, FS_CardinalityType
    <2>. QED
        BY <2>2, <2>3
<1>2. Cardinality(Reservations) > 0 \/ Cardinality(Counted) > 0
    BY <1>1, SetsAreFinite
<1>3. Len(waiting) \in Nat
    BY LenProperties DEF IInv, Types, WorkerPoolTypeOK
<1>. QED
    BY <1>2, <1>3, SetsAreFinite DEF IInv, PlacesAreRight, Places

(* What the actions of a poster and of a thread do to the state's shape.   *)
LEMMA TypeStep ==
    ASSUME Parameters, IInv, WorkerPoolNext
    PROVE  Types' /\ PostersKnowTheLimit'
<1>. DEFINE Goal == Types' /\ PostersKnowTheLimit'
<1>. USE DEF IInv, Types, WorkerPoolTypeOK, PostersKnowTheLimit
<1>1. ASSUME NEW p \in Posters, NEW task \in Tasks, BeginPost(p, task) PROVE Goal
    BY <1>1 DEF BeginPost
<1>2. ASSUME NEW p \in Posters, Reserve(p) PROVE Goal
    BY <1>2 DEF Reserve
<1>3. ASSUME NEW p \in Posters, ReserveAgain(p) PROVE Goal
    BY <1>3 DEF ReserveAgain
<1>4. ASSUME NEW p \in Posters, Refuse(p) PROVE Goal
    BY <1>4 DEF Refuse, Idle
<1>5. ASSUME NEW p \in Posters, Enqueue(p) PROVE Goal
    BY <1>5 DEF Enqueue, Idle
<1>6. ASSUME NEW p \in Posters, EnqueueThrows(p) PROVE Goal
    <2>1. Reserved(p) => Limited /\ p \in Reservations
        BY DEF Reserved, Reservations
    <2>2. CountAfterThrow(p) \in Nat
        BY <2>1, PlacesAreCounted DEF CountAfterThrow
    <2>. QED
        BY <1>6, <2>2 DEF EnqueueThrows, Idle
<1>7. ASSUME NEW w \in Workers, Take(w) PROVE Goal
    <2>1. Head(waiting) \in Tasks /\ Tail(waiting) \in Seq(Tasks)
        BY <1>7 DEF Take
    <2>. QED
        BY <1>7, <2>1 DEF Take, IsCounted, Limited
<1>8. ASSUME NEW w \in Workers, GivePlaceBack(w) PROVE Goal
    <2>1. [running[w] EXCEPT !.counted = FALSE]
              \in [task : Tasks \union {NoTask}, counted : BOOLEAN]
        OBVIOUS
    <2>2. Limited /\ w \in Counted
        BY <1>8 DEF GivePlaceBack, Counted, PlacesAreRight
    <2>3. queued_task_count - 1 \in Nat
        BY <2>2, PlacesAreCounted
    <2>. QED
        BY <1>8, <2>1, <2>3 DEF GivePlaceBack
<1>9. ASSUME NEW w \in Workers, Finish(w) PROVE Goal
    BY <1>9 DEF Finish, Unoccupied
<1>. QED
    BY <1>1, <1>2, <1>3, <1>4, <1>5, <1>6, <1>7, <1>8, <1>9 DEF WorkerPoolNext

LEMMA PlacesStep ==
    ASSUME Parameters, IInv, WorkerPoolNext
    PROVE  PlacesAreRight'
<1>. USE DEF IInv, Types, WorkerPoolTypeOK, PostersKnowTheLimit, PlacesAreRight
<1>0. Len(waiting) \in Nat /\ (Limited => queued_task_count = Places /\ QueueLimit \in Nat)
    BY LimitIsNatural
<1>1. ASSUME NEW p \in Posters, NEW task \in Tasks, BeginPost(p, task) PROVE PlacesAreRight'
    <2>1. Reservations' = Reservations /\ Counted' = Counted
        BY <1>1 DEF BeginPost, Reservations, Counted, Reserved, Idle
    <2>. QED
        BY <1>1, <2>1 DEF BeginPost, Places, Limited
<1>2. ASSUME NEW p \in Posters, Reserve(p) PROVE PlacesAreRight'
    <2>1. Reservations' = Reservations \cup {p} /\ p \notin Reservations /\ Counted' = Counted
        BY <1>2 DEF Reserve, Reservations, Counted, Reserved
    <2>2. Cardinality(Reservations)' = Cardinality(Reservations) + 1
        BY <2>1, OneMore, SetsAreFinite
    <2>3. Limited /\ queued_task_count < QueueLimit
        BY <1>2 DEF Reserve, HasRoom, Unchanged
    <2>. QED
        BY <1>0, <1>2, <2>1, <2>2, <2>3, SetsAreFinite DEF Reserve, Unchanged, Places, Limited
<1>3. ASSUME NEW p \in Posters, ReserveAgain(p) PROVE PlacesAreRight'
    <2>1. Reservations' = Reservations /\ Counted' = Counted
        BY <1>3 DEF ReserveAgain, Reservations, Counted, Reserved
    <2>. QED
        BY <1>3, <2>1 DEF ReserveAgain, Places, Limited
<1>4. ASSUME NEW p \in Posters, Refuse(p) PROVE PlacesAreRight'
    <2>1. Reservations' = Reservations /\ Counted' = Counted
        BY <1>4 DEF Refuse, Reservations, Counted, Reserved, Idle
    <2>. QED
        BY <1>4, <2>1 DEF Refuse, Places, Limited
<1>5. ASSUME NEW p \in Posters, Enqueue(p) PROVE PlacesAreRight'
    <2>1. Counted' = Counted /\ queued_task_count' = queued_task_count
          /\ Len(waiting)' = Len(waiting) + 1
        BY <1>5 DEF Enqueue, Counted
    <2>2. Reservations' = Reservations \ {p}
        BY <1>5 DEF Enqueue, Reservations, Reserved, Idle
    <2>3. CASE Limited
        <3>1. p \in Reservations
            BY <1>5, <2>3 DEF Enqueue, Reservations, Reserved
        <3>2. Cardinality(Reservations)' = Cardinality(Reservations) - 1
            BY <2>2, <3>1, OneLess, SetsAreFinite
        <3>. QED
            BY <1>0, <2>1, <2>3, <3>2, SetsAreFinite DEF Places, Limited
    <2>. QED
        BY <2>1, <2>3 DEF Limited
<1>6. ASSUME NEW p \in Posters, EnqueueThrows(p) PROVE PlacesAreRight'
    <2>1. Counted' = Counted /\ waiting' = waiting
        BY <1>6 DEF EnqueueThrows, Counted
    <2>2. Reservations' = Reservations \ {p}
        BY <1>6 DEF EnqueueThrows, Reservations, Reserved, Idle
    <2>3. CASE Limited
        <3>1. p \in Reservations /\ queued_task_count' = queued_task_count - 1
            BY <1>6, <2>3 DEF EnqueueThrows, CountAfterThrow, Reservations, Reserved
        <3>2. Cardinality(Reservations)' = Cardinality(Reservations) - 1
            BY <2>2, <3>1, OneLess, SetsAreFinite
        <3>. QED
            BY <1>0, <2>1, <2>3, <3>1, <3>2, SetsAreFinite DEF Places, Limited
    <2>4. CASE ~Limited
        BY <1>6, <2>1, <2>4 DEF EnqueueThrows, CountAfterThrow, Reserved, Limited
    <2>. QED
        BY <2>3, <2>4
<1>7. ASSUME NEW w \in Workers, Take(w) PROVE PlacesAreRight'
    <2>1. Reservations' = Reservations /\ queued_task_count' = queued_task_count
          /\ Len(waiting)' = Len(waiting) - 1
        BY <1>7 DEF Take, Reservations, Reserved
    <2>2. CASE Limited
        <3>1. Counted' = Counted \cup {w} /\ w \notin Counted
            BY <1>7, <2>2 DEF Take, IsCounted, Counted, Unoccupied
        <3>2. Cardinality(Counted)' = Cardinality(Counted) + 1
            BY <3>1, OneMore, SetsAreFinite
        <3>. QED
            BY <1>0, <2>1, <2>2, <3>2, SetsAreFinite DEF Places, Limited
    <2>3. CASE ~Limited
        BY <1>7, <2>1, <2>3 DEF Take, IsCounted, Counted, Limited
    <2>. QED
        BY <2>2, <2>3
<1>8. ASSUME NEW w \in Workers, GivePlaceBack(w) PROVE PlacesAreRight'
    <2>1. Reservations' = Reservations /\ waiting' = waiting
          /\ queued_task_count' = queued_task_count - 1
        BY <1>8 DEF GivePlaceBack, Reservations, Reserved
    <2>2. Counted' = Counted \ {w} /\ w \in Counted
        BY <1>8 DEF GivePlaceBack, Counted
    <2>3. Cardinality(Counted)' = Cardinality(Counted) - 1
        BY <2>2, OneLess, SetsAreFinite
    <2>4. Limited
        BY <2>2
    <2>. QED
        BY <1>0, <2>1, <2>3, <2>4, SetsAreFinite DEF Places, Limited
<1>9. ASSUME NEW w \in Workers, Finish(w) PROVE PlacesAreRight'
    <2>1. Reservations' = Reservations /\ Counted' = Counted
        BY <1>9 DEF Finish, Reservations, Counted, Reserved, Unoccupied
    <2>. QED
        BY <1>9, <2>1 DEF Finish, Places, Limited
<1>. QED
    BY <1>1, <1>2, <1>3, <1>4, <1>5, <1>6, <1>7, <1>8, <1>9 DEF WorkerPoolNext

LEMMA NextInvariant ==
    ASSUME Parameters, IInv, [WorkerPoolNext]_workerPoolVars
    PROVE  IInv'
<1>1. CASE WorkerPoolNext
    BY <1>1, TypeStep, PlacesStep DEF IInv
<1>2. CASE UNCHANGED workerPoolVars
    BY <1>2 DEF workerPoolVars, IInv, Types, WorkerPoolTypeOK, PostersKnowTheLimit, PlacesAreRight, Places,
        Reservations, Counted, Reserved, Limited
<1>. QED
    BY <1>1, <1>2

LEMMA SpecInvariant ==
    ASSUME Parameters
    PROVE  WorkerPoolSpec => []IInv
BY InitInvariant, NextInvariant, PTL DEF WorkerPoolSpec

LEMMA PlacesAreNeverLost == IInv => PlacesAreAccountedFor
BY DEF IInv, PlacesAreRight, Places, Reservations, Counted, PlacesAreAccountedFor

LEMMA NeverOverfull ==
    ASSUME Parameters, IInv
    PROVE  QueueIsBounded
<1>. SUFFICES ASSUME Limited PROVE Len(waiting) <= QueueLimit
    BY DEF QueueIsBounded
<1>1. Len(waiting) \in Nat /\ Places <= QueueLimit /\ QueueLimit \in Nat
    BY LimitIsNatural DEF IInv, Types, WorkerPoolTypeOK, PlacesAreRight
<1>. QED
    BY <1>1, SetsAreFinite DEF Places

(* Every place is held by a poster on its way to the thread pool, by a     *)
(* waiting task or by a thread that just took one; and however many race   *)
(* for the last place, no more tasks wait than the limit                   *)
(* (worker_pool::post).                                                    *)
THEOREM QueueStaysSound ==
    ASSUME Parameters
    PROVE  WorkerPoolSpec => [](WorkerPoolTypeOK /\ QueueIsSound)
<1>1. IInv => WorkerPoolTypeOK /\ QueueIsSound
    BY PlacesAreNeverLost, NeverOverfull DEF QueueIsSound, IInv, Types
<1>. QED
    BY <1>1, SpecInvariant, PTL
===============================================================================
