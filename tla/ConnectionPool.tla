--------------------------- MODULE ConnectionPool ---------------------------
(***************************************************************************)
(* db_connection_pool: slots with a database connection each, a queue of   *)
(* the free ones behind a mutex, and leases that give their slot back when *)
(* they are destroyed.  A condition variable that waits for a predicate    *)
(* under the mutex is the enabling condition of an action here.            *)
(***************************************************************************)
EXTENDS Naturals, Sequences

CONSTANTS
    Workers,       \* the threads that lease connections
    PoolSize,      \* pool_size
    TimesOut       \* whether acquire_for is called, and not acquire

VARIABLES
    free,          \* free_slot_indices_
    in_use,        \* slot::in_use_
    connected,     \* what db_connection::is_connected says of a slot
    lease          \* where each thread is, and the slot it has

connectionPoolVars == <<free, in_use, connected, lease>>

Slots == 0 .. PoolSize - 1
NoSlot == PoolSize

NoLease == [step |-> "none", slot |-> NoSlot]

Holds(w) == lease[w].step \in {"checking", "leased"}
Leased(w) == lease[w].step = "leased"
Slot(w) == lease[w].slot

\* create: every connection is open, or there is no pool.
ConnectionPoolInit ==
    /\ free = [i \in 1 .. PoolSize |-> i - 1]
    /\ in_use = [slot \in Slots |-> FALSE]
    /\ connected = [slot \in Slots |-> TRUE]
    /\ lease = [w \in Workers |-> NoLease]

-----------------------------------------------------------------------------
(* acquire, acquire_for *)

BeginAcquire(w) ==
    /\ lease[w] = NoLease
    /\ lease' = [lease EXCEPT ![w] = [step |-> "waiting", slot |-> NoSlot]]
    /\ UNCHANGED <<free, in_use, connected>>

\* Mutant of OthersFree: the index is read and not taken.
AllFree == free

\* What is left in free_slot_indices_ when its first is taken.
OthersFree == Tail(free)

AcquireSlot(w) ==
    /\ lease[w].step = "waiting"
    /\ free # <<>>
    /\ free' = OthersFree
    /\ in_use' = [in_use EXCEPT ![Head(free)] = TRUE]
    /\ lease' = [lease EXCEPT ![w] = [step |-> "checking", slot |-> Head(free)]]
    /\ UNCHANGED connected

\* wait_for looks once more when the time has passed.
AcquireTimesOut(w) ==
    /\ TimesOut
    /\ lease[w].step = "waiting"
    /\ free = <<>>
    /\ lease' = [lease EXCEPT ![w] = NoLease]
    /\ UNCHANGED <<free, in_use, connected>>

\* is_connected
ConnectionIsGood(w) ==
    /\ lease[w].step = "checking"
    /\ connected[Slot(w)]
    /\ lease' = [lease EXCEPT ![w].step = "leased"]
    /\ UNCHANGED <<free, in_use, connected>>

Reconnects(w) ==
    /\ lease[w].step = "checking"
    /\ ~ connected[Slot(w)]
    /\ connected' = [connected EXCEPT ![Slot(w)] = TRUE]
    /\ lease' = [lease EXCEPT ![w].step = "leased"]
    /\ UNCHANGED <<free, in_use>>

-----------------------------------------------------------------------------
(* Giving a slot back *)

\* release_slot_index
ReleaseSlot(slot) ==
    /\ in_use' = [in_use EXCEPT ![slot] = FALSE]
    /\ free' = IF in_use[slot] THEN Append(free, slot) ELSE free

\* The slot is released and the error returned.
ReconnectFails(w) ==
    /\ lease[w].step = "checking"
    /\ ~ connected[Slot(w)]
    /\ ReleaseSlot(Slot(w))
    /\ lease' = [lease EXCEPT ![w] = NoLease]
    /\ UNCHANGED connected

\* ~lease: whatever state its connection is in.
Release(w) ==
    /\ Leased(w)
    /\ ReleaseSlot(Slot(w))
    /\ lease' = [lease EXCEPT ![w] = NoLease]
    /\ UNCHANGED connected

-----------------------------------------------------------------------------
(* The connection of a lease *)

\* A statement finds that the connection is gone.
Breaks(w) ==
    /\ Leased(w)
    /\ connected[Slot(w)]
    /\ connected' = [connected EXCEPT ![Slot(w)] = FALSE]
    /\ UNCHANGED <<free, in_use, lease>>

\* A retry reconnects before it tries again.
Repairs(w) ==
    /\ Leased(w)
    /\ ~ connected[Slot(w)]
    /\ connected' = [connected EXCEPT ![Slot(w)] = TRUE]
    /\ UNCHANGED <<free, in_use, lease>>

WorkersNext(w) ==
    \/ BeginAcquire(w) \/ AcquireSlot(w) \/ AcquireTimesOut(w)
    \/ ConnectionIsGood(w) \/ Reconnects(w) \/ ReconnectFails(w)
    \/ Release(w) \/ Breaks(w) \/ Repairs(w)

ConnectionPoolNext == \E w \in Workers : WorkersNext(w)

ConnectionPoolSpec == ConnectionPoolInit /\ [][ConnectionPoolNext]_connectionPoolVars

-----------------------------------------------------------------------------
(* Properties *)

ConnectionPoolTypeOK ==
    /\ free \in Seq(Slots)
    /\ in_use \in [Slots -> BOOLEAN]
    /\ connected \in [Slots -> BOOLEAN]
    /\ lease \in [Workers -> [step : {"none", "waiting", "checking", "leased"},
                              slot : Slots \union {NoSlot}]]

\* Two threads never work on one connection: the transaction of one would run
\* inside the transaction of the other (acquire_slot_index,
\* db_connection_pool.cpp:20-42).
NoConnectionIsShared ==
    \A v, w \in Workers : Holds(v) /\ Holds(w) /\ Slot(v) = Slot(w) => v = w

\* A slot nobody holds is in the queue, whatever went wrong with its
\* connection: a pool that loses slots ends with every request refused
\* (acquire_impl and release, db_connection_pool.cpp:118-126, 183-207).
NoSlotIsLost ==
    \A slot \in Slots :
        (\E i \in DOMAIN free : free[i] = slot) \/ (\E w \in Workers : Holds(w) /\ Slot(w) = slot)

\* A slot is free or with one thread, always (db_connection_pool.cpp:20-42, 118-207).
SlotsAreKept == NoConnectionIsShared /\ NoSlotIsLost
=============================================================================
