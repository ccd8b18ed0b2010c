----------------------------- MODULE HttpServer -----------------------------
(***************************************************************************)
(* HTTP sessions, each a strand of callbacks (reads, writes, one timer,    *)
(* answers of handlers), over the handlers' worker pool and the pool of    *)
(* database connections.  A completion that has been queued still runs     *)
(* after its operation was cancelled: that is what the generations guard   *)
(* against, so completions are kept until they are delivered, in any       *)
(* order.                                                                  *)
(***************************************************************************)
EXTENDS Naturals, Sequences, FiniteSets

CONSTANTS
    Sessions,
    Workers,         \* handler threads
    QueueLimit,      \* of the handlers' queue
    NoLimit,
    NoTask,
    PoolSize,        \* database connections
    TimesOut,        \* whether a handler waits for a connection only so long
    HasDeadline,     \* request_deadline_opt
    HasIdleTimeout,  \* keep_alive_idle_timeout_opt
    MaxRequests      \* bound: the requests a client sends on one session

VARIABLES
    session,      \* http_session: phase_, request_state_, timer_state_
    completions,  \* the callbacks of a session that have not run
    answers,      \* the responses a session has begun to write, in order
    overdue,      \* history: the requests whose deadline has passed
    observed,     \* history: what on_request_complete was told
    lost,         \* history: the requests whose answer could not be posted
    queued_task_count, waiting, post, running,  \* worker_pool
    free, in_use, connected, lease              \* db_connection_pool

RequestTasks == [session : Sessions, request : 1 .. MaxRequests]

ASSUME LimitAssumption == QueueLimit \in Nat \/ QueueLimit = NoLimit
ASSUME NullAssumption == NoLimit \notin Nat /\ NoTask \notin RequestTasks
ASSUME PeopleAssumption == IsFiniteSet(Sessions) /\ IsFiniteSet(Workers)
ASSUME SizesAssumption == {PoolSize, MaxRequests} \subseteq Nat

Handlers == INSTANCE WorkerPool WITH Posters <- Sessions, Tasks <- RequestTasks
Connections == INSTANCE ConnectionPool

sessionVars == <<session, completions, answers, overdue, observed, lost>>
handlerVars == <<queued_task_count, waiting, post, running>>
connectionVars == <<free, in_use, connected, lease>>
vars == <<sessionVars, handlerVars, connectionVars>>

Statuses == {"handled", "not_found", "unavailable", "internal", "bad_request", "deadline"}

Fresh == [phase |-> "closed", closing |-> FALSE, kind |-> "initial", request |-> 0,
          request_ptr |-> FALSE, mode |-> "none", timer |-> 0, armed |-> FALSE]

Init ==
    /\ session = [s \in Sessions |-> Fresh]
    /\ completions = [s \in Sessions |-> {}]
    /\ answers = [s \in Sessions |-> <<>>]
    /\ overdue = [s \in Sessions |-> {}]
    /\ observed = [s \in Sessions |-> {}]
    /\ lost = [s \in Sessions |-> {}]
    /\ Handlers!WorkerPoolInit
    /\ Connections!ConnectionPoolInit

-----------------------------------------------------------------------------
(* The timer, the request and the socket of a session S *)

\* timer_state::arm
Arm(S, mode) == [S EXCEPT !.mode = mode, !.timer = @ + 1, !.armed = TRUE]

\* timer_state::cancel
Cancel(S) == [S EXCEPT !.mode = "none", !.timer = @ + 1, !.armed = FALSE]

\* timer_state::matches
TimerMatches(S, c) == S.mode = c.mode /\ S.timer = c.timer

\* arm_request_deadline and arm_keep_alive_idle_timeout
ArmIf(configured, S, mode) == IF configured THEN Arm(S, mode) ELSE Cancel(S)

\* start_read: begin_read and the timer that goes with it
StartRead(S, kind) ==
    LET T == [S EXCEPT !.phase = "reading", !.kind = kind, !.request = @ + 1, !.request_ptr = FALSE]
    IN IF kind = "keep_alive_followup" THEN ArmIf(HasIdleTimeout, T, "keep_alive_idle")
                                       ELSE Cancel(T)

\* close: clear_payload keeps the generation.
Closed(S) ==
    [Cancel(S) EXCEPT !.closing = TRUE, !.phase = "closed",
                      !.request_ptr = FALSE, !.kind = "initial"]

\* The strand of s runs one callback at a time: it is busy while it posts.
StrandIsFree(s) == post[s] = Handlers!Idle

\* The callback c of s runs.
Delivers(s, c, op) == StrandIsFree(s) /\ c \in completions[s] /\ c.op = op

Completion(op, request) == [op |-> op, request |-> request]
Answer(request, status, eof) == [op |-> "handler", request |-> request, status |-> status, eof |-> eof]

\* After callback c the session is S and `more` callbacks are outstanding.
Becomes(s, c, S, more) ==
    /\ session' = [session EXCEPT ![s] = S]
    /\ completions' = [completions EXCEPT ![s] = (@ \ {c}) \union more]

\* write_response
Writes(s, c, S, status, eof) ==
    /\ Becomes(s, c, [S EXCEPT !.phase = "writing"],
               {[op |-> "write", request |-> S.request, eof |-> eof]})
    /\ answers' = [answers EXCEPT ![s] = Append(@, [request |-> S.request, status |-> status])]

Observes(s, request, status) ==
    observed' = [observed EXCEPT ![s] = @ \union {[request |-> request, status |-> status]}]

-----------------------------------------------------------------------------
(* Callbacks of a session *)

\* acceptor::on_accept and http_session::run
Accept(s) ==
    /\ session[s] = Fresh
    /\ session' = [session EXCEPT ![s] = StartRead(@, "initial")]
    /\ completions' = [completions EXCEPT ![s] = {Completion("read", 1)}]
    /\ UNCHANGED <<answers, overdue, observed, lost, handlerVars, connectionVars>>

\* What on_read asks first.
ReadMatches(S, c) == S.phase = "reading" /\ S.request = c.request

\* A whole request: it goes to the handlers, its deadline begins.
OnReadRequest(s, c) ==
    LET S == [Cancel(session[s]) EXCEPT !.phase = "awaiting_handler", !.request_ptr = TRUE] IN
    /\ Delivers(s, c, "read")
    /\ ReadMatches(session[s], c)
    /\ c.request <= MaxRequests
    /\ Becomes(s, c, ArmIf(HasDeadline, S, "request_deadline"), {})
    /\ Handlers!BeginPost(s, [session |-> s, request |-> c.request])
    /\ UNCHANGED <<answers, overdue, observed, lost, connectionVars>>

\* Nothing that parses, or too large a body.
OnReadBadRequest(s, c) ==
    /\ Delivers(s, c, "read")
    /\ ReadMatches(session[s], c)
    /\ Writes(s, c, Cancel(session[s]), "bad_request", TRUE)
    /\ Observes(s, c.request, "bad_request")
    /\ UNCHANGED <<overdue, lost, handlerVars, connectionVars>>

\* The client has closed its side.
OnReadEndOfStream(s, c) ==
    /\ Delivers(s, c, "read")
    /\ ReadMatches(session[s], c)
    /\ Becomes(s, c, Closed(Cancel(session[s])), {})
    /\ UNCHANGED <<answers, overdue, observed, lost, handlerVars, connectionVars>>

\* Any other error: the timer is stopped, and nothing refers to the session any more.
OnReadError(s, c) ==
    /\ Delivers(s, c, "read")
    /\ ReadMatches(session[s], c)
    /\ Becomes(s, c, Cancel(session[s]), {})
    /\ UNCHANGED <<answers, overdue, observed, lost, handlerVars, connectionVars>>

\* Mutant of ResponseMatches: the phase is not asked.
ResponseMatchesAnyPhase(S, c) == ~ S.closing /\ S.request = c.request

\* What on_handler_response asks.
ResponseMatches(S, c) == ~ S.closing /\ S.phase = "awaiting_handler" /\ S.request = c.request

OnHandlerResponse(s, c) ==
    /\ Delivers(s, c, "handler")
    /\ ResponseMatches(session[s], c)
    /\ Writes(s, c, session[s], c.status, c.eof)
    /\ UNCHANGED <<overdue, observed, lost, handlerVars, connectionVars>>

\* What on_write asks first.
WriteMatches(S, c) == S.phase = "writing" /\ S.request = c.request

OnWrite(s, c) ==
    LET S == Cancel(session[s]) IN
    /\ Delivers(s, c, "write")
    /\ WriteMatches(session[s], c)
    /\ IF c.eof THEN Becomes(s, c, Closed(S), {})
                ELSE Becomes(s, c, StartRead(S, "keep_alive_followup"),
                             {Completion("read", S.request + 1)})
    /\ UNCHANGED <<answers, overdue, observed, lost, handlerVars, connectionVars>>

\* The client is gone: the session is dropped with its socket.
OnWriteError(s, c) ==
    /\ Delivers(s, c, "write")
    /\ WriteMatches(session[s], c)
    /\ Becomes(s, c, Cancel(session[s]), {})
    /\ UNCHANGED <<answers, overdue, observed, lost, handlerVars, connectionVars>>

-----------------------------------------------------------------------------
(* The timer *)

\* The time passes; from now on cancel comes too late.
Expire(s) ==
    LET S == session[s] IN
    /\ S.armed
    /\ session' = [session EXCEPT ![s].armed = FALSE]
    /\ completions' = [completions EXCEPT ![s] = @ \union
           {[op |-> "timer", mode |-> S.mode, timer |-> S.timer]}]
    /\ overdue' = IF S.mode = "request_deadline"
                  THEN [overdue EXCEPT ![s] = @ \union {S.request}] ELSE overdue
    /\ UNCHANGED <<answers, observed, lost, handlerVars, connectionVars>>

\* What on_timer_fired asks first.
TimerIsCurrent(S, c) == ~ S.closing /\ TimerMatches(S, c)

\* Mutant of ClosesOnTimer: a deadline closes whatever the session is doing.
ClosesOnAnyTimer(S, c) == c.mode = "request_deadline" \/ S.phase = "reading"

\* Mutant of ClosesOnTimer: a deadline is for handlers only.
ClosesOnIdleTimer(S, c) == c.mode = "keep_alive_idle" /\ S.phase = "reading"

\* An idle session is closed, and so is one whose client is slow to read.
ClosesOnTimer(S, c) ==
    \/ c.mode = "keep_alive_idle" /\ S.phase = "reading" /\ S.kind = "keep_alive_followup"
    \/ c.mode = "request_deadline" /\ S.request_ptr /\ S.phase = "writing"

OnTimerFiredClose(s, c) ==
    LET S == session[s] IN
    /\ Delivers(s, c, "timer")
    /\ TimerIsCurrent(S, c)
    /\ ClosesOnTimer(S, c)
    /\ Becomes(s, c, Closed(Cancel(S)), {})
    /\ UNCHANGED <<answers, overdue, observed, lost, handlerVars, connectionVars>>

\* The handler is late: the client is told, and what the handler says later is dropped.
OnTimerFiredDeadline(s, c) ==
    LET S == session[s] IN
    /\ Delivers(s, c, "timer")
    /\ TimerIsCurrent(S, c)
    /\ c.mode = "request_deadline" /\ S.request_ptr /\ S.phase = "awaiting_handler"
    /\ Writes(s, c, Cancel(S), "deadline", TRUE)
    /\ Observes(s, S.request, "deadline")
    /\ UNCHANGED <<overdue, lost, handlerVars, connectionVars>>

\* A callback that finds another phase or generation than its own does nothing.
Stale(s, c) ==
    LET S == session[s] IN
    CASE c.op = "read" -> ~ ReadMatches(S, c)
      [] c.op = "write" -> ~ WriteMatches(S, c)
      [] c.op = "handler" -> ~ ResponseMatches(S, c)
      [] c.op = "timer" -> ~ TimerIsCurrent(S, c)

OnStale(s, c) ==
    /\ StrandIsFree(s)
    /\ c \in completions[s]
    /\ Stale(s, c)
    /\ Becomes(s, c, session[s], {})
    /\ UNCHANGED <<answers, overdue, observed, lost, handlerVars, connectionVars>>

-----------------------------------------------------------------------------
(* async_handle and the handlers *)

\* Mutant of Answers: the callback is not called.
AnswersNobody(task, status, eof) ==
    Observes(task.session, task.request, status) /\ UNCHANGED <<completions, lost>>

\* The callback of async_handle posts the answer to the session.  Where that throws,
\* the answer is gone: it was logged, and the session hears nothing.
Answers(task, status, eof) ==
    /\ Observes(task.session, task.request, status)
    /\ \/ /\ completions' = [completions EXCEPT ![task.session] =
                 @ \union {Answer(task.request, status, eof)}]
          /\ UNCHANGED lost
       \/ /\ lost' = [lost EXCEPT ![task.session] = @ \union {task.request}]
          /\ UNCHANGED completions

PostsOn(s) ==
    /\ Handlers!Reserve(s) \/ Handlers!ReserveAgain(s) \/ Handlers!Enqueue(s)
    /\ UNCHANGED <<sessionVars, connectionVars>>

\* "handler queue is full, retry later"
QueueIsFull(s) ==
    /\ Handlers!Refuse(s)
    /\ \E eof \in BOOLEAN : Answers(post[s].task, "unavailable", eof)
    /\ UNCHANGED <<session, answers, overdue, connectionVars>>

PostFails(s) ==
    /\ Handlers!EnqueueThrows(s)
    /\ \E eof \in BOOLEAN : Answers(post[s].task, "internal", eof)
    /\ UNCHANGED <<session, answers, overdue, connectionVars>>

StartTask(w) ==
    /\ Handlers!Take(w) \/ Handlers!GivePlaceBack(w)
    /\ UNCHANGED <<sessionVars, connectionVars>>

\* Worker w is in http_dispatcher::handle.
Handling(w) == running[w].task # NoTask /\ ~ running[w].counted

\* handle returns: the answer is logged and goes to the session.
Returns(w, status) ==
    /\ Handling(w)
    /\ Handlers!Finish(w)
    /\ \E eof \in BOOLEAN : Answers(running[w].task, status, eof)
    /\ UNCHANGED <<session, answers, overdue>>

\* /system routes but /status, and paths no router knows, need no connection.
HandleWithoutConnection(w) ==
    /\ lease[w] = Connections!NoLease
    /\ \E status \in {"handled", "not_found"} : Returns(w, status)
    /\ UNCHANGED connectionVars

AcquireConnection(w) ==
    /\ Handling(w)
    /\ \/ Connections!BeginAcquire(w) \/ Connections!AcquireSlot(w)
       \/ Connections!ConnectionIsGood(w) \/ Connections!Reconnects(w)
    /\ UNCHANGED <<sessionVars, handlerVars>>

\* "db connection pool is busy, retry later"
PoolIsBusy(w) == Connections!AcquireTimesOut(w) /\ Returns(w, "unavailable")

CannotConnect(w) == Connections!ReconnectFails(w) /\ Returns(w, "internal")

\* The connection breaks under a handler, or a retry repairs it.
UseConnection(w) ==
    /\ Connections!Breaks(w) \/ Connections!Repairs(w)
    /\ UNCHANGED <<sessionVars, handlerVars>>

\* A router answers; the lease dies with the request_context.
HandleWithConnection(w) ==
    /\ Connections!Release(w)
    /\ \E status \in {"handled", "not_found", "internal"} : Returns(w, status)

\* A request is being posted, is in the queue, or a worker has it.
IsUnderWay(task) ==
    \/ post[task.session].task = task
    \/ \E i \in DOMAIN waiting : waiting[i] = task
    \/ \E w \in Workers : running[w].task = task

\* No timer, callback or task refers to the session any more: its destructor closes the
\* socket.
Dropped(s) ==
    /\ completions[s] = {}
    /\ ~ session[s].armed
    /\ \A n \in 1 .. MaxRequests : ~ IsUnderWay([session |-> s, request |-> n])

SessionNext(s) ==
    \/ Accept(s)
    \/ Expire(s)
    \/ \E c \in completions[s] :
        \/ OnReadRequest(s, c) \/ OnReadBadRequest(s, c) \/ OnReadEndOfStream(s, c)
        \/ OnReadError(s, c) \/ OnHandlerResponse(s, c) \/ OnWrite(s, c) \/ OnWriteError(s, c)
        \/ OnTimerFiredClose(s, c) \/ OnTimerFiredDeadline(s, c) \/ OnStale(s, c)
    \/ PostsOn(s) \/ QueueIsFull(s) \/ PostFails(s)

HandlerNext(w) ==
    \/ StartTask(w) \/ HandleWithoutConnection(w) \/ AcquireConnection(w) \/ PoolIsBusy(w)
    \/ CannotConnect(w) \/ UseConnection(w) \/ HandleWithConnection(w)

Next == (\E s \in Sessions : SessionNext(s)) \/ (\E w \in Workers : HandlerNext(w))

Spec == Init /\ [][Next]_vars

(* Time passes, threads run, a service call ends (its retries are counted). *)
(* Nothing is assumed of clients: reads and writes may never complete.      *)

\* A callback that does not wait for the client.
RunsCallback(s) ==
    \E c \in completions[s] :
        \/ OnHandlerResponse(s, c) \/ OnTimerFiredClose(s, c) \/ OnTimerFiredDeadline(s, c)
        \/ c.op \in {"handler", "timer"} /\ OnStale(s, c)

Fairness ==
    /\ \A s \in Sessions :
        /\ WF_vars(Expire(s))
        /\ WF_vars(RunsCallback(s))
        /\ WF_vars(PostsOn(s) \/ QueueIsFull(s))
    /\ \A w \in Workers :
        /\ WF_vars(StartTask(w))
        /\ WF_vars(HandleWithoutConnection(w) \/ AcquireConnection(w))
        /\ WF_vars(PoolIsBusy(w))
        /\ WF_vars(HandleWithConnection(w))

FairSpec == Spec /\ Fairness

-----------------------------------------------------------------------------
(* Properties *)

TypeOK ==
    /\ \A s \in Sessions :
        /\ session[s].phase \in {"reading", "awaiting_handler", "writing", "closed"}
        /\ session[s].kind \in {"initial", "keep_alive_followup"}
        /\ session[s].mode \in {"none", "keep_alive_idle", "request_deadline"}
        /\ session[s].request \in Nat
        /\ session[s].timer \in Nat
        /\ \A c \in completions[s] : c.op \in {"read", "write", "timer", "handler"}
        /\ \A i \in DOMAIN answers[s] : answers[s][i].status \in Statuses
    /\ Handlers!WorkerPoolTypeOK
    /\ Connections!ConnectionPoolTypeOK

\* However the deadline, the handler and the client race, a request is answered
\* at most once and answers keep the order of the requests: a second response
\* on the connection would be read as the answer to the next request
\* (on_handler_response and on_timer_fired, http_session.cpp:157-214, 305-318).
OneAnswerPerRequest ==
    \A s \in Sessions : \A i, j \in DOMAIN answers[s] :
        i < j => answers[s][i].request < answers[s][j].request

\* At most one async_write of a session is outstanding, and only while it is
\* writing (write_response, http_session.cpp:357-379).
OneWriteAtATime ==
    \A s \in Sessions : \A b, c \in {c \in completions[s] : c.op = "write"} : b = c

\* A request is refused for its deadline only when its own deadline passed, not
\* when the timer of an earlier request or of an idle wait fired late
\* (on_timer_fired, http_session.cpp:162-168).
DeadlineIsItsOwn ==
    \A s \in Sessions : \A i \in DOMAIN answers[s] :
        answers[s][i].status = "deadline" => answers[s][i].request \in overdue[s]

\* The deadline of what session s waits for will be noticed: its timer runs, or has
\* expired and its callback is still to be delivered.
DeadlineStands(s) ==
    \/ session[s].armed
    \/ \E c \in completions[s] : c.op = "timer" /\ TimerIsCurrent(session[s], c)

\* A session that waits for its handler will hear of it: the request is on its way
\* into the queue, in the queue, with a worker, or answered to the session; only the
\* answer whose post threw never comes.  And a deadline that was set for the request
\* stands as long as the session waits, so that it answers what was lost, too
\* (async_handle, http_server.cpp:48-83; http_session.cpp:277-302, 381-400).
NoRequestIsForgotten ==
    \A s \in Sessions : session[s].phase = "awaiting_handler" =>
        /\ \/ IsUnderWay([session |-> s, request |-> session[s].request])
           \/ \E c \in completions[s] : c.op = "handler" /\ c.request = session[s].request
           \/ session[s].request \in lost[s]
        /\ session[s].mode = "request_deadline" => DeadlineStands(s)

\* Every response that is written was reported to the observer with its status:
\* the log shows what clients saw (observe_response and finalize_response,
\* http_session.cpp:463-477, http_dispatcher.cpp:12-27).
AnswersAreObserved ==
    \A s \in Sessions : \A i \in DOMAIN answers[s] : answers[s][i] \in observed[s]

\* A client can take the n-th answer of its connection for the answer to its n-th
\* request, and the log for what it was told, whatever raced (http_session.cpp:157-379).
AnswersAreInOrder ==
    TypeOK /\ OneAnswerPerRequest /\ OneWriteAtATime /\ DeadlineIsItsOwn /\ AnswersAreObserved

\* A slot of the pool is free or with one handler (db_connection_pool.cpp:20-42,
\* 118-126).
SlotsAreKept == Connections!SlotsAreKept

\* The handlers' queue takes a request exactly while it has a place (worker_pool.hpp:28-79).
QueueIsSound == Handlers!QueueIsSound

\* What has been closed stays closed and writes no more, whatever callbacks
\* were queued when it was closed (close, http_session.cpp:428-461).
NothingAfterClose ==
    [][\A s \in Sessions : session[s].closing =>
        session'[s].phase = "closed" /\ answers'[s] = answers[s]]_vars

\* A connection that works for one request is not closed by another's timer: a
\* session closes only when it reads or writes, never while it waits for a
\* handler (on_timer_fired, http_session.cpp:172-210).
NoCloseWhileHandling ==
    [][\A s \in Sessions :
        session[s].phase = "awaiting_handler" => session'[s].phase # "closed"]_vars

\* A session is closed by what is its own, once, and for good (on_timer_fired and
\* close, http_session.cpp:157-214, 428-461).
ClosesWhenItShould == NothingAfterClose /\ NoCloseWhileHandling

\* No client waits for ever: every request is answered, also when the queue is full, a
\* connection cannot be had, all handlers are busy or the answer is lost; only without a
\* deadline a lost answer ends the connection instead (async_handle, on_timer_fired).
NobodyWaitsForEver ==
    \A s \in Sessions :
        session[s].phase = "awaiting_handler"
            ~> \/ session[s].phase # "awaiting_handler"
               \/ ~ HasDeadline /\ session[s].request \in lost[s] /\ Dropped(s)

\* A client that keeps a connection and sends nothing more does not keep the
\* session (arm_keep_alive_idle_timeout, http_session.cpp:402-421).
IdleSessionsEnd ==
    \A s \in Sessions : \A n \in 2 .. MaxRequests + 1 :
        (session[s].phase = "reading" /\ session[s].request = n)
            ~> \/ session[s].phase # "reading"
               \/ session[s].request # n
               \/ Dropped(s)

\* A client that does not read the answer of its handler does not keep the
\* session either: the deadline of the request is still armed
\* (on_timer_fired, http_session.cpp:192-198).
SlowReadersAreClosed ==
    \A s \in Sessions :
        (session[s].phase = "writing" /\ session[s].armed)
            ~> session[s].phase # "writing" \/ Dropped(s)

\* A client that has gone silent, before or after an answer, does not keep the
\* socket (on_timer_fired and arm_keep_alive_idle_timeout).
SilentClientsAreDropped == IdleSessionsEnd /\ SlowReadersAreClosed
=============================================================================
