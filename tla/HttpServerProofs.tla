---------------------------- MODULE HttpServerProofs ----------------------------
(***************************************************************************)
(* Proofs about HttpServer, for any number of sessions, handlers,          *)
(* connections and requests, with or without limits and timeouts: however  *)
(* reads, writes, timers and handlers race, a client gets its own answers  *)
(* in order, no request is forgotten and no connection is shared or lost.  *)
(***************************************************************************)
EXTENDS HttpServer, Integers, SequenceTheorems, TLAPS

(* What is proved of any worker pool.                                      *)
Queue == INSTANCE WorkerPoolProofs WITH Posters <- Sessions, Tasks <- RequestTasks

LEMMA Sizes == MaxRequests \in Nat /\ PoolSize \in Nat /\ NoTask \notin RequestTasks
BY SizesAssumption, NullAssumption

Modes == {"none", "keep_alive_idle", "request_deadline"}

SessionState ==
    [phase : {"reading", "awaiting_handler", "writing", "closed"}, closing : BOOLEAN,
     kind : {"initial", "keep_alive_followup"}, request : Nat, request_ptr : BOOLEAN,
     mode : Modes, timer : Nat, armed : BOOLEAN]

Reply == [request : Nat, status : Statuses]

(* The state of one session: S is its record, C the callbacks that have    *)
(* not run, A its answers, O the requests that are overdue, B what the     *)
(* observer was told.                                                      *)

(* Requests are numbered, and one that has not been answered is the last.  *)
InOrder(S, A) ==
    /\ A \in Seq(Reply)
    /\ \A i \in 1 .. Len(A) : A[i].request <= S.request
    /\ \A i, j \in 1 .. Len(A) : i < j => A[i].request < A[j].request
    /\ S.phase \in {"reading", "awaiting_handler"} =>
        \A i \in 1 .. Len(A) : A[i].request < S.request

(* A write is begun only where none is outstanding.                        *)
WritesOnce(S, C) ==
    /\ \A c \in C : c.op = "write" => S.phase \in {"writing", "closed"}
    /\ \A b, c \in C : b.op = "write" /\ c.op = "write" => b = c

(* A timer that is still current belongs to the present request.           *)
KnowsItsDeadlines(S, C, A, O) ==
    /\ \A c \in C : c.op = "timer" =>
        /\ c.timer \in Nat /\ c.timer <= S.timer
        /\ c.timer = S.timer /\ c.mode = "request_deadline" => S.request \in O
    /\ \A c \in C : c.op = "handler" => c.status # "deadline" /\ c.status \in Statuses
    /\ \A i \in 1 .. Len(A) : A[i].status = "deadline" => A[i].request \in O

TellsTheObserver(C, A, B) ==
    /\ \A i \in 1 .. Len(A) : A[i] \in B
    /\ \A c \in C : c.op = "handler" => [request |-> c.request, status |-> c.status] \in B

HasCallbacks(C) == \A c \in C : c.op \in {"read", "write", "timer", "handler"}

Good(S, C, A, O, B) ==
    /\ S \in SessionState
    /\ HasCallbacks(C)
    /\ S.closing => S.phase = "closed"
    /\ S.phase = "reading" => S.request > 0
    /\ InOrder(S, A)
    /\ WritesOnce(S, C)
    /\ KnowsItsDeadlines(S, C, A, O)
    /\ TellsTheObserver(C, A, B)

GoodSession(s) == Good(session[s], completions[s], answers[s], overdue[s], observed[s])

IInv ==
    /\ session = [s \in Sessions |-> session[s]]
    /\ completions = [s \in Sessions |-> completions[s]]
    /\ answers = [s \in Sessions |-> answers[s]]
    /\ overdue = [s \in Sessions |-> overdue[s]]
    /\ observed = [s \in Sessions |-> observed[s]]
    /\ \A s \in Sessions : GoodSession(s)

-----------------------------------------------------------------------------
(* The timer, the request and the socket.                                  *)

LEMMA TimerFields ==
    ASSUME NEW S \in SessionState, NEW configured, NEW mode \in Modes,
           NEW T \in {Cancel(S), ArmIf(configured, S, mode)}
    PROVE  /\ T \in SessionState /\ T.timer = S.timer + 1
           /\ T.phase = S.phase /\ T.closing = S.closing /\ T.kind = S.kind
           /\ T.request = S.request /\ T.request_ptr = S.request_ptr
<1>1. S = [phase |-> S.phase, closing |-> S.closing, kind |-> S.kind, request |-> S.request,
           request_ptr |-> S.request_ptr, mode |-> S.mode, timer |-> S.timer, armed |-> S.armed]
    BY DEF SessionState
<1>2. PICK m \in Modes, armed \in BOOLEAN :
        T = [S EXCEPT !.mode = m, !.timer = @ + 1, !.armed = armed]
    BY DEF Cancel, ArmIf, Arm, Modes
<1>3. T = [phase |-> S.phase, closing |-> S.closing, kind |-> S.kind, request |-> S.request,
           request_ptr |-> S.request_ptr, mode |-> m, timer |-> S.timer + 1, armed |-> armed]
    BY <1>1, <1>2
<1>4. S.timer + 1 \in Nat
    BY DEF SessionState
<1>. QED
    BY <1>3, <1>4 DEF SessionState

LEMMA StartReadFields ==
    ASSUME NEW S \in SessionState, NEW kind \in {"initial", "keep_alive_followup"},
           NEW T, T = StartRead(S, kind)
    PROVE  /\ T \in SessionState /\ T.timer = S.timer + 1
           /\ T.phase = "reading" /\ T.closing = S.closing
           /\ T.request = S.request + 1
<1>1. PICK R : R = [S EXCEPT !.phase = "reading", !.kind = kind, !.request = @ + 1,
                             !.request_ptr = FALSE]
    OBVIOUS
<1>4. S = [phase |-> S.phase, closing |-> S.closing, kind |-> S.kind, request |-> S.request,
           request_ptr |-> S.request_ptr, mode |-> S.mode, timer |-> S.timer, armed |-> S.armed]
    BY DEF SessionState
<1>5. R = [phase |-> "reading", closing |-> S.closing, kind |-> kind, request |-> S.request + 1,
           request_ptr |-> FALSE, mode |-> S.mode, timer |-> S.timer, armed |-> S.armed]
    BY <1>1, <1>4
<1>6. S.request + 1 \in Nat
    BY DEF SessionState
<1>2. /\ R \in SessionState /\ R.timer = S.timer /\ R.phase = "reading"
      /\ R.closing = S.closing /\ R.request = S.request + 1
    BY <1>5, <1>6 DEF SessionState
<1>3. T \in {Cancel(R), ArmIf(HasIdleTimeout, R, "keep_alive_idle")}
    BY <1>1 DEF StartRead
<1>. QED
    BY <1>2, <1>3, TimerFields DEF Modes

LEMMA ClosedFields ==
    ASSUME NEW S \in SessionState, NEW T, T = Closed(S)
    PROVE  /\ T \in SessionState /\ T.timer = S.timer + 1
           /\ T.phase = "closed" /\ T.closing /\ T.request = S.request
<1>1. PICK R : R = Cancel(S)
    OBVIOUS
<1>2. R \in SessionState /\ R.timer = S.timer + 1 /\ R.request = S.request
    BY <1>1, TimerFields DEF Modes
<1>3. T = [R EXCEPT !.closing = TRUE, !.phase = "closed", !.request_ptr = FALSE, !.kind = "initial"]
    BY <1>1 DEF Closed
<1>. QED
    BY <1>2, <1>3 DEF SessionState

-----------------------------------------------------------------------------
LEMMA RepliesType ==
    ASSUME NEW A \in Seq(Reply), NEW i \in 1 .. Len(A)
    PROVE  A[i].request \in Nat
<1>1. A[i] \in Reply
    BY ElementOfSeq
<1>. QED
    BY <1>1 DEF Reply

(* A session that answers nothing.                                         *)

LEMMA QuietSession ==
    ASSUME NEW S, NEW C, NEW A, NEW O, NEW B, Good(S, C, A, O, B),
           NEW T \in SessionState, NEW D,
           T.closing => T.phase = "closed",
           T.phase = "reading" => T.request > 0,
           \/ T.timer = S.timer /\ T.request = S.request
           \/ T.timer > S.timer,
           T.request >= S.request,
           T.phase \in {"reading", "awaiting_handler"} =>
                \/ T.request > S.request
                \/ S.phase \in {"reading", "awaiting_handler"},
           \A c \in D : c \in C \/ c.op = "read",
           \A c \in D : c.op = "write" => T.phase \in {"writing", "closed"}
    PROVE  Good(T, D, A, O, B)
<1>1. S \in SessionState /\ S.request \in Nat /\ T.request \in Nat /\ S.timer \in Nat /\ T.timer \in Nat
    BY DEF Good, SessionState
<1>2. A \in Seq(Reply) /\ \A i \in 1 .. Len(A) : A[i].request \in Nat
    BY RepliesType DEF Good, InOrder
<1>3. InOrder(T, A)
    BY <1>1, <1>2 DEF Good, InOrder
<1>4. WritesOnce(T, D)
    BY DEF Good, WritesOnce
<1>5. KnowsItsDeadlines(T, D, A, O)
    BY <1>1 DEF Good, KnowsItsDeadlines
<1>6. TellsTheObserver(D, A, B)
    BY DEF Good, TellsTheObserver
<1>7. HasCallbacks(D)
    BY DEF Good, HasCallbacks
<1>. QED
    BY <1>3, <1>4, <1>5, <1>6, <1>7 DEF Good

(* A session that begins to write its answer.                              *)
LEMMA AnsweringSession ==
    ASSUME NEW S, NEW C, NEW A, NEW O, NEW B, Good(S, C, A, O, B),
           S.phase \in {"reading", "awaiting_handler"},
           NEW T \in SessionState, T.phase = "writing", ~T.closing,
           T.request = S.request, T.timer >= S.timer,
           NEW D, NEW write, write.op = "write",
           \A c \in D : c \in C \/ c = write,
           NEW status \in Statuses, status = "deadline" => S.request \in O,
           NEW E, B \subseteq E,
           NEW reply, reply = [request |-> S.request, status |-> status], reply \in E
    PROVE  Good(T, D, Append(A, reply), O, E)
<1>1. S \in SessionState /\ S.request \in Nat /\ S.timer \in Nat /\ T.timer \in Nat
    BY DEF Good, SessionState
<1>2. A \in Seq(Reply) /\ Len(A) \in Nat /\ \A i \in 1 .. Len(A) : A[i].request \in Nat
    BY RepliesType, LenProperties DEF Good, InOrder
<1>3. reply \in Reply /\ reply.request = S.request /\ reply.status = status
    BY <1>1 DEF Reply
<1>4. PICK Q : Q = Append(A, reply)
    OBVIOUS
<1>5. /\ Q \in Seq(Reply) /\ Len(Q) = Len(A) + 1
      /\ \A i \in 1 .. Len(A) : Q[i] = A[i]
      /\ Q[Len(A) + 1] = reply
      /\ \A i \in 1 .. Len(Q) : i \in 1 .. Len(A) \/ i = Len(A) + 1
    BY <1>2, <1>3, <1>4, AppendProperties
<1>6. \A i \in 1 .. Len(A) : A[i].request < S.request
    BY DEF Good, InOrder
<1>7. InOrder(T, Q)
    <2>1. \A i \in 1 .. Len(Q) : Q[i].request <= S.request
        BY <1>1, <1>2, <1>3, <1>5, <1>6
    <2>2. ASSUME NEW i \in 1 .. Len(Q), NEW j \in 1 .. Len(Q), i < j
          PROVE  Q[i].request < Q[j].request
        <3>1. i \in 1 .. Len(A) /\ Q[i] = A[i]
            BY <1>2, <1>5, <2>2
        <3>2. CASE j \in 1 .. Len(A)
            BY <1>5, <2>2, <3>1, <3>2 DEF Good, InOrder
        <3>3. CASE j = Len(A) + 1
            BY <1>3, <1>5, <1>6, <3>1, <3>3
        <3>. QED
            BY <1>5, <3>2, <3>3
    <2>. QED
        BY <1>5, <2>1, <2>2 DEF InOrder
<1>8. WritesOnce(T, D)
    BY DEF Good, WritesOnce
<1>9. KnowsItsDeadlines(T, D, Q, O)
    BY <1>1, <1>3, <1>5 DEF Good, KnowsItsDeadlines
<1>10. TellsTheObserver(D, Q, E)
    BY <1>5 DEF Good, TellsTheObserver
<1>11. HasCallbacks(D)
    BY DEF Good, HasCallbacks
<1>. QED
    BY <1>4, <1>7, <1>8, <1>9, <1>10, <1>11 DEF Good

-----------------------------------------------------------------------------
(* The steps of a session.                                                 *)

LEMMA InitInvariant == Init => IInv
<1>. SUFFICES ASSUME Init PROVE IInv
    OBVIOUS
<1>1. Fresh \in SessionState /\ Fresh.phase = "closed" /\ ~Fresh.closing /\ Fresh.request = 0
    BY DEF Fresh, SessionState, Modes
<1>2. Good(Fresh, {}, <<>>, {}, {})
    BY <1>1, EmptySeq
    DEF Good, HasCallbacks, InOrder, WritesOnce, KnowsItsDeadlines, TellsTheObserver
<1>. QED
    BY <1>2 DEF Init, IInv, GoodSession

LEMMA QuietStep ==
    ASSUME IInv, NEW s \in Sessions, NEW T \in SessionState, NEW D,
           session' = [session EXCEPT ![s] = T],
           completions' = [completions EXCEPT ![s] = D],
           UNCHANGED <<answers, overdue, observed>>,
           T.closing => T.phase = "closed",
           T.phase = "reading" => T.request > 0,
           \/ T.timer = session[s].timer /\ T.request = session[s].request
           \/ T.timer > session[s].timer,
           T.request >= session[s].request,
           T.phase \in {"reading", "awaiting_handler"} =>
                \/ T.request > session[s].request
                \/ session[s].phase \in {"reading", "awaiting_handler"},
           \A c \in D : c \in completions[s] \/ c.op = "read",
           \A c \in D : c.op = "write" => T.phase \in {"writing", "closed"}
    PROVE  IInv'
<1>1. Good(T, D, answers[s], overdue[s], observed[s])
    BY QuietSession DEF IInv, GoodSession
<1>2. \A u \in Sessions : GoodSession(u)'
    BY <1>1 DEF IInv, GoodSession
<1>. QED
    BY <1>2 DEF IInv

LEMMA AnsweringStep ==
    ASSUME IInv, NEW s \in Sessions, NEW c, NEW T \in SessionState, NEW status \in Statuses, NEW eof,
           Writes(s, c, T, status, eof),
           session[s].phase \in {"reading", "awaiting_handler"}, ~T.closing,
           T.request = session[s].request, T.timer >= session[s].timer,
           UNCHANGED overdue,
           status = "deadline" => session[s].request \in overdue[s],
           NEW E, observed' = [observed EXCEPT ![s] = E], observed[s] \subseteq E,
           [request |-> session[s].request, status |-> status] \in E
    PROVE  IInv'
<1>. DEFINE write == [op |-> "write", request |-> T.request, eof |-> eof]
            D == (completions[s] \ {c}) \union {write}
            reply == [request |-> session[s].request, status |-> status]
<1>1. PICK R : R = [T EXCEPT !.phase = "writing"]
    OBVIOUS
<1>2. /\ R \in SessionState /\ R.phase = "writing" /\ R.closing = T.closing
      /\ R.request = T.request /\ R.timer = T.timer
    BY <1>1 DEF SessionState
<1>3. /\ session' = [session EXCEPT ![s] = R]
      /\ completions' = [completions EXCEPT ![s] = D]
      /\ answers' = [answers EXCEPT ![s] = Append(answers[s], reply)]
    BY <1>1 DEF Writes, Becomes
<1>4. write.op = "write" /\ \A b \in D : b \in completions[s] \/ b = write
    OBVIOUS
<1>. HIDE DEF write, D
<1>5. Good(R, D, Append(answers[s], reply), overdue[s], E)
    BY <1>2, <1>4, AnsweringSession DEF IInv, GoodSession
<1>6. \A u \in Sessions : GoodSession(u)'
    BY <1>3, <1>5 DEF IInv, GoodSession
<1>. QED
    BY <1>3, <1>6 DEF IInv

(* The callback of async_handle.                                           *)
LEMMA AnswersStep ==
    ASSUME IInv, NEW task, NEW status \in Statuses \ {"deadline"}, NEW eof,
           Answers(task, status, eof), UNCHANGED <<session, answers, overdue>>
    PROVE  IInv'
<1>. DEFINE answer == Answer(task.request, status, eof)
            told == [request |-> task.request, status |-> status]
<1>1. answer.op = "handler" /\ answer.status = status /\ answer.request = task.request
    BY DEF Answer
<1>2. /\ \/ completions' = [completions EXCEPT ![task.session] = @ \union {answer}]
         \/ completions' = completions
      /\ observed' = [observed EXCEPT ![task.session] = @ \union {told}]
    BY DEF Answers, Observes
<1>. HIDE DEF answer
<1>3. ASSUME NEW u \in Sessions
      PROVE  GoodSession(u)'
    <2>1. GoodSession(u)
        BY DEF IInv
    <2>2. CASE u = task.session
        <3>1. /\ completions'[u] \in {completions[u] \union {answer}, completions[u]}
              /\ observed'[u] = observed[u] \union {told}
            BY <1>2, <2>2 DEF IInv
        <3>2. WritesOnce(session[u], completions'[u])
            BY <1>1, <2>1, <3>1 DEF GoodSession, Good, WritesOnce
        <3>3. KnowsItsDeadlines(session[u], completions'[u], answers[u], overdue[u])
            BY <1>1, <2>1, <3>1 DEF GoodSession, Good, KnowsItsDeadlines
        <3>4. TellsTheObserver(completions'[u], answers[u], observed'[u])
            BY <1>1, <2>1, <3>1 DEF GoodSession, Good, TellsTheObserver
        <3>5. HasCallbacks(completions'[u])
            BY <1>1, <2>1, <3>1 DEF GoodSession, Good, HasCallbacks
        <3>. QED
            BY <2>1, <3>2, <3>3, <3>4, <3>5 DEF GoodSession, Good
    <2>3. CASE u # task.session
        <3>1. completions'[u] = completions[u] /\ observed'[u] = observed[u]
            BY <1>2, <2>3 DEF IInv
        <3>. QED
            BY <2>1, <3>1 DEF GoodSession
    <2>. QED
        BY <2>2, <2>3
<1>. QED
    BY <1>2, <1>3 DEF IInv

(* What IInv says of a session that is about to run callback c.            *)
LEMMA SessionFacts ==
    ASSUME IInv, NEW s \in Sessions, NEW S, S = session[s]
    PROVE  /\ S \in SessionState /\ S.request \in Nat /\ S.timer \in Nat
           /\ S.closing => S.phase = "closed"
           /\ S.phase = "reading" => S.request > 0
           /\ WritesOnce(S, completions[s])
BY DEF IInv, GoodSession, Good, SessionState

LEMMA AcceptStep ==
    ASSUME IInv, NEW s \in Sessions, Accept(s)
    PROVE  IInv'
<1>1. session[s] = Fresh /\ session[s].request = 0 /\ ~session[s].closing
    BY DEF Accept, Fresh
<1>2. PICK T : T = StartRead(session[s], "initial")
    OBVIOUS
<1>3. /\ T \in SessionState /\ T.timer = session[s].timer + 1 /\ T.phase = "reading"
      /\ ~T.closing /\ T.request = session[s].request + 1
    BY <1>1, <1>2, SessionFacts, StartReadFields
<1>4. session[s].request \in Nat /\ session[s].timer \in Nat
    BY SessionFacts
<1>8. PICK D : D = {Completion("read", 1)}
    OBVIOUS
<1>5. /\ session' = [session EXCEPT ![s] = T]
      /\ completions' = [completions EXCEPT ![s] = D]
      /\ UNCHANGED <<answers, overdue, observed>>
    BY <1>2, <1>8 DEF Accept
<1>6. \A c \in D : c.op = "read" /\ c.op # "write"
    BY <1>8 DEF Completion
<1>7. /\ T.request > 0 /\ T.timer > session[s].timer
      /\ T.request >= session[s].request /\ T.request > session[s].request
    BY <1>3, <1>4
<1>. QED
    BY <1>3, <1>5, <1>6, <1>7, QuietStep

(* Session s stops a timer, closes, or does nothing.                       *)
LEMMA EndingStep ==
    ASSUME IInv, NEW s \in Sessions, NEW c, c \in completions[s], NEW T,
           T \in {session[s], Cancel(session[s]), Closed(session[s]),
                  Closed(Cancel(session[s]))},
           Becomes(s, c, T, {}), UNCHANGED <<answers, overdue, observed>>
    PROVE  IInv'
<1>1. PICK S : S = session[s]
    OBVIOUS
<1>2. /\ S \in SessionState /\ S.request \in Nat /\ S.timer \in Nat
      /\ S.closing => S.phase = "closed"
      /\ S.phase = "reading" => S.request > 0
      /\ WritesOnce(S, completions[s])
    BY <1>1, SessionFacts
<1>3. PICK K : K = Cancel(S)
    OBVIOUS
<1>4. /\ K \in SessionState /\ K.timer = S.timer + 1 /\ K.phase = S.phase
      /\ K.closing = S.closing /\ K.request = S.request
    BY <1>2, <1>3, TimerFields DEF Modes
<1>5. /\ T \in SessionState /\ T.request = S.request
      /\ T = S \/ T.timer = S.timer + 1 \/ T.timer = S.timer + 2
      /\ \/ T.phase = S.phase /\ T.closing = S.closing
         \/ T.phase = "closed"
    <2>1. CASE T = S
        BY <1>2, <2>1
    <2>2. CASE T = K
        BY <1>4, <2>2
    <2>3. CASE T = Closed(S)
        BY <1>2, <2>3, ClosedFields
    <2>4. CASE T = Closed(K)
        <3>1. T \in SessionState /\ T.timer = K.timer + 1 /\ T.phase = "closed" /\ T.request = K.request
            BY <1>4, <2>4, ClosedFields
        <3>. QED
            BY <1>2, <1>4, <3>1
    <2>. QED
        BY <1>1, <1>3, <2>1, <2>2, <2>3, <2>4
<1>6. /\ session' = [session EXCEPT ![s] = T]
      /\ completions' = [completions EXCEPT ![s] = completions[s] \ {c}]
    BY DEF Becomes
<1>7. /\ (T.timer = S.timer /\ T.request = S.request) \/ T.timer > S.timer
      /\ T.request >= S.request
    BY <1>2, <1>5
<1>8. \A b \in completions[s] \ {c} : b.op = "write" => T.phase \in {"writing", "closed"}
    BY <1>2, <1>5 DEF WritesOnce
<1>10. \A b \in completions[s] \ {c} : b \in completions[s]
    OBVIOUS
<1>9. /\ T.closing => T.phase = "closed"
      /\ T.phase = "reading" => T.request > 0
      /\ T.phase \in {"reading", "awaiting_handler"} => S.phase \in {"reading", "awaiting_handler"}
    BY <1>2, <1>5
<1>11. PICK D : D = completions[s] \ {c}
    OBVIOUS
<1>. QED
    BY <1>1, <1>5, <1>6, <1>7, <1>8, <1>9, <1>10, <1>11, QuietStep

LEMMA OnReadRequestStep ==
    ASSUME IInv, NEW s \in Sessions, NEW c, OnReadRequest(s, c)
    PROVE  IInv'
<1>1. PICK S : S = session[s]
    OBVIOUS
<1>2. /\ S \in SessionState /\ S.request \in Nat /\ S.timer \in Nat
      /\ S.closing => S.phase = "closed"
      /\ WritesOnce(S, completions[s])
    BY <1>1, SessionFacts
<1>3. S.phase = "reading" /\ c \in completions[s]
    BY <1>1 DEF OnReadRequest, ReadMatches, Delivers
<1>4. PICK K : K = Cancel(S)
    OBVIOUS
<1>5. /\ K \in SessionState /\ K.timer = S.timer + 1 /\ K.closing = S.closing /\ K.request = S.request
    BY <1>2, <1>4, TimerFields DEF Modes
<1>6. PICK R : R = [K EXCEPT !.phase = "awaiting_handler", !.request_ptr = TRUE]
    OBVIOUS
<1>7. /\ R \in SessionState /\ R.timer = S.timer + 1 /\ R.closing = S.closing
      /\ R.request = S.request /\ R.phase = "awaiting_handler"
    BY <1>5, <1>6 DEF SessionState
<1>8. PICK T : T = ArmIf(HasDeadline, R, "request_deadline")
    OBVIOUS
<1>9. /\ T \in SessionState /\ T.timer = R.timer + 1 /\ T.closing = S.closing
      /\ T.request = S.request /\ T.phase = "awaiting_handler"
    BY <1>7, <1>8, TimerFields DEF Modes
<1>10. /\ session' = [session EXCEPT ![s] = T]
       /\ completions' = [completions EXCEPT ![s] = completions[s] \ {c}]
       /\ UNCHANGED <<answers, overdue, observed>>
    BY <1>1, <1>4, <1>6, <1>8 DEF OnReadRequest, Becomes
<1>11. T.timer > S.timer /\ T.request >= S.request /\ ~T.closing
    BY <1>2, <1>3, <1>7, <1>9
<1>12. \A b \in completions[s] \ {c} : b.op # "write"
    BY <1>2, <1>3 DEF WritesOnce
<1>. QED
    BY <1>1, <1>3, <1>9, <1>10, <1>11, <1>12, QuietStep

LEMMA OnReadBadRequestStep ==
    ASSUME IInv, NEW s \in Sessions, NEW c, OnReadBadRequest(s, c)
    PROVE  IInv'
<1>1. PICK S : S = session[s]
    OBVIOUS
<1>2. /\ S \in SessionState /\ S.request \in Nat /\ S.timer \in Nat
      /\ S.closing => S.phase = "closed"
    BY <1>1, SessionFacts
<1>3. S.phase = "reading" /\ c.request = S.request
    BY <1>1 DEF OnReadBadRequest, ReadMatches
<1>4. PICK K : K = Cancel(S)
    OBVIOUS
<1>5. /\ K \in SessionState /\ K.timer = S.timer + 1 /\ K.closing = S.closing /\ K.request = S.request
    BY <1>2, <1>4, TimerFields DEF Modes
<1>6. K.timer >= S.timer /\ ~K.closing
    BY <1>2, <1>3, <1>5
<1>9. PICK E : E = observed[s] \union {[request |-> S.request, status |-> "bad_request"]}
    OBVIOUS
<1>7. /\ Writes(s, c, K, "bad_request", TRUE)
      /\ observed' = [observed EXCEPT ![s] = E]
      /\ UNCHANGED overdue
    BY <1>1, <1>3, <1>4, <1>9 DEF OnReadBadRequest, Observes
<1>10. observed[s] \subseteq E /\ [request |-> S.request, status |-> "bad_request"] \in E
    BY <1>9
<1>8. "bad_request" \in Statuses
    BY DEF Statuses
<1>. QED
    BY <1>1, <1>3, <1>5, <1>6, <1>7, <1>8, <1>10, AnsweringStep

LEMMA OnHandlerResponseStep ==
    ASSUME IInv, NEW s \in Sessions, NEW c, OnHandlerResponse(s, c)
    PROVE  IInv'
<1>1. PICK S : S = session[s]
    OBVIOUS
<1>2. S \in SessionState /\ S.timer \in Nat
    BY <1>1, SessionFacts
<1>3. /\ c \in completions[s] /\ c.op = "handler"
      /\ ~S.closing /\ S.phase = "awaiting_handler" /\ c.request = S.request
      /\ Writes(s, c, S, c.status, c.eof)
      /\ UNCHANGED <<overdue, observed>>
    BY <1>1 DEF OnHandlerResponse, Delivers, ResponseMatches
<1>4. c.status \in Statuses /\ c.status # "deadline"
    BY <1>3 DEF IInv, GoodSession, Good, KnowsItsDeadlines
<1>5. [request |-> S.request, status |-> c.status] \in observed[s]
    BY <1>3 DEF IInv, GoodSession, Good, TellsTheObserver
<1>6. observed' = [observed EXCEPT ![s] = observed[s]]
    BY <1>3 DEF IInv
<1>7. S.timer >= S.timer
    BY <1>2
<1>. QED
    BY <1>1, <1>2, <1>3, <1>4, <1>5, <1>6, <1>7, AnsweringStep

LEMMA OnWriteStep ==
    ASSUME IInv, NEW s \in Sessions, NEW c, OnWrite(s, c)
    PROVE  IInv'
<1>1. PICK S : S = session[s]
    OBVIOUS
<1>2. /\ S \in SessionState /\ S.request \in Nat /\ S.timer \in Nat
      /\ S.closing => S.phase = "closed"
      /\ WritesOnce(S, completions[s])
    BY <1>1, SessionFacts
<1>3. S.phase = "writing" /\ c \in completions[s] /\ c.op = "write"
    BY <1>1 DEF OnWrite, WriteMatches, Delivers
<1>4. PICK K : K = Cancel(S)
    OBVIOUS
<1>5. /\ K \in SessionState /\ K.timer = S.timer + 1 /\ K.closing = S.closing /\ K.request = S.request
    BY <1>2, <1>4, TimerFields DEF Modes
<1>6. CASE c.eof
    BY <1>1, <1>3, <1>6, EndingStep DEF OnWrite
<1>7. CASE ~c.eof
    <2>1. PICK T : T = StartRead(K, "keep_alive_followup")
        OBVIOUS
    <2>2. /\ T \in SessionState /\ T.timer = K.timer + 1 /\ T.phase = "reading"
          /\ T.closing = K.closing /\ T.request = K.request + 1
        BY <1>5, <2>1, StartReadFields
    <2>3. /\ ~T.closing /\ T.timer > S.timer
          /\ T.request > 0 /\ T.request > S.request /\ T.request >= S.request
        BY <1>2, <1>3, <1>5, <2>2
    <2>4. PICK read : read = Completion("read", K.request + 1)
        OBVIOUS
    <2>5. read.op = "read"
        BY <2>4 DEF Completion
    <2>6. /\ session' = [session EXCEPT ![s] = T]
          /\ completions' = [completions EXCEPT ![s] = (completions[s] \ {c}) \union {read}]
          /\ UNCHANGED <<answers, overdue, observed>>
        BY <1>1, <1>4, <1>7, <2>1, <2>4 DEF OnWrite, Becomes
    <2>7. \A b \in (completions[s] \ {c}) \union {read} :
            (b \in completions[s] \/ b.op = "read") /\ b.op # "write"
        BY <1>2, <1>3, <2>5 DEF WritesOnce
    <2>. QED
        BY <1>1, <2>2, <2>3, <2>6, <2>7, QuietStep
<1>. QED
    BY <1>6, <1>7

LEMMA ExpireStep ==
    ASSUME IInv, NEW s \in Sessions, Expire(s)
    PROVE  IInv'
<1>1. PICK S : S = session[s]
    OBVIOUS
<1>2. PICK T : T = [S EXCEPT !.armed = FALSE]
    OBVIOUS
<1>3. PICK fired : fired = [op |-> "timer", mode |-> S.mode, timer |-> S.timer]
    OBVIOUS
<1>4. PICK O : O = IF S.mode = "request_deadline" THEN overdue[s] \union {S.request} ELSE overdue[s]
    OBVIOUS
<1>5. /\ session' = [session EXCEPT ![s] = T]
      /\ completions' = [completions EXCEPT ![s] = completions[s] \union {fired}]
      /\ overdue' = [overdue EXCEPT ![s] = O]
      /\ UNCHANGED <<answers, observed>>
    BY <1>1, <1>2, <1>3, <1>4 DEF Expire, IInv
<1>6. Good(S, completions[s], answers[s], overdue[s], observed[s])
    BY <1>1 DEF IInv, GoodSession
<1>7. /\ T \in SessionState /\ T.phase = S.phase /\ T.closing = S.closing
      /\ T.request = S.request /\ T.timer = S.timer /\ S.timer \in Nat
    BY <1>2, <1>6 DEF Good, SessionState
<1>8. Good(T, completions[s] \union {fired}, answers[s], O, observed[s])
    <2>1. InOrder(T, answers[s])
        BY <1>6, <1>7 DEF Good, InOrder
    <2>2. WritesOnce(T, completions[s] \union {fired})
        BY <1>3, <1>6, <1>7 DEF Good, WritesOnce
    <2>3. KnowsItsDeadlines(T, completions[s] \union {fired}, answers[s], O)
        BY <1>3, <1>4, <1>6, <1>7 DEF Good, KnowsItsDeadlines
    <2>4. TellsTheObserver(completions[s] \union {fired}, answers[s], observed[s])
        BY <1>3, <1>6 DEF Good, TellsTheObserver
    <2>5. HasCallbacks(completions[s] \union {fired})
        BY <1>3, <1>6 DEF Good, HasCallbacks
    <2>. QED
        BY <1>6, <1>7, <2>1, <2>2, <2>3, <2>4, <2>5 DEF Good
<1>9. \A u \in Sessions : GoodSession(u)'
    BY <1>5, <1>8 DEF IInv, GoodSession
<1>. QED
    BY <1>5, <1>9 DEF IInv

LEMMA OnTimerFiredDeadlineStep ==
    ASSUME IInv, NEW s \in Sessions, NEW c, OnTimerFiredDeadline(s, c)
    PROVE  IInv'
<1>1. PICK S : S = session[s]
    OBVIOUS
<1>2. S \in SessionState /\ S.request \in Nat /\ S.timer \in Nat
    BY <1>1, SessionFacts
<1>3. PICK K : K = Cancel(S)
    OBVIOUS
<1>4. /\ K \in SessionState /\ K.timer = S.timer + 1 /\ K.closing = S.closing /\ K.request = S.request
    BY <1>2, <1>3, TimerFields DEF Modes
<1>5. /\ c \in completions[s] /\ c.op = "timer" /\ c.mode = "request_deadline"
      /\ c.timer = S.timer /\ ~S.closing /\ S.phase = "awaiting_handler"
    BY <1>1 DEF OnTimerFiredDeadline, Delivers, TimerIsCurrent, TimerMatches
<1>6. S.request \in overdue[s]
    BY <1>1, <1>5 DEF IInv, GoodSession, Good, KnowsItsDeadlines
<1>9. PICK E : E = observed[s] \union {[request |-> S.request, status |-> "deadline"]}
    OBVIOUS
<1>7. /\ Writes(s, c, K, "deadline", TRUE)
      /\ observed' = [observed EXCEPT ![s] = E]
      /\ UNCHANGED overdue
    BY <1>1, <1>3, <1>9 DEF OnTimerFiredDeadline, Observes
<1>10. observed[s] \subseteq E /\ [request |-> S.request, status |-> "deadline"] \in E
    BY <1>9
<1>8. "deadline" \in Statuses /\ K.timer >= S.timer
    BY <1>2, <1>4 DEF Statuses
<1>. QED
    BY <1>1, <1>4, <1>5, <1>6, <1>7, <1>8, <1>10, AnsweringStep

-----------------------------------------------------------------------------

LEMMA SessionNextStep ==
    ASSUME IInv, NEW s \in Sessions, SessionNext(s)
    PROVE  IInv'
<1>1. ASSUME NEW c \in completions[s],
             \/ OnReadEndOfStream(s, c) \/ OnReadError(s, c) \/ OnWriteError(s, c)
             \/ OnTimerFiredClose(s, c) \/ OnStale(s, c)
      PROVE  IInv'
    BY <1>1, EndingStep
    DEF OnReadEndOfStream, OnReadError, OnWriteError, OnTimerFiredClose, OnStale
<1>2. ASSUME NEW c \in completions[s],
             \/ OnReadRequest(s, c) \/ OnReadBadRequest(s, c) \/ OnHandlerResponse(s, c)
             \/ OnWrite(s, c) \/ OnTimerFiredDeadline(s, c)
      PROVE  IInv'
    BY <1>2, OnReadRequestStep, OnReadBadRequestStep, OnHandlerResponseStep, OnWriteStep,
       OnTimerFiredDeadlineStep
<1>3. CASE PostsOn(s)
    BY <1>3 DEF PostsOn, sessionVars, IInv, GoodSession
<1>4. CASE QueueIsFull(s)
    BY <1>4, AnswersStep DEF QueueIsFull, Statuses
<1>5. CASE PostFails(s)
    BY <1>5, AnswersStep DEF PostFails, Statuses
<1>. QED
    BY <1>1, <1>2, <1>3, <1>4, <1>5, AcceptStep, ExpireStep DEF SessionNext

LEMMA HandlerNextStep ==
    ASSUME IInv, NEW w \in Workers, HandlerNext(w)
    PROVE  IInv'
<1>1. CASE UNCHANGED sessionVars
    BY <1>1 DEF sessionVars, IInv, GoodSession
<1>2. ASSUME NEW status \in Statuses \ {"deadline"}, Returns(w, status)
      PROVE  IInv'
    BY <1>2, AnswersStep DEF Returns
<1>3. \/ UNCHANGED sessionVars
      \/ \E status \in Statuses \ {"deadline"} : Returns(w, status)
    BY DEF HandlerNext, StartTask, HandleWithoutConnection, AcquireConnection, PoolIsBusy,
           CannotConnect, UseConnection, HandleWithConnection, Statuses
<1>. QED
    BY <1>1, <1>2, <1>3

LEMMA NextInvariant ==
    ASSUME IInv, [Next]_vars
    PROVE  IInv'
<1>1. CASE UNCHANGED vars
    BY <1>1 DEF vars, sessionVars, IInv, GoodSession
<1>. QED
    BY <1>1, SessionNextStep, HandlerNextStep DEF Next

LEMMA SpecInvariant == Spec => []IInv
BY InitInvariant, NextInvariant, PTL DEF Spec

-----------------------------------------------------------------------------
(* Closing.                                                                *)

(* The steps of one session leave the others alone.                        *)
LEMMA OthersAreLeftAlone ==
    ASSUME IInv, NEW s \in Sessions, NEW u \in Sessions \ {s}, SessionNext(s)
    PROVE  session'[u] = session[u] /\ answers'[u] = answers[u]
<1>1. \/ UNCHANGED session
      \/ \E T : session' = [session EXCEPT ![s] = T]
    BY DEF SessionNext, Accept, Expire, OnReadRequest, OnReadBadRequest, OnReadEndOfStream,
           OnReadError, OnHandlerResponse, OnWrite, OnWriteError, OnTimerFiredClose,
           OnTimerFiredDeadline, OnStale, Becomes, Writes, PostsOn, QueueIsFull, PostFails,
           sessionVars
<1>2. \/ UNCHANGED answers
      \/ \E A : answers' = [answers EXCEPT ![s] = A]
    BY DEF SessionNext, Accept, Expire, OnReadRequest, OnReadBadRequest, OnReadEndOfStream,
           OnReadError, OnHandlerResponse, OnWrite, OnWriteError, OnTimerFiredClose,
           OnTimerFiredDeadline, OnStale, Becomes, Writes, PostsOn, QueueIsFull, PostFails,
           sessionVars
<1>. QED
    BY <1>1, <1>2 DEF IInv

(* What a session that is closing, or waits for its handler, can become.   *)
LEMMA ClosingStep ==
    ASSUME IInv, NEW s \in Sessions, SessionNext(s)
    PROVE  /\ session[s].closing => session'[s].phase = "closed" /\ answers'[s] = answers[s]
           /\ session[s].phase = "awaiting_handler" => session'[s].phase # "closed"
<1>1. PICK S : S = session[s]
    OBVIOUS
<1>2. S \in SessionState /\ (S.closing => S.phase = "closed")
    BY <1>1, SessionFacts
<1>3. CASE session'[s] = S /\ answers'[s] = answers[s]
    BY <1>1, <1>2, <1>3
<1>4. CASE Expire(s)
    <2>1. session'[s] = [S EXCEPT !.armed = FALSE] /\ answers' = answers
        BY <1>1, <1>4 DEF Expire, IInv
    <2>. QED
        BY <1>1, <1>2, <2>1 DEF SessionState
<1>5. CASE ~S.closing /\ S.phase # "awaiting_handler"
    BY <1>1, <1>5
<1>6. ASSUME NEW c, NEW T \in {S, Cancel(S)}, NEW status, NEW eof, Writes(s, c, T, status, eof),
             ~S.closing
      PROVE  session'[s].phase # "closed"
    <2>1. session'[s] = [T EXCEPT !.phase = "writing"]
        BY <1>6 DEF Writes, Becomes, IInv
    <2>2. T \in SessionState
        BY <1>2, TimerFields DEF Modes
    <2>. QED
        BY <2>1, <2>2 DEF SessionState
<1>7. ASSUME NEW c \in completions[s],
             \/ OnReadRequest(s, c) \/ OnReadBadRequest(s, c) \/ OnReadEndOfStream(s, c)
             \/ OnReadError(s, c) \/ OnWrite(s, c) \/ OnWriteError(s, c)
             \/ OnTimerFiredClose(s, c)
      PROVE  ~S.closing /\ S.phase # "awaiting_handler"
    BY <1>1, <1>2, <1>7
    DEF OnReadRequest, OnReadBadRequest, OnReadEndOfStream, OnReadError, ReadMatches, OnWrite,
        OnWriteError, WriteMatches, OnTimerFiredClose, TimerIsCurrent, ClosesOnTimer
<1>8. ASSUME NEW c \in completions[s], OnHandlerResponse(s, c) \/ OnTimerFiredDeadline(s, c)
      PROVE  ~S.closing /\ session'[s].phase # "closed"
    <2>1. ~S.closing
        BY <1>1, <1>8 DEF OnHandlerResponse, ResponseMatches, OnTimerFiredDeadline, TimerIsCurrent
    <2>. QED
        BY <1>1, <1>6, <1>8, <2>1 DEF OnHandlerResponse, OnTimerFiredDeadline
<1>9. ASSUME NEW c \in completions[s], OnStale(s, c)
      PROVE  session'[s] = S /\ answers'[s] = answers[s]
    BY <1>1, <1>9 DEF OnStale, Becomes, IInv
<1>10. CASE Accept(s)
    BY <1>1, <1>5, <1>10 DEF Accept, Fresh
<1>11. CASE PostsOn(s) \/ QueueIsFull(s) \/ PostFails(s)
    BY <1>1, <1>3, <1>11 DEF PostsOn, QueueIsFull, PostFails, sessionVars
<1>. QED
    BY <1>1, <1>3, <1>4, <1>5, <1>7, <1>8, <1>9, <1>10, <1>11 DEF SessionNext

LEMMA HandlersCloseNothing ==
    ASSUME NEW w \in Workers, HandlerNext(w)
    PROVE  UNCHANGED <<session, answers>>
BY DEF HandlerNext, StartTask, HandleWithoutConnection, AcquireConnection, PoolIsBusy,
       CannotConnect, UseConnection, HandleWithConnection, Returns, sessionVars

(* What has been closed stays closed and writes no more, and no timer      *)
(* closes a session that waits for its handler (close, on_timer_fired).    *)
THEOREM SessionsCloseWhenTheyShould == Spec => ClosesWhenItShould
<1>. DEFINE Shut == \A s \in Sessions : session[s].closing =>
                        session'[s].phase = "closed" /\ answers'[s] = answers[s]
            Awake == \A s \in Sessions :
                        session[s].phase = "awaiting_handler" => session'[s].phase # "closed"
<1>1. ASSUME IInv, [Next]_vars
      PROVE  [Shut]_vars /\ [Awake]_vars
    <2>1. CASE UNCHANGED <<session, answers>>
        <3>1. \A s \in Sessions : session[s].closing => session[s].phase = "closed"
            BY <1>1, SessionFacts
        <3>. QED
            BY <2>1, <3>1
    <2>2. ASSUME NEW s \in Sessions, SessionNext(s)
          PROVE  Shut /\ Awake
        <3>1. ASSUME NEW u \in Sessions
              PROVE  /\ session[u].closing => session'[u].phase = "closed" /\ answers'[u] = answers[u]
                     /\ session[u].phase = "awaiting_handler" => session'[u].phase # "closed"
            <4>1. CASE u = s
                BY <1>1, <2>2, <4>1, ClosingStep
            <4>2. CASE u # s
                <5>1. session'[u] = session[u] /\ answers'[u] = answers[u]
                    BY <1>1, <2>2, <4>2, OthersAreLeftAlone
                <5>2. session[u].closing => session[u].phase = "closed"
                    BY <1>1, SessionFacts
                <5>. QED
                    BY <5>1, <5>2
            <4>. QED
                BY <4>1, <4>2
        <3>. QED
            BY <3>1
    <2>. QED
        BY <1>1, <2>1, <2>2, HandlersCloseNothing DEF Next, vars, sessionVars
<1>. QED
    BY <1>1, SpecInvariant, PTL DEF Spec, ClosesWhenItShould, NothingAfterClose, NoCloseWhileHandling

-----------------------------------------------------------------------------
(* The pools, and where a request is while its session waits.              *)

Post(p) == [step |-> post[p].step, task |-> post[p].task, seen |-> post[p].seen]

QueueInvariant ==
    /\ post = [p \in Sessions |-> Post(p)]
    /\ \A p \in Sessions : post[p].step # "idle" => post[p].task \in RequestTasks
    /\ waiting \in Seq(RequestTasks)
    /\ running \in [Workers -> [task : RequestTasks \union {NoTask}, counted : BOOLEAN]]

Waits(s) == session[s].phase = "awaiting_handler"

WaitingIsForRequests == \A s \in Sessions : Waits(s) => session[s].request \in 1 .. MaxRequests

Located(s, request) ==
    \/ IsUnderWay([session |-> s, request |-> request])
    \/ \E c \in completions[s] : c.op = "handler" /\ c.request = request
    \/ request \in lost[s]

(* The deadline of a session that waits.                                   *)
HasItsDeadline(s) ==
    /\ HasDeadline => session[s].mode = "request_deadline"
    /\ session[s].mode = "request_deadline" => DeadlineStands(s)

WaitsWithDeadline == \A s \in Sessions : Waits(s) => HasItsDeadline(s)

LostIsKnown == lost = [s \in Sessions |-> lost[s]]

HandlersNext == Handlers!WorkerPoolNext

LEMMA QueueInit ==
    Init => /\ QueueInvariant
            /\ WaitingIsForRequests /\ WaitsWithDeadline /\ LostIsKnown /\ NoRequestIsForgotten
BY EmptySeq
DEF Init, Handlers!WorkerPoolInit, Handlers!Idle, Handlers!Unoccupied, Fresh, QueueInvariant, Post,
    Waits, WaitingIsForRequests, WaitsWithDeadline, LostIsKnown, NoRequestIsForgotten

(* The steps of the server are steps of its worker pool.                   *)
LEMMA HandlersStep ==
    ASSUME IInv, [Next]_vars
    PROVE  HandlersNext \/ UNCHANGED handlerVars
<1>1. ASSUME NEW s \in Sessions, NEW c, OnReadRequest(s, c)
      PROVE  HandlersNext
    <2>1. session[s].phase = "reading" /\ c.request = session[s].request /\ c.request <= MaxRequests
        BY <1>1 DEF OnReadRequest, ReadMatches
    <2>2. session[s].request \in Nat /\ session[s].request > 0
        BY <2>1, SessionFacts
    <2>3. [session |-> s, request |-> c.request] \in RequestTasks
        BY <2>1, <2>2 DEF RequestTasks
    <2>. QED
        BY <1>1, <2>3 DEF OnReadRequest, HandlersNext, Handlers!WorkerPoolNext
<1>2. ASSUME NEW s \in Sessions, SessionNext(s), ~HandlersNext
      PROVE  UNCHANGED handlerVars
    BY <1>1, <1>2
    DEF SessionNext, Accept, Expire, OnReadBadRequest, OnReadEndOfStream, OnReadError,
        OnHandlerResponse, OnWrite, OnWriteError, OnTimerFiredClose, OnTimerFiredDeadline, OnStale,
        PostsOn, QueueIsFull, PostFails, HandlersNext, Handlers!WorkerPoolNext
<1>3. ASSUME NEW w \in Workers, HandlerNext(w), ~HandlersNext
      PROVE  UNCHANGED handlerVars
    BY <1>3
    DEF HandlerNext, StartTask, HandleWithoutConnection, AcquireConnection, PoolIsBusy,
        CannotConnect, UseConnection, HandleWithConnection, Returns, HandlersNext,
        Handlers!WorkerPoolNext
<1>. QED
    BY <1>2, <1>3 DEF Next, vars

LEMMA QueueTypes ==
    ASSUME QueueInvariant, HandlersNext \/ UNCHANGED handlerVars
    PROVE  QueueInvariant'
<1>. USE DEF QueueInvariant, Post
<1>1. ASSUME NEW p \in Sessions, NEW task \in RequestTasks, Handlers!BeginPost(p, task)
      PROVE  QueueInvariant'
    BY <1>1 DEF Handlers!BeginPost
<1>2. ASSUME NEW p \in Sessions, Handlers!Reserve(p) \/ Handlers!ReserveAgain(p)
      PROVE  QueueInvariant'
    <2>1. PICK P : P = post[p]
        OBVIOUS
    <2>2. P = [step |-> P.step, task |-> P.task, seen |-> P.seen] /\ P.task \in RequestTasks
        BY <1>2, <2>1 DEF Handlers!Reserve, Handlers!ReserveAgain
    <2>3. \/ post' = [post EXCEPT ![p] = [P EXCEPT !.step = "reserved"]]
          \/ post' = [post EXCEPT ![p] = [P EXCEPT !.seen = queued_task_count]]
        BY <1>2, <2>1 DEF Handlers!Reserve, Handlers!ReserveAgain
    <2>4. \E step, seen : post' = [post EXCEPT ![p] = [step |-> step, task |-> P.task, seen |-> seen]]
        BY <2>2, <2>3
    <2>. QED
        BY <1>2, <2>2, <2>4 DEF Handlers!Reserve, Handlers!ReserveAgain
<1>3. ASSUME NEW p \in Sessions, Handlers!Refuse(p) \/ Handlers!EnqueueThrows(p)
      PROVE  QueueInvariant'
    BY <1>3 DEF Handlers!Refuse, Handlers!EnqueueThrows, Handlers!Idle
<1>4. ASSUME NEW p \in Sessions, Handlers!Enqueue(p)
      PROVE  QueueInvariant'
    <2>1. waiting' \in Seq(RequestTasks)
        BY <1>4, AppendProperties DEF Handlers!Enqueue
    <2>. QED
        BY <1>4, <2>1 DEF Handlers!Enqueue, Handlers!Idle
<1>5. ASSUME NEW w \in Workers, Handlers!Take(w)
      PROVE  QueueInvariant'
    <2>1. Head(waiting) \in RequestTasks /\ Tail(waiting) \in Seq(RequestTasks)
        BY <1>5, HeadTailProperties DEF Handlers!Take
    <2>. QED
        BY <1>5, <2>1 DEF Handlers!Take, Handlers!IsCounted, Handlers!Limited
<1>6. ASSUME NEW w \in Workers, Handlers!GivePlaceBack(w)
      PROVE  QueueInvariant'
    <2>1. [running[w] EXCEPT !.counted = FALSE]
              \in [task : RequestTasks \union {NoTask}, counted : BOOLEAN]
        OBVIOUS
    <2>. QED
        BY <1>6, <2>1 DEF Handlers!GivePlaceBack
<1>7. ASSUME NEW w \in Workers, Handlers!Finish(w)
      PROVE  QueueInvariant'
    BY <1>7 DEF Handlers!Finish, Handlers!Unoccupied
<1>8. CASE UNCHANGED handlerVars
    BY <1>8 DEF handlerVars
<1>. QED
    BY <1>1, <1>2, <1>3, <1>4, <1>5, <1>6, <1>7, <1>8 DEF HandlersNext, Handlers!WorkerPoolNext

(* A task that is in the queue, or with a thread, is still there after a   *)
(* step, unless the thread has finished it.                                *)
LEMMA TasksMoveOn ==
    ASSUME QueueInvariant, HandlersNext \/ UNCHANGED handlerVars,
           NEW task \in RequestTasks,
           \/ \E i \in DOMAIN waiting : waiting[i] = task
           \/ \E w \in Workers : running[w].task = task
    PROVE  \/ \E i \in DOMAIN waiting' : waiting'[i] = task
           \/ \E w \in Workers : running'[w].task = task
           \/ \E w \in Workers : running[w].task = task /\ Handlers!Finish(w)
<1>1. waiting \in Seq(RequestTasks) /\ Len(waiting) \in Nat /\ DOMAIN waiting = 1 .. Len(waiting)
    BY LenProperties DEF QueueInvariant
<1>2. CASE UNCHANGED <<waiting, running>>
    BY <1>2
<1>3. ASSUME NEW p \in Sessions, Handlers!Enqueue(p)
      PROVE  \/ \E i \in DOMAIN waiting' : waiting'[i] = task
             \/ \E w \in Workers : running'[w].task = task
    <2>1. /\ DOMAIN waiting' = 1 .. Len(waiting) + 1
          /\ \A i \in 1 .. Len(waiting) : waiting'[i] = waiting[i]
          /\ running' = running
        <3>1. post[p].task \in RequestTasks
            BY <1>3 DEF QueueInvariant, Handlers!Enqueue
        <3>2. waiting' = Append(waiting, post[p].task) /\ running' = running
            BY <1>3 DEF Handlers!Enqueue
        <3>. QED
            BY <1>1, <3>1, <3>2, AppendProperties, LenProperties
    <2>2. \A i \in 1 .. Len(waiting) : i \in 1 .. Len(waiting) + 1
        BY <1>1
    <2>. QED
        BY <1>1, <2>1, <2>2
<1>4. ASSUME NEW w \in Workers, Handlers!Take(w)
      PROVE  \/ \E i \in DOMAIN waiting' : waiting'[i] = task
             \/ \E v \in Workers : running'[v].task = task
    <2>1. /\ running[w].task = NoTask /\ waiting # <<>>
          /\ running'[w].task = Head(waiting)
          /\ \A v \in Workers \ {w} : running'[v] = running[v]
          /\ waiting' = Tail(waiting)
        BY <1>4 DEF Handlers!Take, Handlers!Unoccupied, QueueInvariant
    <2>2. ASSUME NEW v \in Workers, running[v].task = task
          PROVE  running'[v].task = task
        BY <2>1, <2>2, Sizes
    <2>3. ASSUME NEW i \in 1 .. Len(waiting), waiting[i] = task
          PROVE  \/ running'[w].task = task
                 \/ \E j \in DOMAIN waiting' : waiting'[j] = task
        <3>1. CASE i = 1
            BY <1>1, <2>1, <2>3, <3>1
        <3>2. CASE i # 1
            <4>1. /\ waiting' \in Seq(RequestTasks) /\ Len(waiting') = Len(waiting) - 1
                  /\ \A j \in 1 .. Len(waiting') : waiting'[j] = waiting[j + 1]
                BY <1>1, <2>1, HeadTailProperties
            <4>2. i - 1 \in 1 .. Len(waiting') /\ (i - 1) + 1 = i
                BY <1>1, <3>2, <4>1
            <4>3. waiting'[i - 1] = task /\ DOMAIN waiting' = 1 .. Len(waiting')
                BY <2>3, <4>1, <4>2, LenProperties
            <4>. QED
                BY <4>2, <4>3
        <3>. QED
            BY <3>1, <3>2
    <2>. QED
        BY <1>1, <2>2, <2>3
<1>5. ASSUME NEW w \in Workers, Handlers!GivePlaceBack(w)
      PROVE  waiting' = waiting /\ \A v \in Workers : running'[v].task = running[v].task
    BY <1>5 DEF Handlers!GivePlaceBack, QueueInvariant
<1>6. ASSUME NEW w \in Workers, Handlers!Finish(w)
      PROVE  waiting' = waiting /\ \A v \in Workers \ {w} : running'[v] = running[v]
    BY <1>6 DEF Handlers!Finish, QueueInvariant
<1>7. \/ UNCHANGED <<waiting, running>>
      \/ \E p \in Sessions : Handlers!Enqueue(p)
      \/ \E w \in Workers : Handlers!Take(w) \/ Handlers!GivePlaceBack(w) \/ Handlers!Finish(w)
    BY DEF HandlersNext, Handlers!WorkerPoolNext, handlerVars, Handlers!BeginPost, Handlers!Reserve,
           Handlers!ReserveAgain, Handlers!Refuse, Handlers!EnqueueThrows
<1>. QED
    BY <1>2, <1>3, <1>4, <1>5, <1>6, <1>7

-----------------------------------------------------------------------------
(* No request is forgotten.                                                *)

(* The answers of handlers to request that s has not seen are still there. *)
KeepsAnswers(s, request) ==
    \A c \in completions[s] : c.op = "handler" /\ c.request = request => c \in completions'[s]

(* The timer of the request that s waits for is not stopped.               *)
KeepsItsDeadline(s) == HasItsDeadline(s) => HasItsDeadline(s)'

LEMMA AnswersArrive ==
    ASSUME IInv, LostIsKnown, NEW task, NEW status, NEW eof, Answers(task, status, eof),
           NEW s \in Sessions
    PROVE  /\ completions[s] \subseteq completions'[s]
           /\ task.session = s =>
                \/ \E c \in completions'[s] : c.op = "handler" /\ c.request = task.request
                \/ task.request \in lost'[s]
<1>. DEFINE answer == Answer(task.request, status, eof)
<1>1. answer.op = "handler" /\ answer.request = task.request
    BY DEF Answer
<1>2. CASE /\ lost' = [lost EXCEPT ![task.session] = @ \union {task.request}]
           /\ UNCHANGED completions
    BY <1>2 DEF LostIsKnown
<1>3. CASE completions' = [completions EXCEPT ![task.session] = @ \union {answer}]
    <2>. HIDE DEF answer
    <2>. QED
        BY <1>1, <1>3 DEF IInv
<1>. QED
    BY <1>2, <1>3 DEF Answers

(* What is known to be lost stays known.                                   *)
LEMMA LostStep ==
    ASSUME LostIsKnown, [Next]_vars
    PROVE  LostIsKnown' /\ \A s \in Sessions : lost[s] \subseteq lost'[s]
<1>1. ASSUME NEW task, NEW status, NEW eof, Answers(task, status, eof)
      PROVE  LostIsKnown' /\ \A s \in Sessions : lost[s] \subseteq lost'[s]
    BY <1>1 DEF Answers, LostIsKnown
<1>2. ASSUME NEW s \in Sessions, SessionNext(s)
      PROVE  UNCHANGED lost \/ \E task, status, eof : Answers(task, status, eof)
    BY <1>2
    DEF SessionNext, Accept, Expire, OnReadRequest, OnReadBadRequest, OnReadEndOfStream,
        OnReadError, OnHandlerResponse, OnWrite, OnWriteError, OnTimerFiredClose,
        OnTimerFiredDeadline, OnStale, PostsOn, QueueIsFull, PostFails, sessionVars
<1>3. ASSUME NEW w \in Workers, HandlerNext(w)
      PROVE  UNCHANGED lost \/ \E task, status, eof : Answers(task, status, eof)
    BY <1>3
    DEF HandlerNext, StartTask, HandleWithoutConnection, AcquireConnection, PoolIsBusy,
        CannotConnect, UseConnection, HandleWithConnection, Returns, sessionVars
<1>. QED
    BY <1>1, <1>2, <1>3 DEF Next, vars, sessionVars, LostIsKnown

(* A session waits after a step only if it waited before, and has not been *)
(* given the answer, or if it has just read the request.                   *)
LEMMA WaitingStep ==
    ASSUME IInv, LostIsKnown, NEW s \in Sessions, SessionNext(s), Waits(s)'
    PROVE  \/ /\ Waits(s) /\ session'[s].request = session[s].request
              /\ KeepsAnswers(s, session[s].request) /\ KeepsItsDeadline(s)
           \/ \E c \in completions[s] : OnReadRequest(s, c)
<1>1. PICK S : S = session[s]
    OBVIOUS
<1>2. S \in SessionState /\ (S.closing => S.phase = "closed")
    BY <1>1, SessionFacts
<1>3. CASE UNCHANGED session /\ completions[s] \subseteq completions'[s]
    BY <1>3 DEF Waits, KeepsAnswers, KeepsItsDeadline, HasItsDeadline, DeadlineStands
<1>4. CASE Accept(s)
    <2>1. S = Fresh /\ session'[s] = StartRead(S, "initial")
        BY <1>1, <1>4 DEF Accept, IInv
    <2>. QED
        BY <1>2, <2>1, StartReadFields DEF Waits
<1>5. CASE Expire(s)
    <2>. DEFINE fired == [op |-> "timer", mode |-> S.mode, timer |-> S.timer]
    <2>1. /\ session'[s] = [S EXCEPT !.armed = FALSE]
          /\ completions[s] \subseteq completions'[s] /\ fired \in completions'[s]
        BY <1>1, <1>5 DEF Expire, IInv
    <2>2. /\ session'[s].phase = S.phase /\ session'[s].request = S.request
          /\ session'[s].mode = S.mode /\ session'[s].timer = S.timer
          /\ session'[s].closing = S.closing
        BY <1>2, <2>1 DEF SessionState
    <2>3. S.phase = "awaiting_handler" /\ ~S.closing
        BY <1>2, <2>2 DEF Waits
    <2>4. fired.op = "timer" /\ TimerIsCurrent(session[s], fired)'
        BY <2>2, <2>3 DEF TimerIsCurrent, TimerMatches
    <2>5. DeadlineStands(s)'
        BY <2>1, <2>4 DEF DeadlineStands
    <2>. QED
        BY <1>1, <2>1, <2>2, <2>3, <2>5 DEF Waits, KeepsAnswers, KeepsItsDeadline, HasItsDeadline
<1>6. ASSUME NEW c, NEW T \in {S, Cancel(S)}, NEW status, NEW eof, Writes(s, c, T, status, eof)
      PROVE  FALSE
    <2>1. session'[s] = [T EXCEPT !.phase = "writing"]
        BY <1>6 DEF Writes, Becomes, IInv
    <2>2. T \in SessionState
        BY <1>2, TimerFields DEF Modes
    <2>. QED
        BY <2>1, <2>2 DEF SessionState, Waits
<1>7. ASSUME NEW c \in completions[s],
             OnReadBadRequest(s, c) \/ OnHandlerResponse(s, c) \/ OnTimerFiredDeadline(s, c)
      PROVE  FALSE
    BY <1>1, <1>6, <1>7 DEF OnReadBadRequest, OnHandlerResponse, OnTimerFiredDeadline
<1>8. ASSUME NEW c \in completions[s],
             \/ OnReadEndOfStream(s, c) \/ OnReadError(s, c) \/ OnWrite(s, c) \/ OnWriteError(s, c)
             \/ OnTimerFiredClose(s, c)
      PROVE  FALSE
    <2>1. Cancel(S) \in SessionState /\ Cancel(S).phase = S.phase
        BY <1>2, TimerFields DEF Modes
    <2>2. \/ session'[s] = Closed(Cancel(S))
          \/ session'[s] = StartRead(Cancel(S), "keep_alive_followup")
          \/ session'[s] = Cancel(S) /\ S.phase \in {"reading", "writing"}
        BY <1>1, <1>8
        DEF OnReadEndOfStream, OnReadError, OnWrite, OnWriteError, OnTimerFiredClose, Becomes,
            ReadMatches, WriteMatches, IInv
    <2>. QED
        BY <2>1, <2>2, StartReadFields, ClosedFields DEF Waits
<1>9. ASSUME NEW c \in completions[s], OnStale(s, c)
      PROVE  /\ Waits(s) /\ session'[s].request = S.request
             /\ KeepsAnswers(s, S.request) /\ KeepsItsDeadline(s)
    <2>1. session'[s] = S /\ completions'[s] = completions[s] \ {c} /\ Stale(s, c)
        BY <1>1, <1>9 DEF OnStale, Becomes, IInv
    <2>2. S.phase = "awaiting_handler" /\ ~S.closing
        BY <1>2, <2>1 DEF Waits
    <2>3. ~(c.op = "handler" /\ c.request = S.request)
        BY <1>1, <2>1, <2>2 DEF Stale, ResponseMatches
    <2>4. ~(c.op = "timer" /\ TimerIsCurrent(S, c))
        BY <1>1, <2>1 DEF Stale
    <2>5. KeepsItsDeadline(s)
        BY <1>1, <2>1, <2>4
        DEF KeepsItsDeadline, HasItsDeadline, DeadlineStands, TimerIsCurrent, TimerMatches
    <2>. QED
        BY <1>1, <2>1, <2>2, <2>3, <2>5 DEF Waits, KeepsAnswers
<1>10. CASE PostsOn(s) \/ QueueIsFull(s) \/ PostFails(s)
    BY <1>3, <1>10, AnswersArrive DEF PostsOn, QueueIsFull, PostFails, sessionVars
<1>. QED
    BY <1>1, <1>4, <1>5, <1>7, <1>8, <1>9, <1>10 DEF SessionNext

(* Where the other sessions and the handlers are concerned.                *)
LEMMA OthersKeepAnswers ==
    ASSUME IInv, LostIsKnown, NEW s \in Sessions,
           \/ \E u \in Sessions \ {s} : SessionNext(u)
           \/ \E w \in Workers : HandlerNext(w)
    PROVE  completions[s] \subseteq completions'[s]
<1>1. ASSUME NEW u \in Sessions \ {s}, SessionNext(u)
      PROVE  completions[s] \subseteq completions'[s]
    <2>1. \/ \E C : completions' = [completions EXCEPT ![u] = C]
          \/ UNCHANGED completions
          \/ \E task, status, eof : Answers(task, status, eof)
        BY <1>1
        DEF SessionNext, Accept, Expire, OnReadRequest, OnReadBadRequest, OnReadEndOfStream,
            OnReadError, OnHandlerResponse, OnWrite, OnWriteError, OnTimerFiredClose,
            OnTimerFiredDeadline, OnStale, Becomes, Writes, PostsOn, QueueIsFull, PostFails,
            sessionVars
    <2>. QED
        BY <2>1, AnswersArrive DEF IInv
<1>2. ASSUME NEW w \in Workers, HandlerNext(w)
      PROVE  completions[s] \subseteq completions'[s]
    <2>1. UNCHANGED completions \/ \E task, status, eof : Answers(task, status, eof)
        BY <1>2
        DEF HandlerNext, StartTask, HandleWithoutConnection, AcquireConnection, PoolIsBusy,
            CannotConnect, UseConnection, HandleWithConnection, Returns, sessionVars
    <2>. QED
        BY <2>1, AnswersArrive
<1>. QED
    BY <1>1, <1>2

(* A thread's task ends with an answer to the session it is of.            *)
LEMMA FinishAnswers ==
    ASSUME IInv, QueueInvariant, [Next]_vars,
           NEW w \in Workers, NEW task \in RequestTasks, running[w].task = task, Handlers!Finish(w)
    PROVE  \E status, eof : Answers(task, status, eof)
<1>1. /\ running'[w] = Handlers!Unoccupied /\ running[w] # Handlers!Unoccupied
      /\ running'[w] # running[w] /\ ~running[w].counted
    BY DEF Handlers!Finish, Handlers!Unoccupied, QueueInvariant
<1>2. ASSUME NEW s \in Sessions, SessionNext(s)
      PROVE  running' = running
    BY <1>2
    DEF SessionNext, Accept, Expire, OnReadRequest, OnReadBadRequest, OnReadEndOfStream,
        OnReadError, OnHandlerResponse, OnWrite, OnWriteError, OnTimerFiredClose,
        OnTimerFiredDeadline, OnStale, PostsOn, QueueIsFull, PostFails, handlerVars,
        Handlers!BeginPost, Handlers!Reserve, Handlers!ReserveAgain, Handlers!Enqueue,
        Handlers!Refuse, Handlers!EnqueueThrows
<1>3. ASSUME NEW v \in Workers, Handlers!Take(v) \/ Handlers!GivePlaceBack(v)
      PROVE  FALSE
    <2>1. v = w
        BY <1>1, <1>3 DEF Handlers!Take, Handlers!GivePlaceBack, QueueInvariant
    <2>. QED
        BY <1>1, <1>3, <2>1 DEF Handlers!Take, Handlers!GivePlaceBack
<1>4. ASSUME NEW v \in Workers, NEW status, Returns(v, status)
      PROVE  \E eof : Answers(task, status, eof)
    <2>1. v = w
        BY <1>1, <1>4 DEF Returns, Handlers!Finish, QueueInvariant
    <2>. QED
        BY <1>4, <2>1 DEF Returns
<1>5. ASSUME NEW v \in Workers, HandlerNext(v)
      PROVE  \E status, eof : Answers(task, status, eof)
    <2>1. \/ running' = running
          \/ Handlers!Take(v) \/ Handlers!GivePlaceBack(v)
          \/ \E status : Returns(v, status)
        BY <1>5
        DEF HandlerNext, StartTask, HandleWithoutConnection, AcquireConnection, PoolIsBusy,
            CannotConnect, UseConnection, HandleWithConnection, handlerVars
    <2>. QED
        BY <1>1, <1>3, <1>4, <2>1
<1>. QED
    BY <1>1, <1>2, <1>5 DEF Next, vars, handlerVars

(* A task a session is posting is posted, or the session is told.          *)
LEMMA PostingStep ==
    ASSUME IInv, QueueInvariant, [Next]_vars,
           NEW s \in Sessions, NEW task \in RequestTasks, post[s].task = task
    PROVE  \/ post'[s].task = task
           \/ \E i \in DOMAIN waiting' : waiting'[i] = task
           \/ \E status, eof : Answers(task, status, eof)
<1>1. ASSUME NEW u \in Sessions, NEW c, OnReadRequest(u, c)
      PROVE  post'[s].task = task
    <2>1. u # s
        BY <1>1, Sizes DEF OnReadRequest, Delivers, StrandIsFree, Handlers!Idle
    <2>. QED
        BY <1>1, <2>1 DEF OnReadRequest, Handlers!BeginPost, QueueInvariant
<1>2. ASSUME NEW u \in Sessions, Handlers!Reserve(u) \/ Handlers!ReserveAgain(u)
      PROVE  post'[s].task = task
    <2>1. PICK P : P = post[u]
        OBVIOUS
    <2>2. P = [step |-> P.step, task |-> P.task, seen |-> P.seen]
        BY <2>1 DEF QueueInvariant, Post
    <2>3. \/ post' = [post EXCEPT ![u] = [P EXCEPT !.step = "reserved"]]
          \/ post' = [post EXCEPT ![u] = [P EXCEPT !.seen = queued_task_count]]
        BY <1>2, <2>1 DEF Handlers!Reserve, Handlers!ReserveAgain
    <2>4. \E step, seen : post' = [post EXCEPT ![u] = [step |-> step, task |-> P.task, seen |-> seen]]
        BY <2>2, <2>3
    <2>. QED
        BY <2>1, <2>4 DEF QueueInvariant
<1>3. ASSUME NEW u \in Sessions, Handlers!Enqueue(u)
      PROVE  \/ post'[s].task = task
             \/ \E i \in DOMAIN waiting' : waiting'[i] = task
    <2>1. CASE u = s
        <3>1. waiting' = Append(waiting, task) /\ waiting \in Seq(RequestTasks)
            BY <1>3, <2>1 DEF Handlers!Enqueue, QueueInvariant
        <3>2. /\ Len(waiting') = Len(waiting) + 1 /\ waiting'[Len(waiting) + 1] = task
              /\ waiting' \in Seq(RequestTasks) /\ Len(waiting) \in Nat
            BY <3>1, AppendProperties, LenProperties
        <3>. QED
            BY <3>2, LenProperties
    <2>2. CASE u # s
        BY <1>3, <2>2 DEF Handlers!Enqueue, QueueInvariant
    <2>. QED
        BY <2>1, <2>2
<1>4. ASSUME NEW u \in Sessions, QueueIsFull(u) \/ PostFails(u)
      PROVE  \/ post'[s].task = task
             \/ \E status, eof : Answers(task, status, eof)
    BY <1>4
    DEF QueueIsFull, PostFails, Handlers!Refuse, Handlers!EnqueueThrows, QueueInvariant
<1>5. ASSUME NEW u \in Sessions, SessionNext(u)
      PROVE  \/ post' = post \/ (\E c : OnReadRequest(u, c))
             \/ Handlers!Reserve(u) \/ Handlers!ReserveAgain(u) \/ Handlers!Enqueue(u)
             \/ QueueIsFull(u) \/ PostFails(u)
    BY <1>5
    DEF SessionNext, Accept, Expire, OnReadBadRequest, OnReadEndOfStream, OnReadError,
        OnHandlerResponse, OnWrite, OnWriteError, OnTimerFiredClose, OnTimerFiredDeadline,
        OnStale, PostsOn, handlerVars
<1>6. ASSUME NEW w \in Workers, HandlerNext(w)
      PROVE  post' = post
    BY <1>6
    DEF HandlerNext, StartTask, HandleWithoutConnection, AcquireConnection, PoolIsBusy,
        CannotConnect, UseConnection, HandleWithConnection, Returns, handlerVars,
        Handlers!Take, Handlers!GivePlaceBack, Handlers!Finish
<1>. QED
    BY <1>1, <1>2, <1>3, <1>4, <1>5, <1>6 DEF Next, vars, handlerVars

LEMMA LocatedStep ==
    ASSUME IInv, QueueInvariant, LostIsKnown, [Next]_vars,
           NEW s \in Sessions, NEW request \in 1 .. MaxRequests,
           Located(s, request), KeepsAnswers(s, request)
    PROVE  Located(s, request)'
<1>. DEFINE task == [session |-> s, request |-> request]
<1>1. task \in RequestTasks /\ task.session = s /\ task.request = request
    BY DEF RequestTasks
<1>2. ASSUME NEW status, NEW eof, Answers(task, status, eof)
      PROVE  Located(s, request)'
    BY <1>1, <1>2, AnswersArrive DEF Located
<1>3. CASE \E c \in completions[s] : c.op = "handler" /\ c.request = request
    BY <1>3 DEF KeepsAnswers, Located
<1>6. CASE request \in lost[s]
    BY <1>6, LostStep DEF Located
<1>. HIDE DEF task
<1>4. CASE post[s].task = task
    <2>1. \/ post'[s].task = task
          \/ \E i \in DOMAIN waiting' : waiting'[i] = task
          \/ \E status, eof : Answers(task, status, eof)
        BY <1>1, <1>4, PostingStep
    <2>. QED
        BY <1>1, <1>2, <2>1 DEF Located, IsUnderWay, task
<1>5. CASE \/ \E i \in DOMAIN waiting : waiting[i] = task
           \/ \E w \in Workers : running[w].task = task
    <2>1. HandlersNext \/ UNCHANGED handlerVars
        BY HandlersStep
    <2>2. \/ \E i \in DOMAIN waiting' : waiting'[i] = task
          \/ \E w \in Workers : running'[w].task = task
          \/ \E w \in Workers : running[w].task = task /\ Handlers!Finish(w)
        BY <1>1, <1>5, <2>1, TasksMoveOn
    <2>3. ASSUME NEW w \in Workers, running[w].task = task, Handlers!Finish(w)
          PROVE  Located(s, request)'
        <3>1. PICK status, eof : Answers(task, status, eof)
            BY <1>1, <2>3, FinishAnswers
        <3>. QED
            BY <1>2, <3>1
    <2>. QED
        BY <2>2, <2>3 DEF Located, IsUnderWay, task
<1>. QED
    BY <1>1, <1>3, <1>4, <1>5, <1>6 DEF Located, IsUnderWay, task

RequestsInvariant ==
    /\ IInv
    /\ QueueInvariant
    /\ WaitingIsForRequests
    /\ WaitsWithDeadline
    /\ LostIsKnown
    /\ NoRequestIsForgotten

LEMMA RequestsStep ==
    ASSUME RequestsInvariant, [Next]_vars
    PROVE  RequestsInvariant'
<1>. USE DEF RequestsInvariant
<1>1. IInv' /\ QueueInvariant' /\ LostIsKnown'
    BY NextInvariant, HandlersStep, QueueTypes, LostStep
<1>2. ASSUME NEW s \in Sessions, Waits(s)'
      PROVE  /\ session'[s].request \in 1 .. MaxRequests
             /\ Located(s, session[s].request)'
             /\ HasItsDeadline(s)'
    <2>1. CASE /\ Waits(s) /\ session'[s].request = session[s].request
               /\ KeepsAnswers(s, session[s].request) /\ KeepsItsDeadline(s)
        <3>1. /\ session[s].request \in 1 .. MaxRequests /\ Located(s, session[s].request)
              /\ HasItsDeadline(s)
            BY <2>1 DEF WaitingIsForRequests, WaitsWithDeadline, NoRequestIsForgotten, Waits, Located
        <3>2. PICK request \in 1 .. MaxRequests : request = session[s].request
            BY <3>1
        <3>3. Located(s, request)'
            BY <2>1, <3>1, <3>2, LocatedStep
        <3>. QED
            BY <2>1, <3>1, <3>2, <3>3 DEF Located, KeepsItsDeadline
    <2>2. ASSUME NEW c, OnReadRequest(s, c)
          PROVE  /\ session'[s].request \in 1 .. MaxRequests
                 /\ Located(s, session[s].request)'
                 /\ HasItsDeadline(s)'
        <3>1. PICK S : S = session[s]
            OBVIOUS
        <3>2. S \in SessionState /\ S.request \in Nat /\ S.request > 0 /\ c.request = S.request
              /\ c.request <= MaxRequests
            BY <2>2, <3>1, SessionFacts DEF OnReadRequest, ReadMatches
        <3>3. PICK T : T = [Cancel(S) EXCEPT !.phase = "awaiting_handler", !.request_ptr = TRUE]
            OBVIOUS
        <3>4. T \in SessionState /\ T.request = S.request
            <4>1. Cancel(S) \in SessionState /\ Cancel(S).request = S.request
                BY <3>2, TimerFields DEF Modes
            <4>. QED
                BY <3>3, <4>1 DEF SessionState
        <3>5. session'[s] = ArmIf(HasDeadline, T, "request_deadline")
            BY <2>2, <3>1, <3>3 DEF OnReadRequest, Becomes, IInv
        <3>6. session'[s].request = S.request
            BY <3>4, <3>5, TimerFields DEF Modes
        <3>7. HasItsDeadline(s)'
            BY <3>4, <3>5 DEF HasItsDeadline, DeadlineStands, ArmIf, Arm, Cancel, SessionState
        <3>8. post'[s].task = [session |-> s, request |-> S.request]
            BY <2>2, <3>2 DEF OnReadRequest, Handlers!BeginPost, QueueInvariant
        <3>. QED
            BY <3>2, <3>6, <3>7, <3>8 DEF Located, IsUnderWay
    <2>3. CASE SessionNext(s)
        BY <2>1, <2>2, <2>3, <1>2, WaitingStep
    <2>6. ASSUME session'[s] = session[s], completions[s] \subseteq completions'[s]
          PROVE  /\ Waits(s) /\ session'[s].request = session[s].request
                 /\ KeepsAnswers(s, session[s].request) /\ KeepsItsDeadline(s)
        BY <1>2, <2>6 DEF Waits, KeepsAnswers, KeepsItsDeadline, HasItsDeadline, DeadlineStands
    <2>4. CASE \/ \E u \in Sessions \ {s} : SessionNext(u)
               \/ \E w \in Workers : HandlerNext(w)
        <3>1. session'[s] = session[s]
            BY <2>4, OthersAreLeftAlone, HandlersCloseNothing
        <3>2. completions[s] \subseteq completions'[s]
            BY <2>4, OthersKeepAnswers
        <3>. QED
            BY <2>1, <2>6, <3>1, <3>2
    <2>5. CASE UNCHANGED vars
        BY <2>1, <2>5, <2>6 DEF vars, sessionVars
    <2>. QED
        BY <2>3, <2>4, <2>5 DEF Next
<1>3. WaitingIsForRequests' /\ WaitsWithDeadline'
    BY <1>2 DEF WaitingIsForRequests, WaitsWithDeadline, Waits
<1>4. NoRequestIsForgotten'
    BY <1>2 DEF NoRequestIsForgotten, Waits, Located, HasItsDeadline
<1>. QED
    BY <1>1, <1>3, <1>4

(* Where the server has a deadline, a session that waits has it. *)
DeadlinesAreSet ==
    HasDeadline => \A s \in Sessions : Waits(s) => session[s].mode = "request_deadline"

(* A session that waits for its handler will hear of it: its request is on *)
(* the way into the queue, in it, with a thread, or answered, unless the   *)
(* post of its answer threw (async_handle and its callback).  And in every *)
(* server with a deadline the timer of a session that waits stands, so     *)
(* that the lost answer is replaced (arm_request_deadline).                *)
THEOREM RequestsAreKept == Spec => [](NoRequestIsForgotten /\ DeadlinesAreSet)
<1>1. Init => RequestsInvariant
    BY InitInvariant, QueueInit DEF RequestsInvariant
<1>2. RequestsInvariant /\ [Next]_vars => RequestsInvariant'
    BY RequestsStep
<1>3. RequestsInvariant => NoRequestIsForgotten /\ DeadlinesAreSet
    BY DEF RequestsInvariant, WaitsWithDeadline, HasItsDeadline, DeadlinesAreSet
<1>. QED
    BY <1>1, <1>2, <1>3, PTL DEF Spec

-----------------------------------------------------------------------------
(* The pool of connections: a slot is free, and not in use, or one handler *)
(* has it.                                                                 *)

HasLeases ==
    /\ lease \in [Workers -> [step : {"none", "waiting", "checking", "leased"},
                              slot : Connections!Slots \union {Connections!NoSlot}]]
    /\ in_use \in [Connections!Slots -> BOOLEAN]
    /\ free \in Seq(Connections!Slots)

FreeOnce == \A i, j \in 1 .. Len(free) : free[i] = free[j] => i = j

FreeIsUnused == \A i \in 1 .. Len(free) : ~in_use[free[i]]

HeldIsUsed ==
    \A w \in Workers : Connections!Holds(w) =>
        Connections!Slot(w) \in Connections!Slots /\ in_use[Connections!Slot(w)]

SlotsInvariant ==
    HasLeases /\ FreeOnce /\ FreeIsUnused /\ HeldIsUsed /\ Connections!SlotsAreKept

LEMMA SlotsInit ==
    ASSUME Init
    PROVE  SlotsInvariant
<1>. USE DEF Connections!Slots, Connections!NoSlot, Connections!Holds, Connections!Slot
<1>1. /\ free = [i \in 1 .. PoolSize |-> i - 1]
      /\ in_use = [slot \in Connections!Slots |-> FALSE]
      /\ lease = [w \in Workers |-> Connections!NoLease]
    BY DEF Init, Connections!ConnectionPoolInit
<1>2. free \in Seq(Connections!Slots) /\ Len(free) = PoolSize
    BY <1>1, Sizes
<1>3. \A w \in Workers : ~Connections!Holds(w)
    BY <1>1 DEF Connections!NoLease
<1>4. HasLeases
    BY <1>1, <1>2, Sizes DEF HasLeases, Connections!NoLease
<1>5. FreeOnce /\ FreeIsUnused
    BY <1>1, <1>2, Sizes DEF FreeOnce, FreeIsUnused
<1>6. Connections!NoSlotIsLost
    <2>1. ASSUME NEW slot \in Connections!Slots
          PROVE  \E i \in DOMAIN free : free[i] = slot
        <3>1. slot + 1 \in 1 .. PoolSize /\ (slot + 1) - 1 = slot
            BY Sizes
        <3>. QED
            BY <1>1, <3>1
    <2>. QED
        BY <2>1 DEF Connections!NoSlotIsLost
<1>. QED
    BY <1>3, <1>4, <1>5, <1>6
    DEF SlotsInvariant, HeldIsUsed, Connections!SlotsAreKept, Connections!NoConnectionIsShared

(* A handler takes the first free slot.                                    *)
LEMMA AcquireSlotStep ==
    ASSUME SlotsInvariant, NEW w \in Workers, Connections!AcquireSlot(w)
    PROVE  SlotsInvariant'
<1>. USE DEF Connections!Holds, Connections!Slot
<1>. DEFINE first == Head(free)
<1>1. /\ free \in Seq(Connections!Slots) /\ free # <<>> /\ Len(free) \in Nat
      /\ DOMAIN free = 1 .. Len(free)
    BY LenProperties DEF SlotsInvariant, HasLeases, Connections!AcquireSlot
<1>2. /\ first \in Connections!Slots /\ first = free[1] /\ 1 \in 1 .. Len(free)
      /\ free' \in Seq(Connections!Slots) /\ Len(free') = Len(free) - 1
      /\ \A i \in 1 .. Len(free') : free'[i] = free[i + 1]
    BY <1>1, HeadTailProperties DEF Connections!AcquireSlot, Connections!OthersFree
<1>3. \A i \in 1 .. Len(free') : i + 1 \in 1 .. Len(free) /\ i + 1 # 1
    BY <1>1, <1>2
<1>. HIDE DEF first
<1>4. ~in_use[first]
    BY <1>2 DEF SlotsInvariant, FreeIsUnused
<1>5. /\ in_use' = [in_use EXCEPT ![first] = TRUE]
      /\ lease' = [lease EXCEPT ![w] = [step |-> "checking", slot |-> first]]
    BY DEF Connections!AcquireSlot, first
<1>6. HasLeases'
    BY <1>2, <1>5 DEF SlotsInvariant, HasLeases
<1>7. FreeOnce'
    BY <1>2, <1>3 DEF SlotsInvariant, FreeOnce
<1>8. FreeIsUnused'
    <2>1. ASSUME NEW i \in 1 .. Len(free')
          PROVE  ~in_use'[free'[i]]
        <3>1. free'[i] = free[i + 1] /\ free[i + 1] \in Connections!Slots /\ ~in_use[free[i + 1]]
            BY <1>1, <1>2, <1>3, ElementOfSeq DEF SlotsInvariant, FreeIsUnused
        <3>2. free[i + 1] # first
            BY <1>2, <1>3 DEF SlotsInvariant, FreeOnce
        <3>. QED
            BY <1>5, <3>1, <3>2 DEF SlotsInvariant, HasLeases
    <2>. QED
        BY <2>1 DEF FreeIsUnused
<1>9. \A v \in Workers : /\ v = w => Connections!Holds(v)' /\ Connections!Slot(v)' = first
                         /\ v # w => lease'[v] = lease[v]
    BY <1>5 DEF SlotsInvariant, HasLeases
<1>10. \A slot \in Connections!Slots : in_use'[slot] = (slot = first \/ in_use[slot])
    BY <1>5 DEF SlotsInvariant, HasLeases
<1>11. HeldIsUsed'
    BY <1>2, <1>9, <1>10 DEF SlotsInvariant, HeldIsUsed
<1>12. Connections!NoConnectionIsShared'
    BY <1>4, <1>9
    DEF SlotsInvariant, HeldIsUsed, Connections!SlotsAreKept, Connections!NoConnectionIsShared
<1>13. Connections!NoSlotIsLost'
    <2>1. ASSUME NEW slot \in Connections!Slots
          PROVE  \/ \E i \in DOMAIN free' : free'[i] = slot
                 \/ \E v \in Workers : Connections!Holds(v)' /\ Connections!Slot(v)' = slot
        <3>1. CASE slot = first
            BY <1>9, <3>1
        <3>2. ASSUME NEW i \in 1 .. Len(free), free[i] = slot, slot # first
              PROVE  \E j \in DOMAIN free' : free'[j] = slot
            <4>1. i - 1 \in 1 .. Len(free') /\ (i - 1) + 1 = i
                BY <1>1, <1>2, <3>2
            <4>. QED
                BY <1>2, <3>2, <4>1, LenProperties
        <3>3. ASSUME NEW v \in Workers, Connections!Holds(v), Connections!Slot(v) = slot
              PROVE  Connections!Holds(v)' /\ Connections!Slot(v)' = slot
            BY <1>9, <3>3 DEF SlotsInvariant, HasLeases, Connections!AcquireSlot
        <3>. QED
            BY <1>1, <3>1, <3>2, <3>3 DEF SlotsInvariant, Connections!SlotsAreKept, Connections!NoSlotIsLost
    <2>. QED
        BY <2>1 DEF Connections!NoSlotIsLost
<1>. QED
    BY <1>6, <1>7, <1>8, <1>11, <1>12, <1>13 DEF SlotsInvariant, Connections!SlotsAreKept

(* A handler gives the slot back that it has.                              *)
LEMMA ReleaseSlotStep ==
    ASSUME SlotsInvariant, NEW w \in Workers, Connections!Holds(w),
           Connections!ReleaseSlot(Connections!Slot(w)),
           lease' = [lease EXCEPT ![w] = Connections!NoLease]
    PROVE  SlotsInvariant'
<1>. USE DEF Connections!Holds, Connections!Slot
<1>. DEFINE own == Connections!Slot(w)
<1>1. /\ own \in Connections!Slots /\ in_use[own]
      /\ free \in Seq(Connections!Slots) /\ Len(free) \in Nat /\ DOMAIN free = 1 .. Len(free)
    BY LenProperties DEF SlotsInvariant, HasLeases, HeldIsUsed
<1>2. in_use' = [in_use EXCEPT ![own] = FALSE] /\ free' = Append(free, own)
    BY <1>1 DEF Connections!ReleaseSlot
<1>. HIDE DEF own
<1>3. /\ free' \in Seq(Connections!Slots) /\ Len(free') = Len(free) + 1
      /\ \A i \in 1 .. Len(free) : free'[i] = free[i] /\ free[i] # own
      /\ free'[Len(free) + 1] = own /\ DOMAIN free' = 1 .. Len(free) + 1
    <2>1. \A i \in 1 .. Len(free) : free[i] # own
        BY <1>1 DEF SlotsInvariant, FreeIsUnused
    <2>. QED
        BY <1>1, <1>2, <2>1, AppendProperties, LenProperties
<1>4. \A i \in 1 .. Len(free) + 1 : i = Len(free) + 1 \/ i \in 1 .. Len(free)
    BY <1>1
<1>5. HasLeases'
    BY <1>1, <1>2, <1>3 DEF SlotsInvariant, HasLeases, Connections!NoLease, Connections!NoSlot
<1>6. FreeOnce'
    BY <1>3, <1>4 DEF SlotsInvariant, FreeOnce
<1>7. \A slot \in Connections!Slots : in_use'[slot] = (slot # own /\ in_use[slot])
    BY <1>1, <1>2 DEF SlotsInvariant, HasLeases
<1>8. FreeIsUnused'
    BY <1>1, <1>3, <1>4, <1>7, ElementOfSeq DEF SlotsInvariant, FreeIsUnused
<1>9. \A v \in Workers : /\ v = w => ~Connections!Holds(v)'
                         /\ v # w => lease'[v] = lease[v]
    BY DEF SlotsInvariant, HasLeases, Connections!NoLease
<1>10. HeldIsUsed'
    <2>1. \A v \in Workers \ {w} : Connections!Holds(v) => Connections!Slot(v) # own
        BY DEF own, SlotsInvariant, Connections!SlotsAreKept, Connections!NoConnectionIsShared
    <2>. QED
        BY <1>7, <1>9, <2>1 DEF SlotsInvariant, HeldIsUsed
<1>11. Connections!NoConnectionIsShared'
    BY <1>9 DEF SlotsInvariant, Connections!SlotsAreKept, Connections!NoConnectionIsShared
<1>12. Connections!NoSlotIsLost'
    <2>1. ASSUME NEW slot \in Connections!Slots
          PROVE  \/ \E i \in DOMAIN free' : free'[i] = slot
                 \/ \E v \in Workers : Connections!Holds(v)' /\ Connections!Slot(v)' = slot
        <3>1. CASE slot = own
            BY <1>1, <1>3, <3>1
        <3>2. ASSUME NEW i \in 1 .. Len(free), free[i] = slot
              PROVE  \E j \in DOMAIN free' : free'[j] = slot
            BY <1>1, <1>3, <3>2
        <3>3. ASSUME NEW v \in Workers \ {w}, Connections!Holds(v), Connections!Slot(v) = slot
              PROVE  Connections!Holds(v)' /\ Connections!Slot(v)' = slot
            BY <1>9, <3>3
        <3>. QED
            BY <1>1, <3>1, <3>2, <3>3
            DEF own, SlotsInvariant, Connections!SlotsAreKept, Connections!NoSlotIsLost
    <2>. QED
        BY <2>1 DEF Connections!NoSlotIsLost
<1>. QED
    BY <1>5, <1>6, <1>8, <1>10, <1>11, <1>12 DEF SlotsInvariant, Connections!SlotsAreKept

(* The other steps leave the slots with those who have them.               *)
LEMMA LeaseStep ==
    ASSUME SlotsInvariant, NEW w \in Workers, NEW step \in {"none", "waiting", "leased"}, NEW slot,
           \/ ~Connections!Holds(w) /\ step # "leased" /\ slot = Connections!NoSlot
           \/ Connections!Holds(w) /\ step = "leased" /\ slot = Connections!Slot(w),
           lease' = [lease EXCEPT ![w] = [step |-> step, slot |-> slot]], UNCHANGED <<free, in_use>>
    PROVE  SlotsInvariant'
<1>. USE DEF Connections!Holds, Connections!Slot
<1>1. \A v \in Workers : /\ Connections!Holds(v)' <=> Connections!Holds(v)
                         /\ Connections!Holds(v) => Connections!Slot(v)' = Connections!Slot(v)
    BY DEF SlotsInvariant, HasLeases
<1>2. HasLeases'
    BY DEF SlotsInvariant, HasLeases
<1>3. FreeOnce' /\ FreeIsUnused'
    BY DEF SlotsInvariant, FreeOnce, FreeIsUnused
<1>4. HeldIsUsed'
    BY <1>1 DEF SlotsInvariant, HeldIsUsed
<1>5. Connections!SlotsAreKept'
    BY <1>1
    DEF SlotsInvariant, Connections!SlotsAreKept, Connections!NoConnectionIsShared,
        Connections!NoSlotIsLost
<1>. QED
    BY <1>2, <1>3, <1>4, <1>5 DEF SlotsInvariant

LEMMA SlotsStep ==
    ASSUME SlotsInvariant, NEW w \in Workers, Connections!WorkersNext(w)
    PROVE  SlotsInvariant'
<1>1. CASE Connections!BeginAcquire(w)
    <2>1. /\ ~Connections!Holds(w) /\ UNCHANGED <<free, in_use>>
          /\ lease' = [lease EXCEPT ![w] = [step |-> "waiting", slot |-> Connections!NoSlot]]
        BY <1>1 DEF Connections!BeginAcquire, Connections!NoLease, Connections!Holds
    <2>. QED
        BY <2>1, LeaseStep
<1>2. CASE Connections!AcquireTimesOut(w)
    <2>1. /\ ~Connections!Holds(w) /\ UNCHANGED <<free, in_use>>
          /\ lease' = [lease EXCEPT ![w] = [step |-> "none", slot |-> Connections!NoSlot]]
        BY <1>2 DEF Connections!AcquireTimesOut, Connections!NoLease, Connections!Holds
    <2>. QED
        BY <2>1, LeaseStep
<1>3. CASE Connections!ConnectionIsGood(w) \/ Connections!Reconnects(w)
    <2>1. PICK L : L = lease[w]
        OBVIOUS
    <2>2. /\ L = [step |-> L.step, slot |-> L.slot]
          /\ lease' = [lease EXCEPT ![w] = [L EXCEPT !.step = "leased"]]
          /\ Connections!Holds(w) /\ L.slot = Connections!Slot(w)
        BY <1>3, <2>1
        DEF Connections!ConnectionIsGood, Connections!Reconnects, Connections!Holds,
            Connections!Slot, SlotsInvariant, HasLeases
    <2>3. PICK slot : slot = L.slot
        OBVIOUS
    <2>4. lease' = [lease EXCEPT ![w] = [step |-> "leased", slot |-> slot]]
        <3>1. [L EXCEPT !.step = "leased"] = [step |-> "leased", slot |-> slot]
            BY <2>2, <2>3
        <3>. QED
            BY <2>2, <3>1
    <2>. QED
        <3>1. UNCHANGED <<free, in_use>>
            BY <1>3 DEF Connections!ConnectionIsGood, Connections!Reconnects
        <3>. QED
            BY <2>2, <2>3, <2>4, <3>1, LeaseStep
<1>4. CASE Connections!ReconnectFails(w) \/ Connections!Release(w)
    BY <1>4, ReleaseSlotStep
    DEF Connections!ReconnectFails, Connections!Release, Connections!Holds, Connections!Leased
<1>5. CASE Connections!Breaks(w) \/ Connections!Repairs(w)
    BY <1>5
    DEF Connections!Breaks, Connections!Repairs, SlotsInvariant, HasLeases, FreeOnce, FreeIsUnused,
        HeldIsUsed, Connections!SlotsAreKept, Connections!NoConnectionIsShared,
        Connections!NoSlotIsLost, Connections!Holds, Connections!Slot
<1>. QED
    BY <1>1, <1>2, <1>3, <1>4, <1>5, AcquireSlotStep DEF Connections!WorkersNext

(* The steps of the server are steps of its connection pool.               *)
LEMMA ConnectionsStep ==
    ASSUME [Next]_vars
    PROVE  Connections!ConnectionPoolNext \/ UNCHANGED connectionVars
<1>1. ASSUME NEW s \in Sessions, SessionNext(s)
      PROVE  UNCHANGED connectionVars
    BY <1>1
    DEF SessionNext, Accept, Expire, OnReadRequest, OnReadBadRequest, OnReadEndOfStream,
        OnReadError, OnHandlerResponse, OnWrite, OnWriteError, OnTimerFiredClose,
        OnTimerFiredDeadline, OnStale, PostsOn, QueueIsFull, PostFails
<1>2. ASSUME NEW w \in Workers, HandlerNext(w)
      PROVE  Connections!WorkersNext(w) \/ UNCHANGED connectionVars
    BY <1>2
    DEF HandlerNext, StartTask, HandleWithoutConnection, AcquireConnection, PoolIsBusy,
        CannotConnect, UseConnection, HandleWithConnection, Connections!WorkersNext
<1>. QED
    BY <1>1, <1>2 DEF Next, vars, Connections!ConnectionPoolNext

LEMMA SlotsStay == Spec => []SlotsInvariant
<1>1. Init => SlotsInvariant
    BY SlotsInit
<1>2. SlotsInvariant /\ [Next]_vars => SlotsInvariant'
    <2>1. CASE UNCHANGED connectionVars
        BY <2>1
        DEF connectionVars, SlotsInvariant, HasLeases, FreeOnce, FreeIsUnused, HeldIsUsed,
            Connections!SlotsAreKept, Connections!NoConnectionIsShared, Connections!NoSlotIsLost,
            Connections!Holds, Connections!Slot
    <2>. QED
        BY <2>1, SlotsStep, ConnectionsStep DEF Connections!ConnectionPoolNext
<1>. QED
    BY <1>1, <1>2, PTL DEF Spec

(* Two handlers never work on one connection, and a slot nobody has is in  *)
(* the queue, whatever went wrong with its connection (acquire_slot_index, *)
(* acquire_impl and release).                                              *)
THEOREM ConnectionsAreKept == Spec => []SlotsAreKept
<1>1. SlotsInvariant => SlotsAreKept
    BY DEF SlotsInvariant, SlotsAreKept
<1>. QED
    BY <1>1, SlotsStay, PTL

(* The two instances of WorkerPool, and of what it extends, are the same.  *)
LEMMA SamePool ==
    /\ Handlers!WorkerPoolInit => Queue!WorkerPoolInit
    /\ HandlersNext => Queue!WorkerPoolNext
    /\ Queue!WorkerPoolTypeOK => Handlers!WorkerPoolTypeOK
    /\ Queue!QueueIsSound => QueueIsSound
<1>1. \A S : Queue!Cardinality(S) = Handlers!Cardinality(S)
    BY DEF Queue!Cardinality, Handlers!Cardinality
<1>2. HandlersNext => Queue!WorkerPoolNext
    BY DEF HandlersNext,
        Queue!WorkerPoolNext, Queue!BeginPost, Queue!Reserve, Queue!ReserveAgain, Queue!Refuse,
        Queue!Enqueue, Queue!EnqueueThrows, Queue!Take, Queue!GivePlaceBack, Queue!Finish,
        Queue!Idle, Queue!Unoccupied, Queue!HasRoom, Queue!Unchanged, Queue!CountAfterThrow,
        Queue!Reserved, Queue!IsCounted, Queue!Limited,
        Handlers!WorkerPoolNext, Handlers!BeginPost, Handlers!Reserve, Handlers!ReserveAgain,
        Handlers!Refuse, Handlers!Enqueue, Handlers!EnqueueThrows, Handlers!Take,
        Handlers!GivePlaceBack, Handlers!Finish, Handlers!Idle, Handlers!Unoccupied,
        Handlers!HasRoom, Handlers!Unchanged, Handlers!CountAfterThrow, Handlers!Reserved,
        Handlers!IsCounted, Handlers!Limited
<1>. QED
    BY <1>1, <1>2
    DEF Queue!WorkerPoolInit, Queue!Idle, Queue!Unoccupied, Queue!WorkerPoolTypeOK,
        Queue!QueueIsSound, Queue!PlacesAreAccountedFor, Queue!QueueIsBounded, Queue!Limited,
        Queue!Reserved, Handlers!WorkerPoolInit, Handlers!Idle, Handlers!Unoccupied,
        Handlers!WorkerPoolTypeOK, QueueIsSound, Handlers!QueueIsSound,
        Handlers!PlacesAreAccountedFor, Handlers!QueueIsBounded, Handlers!Limited,
        Handlers!Reserved

(* A server is a worker pool for its requests and a pool of connections    *)
(* for its handlers: what is true of the pools whoever uses them is true   *)
(* of them here.                                                           *)
THEOREM ImplementsItsPools == Spec => Queue!WorkerPoolSpec /\ Connections!ConnectionPoolSpec
<1>1. Init => Queue!WorkerPoolInit /\ Connections!ConnectionPoolInit
    BY SamePool DEF Init
<1>2. IInv /\ [Next]_vars => [Queue!WorkerPoolNext]_handlerVars
    BY HandlersStep, SamePool
<1>3. [Next]_vars => [Connections!ConnectionPoolNext]_connectionVars
    BY ConnectionsStep
<1>. QED
    BY <1>1, <1>2, <1>3, SpecInvariant, PTL
    DEF Spec, Queue!WorkerPoolSpec, Connections!ConnectionPoolSpec, handlerVars,
        connectionVars, Queue!workerPoolVars, Connections!connectionPoolVars

(* The handlers' queue takes a request exactly while it has a place, and   *)
(* no place is lost, however sessions race for the last one                *)
(* (worker_pool::post).                                                    *)
THEOREM HandlersQueueIsSound == Spec => [](Handlers!WorkerPoolTypeOK /\ QueueIsSound)
<1>1. Queue!Parameters
    BY LimitAssumption, PeopleAssumption DEF Queue!Parameters, Queue!IsFiniteSet, IsFiniteSet
<1>2. Queue!WorkerPoolSpec => [](Queue!WorkerPoolTypeOK /\ Queue!QueueIsSound)
    BY <1>1, Queue!QueueStaysSound
<1>. QED
    BY <1>2, ImplementsItsPools, SamePool, PTL

LEMMA ConnectedInvariant == Spec => []Connections!ConnectionPoolTypeOK
<1>. DEFINE Connected == connected \in [Connections!Slots -> BOOLEAN]
<1>1. Init => Connected /\ SlotsInvariant
    BY SlotsInit DEF Init, Connections!ConnectionPoolInit
<1>2. Connected /\ [Next]_vars => Connected'
    <2>1. ASSUME NEW w \in Workers, Connections!WorkersNext(w), Connected
          PROVE  Connected'
        BY <2>1
        DEF Connections!WorkersNext, Connections!BeginAcquire, Connections!AcquireSlot,
            Connections!AcquireTimesOut, Connections!ConnectionIsGood, Connections!Reconnects,
            Connections!ReconnectFails, Connections!Release, Connections!Breaks,
            Connections!Repairs
    <2>. QED
        BY <2>1, ConnectionsStep DEF connectionVars, Connections!ConnectionPoolNext
<1>3. SlotsInvariant /\ Connected => Connections!ConnectionPoolTypeOK
    BY DEF SlotsInvariant, HasLeases, Connections!ConnectionPoolTypeOK
<1>4. Spec => []SlotsInvariant
    BY SlotsStay
<1>. QED
    BY <1>1, <1>2, <1>3, <1>4, PTL DEF Spec

(* A client can take the n-th answer of its connection for the answer to   *)
(* its n-th request: a request is answered at most once, with what the     *)
(* observer was told, and refused for its deadline only when that has      *)
(* passed (on_handler_response, on_timer_fired, write_response).           *)
THEOREM AnswersStayInOrder == Spec => []AnswersAreInOrder
<1>1. ASSUME IInv, Handlers!WorkerPoolTypeOK, Connections!ConnectionPoolTypeOK
      PROVE  AnswersAreInOrder
    <2>1. ASSUME NEW s \in Sessions
          PROVE  Good(session[s], completions[s], answers[s], overdue[s], observed[s])
        BY <1>1 DEF IInv, GoodSession
    <2>2. \A s \in Sessions : DOMAIN answers[s] = 1 .. Len(answers[s])
        BY <2>1, LenProperties DEF Good, InOrder
    <2>3. OneAnswerPerRequest
        BY <2>1, <2>2 DEF Good, InOrder, OneAnswerPerRequest
    <2>4. OneWriteAtATime
        BY <2>1 DEF Good, WritesOnce, OneWriteAtATime
    <2>5. DeadlineIsItsOwn
        BY <2>1, <2>2 DEF Good, KnowsItsDeadlines, DeadlineIsItsOwn
    <2>6. AnswersAreObserved
        BY <2>1, <2>2 DEF Good, TellsTheObserver, AnswersAreObserved
    <2>7. ASSUME NEW s \in Sessions, NEW i \in 1 .. Len(answers[s])
          PROVE  answers[s][i].status \in Statuses
        <3>1. answers[s][i] \in Reply
            BY <2>1, ElementOfSeq DEF Good, InOrder
        <3>. QED
            BY <3>1 DEF Reply
    <2>8. TypeOK
        BY <1>1, <2>1, <2>2, <2>7 DEF TypeOK, Good, HasCallbacks, SessionState, Modes
    <2>. QED
        BY <2>3, <2>4, <2>5, <2>6, <2>8 DEF AnswersAreInOrder
<1>. QED
    BY <1>1, SpecInvariant, HandlersQueueIsSound, ConnectedInvariant, PTL
=============================================================================
