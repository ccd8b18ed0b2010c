---------------------------- MODULE MCHttpServer ----------------------------
(***************************************************************************)
(* Three instances of HttpServer for one run; `part` says which of them a  *)
(* behaviour is of.  "load": three sessions and two handlers, a queue of   *)
(* two places, one connection, and one request per session.  "session":    *)
(* one session with two requests and both timers.  "patient": two          *)
(* sessions, a place for each of them, and every timeout switched off.     *)
(***************************************************************************)
EXTENDS HttpServer

CONSTANTS s1, s2, s3

VARIABLE part

Load == INSTANCE HttpServer WITH
    HasDeadline <- FALSE, HasIdleTimeout <- FALSE, MaxRequests <- 1

Patient == INSTANCE HttpServer WITH
    TimesOut <- FALSE, HasDeadline <- FALSE, HasIdleTimeout <- FALSE, MaxRequests <- 1

PartsInit == part \in {"load", "session", "patient"} /\ Init

\* A session of "load" ends with its first request.
NoFurtherRequest == \A s \in Sessions : session[s].request <= 1

PartsNext ==
    /\ \/ part = "load" /\ Load!Next /\ NoFurtherRequest'
       \/ part = "session" /\ Next /\ session'[s2] = Fresh /\ session'[s3] = Fresh
       \/ part = "patient" /\ Patient!Next /\ session'[s3] = Fresh
    /\ UNCHANGED part

\* The fairness of HttpServer, of the part a behaviour is of.
OfPart(A, B) == (part = "session" /\ A) \/ (part = "patient" /\ B)

PartsFairness ==
    /\ \A s \in {s1, s2} :
        /\ WF_vars(OfPart(Expire(s), Patient!Expire(s)))
        /\ WF_vars(OfPart(RunsCallback(s), Patient!RunsCallback(s)))
        /\ WF_vars(OfPart(PostsOn(s) \/ QueueIsFull(s), Patient!PostsOn(s) \/ Patient!QueueIsFull(s)))
    /\ \A w \in Workers :
        /\ WF_vars(OfPart(StartTask(w), Patient!StartTask(w)))
        /\ WF_vars(OfPart(HandleWithoutConnection(w) \/ AcquireConnection(w),
                          Patient!HandleWithoutConnection(w) \/ Patient!AcquireConnection(w)))
        /\ WF_vars(OfPart(PoolIsBusy(w), Patient!PoolIsBusy(w)))
        /\ WF_vars(OfPart(HandleWithConnection(w), Patient!HandleWithConnection(w)))

PartsSpec == PartsInit /\ [][PartsNext]_<<vars, part>> /\ PartsFairness

-----------------------------------------------------------------------------
(* The liveness properties of HttpServer, of the parts they are about.      *)

\* Every request is answered; where there is no deadline, the one whose answer is lost
\* loses its connection (async_handle, http_server.cpp:48-83).
EveryRequestEnds ==
    /\ part = "session" => NobodyWaitsForEver
    /\ part = "patient" => Patient!NobodyWaitsForEver

\* A client that sends no further request, or does not read its answer, loses its
\* session (arm_keep_alive_idle_timeout and on_timer_fired, http_session.cpp:192-198,
\* 402-421).
SilentClientsLoseTheirSession == part = "session" => SilentClientsAreDropped
=============================================================================
