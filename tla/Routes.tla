--------------------------------- MODULE Routes ---------------------------------
(***************************************************************************)
(* How http_dispatcher finds the handler of a request: by the prefix of    *)
(* its path, then through the route table of that prefix, in order.  A     *)
(* request gets a connection of the pool between the two, unless it is a   *)
(* public one of the system.  The routes carry the names the handlers have *)
(* in Endpoints.                                                           *)
(***************************************************************************)
EXTENDS Endpoints, Integers, FiniteSetsExt, SequencesExt

CONSTANTS
    Paths,                         \* what is asked for: <<area, rest>>, see Segments
    Int32Segments, Int64Segments,  \* the segments that are a positive number of so many bits
    UndecodableSegments            \* those that a percent-decoder refuses or leaves empty

Methods == {"GET", "POST", "PUT", "DELETE"}

-----------------------------------------------------------------------------
(* Segments of a path and their patterns *)

IsInt32(segment) == segment \in Int32Segments
IsInt64(segment) == segment \in Int64Segments
IsDecodable(segment) == segment \notin UndecodableSegments

Lit(s) == [kind |-> "literal", value |-> s]
Int64 == [kind |-> "positive_int64", value |-> ""]
Int32 == [kind |-> "positive_int32", value |-> ""]
Decoded == [kind |-> "percent_decoded_string", value |-> ""]

\* parse_path: a slash at the end is no segment, one in the middle may be an empty one.
Segments(rest) == IF rest # <<>> /\ Last(rest) = "" THEN Front(rest) ELSE rest

Matches(matcher, segment) ==
    CASE matcher.kind = "literal" -> segment = matcher.value
      [] matcher.kind = "positive_int64" -> IsInt64(segment)
      [] matcher.kind = "positive_int32" -> IsInt32(segment)
      [] OTHER -> IsDecodable(segment)

MatchesPattern(pattern, segments) ==
    /\ Len(pattern) = Len(segments)
    /\ \A i \in 1 .. Len(pattern) : Matches(pattern[i], segments[i])

Route(name, method, pattern) == [name |-> name, method |-> method, pattern |-> pattern]

-----------------------------------------------------------------------------
(* The route tables *)

AuthRoutes == <<
    Route("post_sign_up", "POST", <<Lit("sign-up")>>),
    Route("post_login", "POST", <<Lit("login")>>),
    Route("post_token_renew", "POST", <<Lit("token"), Lit("renew")>>),
    Route("post_logout", "POST", <<Lit("logout")>>) >>

UserQueryRoutes == <<
    Route("get_user_list", "GET", <<>>),
    Route("get_public_user_list", "GET", <<Lit("list")>>),
    Route("get_me", "GET", <<Lit("me")>>),
    Route("get_me_submission_statistics", "GET", <<Lit("me"), Lit("statistics")>>),
    Route("get_me_submission_ban", "GET", <<Lit("me"), Lit("submission-ban")>>),
    Route("get_me_solved_problems", "GET", <<Lit("me"), Lit("solved-problems")>>),
    Route("get_me_wrong_problems", "GET", <<Lit("me"), Lit("wrong-problems")>>),
    Route("get_user_summary_by_login_id", "GET", <<Lit("id"), Decoded>>),
    Route("get_user_submission_statistics", "GET", <<Int64, Lit("statistics")>>),
    Route("get_user_solved_problems", "GET", <<Int64, Lit("solved-problems")>>),
    Route("get_user_wrong_problems", "GET", <<Int64, Lit("wrong-problems")>>),
    Route("get_user_summary", "GET", <<Int64>>),
    Route("get_user_submission_ban", "GET", <<Int64, Lit("submission-ban")>>) >>

UserCommandRoutes == <<
    Route("put_user_admin", "PUT", <<Int64, Lit("admin")>>),
    Route("put_user_regular", "PUT", <<Int64, Lit("user")>>),
    Route("post_user_submission_ban", "POST", <<Int64, Lit("submission-ban")>>),
    Route("delete_user_submission_ban", "DELETE", <<Int64, Lit("submission-ban")>>) >>

ProblemQueryRoutes == <<
    Route("get_problems", "GET", <<>>),
    Route("get_problem", "GET", <<Int64>>),
    Route("get_limits", "GET", <<Int64, Lit("limits")>>),
    Route("get_samples", "GET", <<Int64, Lit("sample")>>) >>

ProblemCommandRoutes == <<
    Route("post_problem", "POST", <<>>),
    Route("delete_problem", "DELETE", <<Int64>>),
    Route("put_problem", "PUT", <<Int64, Lit("title")>>),
    Route("put_limits", "PUT", <<Int64, Lit("limits")>>),
    Route("put_statement", "PUT", <<Int64, Lit("statement")>>),
    Route("post_sample", "POST", <<Int64, Lit("sample")>>),
    Route("delete_sample", "DELETE", <<Int64, Lit("sample")>>),
    Route("put_sample", "PUT", <<Int64, Lit("sample"), Int32>>),
    Route("post_problem_rejudge", "POST", <<Int64, Lit("rejudge")>>) >>

TestcaseRoutes == <<
    Route("get_testcases", "GET", <<Int64, Lit("testcase")>>),
    Route("post_testcase", "POST", <<Int64, Lit("testcase")>>),
    Route("delete_all_testcases", "DELETE", <<Int64, Lit("testcase"), Lit("all")>>),
    Route("post_testcase_zip", "POST", <<Int64, Lit("testcase"), Lit("zip")>>),
    Route("move_testcase", "POST", <<Int64, Lit("testcase"), Lit("move")>>),
    Route("get_testcase", "GET", <<Int64, Lit("testcase"), Int32>>),
    Route("put_testcase", "PUT", <<Int64, Lit("testcase"), Int32>>),
    Route("delete_testcase", "DELETE", <<Int64, Lit("testcase"), Int32>>) >>

SubmissionQueryRoutes == <<
    Route("get_submissions", "GET", <<>>),
    Route("post_submission_status_batch", "POST", <<Lit("status"), Lit("batch")>>),
    Route("get_submission", "GET", <<Int64>>),
    Route("get_submission_history", "GET", <<Int64, Lit("history")>>),
    Route("get_submission_source", "GET", <<Int64, Lit("source")>>) >>

SubmissionCommandRoutes == <<
    Route("post_submission", "POST", <<Int64>>),
    Route("post_submission_rejudge", "POST", <<Int64, Lit("rejudge")>>) >>

SystemDbRoutes == << Route("get_status", "GET", <<Lit("status")>>) >>

SystemPublicRoutes == <<
    Route("get_health", "GET", <<Lit("health")>>),
    Route("get_supported_languages", "GET", <<Lit("supported-languages")>>) >>

UserRoutes == UserQueryRoutes \o UserCommandRoutes
ProblemRoutes == ProblemQueryRoutes \o ProblemCommandRoutes \o TestcaseRoutes
SubmissionRoutes == SubmissionQueryRoutes \o SubmissionCommandRoutes

\* try_handle_route and try_handle_db_backed_system_route
DbRoutes(area) ==
    CASE area = "auth" -> AuthRoutes
      [] area = "submission" -> SubmissionRoutes
      [] area = "problem" -> ProblemRoutes
      [] area = "user" -> UserRoutes
      [] area = "system" -> SystemDbRoutes

Areas == {"auth", "submission", "problem", "user", "system"}

RoutesOf(area) ==
    IF area = "system" THEN ToSet(SystemPublicRoutes \o SystemDbRoutes)
    ELSE ToSet(DbRoutes(area))

-----------------------------------------------------------------------------

VARIABLES
    request,     \* the path and the method of the request the worker handles
    phase,       \* where http_dispatcher::handle is
    has_lease,   \* has the context a connection
    invoked,     \* the handler that was called, "none" before
    status       \* of the response; 0: it is the handler's, or there is none yet

vars == <<request, phase, has_lease, invoked, status>>

Init ==
    /\ request \in [path : Paths, method : Methods]
    /\ phase = "arrived"
    /\ has_lease = FALSE
    /\ invoked = "none"
    /\ status = 0

Area == request.path[1]
Rest == request.path[2]

Respond(code) ==
    /\ phase' = "answered"
    /\ status' = code
    /\ has_lease' = FALSE
    /\ UNCHANGED <<request, invoked>>

\* The routes of a table whose pattern the path has, by their places.
Matching(table) == {i \in DOMAIN table : MatchesPattern(table[i].pattern, Segments(Rest))}

Invoke(route) ==
    /\ phase' = "handler"
    /\ invoked' = route.name
    /\ UNCHANGED <<request, has_lease, status>>

\* Mutant of Dispatch: the first route with this pattern decides.
DispatchOnPathAlone(table) ==
    IF Matching(table) = {} THEN Respond(404)
    ELSE LET first == table[Min(Matching(table))]
         IN  IF first.method = request.method THEN Invoke(first) ELSE Respond(405)

\* dispatch_route_table: the first route with this pattern and this method; a route
\* with another method makes it 405, and without one it is 404.
Dispatch(table) ==
    LET allowed == {i \in Matching(table) : table[i].method = request.method}
    IN  IF allowed # {} THEN Invoke(table[Min(allowed)])
        ELSE Respond(IF Matching(table) # {} THEN 405 ELSE 404)

\* is_db_backed_system_route: exactly this path, before its segments are looked at.
IsDbBackedSystem == Area = "system" /\ Rest = <<"status">>

HandlePublicSystem ==
    /\ phase = "arrived"
    /\ Area = "system"
    /\ ~ IsDbBackedSystem
    /\ Dispatch(SystemPublicRoutes)

HasDbRoutePrefix == IsDbBackedSystem \/ Area \in {"auth", "submission", "problem", "user"}

HandleElsewhere ==
    /\ phase = "arrived"
    /\ Area # "system"
    /\ ~ HasDbRoutePrefix
    /\ Respond(404)

\* acquire_for: a connection, none in time, or none at all.
AcquireConnection ==
    /\ phase = "arrived"
    /\ HasDbRoutePrefix
    /\ \/ Respond(503)
       \/ Respond(500)
       \/ /\ has_lease' = TRUE
          /\ phase' = "connected"
          /\ UNCHANGED <<request, invoked, status>>

HandleRoute ==
    /\ phase = "connected"
    /\ Dispatch(DbRoutes(Area))

\* The handler returns, the context gives its connection back.
HandlerReturns ==
    /\ phase = "handler"
    /\ Respond(0)

Next ==
    \/ HandlePublicSystem \/ HandleElsewhere \/ AcquireConnection
    \/ HandleRoute \/ HandlerReturns

Spec == Init /\ [][Next]_vars

-----------------------------------------------------------------------------
(* Properties *)

\* The routes of the area whose pattern the path has, whatever their order; a path of
\* the system with a slash at its end is none of the database's.
Candidates ==
    IF Area = "elsewhere" THEN {}
    ELSE {route \in RoutesOf(Area) :
              /\ MatchesPattern(route.pattern, Segments(Rest))
              /\ Area = "system" /\ route.name = "get_status" => Rest = <<"status">>}

\* No two routes stand for one method of one path: it is never the order of a table
\* that decides which handler a request gets, such as /me before /{user_id}.
NoRouteIsShadowed ==
    \A one, two \in Candidates : one.method = two.method => one = two

\* A request reaches the handler of its method and path; it is refused with 405 only
\* when the path has routes, all for other methods, and with 404 only when it has none.
\* A path in which a number of a route is no positive number has none: what it is
\* refused with is left open, since problem_api.md and submission_api.md promise 400
\* for some such paths and dispatch_route_table gives 404.
EveryRequestFindsItsRoute ==
    LET wanted == {route \in Candidates : route.method = request.method}
    IN  /\ invoked # "none" => \E route \in wanted : route.name = invoked
        /\ status = 405 => Candidates # {} /\ wanted = {}
        /\ status = 404 => Candidates = {}

\* A handler that uses the database is called with a connection: the context of a
\* public request has none to give.
HandlersHaveTheirConnection ==
    phase = "handler" /\ invoked \notin PublicSystemEndpoints => has_lease
=============================================================================
