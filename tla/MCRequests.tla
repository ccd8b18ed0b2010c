------------------------------ MODULE MCRequests ------------------------------
(***************************************************************************)
(* Four instances of Requests, which differ in the endpoints that are      *)
(* asked for, and the dispatch of Routes, for one run; `part` says which   *)
(* of them a behaviour is of.  The variables of the others stand still.    *)
(***************************************************************************)
EXTENDS Api, TLC

CONSTANTS ann, t1, s1, s2

VARIABLE part

SlotSymmetry == Permutations({s1, s2})

-----------------------------------------------------------------------------
(* Routes and its paths *)

\* What may stand in a path in the place of a segment a pattern asks for.
InPlaceOf(matcher) ==
    IF matcher.kind = "literal" THEN {matcher.value, "1", ""}
    ELSE {"1", "3000000000", "me", "id", "status", "all", "%zz", ""}

\* With or without a slash at the end.
PathsLike(pattern) ==
    LET segments == UNION {InPlaceOf(pattern[i]) : i \in DOMAIN pattern}
        like == {path \in [DOMAIN pattern -> segments] :
                    \A i \in DOMAIN pattern : path[i] \in InPlaceOf(pattern[i])}
    IN  like \cup {Append(path, "") : path \in like}

\* The route tables, of which the paths are made.
Tables == INSTANCE Routes WITH
    Paths <- {}, request <- asked, phase <- stage, status <- refusal

\* The paths of all routes, and those that miss one by a segment or a slash.
MCPaths ==
    {<<area, rest>> : area \in {"elsewhere"}, rest \in {<<>>, <<"1">>}}
    \cup UNION {{<<area, rest>> : rest \in
                    UNION {PathsLike(route.pattern) : route \in Tables!RoutesOf(area)}} :
                area \in Tables!Areas}

\* Each handler has a route.
ASSUME RoutesAssumption ==
    {route.name : route \in UNION {Dispatcher!RoutesOf(area) : area \in Dispatcher!Areas}}
        = DOMAIN Endpoint

-----------------------------------------------------------------------------
(* The instances of Requests: ann is a superadmin, the other user a regular one. *)

Levels == [u \in Users |-> IF u = ann THEN 2 ELSE 0]
Owners == [t \in Tokens |-> IF t = t1 THEN ann ELSE CHOOSE u \in Users : u # ann]

\* The module extended here is of submissions, and the bans of who submits.
Submissions == {"post_submission", "post_user_submission_ban", "delete_user_submission_ban"}

\* Permissions change while requests that need them are served, and tokens expire.
Authority == INSTANCE Requests WITH
    Served <- {"put_user_admin", "put_user_regular", "get_submission_history", "get_problems"},
    TokenTtl <- 1

\* Sessions are opened, renewed and closed: ann has neither an account nor a token yet.
Sessions == INSTANCE Requests WITH
    Served <- {"post_sign_up", "post_login", "post_token_renew", "post_logout"},
    FirstLevel <- [Levels EXCEPT ![ann] = -1], FirstOwner <- [Owners EXCEPT ![t1] = NoUser]

\* Sources are asked for by their owner, by others, and by who was an administrator;
\* the problem is deleted while it is submitted to.
Sources == INSTANCE Requests WITH
    Served <- {"post_submission", "get_submission_source", "put_user_regular", "delete_problem"},
    TokenTtl <- 1, MaxTime <- 0

dispatcherVars == <<asked, stage, has_lease, invoked, refusal>>

NoDispatch ==
    /\ asked = [path |-> <<"elsewhere", <<>>>>, method |-> "GET"]
    /\ stage = "arrived" /\ has_lease = FALSE /\ invoked = "none" /\ refusal = 0

PartsInit ==
    \/ part = "routes" /\ Dispatcher!Init /\ Init
    \/ part = "submitting" /\ Init /\ NoDispatch
    \/ part = "authority" /\ Authority!Init /\ NoDispatch
    \/ part = "sessions" /\ Sessions!Init /\ NoDispatch
    \/ part = "sources" /\ Sources!Init /\ NoDispatch

\* Those who are banned in "submitting" are banned by ann, and she is not one of them.
BansAreByAnn ==
    \A r \in Slots : request[r].endpoint \in {"post_user_submission_ban", "delete_user_submission_ban"} =>
        request[r].bearer \in {t1, "none"} /\ request[r].subject # ann

PartsNext ==
    /\ \/ part = "routes" /\ Dispatcher!Next /\ UNCHANGED vars
       \/ part = "submitting" /\ Next /\ BansAreByAnn' /\ UNCHANGED dispatcherVars
       \/ part = "authority" /\ Authority!Next /\ UNCHANGED dispatcherVars
       \/ part = "sessions" /\ Sessions!Next /\ UNCHANGED dispatcherVars
       \/ part = "sources" /\ Sources!Next /\ UNCHANGED dispatcherVars
    /\ UNCHANGED part

PartsSpec == PartsInit /\ [][PartsNext]_<<vars, dispatcherVars, part>>
===============================================================================
