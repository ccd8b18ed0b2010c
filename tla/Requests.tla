-------------------------------- MODULE Requests --------------------------------
(***************************************************************************)
(* The requests of the HTTP server over what decides whether they are      *)
(* served: accounts and their permission, tokens, submission bans, and one *)
(* problem.  Every guard is a transaction of its own, and the operation is *)
(* another one: between any two of them the other requests go on, and the  *)
(* identity of a request is the one its first guard has read.              *)
(*                                                                         *)
(* A transaction of one statement is one step.  A write transaction takes  *)
(* its NOW() when it begins and takes effect when it commits; a statement  *)
(* that had to wait for a row reads the row again, with the same NOW().    *)
(***************************************************************************)
EXTENDS Endpoints, Integers, FiniteSets

CONSTANTS
    Users,
    NoUser,
    Tokens,        \* the sessions a database of the model can hold
    Slots,         \* the requests that are served at the same time
    Served,        \* the endpoints that are asked for
    FirstLevel,    \* the permission of the accounts there are, NoAccount for the others
    FirstOwner,    \* who the tokens were issued to, NoUser for the others
    TokenTtl, BanLength, MaxTime

NoAccount == -1
USER == 0
ADMIN == 1
SUPERADMIN == 2

ASSUME ServedAssumption == Served \subseteq DOMAIN Endpoint
ASSUME NamesAssumption == NoUser \notin Users /\ Tokens \cap {"none", "malformed"} = {}
ASSUME TimesAssumption == {TokenTtl, BanLength} \subseteq Nat

\* The tokens there are have been issued to accounts there are.
ASSUME FirstAssumption ==
    /\ FirstLevel \in [Users -> NoAccount .. SUPERADMIN]
    /\ FirstOwner \in [Tokens -> Users \cup {NoUser}]
    /\ \A t \in Tokens : FirstOwner[t] # NoUser => FirstLevel[FirstOwner[t]] # NoAccount

VARIABLES
    clock,       \* of the database
    account,     \* users and user_info: permission_level, submission_banned_until
    token,       \* auth_tokens
    problem,     \* is there a row of it in problems
    submitted,   \* the users with a submission for it
    request,     \* what each slot serves
    seen,        \* what has been true at some moment since its request was received
    logged_out   \* the tokens whose logout was answered with success

vars == <<clock, account, token, problem, submitted, request, seen, logged_out>>
database == <<clock, account, token, problem, submitted>>

Bearers == Tokens \cup {"none", "malformed"}

IsIssued(t) == token[t].owner # NoUser

\* revoked_at IS NULL AND expires_at > NOW()
IsLiveAt(t, now) == IsIssued(t) /\ ~ token[t].revoked /\ token[t].expires > now

\* What a bearer is good for: the permission of its owner, NoAccount for nobody.
LevelAt(b, now) ==
    IF b \in Tokens /\ IsLiveAt(b, now) THEN account[token[b].owner].level ELSE NoAccount
OwnerOf(b) == IF b \in Tokens THEN token[b].owner ELSE NoUser

NoRequest == [phase |-> "idle", endpoint |-> "get_health", bearer |-> "none",
              subject |-> NoUser, guards |-> <<>>, user |-> NoUser, level |-> NoAccount,
              now |-> 0, answer |-> 0, applied |-> FALSE]

Init ==
    /\ clock = 0
    /\ account = [u \in Users |-> [level |-> FirstLevel[u], banned_until |-> 0]]
    /\ token = [t \in Tokens |-> [owner |-> FirstOwner[t], revoked |-> FALSE, expires |-> TokenTtl]]
    /\ problem = TRUE
    /\ submitted = {}
    /\ request = [r \in Slots |-> NoRequest]
    /\ seen = [r \in Slots |-> [level |-> NoAccount, unbanned |-> FALSE]]
    /\ logged_out = {}

-----------------------------------------------------------------------------
(* A request and its answer *)

IsServing(r) == request[r].phase \notin {"idle", "answered"}
Op(r) == Endpoint[request[r].endpoint].op
Begins(guards) == IF guards = <<>> THEN "begin" ELSE "guards"

\* Mutant of NewRequest: a session keeps the context of its previous request.
NewRequestInOldContext(r, e, b, s) ==
    [NoRequest EXCEPT !.phase = Begins(Endpoint[e].guards), !.endpoint = e, !.bearer = b,
        !.subject = s, !.guards = Endpoint[e].guards,
        !.user = request[r].user, !.level = request[r].level]

\* request_context: a request starts without an identity.
NewRequest(r, e, b, s) ==
    [NoRequest EXCEPT !.phase = Begins(Endpoint[e].guards), !.endpoint = e, !.bearer = b,
        !.subject = s, !.guards = Endpoint[e].guards]

HasGuard(e, guards) == \E i \in DOMAIN Endpoint[e].guards : Endpoint[e].guards[i] \in guards

\* The bearers an endpoint tells apart: a malformed one is none at all, but for a guard
\* that lets a request without one pass.
BearersFor(e) ==
    IF HasGuard(e, {"bearer", "auth", "optional_auth", "admin", "superadmin"})
    THEN {t \in Tokens : IsIssued(t)} \cup {"none"}
         \cup (IF HasGuard(e, {"optional_auth"}) THEN {"malformed"} ELSE {})
    ELSE {"none"}

TakesUser(e) ==
    \/ Endpoint[e].op \in {"sign_up", "login", "get_source"}
    \/ HasGuard(e, {"user"})

Receive(r) ==
    /\ ~ IsServing(r)
    /\ \E e \in Served :
       \E b \in BearersFor(e) :
       \E s \in IF TakesUser(e) THEN Users ELSE {NoUser} :
          request' = [request EXCEPT ![r] = NewRequest(r, e, b, s)]
    /\ UNCHANGED <<database, logged_out>>

\* http_adapter: the first error of a guard or of the operation is the response.
Answered(r, status) ==
    [request[r] EXCEPT !.phase = "answered", !.answer = status, !.guards = <<>>, !.now = 0]

Answer(r, status) ==
    /\ request' = [request EXCEPT ![r] = Answered(r, status)]
    /\ UNCHANGED <<database, logged_out>>

\* An unavailable database, or any error without a status of its own: 500.
Fails(r) ==
    /\ IsServing(r)
    /\ Answer(r, 500)

-----------------------------------------------------------------------------
(* Guards *)

IsAt(r, guards) == request[r].phase = "guards" /\ Head(request[r].guards) \in guards

\* guard_runner: the next guard, and after the last one the operation.
Passed(r, u, level) ==
    [request[r] EXCEPT !.guards = Tail(@), !.phase = Begins(Tail(request[r].guards)),
        !.user = u, !.level = level]

Pass(r, u, level) ==
    /\ request' = [request EXCEPT ![r] = Passed(r, u, level)]
    /\ UNCHANGED <<database, logged_out>>

PassUnchanged(r) == Pass(r, request[r].user, request[r].level)

\* parse_bearer_token_or_401: the token is not looked up.
ParseBearer(r) ==
    /\ IsAt(r, {"bearer"})
    /\ IF request[r].bearer \in Tokens THEN PassUnchanged(r) ELSE Answer(r, 401)

\* require_auth: the identity of the context, or the one the token has now.
Identity(r) ==
    IF request[r].user # NoUser
    THEN [user |-> request[r].user, level |-> request[r].level]
    ELSE LET b == request[r].bearer
         IN [user |-> IF LevelAt(b, clock) = NoAccount THEN NoUser ELSE OwnerOf(b),
             level |-> LevelAt(b, clock)]

Require(r, level) ==
    LET identity == Identity(r)
    IN  IF identity.level >= level THEN Pass(r, identity.user, identity.level)
        ELSE Answer(r, 401)

RequireAuth(r) == IsAt(r, {"auth"}) /\ Require(r, USER)

RequireOptionalAuth(r) ==
    /\ IsAt(r, {"optional_auth"})
    /\ IF request[r].bearer = "none" THEN PassUnchanged(r) ELSE Require(r, USER)

RequireAdmin(r) == IsAt(r, {"admin"}) /\ Require(r, ADMIN)

RequireSuperadmin(r) == IsAt(r, {"superadmin"}) /\ Require(r, SUPERADMIN)

RequireProblem(r) ==
    /\ IsAt(r, {"problem"})
    /\ IF problem THEN PassUnchanged(r) ELSE Answer(r, 404)

RequireUser(r) ==
    /\ IsAt(r, {"user"})
    /\ IF account[request[r].subject].level # NoAccount THEN PassUnchanged(r) ELSE Answer(r, 404)

\* The body, the query or the archive is well formed, or it is not.
ParseRequest(r) ==
    /\ IsAt(r, {"parse"})
    /\ PassUnchanged(r) \/ Answer(r, 400)

Guard(r) ==
    \/ ParseBearer(r) \/ RequireAuth(r) \/ RequireOptionalAuth(r) \/ RequireAdmin(r)
    \/ RequireSuperadmin(r) \/ RequireProblem(r) \/ RequireUser(r) \/ ParseRequest(r)

-----------------------------------------------------------------------------
(* Operations *)

Begin(r) ==
    /\ request[r].phase = "begin"
    /\ request' = [request EXCEPT ![r].now = clock,
                     ![r].phase = IF Op(r) = "submit" THEN "check" ELSE "execute"]
    /\ UNCHANGED <<database, logged_out>>

\* The transaction is rolled back, for a reason with_retry takes for temporary.
Retry(r) ==
    /\ request[r].phase \in {"check", "execute"}
    /\ request' = [request EXCEPT ![r].phase = "begin", ![r].now = 0]
    /\ UNCHANGED <<database, logged_out>>

Executes(r, ops) == request[r].phase = "execute" /\ Op(r) \in ops

\* The transaction is committed; its answer may be lost, and then the request fails.
Committed(r) ==
    \E status \in {Endpoint[request[r].endpoint].ok, 500} :
        request' = [request EXCEPT ![r] = [Answered(r, status) EXCEPT !.applied = TRUE]]

\* insert_token, of a fresh token
Issue(u, now) ==
    \E t \in Tokens :
        /\ ~ IsIssued(t)
        /\ token' = [token EXCEPT ![t] = [owner |-> u, revoked |-> FALSE, expires |-> now + TokenTtl]]

SignUp(r) ==
    LET u == request[r].subject
    IN  /\ Executes(r, {"sign_up"})
        /\ \/ /\ account[u].level # NoAccount
              /\ Answer(r, 409)
           \/ /\ account[u].level = NoAccount
              /\ account' = [account EXCEPT ![u].level = USER]
              /\ Issue(u, request[r].now)
              /\ Committed(r)
              /\ UNCHANGED <<clock, problem, submitted, logged_out>>

\* The password of the subject is right, or it is not.
Login(r) ==
    LET u == request[r].subject
    IN  /\ Executes(r, {"login"})
        /\ \/ Answer(r, 401)
           \/ /\ account[u].level # NoAccount
              /\ Issue(u, request[r].now)
              /\ Committed(r)
              /\ UNCHANGED <<clock, account, problem, submitted, logged_out>>

RenewToken(r) ==
    LET b == request[r].bearer
        now == request[r].now
    IN  /\ Executes(r, {"renew_token"})
        /\ \/ /\ ~ IsLiveAt(b, now)
              /\ Answer(r, 401)
           \/ /\ IsLiveAt(b, now)
              /\ token' = [token EXCEPT ![b].expires = now + TokenTtl]
              /\ Committed(r)
              /\ UNCHANGED <<clock, account, problem, submitted, logged_out>>

\* Mutant of Revoked: a logout lets the token expire.
RevokedByExpiry(t, now) == [token EXCEPT ![t].expires = now]

\* revoke_token
Revoked(t, now) == [token EXCEPT ![t].revoked = TRUE]

RevokeToken(r) ==
    LET b == request[r].bearer
        now == request[r].now
    IN  /\ Executes(r, {"revoke_token"})
        /\ \/ /\ ~ IsLiveAt(b, now)
              /\ Answer(r, 401)
           \/ /\ IsLiveAt(b, now)
              /\ token' = Revoked(b, now)
              /\ Committed(r)
              /\ logged_out' = IF request'[r].answer = 200 THEN logged_out \cup {b} ELSE logged_out
              /\ UNCHANGED <<clock, account, problem, submitted>>

\* update_permission_level; the user guard has seen the account, and none is deleted.
SetPermission(r) ==
    /\ Executes(r, {"promote", "demote"})
    /\ account' = [account EXCEPT ![request[r].subject].level =
                     IF Op(r) = "promote" THEN ADMIN ELSE USER]
    /\ Committed(r)
    /\ UNCHANGED <<clock, token, problem, submitted, logged_out>>

\* create_submission_ban, clear_submission_banned_until
SetBan(r) ==
    /\ Executes(r, {"ban", "clear_ban"})
    /\ account' = [account EXCEPT ![request[r].subject].banned_until =
                     IF Op(r) = "ban" THEN request[r].now + BanLength ELSE 0]
    /\ Committed(r)
    /\ UNCHANGED <<clock, token, problem, submitted, logged_out>>

\* Mutant of IsBanned: the comparison is turned round.
IsBannedNotYet(u, now) == account[u].banned_until < now

\* get_active_submission_banned_until
IsBanned(u, now) == account[u].banned_until > now

CheckBan(r) ==
    /\ request[r].phase = "check"
    /\ \/ /\ IsBanned(request[r].user, request[r].now)
          /\ Answer(r, 403)
       \/ /\ ~ IsBanned(request[r].user, request[r].now)
          /\ request' = [request EXCEPT ![r].phase = "execute"]
          /\ UNCHANGED <<database, logged_out>>

\* The insertion of a submission of a problem that is gone violates its foreign key.
Submit(r) ==
    /\ Executes(r, {"submit"})
    /\ \/ /\ ~ problem
          /\ Answer(r, Endpoint[request[r].endpoint].gone)
       \/ /\ problem
          /\ submitted' = submitted \cup {request[r].user}
          /\ Committed(r)
          /\ UNCHANGED <<clock, account, token, problem, logged_out>>

\* The foreign key of submissions: it has no ON DELETE, unlike the others.
IsReferenced == submitted # {}

DeleteProblem(r) ==
    /\ Executes(r, {"delete_problem"})
    /\ \/ /\ ~ problem
          /\ Answer(r, Endpoint[request[r].endpoint].gone)
       \/ /\ problem
          /\ IsReferenced
          /\ Answer(r, 400)
       \/ /\ problem
          /\ ~ IsReferenced
          /\ problem' = FALSE
          /\ Committed(r)
          /\ UNCHANGED <<clock, account, token, submitted, logged_out>>

\* get_submission_source_query, with the identity of the guard
MayReadSource(r) == request[r].level >= ADMIN \/ request[r].user = request[r].subject

\* The subject of the request is the user whose submission it asks for.
GetSource(r) ==
    /\ Executes(r, {"get_source"})
    /\ Answer(r, IF request[r].subject \notin submitted THEN 404
                 ELSE IF MayReadSource(r) THEN 200 ELSE 403)

\* The rest, which changes nothing here.  The problem may have gone since the guard.
ServeOther(r) ==
    LET e == Endpoint[request[r].endpoint]
    IN  /\ Executes(r, {"other", "content"})
        /\ Answer(r, IF e.op = "content" /\ ~ problem THEN e.gone ELSE e.ok)

Operation(r) ==
    \/ Begin(r) \/ Retry(r) \/ SignUp(r) \/ Login(r) \/ RenewToken(r) \/ RevokeToken(r)
    \/ SetPermission(r) \/ SetBan(r) \/ CheckBan(r) \/ Submit(r) \/ DeleteProblem(r)
    \/ GetSource(r) \/ ServeOther(r)

-----------------------------------------------------------------------------

Tick ==
    /\ clock < MaxTime
    /\ clock' = clock + 1
    /\ UNCHANGED <<account, token, problem, submitted, request, logged_out>>

\* What is true now of the bearer of r, for the properties: what it is good for, at the
\* time of the transaction of r if it has one, and whether its owner is free to submit.
Moment(r) ==
    LET b == request[r].bearer
        now == IF request[r].phase \in {"check", "execute"} THEN request[r].now ELSE clock
    IN  [level |-> LevelAt(b, now),
         unbanned |-> OwnerOf(b) # NoUser /\ account[OwnerOf(b)].banned_until <= clock]

Larger(a, b) == IF a >= b THEN a ELSE b

Observe ==
    seen' = [r \in Slots |->
        IF ~ IsServing(r) /\ request'[r] = request[r] THEN seen[r]
        ELSE IF ~ IsServing(r) THEN Moment(r)'
        ELSE [level |-> Larger(seen[r].level, Moment(r)'.level),
              unbanned |-> seen[r].unbanned \/ Moment(r)'.unbanned]]

Next ==
    /\ \/ Tick
       \/ \E r \in Slots : Receive(r) \/ Guard(r) \/ Operation(r) \/ Fails(r)
    /\ Observe

Spec == Init /\ [][Next]_vars

-----------------------------------------------------------------------------
(* Properties *)

SuperadminOnly == {"put_user_admin", "put_user_regular"}

AdminOnly ==
    {"post_user_submission_ban", "delete_user_submission_ban", "get_user_submission_ban",
     "get_user_list", "get_status", "post_submission_rejudge", "get_submission_history",
     "post_problem", "put_problem", "delete_problem", "post_problem_rejudge", "put_limits",
     "put_statement", "post_sample", "put_sample", "delete_sample", "post_testcase",
     "put_testcase", "delete_testcase", "post_testcase_zip", "delete_all_testcases",
     "move_testcase", "get_testcase", "get_testcases"}

SignedInOnly ==
    {"post_token_renew", "post_logout", "post_submission", "get_submission_source", "get_me",
     "get_me_submission_statistics", "get_me_submission_ban", "get_me_solved_problems",
     "get_me_wrong_problems"}

\* With a bearer they answer what its owner may see, and without one what all may see.
ForViewers ==
    {"get_problems", "get_problem", "get_submissions", "get_user_solved_problems",
     "get_user_wrong_problems"}

RequiredLevel(r) ==
    CASE request[r].endpoint \in SuperadminOnly -> SUPERADMIN
      [] request[r].endpoint \in AdminOnly -> ADMIN
      [] request[r].endpoint \in SignedInOnly -> USER
      [] request[r].endpoint \in ForViewers /\ request[r].bearer # "none" -> USER
      [] OTHER -> NoAccount

\* The API documents say of each endpoint who it is for.  A request that was
\* applied, or answered with anything but a refusal, had a bearer whose owner was
\* that at some moment since it was received: no identity is older than its request,
\* whatever happens to accounts and tokens between its guards and its operation.
ServedHadThePermission ==
    \A r \in Slots :
        request[r].applied \/ request[r].answer \notin {0, 401, 500}
            => seen[r].level >= RequiredLevel(r)

\* The source of a submission is shown to who submitted it and to administrators.
SourceIsForItsOwner ==
    \A r \in Slots :
        Op(r) = "get_source" /\ request[r].answer = 200
            => seen[r].level >= ADMIN \/ OwnerOf(request[r].bearer) = request[r].subject

\* Who is served had the permission the endpoint asks for at some moment since the
\* request came in, and a source is for its owner and for administrators (auth_guard.cpp:17-83,
\* get_submission_source_query).
OnlyTheEntitledAreServed == ServedHadThePermission /\ SourceIsForItsOwner

\* A token whose logout was answered is never good again: no renewal that was on
\* its way, with the NOW() of an older transaction, brings it back.
LogoutIsFinal == \A t \in logged_out : ~ IsLiveAt(t, clock)

\* Who was banned all the time from the reception of a submission to its end has not
\* submitted it, although a ban may be set or run out between the check and the insert.
BannedThroughoutIsRefused ==
    \A r \in Slots : Op(r) = "submit" /\ request[r].applied => seen[r].unbanned

\* No submission is left without its problem: the guard has seen the problem in a
\* transaction of its own, and it may be deleted before the submission is inserted.
SubmissionsHaveTheirProblem == submitted # {} => problem

\* What is submitted was allowed, and stays so.
SubmissionsAreAllowed == BannedThroughoutIsRefused /\ SubmissionsHaveTheirProblem
=============================================================================
