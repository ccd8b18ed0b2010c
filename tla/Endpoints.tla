------------------------------- MODULE Endpoints -------------------------------
(***************************************************************************)
(* The endpoints of the HTTP server, as the handlers specify them: the     *)
(* guards a request passes, in order, the operation it then executes, the  *)
(* status of success, and the status the code answers when the problem the *)
(* guards have seen is gone by the time the operation executes.            *)
(***************************************************************************)
EXTENDS Sequences

Ep(guards, op, ok) == [guards |-> guards, op |-> op, ok |-> ok, gone |-> ok]

\* An operation on the problem of the path, or on something of it.
OfProblem(guards, op, ok, gone) == [guards |-> guards, op |-> op, ok |-> ok, gone |-> gone]

\* make_admin_problem_(json|message)_spec: these guards stand before any other.
AdminProblem(rest) == <<"admin", "problem">> \o rest

\* make_admin_user_(json|message)_spec
AdminUser(rest) == <<"admin", "user">> \o rest

\* make_testcase_ref_json_spec: the order is of the path, the problem is not looked for.
TestcaseRef(rest) == <<"admin">> \o rest

-----------------------------------------------------------------------------
(* Handlers of commands *)

AuthEndpoints ==
    [post_sign_up     |-> Ep(<<"parse">>, "sign_up", 201),
     post_login       |-> Ep(<<"parse">>, "login", 200),
     post_token_renew |-> Ep(<<"bearer">>, "renew_token", 200),
     post_logout      |-> Ep(<<"bearer">>, "revoke_token", 200)]

UserEndpoints ==
    [put_user_admin             |-> Ep(<<"superadmin", "user">>, "promote", 200),
     put_user_regular           |-> Ep(<<"superadmin", "user">>, "demote", 200),
     post_user_submission_ban   |-> Ep(AdminUser(<<"parse">>), "ban", 201),
     delete_user_submission_ban |-> Ep(AdminUser(<<>>), "clear_ban", 200)]

SubmissionEndpoints ==
    [post_submission         |-> OfProblem(<<"auth", "problem", "parse">>, "submit", 201, 400),
     post_submission_rejudge |-> Ep(<<"admin">>, "other", 200)]

\* A rejudge of a problem that is gone finds no submission of it.
ProblemEndpoints ==
    [post_problem         |-> Ep(<<"admin", "parse">>, "other", 201),
     put_problem          |-> OfProblem(AdminProblem(<<"parse">>), "content", 200, 404),
     delete_problem       |-> OfProblem(AdminProblem(<<>>), "delete_problem", 200, 404),
     post_problem_rejudge |-> OfProblem(AdminProblem(<<>>), "content", 200, 200)]

\* An upsert of a row of a problem that is gone violates its foreign key: 400.
ContentEndpoints ==
    [put_limits    |-> OfProblem(AdminProblem(<<"parse">>), "content", 200, 400),
     put_statement |-> OfProblem(AdminProblem(<<"parse">>), "content", 200, 400),
     post_sample   |-> OfProblem(AdminProblem(<<>>), "content", 201, 400),
     put_sample    |-> OfProblem(<<"admin", "parse">>, "content", 200, 404),
     delete_sample |-> OfProblem(AdminProblem(<<>>), "content", 200, 400)]

TestcaseItemEndpoints ==
    [post_testcase   |-> OfProblem(AdminProblem(<<"parse">>), "content", 201, 400),
     put_testcase    |-> OfProblem(TestcaseRef(<<"parse">>), "content", 200, 404),
     delete_testcase |-> OfProblem(TestcaseRef(<<>>), "content", 200, 404)]

TestcaseBulkEndpoints ==
    [post_testcase_zip    |-> OfProblem(AdminProblem(<<"parse">>), "content", 200, 400),
     delete_all_testcases |-> OfProblem(AdminProblem(<<>>), "content", 200, 404)]

TestcaseMoveEndpoints ==
    [move_testcase |-> OfProblem(AdminProblem(<<"parse">>), "content", 200, 404)]

-----------------------------------------------------------------------------
(* Handlers of queries *)

TestcaseQueryEndpoints ==
    [get_testcase  |-> OfProblem(AdminProblem(<<>>), "content", 200, 404),
     get_testcases |-> OfProblem(AdminProblem(<<>>), "content", 200, 200)]

ContentQueryEndpoints ==
    [get_limits  |-> OfProblem(<<"problem">>, "content", 200, 404),
     get_samples |-> OfProblem(<<"problem">>, "content", 200, 200)]

ProblemQueryEndpoints ==
    [get_problems |-> Ep(<<"optional_auth", "parse">>, "other", 200),
     get_problem  |-> OfProblem(<<"optional_auth">>, "content", 200, 404)]

SubmissionQueryEndpoints ==
    [get_submission_history       |-> Ep(<<"admin">>, "other", 200),
     get_submission_source        |-> Ep(<<"auth">>, "get_source", 200),
     get_submission               |-> Ep(<<>>, "other", 200),
     post_submission_status_batch |-> Ep(<<"parse">>, "other", 200),
     get_submissions              |-> Ep(<<"optional_auth", "parse">>, "other", 200)]

UserListEndpoints ==
    [get_public_user_list |-> Ep(<<"parse">>, "other", 200),
     get_user_list        |-> Ep(<<"admin">>, "other", 200)]

UserProfileEndpoints ==
    [get_me                       |-> Ep(<<"auth">>, "other", 200),
     get_user_summary             |-> Ep(<<"user">>, "other", 200),
     get_user_summary_by_login_id |-> Ep(<<>>, "other", 200)]

UserStatisticsEndpoints ==
    [get_me_submission_statistics   |-> Ep(<<"auth">>, "other", 200),
     get_user_submission_statistics |-> Ep(<<"user">>, "other", 200)]

UserBanEndpoints ==
    [get_me_submission_ban   |-> Ep(<<"auth">>, "other", 200),
     get_user_submission_ban |-> Ep(AdminUser(<<>>), "other", 200)]

UserProblemListEndpoints ==
    [get_me_solved_problems   |-> Ep(<<"auth">>, "other", 200),
     get_me_wrong_problems    |-> Ep(<<"auth">>, "other", 200),
     get_user_solved_problems |-> Ep(<<"optional_auth", "user">>, "other", 200),
     get_user_wrong_problems  |-> Ep(<<"optional_auth", "user">>, "other", 200)]

SystemEndpoints ==
    [get_health              |-> Ep(<<>>, "other", 200),
     get_supported_languages |-> Ep(<<>>, "other", 200),
     get_status              |-> Ep(<<"admin">>, "other", 200)]

AllEndpoints ==
    {AuthEndpoints, UserEndpoints, SubmissionEndpoints, ProblemEndpoints, ContentEndpoints,
     TestcaseItemEndpoints, TestcaseBulkEndpoints, TestcaseMoveEndpoints,
     TestcaseQueryEndpoints, ContentQueryEndpoints, ProblemQueryEndpoints,
     SubmissionQueryEndpoints, UserListEndpoints, UserProfileEndpoints,
     UserStatisticsEndpoints, UserBanEndpoints, UserProblemListEndpoints, SystemEndpoints}

\* No two of these have an endpoint of the same name.
Endpoint ==
    [e \in UNION {DOMAIN group : group \in AllEndpoints} |->
        (CHOOSE group \in AllEndpoints : e \in DOMAIN group)[e]]

\* The endpoints that are served without a connection to the database.
PublicSystemEndpoints == {"get_health", "get_supported_languages"}
=============================================================================
