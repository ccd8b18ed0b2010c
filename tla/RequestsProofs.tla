----------------------------- MODULE RequestsProofs -----------------------------
(***************************************************************************)
(* Proofs about Requests, for any users, tokens, endpoints and number of   *)
(* requests at a time: who is served was entitled to it, a logout is       *)
(* final, and no ban or missing problem is passed over.  And about Routes, *)
(* for any paths: each request finds its route.                            *)
(***************************************************************************)
EXTENDS Api, SequenceTheorems, WellFoundedInduction, TLAPS

-----------------------------------------------------------------------------
(* The endpoints                                                           *)

\* The guards that do not ask who sends the request.
Plain == {"problem", "user", "parse"}
AnyGuard == Plain \cup {"bearer", "auth", "optional_auth", "admin", "superadmin"}

\* One guard asks who it is, before the others.
LedBy(guards, first) ==
    /\ guards \in Seq(AnyGuard) /\ guards # <<>> /\ guards[1] = first
    /\ \A i \in 2 .. Len(guards) : guards[i] \in Plain

OnTokens == {"renew_token", "revoke_token"}

Fits(e, endpoint) ==
    /\ \/ e \in SuperadminOnly /\ LedBy(endpoint.guards, "superadmin")
       \/ e \in AdminOnly /\ LedBy(endpoint.guards, "admin")
       \/ e \in SignedInOnly /\ LedBy(endpoint.guards, "auth")
       \/ e \in SignedInOnly /\ endpoint.guards = <<"bearer">> /\ endpoint.op \in OnTokens
       \/ e \in ForViewers /\ LedBy(endpoint.guards, "optional_auth")
       \/ /\ e \notin SuperadminOnly \cup AdminOnly \cup SignedInOnly \cup ForViewers
          /\ endpoint.guards \in Seq(Plain)
    /\ endpoint.op \in OnTokens => endpoint.guards = <<"bearer">>
    /\ endpoint.op \in {"submit", "get_source"} => LedBy(endpoint.guards, "auth")
    /\ endpoint.ok \in Nat /\ endpoint.gone \in Nat

LEMMA Leads ==
    ASSUME NEW first \in AnyGuard, NEW rest \in Seq(Plain)
    PROVE  LedBy(<<first>> \o rest, first)
<1>1. <<first>> \in Seq(AnyGuard) /\ rest \in Seq(AnyGuard) /\ Len(<<first>>) = 1
    BY DEF AnyGuard, Plain
<1>2. /\ <<first>> \o rest \in Seq(AnyGuard)
      /\ Len(<<first>> \o rest) = 1 + Len(rest) /\ Len(rest) \in Nat
      /\ \A i \in 1 .. 1 + Len(rest) :
            (<<first>> \o rest)[i] = IF i <= 1 THEN first ELSE rest[i - 1]
    BY <1>1, ConcatProperties, LenProperties
<1>3. \A i \in 2 .. 1 + Len(rest) : rest[i - 1] \in Plain
    BY <1>2, ElementOfSeq
<1>. QED
    BY <1>2, <1>3, EmptySeq DEF LedBy

LEMMA PlainGuards ==
    /\ <<>> \in Seq(Plain) /\ <<"parse">> \in Seq(Plain) /\ <<"user">> \in Seq(Plain)
    /\ <<"problem">> \in Seq(Plain)
BY DEF Plain

LEMMA LedByThemselves ==
    /\ \A first \in AnyGuard : LedBy(<<first>>, first)
    /\ \A first \in AnyGuard, second \in Plain : LedBy(<<first, second>>, first)
    /\ LedBy(<<"auth", "problem", "parse">>, "auth")
<1>1. \A first \in AnyGuard : LedBy(<<first>>, first)
    BY DEF LedBy
<1>2. ASSUME NEW first \in AnyGuard, NEW second \in Plain
      PROVE  LedBy(<<first, second>>, first)
    BY DEF LedBy, AnyGuard
<1>3. LedBy(<<"auth", "problem", "parse">>, "auth")
    BY DEF LedBy, AnyGuard, Plain
<1>. QED
    BY <1>1, <1>2, <1>3

LEMMA AdminLeads ==
    ASSUME NEW rest \in Seq(Plain)
    PROVE  /\ LedBy(AdminProblem(rest), "admin") /\ LedBy(AdminUser(rest), "admin")
           /\ LedBy(TestcaseRef(rest), "admin")
<1>1. ASSUME NEW second \in Plain
      PROVE  LedBy(<<"admin", second>> \o rest, "admin")
    <2>1. <<"admin", second>> \in Seq(AnyGuard) /\ rest \in Seq(AnyGuard)
          /\ Len(<<"admin", second>>) = 2
        BY DEF AnyGuard, Plain
    <2>2. PICK s : s = <<"admin", second>> \o rest
        OBVIOUS
    <2>3. /\ s \in Seq(AnyGuard)
          /\ Len(s) = 2 + Len(rest) /\ Len(rest) \in Nat
          /\ \A i \in 1 .. 2 + Len(rest) :
                s[i] = IF i <= 2 THEN <<"admin", second>>[i] ELSE rest[i - 2]
        BY <2>1, <2>2, ConcatProperties, LenProperties
    <2>4. \A i \in 3 .. 2 + Len(rest) : rest[i - 2] \in Plain
        BY <2>3, ElementOfSeq
    <2>5. s[1] = "admin" /\ s[2] = second
        BY <2>3
    <2>6. \A i \in 2 .. Len(s) : s[i] \in Plain
        BY <2>3, <2>4, <2>5
    <2>. QED
        BY <2>2, <2>3, <2>5, <2>6, EmptySeq DEF LedBy
<1>. QED
    BY <1>1, Leads DEF AdminProblem, AdminUser, TestcaseRef, AnyGuard, Plain

\* The operations that do not depend on how a request has identified itself.
FreeOps == {"sign_up", "login", "promote", "demote", "ban", "clear_ban", "delete_problem",
            "content", "other"}
AnyOps == FreeOps \cup {"submit", "get_source"}

LEMMA Ops ==
    /\ {"sign_up", "login", "promote", "demote", "ban", "clear_ban", "delete_problem",
        "content", "other"} \subseteq FreeOps
    /\ {"submit", "get_source", "other"} \subseteq AnyOps
    /\ {"renew_token", "revoke_token"} \subseteq OnTokens
BY DEF FreeOps, AnyOps, OnTokens

\* The endpoints that are for everybody.
ForAll ==
    {"post_sign_up", "post_login", "get_limits", "get_samples", "get_submission",
     "post_submission_status_batch", "get_public_user_list", "get_user_summary",
     "get_user_summary_by_login_id", "get_user_submission_statistics", "get_health",
     "get_supported_languages"}

LEMMA ForAllIsTheRest ==
    ForAll \cap (SuperadminOnly \cup AdminOnly \cup SignedInOnly \cup ForViewers) = {}
<1>1. ForAll \cap SuperadminOnly = {} /\ ForAll \cap ForViewers = {}
    BY DEF ForAll, SuperadminOnly, ForViewers
<1>2. ForAll \cap AdminOnly = {}
    BY DEF ForAll, AdminOnly
<1>3. ForAll \cap SignedInOnly = {}
    BY DEF ForAll, SignedInOnly
<1>. QED
    BY <1>1, <1>2, <1>3

LEMMA SuperadminKind ==
    ASSUME NEW e \in SuperadminOnly, NEW guards, LedBy(guards, "superadmin"), NEW op \in FreeOps,
           NEW ok \in Nat, NEW gone \in Nat
    PROVE  Fits(e, OfProblem(guards, op, ok, gone))
BY DEF Fits, OfProblem, FreeOps, OnTokens

LEMMA AdminKind ==
    ASSUME NEW e \in AdminOnly, NEW guards, LedBy(guards, "admin"), NEW op \in FreeOps,
           NEW ok \in Nat, NEW gone \in Nat
    PROVE  Fits(e, OfProblem(guards, op, ok, gone))
BY DEF Fits, OfProblem, FreeOps, OnTokens

LEMMA ViewerKind ==
    ASSUME NEW e \in ForViewers, NEW guards, LedBy(guards, "optional_auth"), NEW op \in FreeOps,
           NEW ok \in Nat, NEW gone \in Nat
    PROVE  Fits(e, OfProblem(guards, op, ok, gone))
BY DEF Fits, OfProblem, FreeOps, OnTokens

\* How the handlers begin that ask who it is.
LEMMA Chains ==
    /\ LedBy(<<"admin", "parse">>, "admin")
    /\ LedBy(<<"admin">>, "admin")
    /\ LedBy(AdminProblem(<<"parse">>), "admin")
    /\ LedBy(AdminProblem(<<>>), "admin")
    /\ LedBy(AdminUser(<<"parse">>), "admin")
    /\ LedBy(AdminUser(<<>>), "admin")
    /\ LedBy(TestcaseRef(<<"parse">>), "admin")
    /\ LedBy(TestcaseRef(<<>>), "admin")
    /\ LedBy(<<"auth", "problem", "parse">>, "auth")
    /\ LedBy(<<"auth">>, "auth")
    /\ LedBy(<<"optional_auth", "parse">>, "optional_auth")
    /\ LedBy(<<"optional_auth", "user">>, "optional_auth")
    /\ LedBy(<<"optional_auth">>, "optional_auth")
    /\ LedBy(<<"superadmin", "user">>, "superadmin")
BY LedByThemselves, AdminLeads, PlainGuards DEF AnyGuard, Plain

ArePlain(guards) == guards \in Seq(Plain)

LEMMA PlainChains ==
    /\ ArePlain(<<>>) /\ ArePlain(<<"parse">>) /\ ArePlain(<<"user">>) /\ ArePlain(<<"problem">>)
BY PlainGuards DEF ArePlain

LEMMA SignedInKind ==
    ASSUME NEW e \in SignedInOnly, NEW guards, LedBy(guards, "auth"), NEW op \in AnyOps,
           NEW ok \in Nat, NEW gone \in Nat
    PROVE  Fits(e, OfProblem(guards, op, ok, gone))
BY DEF Fits, OfProblem, FreeOps, AnyOps, OnTokens

LEMMA TokenKind ==
    ASSUME NEW e \in SignedInOnly, NEW op \in OnTokens, NEW ok \in Nat
    PROVE  Fits(e, OfProblem(<<"bearer">>, op, ok, ok))
BY DEF Fits, OfProblem, OnTokens

LEMMA ForAllKind ==
    ASSUME NEW e \in ForAll, NEW guards, ArePlain(guards), NEW op \in FreeOps,
           NEW ok \in Nat, NEW gone \in Nat
    PROVE  Fits(e, OfProblem(guards, op, ok, gone))
BY ForAllIsTheRest DEF ArePlain, Fits, OfProblem, FreeOps, AnyOps, OnTokens

LEMMA EpOfProblem == \A guards, op, ok : Ep(guards, op, ok) = OfProblem(guards, op, ok, ok)
BY DEF Ep, OfProblem

AllFit(group) == \A e \in DOMAIN group : Fits(e, group[e])

LEMMA GroupsFit == \A group \in AllEndpoints : AllFit(group)
<1>1. AllFit(AuthEndpoints)
    <2>. DEFINE G == AuthEndpoints
    <2>1. /\ DOMAIN G = {"post_sign_up", "post_login", "post_token_renew", "post_logout"}
          /\ G["post_sign_up"] = OfProblem(<<"parse">>, "sign_up", 201, 201)
          /\ G["post_login"] = OfProblem(<<"parse">>, "login", 200, 200)
          /\ G["post_token_renew"] = OfProblem(<<"bearer">>, "renew_token", 200, 200)
          /\ G["post_logout"] = OfProblem(<<"bearer">>, "revoke_token", 200, 200)
        BY EpOfProblem DEF AuthEndpoints
    <2>. HIDE DEF G
    <2>2. /\ {"post_token_renew", "post_logout"} \subseteq SignedInOnly
          /\ {"post_sign_up", "post_login"} \subseteq ForAll
        BY DEF SignedInOnly, ForAll
    <2>3. Fits("post_sign_up", OfProblem(<<"parse">>, "sign_up", 201, 201))
        BY <2>2, ForAllKind, PlainChains, Ops
    <2>4. Fits("post_login", OfProblem(<<"parse">>, "login", 200, 200))
        BY <2>2, ForAllKind, PlainChains, Ops
    <2>5. Fits("post_token_renew", OfProblem(<<"bearer">>, "renew_token", 200, 200))
        BY <2>2, TokenKind, Ops
    <2>6. Fits("post_logout", OfProblem(<<"bearer">>, "revoke_token", 200, 200))
        BY <2>2, TokenKind, Ops
    <2>7. AllFit(G)
        BY <2>1, <2>3, <2>4, <2>5, <2>6 DEF AllFit
    <2>. QED
        BY <2>7 DEF G
<1>2. AllFit(UserEndpoints)
    <2>. DEFINE G == UserEndpoints
    <2>1. /\ DOMAIN G = {"put_user_admin", "put_user_regular", "post_user_submission_ban",
                           "delete_user_submission_ban"}
          /\ G["put_user_admin"] = OfProblem(<<"superadmin", "user">>, "promote", 200, 200)
          /\ G["put_user_regular"] = OfProblem(<<"superadmin", "user">>, "demote", 200, 200)
          /\ G["post_user_submission_ban"] = OfProblem(AdminUser(<<"parse">>), "ban", 201, 201)
          /\ G["delete_user_submission_ban"] = OfProblem(AdminUser(<<>>), "clear_ban", 200, 200)
        BY EpOfProblem DEF UserEndpoints
    <2>. HIDE DEF G
    <2>2. /\ {"put_user_admin", "put_user_regular"} \subseteq SuperadminOnly
          /\ {"post_user_submission_ban", "delete_user_submission_ban"} \subseteq AdminOnly
        BY DEF SuperadminOnly, AdminOnly
    <2>3. Fits("put_user_admin", OfProblem(<<"superadmin", "user">>, "promote", 200, 200))
        BY <2>2, SuperadminKind, Chains, Ops
    <2>4. Fits("put_user_regular", OfProblem(<<"superadmin", "user">>, "demote", 200, 200))
        BY <2>2, SuperadminKind, Chains, Ops
    <2>5. Fits("post_user_submission_ban", OfProblem(AdminUser(<<"parse">>), "ban", 201, 201))
        BY <2>2, AdminKind, Chains, Ops
    <2>6. Fits("delete_user_submission_ban", OfProblem(AdminUser(<<>>), "clear_ban", 200, 200))
        BY <2>2, AdminKind, Chains, Ops
    <2>7. AllFit(G)
        BY <2>1, <2>3, <2>4, <2>5, <2>6 DEF AllFit
    <2>. QED
        BY <2>7 DEF G
<1>3. AllFit(SubmissionEndpoints)
    <2>. DEFINE G == SubmissionEndpoints
    <2>1. /\ DOMAIN G = {"post_submission", "post_submission_rejudge"}
          /\ G["post_submission"] = OfProblem(<<"auth", "problem", "parse">>, "submit", 201, 400)
          /\ G["post_submission_rejudge"] = OfProblem(<<"admin">>, "other", 200, 200)
        BY EpOfProblem DEF SubmissionEndpoints
    <2>. HIDE DEF G
    <2>2. /\ {"post_submission_rejudge"} \subseteq AdminOnly
          /\ {"post_submission"} \subseteq SignedInOnly
        BY DEF AdminOnly, SignedInOnly
    <2>3. Fits("post_submission", OfProblem(<<"auth", "problem", "parse">>, "submit", 201, 400))
        BY <2>2, SignedInKind, Chains, Ops
    <2>4. Fits("post_submission_rejudge", OfProblem(<<"admin">>, "other", 200, 200))
        BY <2>2, AdminKind, Chains, Ops
    <2>5. AllFit(G)
        BY <2>1, <2>3, <2>4 DEF AllFit
    <2>. QED
        BY <2>5 DEF G
<1>4. AllFit(ProblemEndpoints)
    <2>. DEFINE G == ProblemEndpoints
    <2>1. /\ DOMAIN G = {"post_problem", "put_problem", "delete_problem", "post_problem_rejudge"}
          /\ G["post_problem"] = OfProblem(<<"admin", "parse">>, "other", 201, 201)
          /\ G["put_problem"] = OfProblem(AdminProblem(<<"parse">>), "content", 200, 404)
          /\ G["delete_problem"] = OfProblem(AdminProblem(<<>>), "delete_problem", 200, 404)
          /\ G["post_problem_rejudge"] = OfProblem(AdminProblem(<<>>), "content", 200, 200)
        BY EpOfProblem DEF ProblemEndpoints
    <2>. HIDE DEF G
    <2>2. {"post_problem", "put_problem", "delete_problem", "post_problem_rejudge"}
            \subseteq AdminOnly
        BY DEF AdminOnly
    <2>3. Fits("post_problem", OfProblem(<<"admin", "parse">>, "other", 201, 201))
        BY <2>2, AdminKind, Chains, Ops
    <2>4. Fits("put_problem", OfProblem(AdminProblem(<<"parse">>), "content", 200, 404))
        BY <2>2, AdminKind, Chains, Ops
    <2>5. Fits("delete_problem", OfProblem(AdminProblem(<<>>), "delete_problem", 200, 404))
        BY <2>2, AdminKind, Chains, Ops
    <2>6. Fits("post_problem_rejudge", OfProblem(AdminProblem(<<>>), "content", 200, 200))
        BY <2>2, AdminKind, Chains, Ops
    <2>7. AllFit(G)
        BY <2>1, <2>3, <2>4, <2>5, <2>6 DEF AllFit
    <2>. QED
        BY <2>7 DEF G
<1>5. AllFit(ContentEndpoints)
    <2>. DEFINE G == ContentEndpoints
    <2>1. /\ DOMAIN G = {"put_limits", "put_statement", "post_sample", "put_sample",
                           "delete_sample"}
          /\ G["put_limits"] = OfProblem(AdminProblem(<<"parse">>), "content", 200, 400)
          /\ G["put_statement"] = OfProblem(AdminProblem(<<"parse">>), "content", 200, 400)
          /\ G["post_sample"] = OfProblem(AdminProblem(<<>>), "content", 201, 400)
          /\ G["put_sample"] = OfProblem(<<"admin", "parse">>, "content", 200, 404)
          /\ G["delete_sample"] = OfProblem(AdminProblem(<<>>), "content", 200, 400)
        BY EpOfProblem DEF ContentEndpoints
    <2>. HIDE DEF G
    <2>2. {"put_limits", "put_statement", "post_sample", "put_sample", "delete_sample"}
            \subseteq AdminOnly
        BY DEF AdminOnly
    <2>3. Fits("put_limits", OfProblem(AdminProblem(<<"parse">>), "content", 200, 400))
        BY <2>2, AdminKind, Chains, Ops
    <2>4. Fits("put_statement", OfProblem(AdminProblem(<<"parse">>), "content", 200, 400))
        BY <2>2, AdminKind, Chains, Ops
    <2>5. Fits("post_sample", OfProblem(AdminProblem(<<>>), "content", 201, 400))
        BY <2>2, AdminKind, Chains, Ops
    <2>6. Fits("put_sample", OfProblem(<<"admin", "parse">>, "content", 200, 404))
        BY <2>2, AdminKind, Chains, Ops
    <2>7. Fits("delete_sample", OfProblem(AdminProblem(<<>>), "content", 200, 400))
        BY <2>2, AdminKind, Chains, Ops
    <2>8. AllFit(G)
        BY <2>1, <2>3, <2>4, <2>5, <2>6, <2>7 DEF AllFit
    <2>. QED
        BY <2>8 DEF G
<1>6. AllFit(TestcaseItemEndpoints)
    <2>. DEFINE G == TestcaseItemEndpoints
    <2>1. /\ DOMAIN G = {"post_testcase", "put_testcase", "delete_testcase"}
          /\ G["post_testcase"] = OfProblem(AdminProblem(<<"parse">>), "content", 201, 400)
          /\ G["put_testcase"] = OfProblem(TestcaseRef(<<"parse">>), "content", 200, 404)
          /\ G["delete_testcase"] = OfProblem(TestcaseRef(<<>>), "content", 200, 404)
        BY EpOfProblem DEF TestcaseItemEndpoints
    <2>. HIDE DEF G
    <2>2. {"post_testcase", "put_testcase", "delete_testcase"} \subseteq AdminOnly
        BY DEF AdminOnly
    <2>3. Fits("post_testcase", OfProblem(AdminProblem(<<"parse">>), "content", 201, 400))
        BY <2>2, AdminKind, Chains, Ops
    <2>4. Fits("put_testcase", OfProblem(TestcaseRef(<<"parse">>), "content", 200, 404))
        BY <2>2, AdminKind, Chains, Ops
    <2>5. Fits("delete_testcase", OfProblem(TestcaseRef(<<>>), "content", 200, 404))
        BY <2>2, AdminKind, Chains, Ops
    <2>6. AllFit(G)
        BY <2>1, <2>3, <2>4, <2>5 DEF AllFit
    <2>. QED
        BY <2>6 DEF G
<1>7. AllFit(TestcaseBulkEndpoints)
    <2>. DEFINE G == TestcaseBulkEndpoints
    <2>1. /\ DOMAIN G = {"post_testcase_zip", "delete_all_testcases"}
          /\ G["post_testcase_zip"] = OfProblem(AdminProblem(<<"parse">>), "content", 200, 400)
          /\ G["delete_all_testcases"] = OfProblem(AdminProblem(<<>>), "content", 200, 404)
        BY EpOfProblem DEF TestcaseBulkEndpoints
    <2>. HIDE DEF G
    <2>2. {"post_testcase_zip", "delete_all_testcases"} \subseteq AdminOnly
        BY DEF AdminOnly
    <2>3. Fits("post_testcase_zip", OfProblem(AdminProblem(<<"parse">>), "content", 200, 400))
        BY <2>2, AdminKind, Chains, Ops
    <2>4. Fits("delete_all_testcases", OfProblem(AdminProblem(<<>>), "content", 200, 404))
        BY <2>2, AdminKind, Chains, Ops
    <2>5. AllFit(G)
        BY <2>1, <2>3, <2>4 DEF AllFit
    <2>. QED
        BY <2>5 DEF G
<1>8. AllFit(TestcaseMoveEndpoints)
    <2>. DEFINE G == TestcaseMoveEndpoints
    <2>1. /\ DOMAIN G = {"move_testcase"}
          /\ G["move_testcase"] = OfProblem(AdminProblem(<<"parse">>), "content", 200, 404)
        BY EpOfProblem DEF TestcaseMoveEndpoints
    <2>. HIDE DEF G
    <2>2. {"move_testcase"} \subseteq AdminOnly
        BY DEF AdminOnly
    <2>3. Fits("move_testcase", OfProblem(AdminProblem(<<"parse">>), "content", 200, 404))
        BY <2>2, AdminKind, Chains, Ops
    <2>4. AllFit(G)
        BY <2>1, <2>3 DEF AllFit
    <2>. QED
        BY <2>4 DEF G
<1>9. AllFit(TestcaseQueryEndpoints)
    <2>. DEFINE G == TestcaseQueryEndpoints
    <2>1. /\ DOMAIN G = {"get_testcase", "get_testcases"}
          /\ G["get_testcase"] = OfProblem(AdminProblem(<<>>), "content", 200, 404)
          /\ G["get_testcases"] = OfProblem(AdminProblem(<<>>), "content", 200, 200)
        BY EpOfProblem DEF TestcaseQueryEndpoints
    <2>. HIDE DEF G
    <2>2. {"get_testcase", "get_testcases"} \subseteq AdminOnly
        BY DEF AdminOnly
    <2>3. Fits("get_testcase", OfProblem(AdminProblem(<<>>), "content", 200, 404))
        BY <2>2, AdminKind, Chains, Ops
    <2>4. Fits("get_testcases", OfProblem(AdminProblem(<<>>), "content", 200, 200))
        BY <2>2, AdminKind, Chains, Ops
    <2>5. AllFit(G)
        BY <2>1, <2>3, <2>4 DEF AllFit
    <2>. QED
        BY <2>5 DEF G
<1>10. AllFit(ContentQueryEndpoints)
    <2>. DEFINE G == ContentQueryEndpoints
    <2>1. /\ DOMAIN G = {"get_limits", "get_samples"}
          /\ G["get_limits"] = OfProblem(<<"problem">>, "content", 200, 404)
          /\ G["get_samples"] = OfProblem(<<"problem">>, "content", 200, 200)
        BY EpOfProblem DEF ContentQueryEndpoints
    <2>. HIDE DEF G
    <2>2. {"get_limits", "get_samples"} \subseteq ForAll
        BY DEF ForAll
    <2>3. Fits("get_limits", OfProblem(<<"problem">>, "content", 200, 404))
        BY <2>2, ForAllKind, PlainChains, Ops
    <2>4. Fits("get_samples", OfProblem(<<"problem">>, "content", 200, 200))
        BY <2>2, ForAllKind, PlainChains, Ops
    <2>5. AllFit(G)
        BY <2>1, <2>3, <2>4 DEF AllFit
    <2>. QED
        BY <2>5 DEF G
<1>11. AllFit(ProblemQueryEndpoints)
    <2>. DEFINE G == ProblemQueryEndpoints
    <2>1. /\ DOMAIN G = {"get_problems", "get_problem"}
          /\ G["get_problems"] = OfProblem(<<"optional_auth", "parse">>, "other", 200, 200)
          /\ G["get_problem"] = OfProblem(<<"optional_auth">>, "content", 200, 404)
        BY EpOfProblem DEF ProblemQueryEndpoints
    <2>. HIDE DEF G
    <2>2. {"get_problems", "get_problem"} \subseteq ForViewers
        BY DEF ForViewers
    <2>3. Fits("get_problems", OfProblem(<<"optional_auth", "parse">>, "other", 200, 200))
        BY <2>2, ViewerKind, Chains, Ops
    <2>4. Fits("get_problem", OfProblem(<<"optional_auth">>, "content", 200, 404))
        BY <2>2, ViewerKind, Chains, Ops
    <2>5. AllFit(G)
        BY <2>1, <2>3, <2>4 DEF AllFit
    <2>. QED
        BY <2>5 DEF G
<1>12. AllFit(SubmissionQueryEndpoints)
    <2>. DEFINE G == SubmissionQueryEndpoints
    <2>1. /\ DOMAIN G = {"get_submission_history", "get_submission_source", "get_submission",
                           "post_submission_status_batch", "get_submissions"}
          /\ G["get_submission_history"] = OfProblem(<<"admin">>, "other", 200, 200)
          /\ G["get_submission_source"] = OfProblem(<<"auth">>, "get_source", 200, 200)
          /\ G["get_submission"] = OfProblem(<<>>, "other", 200, 200)
          /\ G["post_submission_status_batch"] = OfProblem(<<"parse">>, "other", 200, 200)
          /\ G["get_submissions"] = OfProblem(<<"optional_auth", "parse">>, "other", 200, 200)
        BY EpOfProblem DEF SubmissionQueryEndpoints
    <2>. HIDE DEF G
    <2>2. /\ {"get_submission_history"} \subseteq AdminOnly
          /\ {"get_submission_source"} \subseteq SignedInOnly
          /\ {"get_submissions"} \subseteq ForViewers
          /\ {"get_submission", "post_submission_status_batch"} \subseteq ForAll
        BY DEF AdminOnly, SignedInOnly, ForViewers, ForAll
    <2>3. Fits("get_submission_history", OfProblem(<<"admin">>, "other", 200, 200))
        BY <2>2, AdminKind, Chains, Ops
    <2>4. Fits("get_submission_source", OfProblem(<<"auth">>, "get_source", 200, 200))
        BY <2>2, SignedInKind, Chains, Ops
    <2>5. Fits("get_submission", OfProblem(<<>>, "other", 200, 200))
        BY <2>2, ForAllKind, PlainChains, Ops
    <2>6. Fits("post_submission_status_batch", OfProblem(<<"parse">>, "other", 200, 200))
        BY <2>2, ForAllKind, PlainChains, Ops
    <2>7. Fits("get_submissions", OfProblem(<<"optional_auth", "parse">>, "other", 200, 200))
        BY <2>2, ViewerKind, Chains, Ops
    <2>8. AllFit(G)
        BY <2>1, <2>3, <2>4, <2>5, <2>6, <2>7 DEF AllFit
    <2>. QED
        BY <2>8 DEF G
<1>13. AllFit(UserListEndpoints)
    <2>. DEFINE G == UserListEndpoints
    <2>1. /\ DOMAIN G = {"get_public_user_list", "get_user_list"}
          /\ G["get_public_user_list"] = OfProblem(<<"parse">>, "other", 200, 200)
          /\ G["get_user_list"] = OfProblem(<<"admin">>, "other", 200, 200)
        BY EpOfProblem DEF UserListEndpoints
    <2>. HIDE DEF G
    <2>2. /\ {"get_user_list"} \subseteq AdminOnly
          /\ {"get_public_user_list"} \subseteq ForAll
        BY DEF AdminOnly, ForAll
    <2>3. Fits("get_public_user_list", OfProblem(<<"parse">>, "other", 200, 200))
        BY <2>2, ForAllKind, PlainChains, Ops
    <2>4. Fits("get_user_list", OfProblem(<<"admin">>, "other", 200, 200))
        BY <2>2, AdminKind, Chains, Ops
    <2>5. AllFit(G)
        BY <2>1, <2>3, <2>4 DEF AllFit
    <2>. QED
        BY <2>5 DEF G
<1>14. AllFit(UserProfileEndpoints)
    <2>. DEFINE G == UserProfileEndpoints
    <2>1. /\ DOMAIN G = {"get_me", "get_user_summary", "get_user_summary_by_login_id"}
          /\ G["get_me"] = OfProblem(<<"auth">>, "other", 200, 200)
          /\ G["get_user_summary"] = OfProblem(<<"user">>, "other", 200, 200)
          /\ G["get_user_summary_by_login_id"] = OfProblem(<<>>, "other", 200, 200)
        BY EpOfProblem DEF UserProfileEndpoints
    <2>. HIDE DEF G
    <2>2. /\ {"get_me"} \subseteq SignedInOnly
          /\ {"get_user_summary", "get_user_summary_by_login_id"} \subseteq ForAll
        BY DEF SignedInOnly, ForAll
    <2>3. Fits("get_me", OfProblem(<<"auth">>, "other", 200, 200))
        BY <2>2, SignedInKind, Chains, Ops
    <2>4. Fits("get_user_summary", OfProblem(<<"user">>, "other", 200, 200))
        BY <2>2, ForAllKind, PlainChains, Ops
    <2>5. Fits("get_user_summary_by_login_id", OfProblem(<<>>, "other", 200, 200))
        BY <2>2, ForAllKind, PlainChains, Ops
    <2>6. AllFit(G)
        BY <2>1, <2>3, <2>4, <2>5 DEF AllFit
    <2>. QED
        BY <2>6 DEF G
<1>15. AllFit(UserStatisticsEndpoints)
    <2>. DEFINE G == UserStatisticsEndpoints
    <2>1. /\ DOMAIN G = {"get_me_submission_statistics", "get_user_submission_statistics"}
          /\ G["get_me_submission_statistics"] = OfProblem(<<"auth">>, "other", 200, 200)
          /\ G["get_user_submission_statistics"] = OfProblem(<<"user">>, "other", 200, 200)
        BY EpOfProblem DEF UserStatisticsEndpoints
    <2>. HIDE DEF G
    <2>2. /\ {"get_me_submission_statistics"} \subseteq SignedInOnly
          /\ {"get_user_submission_statistics"} \subseteq ForAll
        BY DEF SignedInOnly, ForAll
    <2>3. Fits("get_me_submission_statistics", OfProblem(<<"auth">>, "other", 200, 200))
        BY <2>2, SignedInKind, Chains, Ops
    <2>4. Fits("get_user_submission_statistics", OfProblem(<<"user">>, "other", 200, 200))
        BY <2>2, ForAllKind, PlainChains, Ops
    <2>5. AllFit(G)
        BY <2>1, <2>3, <2>4 DEF AllFit
    <2>. QED
        BY <2>5 DEF G
<1>16. AllFit(UserBanEndpoints)
    <2>. DEFINE G == UserBanEndpoints
    <2>1. /\ DOMAIN G = {"get_me_submission_ban", "get_user_submission_ban"}
          /\ G["get_me_submission_ban"] = OfProblem(<<"auth">>, "other", 200, 200)
          /\ G["get_user_submission_ban"] = OfProblem(AdminUser(<<>>), "other", 200, 200)
        BY EpOfProblem DEF UserBanEndpoints
    <2>. HIDE DEF G
    <2>2. /\ {"get_user_submission_ban"} \subseteq AdminOnly
          /\ {"get_me_submission_ban"} \subseteq SignedInOnly
        BY DEF AdminOnly, SignedInOnly
    <2>3. Fits("get_me_submission_ban", OfProblem(<<"auth">>, "other", 200, 200))
        BY <2>2, SignedInKind, Chains, Ops
    <2>4. Fits("get_user_submission_ban", OfProblem(AdminUser(<<>>), "other", 200, 200))
        BY <2>2, AdminKind, Chains, Ops
    <2>5. AllFit(G)
        BY <2>1, <2>3, <2>4 DEF AllFit
    <2>. QED
        BY <2>5 DEF G
<1>17. AllFit(UserProblemListEndpoints)
    <2>. DEFINE G == UserProblemListEndpoints
    <2>1. /\ DOMAIN G = {"get_me_solved_problems", "get_me_wrong_problems",
                           "get_user_solved_problems", "get_user_wrong_problems"}
          /\ G["get_me_solved_problems"] = OfProblem(<<"auth">>, "other", 200, 200)
          /\ G["get_me_wrong_problems"] = OfProblem(<<"auth">>, "other", 200, 200)
          /\ G["get_user_solved_problems"] = OfProblem(<<"optional_auth", "user">>, "other", 200, 200)
          /\ G["get_user_wrong_problems"] = OfProblem(<<"optional_auth", "user">>, "other", 200, 200)
        BY EpOfProblem DEF UserProblemListEndpoints
    <2>. HIDE DEF G
    <2>2. /\ {"get_me_solved_problems", "get_me_wrong_problems"} \subseteq SignedInOnly
          /\ {"get_user_solved_problems", "get_user_wrong_problems"} \subseteq ForViewers
        BY DEF SignedInOnly, ForViewers
    <2>3. Fits("get_me_solved_problems", OfProblem(<<"auth">>, "other", 200, 200))
        BY <2>2, SignedInKind, Chains, Ops
    <2>4. Fits("get_me_wrong_problems", OfProblem(<<"auth">>, "other", 200, 200))
        BY <2>2, SignedInKind, Chains, Ops
    <2>5. Fits("get_user_solved_problems", OfProblem(<<"optional_auth", "user">>, "other", 200, 200))
        BY <2>2, ViewerKind, Chains, Ops
    <2>6. Fits("get_user_wrong_problems", OfProblem(<<"optional_auth", "user">>, "other", 200, 200))
        BY <2>2, ViewerKind, Chains, Ops
    <2>7. AllFit(G)
        BY <2>1, <2>3, <2>4, <2>5, <2>6 DEF AllFit
    <2>. QED
        BY <2>7 DEF G
<1>18. AllFit(SystemEndpoints)
    <2>. DEFINE G == SystemEndpoints
    <2>1. /\ DOMAIN G = {"get_health", "get_supported_languages", "get_status"}
          /\ G["get_health"] = OfProblem(<<>>, "other", 200, 200)
          /\ G["get_supported_languages"] = OfProblem(<<>>, "other", 200, 200)
          /\ G["get_status"] = OfProblem(<<"admin">>, "other", 200, 200)
        BY EpOfProblem DEF SystemEndpoints
    <2>. HIDE DEF G
    <2>2. /\ {"get_status"} \subseteq AdminOnly
          /\ {"get_health", "get_supported_languages"} \subseteq ForAll
        BY DEF AdminOnly, ForAll
    <2>3. Fits("get_health", OfProblem(<<>>, "other", 200, 200))
        BY <2>2, ForAllKind, PlainChains, Ops
    <2>4. Fits("get_supported_languages", OfProblem(<<>>, "other", 200, 200))
        BY <2>2, ForAllKind, PlainChains, Ops
    <2>5. Fits("get_status", OfProblem(<<"admin">>, "other", 200, 200))
        BY <2>2, AdminKind, Chains, Ops
    <2>6. AllFit(G)
        BY <2>1, <2>3, <2>4, <2>5 DEF AllFit
    <2>. QED
        BY <2>6 DEF G
<1>. QED
    BY <1>1, <1>2, <1>3, <1>4, <1>5, <1>6, <1>7, <1>8, <1>9, <1>10, <1>11, <1>12, <1>13, <1>14,
       <1>15, <1>16, <1>17, <1>18 DEF AllEndpoints

LEMMA EndpointFacts == \A e \in DOMAIN Endpoint : Fits(e, Endpoint[e])
<1>. SUFFICES ASSUME NEW e \in DOMAIN Endpoint
              PROVE  Fits(e, Endpoint[e])
    OBVIOUS
<1>1. e \in UNION {DOMAIN group : group \in AllEndpoints}
    BY DEF Endpoint
<1>2. PICK group : group = CHOOSE g \in AllEndpoints : e \in DOMAIN g
    OBVIOUS
<1>3. group \in AllEndpoints /\ e \in DOMAIN group
    BY <1>1, <1>2
<1>4. Endpoint[e] = group[e]
    BY <1>1, <1>2 DEF Endpoint
<1>. QED
    BY <1>3, <1>4, GroupsFit DEF AllFit

LEMMA HealthIsAnEndpoint == "get_health" \in DOMAIN Endpoint
<1>1. SystemEndpoints \in AllEndpoints
    BY DEF AllEndpoints
<1>2. "get_health" \in DOMAIN SystemEndpoints
    BY DEF SystemEndpoints
<1>. QED
    BY <1>1, <1>2 DEF Endpoint

-----------------------------------------------------------------------------
(* The invariant                                                           *)

PermissionLevels == {NoAccount, USER, ADMIN, SUPERADMIN}
Phases == {"idle", "guards", "begin", "check", "execute", "answered"}
Refusals == {0, 401, 500}

RequestRecords ==
    [phase : Phases, endpoint : DOMAIN Endpoint, bearer : Bearers, subject : Users \cup {NoUser},
     guards : Seq(AnyGuard), user : Users \cup {NoUser}, level : PermissionLevels,
     now : Nat, answer : Nat, applied : BOOLEAN]

Sightings == [level : PermissionLevels, unbanned : BOOLEAN]

OpOf(R) == Endpoint[R.endpoint].op

\* The permission that a request asks for.
Required(R) ==
    CASE R.endpoint \in SuperadminOnly -> SUPERADMIN
      [] R.endpoint \in AdminOnly -> ADMIN
      [] R.endpoint \in SignedInOnly -> USER
      [] R.endpoint \in ForViewers /\ R.bearer # "none" -> USER
      [] OTHER -> NoAccount

\* What the guards have found out of a request R, of whose bearer S was seen: that its
\* owner has the permission, or, for an operation on a token, only that there is a token.
IsIdentified(R, S, owner) ==
    /\ OpOf(R) \notin OnTokens => S.level >= Required(R)
    /\ OpOf(R) \in OnTokens => R.bearer \in Tokens
    /\ OpOf(R) \in {"submit", "get_source"} => R.user = owner /\ owner # NoUser

\* How far a request has come.  Before the last guard all guards are to be passed, or
\* only those that do not ask who sends it.
HasComeSoFar(R, S, owner) ==
    /\ R.phase = "guards" =>
        /\ R.guards # <<>>
        /\ \/ R.guards = Endpoint[R.endpoint].guards
           \/ R.guards \in Seq(Plain) /\ OpOf(R) \notin OnTokens /\ IsIdentified(R, S, owner)
    /\ R.phase \in {"begin", "check", "execute"} => IsIdentified(R, S, owner)
    /\ R.phase = "check" => OpOf(R) = "submit"
    /\ R.phase = "execute" /\ OpOf(R) = "submit" => S.unbanned
    /\ R.phase # "answered" => ~ R.applied /\ R.answer = 0

\* Its identity is not older than itself, and is that of its bearer.
IsOfItsBearer(R, S, owner) ==
    /\ R.level <= S.level
    /\ R.user # NoUser => R.user = owner

\* What was done for it, it was entitled to.
IsEntitled(R, S, owner) ==
    /\ R.applied \/ R.answer \notin Refusals => S.level >= Required(R)
    /\ OpOf(R) = "submit" /\ R.applied => S.unbanned
    /\ OpOf(R) = "get_source" /\ R.answer = 200 => S.level >= ADMIN \/ owner = R.subject

IsGood(R, S, owner, time) ==
    /\ R \in RequestRecords
    /\ S \in Sightings
    /\ R.phase \in {"check", "execute"} => R.now <= time
    /\ HasComeSoFar(R, S, owner)
    /\ IsOfItsBearer(R, S, owner)
    /\ IsEntitled(R, S, owner)

DatabaseTypeOK ==
    /\ clock \in Nat
    /\ account \in [Users -> [level : PermissionLevels, banned_until : Nat]]
    /\ token \in [Tokens -> [owner : Users \cup {NoUser}, revoked : BOOLEAN, expires : Nat]]
    /\ problem \in BOOLEAN

OwnersHaveAccounts ==
    \A t \in Tokens : IsIssued(t) => account[token[t].owner].level >= USER

BearersAreIssued == \A r \in Slots : request[r].bearer \in Tokens => IsIssued(request[r].bearer)

RequestsAreGood ==
    /\ request \in [Slots -> RequestRecords]
    /\ seen \in [Slots -> Sightings]
    /\ \A r \in Slots : IsGood(request[r], seen[r], OwnerOf(request[r].bearer), clock)

\* The last moment of every request has been seen.
MomentsAreSeen ==
    \A r \in Slots : IsServing(r) =>
        /\ seen[r].level >= Moment(r).level
        /\ Moment(r).unbanned => seen[r].unbanned

LoggedOutAreRevoked ==
    /\ logged_out \subseteq Tokens
    /\ \A t \in logged_out : IsIssued(t) /\ token[t].revoked

IInv ==
    /\ DatabaseTypeOK
    /\ OwnersHaveAccounts
    /\ BearersAreIssued
    /\ RequestsAreGood
    /\ MomentsAreSeen
    /\ LoggedOutAreRevoked
    /\ SubmissionsHaveTheirProblem

-----------------------------------------------------------------------------
(* The ways of a request, whatever the others do                           *)

AnsweredFrom(R, status) ==
    [R EXCEPT !.phase = "answered", !.answer = status, !.guards = <<>>, !.now = 0]

PassedFrom(R, u, level) ==
    [R EXCEPT !.guards = Tail(@), !.phase = Begins(Tail(R.guards)), !.user = u, !.level = level]

LEMMA LevelsAreOrdered ==
    /\ PermissionLevels \subseteq Int
    /\ \A level \in PermissionLevels : level >= NoAccount
    /\ \A level \in PermissionLevels : level # NoAccount => level >= USER
    /\ {NoAccount, USER, ADMIN, SUPERADMIN} \subseteq PermissionLevels
BY DEF PermissionLevels, NoAccount, USER, ADMIN, SUPERADMIN

LEMMA RequiredIsALevel == \A R : Required(R) \in PermissionLevels
BY DEF Required, PermissionLevels

\* What is good stays good while more is seen and time passes.
LEMMA GoodLasts ==
    ASSUME NEW R, NEW S, NEW owner, NEW time \in Nat, IsGood(R, S, owner, time),
           NEW later \in Nat, later >= time, NEW S2 \in Sightings,
           S2.level >= S.level, S.unbanned => S2.unbanned
    PROVE  IsGood(R, S2, owner, later)
<1>1. /\ R \in RequestRecords /\ S \in Sightings /\ R.now \in Nat
      /\ {R.level, S.level, S2.level, Required(R), ADMIN} \subseteq Int
    BY LevelsAreOrdered, RequiredIsALevel DEF IsGood, RequestRecords, Sightings
<1>2. IsIdentified(R, S, owner) => IsIdentified(R, S2, owner)
    BY <1>1 DEF IsIdentified
<1>3. HasComeSoFar(R, S2, owner)
    BY <1>2 DEF IsGood, HasComeSoFar
<1>4. IsOfItsBearer(R, S2, owner)
    BY <1>1 DEF IsGood, IsOfItsBearer
<1>5. IsEntitled(R, S2, owner)
    BY <1>1 DEF IsGood, IsEntitled
<1>6. R.phase \in {"check", "execute"} => R.now <= later
    BY <1>1 DEF IsGood
<1>. QED
    BY <1>1, <1>3, <1>4, <1>5, <1>6 DEF IsGood

\* A request is answered when it is refused, or when it was entitled to the answer.
LEMMA AnswerIsGood ==
    ASSUME NEW R, NEW S, NEW owner, NEW time \in Nat, IsGood(R, S, owner, time),
           R.phase # "answered", NEW status \in Nat,
           status \notin Refusals => S.level >= Required(R),
           OpOf(R) = "get_source" /\ status = 200 => S.level >= ADMIN \/ owner = R.subject
    PROVE  IsGood(AnsweredFrom(R, status), S, owner, time)
<1>. DEFINE A == AnsweredFrom(R, status)
<1>1. R \in RequestRecords /\ S \in Sightings /\ ~ R.applied
    BY DEF IsGood, HasComeSoFar
<1>2. /\ A \in RequestRecords
      /\ A.phase = "answered" /\ A.answer = status /\ A.applied = R.applied
      /\ A.endpoint = R.endpoint /\ A.bearer = R.bearer /\ A.subject = R.subject
      /\ A.user = R.user /\ A.level = R.level
    BY <1>1, EmptySeq DEF AnsweredFrom, RequestRecords, Phases
<1>. HIDE DEF A
<1>3. OpOf(A) = OpOf(R) /\ Required(A) = Required(R)
    BY <1>2 DEF OpOf, Required
<1>4. HasComeSoFar(A, S, owner)
    BY <1>2 DEF HasComeSoFar
<1>5. IsOfItsBearer(A, S, owner)
    BY <1>2 DEF IsGood, IsOfItsBearer
<1>6. IsEntitled(A, S, owner)
    BY <1>1, <1>2, <1>3 DEF IsEntitled
<1>. QED
    BY <1>1, <1>2, <1>4, <1>5, <1>6 DEF IsGood, A

\* Its operation is committed; the answer may be lost.
LEMMA CommitIsGood ==
    ASSUME NEW R, NEW S, NEW owner, NEW time \in Nat, IsGood(R, S, owner, time),
           R.phase # "answered", NEW status \in Nat, S.level >= Required(R),
           OpOf(R) = "submit" => S.unbanned, OpOf(R) # "get_source"
    PROVE  IsGood([AnsweredFrom(R, status) EXCEPT !.applied = TRUE], S, owner, time)
<1>. DEFINE A == AnsweredFrom(R, status)
            C == [A EXCEPT !.applied = TRUE]
<1>1. IsGood(A, S, owner, time)
    BY AnswerIsGood
<1>2. A.phase = "answered" /\ A.endpoint = R.endpoint /\ A.bearer = R.bearer
    BY DEF IsGood, AnsweredFrom, RequestRecords
<1>. HIDE DEF A
<1>3. A \in RequestRecords /\ S \in Sightings
    BY <1>1 DEF IsGood
<1>4. /\ C \in RequestRecords
      /\ C.phase = "answered" /\ C.endpoint = R.endpoint /\ C.bearer = R.bearer
      /\ C.user = A.user /\ C.level = A.level
    BY <1>2, <1>3 DEF RequestRecords
<1>. HIDE DEF C
<1>5. OpOf(C) = OpOf(R) /\ Required(C) = Required(R)
    BY <1>2, <1>4 DEF OpOf, Required
<1>6. HasComeSoFar(C, S, owner)
    BY <1>4 DEF HasComeSoFar
<1>7. IsOfItsBearer(C, S, owner)
    BY <1>1, <1>4 DEF IsGood, IsOfItsBearer
<1>8. IsEntitled(C, S, owner)
    BY <1>5 DEF IsEntitled
<1>9. IsGood(C, S, owner, time)
    BY <1>3, <1>4, <1>6, <1>7, <1>8 DEF IsGood
<1>. QED
    BY <1>9 DEF C, A

\* It passes a guard, and is identified when it has.
LEMMA PassIsGood ==
    ASSUME NEW R, NEW S, NEW owner, NEW time \in Nat, IsGood(R, S, owner, time),
           R.phase = "guards",
           NEW u \in Users \cup {NoUser}, u # NoUser => u = owner,
           NEW level \in PermissionLevels, level <= S.level,
           Tail(R.guards) \in Seq(Plain), OpOf(R) \in OnTokens => Tail(R.guards) = <<>>,
           OpOf(R) \notin OnTokens => S.level >= Required(R),
           OpOf(R) \in OnTokens => R.bearer \in Tokens,
           OpOf(R) \in {"submit", "get_source"} => u = owner /\ owner # NoUser
    PROVE  IsGood(PassedFrom(R, u, level), S, owner, time)
<1>. DEFINE P == PassedFrom(R, u, level)
<1>1. R \in RequestRecords /\ S \in Sightings /\ ~ R.applied /\ R.answer = 0
    BY DEF IsGood, HasComeSoFar
<1>2. Tail(R.guards) \in Seq(AnyGuard)
    BY DEF AnyGuard
<1>3. /\ P \in RequestRecords
      /\ P.guards = Tail(R.guards) /\ P.user = u /\ P.level = level
      /\ P.phase \in {"begin", "guards"} /\ (P.phase = "guards" => P.guards # <<>>)
      /\ P.endpoint = R.endpoint /\ P.bearer = R.bearer /\ P.subject = R.subject
      /\ P.answer = 0 /\ ~ P.applied
    BY <1>1, <1>2 DEF PassedFrom, Begins, RequestRecords, Phases
<1>. HIDE DEF P
<1>4. OpOf(P) = OpOf(R) /\ Required(P) = Required(R)
    BY <1>3 DEF OpOf, Required
<1>5. IsIdentified(P, S, owner)
    BY <1>3, <1>4 DEF IsIdentified
<1>6. HasComeSoFar(P, S, owner)
    BY <1>3, <1>4, <1>5 DEF HasComeSoFar
<1>7. IsOfItsBearer(P, S, owner) /\ IsEntitled(P, S, owner)
    BY <1>3, <1>4 DEF IsOfItsBearer, IsEntitled, Refusals
<1>8. IsGood(P, S, owner, time)
    BY <1>1, <1>3, <1>6, <1>7 DEF IsGood
<1>. QED
    BY <1>8 DEF P

\* Its transaction begins, begins again, or goes on.
LEMMA PhaseIsGood ==
    ASSUME NEW R, NEW S, NEW owner, NEW time \in Nat, IsGood(R, S, owner, time),
           R.phase \in {"begin", "check", "execute"},
           NEW phase \in {"begin", "check", "execute"}, NEW now \in Nat, now <= time,
           phase = "check" => OpOf(R) = "submit",
           phase = "execute" /\ OpOf(R) = "submit" => S.unbanned
    PROVE  IsGood([R EXCEPT !.phase = phase, !.now = now], S, owner, time)
<1>. DEFINE B == [R EXCEPT !.phase = phase, !.now = now]
<1>1. R \in RequestRecords /\ S \in Sightings /\ ~ R.applied /\ R.answer = 0
    BY DEF IsGood, HasComeSoFar
<1>2. /\ B \in RequestRecords /\ B.phase = phase /\ B.now = now
      /\ B.endpoint = R.endpoint /\ B.bearer = R.bearer /\ B.subject = R.subject
      /\ B.user = R.user /\ B.level = R.level /\ B.answer = 0 /\ ~ B.applied
    BY <1>1 DEF RequestRecords, Phases
<1>. HIDE DEF B
<1>3. OpOf(B) = OpOf(R) /\ Required(B) = Required(R)
    BY <1>2 DEF OpOf, Required
<1>4. IsIdentified(B, S, owner)
    BY <1>2, <1>3 DEF IsGood, HasComeSoFar, IsIdentified
<1>5. HasComeSoFar(B, S, owner)
    BY <1>2, <1>3, <1>4 DEF HasComeSoFar
<1>6. IsOfItsBearer(B, S, owner) /\ IsEntitled(B, S, owner)
    BY <1>2, <1>3 DEF IsGood, IsOfItsBearer, IsEntitled, Refusals
<1>7. IsGood(B, S, owner, time)
    BY <1>1, <1>2, <1>5, <1>6 DEF IsGood
<1>. QED
    BY <1>7 DEF B

-----------------------------------------------------------------------------
(* What the guards of a request say of it                                  *)

LEMMA KindsAreDisjoint ==
    /\ SuperadminOnly \cap AdminOnly = {} /\ SuperadminOnly \cap SignedInOnly = {}
    /\ SuperadminOnly \cap ForViewers = {} /\ AdminOnly \cap SignedInOnly = {}
    /\ AdminOnly \cap ForViewers = {} /\ SignedInOnly \cap ForViewers = {}
<1>1. SuperadminOnly \cap AdminOnly = {} /\ SuperadminOnly \cap SignedInOnly = {}
      /\ SuperadminOnly \cap ForViewers = {}
    BY DEF SuperadminOnly, AdminOnly, SignedInOnly, ForViewers
<1>2. AdminOnly \cap SignedInOnly = {}
    BY DEF AdminOnly, SignedInOnly
<1>3. AdminOnly \cap ForViewers = {}
    BY DEF AdminOnly, ForViewers
<1>4. SignedInOnly \cap ForViewers = {}
    BY DEF SignedInOnly, ForViewers
<1>. QED
    BY <1>1, <1>2, <1>3, <1>4

LEMMA RequiredOfKinds ==
    ASSUME NEW R
    PROVE  /\ R.endpoint \in SuperadminOnly => Required(R) = SUPERADMIN
           /\ R.endpoint \in AdminOnly => Required(R) = ADMIN
           /\ R.endpoint \in SignedInOnly => Required(R) = USER
           /\ R.endpoint \in ForViewers =>
                Required(R) = IF R.bearer # "none" THEN USER ELSE NoAccount
           /\ R.endpoint \notin SuperadminOnly \cup AdminOnly \cup SignedInOnly \cup ForViewers =>
                Required(R) = NoAccount
BY KindsAreDisjoint DEF Required

LEMMA PlainOrNot ==
    /\ Plain \cap {"bearer", "auth", "optional_auth", "admin", "superadmin"} = {}
    /\ \A guards \in Seq(Plain) : guards # <<>> => guards[1] \in Plain /\ Tail(guards) \in Seq(Plain)
<1>1. ASSUME NEW guards \in Seq(Plain), guards # <<>>
      PROVE  guards[1] \in Plain /\ Tail(guards) \in Seq(Plain)
    BY <1>1, HeadTailProperties
<1>. QED
    BY <1>1 DEF Plain

LEMMA TailOfLed ==
    ASSUME NEW guards, NEW first, LedBy(guards, first)
    PROVE  Tail(guards) \in Seq(Plain)
<1>1. guards \in Seq(AnyGuard) /\ guards # <<>> /\ \A i \in 2 .. Len(guards) : guards[i] \in Plain
    BY DEF LedBy
<1>2. /\ Tail(guards) \in Seq(AnyGuard) /\ Len(Tail(guards)) = Len(guards) - 1
      /\ \A i \in 1 .. Len(guards) - 1 : Tail(guards)[i] = guards[i + 1]
      /\ Len(guards) \in Nat
    BY <1>1, HeadTailProperties, LenProperties
<1>3. \A i \in 1 .. Len(Tail(guards)) : Tail(guards)[i] \in Plain
    BY <1>1, <1>2
<1>4. Tail(guards) \in [1 .. Len(Tail(guards)) -> Plain] /\ Len(Tail(guards)) \in Nat
    BY <1>2, <1>3, LenProperties
<1>. QED
    BY <1>4, SeqDef

\* An operation on a token is for who is signed in, and has no guard but that of the bearer.
LEMMA TokenOperations ==
    ASSUME NEW R, R.endpoint \in DOMAIN Endpoint, OpOf(R) \in OnTokens
    PROVE  Required(R) = USER /\ Endpoint[R.endpoint].guards = <<"bearer">>
<1>. DEFINE guards == Endpoint[R.endpoint].guards
<1>1. Fits(R.endpoint, Endpoint[R.endpoint])
    BY EndpointFacts
<1>2. guards = <<"bearer">>
    BY <1>1 DEF Fits, OpOf
<1>3. guards # <<>> /\ guards[1] = "bearer" /\ guards \notin Seq(Plain)
    BY <1>2, PlainOrNot
<1>4. R.endpoint \in SignedInOnly
    BY <1>1, <1>3 DEF Fits, LedBy
<1>. QED
    BY <1>2, <1>4, RequiredOfKinds

\* The guards of a request that comes to one that does not ask who sends it.
LEMMA AtPlainGuard ==
    ASSUME NEW R, NEW S, NEW owner, NEW time, IsGood(R, S, owner, time),
           R.phase = "guards", Head(R.guards) \in Plain
    PROVE  /\ IsIdentified(R, S, owner) /\ OpOf(R) \notin OnTokens
           /\ Tail(R.guards) \in Seq(Plain)
<1>1. R \in RequestRecords /\ S \in Sightings /\ R.guards # <<>>
    BY DEF IsGood, HasComeSoFar
<1>2. CASE R.guards \in Seq(Plain) /\ OpOf(R) \notin OnTokens /\ IsIdentified(R, S, owner)
    BY <1>1, <1>2, PlainOrNot
<1>3. CASE R.guards = Endpoint[R.endpoint].guards
    <2>1. Fits(R.endpoint, Endpoint[R.endpoint])
        BY <1>1, EndpointFacts DEF RequestRecords
    <2>2. R.guards[1] \in Plain
        OBVIOUS
    <2>3. OpOf(R) \notin OnTokens
        BY <1>1, <1>3, <2>2, TokenOperations, PlainOrNot DEF RequestRecords
    <2>4. /\ R.endpoint \notin SuperadminOnly \cup AdminOnly \cup SignedInOnly \cup ForViewers
          /\ R.guards \in Seq(Plain)
        BY <1>3, <2>1, <2>2, <2>3, PlainOrNot DEF Fits, LedBy, OpOf
    <2>5. OpOf(R) \notin {"submit", "get_source"}
        BY <1>3, <2>1, <2>2, PlainOrNot DEF Fits, LedBy, OpOf
    <2>6. S.level >= Required(R)
        BY <1>1, <2>4, RequiredOfKinds, LevelsAreOrdered DEF Sightings
    <2>. QED
        BY <1>1, <2>3, <2>4, <2>5, <2>6, PlainOrNot DEF IsIdentified
<1>. QED
    BY <1>1, <1>2, <1>3 DEF IsGood, HasComeSoFar

\* The guards of a request that comes to the one that asks who sends it.
LEMMA AtLeadGuard ==
    ASSUME NEW R, NEW S, NEW owner, NEW time, IsGood(R, S, owner, time),
           R.phase = "guards", Head(R.guards) \notin Plain
    PROVE  /\ Tail(R.guards) \in Seq(Plain)
           /\ OpOf(R) \in {"submit", "get_source"} => Head(R.guards) = "auth"
           /\ OpOf(R) \in OnTokens => Head(R.guards) = "bearer" /\ Tail(R.guards) = <<>>
           /\ \/ Head(R.guards) = "superadmin" /\ Required(R) = SUPERADMIN
              \/ Head(R.guards) = "admin" /\ Required(R) = ADMIN
              \/ Head(R.guards) = "auth" /\ Required(R) = USER
              \/ /\ Head(R.guards) = "optional_auth"
                 /\ Required(R) = IF R.bearer # "none" THEN USER ELSE NoAccount
              \/ Head(R.guards) = "bearer" /\ OpOf(R) \in OnTokens
<1>1. R \in RequestRecords /\ R.guards # <<>> /\ R.endpoint \in DOMAIN Endpoint
    BY DEF IsGood, HasComeSoFar, RequestRecords
<1>2. R.guards = Endpoint[R.endpoint].guards
    BY <1>1, PlainOrNot DEF IsGood, HasComeSoFar
<1>3. Fits(R.endpoint, Endpoint[R.endpoint])
    BY <1>1, EndpointFacts
<1>4. Head(R.guards) = R.guards[1]
    OBVIOUS
<1>5. OpOf(R) \in {"submit", "get_source"} => LedBy(R.guards, "auth")
    BY <1>2, <1>3 DEF Fits, OpOf
<1>6. OpOf(R) \in OnTokens => R.guards = <<"bearer">>
    BY <1>1, <1>2, TokenOperations
<1>7. R.guards \notin Seq(Plain)
    BY <1>1, <1>4, PlainOrNot
<1>8. \/ R.endpoint \in SuperadminOnly /\ LedBy(R.guards, "superadmin")
      \/ R.endpoint \in AdminOnly /\ LedBy(R.guards, "admin")
      \/ R.endpoint \in SignedInOnly /\ LedBy(R.guards, "auth")
      \/ R.guards = <<"bearer">> /\ OpOf(R) \in OnTokens
      \/ R.endpoint \in ForViewers /\ LedBy(R.guards, "optional_auth")
    BY <1>2, <1>3, <1>7 DEF Fits, OpOf
<1>9. Tail(R.guards) \in Seq(Plain)
    <2>1. CASE R.guards = <<"bearer">>
        BY <2>1
    <2>. QED
        BY <1>8, <2>1, TailOfLed
<1>10. Head(<<"bearer">>) = "bearer" /\ Tail(<<"bearer">>) = <<>>
    OBVIOUS
<1>11. OpOf(R) \in OnTokens => Head(R.guards) = "bearer" /\ Tail(R.guards) = <<>>
    BY <1>6, <1>10
<1>. QED
    BY <1>4, <1>5, <1>8, <1>9, <1>11, <1>10, RequiredOfKinds DEF LedBy

-----------------------------------------------------------------------------
(* What a step leaves as it is                                             *)

LEMMA OfRequest ==
    \A r \in Slots : RequiredLevel(r) = Required(request[r]) /\ Op(r) = OpOf(request[r])
BY DEF RequiredLevel, Required, Op, OpOf

MomentTypeOK ==
    /\ \A b, now : LevelAt(b, now) \in PermissionLevels
    /\ \A r : Moment(r) \in Sightings

LEMMA MomentsAreSightings == DatabaseTypeOK => MomentTypeOK
<1>. SUFFICES ASSUME DatabaseTypeOK
              PROVE  MomentTypeOK
    OBVIOUS
<1>1. ASSUME NEW b, NEW now
      PROVE  LevelAt(b, now) \in PermissionLevels
    BY LevelsAreOrdered DEF LevelAt, IsLiveAt, IsIssued, DatabaseTypeOK
<1>2. ASSUME NEW r
      PROVE  Moment(r) \in Sightings
    BY <1>1 DEF Moment, Sightings
<1>. QED
    BY <1>1, <1>2 DEF MomentTypeOK

\* Nothing that was seen is forgotten while a request is served, and its last moment is seen.
LEMMA ObservedGrows ==
    ASSUME seen \in [Slots -> Sightings], DatabaseTypeOK', Observe, NEW r \in Slots
    PROVE  /\ seen'[r] \in Sightings
           /\ IsServing(r) =>
                /\ seen'[r].level >= seen[r].level /\ (seen[r].unbanned => seen'[r].unbanned)
                /\ seen'[r].level >= Moment(r)'.level
                /\ Moment(r)'.unbanned => seen'[r].unbanned
           /\ ~ IsServing(r) /\ request'[r] = request[r] => seen'[r] = seen[r]
           /\ ~ IsServing(r) /\ request'[r] # request[r] => seen'[r] = Moment(r)'
<1>1. Moment(r)' \in Sightings /\ seen[r] \in Sightings
    <2>1. MomentTypeOK'
        BY MomentsAreSightings, PTL
    <2>. QED
        BY <2>1 DEF MomentTypeOK
<1>2. Moment(r)'.level \in Int /\ seen[r].level \in Int
    BY <1>1, LevelsAreOrdered DEF Sightings
<1>3. CASE IsServing(r)
    <2>1. seen'[r] = [level |-> Larger(seen[r].level, Moment(r)'.level),
                      unbanned |-> seen[r].unbanned \/ Moment(r)'.unbanned]
        BY <1>3 DEF Observe
    <2>2. Larger(seen[r].level, Moment(r)'.level) \in {seen[r].level, Moment(r)'.level}
        BY DEF Larger
    <2>3. /\ Larger(seen[r].level, Moment(r)'.level) >= seen[r].level
          /\ Larger(seen[r].level, Moment(r)'.level) >= Moment(r)'.level
        BY <1>2 DEF Larger
    <2>4. seen'[r] \in Sightings
        BY <1>1, <2>1, <2>2 DEF Sightings
    <2>5. /\ seen'[r].level = Larger(seen[r].level, Moment(r)'.level)
          /\ seen'[r].unbanned = (seen[r].unbanned \/ Moment(r)'.unbanned)
        BY <2>1
    <2>. QED
        BY <1>3, <2>3, <2>4, <2>5
<1>4. CASE ~ IsServing(r) /\ request'[r] = request[r]
    BY <1>1, <1>4 DEF Observe
<1>5. CASE ~ IsServing(r) /\ request'[r] # request[r]
    BY <1>1, <1>5 DEF Observe
<1>. QED
    BY <1>3, <1>4, <1>5

LEMMA MomentsStaySeen ==
    ASSUME seen \in [Slots -> Sightings], DatabaseTypeOK', Observe
    PROVE  MomentsAreSeen'
<1>. SUFFICES ASSUME NEW r \in Slots, IsServing(r)'
              PROVE  /\ seen'[r].level >= Moment(r)'.level
                     /\ Moment(r)'.unbanned => seen'[r].unbanned
    BY DEF MomentsAreSeen
<1>1. CASE IsServing(r)
    BY <1>1, ObservedGrows
<1>2. CASE ~ IsServing(r)
    <2>1. request'[r] # request[r]
        BY <1>2 DEF IsServing
    <2>2. seen'[r] = Moment(r)' /\ seen'[r].level \in Int
        BY <1>2, <2>1, ObservedGrows, LevelsAreOrdered DEF Sightings
    <2>. QED
        BY <2>2
<1>. QED
    BY <1>1, <1>2

\* No token changes hands.
TokensAreKept == \A t \in Tokens : IsIssued(t) => token'[t].owner = token[t].owner

\* What is good for the slot r is good for all slots, when nothing else is served.
LEMMA OthersStayGood ==
    ASSUME IInv, DatabaseTypeOK', Observe, clock' >= clock, TokensAreKept, NEW r \in Slots,
           request' \in [Slots -> RequestRecords],
           \A q \in Slots \ {r} : request'[q] = request[q],
           request'[r].bearer \in Tokens => IsIssued(request[r].bearer)',
           IsGood(request'[r], seen'[r], OwnerOf(request[r].bearer)', clock')
    PROVE  RequestsAreGood' /\ BearersAreIssued' /\ MomentsAreSeen'
<1>1. MomentsAreSeen'
    BY MomentsStaySeen DEF IInv, RequestsAreGood
<1>2. ASSUME NEW q \in Slots \ {r}
      PROVE  /\ IsGood(request'[q], seen'[q], OwnerOf(request[q].bearer)', clock')
             /\ request'[q].bearer \in Tokens => IsIssued(request[q].bearer)'
    <2>. DEFINE R == request[q]
                b == R.bearer
    <2>1. /\ request'[q] = R
          /\ IsGood(R, seen[q], OwnerOf(b), clock)
          /\ clock \in Nat /\ clock' \in Nat
        BY DEF IInv, RequestsAreGood, DatabaseTypeOK
    <2>2. b \in Tokens => token'[b].owner = token[b].owner /\ IsIssued(b)
        BY DEF IInv, BearersAreIssued, TokensAreKept
    <2>3. OwnerOf(request[q].bearer)' = OwnerOf(b)
        BY <2>1, <2>2 DEF OwnerOf
    <2>4. /\ seen'[q] \in Sightings /\ seen[q] \in Sightings
          /\ seen'[q].level >= seen[q].level /\ (seen[q].unbanned => seen'[q].unbanned)
        <3>1. seen \in [Slots -> Sightings]
            BY DEF IInv, RequestsAreGood
        <3>2. seen[q] \in Sightings /\ seen[q].level \in Int
            BY <3>1, LevelsAreOrdered DEF Sightings
        <3>. QED
            BY <2>1, <3>1, <3>2, ObservedGrows
    <2>5. IsGood(R, seen'[q], OwnerOf(b), clock')
        BY <2>1, <2>4, GoodLasts
    <2>6. b \in Tokens => IsIssued(request[q].bearer)'
        BY <2>1, <2>2 DEF IsIssued
    <2>. QED
        BY <2>1, <2>3, <2>5, <2>6
<1>3. BearersAreIssued'
    BY <1>2 DEF BearersAreIssued
<1>4. seen' \in [Slots -> Sightings]
    <2>1. seen \in [Slots -> Sightings]
        BY DEF IInv, RequestsAreGood
    <2>2. \A q \in Slots : seen'[q] \in Sightings
        BY <2>1, ObservedGrows
    <2>. QED
        BY <2>2 DEF Observe
<1>5. RequestsAreGood'
    BY <1>2, <1>4 DEF RequestsAreGood
<1>. QED
    BY <1>1, <1>3, <1>5

LEMMA BeforeStep ==
    ASSUME IInv, DatabaseTypeOK', Observe, NEW r \in Slots, IsServing(r)
    PROVE  /\ IsGood(request[r], seen'[r], OwnerOf(request[r].bearer), clock)
           /\ request[r].phase \notin {"idle", "answered"} /\ request[r] \in RequestRecords
           /\ request \in [Slots -> RequestRecords] /\ clock \in Nat
           /\ seen'[r].level \in Int /\ seen'[r].level >= Moment(r).level
           /\ Moment(r).unbanned => seen'[r].unbanned
<1>1. /\ request \in [Slots -> RequestRecords] /\ seen \in [Slots -> Sightings] /\ clock \in Nat
      /\ IsGood(request[r], seen[r], OwnerOf(request[r].bearer), clock)
    BY DEF IInv, RequestsAreGood, DatabaseTypeOK
<1>2. /\ seen'[r] \in Sightings /\ seen[r] \in Sightings
      /\ seen'[r].level >= seen[r].level /\ (seen[r].unbanned => seen'[r].unbanned)
    BY <1>1, ObservedGrows
<1>3. IsGood(request[r], seen'[r], OwnerOf(request[r].bearer), clock)
    BY <1>1, <1>2, GoodLasts
<1>4. seen[r].level >= Moment(r).level /\ (Moment(r).unbanned => seen[r].unbanned)
    BY DEF IInv, MomentsAreSeen
<1>5. Moment(r) \in Sightings
    BY MomentsAreSightings DEF IInv, MomentTypeOK
<1>6. {seen'[r].level, seen[r].level, Moment(r).level} \subseteq Int
    BY <1>2, <1>5, LevelsAreOrdered DEF Sightings
<1>. QED
    BY <1>1, <1>2, <1>3, <1>4, <1>6 DEF IsServing

LEMMA ServingStep ==
    ASSUME IInv, DatabaseTypeOK', OwnersHaveAccounts', LoggedOutAreRevoked',
           SubmissionsHaveTheirProblem', Observe, clock' = clock, TokensAreKept,
           NEW r \in Slots, IsServing(r), NEW N, request' = [request EXCEPT ![r] = N],
           N.bearer = request[r].bearer,
           IsGood(N, seen'[r], OwnerOf(request[r].bearer), clock)
    PROVE  IInv'
<1>. DEFINE b == request[r].bearer
<1>1. request \in [Slots -> RequestRecords] /\ clock \in Nat /\ N \in RequestRecords
    BY DEF IInv, RequestsAreGood, DatabaseTypeOK, IsGood
<1>2. /\ request' \in [Slots -> RequestRecords] /\ request'[r] = N
      /\ \A q \in Slots \ {r} : request'[q] = request[q]
    BY <1>1
<1>3. b \in Tokens => IsIssued(b) /\ token'[b].owner = token[b].owner
    BY DEF IInv, BearersAreIssued, TokensAreKept
<1>4. OwnerOf(request[r].bearer)' = OwnerOf(b)
    BY <1>2, <1>3 DEF OwnerOf
<1>5. request'[r].bearer \in Tokens => IsIssued(request[r].bearer)'
    BY <1>2, <1>3 DEF IsIssued
<1>6. RequestsAreGood' /\ BearersAreIssued' /\ MomentsAreSeen'
    BY <1>1, <1>2, <1>4, <1>5, OthersStayGood
<1>. QED
    BY <1>6 DEF IInv

\* A step that changes nothing but the request it is of.
LEMMA QuietStep ==
    ASSUME IInv, Observe, UNCHANGED <<database, logged_out>>,
           NEW r \in Slots, IsServing(r), NEW N, request' = [request EXCEPT ![r] = N],
           N.bearer = request[r].bearer,
           IsGood(N, seen'[r], OwnerOf(request[r].bearer), clock)
    PROVE  IInv'
<1>1. clock' = clock /\ account' = account /\ token' = token /\ problem' = problem
      /\ submitted' = submitted /\ logged_out' = logged_out
    BY DEF database
<1>2. DatabaseTypeOK' /\ SubmissionsHaveTheirProblem' /\ TokensAreKept
    BY <1>1 DEF IInv, DatabaseTypeOK, SubmissionsHaveTheirProblem, TokensAreKept
<1>3. OwnersHaveAccounts' /\ LoggedOutAreRevoked'
    BY <1>1 DEF IInv, OwnersHaveAccounts, LoggedOutAreRevoked, IsIssued
<1>. QED
    BY <1>1, <1>2, <1>3, ServingStep

LEMMA QuietDatabase == ASSUME IInv, UNCHANGED <<database, logged_out>> PROVE DatabaseTypeOK'
BY DEF IInv, DatabaseTypeOK, database

LEMMA BearerStays ==
    \A R \in RequestRecords :
        /\ \A status : /\ AnsweredFrom(R, status).bearer = R.bearer
                       /\ [AnsweredFrom(R, status) EXCEPT !.applied = TRUE].bearer = R.bearer
        /\ \A u, level : PassedFrom(R, u, level).bearer = R.bearer
BY DEF AnsweredFrom, PassedFrom, RequestRecords

\* A request is refused, or answered what it was entitled to.
LEMMA AnswerStep ==
    ASSUME IInv, Observe, NEW r \in Slots, IsServing(r), NEW status \in Nat, Answer(r, status),
           status \notin Refusals => seen'[r].level >= RequiredLevel(r),
           Op(r) = "get_source" /\ status = 200 =>
               seen'[r].level >= ADMIN \/ OwnerOf(request[r].bearer) = request[r].subject
    PROVE  IInv'
<1>. DEFINE N == AnsweredFrom(request[r], status)
<1>1. request' = [request EXCEPT ![r] = N] /\ UNCHANGED <<database, logged_out>>
    BY DEF Answer, Answered, AnsweredFrom
<1>2. DatabaseTypeOK'
    BY <1>1, QuietDatabase
<1>3. /\ IsGood(request[r], seen'[r], OwnerOf(request[r].bearer), clock)
      /\ request[r].phase # "answered" /\ request[r] \in RequestRecords /\ clock \in Nat
    BY <1>2, BeforeStep
<1>4. IsGood(N, seen'[r], OwnerOf(request[r].bearer), clock)
    BY <1>3, AnswerIsGood, OfRequest
<1>5. N.bearer = request[r].bearer
    BY <1>3, BearerStays
<1>. HIDE DEF N
<1>. QED
    BY <1>1, <1>4, <1>5, QuietStep

\* A request is refused.
LEMMA RefusalStep ==
    ASSUME IInv, Observe, NEW r \in Slots, IsServing(r), NEW status \in Refusals, Answer(r, status)
    PROVE  IInv'
<1>1. status \in Nat /\ status # 200
    BY DEF Refusals
<1>. QED
    BY <1>1, AnswerStep

LEMMA PassStep ==
    ASSUME IInv, Observe, NEW r \in Slots, IsServing(r), request[r].phase = "guards",
           NEW u \in Users \cup {NoUser}, NEW level \in PermissionLevels, Pass(r, u, level),
           u # NoUser => u = OwnerOf(request[r].bearer), level <= seen'[r].level,
           Tail(request[r].guards) \in Seq(Plain),
           Op(r) \in OnTokens => Tail(request[r].guards) = <<>> /\ request[r].bearer \in Tokens,
           Op(r) \notin OnTokens => seen'[r].level >= Required(request[r]),
           Op(r) \in {"submit", "get_source"} => u = OwnerOf(request[r].bearer) /\ u # NoUser
    PROVE  IInv'
<1>. DEFINE N == PassedFrom(request[r], u, level)
<1>1. request' = [request EXCEPT ![r] = N] /\ UNCHANGED <<database, logged_out>>
    BY DEF Pass, Passed, PassedFrom
<1>2. DatabaseTypeOK'
    BY <1>1, QuietDatabase
<1>3. /\ IsGood(request[r], seen'[r], OwnerOf(request[r].bearer), clock)
      /\ request[r] \in RequestRecords /\ clock \in Nat
    BY <1>2, BeforeStep
<1>4. IsGood(N, seen'[r], OwnerOf(request[r].bearer), clock)
    BY <1>3, PassIsGood, OfRequest
<1>5. N.bearer = request[r].bearer
    BY <1>3, BearerStays
<1>. HIDE DEF N
<1>. QED
    BY <1>1, <1>4, <1>5, QuietStep

-----------------------------------------------------------------------------
(* Guards                                                                  *)

LEMMA IdentityFacts ==
    ASSUME IInv, DatabaseTypeOK', Observe, NEW r \in Slots, request[r].phase = "guards"
    PROVE  LET identity == Identity(r)
               owner == OwnerOf(request[r].bearer)
           IN  /\ identity.user \in Users \cup {NoUser} /\ identity.level \in PermissionLevels
               /\ identity.level <= seen'[r].level
               /\ identity.user # NoUser => identity.user = owner
               /\ identity.level >= USER => identity.user # NoUser
<1>. DEFINE R == request[r]
            b == R.bearer
<1>1. /\ IsServing(r) /\ R \in RequestRecords /\ seen'[r].level \in Int
      /\ IsGood(R, seen'[r], OwnerOf(b), clock) /\ seen'[r].level >= Moment(r).level
    <2>1. IsServing(r)
        BY DEF IsServing
    <2>. QED
        BY <2>1, BeforeStep
<1>2. CASE R.user # NoUser
    BY <1>1, <1>2 DEF Identity, IsGood, IsOfItsBearer, RequestRecords
<1>3. CASE R.user = NoUser
    <2>1. Identity(r) = [user |-> IF LevelAt(b, clock) = NoAccount THEN NoUser ELSE OwnerOf(b),
                         level |-> LevelAt(b, clock)]
        BY <1>3 DEF Identity
    <2>2. Moment(r).level = LevelAt(b, clock)
        BY DEF Moment
    <2>3. LevelAt(b, clock) \in PermissionLevels
        BY MomentsAreSightings DEF IInv, MomentTypeOK
    <2>4. LevelAt(b, clock) # NoAccount => OwnerOf(b) \in Users /\ OwnerOf(b) # NoUser
        BY DEF LevelAt, IsLiveAt, IsIssued, OwnerOf, IInv, DatabaseTypeOK
    <2>5. LevelAt(b, clock) >= USER => LevelAt(b, clock) # NoAccount
        BY DEF USER, NoAccount
    <2>6. LevelAt(b, clock) <= seen'[r].level
        BY <1>1, <2>2, <2>3, LevelsAreOrdered
    <2>. HIDE DEF R, b
    <2>. QED
        BY <2>1, <2>3, <2>4, <2>5, <2>6 DEF b, R
<1>. QED
    BY <1>2, <1>3

LEMMA GuardIsServed ==
    ASSUME NEW r, NEW guards, IsAt(r, guards)
    PROVE  IsServing(r) /\ request[r].phase = "guards" /\ Head(request[r].guards) \in guards
BY DEF IsAt, IsServing

LEMMA RequireStep ==
    ASSUME IInv, Observe, NEW r \in Slots, request[r].phase = "guards",
           NEW level \in {USER, ADMIN, SUPERADMIN}, Require(r, level),
           Head(request[r].guards) \in {"auth", "optional_auth", "admin", "superadmin"},
           Required(request[r]) = level
    PROVE  IInv'
<1>. DEFINE R == request[r]
            identity == Identity(r)
<1>1. IsServing(r)
    BY DEF IsServing
<1>2. CASE identity.level >= level
    <2>1. Pass(r, identity.user, identity.level)
        BY <1>2 DEF Require
    <2>2. DatabaseTypeOK'
        BY <2>1, QuietDatabase DEF Pass
    <2>3. /\ IsGood(R, seen'[r], OwnerOf(R.bearer), clock) /\ seen'[r].level \in Int
        BY <1>1, <2>2, BeforeStep
    <2>4. /\ identity.user \in Users \cup {NoUser} /\ identity.level \in PermissionLevels
          /\ identity.level <= seen'[r].level
          /\ identity.user # NoUser => identity.user = OwnerOf(R.bearer)
          /\ identity.level >= USER => identity.user # NoUser
        BY <2>2, IdentityFacts
    <2>5. /\ Tail(R.guards) \in Seq(Plain) /\ OpOf(R) \notin OnTokens
        BY <2>3, AtLeadGuard, PlainOrNot
    <2>6. identity.level \in Int /\ level \in Int /\ level >= USER /\ USER \in Int
        <3>1. identity.level \in Int
            BY <2>4, LevelsAreOrdered
        <3>2. level \in Int /\ level >= USER /\ USER \in Int
            BY DEF USER, ADMIN, SUPERADMIN
        <3>. QED
            BY <3>1, <3>2
    <2>7. seen'[r].level >= Required(R) /\ identity.user # NoUser
        BY <1>2, <2>3, <2>4, <2>6
    <2>. HIDE DEF identity
    <2>. QED
        BY <1>1, <2>1, <2>4, <2>5, <2>7, PassStep, OfRequest
<1>3. CASE ~ identity.level >= level
    BY <1>1, <1>3, RefusalStep DEF Require, Refusals
<1>. QED
    BY <1>2, <1>3

\* A guard that lets a request go on as it is, once it has been identified.
LEMMA UnchangedStep ==
    ASSUME IInv, Observe, NEW r \in Slots, request[r].phase = "guards", PassUnchanged(r),
           Tail(request[r].guards) \in Seq(Plain),
           IsIdentified(request[r], seen'[r], OwnerOf(request[r].bearer)),
           Op(r) \in OnTokens => Tail(request[r].guards) = <<>>
    PROVE  IInv'
<1>. DEFINE R == request[r]
<1>1. IsServing(r) /\ Pass(r, R.user, R.level)
    BY DEF IsServing, PassUnchanged
<1>2. DatabaseTypeOK'
    BY <1>1, QuietDatabase DEF Pass
<1>3. /\ IsGood(R, seen'[r], OwnerOf(R.bearer), clock) /\ R \in RequestRecords
    BY <1>1, <1>2, BeforeStep
<1>4. R.user \in Users \cup {NoUser} /\ R.level \in PermissionLevels
    BY <1>3 DEF RequestRecords
<1>5. (R.user # NoUser => R.user = OwnerOf(R.bearer)) /\ R.level <= seen'[r].level
    BY <1>3 DEF IsGood, IsOfItsBearer
<1>. HIDE DEF R
<1>. QED
    BY <1>1, <1>4, <1>5, PassStep, OfRequest DEF IsIdentified, R

\* A guard that does not ask who sends the request: the answer of another one than 401 is
\* to a request that has been identified.
LEMMA PlainStep ==
    ASSUME IInv, Observe, NEW r \in Slots, IsAt(r, Plain),
           \/ PassUnchanged(r)
           \/ \E status \in {400, 404} : Answer(r, status)
    PROVE  IInv'
<1>. DEFINE R == request[r]
<1>1. IsServing(r) /\ R.phase = "guards" /\ Head(R.guards) \in Plain
    BY GuardIsServed
<1>2. DatabaseTypeOK'
    BY QuietDatabase DEF PassUnchanged, Pass, Answer
<1>3. IsGood(R, seen'[r], OwnerOf(R.bearer), clock)
    BY <1>1, <1>2, BeforeStep
<1>4. /\ IsIdentified(R, seen'[r], OwnerOf(R.bearer)) /\ OpOf(R) \notin OnTokens
      /\ Tail(R.guards) \in Seq(Plain)
    BY <1>1, <1>3, AtPlainGuard
<1>5. CASE PassUnchanged(r)
    BY <1>1, <1>4, <1>5, UnchangedStep, OfRequest
<1>6. ASSUME NEW status \in {400, 404}, Answer(r, status)
      PROVE  IInv'
    <2>1. status \in Nat /\ status # 200 /\ seen'[r].level >= RequiredLevel(r)
        BY <1>4, OfRequest DEF IsIdentified
    <2>. QED
        BY <1>1, <1>6, <2>1, AnswerStep
<1>. QED
    BY <1>5, <1>6

LEMMA GuardStep == ASSUME IInv, Observe, NEW r \in Slots, Guard(r) PROVE IInv'
<1>. DEFINE R == request[r]
<1>1. ASSUME R.phase = "guards", Head(R.guards) \notin Plain, UNCHANGED <<database, logged_out>>
      PROVE  /\ IsServing(r) /\ seen'[r].level \in Int /\ R \in RequestRecords
             /\ IsGood(R, seen'[r], OwnerOf(R.bearer), clock)
             /\ Tail(R.guards) \in Seq(Plain)
             /\ OpOf(R) \in {"submit", "get_source"} => Head(R.guards) = "auth"
             /\ OpOf(R) \in OnTokens => Head(R.guards) = "bearer" /\ Tail(R.guards) = <<>>
             /\ \/ Head(R.guards) = "superadmin" /\ Required(R) = SUPERADMIN
                \/ Head(R.guards) = "admin" /\ Required(R) = ADMIN
                \/ Head(R.guards) = "auth" /\ Required(R) = USER
                \/ /\ Head(R.guards) = "optional_auth"
                   /\ Required(R) = IF R.bearer # "none" THEN USER ELSE NoAccount
                \/ Head(R.guards) = "bearer" /\ OpOf(R) \in OnTokens
    <2>1. IsServing(r)
        BY <1>1 DEF IsServing
    <2>2. /\ seen'[r].level \in Int /\ IsGood(R, seen'[r], OwnerOf(R.bearer), clock)
          /\ R \in RequestRecords
        BY <1>1, <2>1, QuietDatabase, BeforeStep
    <2>. QED
        BY <1>1, <2>1, <2>2, AtLeadGuard
<1>2. CASE ParseBearer(r)
    <2>1. R.phase = "guards" /\ Head(R.guards) = "bearer" /\ IsServing(r)
        BY <1>2, GuardIsServed DEF ParseBearer
    <2>2. CASE R.bearer \in Tokens /\ PassUnchanged(r)
        <3>1. UNCHANGED <<database, logged_out>>
            BY <2>2 DEF PassUnchanged, Pass
        <3>2. /\ Tail(R.guards) \in Seq(Plain) /\ Tail(R.guards) = <<>>
              /\ OpOf(R) \in OnTokens /\ OpOf(R) \notin {"submit", "get_source"}
            BY <1>1, <2>1, <3>1, PlainOrNot
        <3>3. IsIdentified(R, seen'[r], OwnerOf(R.bearer))
            BY <2>2, <3>2 DEF IsIdentified
        <3>. QED
            BY <2>1, <2>2, <3>2, <3>3, UnchangedStep
    <2>3. CASE Answer(r, 401)
        BY <2>1, <2>3, RefusalStep DEF Refusals
    <2>. QED
        BY <1>2, <2>2, <2>3 DEF ParseBearer
<1>3. ASSUME NEW level \in {USER, ADMIN, SUPERADMIN}, Require(r, level), R.phase = "guards",
             \/ Head(R.guards) = "auth" /\ level = USER
             \/ Head(R.guards) = "optional_auth" /\ level = USER /\ R.bearer # "none"
             \/ Head(R.guards) = "admin" /\ level = ADMIN
             \/ Head(R.guards) = "superadmin" /\ level = SUPERADMIN
      PROVE  IInv'
    <2>1. UNCHANGED <<database, logged_out>>
        BY <1>3 DEF Require, Pass, Answer
    <2>2. Required(R) = level
        BY <1>1, <1>3, <2>1, PlainOrNot
    <2>. QED
        BY <1>3, <2>2, RequireStep
<1>4. CASE RequireAuth(r)
    BY <1>3, <1>4, GuardIsServed DEF RequireAuth
<1>5. CASE RequireAdmin(r)
    BY <1>3, <1>5, GuardIsServed DEF RequireAdmin
<1>6. CASE RequireSuperadmin(r)
    BY <1>3, <1>6, GuardIsServed DEF RequireSuperadmin
<1>7. CASE RequireOptionalAuth(r)
    <2>1. R.phase = "guards" /\ Head(R.guards) = "optional_auth"
        BY <1>7, GuardIsServed DEF RequireOptionalAuth
    <2>2. CASE R.bearer = "none" /\ PassUnchanged(r)
        <3>1. UNCHANGED <<database, logged_out>>
            BY <2>2 DEF PassUnchanged, Pass
        <3>2. /\ Tail(R.guards) \in Seq(Plain) /\ Required(R) = NoAccount
              /\ OpOf(R) \notin OnTokens \cup {"submit", "get_source"}
              /\ IsGood(R, seen'[r], OwnerOf(R.bearer), clock)
            BY <1>1, <2>1, <2>2, <3>1, PlainOrNot
        <3>3. seen'[r].level >= NoAccount
            BY <3>2, LevelsAreOrdered DEF IsGood, Sightings
        <3>4. IsIdentified(R, seen'[r], OwnerOf(R.bearer))
            BY <3>2, <3>3 DEF IsIdentified
        <3>. QED
            BY <2>1, <2>2, <3>2, <3>4, UnchangedStep, OfRequest
    <2>3. CASE R.bearer # "none" /\ Require(r, USER)
        BY <1>3, <2>1, <2>3
    <2>. QED
        BY <1>7, <2>2, <2>3 DEF RequireOptionalAuth
<1>8. CASE RequireProblem(r)
    BY <1>8, PlainStep DEF RequireProblem, IsAt, Plain
<1>9. CASE RequireUser(r)
    BY <1>9, PlainStep DEF RequireUser, IsAt, Plain
<1>10. CASE ParseRequest(r)
    BY <1>10, PlainStep DEF ParseRequest, IsAt, Plain
<1>. QED
    BY <1>2, <1>4, <1>5, <1>6, <1>7, <1>8, <1>9, <1>10 DEF Guard

-----------------------------------------------------------------------------
(* Operations                                                              *)

Accounts == [Users -> [level : PermissionLevels, banned_until : Nat]]
TokenRows == [owner : Users \cup {NoUser}, revoked : BOOLEAN, expires : Nat]

LEMMA Executing ==
    ASSUME IInv, DatabaseTypeOK', Observe, NEW r \in Slots, request[r].phase = "execute"
    PROVE  /\ IsServing(r) /\ request[r] \in RequestRecords
           /\ IsIdentified(request[r], seen'[r], OwnerOf(request[r].bearer))
           /\ Op(r) = "submit" => seen'[r].unbanned
           /\ seen'[r].level \in Int /\ seen'[r].level >= Moment(r).level
           /\ IsGood(request[r], seen'[r], OwnerOf(request[r].bearer), clock)
<1>1. IsServing(r)
    BY DEF IsServing
<1>. QED
    BY <1>1, BeforeStep, OfRequest DEF IsGood, HasComeSoFar

LEMMA CommitStep ==
    ASSUME IInv, DatabaseTypeOK', OwnersHaveAccounts', LoggedOutAreRevoked',
           SubmissionsHaveTheirProblem', Observe, clock' = clock, TokensAreKept,
           NEW r \in Slots, request[r].phase = "execute", Committed(r),
           seen'[r].level >= Required(request[r]), Op(r) # "get_source"
    PROVE  IInv'
<1>1. PICK status \in {Endpoint[request[r].endpoint].ok, 500} :
        request' = [request EXCEPT ![r] =
                        [AnsweredFrom(request[r], status) EXCEPT !.applied = TRUE]]
    BY DEF Committed, Answered, AnsweredFrom
<1>2. /\ IsServing(r) /\ request[r] \in RequestRecords /\ clock \in Nat
      /\ Op(r) = "submit" => seen'[r].unbanned
      /\ IsGood(request[r], seen'[r], OwnerOf(request[r].bearer), clock)
    BY Executing DEF IInv, DatabaseTypeOK
<1>3. status \in Nat
    BY <1>2, EndpointFacts DEF Fits, RequestRecords
<1>. DEFINE N == [AnsweredFrom(request[r], status) EXCEPT !.applied = TRUE]
<1>4. IsGood(N, seen'[r], OwnerOf(request[r].bearer), clock)
    BY <1>2, <1>3, CommitIsGood, OfRequest
<1>5. N.bearer = request[r].bearer
    BY <1>2, BearerStays
<1>6. request' = [request EXCEPT ![r] = N]
    BY <1>1
<1>. HIDE DEF N
<1>. QED
    BY <1>2, <1>4, <1>5, <1>6, ServingStep

\* An operation that changes no token and keeps the accounts of those who have one.
LEMMA AccountStep ==
    ASSUME IInv, Observe, UNCHANGED <<clock, token, problem, submitted, logged_out>>,
           account' \in Accounts,
           \A u \in Users : account[u].level >= USER => account'[u].level >= USER,
           NEW r \in Slots, request[r].phase = "execute", Committed(r),
           Op(r) \notin OnTokens, Op(r) # "get_source"
    PROVE  IInv'
<1>1. DatabaseTypeOK' /\ SubmissionsHaveTheirProblem' /\ LoggedOutAreRevoked' /\ TokensAreKept
    BY DEF IInv, DatabaseTypeOK, Accounts, SubmissionsHaveTheirProblem, LoggedOutAreRevoked,
           IsIssued, TokensAreKept
<1>2. OwnersHaveAccounts'
    BY DEF IInv, OwnersHaveAccounts, IsIssued, DatabaseTypeOK
<1>3. seen'[r].level >= Required(request[r])
    BY <1>1, Executing, OfRequest DEF IsIdentified
<1>. QED
    BY <1>1, <1>2, <1>3, CommitStep

LEMMA SetPermissionStep == ASSUME IInv, Observe, NEW r \in Slots, SetPermission(r) PROVE IInv'
<1>. DEFINE level == IF Op(r) = "promote" THEN ADMIN ELSE USER
<1>1. account \in Accounts /\ level \in PermissionLevels /\ level >= USER
    BY LevelsAreOrdered DEF IInv, DatabaseTypeOK, Accounts, USER, ADMIN
<1>2. account' = [account EXCEPT ![request[r].subject].level = level]
    BY DEF SetPermission
<1>. HIDE DEF level
<1>3. /\ account' \in Accounts
      /\ \A u \in Users : account'[u].level = IF u = request[r].subject THEN level ELSE account[u].level
    BY <1>1, <1>2 DEF Accounts
<1>4. /\ request[r].phase = "execute" /\ Op(r) \notin OnTokens /\ Op(r) # "get_source"
      /\ Committed(r) /\ UNCHANGED <<clock, token, problem, submitted, logged_out>>
    BY DEF SetPermission, Executes, OnTokens
<1>. QED
    BY <1>1, <1>3, <1>4, AccountStep

LEMMA SetBanStep ==
    ASSUME IInv, Observe, NEW r \in Slots, SetBan(r) PROVE IInv'
<1>. DEFINE time == IF Op(r) = "ban" THEN request[r].now + BanLength ELSE 0
<1>1. account \in Accounts /\ time \in Nat
    BY TimesAssumption DEF IInv, DatabaseTypeOK, Accounts, RequestsAreGood, RequestRecords
<1>2. account' = [account EXCEPT ![request[r].subject].banned_until = time]
    BY DEF SetBan
<1>. HIDE DEF time
<1>3. account' \in Accounts /\ \A u \in Users : account'[u].level = account[u].level
    BY <1>1, <1>2 DEF Accounts
<1>4. /\ request[r].phase = "execute" /\ Op(r) \notin OnTokens /\ Op(r) # "get_source"
      /\ Committed(r) /\ UNCHANGED <<clock, token, problem, submitted, logged_out>>
    BY DEF SetBan, Executes, OnTokens
<1>. QED
    BY <1>3, <1>4, AccountStep

\* A fresh token for somebody with an account.
LEMMA IssueStep ==
    ASSUME IInv, Observe, NEW r \in Slots, request[r].phase = "execute", Committed(r),
           NEW u \in Users \cup {NoUser}, Issue(u, request[r].now),
           UNCHANGED <<clock, problem, submitted, logged_out>>,
           account' \in Accounts, u \in Users => account'[u].level >= USER,
           \A v \in Users : account[v].level >= USER => account'[v].level >= USER,
           Op(r) \notin OnTokens, Op(r) # "get_source"
    PROVE  IInv'
<1>1. token \in [Tokens -> TokenRows] /\ request[r].now \in Nat
    BY DEF IInv, DatabaseTypeOK, TokenRows, RequestsAreGood, RequestRecords
<1>. DEFINE row == [owner |-> u, revoked |-> FALSE, expires |-> request[r].now + TokenTtl]
<1>2. PICK t \in Tokens : ~ IsIssued(t) /\ token' = [token EXCEPT ![t] = row]
    BY DEF Issue
<1>3. row \in TokenRows /\ row.owner = u
    BY <1>1, TimesAssumption DEF TokenRows
<1>. HIDE DEF row
<1>4. token' \in [Tokens -> TokenRows]
    BY <1>1, <1>2, <1>3
<1>5. token'[t].owner = u /\ \A x \in Tokens \ {t} : token'[x] = token[x]
    BY <1>1, <1>2, <1>3
<1>6. TokensAreKept
    BY <1>2, <1>5 DEF TokensAreKept
<1>7. DatabaseTypeOK' /\ SubmissionsHaveTheirProblem'
    BY <1>4 DEF IInv, DatabaseTypeOK, Accounts, TokenRows, SubmissionsHaveTheirProblem
<1>8. LoggedOutAreRevoked'
    BY <1>2, <1>5 DEF IInv, LoggedOutAreRevoked, IsIssued
<1>9. OwnersHaveAccounts'
    <2>. SUFFICES ASSUME NEW x \in Tokens, token'[x].owner # NoUser
                  PROVE  account'[token'[x].owner].level >= USER
        BY DEF OwnersHaveAccounts, IsIssued
    <2>1. CASE x = t
        BY <1>5, <2>1
    <2>2. CASE x # t
        BY <1>1, <1>5, <2>2 DEF IInv, OwnersHaveAccounts, IsIssued, TokenRows
    <2>. QED
        BY <2>1, <2>2
<1>10. seen'[r].level >= Required(request[r])
    BY <1>7, Executing, OfRequest DEF IsIdentified
<1>. QED
    BY <1>6, <1>7, <1>8, <1>9, <1>10, CommitStep

LEMMA SignUpStep == ASSUME IInv, Observe, NEW r \in Slots, SignUp(r) PROVE IInv'
<1>. DEFINE u == request[r].subject
<1>1. /\ request[r].phase = "execute" /\ Op(r) \notin OnTokens /\ Op(r) # "get_source"
      /\ account \in Accounts /\ u \in Users \cup {NoUser} /\ IsServing(r)
    BY DEF SignUp, Executes, OnTokens, IsServing, IInv, DatabaseTypeOK, Accounts, RequestsAreGood,
           RequestRecords
<1>2. ASSUME account[u].level # NoAccount, Answer(r, 409)
      PROVE  IInv'
    <2>1. IsIdentified(request[r], seen'[r], OwnerOf(request[r].bearer))
        BY <1>1, <1>2, QuietDatabase, Executing DEF Answer
    <2>. QED
        BY <1>1, <1>2, <2>1, AnswerStep, OfRequest DEF IsIdentified
<1>3. ASSUME account[u].level = NoAccount, account' = [account EXCEPT ![u].level = USER],
             Issue(u, request[r].now), Committed(r),
             UNCHANGED <<clock, problem, submitted, logged_out>>
      PROVE  IInv'
    <2>1. USER \in PermissionLevels /\ USER >= USER
        BY DEF PermissionLevels, USER
    <2>2. /\ account' \in Accounts
          /\ \A v \in Users : account'[v].level = IF v = u THEN USER ELSE account[v].level
        BY <1>1, <1>3, <2>1 DEF Accounts
    <2>. HIDE DEF u
    <2>3. /\ u \in Users => account'[u].level >= USER
          /\ \A v \in Users : account[v].level >= USER => account'[v].level >= USER
        BY <2>1, <2>2
    <2>. QED
        BY <1>1, <1>3, <2>2, <2>3, IssueStep
<1>. QED
    BY <1>2, <1>3 DEF SignUp

LEMMA LoginStep == ASSUME IInv, Observe, NEW r \in Slots, Login(r) PROVE IInv'
<1>. DEFINE u == request[r].subject
<1>1. /\ request[r].phase = "execute" /\ Op(r) \notin OnTokens /\ Op(r) # "get_source"
      /\ account \in Accounts /\ u \in Users \cup {NoUser} /\ IsServing(r)
    BY DEF Login, Executes, OnTokens, IsServing, IInv, DatabaseTypeOK, Accounts, RequestsAreGood,
           RequestRecords
<1>2. CASE Answer(r, 401)
    BY <1>1, <1>2, RefusalStep DEF Refusals
<1>3. ASSUME account[u].level # NoAccount, Issue(u, request[r].now), Committed(r),
             UNCHANGED <<clock, account, problem, submitted, logged_out>>
      PROVE  IInv'
    <2>1. u \in Users => account'[u].level >= USER
        BY <1>1, <1>3, LevelsAreOrdered DEF Accounts
    <2>. HIDE DEF u
    <2>. QED
        BY <1>1, <1>3, <2>1, IssueStep
<1>. QED
    BY <1>2, <1>3 DEF Login

\* An operation on the token of a request, which is live when its transaction begins.
LEMMA TokenStep ==
    ASSUME IInv, Observe, NEW r \in Slots, request[r].phase = "execute", Committed(r),
           Op(r) \in OnTokens, IsLiveAt(request[r].bearer, request[r].now),
           token' \in [Tokens -> TokenRows],
           \A x \in Tokens : /\ token'[x].owner = token[x].owner
                             /\ token[x].revoked => token'[x].revoked,
           UNCHANGED <<clock, account, problem, submitted>>,
           logged_out' \subseteq logged_out \cup {request[r].bearer},
           logged_out' # logged_out => token'[request[r].bearer].revoked
    PROVE  IInv'
<1>. DEFINE R == request[r]
            b == R.bearer
<1>1. DatabaseTypeOK' /\ SubmissionsHaveTheirProblem' /\ TokensAreKept
    BY DEF IInv, DatabaseTypeOK, TokenRows, SubmissionsHaveTheirProblem, TokensAreKept
<1>2. OwnersHaveAccounts'
    BY DEF IInv, OwnersHaveAccounts, IsIssued
<1>3. /\ OpOf(R) \in OnTokens /\ b \in Tokens /\ R \in RequestRecords
      /\ seen'[r].level \in Int /\ seen'[r].level >= Moment(r).level
    BY <1>1, Executing, OfRequest DEF IsIdentified
<1>4. LoggedOutAreRevoked'
    BY <1>3 DEF IInv, LoggedOutAreRevoked, IsIssued, IsLiveAt
<1>5. Moment(r).level = account[token[b].owner].level
    BY <1>3 DEF Moment, LevelAt
<1>6. account[token[b].owner].level >= USER /\ account[token[b].owner].level \in Int
    <2>1. token[b].owner \in Users
        BY <1>3 DEF IsLiveAt, IsIssued, IInv, DatabaseTypeOK
    <2>2. account[token[b].owner].level >= USER
        BY <1>3 DEF IsLiveAt, IInv, OwnersHaveAccounts
    <2>. QED
        BY <2>1, <2>2, LevelsAreOrdered DEF IInv, DatabaseTypeOK
<1>7. Required(R) = USER /\ USER \in Int
    BY <1>3, TokenOperations DEF USER, RequestRecords
<1>8. seen'[r].level >= Required(R)
    BY <1>3, <1>5, <1>6, <1>7
<1>9. Op(r) # "get_source"
    BY DEF OnTokens
<1>. QED
    BY <1>1, <1>2, <1>4, <1>8, <1>9, CommitStep

LEMMA RenewTokenStep == ASSUME IInv, Observe, NEW r \in Slots, RenewToken(r) PROVE IInv'
<1>. DEFINE b == request[r].bearer
            time == request[r].now + TokenTtl
<1>1. /\ request[r].phase = "execute" /\ Op(r) \in OnTokens /\ IsServing(r)
      /\ token \in [Tokens -> TokenRows] /\ time \in Nat
    BY TimesAssumption
    DEF RenewToken, Executes, OnTokens, IsServing, IInv, DatabaseTypeOK, TokenRows,
        RequestsAreGood, RequestRecords
<1>2. CASE Answer(r, 401)
    BY <1>1, <1>2, RefusalStep DEF Refusals
<1>3. ASSUME IsLiveAt(b, request[r].now), token' = [token EXCEPT ![b].expires = time],
             Committed(r), UNCHANGED <<clock, account, problem, submitted, logged_out>>
      PROVE  IInv'
    <2>1. /\ token' \in [Tokens -> TokenRows]
          /\ \A x \in Tokens : /\ token'[x].owner = token[x].owner
                               /\ token'[x].revoked = token[x].revoked
        BY <1>1, <1>3 DEF TokenRows
    <2>. HIDE DEF time
    <2>. QED
        BY <1>1, <1>3, <2>1, TokenStep
<1>. QED
    BY <1>2, <1>3 DEF RenewToken

LEMMA RevokeTokenStep ==
    ASSUME IInv, Observe, NEW r \in Slots, RevokeToken(r) PROVE IInv'
<1>. DEFINE b == request[r].bearer
<1>1. /\ request[r].phase = "execute" /\ Op(r) \in OnTokens /\ IsServing(r)
      /\ token \in [Tokens -> TokenRows]
    BY DEF RevokeToken, Executes, OnTokens, IsServing, IInv, DatabaseTypeOK, TokenRows
<1>2. CASE Answer(r, 401)
    BY <1>1, <1>2, RefusalStep DEF Refusals
<1>3. ASSUME IsLiveAt(b, request[r].now), token' = [token EXCEPT ![b].revoked = TRUE],
             Committed(r), logged_out' \in {logged_out, logged_out \cup {b}},
             UNCHANGED <<clock, account, problem, submitted>>
      PROVE  IInv'
    <2>1. /\ token' \in [Tokens -> TokenRows]
          /\ \A x \in Tokens : /\ token'[x].owner = token[x].owner
                               /\ token[x].revoked => token'[x].revoked
        BY <1>1, <1>3 DEF TokenRows
    <2>2. DatabaseTypeOK'
        BY <1>3, <2>1 DEF IInv, DatabaseTypeOK, TokenRows
    <2>3. b \in Tokens
        BY <1>1, <2>2, Executing, OfRequest DEF IsIdentified
    <2>4. token'[b].revoked
        BY <1>1, <1>3, <2>3 DEF TokenRows
    <2>5. logged_out' \subseteq logged_out \cup {b}
        BY <1>3
    <2>. QED
        BY <1>1, <1>3, <2>1, <2>4, <2>5, TokenStep
<1>. QED
    BY <1>2, <1>3 DEF RevokeToken, Revoked

LEMMA PhaseStep ==
    ASSUME IInv, Observe, UNCHANGED <<database, logged_out>>, NEW r \in Slots,
           request[r].phase \in {"begin", "check", "execute"},
           NEW phase \in {"begin", "check", "execute"}, NEW now \in Nat, now <= clock,
           request' = [request EXCEPT ![r] = [request[r] EXCEPT !.phase = phase, !.now = now]],
           phase = "check" => Op(r) = "submit",
           phase = "execute" /\ Op(r) = "submit" => seen'[r].unbanned
    PROVE  IInv'
<1>. DEFINE N == [request[r] EXCEPT !.phase = phase, !.now = now]
<1>1. DatabaseTypeOK' /\ IsServing(r)
    BY QuietDatabase DEF IsServing
<1>2. /\ IsGood(request[r], seen'[r], OwnerOf(request[r].bearer), clock) /\ clock \in Nat
      /\ request[r] \in RequestRecords
    BY <1>1, BeforeStep
<1>3. IsGood(N, seen'[r], OwnerOf(request[r].bearer), clock)
    BY <1>2, PhaseIsGood, OfRequest
<1>4. N.bearer = request[r].bearer
    BY <1>2 DEF RequestRecords
<1>5. request' = [request EXCEPT ![r] = N]
    OBVIOUS
<1>. HIDE DEF N
<1>. QED
    BY <1>1, <1>3, <1>4, <1>5, QuietStep

LEMMA BeginStep == ASSUME IInv, Observe, NEW r \in Slots, Begin(r) PROVE IInv'
<1>. DEFINE phase == IF Op(r) = "submit" THEN "check" ELSE "execute"
<1>1. /\ request \in [Slots -> RequestRecords] /\ clock \in Nat /\ clock <= clock
    BY DEF IInv, RequestsAreGood, DatabaseTypeOK
<1>2. request' = [request EXCEPT ![r] = [request[r] EXCEPT !.phase = phase, !.now = clock]]
    BY <1>1 DEF Begin, RequestRecords
<1>3. /\ phase \in {"begin", "check", "execute"} /\ request[r].phase \in {"begin", "check", "execute"}
      /\ phase = "check" => Op(r) = "submit"
      /\ phase = "execute" => Op(r) # "submit"
      /\ UNCHANGED <<database, logged_out>>
    BY DEF Begin
<1>. HIDE DEF phase
<1>. QED
    BY <1>1, <1>2, <1>3, PhaseStep

LEMMA RetryStep == ASSUME IInv, Observe, NEW r \in Slots, Retry(r) PROVE IInv'
<1>1. /\ request \in [Slots -> RequestRecords] /\ clock \in Nat /\ 0 <= clock
    BY DEF IInv, RequestsAreGood, DatabaseTypeOK
<1>2. request' = [request EXCEPT ![r] = [request[r] EXCEPT !.phase = "begin", !.now = 0]]
    BY <1>1 DEF Retry, RequestRecords
<1>3. request[r].phase \in {"begin", "check", "execute"} /\ UNCHANGED <<database, logged_out>>
    BY DEF Retry
<1>. QED
    BY <1>1, <1>2, <1>3, PhaseStep

\* Who passes the check of a ban is free to submit at this moment.
LEMMA CheckBanStep == ASSUME IInv, Observe, NEW r \in Slots, CheckBan(r) PROVE IInv'
<1>. DEFINE R == request[r]
            owner == OwnerOf(R.bearer)
<1>1. UNCHANGED <<database, logged_out>> /\ R.phase = "check" /\ IsServing(r)
    BY DEF CheckBan, Answer, IsServing
<1>2. DatabaseTypeOK'
    BY <1>1, QuietDatabase
<1>3. /\ request \in [Slots -> RequestRecords] /\ clock \in Nat
      /\ IsGood(R, seen'[r], owner, clock) /\ R \in RequestRecords
      /\ Moment(r).unbanned => seen'[r].unbanned
    BY <1>1, <1>2, BeforeStep
<1>4. /\ Op(r) = "submit" /\ IsIdentified(R, seen'[r], owner) /\ R.now <= clock
    BY <1>1, <1>3, OfRequest DEF IsGood, HasComeSoFar
<1>5. R.user = owner /\ owner # NoUser /\ owner \in Users /\ seen'[r].level >= RequiredLevel(r)
    BY <1>3, <1>4, OfRequest DEF IsIdentified, RequestRecords, OnTokens
<1>6. CASE Answer(r, 403)
    BY <1>1, <1>4, <1>5, <1>6, AnswerStep
<1>7. CASE ~ IsBanned(R.user, R.now) /\ request' = [request EXCEPT ![r].phase = "execute"]
    <2>1. account[owner].banned_until \in Nat /\ R.now \in Nat
        BY <1>3, <1>5 DEF IInv, DatabaseTypeOK, RequestRecords
    <2>2. account[owner].banned_until <= clock
        BY <1>3, <1>4, <1>5, <1>7, <2>1 DEF IsBanned
    <2>3. seen'[r].unbanned
        BY <1>3, <1>5, <2>2 DEF Moment
    <2>4. request' = [request EXCEPT ![r] = [R EXCEPT !.phase = "execute", !.now = R.now]]
        BY <1>3, <1>7 DEF RequestRecords
    <2>. QED
        BY <1>1, <1>4, <2>1, <2>3, <2>4, PhaseStep
<1>. QED
    BY <1>6, <1>7 DEF CheckBan

\* The facts of an operation that asks for the permission of a bearer.
LEMMA ExecutingOther ==
    ASSUME IInv, DatabaseTypeOK', Observe, NEW r \in Slots, request[r].phase = "execute",
           Op(r) \notin OnTokens
    PROVE  /\ IsServing(r) /\ seen'[r].level >= RequiredLevel(r)
           /\ seen'[r].level >= Required(request[r])
           /\ Endpoint[request[r].endpoint].ok \in Nat /\ Endpoint[request[r].endpoint].gone \in Nat
<1>1. IsServing(r) /\ IsIdentified(request[r], seen'[r], OwnerOf(request[r].bearer))
      /\ request[r].endpoint \in DOMAIN Endpoint
    BY Executing DEF RequestRecords
<1>. QED
    BY <1>1, OfRequest, EndpointFacts DEF IsIdentified, Fits

LEMMA SubmitStep == ASSUME IInv, Observe, NEW r \in Slots, Submit(r) PROVE IInv'
<1>1. request[r].phase = "execute" /\ Op(r) = "submit" /\ Op(r) \notin OnTokens
    BY DEF Submit, Executes, OnTokens
<1>2. ASSUME Answer(r, Endpoint[request[r].endpoint].gone)
      PROVE  IInv'
    BY <1>1, <1>2, QuietDatabase, ExecutingOther, AnswerStep DEF Answer
<1>3. ASSUME problem, Committed(r), UNCHANGED <<clock, account, token, problem, logged_out>>
      PROVE  IInv'
    <2>1. DatabaseTypeOK' /\ SubmissionsHaveTheirProblem' /\ TokensAreKept
        BY <1>3 DEF IInv, DatabaseTypeOK, SubmissionsHaveTheirProblem, TokensAreKept
    <2>2. OwnersHaveAccounts' /\ LoggedOutAreRevoked'
        BY <1>3 DEF IInv, OwnersHaveAccounts, LoggedOutAreRevoked, IsIssued
    <2>3. seen'[r].level >= Required(request[r])
        BY <1>1, <2>1, ExecutingOther
    <2>. QED
        BY <1>1, <1>3, <2>1, <2>2, <2>3, CommitStep
<1>. QED
    BY <1>2, <1>3 DEF Submit

LEMMA DeleteProblemStep == ASSUME IInv, Observe, NEW r \in Slots, DeleteProblem(r) PROVE IInv'
<1>1. request[r].phase = "execute" /\ Op(r) = "delete_problem" /\ Op(r) \notin OnTokens
    BY DEF DeleteProblem, Executes, OnTokens
<1>2. ASSUME NEW status \in {Endpoint[request[r].endpoint].gone, 400}, Answer(r, status)
      PROVE  IInv'
    <2>1. /\ IsServing(r) /\ status \in Nat /\ seen'[r].level >= RequiredLevel(r)
        BY <1>1, <1>2, QuietDatabase, ExecutingOther DEF Answer
    <2>. QED
        BY <1>1, <1>2, <2>1, AnswerStep
<1>3. ASSUME ~ IsReferenced, problem' = FALSE, Committed(r),
             UNCHANGED <<clock, account, token, submitted, logged_out>>
      PROVE  IInv'
    <2>1. DatabaseTypeOK' /\ SubmissionsHaveTheirProblem' /\ TokensAreKept
        BY <1>3 DEF IInv, DatabaseTypeOK, SubmissionsHaveTheirProblem, TokensAreKept, IsReferenced
    <2>2. OwnersHaveAccounts' /\ LoggedOutAreRevoked'
        BY <1>3 DEF IInv, OwnersHaveAccounts, LoggedOutAreRevoked, IsIssued
    <2>3. seen'[r].level >= Required(request[r])
        BY <1>1, <2>1, ExecutingOther
    <2>. QED
        BY <1>1, <1>3, <2>1, <2>2, <2>3, CommitStep
<1>. QED
    BY <1>2, <1>3 DEF DeleteProblem

LEMMA GetSourceStep == ASSUME IInv, Observe, NEW r \in Slots, GetSource(r) PROVE IInv'
<1>. DEFINE R == request[r]
            owner == OwnerOf(R.bearer)
            status == IF R.subject \notin submitted THEN 404
                      ELSE IF MayReadSource(r) THEN 200 ELSE 403
<1>1. /\ R.phase = "execute" /\ Op(r) = "get_source" /\ Op(r) \notin OnTokens /\ Answer(r, status)
    BY DEF GetSource, Executes, OnTokens
<1>2. DatabaseTypeOK'
    BY <1>1, QuietDatabase DEF Answer
<1>3. IsServing(r) /\ seen'[r].level >= RequiredLevel(r)
    BY <1>1, <1>2, ExecutingOther
<1>4. /\ R \in RequestRecords /\ seen'[r].level \in Int /\ R.level <= seen'[r].level
      /\ R.user = owner
    BY <1>1, <1>2, Executing, OfRequest DEF IsGood, IsOfItsBearer, IsIdentified
<1>5. R.level \in Int /\ ADMIN \in Int
    BY <1>4, LevelsAreOrdered DEF RequestRecords
<1>6. status \in Nat /\ (status = 200 => seen'[r].level >= ADMIN \/ owner = R.subject)
    BY <1>4, <1>5 DEF MayReadSource
<1>. HIDE DEF status
<1>. QED
    BY <1>1, <1>3, <1>6, AnswerStep

LEMMA ServeOtherStep == ASSUME IInv, Observe, NEW r \in Slots, ServeOther(r) PROVE IInv'
<1>. DEFINE e == Endpoint[request[r].endpoint]
            status == IF e.op = "content" /\ ~ problem THEN e.gone ELSE e.ok
<1>1. /\ request[r].phase = "execute" /\ Op(r) \notin OnTokens /\ Op(r) # "get_source"
      /\ Answer(r, status)
    BY DEF ServeOther, Executes, OnTokens
<1>2. IsServing(r) /\ seen'[r].level >= RequiredLevel(r) /\ status \in Nat
    BY <1>1, QuietDatabase, ExecutingOther DEF Answer
<1>. HIDE DEF status
<1>. QED
    BY <1>1, <1>2, AnswerStep

LEMMA OperationStep ==
    ASSUME IInv, Observe, NEW r \in Slots, Operation(r) PROVE IInv'
BY BeginStep, RetryStep, SignUpStep, LoginStep, RenewTokenStep, RevokeTokenStep, SetPermissionStep,
   SetBanStep, CheckBanStep, SubmitStep, DeleteProblemStep, GetSourceStep, ServeOtherStep
   DEF Operation

LEMMA FailsStep == ASSUME IInv, Observe, NEW r \in Slots, Fails(r) PROVE IInv'
BY RefusalStep DEF Fails, Refusals

-----------------------------------------------------------------------------
(* The other steps, and the theorems                                       *)

\* A request that has just come in has done nothing yet.
LEMMA NewRequestIsGood ==
    ASSUME NEW r, NEW e \in DOMAIN Endpoint, NEW b \in Bearers, NEW s \in Users \cup {NoUser},
           NEW S \in Sightings, NEW owner, NEW time
    PROVE  /\ IsGood(NewRequest(r, e, b, s), S, owner, time)
           /\ NewRequest(r, e, b, s).bearer = b
           /\ NewRequest(r, e, b, s).phase \in {"guards", "begin"}
<1>. DEFINE guards == Endpoint[e].guards
            R == NewRequest(r, e, b, s)
<1>1. Fits(e, Endpoint[e])
    BY EndpointFacts
<1>2. guards \in Seq(AnyGuard)
    <2>1. Seq(Plain) \subseteq Seq(AnyGuard)
        BY DEF AnyGuard
    <2>2. <<"bearer">> \in Seq(AnyGuard)
        BY DEF AnyGuard
    <2>. QED
        BY <1>1, <2>1, <2>2 DEF Fits, LedBy
<1>3. /\ NoAccount \in PermissionLevels /\ S.level \in Int /\ NoAccount <= S.level
    BY LevelsAreOrdered DEF Sightings
<1>4. /\ R.phase = Begins(guards) /\ R.endpoint = e /\ R.bearer = b /\ R.subject = s
      /\ R.guards = guards /\ R.user = NoUser /\ R.level = NoAccount /\ R.now = 0
      /\ R.answer = 0 /\ R.applied = FALSE
    BY DEF NewRequest, NoRequest
<1>5. R \in RequestRecords
    <2>1. Begins(guards) \in Phases
        BY DEF Begins, Phases
    <2>. HIDE DEF guards
    <2>. QED
        BY <1>2, <1>3, <2>1, EmptySeq DEF NewRequest, NoRequest, RequestRecords, guards
<1>. HIDE DEF R, guards
<1>6. guards = <<>> => IsIdentified(R, S, owner)
    <2>. SUFFICES ASSUME guards = <<>>
                  PROVE  IsIdentified(R, S, owner)
        OBVIOUS
    <2>1. <<"bearer">> # <<>>
        OBVIOUS
    <2>2. /\ e \notin SuperadminOnly \cup AdminOnly \cup SignedInOnly \cup ForViewers
          /\ OpOf(R) \notin OnTokens \cup {"submit", "get_source"}
        BY <1>1, <1>4, <2>1 DEF Fits, LedBy, OpOf, guards
    <2>3. Required(R) = NoAccount
        BY <1>4, <2>2, RequiredOfKinds
    <2>. QED
        BY <1>3, <2>2, <2>3 DEF IsIdentified
<1>7. HasComeSoFar(R, S, owner)
    BY <1>4, <1>6 DEF HasComeSoFar, Begins, guards
<1>8. IsOfItsBearer(R, S, owner) /\ IsEntitled(R, S, owner)
    BY <1>3, <1>4 DEF IsOfItsBearer, IsEntitled, Refusals
<1>9. R.phase \in {"guards", "begin"} /\ R.bearer = b
    BY <1>4 DEF Begins
<1>10. IsGood(R, S, owner, time)
    BY <1>5, <1>7, <1>8, <1>9 DEF IsGood
<1>. QED
    BY <1>9, <1>10 DEF R

LEMMA ReceiveStep == ASSUME IInv, Observe, NEW r \in Slots, Receive(r) PROVE IInv'
<1>1. /\ clock' = clock /\ account' = account /\ token' = token /\ problem' = problem
      /\ submitted' = submitted /\ logged_out' = logged_out /\ ~ IsServing(r)
    BY DEF Receive, database
<1>2. PICK e, b, s :
        /\ e \in Served /\ b \in BearersFor(e)
        /\ s \in IF TakesUser(e) THEN Users ELSE {NoUser}
        /\ request' = [request EXCEPT ![r] = NewRequest(r, e, b, s)]
    BY Zenon DEF Receive
<1>3. /\ DatabaseTypeOK' /\ SubmissionsHaveTheirProblem' /\ TokensAreKept
      /\ OwnersHaveAccounts' /\ LoggedOutAreRevoked'
    BY <1>1 DEF IInv, DatabaseTypeOK, SubmissionsHaveTheirProblem, TokensAreKept,
                OwnersHaveAccounts, LoggedOutAreRevoked, IsIssued
<1>4. /\ e \in DOMAIN Endpoint /\ b \in Bearers /\ (b \in Tokens => IsIssued(b))
      /\ s \in Users \cup {NoUser}
    BY <1>2, ServedAssumption, NamesAssumption DEF BearersFor, Bearers
<1>5. /\ request \in [Slots -> RequestRecords] /\ seen \in [Slots -> Sightings]
      /\ clock \in Nat /\ clock' >= clock
    BY <1>1 DEF IInv, RequestsAreGood, DatabaseTypeOK
<1>6. seen'[r] \in Sightings
    BY <1>3, <1>5, ObservedGrows
<1>. DEFINE N == NewRequest(r, e, b, s)
<1>7. /\ IsGood(N, seen'[r], OwnerOf(request[r].bearer)', clock')
      /\ N.bearer = b
    BY <1>4, <1>6, NewRequestIsGood
<1>8. request' = [request EXCEPT ![r] = N] /\ N \in RequestRecords
    BY <1>2, <1>7 DEF IsGood
<1>. HIDE DEF N
<1>9. /\ request' \in [Slots -> RequestRecords] /\ request'[r] = N
      /\ \A q \in Slots \ {r} : request'[q] = request[q]
    BY <1>5, <1>8
<1>10. request'[r].bearer \in Tokens => IsIssued(request[r].bearer)'
    BY <1>1, <1>4, <1>7, <1>9 DEF IsIssued
<1>11. RequestsAreGood' /\ BearersAreIssued' /\ MomentsAreSeen'
    BY <1>3, <1>5, <1>7, <1>9, <1>10, OthersStayGood
<1>. QED
    BY <1>3, <1>11 DEF IInv

LEMMA TickStep == ASSUME IInv, Observe, Tick PROVE IInv'
<1>1. /\ clock' = clock + 1 /\ account' = account /\ token' = token /\ problem' = problem
      /\ submitted' = submitted /\ logged_out' = logged_out /\ request' = request
    BY DEF Tick
<1>2. clock \in Nat /\ clock' \in Nat /\ clock' >= clock
    BY <1>1 DEF IInv, DatabaseTypeOK
<1>3. /\ DatabaseTypeOK' /\ SubmissionsHaveTheirProblem' /\ TokensAreKept
      /\ OwnersHaveAccounts' /\ LoggedOutAreRevoked'
    BY <1>1, <1>2 DEF IInv, DatabaseTypeOK, SubmissionsHaveTheirProblem, TokensAreKept,
                OwnersHaveAccounts, LoggedOutAreRevoked, IsIssued
<1>4. seen \in [Slots -> Sightings] /\ request \in [Slots -> RequestRecords]
    BY DEF IInv, RequestsAreGood
<1>5. MomentsAreSeen'
    BY <1>3, <1>4, MomentsStaySeen
<1>6. BearersAreIssued'
    BY <1>1 DEF IInv, BearersAreIssued, IsIssued
<1>7. ASSUME NEW r \in Slots
      PROVE  /\ seen'[r] \in Sightings
             /\ IsGood(request[r], seen'[r], OwnerOf(request[r].bearer), clock')
    <2>1. /\ seen'[r] \in Sightings /\ seen[r] \in Sightings
          /\ seen[r].level \in Int /\ seen'[r].level >= seen[r].level
          /\ seen[r].unbanned => seen'[r].unbanned
        <3>1. seen[r] \in Sightings /\ seen[r].level \in Int
            BY <1>4, LevelsAreOrdered DEF Sightings
        <3>2. CASE IsServing(r)
            BY <1>3, <1>4, <3>1, <3>2, ObservedGrows
        <3>3. CASE ~ IsServing(r)
            BY <1>1, <1>3, <1>4, <3>1, <3>3, ObservedGrows
        <3>. QED
            BY <3>2, <3>3
    <2>2. IsGood(request[r], seen[r], OwnerOf(request[r].bearer), clock)
        BY DEF IInv, RequestsAreGood
    <2>. QED
        BY <1>2, <2>1, <2>2, GoodLasts
<1>8. seen' \in [Slots -> Sightings]
    BY <1>7 DEF Observe
<1>9. ASSUME NEW r \in Slots
      PROVE  IsGood(request'[r], seen'[r], OwnerOf(request[r].bearer)', clock')
    <2>1. OwnerOf(request[r].bearer)' = OwnerOf(request[r].bearer)
        BY <1>1 DEF OwnerOf
    <2>. QED
        BY <1>1, <1>7, <2>1
<1>10. RequestsAreGood'
    BY <1>1, <1>4, <1>8, <1>9 DEF RequestsAreGood
<1>. QED
    BY <1>3, <1>5, <1>6, <1>10 DEF IInv

LEMMA InitIsGood == ASSUME Init PROVE IInv
<1>1. /\ NoAccount \in PermissionLevels /\ NoAccount .. SUPERADMIN = PermissionLevels
    BY DEF PermissionLevels, NoAccount, USER, ADMIN, SUPERADMIN
<1>2. DatabaseTypeOK
    BY <1>1, FirstAssumption, TimesAssumption DEF DatabaseTypeOK, Init
<1>3. OwnersHaveAccounts
    <2>. SUFFICES ASSUME NEW t \in Tokens, FirstOwner[t] # NoUser
                  PROVE  FirstLevel[FirstOwner[t]] >= USER
        BY FirstAssumption, NamesAssumption DEF OwnersHaveAccounts, Init, IsIssued
    <2>1. FirstOwner[t] \in Users /\ FirstLevel[FirstOwner[t]] # NoAccount
        BY FirstAssumption
    <2>. QED
        BY <1>1, <2>1, LevelsAreOrdered, FirstAssumption
<1>4. "none" \in Bearers /\ "none" \notin Tokens
    BY NamesAssumption DEF Bearers
<1>5. NoRequest \in RequestRecords
    BY <1>1, <1>4, HealthIsAnEndpoint, EmptySeq DEF NoRequest, RequestRecords, Phases
<1>. DEFINE S == [level |-> NoAccount, unbanned |-> FALSE]
<1>6. IsGood(NoRequest, S, NoUser, 0)
    <2>1. S \in Sightings /\ S.level = NoAccount /\ NoAccount <= NoAccount
        BY <1>1 DEF Sightings, NoAccount
    <2>2. HasComeSoFar(NoRequest, S, NoUser)
        BY DEF HasComeSoFar, NoRequest
    <2>3. IsOfItsBearer(NoRequest, S, NoUser) /\ IsEntitled(NoRequest, S, NoUser)
        BY <2>1 DEF IsOfItsBearer, IsEntitled, NoRequest, Refusals
    <2>. QED
        BY <1>5, <2>1, <2>2, <2>3 DEF IsGood, NoRequest
<1>7. RequestsAreGood
    <2>1. S \in Sightings
        BY <1>1 DEF Sightings
    <2>2. OwnerOf(NoRequest.bearer) = NoUser
        BY <1>4 DEF OwnerOf, NoRequest
    <2>. QED
        BY <1>5, <1>6, <2>1, <2>2 DEF RequestsAreGood, Init
<1>8. BearersAreIssued /\ MomentsAreSeen
    BY <1>4 DEF BearersAreIssued, MomentsAreSeen, IsServing, Init, NoRequest
<1>9. LoggedOutAreRevoked /\ SubmissionsHaveTheirProblem
    BY DEF LoggedOutAreRevoked, SubmissionsHaveTheirProblem, Init
<1>. QED
    BY <1>2, <1>3, <1>7, <1>8, <1>9 DEF IInv

\* The invariant is inductive: no interleaving of requests, of the clock and of failures
\* leads out of it.
THEOREM RequestsStayGood == Spec => []IInv
<1>1. Init => IInv
    BY InitIsGood
<1>2. IInv /\ [Next]_vars => IInv'
    <2>. SUFFICES ASSUME IInv, [Next]_vars
                  PROVE  IInv'
        OBVIOUS
    <2>1. CASE Next
        <3>1. Observe
            BY <2>1 DEF Next
        <3>2. CASE Tick
            BY <3>1, <3>2, TickStep
        <3>3. ASSUME NEW r \in Slots, Receive(r) \/ Guard(r) \/ Operation(r) \/ Fails(r)
              PROVE  IInv'
            BY <3>1, <3>3, ReceiveStep, GuardStep, OperationStep, FailsStep
        <3>. QED
            BY <2>1, <3>2, <3>3 DEF Next
    <2>2. CASE UNCHANGED vars
        <3>1. /\ clock' = clock /\ account' = account /\ token' = token /\ problem' = problem
              /\ submitted' = submitted /\ request' = request /\ seen' = seen
              /\ logged_out' = logged_out
            BY <2>2 DEF vars
        <3>2. DatabaseTypeOK' /\ OwnersHaveAccounts' /\ BearersAreIssued' /\ LoggedOutAreRevoked'
              /\ SubmissionsHaveTheirProblem'
            BY <3>1 DEF IInv, DatabaseTypeOK, OwnersHaveAccounts, BearersAreIssued,
                        LoggedOutAreRevoked, SubmissionsHaveTheirProblem, IsIssued
        <3>3. RequestsAreGood'
            BY <3>1 DEF IInv, RequestsAreGood, OwnerOf
        <3>4. MomentsAreSeen'
            BY <3>1 DEF IInv, MomentsAreSeen, Moment, LevelAt, IsLiveAt, IsIssued, OwnerOf, IsServing
        <3>. QED
            BY <3>2, <3>3, <3>4 DEF IInv
    <2>. QED
        BY <2>1, <2>2
<1>. QED
    BY <1>1, <1>2, PTL DEF Spec

\* A request that was applied, or answered with anything but a refusal, had a bearer whose
\* owner had the permission its endpoint asks for at some moment since it was received, and
\* a source was shown to its owner or to an administrator (auth_guard.cpp, the guards of
\* the handlers): no interleaving of guards, operations, promotions, logouts and renewals
\* lets anybody else be served, for any users, tokens, endpoints and slots.
THEOREM OnlyTheEntitled == Spec => []OnlyTheEntitledAreServed
<1>1. IInv => ServedHadThePermission
    BY OfRequest DEF IInv, RequestsAreGood, IsGood, IsEntitled, Refusals, ServedHadThePermission
<1>2. IInv => SourceIsForItsOwner
    BY OfRequest DEF IInv, RequestsAreGood, IsGood, IsEntitled, SourceIsForItsOwner
<1>3. IInv => OnlyTheEntitledAreServed
    BY <1>1, <1>2 DEF OnlyTheEntitledAreServed
<1>. QED
    BY <1>3, RequestsStayGood, PTL

\* A token whose logout was answered is never good again (revoke_token, renew_token).
THEOREM LogoutsAreFinal == Spec => []LogoutIsFinal
<1>1. IInv => LogoutIsFinal
    BY DEF IInv, LoggedOutAreRevoked, LogoutIsFinal, IsLiveAt
<1>. QED
    BY <1>1, RequestsStayGood, PTL

\* Who was banned all the while has not submitted, and no submission is without its
\* problem (get_active_submission_banned_until, the foreign key of submissions).
THEOREM OnlyAllowedSubmissions == Spec => []SubmissionsAreAllowed
<1>1. IInv => BannedThroughoutIsRefused
    BY OfRequest DEF IInv, RequestsAreGood, IsGood, IsEntitled, BannedThroughoutIsRefused
<1>2. IInv => SubmissionsAreAllowed
    BY <1>1 DEF IInv, SubmissionsAreAllowed
<1>. QED
    BY <1>2, RequestsStayGood, PTL

-----------------------------------------------------------------------------
(* Paths and the patterns of routes                                        *)

LEMMA LiteralsMatch ==
    ASSUME NEW segment, NEW word
    PROVE  Dispatcher!Matches(Dispatcher!Lit(word), segment) <=> segment = word
BY DEF Dispatcher!Matches, Dispatcher!Lit

LEMMA NumbersMatch ==
    ASSUME NEW segment
    PROVE  /\ Dispatcher!Matches(Dispatcher!Int64, segment) <=> segment \in Int64Segments
           /\ Dispatcher!Matches(Dispatcher!Int32, segment) <=> segment \in Int32Segments
BY DEF Dispatcher!Matches, Dispatcher!Int64, Dispatcher!Int32,
       Dispatcher!IsInt64, Dispatcher!IsInt32

\* A path by its segments, how many it has, and which.
IsPathOf(s, route) == Dispatcher!MatchesPattern(route.pattern, s)
Size(s) == Len(s)
Seg(s, k) == s[k]
Method(route) == route.method

LEMMA MethodOf ==
    ASSUME NEW name, NEW method, NEW pattern
    PROVE  Method(Dispatcher!Route(name, method, pattern)) = method
BY DEF Method, Dispatcher!Route

\* What a path has whose pattern is this long.
LEMMA PathOfNone ==
    ASSUME NEW s, NEW name, NEW method, IsPathOf(s, Dispatcher!Route(name, method, <<>>))
    PROVE  Size(s) = 0
BY DEF IsPathOf, Size, Dispatcher!Route, Dispatcher!MatchesPattern

LEMMA PathOfOne ==
    ASSUME NEW s, NEW name, NEW method, NEW a,
           IsPathOf(s, Dispatcher!Route(name, method, <<a>>))
    PROVE  Size(s) = 1 /\ Dispatcher!Matches(a, Seg(s, 1))
BY DEF IsPathOf, Size, Seg, Dispatcher!Route, Dispatcher!MatchesPattern

LEMMA PathOfTwo ==
    ASSUME NEW s, NEW name, NEW method, NEW a, NEW b,
           IsPathOf(s, Dispatcher!Route(name, method, <<a, b>>))
    PROVE  Size(s) = 2 /\ Dispatcher!Matches(a, Seg(s, 1)) /\ Dispatcher!Matches(b, Seg(s, 2))
BY DEF IsPathOf, Size, Seg, Dispatcher!Route, Dispatcher!MatchesPattern

LEMMA PathOfThree ==
    ASSUME NEW s, NEW name, NEW method, NEW a, NEW b, NEW c,
           IsPathOf(s, Dispatcher!Route(name, method, <<a, b, c>>))
    PROVE  /\ Size(s) = 3
           /\ Dispatcher!Matches(a, Seg(s, 1)) /\ Dispatcher!Matches(b, Seg(s, 2))
           /\ Dispatcher!Matches(c, Seg(s, 3))
BY DEF IsPathOf, Size, Seg, Dispatcher!Route, Dispatcher!MatchesPattern

-----------------------------------------------------------------------------
(* The tables: what a path has that a route stands for, and its method     *)

LEMMA AuthMatches ==
    ASSUME NEW s, NEW i \in DOMAIN Dispatcher!AuthRoutes, IsPathOf(s, Dispatcher!AuthRoutes[i])
    PROVE  /\ \/ i = 1 /\ Size(s) = 1 /\ Seg(s, 1) = "sign-up"
              \/ i = 2 /\ Size(s) = 1 /\ Seg(s, 1) = "login"
              \/ i = 3 /\ Size(s) = 2 /\ Seg(s, 1) = "token" /\ Seg(s, 2) = "renew"
              \/ i = 4 /\ Size(s) = 1 /\ Seg(s, 1) = "logout"
           /\ Method(Dispatcher!AuthRoutes[i]) = "POST"
<1>1. DOMAIN Dispatcher!AuthRoutes = 1 .. 4
    BY DEF Dispatcher!AuthRoutes
<1>2. /\ Dispatcher!AuthRoutes[1] =
            Dispatcher!Route("post_sign_up", "POST", <<Dispatcher!Lit("sign-up")>>)
      /\ Dispatcher!AuthRoutes[2] =
            Dispatcher!Route("post_login", "POST", <<Dispatcher!Lit("login")>>)
      /\ Dispatcher!AuthRoutes[3] =
            Dispatcher!Route("post_token_renew", "POST",
                <<Dispatcher!Lit("token"), Dispatcher!Lit("renew")>>)
      /\ Dispatcher!AuthRoutes[4] =
            Dispatcher!Route("post_logout", "POST", <<Dispatcher!Lit("logout")>>)
    BY DEF Dispatcher!AuthRoutes
<1>3. i = 1 \/ i = 2 \/ i = 3 \/ i = 4
    BY <1>1
<1>. QED
    BY <1>2, <1>3, PathOfNone, PathOfOne, PathOfTwo, PathOfThree,
       LiteralsMatch, NumbersMatch, MethodOf

LEMMA UserQueryMatches ==
    ASSUME NEW s, NEW i \in DOMAIN Dispatcher!UserQueryRoutes,
           IsPathOf(s, Dispatcher!UserQueryRoutes[i])
    PROVE  /\ \/ i = 1 /\ Size(s) = 0
              \/ i = 2 /\ Size(s) = 1 /\ Seg(s, 1) = "list"
              \/ i = 3 /\ Size(s) = 1 /\ Seg(s, 1) = "me"
              \/ i = 4 /\ Size(s) = 2 /\ Seg(s, 1) = "me" /\ Seg(s, 2) = "statistics"
              \/ i = 5 /\ Size(s) = 2 /\ Seg(s, 1) = "me" /\ Seg(s, 2) = "submission-ban"
              \/ i = 6 /\ Size(s) = 2 /\ Seg(s, 1) = "me" /\ Seg(s, 2) = "solved-problems"
              \/ i = 7 /\ Size(s) = 2 /\ Seg(s, 1) = "me" /\ Seg(s, 2) = "wrong-problems"
              \/ i = 8 /\ Size(s) = 2 /\ Seg(s, 1) = "id"
              \/ i = 9 /\ Size(s) = 2 /\ Seg(s, 1) \in Int64Segments /\ Seg(s, 2) = "statistics"
              \/ /\ i = 10 /\ Size(s) = 2
                 /\ Seg(s, 1) \in Int64Segments /\ Seg(s, 2) = "solved-problems"
              \/ /\ i = 11 /\ Size(s) = 2
                 /\ Seg(s, 1) \in Int64Segments /\ Seg(s, 2) = "wrong-problems"
              \/ i = 12 /\ Size(s) = 1 /\ Seg(s, 1) \in Int64Segments
              \/ /\ i = 13 /\ Size(s) = 2
                 /\ Seg(s, 1) \in Int64Segments /\ Seg(s, 2) = "submission-ban"
           /\ Method(Dispatcher!UserQueryRoutes[i]) = "GET"
<1>1. DOMAIN Dispatcher!UserQueryRoutes = 1 .. 13
    BY DEF Dispatcher!UserQueryRoutes
<1>2. /\ Dispatcher!UserQueryRoutes[1] = Dispatcher!Route("get_user_list", "GET", <<>>)
      /\ Dispatcher!UserQueryRoutes[2] =
            Dispatcher!Route("get_public_user_list", "GET", <<Dispatcher!Lit("list")>>)
      /\ Dispatcher!UserQueryRoutes[3] =
            Dispatcher!Route("get_me", "GET", <<Dispatcher!Lit("me")>>)
      /\ Dispatcher!UserQueryRoutes[4] =
            Dispatcher!Route("get_me_submission_statistics", "GET",
                <<Dispatcher!Lit("me"), Dispatcher!Lit("statistics")>>)
      /\ Dispatcher!UserQueryRoutes[5] =
            Dispatcher!Route("get_me_submission_ban", "GET",
                <<Dispatcher!Lit("me"), Dispatcher!Lit("submission-ban")>>)
      /\ Dispatcher!UserQueryRoutes[6] =
            Dispatcher!Route("get_me_solved_problems", "GET",
                <<Dispatcher!Lit("me"), Dispatcher!Lit("solved-problems")>>)
      /\ Dispatcher!UserQueryRoutes[7] =
            Dispatcher!Route("get_me_wrong_problems", "GET",
                <<Dispatcher!Lit("me"), Dispatcher!Lit("wrong-problems")>>)
      /\ Dispatcher!UserQueryRoutes[8] =
            Dispatcher!Route("get_user_summary_by_login_id", "GET",
                <<Dispatcher!Lit("id"), Dispatcher!Decoded>>)
      /\ Dispatcher!UserQueryRoutes[9] =
            Dispatcher!Route("get_user_submission_statistics", "GET",
                <<Dispatcher!Int64, Dispatcher!Lit("statistics")>>)
      /\ Dispatcher!UserQueryRoutes[10] =
            Dispatcher!Route("get_user_solved_problems", "GET",
                <<Dispatcher!Int64, Dispatcher!Lit("solved-problems")>>)
      /\ Dispatcher!UserQueryRoutes[11] =
            Dispatcher!Route("get_user_wrong_problems", "GET",
                <<Dispatcher!Int64, Dispatcher!Lit("wrong-problems")>>)
      /\ Dispatcher!UserQueryRoutes[12] =
            Dispatcher!Route("get_user_summary", "GET", <<Dispatcher!Int64>>)
      /\ Dispatcher!UserQueryRoutes[13] =
            Dispatcher!Route("get_user_submission_ban", "GET",
                <<Dispatcher!Int64, Dispatcher!Lit("submission-ban")>>)
    BY DEF Dispatcher!UserQueryRoutes
<1>3. \/ i = 1 \/ i = 2 \/ i = 3 \/ i = 4 \/ i = 5 \/ i = 6 \/ i = 7 \/ i = 8
      \/ i = 9 \/ i = 10 \/ i = 11 \/ i = 12 \/ i = 13
    BY <1>1
<1>. QED
    BY <1>2, <1>3, PathOfNone, PathOfOne, PathOfTwo, PathOfThree,
       LiteralsMatch, NumbersMatch, MethodOf

LEMMA UserCommandMatches ==
    ASSUME NEW s, NEW i \in DOMAIN Dispatcher!UserCommandRoutes,
           IsPathOf(s, Dispatcher!UserCommandRoutes[i])
    PROVE  \/ /\ i = 1 /\ Method(Dispatcher!UserCommandRoutes[i]) = "PUT"
              /\ Size(s) = 2 /\ Seg(s, 2) = "admin"
           \/ /\ i = 2 /\ Method(Dispatcher!UserCommandRoutes[i]) = "PUT"
              /\ Size(s) = 2 /\ Seg(s, 2) = "user"
           \/ /\ i = 3 /\ Method(Dispatcher!UserCommandRoutes[i]) = "POST"
              /\ Size(s) = 2 /\ Seg(s, 2) = "submission-ban"
           \/ /\ i = 4 /\ Method(Dispatcher!UserCommandRoutes[i]) = "DELETE"
              /\ Size(s) = 2 /\ Seg(s, 2) = "submission-ban"
<1>1. DOMAIN Dispatcher!UserCommandRoutes = 1 .. 4
    BY DEF Dispatcher!UserCommandRoutes
<1>2. /\ Dispatcher!UserCommandRoutes[1] =
            Dispatcher!Route("put_user_admin", "PUT", <<Dispatcher!Int64, Dispatcher!Lit("admin")>>)
      /\ Dispatcher!UserCommandRoutes[2] =
            Dispatcher!Route("put_user_regular", "PUT",
                <<Dispatcher!Int64, Dispatcher!Lit("user")>>)
      /\ Dispatcher!UserCommandRoutes[3] =
            Dispatcher!Route("post_user_submission_ban", "POST",
                <<Dispatcher!Int64, Dispatcher!Lit("submission-ban")>>)
      /\ Dispatcher!UserCommandRoutes[4] =
            Dispatcher!Route("delete_user_submission_ban", "DELETE",
                <<Dispatcher!Int64, Dispatcher!Lit("submission-ban")>>)
    BY DEF Dispatcher!UserCommandRoutes
<1>3. i = 1 \/ i = 2 \/ i = 3 \/ i = 4
    BY <1>1
<1>. QED
    BY <1>2, <1>3, PathOfNone, PathOfOne, PathOfTwo, PathOfThree,
       LiteralsMatch, NumbersMatch, MethodOf

LEMMA ProblemQueryMatches ==
    ASSUME NEW s, NEW i \in DOMAIN Dispatcher!ProblemQueryRoutes,
           IsPathOf(s, Dispatcher!ProblemQueryRoutes[i])
    PROVE  /\ \/ i = 1 /\ Size(s) = 0
              \/ i = 2 /\ Size(s) = 1
              \/ i = 3 /\ Size(s) = 2 /\ Seg(s, 2) = "limits"
              \/ i = 4 /\ Size(s) = 2 /\ Seg(s, 2) = "sample"
           /\ Method(Dispatcher!ProblemQueryRoutes[i]) = "GET"
<1>1. DOMAIN Dispatcher!ProblemQueryRoutes = 1 .. 4
    BY DEF Dispatcher!ProblemQueryRoutes
<1>2. /\ Dispatcher!ProblemQueryRoutes[1] = Dispatcher!Route("get_problems", "GET", <<>>)
      /\ Dispatcher!ProblemQueryRoutes[2] =
            Dispatcher!Route("get_problem", "GET", <<Dispatcher!Int64>>)
      /\ Dispatcher!ProblemQueryRoutes[3] =
            Dispatcher!Route("get_limits", "GET", <<Dispatcher!Int64, Dispatcher!Lit("limits")>>)
      /\ Dispatcher!ProblemQueryRoutes[4] =
            Dispatcher!Route("get_samples", "GET", <<Dispatcher!Int64, Dispatcher!Lit("sample")>>)
    BY DEF Dispatcher!ProblemQueryRoutes
<1>3. i = 1 \/ i = 2 \/ i = 3 \/ i = 4
    BY <1>1
<1>. QED
    BY <1>2, <1>3, PathOfNone, PathOfOne, PathOfTwo, PathOfThree,
       LiteralsMatch, NumbersMatch, MethodOf

LEMMA ProblemCommandMatches ==
    ASSUME NEW s, NEW i \in DOMAIN Dispatcher!ProblemCommandRoutes,
           IsPathOf(s, Dispatcher!ProblemCommandRoutes[i])
    PROVE  \/ i = 1 /\ Method(Dispatcher!ProblemCommandRoutes[i]) = "POST" /\ Size(s) = 0
           \/ i = 2 /\ Method(Dispatcher!ProblemCommandRoutes[i]) = "DELETE" /\ Size(s) = 1
           \/ /\ i = 3 /\ Method(Dispatcher!ProblemCommandRoutes[i]) = "PUT"
              /\ Size(s) = 2 /\ Seg(s, 2) = "title"
           \/ /\ i = 4 /\ Method(Dispatcher!ProblemCommandRoutes[i]) = "PUT"
              /\ Size(s) = 2 /\ Seg(s, 2) = "limits"
           \/ /\ i = 5 /\ Method(Dispatcher!ProblemCommandRoutes[i]) = "PUT"
              /\ Size(s) = 2 /\ Seg(s, 2) = "statement"
           \/ /\ i = 6 /\ Method(Dispatcher!ProblemCommandRoutes[i]) = "POST"
              /\ Size(s) = 2 /\ Seg(s, 2) = "sample"
           \/ /\ i = 7 /\ Method(Dispatcher!ProblemCommandRoutes[i]) = "DELETE"
              /\ Size(s) = 2 /\ Seg(s, 2) = "sample"
           \/ /\ i = 8 /\ Method(Dispatcher!ProblemCommandRoutes[i]) = "PUT"
              /\ Size(s) = 3 /\ Seg(s, 2) = "sample"
           \/ /\ i = 9 /\ Method(Dispatcher!ProblemCommandRoutes[i]) = "POST"
              /\ Size(s) = 2 /\ Seg(s, 2) = "rejudge"
<1>1. DOMAIN Dispatcher!ProblemCommandRoutes = 1 .. 9
    BY DEF Dispatcher!ProblemCommandRoutes
<1>2. /\ Dispatcher!ProblemCommandRoutes[1] = Dispatcher!Route("post_problem", "POST", <<>>)
      /\ Dispatcher!ProblemCommandRoutes[2] =
            Dispatcher!Route("delete_problem", "DELETE", <<Dispatcher!Int64>>)
      /\ Dispatcher!ProblemCommandRoutes[3] =
            Dispatcher!Route("put_problem", "PUT", <<Dispatcher!Int64, Dispatcher!Lit("title")>>)
      /\ Dispatcher!ProblemCommandRoutes[4] =
            Dispatcher!Route("put_limits", "PUT", <<Dispatcher!Int64, Dispatcher!Lit("limits")>>)
      /\ Dispatcher!ProblemCommandRoutes[5] =
            Dispatcher!Route("put_statement", "PUT",
                <<Dispatcher!Int64, Dispatcher!Lit("statement")>>)
      /\ Dispatcher!ProblemCommandRoutes[6] =
            Dispatcher!Route("post_sample", "POST", <<Dispatcher!Int64, Dispatcher!Lit("sample")>>)
      /\ Dispatcher!ProblemCommandRoutes[7] =
            Dispatcher!Route("delete_sample", "DELETE",
                <<Dispatcher!Int64, Dispatcher!Lit("sample")>>)
      /\ Dispatcher!ProblemCommandRoutes[8] =
            Dispatcher!Route("put_sample", "PUT",
                <<Dispatcher!Int64, Dispatcher!Lit("sample"), Dispatcher!Int32>>)
      /\ Dispatcher!ProblemCommandRoutes[9] =
            Dispatcher!Route("post_problem_rejudge", "POST",
                <<Dispatcher!Int64, Dispatcher!Lit("rejudge")>>)
    BY DEF Dispatcher!ProblemCommandRoutes
<1>3. i = 1 \/ i = 2 \/ i = 3 \/ i = 4 \/ i = 5 \/ i = 6 \/ i = 7 \/ i = 8 \/ i = 9
    BY <1>1
<1>. QED
    BY <1>2, <1>3, PathOfNone, PathOfOne, PathOfTwo, PathOfThree,
       LiteralsMatch, NumbersMatch, MethodOf

LEMMA TestcaseMatches ==
    ASSUME NEW s, NEW i \in DOMAIN Dispatcher!TestcaseRoutes,
           IsPathOf(s, Dispatcher!TestcaseRoutes[i])
    PROVE  \/ /\ i = 1 /\ Method(Dispatcher!TestcaseRoutes[i]) = "GET"
              /\ Size(s) = 2 /\ Seg(s, 2) = "testcase"
           \/ /\ i = 2 /\ Method(Dispatcher!TestcaseRoutes[i]) = "POST"
              /\ Size(s) = 2 /\ Seg(s, 2) = "testcase"
           \/ /\ i = 3 /\ Method(Dispatcher!TestcaseRoutes[i]) = "DELETE"
              /\ Size(s) = 3 /\ Seg(s, 2) = "testcase" /\ Seg(s, 3) = "all"
           \/ /\ i = 4 /\ Method(Dispatcher!TestcaseRoutes[i]) = "POST"
              /\ Size(s) = 3 /\ Seg(s, 2) = "testcase" /\ Seg(s, 3) = "zip"
           \/ /\ i = 5 /\ Method(Dispatcher!TestcaseRoutes[i]) = "POST"
              /\ Size(s) = 3 /\ Seg(s, 2) = "testcase" /\ Seg(s, 3) = "move"
           \/ /\ i = 6 /\ Method(Dispatcher!TestcaseRoutes[i]) = "GET"
              /\ Size(s) = 3 /\ Seg(s, 2) = "testcase" /\ Seg(s, 3) \in Int32Segments
           \/ /\ i = 7 /\ Method(Dispatcher!TestcaseRoutes[i]) = "PUT"
              /\ Size(s) = 3 /\ Seg(s, 2) = "testcase" /\ Seg(s, 3) \in Int32Segments
           \/ /\ i = 8 /\ Method(Dispatcher!TestcaseRoutes[i]) = "DELETE"
              /\ Size(s) = 3 /\ Seg(s, 2) = "testcase" /\ Seg(s, 3) \in Int32Segments
<1>1. DOMAIN Dispatcher!TestcaseRoutes = 1 .. 8
    BY DEF Dispatcher!TestcaseRoutes
<1>2. /\ Dispatcher!TestcaseRoutes[1] =
            Dispatcher!Route("get_testcases", "GET",
                <<Dispatcher!Int64, Dispatcher!Lit("testcase")>>)
      /\ Dispatcher!TestcaseRoutes[2] =
            Dispatcher!Route("post_testcase", "POST",
                <<Dispatcher!Int64, Dispatcher!Lit("testcase")>>)
      /\ Dispatcher!TestcaseRoutes[3] =
            Dispatcher!Route("delete_all_testcases", "DELETE",
                <<Dispatcher!Int64, Dispatcher!Lit("testcase"), Dispatcher!Lit("all")>>)
      /\ Dispatcher!TestcaseRoutes[4] =
            Dispatcher!Route("post_testcase_zip", "POST",
                <<Dispatcher!Int64, Dispatcher!Lit("testcase"), Dispatcher!Lit("zip")>>)
      /\ Dispatcher!TestcaseRoutes[5] =
            Dispatcher!Route("move_testcase", "POST",
                <<Dispatcher!Int64, Dispatcher!Lit("testcase"), Dispatcher!Lit("move")>>)
      /\ Dispatcher!TestcaseRoutes[6] =
            Dispatcher!Route("get_testcase", "GET",
                <<Dispatcher!Int64, Dispatcher!Lit("testcase"), Dispatcher!Int32>>)
      /\ Dispatcher!TestcaseRoutes[7] =
            Dispatcher!Route("put_testcase", "PUT",
                <<Dispatcher!Int64, Dispatcher!Lit("testcase"), Dispatcher!Int32>>)
      /\ Dispatcher!TestcaseRoutes[8] =
            Dispatcher!Route("delete_testcase", "DELETE",
                <<Dispatcher!Int64, Dispatcher!Lit("testcase"), Dispatcher!Int32>>)
    BY DEF Dispatcher!TestcaseRoutes
<1>3. i = 1 \/ i = 2 \/ i = 3 \/ i = 4 \/ i = 5 \/ i = 6 \/ i = 7 \/ i = 8
    BY <1>1
<1>. QED
    BY <1>2, <1>3, PathOfNone, PathOfOne, PathOfTwo, PathOfThree,
       LiteralsMatch, NumbersMatch, MethodOf

LEMMA SubmissionQueryMatches ==
    ASSUME NEW s, NEW i \in DOMAIN Dispatcher!SubmissionQueryRoutes,
           IsPathOf(s, Dispatcher!SubmissionQueryRoutes[i])
    PROVE  \/ i = 1 /\ Method(Dispatcher!SubmissionQueryRoutes[i]) = "GET" /\ Size(s) = 0
           \/ /\ i = 2 /\ Method(Dispatcher!SubmissionQueryRoutes[i]) = "POST"
              /\ Size(s) = 2 /\ Seg(s, 1) = "status" /\ Seg(s, 2) = "batch"
           \/ i = 3 /\ Method(Dispatcher!SubmissionQueryRoutes[i]) = "GET" /\ Size(s) = 1
           \/ /\ i = 4 /\ Method(Dispatcher!SubmissionQueryRoutes[i]) = "GET"
              /\ Size(s) = 2 /\ Seg(s, 2) = "history"
           \/ /\ i = 5 /\ Method(Dispatcher!SubmissionQueryRoutes[i]) = "GET"
              /\ Size(s) = 2 /\ Seg(s, 2) = "source"
<1>1. DOMAIN Dispatcher!SubmissionQueryRoutes = 1 .. 5
    BY DEF Dispatcher!SubmissionQueryRoutes
<1>2. /\ Dispatcher!SubmissionQueryRoutes[1] = Dispatcher!Route("get_submissions", "GET", <<>>)
      /\ Dispatcher!SubmissionQueryRoutes[2] =
            Dispatcher!Route("post_submission_status_batch", "POST",
                <<Dispatcher!Lit("status"), Dispatcher!Lit("batch")>>)
      /\ Dispatcher!SubmissionQueryRoutes[3] =
            Dispatcher!Route("get_submission", "GET", <<Dispatcher!Int64>>)
      /\ Dispatcher!SubmissionQueryRoutes[4] =
            Dispatcher!Route("get_submission_history", "GET",
                <<Dispatcher!Int64, Dispatcher!Lit("history")>>)
      /\ Dispatcher!SubmissionQueryRoutes[5] =
            Dispatcher!Route("get_submission_source", "GET",
                <<Dispatcher!Int64, Dispatcher!Lit("source")>>)
    BY DEF Dispatcher!SubmissionQueryRoutes
<1>3. i = 1 \/ i = 2 \/ i = 3 \/ i = 4 \/ i = 5
    BY <1>1
<1>. QED
    BY <1>2, <1>3, PathOfNone, PathOfOne, PathOfTwo, PathOfThree,
       LiteralsMatch, NumbersMatch, MethodOf

LEMMA SubmissionCommandMatches ==
    ASSUME NEW s, NEW i \in DOMAIN Dispatcher!SubmissionCommandRoutes,
           IsPathOf(s, Dispatcher!SubmissionCommandRoutes[i])
    PROVE  /\ \/ i = 1 /\ Size(s) = 1
              \/ i = 2 /\ Size(s) = 2 /\ Seg(s, 2) = "rejudge"
           /\ Method(Dispatcher!SubmissionCommandRoutes[i]) = "POST"
<1>1. DOMAIN Dispatcher!SubmissionCommandRoutes = 1 .. 2
    BY DEF Dispatcher!SubmissionCommandRoutes
<1>2. /\ Dispatcher!SubmissionCommandRoutes[1] =
            Dispatcher!Route("post_submission", "POST", <<Dispatcher!Int64>>)
      /\ Dispatcher!SubmissionCommandRoutes[2] =
            Dispatcher!Route("post_submission_rejudge", "POST",
                <<Dispatcher!Int64, Dispatcher!Lit("rejudge")>>)
    BY DEF Dispatcher!SubmissionCommandRoutes
<1>3. i = 1 \/ i = 2
    BY <1>1
<1>. QED
    BY <1>2, <1>3, PathOfNone, PathOfOne, PathOfTwo, PathOfThree,
       LiteralsMatch, NumbersMatch, MethodOf

LEMMA SystemDbMatches ==
    ASSUME NEW s, NEW i \in DOMAIN Dispatcher!SystemDbRoutes,
           IsPathOf(s, Dispatcher!SystemDbRoutes[i])
    PROVE  /\ \/ i = 1 /\ Size(s) = 1 /\ Seg(s, 1) = "status"
           /\ Method(Dispatcher!SystemDbRoutes[i]) = "GET"
<1>1. DOMAIN Dispatcher!SystemDbRoutes = 1 .. 1
    BY DEF Dispatcher!SystemDbRoutes
<1>2. /\ Dispatcher!SystemDbRoutes[1] =
            Dispatcher!Route("get_status", "GET", <<Dispatcher!Lit("status")>>)
    BY DEF Dispatcher!SystemDbRoutes
<1>3. i = 1
    BY <1>1
<1>. QED
    BY <1>2, <1>3, PathOfNone, PathOfOne, PathOfTwo, PathOfThree,
       LiteralsMatch, NumbersMatch, MethodOf

LEMMA SystemPublicMatches ==
    ASSUME NEW s, NEW i \in DOMAIN Dispatcher!SystemPublicRoutes,
           IsPathOf(s, Dispatcher!SystemPublicRoutes[i])
    PROVE  /\ \/ i = 1 /\ Size(s) = 1 /\ Seg(s, 1) = "health"
              \/ i = 2 /\ Size(s) = 1 /\ Seg(s, 1) = "supported-languages"
           /\ Method(Dispatcher!SystemPublicRoutes[i]) = "GET"
<1>1. DOMAIN Dispatcher!SystemPublicRoutes = 1 .. 2
    BY DEF Dispatcher!SystemPublicRoutes
<1>2. /\ Dispatcher!SystemPublicRoutes[1] =
            Dispatcher!Route("get_health", "GET", <<Dispatcher!Lit("health")>>)
      /\ Dispatcher!SystemPublicRoutes[2] =
            Dispatcher!Route("get_supported_languages", "GET",
                <<Dispatcher!Lit("supported-languages")>>)
    BY DEF Dispatcher!SystemPublicRoutes
<1>3. i = 1 \/ i = 2
    BY <1>1
<1>. QED
    BY <1>2, <1>3, PathOfNone, PathOfOne, PathOfTwo, PathOfThree,
       LiteralsMatch, NumbersMatch, MethodOf

-----------------------------------------------------------------------------
(* No two routes stand for one method of one path                          *)

LEMMA TablesAreSequences ==
    /\ Dispatcher!UserQueryRoutes \in Seq(Dispatcher!ToSet(Dispatcher!UserQueryRoutes))
    /\ Dispatcher!UserCommandRoutes \in Seq(Dispatcher!ToSet(Dispatcher!UserCommandRoutes))
    /\ Dispatcher!ProblemQueryRoutes \in Seq(Dispatcher!ToSet(Dispatcher!ProblemQueryRoutes))
    /\ Dispatcher!ProblemCommandRoutes \in Seq(Dispatcher!ToSet(Dispatcher!ProblemCommandRoutes))
    /\ Dispatcher!TestcaseRoutes \in Seq(Dispatcher!ToSet(Dispatcher!TestcaseRoutes))
    /\ Dispatcher!SubmissionQueryRoutes \in Seq(Dispatcher!ToSet(Dispatcher!SubmissionQueryRoutes))
    /\ Dispatcher!SubmissionCommandRoutes \in
           Seq(Dispatcher!ToSet(Dispatcher!SubmissionCommandRoutes))
    /\ Dispatcher!SystemDbRoutes \in Seq(Dispatcher!ToSet(Dispatcher!SystemDbRoutes))
    /\ Dispatcher!SystemPublicRoutes \in Seq(Dispatcher!ToSet(Dispatcher!SystemPublicRoutes))
<1>1. Dispatcher!UserQueryRoutes \in Seq(Dispatcher!ToSet(Dispatcher!UserQueryRoutes))
    BY DEF Dispatcher!ToSet, Dispatcher!UserQueryRoutes
<1>2. Dispatcher!UserCommandRoutes \in Seq(Dispatcher!ToSet(Dispatcher!UserCommandRoutes))
    BY DEF Dispatcher!ToSet, Dispatcher!UserCommandRoutes
<1>3. Dispatcher!ProblemQueryRoutes \in Seq(Dispatcher!ToSet(Dispatcher!ProblemQueryRoutes))
    BY DEF Dispatcher!ToSet, Dispatcher!ProblemQueryRoutes
<1>4. Dispatcher!ProblemCommandRoutes \in Seq(Dispatcher!ToSet(Dispatcher!ProblemCommandRoutes))
    BY DEF Dispatcher!ToSet, Dispatcher!ProblemCommandRoutes
<1>5. Dispatcher!TestcaseRoutes \in Seq(Dispatcher!ToSet(Dispatcher!TestcaseRoutes))
    BY DEF Dispatcher!ToSet, Dispatcher!TestcaseRoutes
<1>6. Dispatcher!SubmissionQueryRoutes \in Seq(Dispatcher!ToSet(Dispatcher!SubmissionQueryRoutes))
    BY DEF Dispatcher!ToSet, Dispatcher!SubmissionQueryRoutes
<1>7. Dispatcher!SubmissionCommandRoutes \in
          Seq(Dispatcher!ToSet(Dispatcher!SubmissionCommandRoutes))
    BY DEF Dispatcher!ToSet, Dispatcher!SubmissionCommandRoutes
<1>8. Dispatcher!SystemDbRoutes \in Seq(Dispatcher!ToSet(Dispatcher!SystemDbRoutes))
    BY DEF Dispatcher!ToSet, Dispatcher!SystemDbRoutes
<1>9. Dispatcher!SystemPublicRoutes \in Seq(Dispatcher!ToSet(Dispatcher!SystemPublicRoutes))
    BY DEF Dispatcher!ToSet, Dispatcher!SystemPublicRoutes
<1>. QED
    BY <1>1, <1>2, <1>3, <1>4, <1>5, <1>6, <1>7, <1>8, <1>9

LEMMA RoutesOfTwoTables ==
    ASSUME NEW one, one \in Seq(Dispatcher!ToSet(one)),
           NEW two, two \in Seq(Dispatcher!ToSet(two))
    PROVE  /\ Dispatcher!ToSet(one \o two) = Dispatcher!ToSet(one) \cup Dispatcher!ToSet(two)
           /\ one \o two \in Seq(Dispatcher!ToSet(one \o two))
<1>. DEFINE S == Dispatcher!ToSet(one) \cup Dispatcher!ToSet(two)
<1>1. one \in Seq(S) /\ two \in Seq(S)
    BY SeqMonotonic
<1>2. /\ DOMAIN (one \o two) = 1 .. Len(one) + Len(two)
      /\ DOMAIN one = 1 .. Len(one) /\ DOMAIN two = 1 .. Len(two)
      /\ Len(one) \in Nat /\ Len(two) \in Nat
      /\ \A i \in 1 .. Len(one) : (one \o two)[i] = one[i]
      /\ \A i \in 1 .. Len(two) : (one \o two)[Len(one) + i] = two[i]
    BY <1>1
<1>3. one \o two \in Seq(S)
    BY <1>1
<1>4. \A i \in DOMAIN (one \o two) : (one \o two)[i] \in S
    BY <1>2, <1>3, ElementOfSeq
<1>5. \A i \in DOMAIN one : one[i] \in Dispatcher!ToSet(one \o two)
  <2>1. TAKE i \in DOMAIN one
  <2>2. i \in DOMAIN (one \o two) /\ (one \o two)[i] = one[i]
    BY <1>2
  <2>. QED
    BY <2>2, Zenon DEF Dispatcher!ToSet
<1>6. \A i \in DOMAIN two : two[i] \in Dispatcher!ToSet(one \o two)
  <2>1. TAKE i \in DOMAIN two
  <2>2. Len(one) + i \in DOMAIN (one \o two) /\ (one \o two)[Len(one) + i] = two[i]
    BY <1>2
  <2>. QED
    BY <2>2, Zenon DEF Dispatcher!ToSet
<1>7. Dispatcher!ToSet(one \o two) = S
    BY <1>4, <1>5, <1>6, Zenon DEF Dispatcher!ToSet
<1>. QED
    BY <1>3, <1>7

\* Within a table: words differ, and no number is one of the words beside it.
LEMMA UserQueryApart ==
    ASSUME NEW s, NEW i \in DOMAIN Dispatcher!UserQueryRoutes,
           NEW j \in DOMAIN Dispatcher!UserQueryRoutes,
           IsPathOf(s, Dispatcher!UserQueryRoutes[i]),
           IsPathOf(s, Dispatcher!UserQueryRoutes[j]),
           Method(Dispatcher!UserQueryRoutes[i]) = Method(Dispatcher!UserQueryRoutes[j])
    PROVE  i = j
BY UserQueryMatches, NumbersAssumption

LEMMA UserCommandApart ==
    ASSUME NEW s, NEW i \in DOMAIN Dispatcher!UserCommandRoutes,
           NEW j \in DOMAIN Dispatcher!UserCommandRoutes,
           IsPathOf(s, Dispatcher!UserCommandRoutes[i]),
           IsPathOf(s, Dispatcher!UserCommandRoutes[j]),
           Method(Dispatcher!UserCommandRoutes[i]) = Method(Dispatcher!UserCommandRoutes[j])
    PROVE  i = j
BY UserCommandMatches

LEMMA ProblemQueryApart ==
    ASSUME NEW s, NEW i \in DOMAIN Dispatcher!ProblemQueryRoutes,
           NEW j \in DOMAIN Dispatcher!ProblemQueryRoutes,
           IsPathOf(s, Dispatcher!ProblemQueryRoutes[i]),
           IsPathOf(s, Dispatcher!ProblemQueryRoutes[j]),
           Method(Dispatcher!ProblemQueryRoutes[i]) = Method(Dispatcher!ProblemQueryRoutes[j])
    PROVE  i = j
BY ProblemQueryMatches

LEMMA ProblemCommandApart ==
    ASSUME NEW s, NEW i \in DOMAIN Dispatcher!ProblemCommandRoutes,
           NEW j \in DOMAIN Dispatcher!ProblemCommandRoutes,
           IsPathOf(s, Dispatcher!ProblemCommandRoutes[i]),
           IsPathOf(s, Dispatcher!ProblemCommandRoutes[j]),
           Method(Dispatcher!ProblemCommandRoutes[i]) = Method(Dispatcher!ProblemCommandRoutes[j])
    PROVE  i = j
BY ProblemCommandMatches

LEMMA TestcaseApart ==
    ASSUME NEW s, NEW i \in DOMAIN Dispatcher!TestcaseRoutes,
           NEW j \in DOMAIN Dispatcher!TestcaseRoutes,
           IsPathOf(s, Dispatcher!TestcaseRoutes[i]),
           IsPathOf(s, Dispatcher!TestcaseRoutes[j]),
           Method(Dispatcher!TestcaseRoutes[i]) = Method(Dispatcher!TestcaseRoutes[j])
    PROVE  i = j
BY TestcaseMatches, NumbersAssumption

LEMMA SubmissionQueryApart ==
    ASSUME NEW s, NEW i \in DOMAIN Dispatcher!SubmissionQueryRoutes,
           NEW j \in DOMAIN Dispatcher!SubmissionQueryRoutes,
           IsPathOf(s, Dispatcher!SubmissionQueryRoutes[i]),
           IsPathOf(s, Dispatcher!SubmissionQueryRoutes[j]),
           Method(Dispatcher!SubmissionQueryRoutes[i]) = Method(Dispatcher!SubmissionQueryRoutes[j])
    PROVE  i = j
BY SubmissionQueryMatches

LEMMA SubmissionCommandApart ==
    ASSUME NEW s, NEW i \in DOMAIN Dispatcher!SubmissionCommandRoutes,
           NEW j \in DOMAIN Dispatcher!SubmissionCommandRoutes,
           IsPathOf(s, Dispatcher!SubmissionCommandRoutes[i]),
           IsPathOf(s, Dispatcher!SubmissionCommandRoutes[j]),
           Method(Dispatcher!SubmissionCommandRoutes[i]) = Method(Dispatcher!SubmissionCommandRoutes[j])
    PROVE  i = j
BY SubmissionCommandMatches

\* Within an area: its tables have different methods, or other words or lengths.
LEMMA AuthRoutesAreApart ==
    ASSUME NEW s,
           NEW one \in Dispatcher!ToSet(Dispatcher!AuthRoutes),
           NEW two \in Dispatcher!ToSet(Dispatcher!AuthRoutes),
           IsPathOf(s, one), IsPathOf(s, two)
    PROVE  one = two
<1>1. PICK i \in DOMAIN Dispatcher!AuthRoutes : one = Dispatcher!AuthRoutes[i]
    BY DEF Dispatcher!ToSet
<1>2. PICK j \in DOMAIN Dispatcher!AuthRoutes : two = Dispatcher!AuthRoutes[j]
    BY DEF Dispatcher!ToSet
<1>3. i = j
    BY <1>1, <1>2, AuthMatches
<1>. QED
    BY <1>1, <1>2, <1>3

LEMMA UserRoutesAreApart ==
    ASSUME NEW s,
           NEW one \in Dispatcher!ToSet(Dispatcher!UserRoutes),
           NEW two \in Dispatcher!ToSet(Dispatcher!UserRoutes),
           IsPathOf(s, one), IsPathOf(s, two),
           Method(one) = Method(two)
    PROVE  one = two
<1>1. Dispatcher!ToSet(Dispatcher!UserRoutes)
          = Dispatcher!ToSet(Dispatcher!UserQueryRoutes)
            \cup Dispatcher!ToSet(Dispatcher!UserCommandRoutes)
    BY TablesAreSequences, RoutesOfTwoTables DEF Dispatcher!UserRoutes
<1>2. ASSUME NEW i \in DOMAIN Dispatcher!UserQueryRoutes,
             NEW j \in DOMAIN Dispatcher!UserCommandRoutes,
             IsPathOf(s, Dispatcher!UserQueryRoutes[i]),
             IsPathOf(s, Dispatcher!UserCommandRoutes[j])
      PROVE  Method(Dispatcher!UserQueryRoutes[i]) # Method(Dispatcher!UserCommandRoutes[j])
    BY <1>2, UserQueryMatches, UserCommandMatches
<1>. QED
    BY <1>1, <1>2, UserQueryApart, UserCommandApart DEF Dispatcher!ToSet

LEMMA ProblemRoutesAreApart ==
    ASSUME NEW s,
           NEW one \in Dispatcher!ToSet(Dispatcher!ProblemRoutes),
           NEW two \in Dispatcher!ToSet(Dispatcher!ProblemRoutes),
           IsPathOf(s, one), IsPathOf(s, two),
           Method(one) = Method(two)
    PROVE  one = two
<1>1. Dispatcher!ToSet(Dispatcher!ProblemRoutes)
          = Dispatcher!ToSet(Dispatcher!ProblemQueryRoutes)
            \cup Dispatcher!ToSet(Dispatcher!ProblemCommandRoutes)
            \cup Dispatcher!ToSet(Dispatcher!TestcaseRoutes)
  <2>1. /\ Dispatcher!ProblemQueryRoutes \o Dispatcher!ProblemCommandRoutes
              \in Seq(Dispatcher!ToSet(Dispatcher!ProblemQueryRoutes
                                       \o Dispatcher!ProblemCommandRoutes))
        /\ Dispatcher!ToSet(Dispatcher!ProblemQueryRoutes \o Dispatcher!ProblemCommandRoutes)
              = Dispatcher!ToSet(Dispatcher!ProblemQueryRoutes)
                \cup Dispatcher!ToSet(Dispatcher!ProblemCommandRoutes)
    BY TablesAreSequences, RoutesOfTwoTables
  <2>. QED
    BY <2>1, TablesAreSequences, RoutesOfTwoTables DEF Dispatcher!ProblemRoutes
<1>2. ASSUME NEW i \in DOMAIN Dispatcher!ProblemQueryRoutes,
             IsPathOf(s, Dispatcher!ProblemQueryRoutes[i])
      PROVE  /\ Method(Dispatcher!ProblemQueryRoutes[i]) = "GET"
             /\ Size(s) \in {0, 1} \/ Seg(s, 2) # "testcase"
    BY <1>2, ProblemQueryMatches
<1>3. ASSUME NEW i \in DOMAIN Dispatcher!ProblemCommandRoutes,
             IsPathOf(s, Dispatcher!ProblemCommandRoutes[i])
      PROVE  /\ Method(Dispatcher!ProblemCommandRoutes[i]) # "GET"
             /\ Size(s) \in {0, 1} \/ Seg(s, 2) # "testcase"
    BY <1>3, ProblemCommandMatches
<1>4. ASSUME NEW i \in DOMAIN Dispatcher!TestcaseRoutes,
             IsPathOf(s, Dispatcher!TestcaseRoutes[i])
      PROVE  Size(s) \notin {0, 1} /\ Seg(s, 2) = "testcase"
    BY <1>4, TestcaseMatches
<1>. QED
    BY <1>1, <1>2, <1>3, <1>4, ProblemQueryApart, ProblemCommandApart, TestcaseApart
       DEF Dispatcher!ToSet

LEMMA SubmissionRoutesAreApart ==
    ASSUME NEW s,
           NEW one \in Dispatcher!ToSet(Dispatcher!SubmissionRoutes),
           NEW two \in Dispatcher!ToSet(Dispatcher!SubmissionRoutes),
           IsPathOf(s, one), IsPathOf(s, two),
           Method(one) = Method(two)
    PROVE  one = two
<1>1. Dispatcher!ToSet(Dispatcher!SubmissionRoutes)
          = Dispatcher!ToSet(Dispatcher!SubmissionQueryRoutes)
            \cup Dispatcher!ToSet(Dispatcher!SubmissionCommandRoutes)
    BY TablesAreSequences, RoutesOfTwoTables DEF Dispatcher!SubmissionRoutes
<1>2. ASSUME NEW i \in DOMAIN Dispatcher!SubmissionQueryRoutes,
             NEW j \in DOMAIN Dispatcher!SubmissionCommandRoutes,
             IsPathOf(s, Dispatcher!SubmissionQueryRoutes[i]),
             IsPathOf(s, Dispatcher!SubmissionCommandRoutes[j])
      PROVE  Method(Dispatcher!SubmissionQueryRoutes[i])
                 # Method(Dispatcher!SubmissionCommandRoutes[j])
    BY <1>2, SubmissionQueryMatches, SubmissionCommandMatches
<1>. QED
    BY <1>1, <1>2, SubmissionQueryApart, SubmissionCommandApart DEF Dispatcher!ToSet

LEMMA SystemRoutesAreApart ==
    ASSUME NEW s,
           NEW one \in Dispatcher!RoutesOf("system"), NEW two \in Dispatcher!RoutesOf("system"),
           IsPathOf(s, one), IsPathOf(s, two)
    PROVE  one = two
<1>1. Dispatcher!RoutesOf("system")
          = Dispatcher!ToSet(Dispatcher!SystemPublicRoutes)
            \cup Dispatcher!ToSet(Dispatcher!SystemDbRoutes)
    BY TablesAreSequences, RoutesOfTwoTables DEF Dispatcher!RoutesOf
<1>2. ASSUME NEW i \in DOMAIN Dispatcher!SystemPublicRoutes,
             NEW j \in DOMAIN Dispatcher!SystemPublicRoutes,
             IsPathOf(s, Dispatcher!SystemPublicRoutes[i]),
             IsPathOf(s, Dispatcher!SystemPublicRoutes[j])
      PROVE  i = j
    BY <1>2, SystemPublicMatches
<1>3. ASSUME NEW i \in DOMAIN Dispatcher!SystemDbRoutes,
             NEW j \in DOMAIN Dispatcher!SystemDbRoutes,
             IsPathOf(s, Dispatcher!SystemDbRoutes[i]), IsPathOf(s, Dispatcher!SystemDbRoutes[j])
      PROVE  i = j
    BY <1>3, SystemDbMatches
<1>4. ASSUME NEW i \in DOMAIN Dispatcher!SystemPublicRoutes,
             NEW j \in DOMAIN Dispatcher!SystemDbRoutes,
             IsPathOf(s, Dispatcher!SystemPublicRoutes[i]),
             IsPathOf(s, Dispatcher!SystemDbRoutes[j])
      PROVE  FALSE
    BY <1>4, SystemPublicMatches, SystemDbMatches
<1>. QED
    BY <1>1, <1>2, <1>3, <1>4 DEF Dispatcher!ToSet

-----------------------------------------------------------------------------
(* The dispatcher                                                        *)

AllAreas == Dispatcher!Areas \cup {"elsewhere"}
Asked == Dispatcher!Segments(Dispatcher!Rest)

\* The routes of a table that the request may be meant for.
MayServe(table, route) == \E i \in Dispatcher!Matching(table) : route = table[i]

LEMMA MatchingIsOfPaths ==
    ASSUME NEW table
    PROVE  Dispatcher!Matching(table) = {i \in DOMAIN table : IsPathOf(Asked, table[i])}
BY DEF Dispatcher!Matching, IsPathOf, Asked

LEMMA CandidatesOf ==
    ASSUME NEW route
    PROVE  route \in Dispatcher!Candidates <=>
               /\ Dispatcher!Area # "elsewhere"
               /\ route \in Dispatcher!RoutesOf(Dispatcher!Area)
               /\ IsPathOf(Asked, route)
               /\ Dispatcher!Area = "system" /\ route.name = "get_status" =>
                      Dispatcher!Rest = <<"status">>
BY Zenon DEF Dispatcher!Candidates, IsPathOf, Asked

\* At most one route stands for what is asked for.
LEMMA NoneIsShadowed ==
    ASSUME Dispatcher!Area \in AllAreas
    PROVE  Dispatcher!NoRouteIsShadowed
<1>. SUFFICES ASSUME NEW one \in Dispatcher!Candidates, NEW two \in Dispatcher!Candidates,
                     Method(one) = Method(two)
              PROVE  one = two
    BY Zenon DEF Dispatcher!NoRouteIsShadowed, Method
<1>1. /\ Dispatcher!Area # "elsewhere"
      /\ one \in Dispatcher!RoutesOf(Dispatcher!Area) /\ IsPathOf(Asked, one)
      /\ two \in Dispatcher!RoutesOf(Dispatcher!Area) /\ IsPathOf(Asked, two)
    BY CandidatesOf
<1>2. CASE Dispatcher!Area = "auth"
    BY <1>1, <1>2, AuthRoutesAreApart DEF Dispatcher!RoutesOf, Dispatcher!DbRoutes
<1>3. CASE Dispatcher!Area = "submission"
    BY <1>1, <1>3, SubmissionRoutesAreApart DEF Dispatcher!RoutesOf, Dispatcher!DbRoutes
<1>4. CASE Dispatcher!Area = "problem"
    BY <1>1, <1>4, ProblemRoutesAreApart DEF Dispatcher!RoutesOf, Dispatcher!DbRoutes
<1>5. CASE Dispatcher!Area = "user"
    BY <1>1, <1>5, UserRoutesAreApart DEF Dispatcher!RoutesOf, Dispatcher!DbRoutes
<1>6. CASE Dispatcher!Area = "system"
    BY <1>1, <1>6, SystemRoutesAreApart
<1>. QED
    BY <1>1, <1>2, <1>3, <1>4, <1>5, <1>6 DEF AllAreas, Dispatcher!Areas

\* The table that is dispatched through has all the routes the request may be meant for.
LEMMA DbCandidates ==
    ASSUME Dispatcher!Area \in {"auth", "submission", "problem", "user"}, NEW route
    PROVE  route \in Dispatcher!Candidates <=>
               MayServe(Dispatcher!DbRoutes(Dispatcher!Area), route)
<1>1. Dispatcher!Area # "system" /\ Dispatcher!Area # "elsewhere"
    OBVIOUS
<1>2. Dispatcher!RoutesOf(Dispatcher!Area)
          = Dispatcher!ToSet(Dispatcher!DbRoutes(Dispatcher!Area))
    BY <1>1, Zenon DEF Dispatcher!RoutesOf
<1>. QED
    BY <1>1, <1>2, CandidatesOf, MatchingIsOfPaths, Zenon DEF MayServe, Dispatcher!ToSet

\* The status is the only route of the system that uses the database.
LEMMA SystemNames ==
    /\ DOMAIN Dispatcher!SystemDbRoutes = {1}
    /\ Dispatcher!SystemDbRoutes[1].name = "get_status"
    /\ Dispatcher!SystemDbRoutes[1].pattern = <<Dispatcher!Lit("status")>>
    /\ \A i \in DOMAIN Dispatcher!SystemPublicRoutes :
          Dispatcher!SystemPublicRoutes[i].name \in PublicSystemEndpoints
BY DEF Dispatcher!SystemDbRoutes, Dispatcher!SystemPublicRoutes, Dispatcher!Route,
       PublicSystemEndpoints

LEMMA SystemCandidates ==
    ASSUME Dispatcher!Area = "system", NEW route
    PROVE  /\ Dispatcher!IsDbBackedSystem =>
                  (route \in Dispatcher!Candidates <=> MayServe(Dispatcher!SystemDbRoutes, route))
           /\ ~ Dispatcher!IsDbBackedSystem =>
                  (route \in Dispatcher!Candidates <=>
                      MayServe(Dispatcher!SystemPublicRoutes, route))
<1>1. Dispatcher!RoutesOf("system")
          = Dispatcher!ToSet(Dispatcher!SystemPublicRoutes)
            \cup Dispatcher!ToSet(Dispatcher!SystemDbRoutes)
    BY TablesAreSequences, RoutesOfTwoTables DEF Dispatcher!RoutesOf
<1>2. route \in Dispatcher!Candidates <=>
          /\ \/ MayServe(Dispatcher!SystemPublicRoutes, route)
             \/ MayServe(Dispatcher!SystemDbRoutes, route)
          /\ route.name = "get_status" => Dispatcher!Rest = <<"status">>
    BY <1>1, CandidatesOf, MatchingIsOfPaths, Zenon DEF MayServe, Dispatcher!ToSet
<1>3. MayServe(Dispatcher!SystemPublicRoutes, route) => route.name # "get_status"
    BY SystemNames, MatchingIsOfPaths DEF MayServe, PublicSystemEndpoints
<1>4. MayServe(Dispatcher!SystemDbRoutes, route) => route.name = "get_status"
    BY SystemNames, MatchingIsOfPaths DEF MayServe
<1>5. ASSUME Dispatcher!IsDbBackedSystem
      PROVE  ~ MayServe(Dispatcher!SystemPublicRoutes, route)
  <2>1. Dispatcher!Rest = <<"status">> /\ Asked = <<"status">>
    BY <1>5 DEF Dispatcher!IsDbBackedSystem, Asked, Dispatcher!Segments, Dispatcher!Last
  <2>2. Seg(Asked, 1) = "status"
    BY <2>1 DEF Seg
  <2>. QED
    BY <2>2, SystemPublicMatches, MatchingIsOfPaths DEF MayServe
<1>. QED
    BY <1>2, <1>3, <1>4, <1>5 DEF Dispatcher!IsDbBackedSystem

\* A table that has routes for a request has a first one.
LEMMA FirstOfSome ==
    ASSUME NEW S, S \subseteq Nat, S # {}
    PROVE  Dispatcher!Min(S) \in S
<1>. DEFINE Less == {pair \in Nat \X Nat : pair[1] < pair[2]}
<1>1. IsWellFoundedOn(Less, Nat)
    BY NatLessThanWellFounded DEF OpToRel
<1>. HIDE DEF Less
<1>2. PICK x \in S : \A y \in S : ~ (<<y, x>> \in Less)
    BY <1>1, WFMin
<1>3. \A y \in S : ~ (y < x)
    BY <1>2 DEF Less
<1>4. \A y \in S : x <= y
    BY <1>3
<1>. QED
    BY <1>4 DEF Dispatcher!Min

-----------------------------------------------------------------------------
(* Each request finds its route                                            *)

\* Until a handler is called nothing has been decided; the routes of the database are
\* looked at with a connection.
Undecided == stage \in {"arrived", "connected"} => invoked = "none" /\ refusal = 0
ConnectedForRoutes == stage = "connected" => has_lease /\ Dispatcher!HasDbRoutePrefix

RoutingInv ==
    /\ Dispatcher!Area \in AllAreas
    /\ Undecided
    /\ ConnectedForRoutes
    /\ Dispatcher!EveryRequestFindsItsRoute
    /\ Dispatcher!HandlersHaveTheirConnection

\* A step after which no handler is newly called and no path newly refused.
LEMMA RoutingStays ==
    ASSUME Dispatcher!EveryRequestFindsItsRoute, asked' = asked, invoked' = invoked,
           refusal' \notin {404, 405}
    PROVE  Dispatcher!EveryRequestFindsItsRoute'
<1>1. Dispatcher!Candidates' = Dispatcher!Candidates
    BY DEF Dispatcher!Candidates, Dispatcher!Area, Dispatcher!Rest
<1>. QED
    BY <1>1 DEF Dispatcher!EveryRequestFindsItsRoute

\* One dispatch through a table that has all the candidates.
LEMMA Dispatched ==
    ASSUME NEW table, DOMAIN table \subseteq Nat, Dispatcher!Dispatch(table),
           \A route : route \in Dispatcher!Candidates <=> MayServe(table, route),
           invoked = "none", refusal = 0
    PROVE  /\ Dispatcher!EveryRequestFindsItsRoute'
           /\ asked' = asked
           /\ \/ stage' = "answered"
              \/ /\ stage' = "handler" /\ has_lease' = has_lease
                 /\ \E i \in DOMAIN table : invoked' = table[i].name
<1>. DEFINE allowed == {i \in Dispatcher!Matching(table) : table[i].method = asked.method}
            wanted == {route \in Dispatcher!Candidates : route.method = asked.method}
<1>1. \A i \in Dispatcher!Matching(table) : i \in DOMAIN table /\ table[i] \in Dispatcher!Candidates
    BY Zenon DEF Dispatcher!Matching, MayServe
<1>2. CASE allowed # {}
  <2>1. Dispatcher!Invoke(table[Dispatcher!Min(allowed)])
    BY <1>2, Zenon DEF Dispatcher!Dispatch
  <2>2. PICK i \in allowed : i = Dispatcher!Min(allowed)
    <3>1. allowed \subseteq Nat
        BY <1>1
    <3>. QED
        BY <1>2, <3>1, FirstOfSome, Zenon
  <2>3. table[i] \in wanted /\ i \in DOMAIN table
    BY <1>1
  <2>4. /\ stage' = "handler" /\ invoked' = table[i].name
        /\ asked' = asked /\ has_lease' = has_lease /\ refusal' = refusal
    BY <2>1, <2>2, Zenon DEF Dispatcher!Invoke
  <2>5. Dispatcher!Candidates' = Dispatcher!Candidates
    BY <2>4 DEF Dispatcher!Candidates, Dispatcher!Area, Dispatcher!Rest
  <2>6. Dispatcher!EveryRequestFindsItsRoute'
    BY <2>3, <2>4, <2>5 DEF Dispatcher!EveryRequestFindsItsRoute
  <2>. QED
    BY <2>3, <2>4, <2>6
<1>3. CASE allowed = {}
  <2>1. Dispatcher!Respond(IF Dispatcher!Matching(table) # {} THEN 405 ELSE 404)
    BY <1>3, Zenon DEF Dispatcher!Dispatch
  <2>2. /\ stage' = "answered" /\ asked' = asked /\ invoked' = "none"
        /\ refusal' = IF Dispatcher!Matching(table) # {} THEN 405 ELSE 404
    BY <2>1 DEF Dispatcher!Respond
  <2>3. Dispatcher!Candidates' = Dispatcher!Candidates
    BY <2>2 DEF Dispatcher!Candidates, Dispatcher!Area, Dispatcher!Rest
  <2>4. wanted = {}
    <3>1. SUFFICES ASSUME NEW route \in wanted PROVE FALSE
        BY Zenon
    <3>2. PICK i \in Dispatcher!Matching(table) : route = table[i]
        BY <3>1, Zenon DEF MayServe
    <3>3. table[i].method = asked.method
        BY <3>1, <3>2, Zenon
    <3>. QED
        BY <1>3, <3>3, Zenon
  <2>5. Dispatcher!Matching(table) = {} <=> Dispatcher!Candidates = {}
    BY <1>1, Zenon DEF MayServe
  <2>6. Dispatcher!EveryRequestFindsItsRoute'
    BY <2>2, <2>3, <2>4, <2>5 DEF Dispatcher!EveryRequestFindsItsRoute
  <2>. QED
    BY <2>2, <2>6
<1>. QED
    BY <1>2, <1>3

LEMMA RoutesAreNumbered ==
    /\ DOMAIN Dispatcher!SystemDbRoutes \subseteq Nat
    /\ DOMAIN Dispatcher!SystemPublicRoutes \subseteq Nat
    /\ \A area \in {"auth", "submission", "problem", "user"} :
          DOMAIN Dispatcher!DbRoutes(area) \subseteq Nat
<1>1. /\ DOMAIN Dispatcher!SystemDbRoutes \subseteq Nat
      /\ DOMAIN Dispatcher!SystemPublicRoutes \subseteq Nat
      /\ DOMAIN Dispatcher!AuthRoutes \subseteq Nat
    BY DEF Dispatcher!SystemDbRoutes, Dispatcher!SystemPublicRoutes, Dispatcher!AuthRoutes
<1>2. ASSUME NEW table, table \in Seq(Dispatcher!ToSet(table))
      PROVE  DOMAIN table \subseteq Nat
    BY <1>2
<1>3. DOMAIN Dispatcher!SubmissionRoutes \subseteq Nat
    BY <1>2, TablesAreSequences, RoutesOfTwoTables DEF Dispatcher!SubmissionRoutes
<1>4. DOMAIN Dispatcher!UserRoutes \subseteq Nat
    BY <1>2, TablesAreSequences, RoutesOfTwoTables DEF Dispatcher!UserRoutes
<1>5. DOMAIN Dispatcher!ProblemRoutes \subseteq Nat
  <2>1. Dispatcher!ProblemQueryRoutes \o Dispatcher!ProblemCommandRoutes
            \in Seq(Dispatcher!ToSet(Dispatcher!ProblemQueryRoutes
                                     \o Dispatcher!ProblemCommandRoutes))
    BY TablesAreSequences, RoutesOfTwoTables
  <2>. QED
    BY <1>2, <2>1, TablesAreSequences, RoutesOfTwoTables DEF Dispatcher!ProblemRoutes
<1>. QED
    BY <1>1, <1>3, <1>4, <1>5 DEF Dispatcher!DbRoutes

LEMMA RoutingInit ==
    Dispatcher!Init => RoutingInv
<1>. SUFFICES ASSUME Dispatcher!Init PROVE RoutingInv
    OBVIOUS
<1>1. /\ asked.path \in Paths /\ stage = "arrived" /\ has_lease = FALSE
      /\ invoked = "none" /\ refusal = 0
    BY DEF Dispatcher!Init
<1>2. Dispatcher!Area \in AllAreas
    BY <1>1, PathsAssumption DEF Dispatcher!Area, AllAreas
<1>. QED
    BY <1>1, <1>2 DEF RoutingInv, Undecided, ConnectedForRoutes,
       Dispatcher!EveryRequestFindsItsRoute, Dispatcher!HandlersHaveTheirConnection

LEMMA RoutingNext ==
    RoutingInv /\ [Dispatcher!Next]_(Dispatcher!vars) => RoutingInv'
<1>. SUFFICES ASSUME RoutingInv, [Dispatcher!Next]_(Dispatcher!vars) PROVE RoutingInv'
    OBVIOUS
<1>. USE DEF RoutingInv, Undecided, ConnectedForRoutes, Dispatcher!HandlersHaveTheirConnection
<1>1. ASSUME asked' = asked
      PROVE  Dispatcher!Area' \in AllAreas
    BY <1>1 DEF Dispatcher!Area
<1>2. CASE Dispatcher!HandlePublicSystem
  <2>1. /\ stage = "arrived" /\ Dispatcher!Area = "system" /\ ~ Dispatcher!IsDbBackedSystem
        /\ Dispatcher!Dispatch(Dispatcher!SystemPublicRoutes)
    BY <1>2 DEF Dispatcher!HandlePublicSystem
  <2>2. \A route : route \in Dispatcher!Candidates <=>
            MayServe(Dispatcher!SystemPublicRoutes, route)
    BY <2>1, SystemCandidates
  <2>3. /\ Dispatcher!EveryRequestFindsItsRoute' /\ asked' = asked
        /\ \/ stage' = "answered"
           \/ /\ stage' = "handler"
              /\ \E i \in DOMAIN Dispatcher!SystemPublicRoutes :
                    invoked' = Dispatcher!SystemPublicRoutes[i].name
    BY <2>1, <2>2, Dispatched, RoutesAreNumbered
  <2>4. stage' = "handler" => invoked' \in Dispatcher!PublicSystemEndpoints
    BY <2>3, SystemNames DEF PublicSystemEndpoints, Dispatcher!PublicSystemEndpoints
  <2>5. Dispatcher!HandlersHaveTheirConnection'
    BY <2>4
  <2>. QED
    BY <2>3, <2>5, <1>1
<1>3. CASE Dispatcher!HandleElsewhere
  <2>1. Dispatcher!Area = "elsewhere" /\ Dispatcher!Respond(404) /\ invoked = "none"
    BY <1>3 DEF Dispatcher!HandleElsewhere, Dispatcher!HasDbRoutePrefix, AllAreas,
       Dispatcher!Areas
  <2>2. asked' = asked /\ stage' = "answered" /\ invoked' = "none" /\ refusal' = 404
    BY <2>1 DEF Dispatcher!Respond
  <2>3. Dispatcher!Candidates' = {}
    BY <2>1, <2>2 DEF Dispatcher!Candidates, Dispatcher!Area
  <2>. QED
    BY <1>1, <2>2, <2>3 DEF Dispatcher!EveryRequestFindsItsRoute
<1>4. CASE Dispatcher!AcquireConnection
  <2>1. stage = "arrived" /\ Dispatcher!HasDbRoutePrefix /\ invoked = "none" /\ refusal = 0
    BY <1>4 DEF Dispatcher!AcquireConnection
  <2>2. /\ asked' = asked /\ invoked' = invoked /\ refusal' \in {0, 500, 503}
        /\ \/ stage' = "answered"
           \/ stage' = "connected" /\ has_lease' = TRUE /\ refusal' = 0
    BY <1>4, <2>1 DEF Dispatcher!AcquireConnection, Dispatcher!Respond
  <2>3. Dispatcher!EveryRequestFindsItsRoute'
    BY <2>2, RoutingStays
  <2>4. Dispatcher!HasDbRoutePrefix'
    BY <2>1, <2>2 DEF Dispatcher!HasDbRoutePrefix, Dispatcher!IsDbBackedSystem,
       Dispatcher!Area, Dispatcher!Rest
  <2>. QED
    BY <1>1, <2>1, <2>2, <2>3, <2>4
<1>5. CASE Dispatcher!HandleRoute
  <2>1. /\ stage = "connected" /\ has_lease /\ Dispatcher!HasDbRoutePrefix
        /\ Dispatcher!Dispatch(Dispatcher!DbRoutes(Dispatcher!Area))
        /\ invoked = "none" /\ refusal = 0
    BY <1>5 DEF Dispatcher!HandleRoute
  <2>2. DOMAIN Dispatcher!DbRoutes(Dispatcher!Area) \subseteq Nat
    BY <2>1, RoutesAreNumbered DEF Dispatcher!DbRoutes, Dispatcher!HasDbRoutePrefix,
       Dispatcher!IsDbBackedSystem
  <2>3. \A route : route \in Dispatcher!Candidates <=>
            MayServe(Dispatcher!DbRoutes(Dispatcher!Area), route)
    <3>1. CASE Dispatcher!IsDbBackedSystem
      <4>1. Dispatcher!Area = "system"
            /\ Dispatcher!DbRoutes(Dispatcher!Area) = Dispatcher!SystemDbRoutes
        BY <3>1 DEF Dispatcher!IsDbBackedSystem, Dispatcher!DbRoutes
      <4>. QED
        BY <3>1, <4>1, SystemCandidates
    <3>2. CASE Dispatcher!Area \in {"auth", "submission", "problem", "user"}
        BY <3>2, DbCandidates
    <3>. QED
        BY <2>1, <3>1, <3>2 DEF Dispatcher!HasDbRoutePrefix
  <2>4. /\ Dispatcher!EveryRequestFindsItsRoute' /\ asked' = asked
        /\ \/ stage' = "answered"
           \/ stage' = "handler" /\ has_lease' = has_lease
    BY <2>1, <2>2, <2>3, Dispatched
  <2>. QED
    BY <1>1, <2>1, <2>4
<1>6. CASE Dispatcher!HandlerReturns
  <2>1. asked' = asked /\ invoked' = invoked /\ stage' = "answered" /\ refusal' = 0
    BY <1>6 DEF Dispatcher!HandlerReturns, Dispatcher!Respond
  <2>2. Dispatcher!EveryRequestFindsItsRoute'
    BY <2>1, RoutingStays
  <2>. QED
    BY <1>1, <2>1, <2>2
<1>7. CASE UNCHANGED Dispatcher!vars
    BY <1>7 DEF Dispatcher!vars, Dispatcher!Area, Dispatcher!Rest, Dispatcher!Candidates,
       Dispatcher!EveryRequestFindsItsRoute, Dispatcher!HasDbRoutePrefix,
       Dispatcher!IsDbBackedSystem
<1>. QED
    BY <1>2, <1>3, <1>4, <1>5, <1>6, <1>7 DEF Dispatcher!Next

\* Whatever is asked for, at most one route stands for it; the request reaches the handler
\* of that route, with a connection if it uses the database; 405 is for paths of other
\* methods, and a path that has a route is never said to have none
\* (http_dispatcher.cpp:42-160).
THEOREM RequestsFindTheirRoute ==
    Dispatcher!Spec => []EachFindsItsRoute
<1>1. RoutingInv => EachFindsItsRoute
    BY NoneIsShadowed DEF RoutingInv, EachFindsItsRoute
<1>. QED
    BY <1>1, RoutingInit, RoutingNext, PTL DEF Dispatcher!Spec
===============================================================================
