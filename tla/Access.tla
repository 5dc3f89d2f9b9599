------------------------------- MODULE Access -------------------------------
(***************************************************************************)
(* Who may do what, as it is written down twice: the routes of the API     *)
(* name the roles each call is for, and the pages of the browser decide    *)
(* whom they are shown to and which calls they make or offer.  A call is   *)
(* named after the function of api.js, or the handler, that makes it.      *)
(***************************************************************************)
CONSTANT Nobody \* nobody is signed in

Role == {"student", "faculty", "admin", "superadmin"}

ASSUME AccessAssumption == Nobody \notin Role /\ Nobody \notin {200, 401, 403, 503}

\* optionalVerifyToken, verifyToken, and the usual arguments of authorizeRoles.
Anyone   == Role \cup {Nobody}
SignedIn == Role
Staff    == {"faculty", "admin", "superadmin"}
Managers == {"admin", "superadmin"}
Students == {"student"}
Owners   == {"superadmin"}

\* Each of the calls, or pages, for each of the roles.
For(roles, calls) == roles \X calls

-----------------------------------------------------------------------------
\* The routes.

assessmentsRoutes ==
    For(Anyone, {"assessments.list"})
    \cup For(SignedIn, {"assessments.get", "getMyAttempt", "getAttempt", "getAttemptSubmissions",
                        "getAnnouncements", "saveDraft", "submitAttempt"})
    \cup For(Students, {"start", "logEvent", "raiseChallenge"})
    \cup For(Staff, {"assessments.create", "assessments.update", "listAttempts", "getAttendance",
                     "getAnalytics", "createAnnouncement", "lock", "unlock", "addGraceTime",
                     "resolveChallenge"})
    \cup For(Managers, {"assessments.delete"})

problemsRoutes ==
    For(Anyone, {"problems.list", "problems.get", "getStats"})
    \cup For(SignedIn, {"problems.run"})
    \cup For(Staff, {"problems.create", "problems.update"})
    \cup For(Managers, {"problems.delete"})

questionsRoutes ==
    For(Staff, {"questions.list", "tags", "select", "questions.get", "questions.create",
                "questions.update", "questions.delete"})

submissionsRoutes ==
    For(SignedIn, {"submit", "getMySubmissions", "getMyAnalytics", "getSubmissionById"})

\* admin.routes.js: accounts and the log, rejudging, and the system itself.
accountRoutes ==
    For(Staff, {"getAuditLogs", "listUsers", "resetPassword", "bulkImportStudents"})

rejudgeRoutes == For(Staff, {"rejudgeSubmission", "rejudgeProblem", "rejudgeAssessment"})

systemRoutes ==
    For(Staff, {"updateBanner"})
    \cup For(Managers, {"getSystemStats"})
    \cup For(Owners, {"downloadBackup", "restoreDatabase"})

billingRoutes ==
    For(SignedIn, {"getStatus"})
    \cup For(Managers, {"createCheckout", "createPortal"})
    \cup For(Owners, {"listColleges", "setCollegePlan"})

previewRoutes == For(Staff, {"preview", "validate"})
authRoutes    == For(Owners, {"register"}) \cup For(Anyone, {"signup", "login", "logout"})
healthRoutes  == For(Anyone, {"getBanner", "health", "ready"})

routes ==
    problemsRoutes \cup assessmentsRoutes \cup submissionsRoutes \cup previewRoutes \cup authRoutes
    \cup healthRoutes \cup accountRoutes \cup rejudgeRoutes \cup systemRoutes \cup questionsRoutes
    \cup billingRoutes

\* No token is answered with 401, the wrong role with 403.
verifyToken(call, who) ==
    IF <<who, call>> \in routes THEN 200 ELSE IF who = Nobody THEN 401 ELSE 403

-----------------------------------------------------------------------------
\* The pages.

\* Whom App shows a page to (RequireAuth, RequireRole).
AppRoutes ==
    For(Anyone, {"/", "/problems/:_id", "/login", "/signup"})
    \cup For(SignedIn, {"/assessments", "/assessments/:id", "/my-submissions"})
    \cup For(Students, {"/assessment-attempt/:attemptId", "/assessment-attempt/:attemptId/result"})
    \cup For(Staff, {"/questions", "/questions/add", "/questions/:id/edit",
                     "/admin/assessments", "/admin/assessments/add", "/admin/assessments/:id/edit",
                     "/admin/assessments/:id/preview", "/admin/assessments/:id/results",
                     "/admin/assessment-attempt/:attemptId", "/admin/system", "/admin/users",
                     "/add-problem", "/problems/:_id/edit"})
    \cup For(Managers, {"/admin/billing"})

Page == {r[2] : r \in AppRoutes}

\* Where someone who asks for a page ends up.
RequireRole(page, who) ==
    IF <<who, page>> \in AppRoutes THEN page ELSE IF who = Nobody THEN "/login" ELSE "/"

\* The pages syncAuth takes a user away from who is signed out.
protectedRoutes ==
    {"/add-problem", "/my-submissions", "/assessments", "/assessments/:id",
     "/assessment-attempt/:attemptId", "/assessment-attempt/:attemptId/result",
     "/admin/assessments", "/admin/assessments/add", "/admin/assessments/:id/edit",
     "/admin/assessments/:id/preview", "/admin/assessments/:id/results",
     "/admin/assessment-attempt/:attemptId", "/admin/system", "/admin/users", "/admin/billing"}

\* The calls of a page, when loading or by a button it shows.  ProblemPage looks at who
\* is signed in, AssessmentDetailsPage and BillingPage at the role; SystemDashboardPage
\* would, but App does not pass the user on.
ProblemPage(who) ==
    {"problems.get", "getStats"}
    \cup (IF who = Nobody THEN {}
          ELSE {"getMySubmissions", "getSubmissionById", "problems.run", "submit"})

AssessmentDetailsPage(who) ==
    {"assessments.get", "getMyAttempt"} \cup (IF who = "student" THEN {"start"} ELSE {})

BillingPage(who) ==
    {"getStatus", "createCheckout", "createPortal"}
    \cup (IF who = "superadmin" THEN {"listColleges", "setCollegePlan"} ELSE {})

AssessmentWorkspacePage ==
    {"getAttempt", "assessments.get", "problems.get", "saveDraft", "logEvent", "getAnnouncements",
     "submitAttempt", "getSubmissionById", "problems.run", "submit"}

AssessmentResultPage == {"getAttempt", "assessments.get", "getAttemptSubmissions", "raiseChallenge"}

AssessmentResultsPage ==
    {"assessments.get", "getAttendance", "getAnalytics", "createAnnouncement",
     "rejudgeAssessment", "rejudgeProblem", "lock", "unlock", "addGraceTime", "resolveChallenge"}

AssessmentAttemptDetailPage == {"getAttempt", "getAttemptSubmissions", "rejudgeSubmission"}
AssessmentManagementPage    == {"assessments.list", "assessments.delete"}
QuestionBankPage            == {"questions.list", "questions.delete", "tags"}
MySubmissionsPage           == {"getMySubmissions", "getSubmissionById"}
UserManagementPage          == {"listUsers", "bulkImportStudents", "resetPassword"}

SystemDashboardPage ==
    {"getBanner", "updateBanner", "downloadBackup", "restoreDatabase", "getSystemStats", "getAuditLogs"}

calls(page, who) ==
    CASE page = "/"                                       -> {"problems.list"}
      [] page = "/problems/:_id"                          -> ProblemPage(who)
      [] page = "/login"                                  -> {"login"}
      [] page = "/signup"                                 -> {"signup"}
      [] page = "/assessments"                            -> {"assessments.list"}
      [] page = "/assessments/:id"                        -> AssessmentDetailsPage(who)
      [] page = "/my-submissions"                         -> MySubmissionsPage
      [] page = "/assessment-attempt/:attemptId"          -> AssessmentWorkspacePage
      [] page = "/assessment-attempt/:attemptId/result"   -> AssessmentResultPage
      [] page = "/questions"                              -> QuestionBankPage
      [] page = "/questions/add"                          -> {"questions.create"}
      [] page = "/questions/:id/edit"                     -> {"questions.get", "questions.update"}
      [] page = "/admin/assessments"                      -> AssessmentManagementPage
      [] page = "/admin/assessments/add"                  -> {"problems.list", "assessments.create"}
      [] page = "/admin/assessments/:id/edit"             -> {"assessments.get", "problems.list", "assessments.update"}
      [] page = "/admin/assessments/:id/preview"          -> {"assessments.get"}
      [] page = "/admin/assessments/:id/results"          -> AssessmentResultsPage
      [] page = "/admin/assessment-attempt/:attemptId"    -> AssessmentAttemptDetailPage
      [] page = "/admin/system"                           -> SystemDashboardPage
      [] page = "/admin/users"                            -> UserManagementPage
      [] page = "/admin/billing"                          -> BillingPage(who)
      [] page = "/add-problem"                            -> {"validate", "problems.create"}
      [] page = "/problems/:_id/edit"                     -> {"problems.get", "validate", "problems.update"}
=============================================================================
