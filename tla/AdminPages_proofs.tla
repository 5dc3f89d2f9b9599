-------------------------- MODULE AdminPages_proofs --------------------------
(***************************************************************************)
(* Theorems about what stands behind the pages of the staff: who is signed *)
(* in, in any number of tabs of one browser; the lists, of any number of   *)
(* records and of requests under way; and the backup, for any collections  *)
(* and any number of uploads.                                              *)
(***************************************************************************)
EXTENDS Session, Listing, Backup, FiniteSetTheorems, SequenceTheorems, WellFoundedInduction, TLAPS

-----------------------------------------------------------------------------
(* Who is signed in.                                                       *)

\* Who has which calls, and which pages, over all tables.
LEMMA Routes ==
    ASSUME NEW who, NEW c
    PROVE  /\ /\ who \in Anyone
              /\ c \in {"problems.list", "problems.get", "getStats", "assessments.list", "login",
                        "signup", "getBanner"}
              => <<who, c>> \in routes
           /\ /\ who \in SignedIn
              /\ c \in {"assessments.get", "getMyAttempt", "getAttempt", "getAttemptSubmissions",
                        "getAnnouncements", "saveDraft", "submitAttempt", "problems.run", "submit",
                        "getMySubmissions", "getSubmissionById", "getStatus"}
              => <<who, c>> \in routes
           /\ who \in Students /\ c \in {"start", "logEvent", "raiseChallenge"}
              => <<who, c>> \in routes
           /\ /\ who \in Staff
              /\ c \in {"getAttendance", "getAnalytics", "createAnnouncement", "lock", "unlock",
                        "addGraceTime", "resolveChallenge", "assessments.create",
                        "assessments.update", "problems.create", "problems.update",
                        "questions.list", "tags", "questions.get", "questions.create",
                        "questions.update", "questions.delete", "getAuditLogs", "listUsers",
                        "resetPassword", "bulkImportStudents", "rejudgeSubmission",
                        "rejudgeProblem", "rejudgeAssessment", "updateBanner", "validate"}
              => <<who, c>> \in routes
           /\ /\ who \in Managers
              /\ c \in {"assessments.delete", "getSystemStats", "createCheckout", "createPortal"}
              => <<who, c>> \in routes
           /\ /\ who \in Owners
              /\ c \in {"downloadBackup", "restoreDatabase", "listColleges", "setCollegePlan"}
              => <<who, c>> \in routes
  BY DEF For, routes, problemsRoutes, assessmentsRoutes, submissionsRoutes, previewRoutes,
         authRoutes, healthRoutes, accountRoutes, rejudgeRoutes, systemRoutes, questionsRoutes,
         billingRoutes

OpenPages    == {"/", "/problems/:_id", "/login", "/signup"}
CommonPages  == {"/assessments", "/assessments/:id", "/my-submissions"}
StudentPages == {"/assessment-attempt/:attemptId", "/assessment-attempt/:attemptId/result"}
StaffPages   ==
    {"/questions", "/questions/add", "/questions/:id/edit", "/admin/assessments",
     "/admin/assessments/add", "/admin/assessments/:id/edit", "/admin/assessments/:id/preview",
     "/admin/assessments/:id/results", "/admin/assessment-attempt/:attemptId", "/admin/system",
     "/admin/users", "/add-problem", "/problems/:_id/edit"}

LEMMA PageTable ==
    ASSUME NEW who, NEW p
    PROVE  <<who, p>> \in AppRoutes <=>
              \/ who \in Anyone /\ p \in OpenPages
              \/ who \in SignedIn /\ p \in CommonPages
              \/ who \in Students /\ p \in StudentPages
              \/ who \in Staff /\ p \in StaffPages
              \/ who \in Managers /\ p = "/admin/billing"
  BY DEF For, AppRoutes, OpenPages, CommonPages, StudentPages, StaffPages

\* No page shows a call that is refused to the user it is shown to, but for Withheld.
Served(p, who) == \A c \in calls(p, who) : <<who, c>> \in routes \/ <<who, c>> \in Withheld

LEMMA OpenServed ==
    ASSUME NEW who \in Anyone, NEW p \in OpenPages
    PROVE  Served(p, who)
<1> USE AccessAssumption DEF Anyone, SignedIn, Students, Staff, Managers, Owners, Role
<1>1. CASE p = "/"
  BY <1>1, Routes DEF Served, calls
<1>2. CASE p = "/problems/:_id"
  BY <1>2, Routes DEF Served, calls, ProblemPage
<1>3. CASE p = "/login"
  BY <1>3, Routes DEF Served, calls
<1>4. CASE p = "/signup"
  BY <1>4, Routes DEF Served, calls
<1>. QED
  BY <1>1, <1>2, <1>3, <1>4 DEF OpenPages

LEMMA CommonServed ==
    ASSUME NEW who \in SignedIn, NEW p \in CommonPages
    PROVE  Served(p, who)
<1> USE AccessAssumption DEF Anyone, SignedIn, Students, Staff, Managers, Owners, Role
<1>1. CASE p = "/assessments"
  BY <1>1, Routes DEF Served, calls
<1>2. CASE p = "/assessments/:id"
  BY <1>2, Routes DEF Served, calls, AssessmentDetailsPage
<1>3. CASE p = "/my-submissions"
  BY <1>3, Routes DEF Served, calls, MySubmissionsPage
<1>. QED
  BY <1>1, <1>2, <1>3 DEF CommonPages

LEMMA StudentServed ==
    ASSUME NEW who \in Students, NEW p \in StudentPages
    PROVE  Served(p, who)
<1> USE AccessAssumption DEF Anyone, SignedIn, Students, Staff, Managers, Owners, Role
<1>1. CASE p = "/assessment-attempt/:attemptId"
  BY <1>1, Routes DEF Served, calls, AssessmentWorkspacePage
<1>2. CASE p = "/assessment-attempt/:attemptId/result"
  BY <1>2, Routes DEF Served, calls, AssessmentResultPage
<1>. QED
  BY <1>1, <1>2 DEF StudentPages

LEMMA StaffServed ==
    ASSUME NEW who \in Staff, NEW p \in StaffPages
    PROVE  Served(p, who)
<1> USE AccessAssumption DEF Anyone, SignedIn, Students, Staff, Managers, Owners, Role
<1>1. CASE p = "/questions"
  BY <1>1, Routes DEF Served, calls, QuestionBankPage
<1>2. CASE p = "/questions/add"
  BY <1>2, Routes DEF Served, calls
<1>3. CASE p = "/questions/:id/edit"
  BY <1>3, Routes DEF Served, calls
<1>4. CASE p = "/admin/assessments"
  BY <1>4, Routes DEF Served, calls, AssessmentManagementPage, Withheld
<1>5. CASE p = "/admin/assessments/add"
  BY <1>5, Routes DEF Served, calls
<1>6. CASE p = "/admin/assessments/:id/edit"
  BY <1>6, Routes DEF Served, calls
<1>7. CASE p = "/admin/assessments/:id/preview"
  BY <1>7, Routes DEF Served, calls
<1>8. CASE p = "/admin/assessments/:id/results"
  BY <1>8, Routes DEF Served, calls, AssessmentResultsPage
<1>9. CASE p = "/admin/assessment-attempt/:attemptId"
  BY <1>9, Routes DEF Served, calls, AssessmentAttemptDetailPage
<1>10. CASE p = "/admin/system"
  BY <1>10, Routes DEF Served, calls, SystemDashboardPage, Withheld
<1>11. CASE p = "/admin/users"
  BY <1>11, Routes DEF Served, calls, UserManagementPage
<1>12. CASE p = "/add-problem"
  BY <1>12, Routes DEF Served, calls
<1>13. CASE p = "/problems/:_id/edit"
  BY <1>13, Routes DEF Served, calls
<1>. QED
  BY <1>1, <1>2, <1>3, <1>4, <1>5, <1>6, <1>7, <1>8, <1>9, <1>10, <1>11, <1>12, <1>13 DEF StaffPages

LEMMA BillingServed ==
    ASSUME NEW who \in Managers
    PROVE  Served("/admin/billing", who)
  BY Routes DEF Served, calls, BillingPage, SignedIn, Managers, Owners, Role

LEMMA ShownServed ==
    ASSUME NEW p, NEW who, <<who, p>> \in AppRoutes
    PROVE  Served(p, who)
  BY PageTable, OpenServed, CommonServed, StudentServed, StaffServed, BillingServed

LEMMA Reached ==
    ASSUME NEW page, NEW who \in Anyone
    PROVE  <<who, RequireRole(page, who)>> \in AppRoutes
<1>1. CASE <<who, page>> \in AppRoutes
  BY <1>1 DEF RequireRole
<1>2. CASE <<who, page>> \notin AppRoutes
  <2>1. RequireRole(page, who) \in {"/login", "/"}
    BY <1>2 DEF RequireRole
  <2>. QED
    BY <2>1, PageTable DEF OpenPages
<1>. QED
  BY <1>1, <1>2

BrowserCall ==
    {c \in [kind : {"none", "login", "signup", "logout", "page"}, who : Anyone,
            reply : {Nobody, 200, 401, 403, 503}] :
        c.kind = "logout" => c.who = Nobody}

BrowserTypeOK ==
    /\ cookie \in Anyone /\ cached \in Anyone /\ shown \in [Tab -> Anyone]
    /\ DOMAIN at = Tab /\ inbox \in [Tab -> BOOLEAN] /\ call \in [Tab -> BrowserCall]
    /\ crossed \in BOOLEAN /\ scene \in Scenes

\* Every tab is on a page of the user it shows.
Placed == \A t \in Tab : <<shown[t], at[t]>> \in AppRoutes

\* A sign-in the API has granted, and whose tab has not heard of it.
Granted(t) == SigningIn(t) /\ call[t].reply = 200

\* Sign-ins come one at a time; the cookie is that of a granted one, or else that of the user
\* the tabs name.
Orderly ==
    ~crossed =>
      /\ \A s, t \in scene.tabs : SigningIn(s) /\ SigningIn(t) => s = t
      /\ \A t \in scene.tabs : Granted(t) => cookie \in {Nobody, call[t].who}
      /\ (\A t \in scene.tabs : ~Granted(t)) => cookie = Nobody \/ cached \in {Nobody, cookie}

BrowserInv == BrowserTypeOK /\ Placed /\ TabsAgree /\ Orderly

LEMMA BrowserInit == InitSession => BrowserInv
<1> SUFFICES ASSUME InitSession PROVE BrowserInv
  OBVIOUS
<1>1. Nobody \in Anyone /\ NoCall \in BrowserCall /\ NoCall.kind = "none"
  BY DEF Anyone, NoCall, BrowserCall
<1>2. BrowserTypeOK
  BY <1>1 DEF InitSession, BrowserTypeOK
<1>3. Placed
  BY <1>1, PageTable DEF InitSession, Placed, OpenPages
<1>4. TabsAgree
  BY SessionAssumption DEF InitSession, TabsAgree
<1>5. Orderly
  <2>1. \A t \in Tab : ~SigningIn(t)
    BY <1>1 DEF InitSession, SigningIn, Pending
  <2>2. scene.tabs \subseteq Tab
    BY SessionAssumption DEF InitSession
  <2>. QED
    BY <2>1, <2>2 DEF InitSession, Orderly, Granted
<1>. QED
  BY <1>2, <1>3, <1>4, <1>5 DEF BrowserInv

\* What a tab does that neither stores nor signs in.
LEMMA MoveSteps ==
    ASSUME BrowserInv, UNCHANGED scene, NEW t \in scene.tabs, visit(t) \/ handleStorage(t)
    PROVE  BrowserInv'
<1>0. /\ BrowserTypeOK /\ Placed /\ TabsAgree /\ Orderly /\ t \in Tab /\ scene.tabs \subseteq Tab
      /\ cached \in Anyone /\ shown[t] \in Anyone
  BY SessionAssumption DEF BrowserInv, BrowserTypeOK
<1>1. CASE visit(t)
  <2>1. PICK page : at' = [at EXCEPT ![t] = RequireRole(page, shown[t])]
    BY <1>1 DEF visit
  <2>2. UNCHANGED <<cookie, cached, shown, inbox, call, crossed>>
    BY <1>1 DEF visit
  <2>3. BrowserTypeOK'
    BY <1>0, <2>1, <2>2 DEF BrowserTypeOK
  <2>4. Placed'
    BY <1>0, <2>1, <2>2, Reached DEF Placed, BrowserTypeOK
  <2>5. TabsAgree' /\ Orderly'
    BY <1>0, <2>2 DEF TabsAgree, Orderly, Granted, SigningIn, Pending
  <2>. QED
    BY <2>3, <2>4, <2>5 DEF BrowserInv
<1>2. CASE handleStorage(t)
  <2>1. PICK page : /\ shown' = [shown EXCEPT ![t] = cached]
                    /\ at' = [at EXCEPT ![t] = RequireRole(page, cached)]
    BY <1>2 DEF handleStorage, syncAuth
  <2>2. inbox' = [inbox EXCEPT ![t] = FALSE] /\ UNCHANGED <<cookie, cached, call, crossed>>
    BY <1>2 DEF handleStorage
  <2>3. BrowserTypeOK'
    BY <1>0, <2>1, <2>2 DEF BrowserTypeOK
  <2>4. Placed'
    BY <1>0, <2>1, <2>2, Reached DEF Placed, BrowserTypeOK
  <2>5. TabsAgree'
    BY <1>0, <2>1, <2>2 DEF TabsAgree, BrowserTypeOK
  <2>6. Orderly'
    BY <1>0, <2>2 DEF Orderly, Granted, SigningIn, Pending
  <2>. QED
    BY <2>3, <2>4, <2>5, <2>6 DEF BrowserInv
<1>. QED
  BY <1>1, <1>2

\* What a tab sends.
LEMMA SendSteps ==
    ASSUME BrowserInv, UNCHANGED scene, NEW t \in scene.tabs,
           handleSubmit(t) \/ request(t) \/ logout(t)
    PROVE  BrowserInv'
<1>0. /\ BrowserTypeOK /\ Placed /\ TabsAgree /\ Orderly /\ t \in Tab /\ scene.tabs \subseteq Tab
      /\ scene.users \subseteq Role
  BY SessionAssumption DEF BrowserInv, BrowserTypeOK
<1>1. UNCHANGED <<cookie, cached, shown, at, inbox>>
  BY DEF handleSubmit, request, logout
<1>2. Placed' /\ TabsAgree'
  BY <1>0, <1>1 DEF Placed, TabsAgree
<1>3. call[t] = NoCall /\ ~SigningIn(t)
  BY DEF handleSubmit, request, logout, NoCall, SigningIn, Pending
<1>4. CASE handleSubmit(t)
  <2>1. PICK who \in scene.users, k \in {"login", "signup"} :
           call' = [call EXCEPT ![t] = [kind |-> k, who |-> who, reply |-> Nobody]]
    BY <1>4 DEF handleSubmit
  <2> DEFINE c == [kind |-> k, who |-> who, reply |-> Nobody]
  <2>2. c \in BrowserCall /\ c.reply # 200
    BY <1>0, AccessAssumption DEF BrowserCall, Anyone
  <2>3. crossed' = (crossed \/ \E x \in Tab : SigningIn(x))
    BY <1>4 DEF handleSubmit
  <2>4. call' = [call EXCEPT ![t] = c]
    BY <2>1
  <2> HIDE DEF c
  <2>5. BrowserTypeOK'
    BY <1>0, <1>1, <2>2, <2>3, <2>4 DEF BrowserTypeOK
  <2>6. Orderly'
    <3> SUFFICES ASSUME ~crossed' PROVE Orderly'
      BY DEF Orderly
    <3>1. ~crossed /\ \A x \in Tab : ~SigningIn(x)
      BY <1>0, <2>3 DEF BrowserTypeOK
    <3>2. /\ call'[t] = c
          /\ \A x \in Tab \ {t} : call'[x] = call[x]
      BY <1>0, <2>4 DEF BrowserTypeOK
    <3>3. \A x \in Tab \ {t} : ~SigningIn(x)'
      BY <3>1, <3>2 DEF SigningIn, Pending
    <3>4. \A x \in Tab : ~Granted(x)' /\ ~Granted(x)
      BY <2>2, <3>1, <3>2, <3>3 DEF Granted
    <3>. QED
      BY <1>0, <1>1, <3>1, <3>3, <3>4 DEF Orderly
  <2>. QED
    BY <1>2, <2>5, <2>6 DEF BrowserInv
<1>5. CASE request(t) \/ logout(t)
  <2>1. PICK c \in BrowserCall : c.kind \in {"page", "logout"} /\ call' = [call EXCEPT ![t] = c]
    <3>1. CASE request(t)
      <4>1. PICK a : call' = [call EXCEPT ![t] =
                                [kind |-> "page", who |-> cookie, reply |-> verifyToken(a, cookie)]]
        BY <3>1 DEF request
      <4>2. verifyToken(a, cookie) \in {200, 401, 403}
        BY DEF verifyToken
      <4>3. [kind |-> "page", who |-> cookie, reply |-> verifyToken(a, cookie)] \in BrowserCall
        BY <1>0, <4>2 DEF BrowserCall, BrowserTypeOK
      <4>. QED
        BY <4>1, <4>3
    <3>2. CASE logout(t)
      <4>1. [kind |-> "logout", who |-> Nobody, reply |-> Nobody] \in BrowserCall
        BY DEF BrowserCall, Anyone
      <4>. QED
        BY <3>2, <4>1 DEF logout
    <3>. QED
      BY <1>5, <3>1, <3>2
  <2>2. UNCHANGED crossed
    BY <1>5 DEF request, logout
  <2>3. BrowserTypeOK'
    BY <1>0, <1>1, <2>1, <2>2 DEF BrowserTypeOK
  <2>4. /\ call'[t] = c
        /\ \A x \in Tab \ {t} : call'[x] = call[x]
    BY <1>0, <2>1 DEF BrowserTypeOK
  <2>5. \A x \in Tab : SigningIn(x)' <=> SigningIn(x)
    BY <1>3, <2>1, <2>4 DEF SigningIn, Pending
  <2>6. \A x \in Tab : Granted(x)' <=> Granted(x)
    BY <1>3, <2>4, <2>5 DEF Granted
  <2>7. \A x \in Tab : Granted(x) => call'[x] = call[x]
    BY <1>3, <2>4 DEF Granted
  <2>8. Orderly'
    BY <1>0, <1>1, <2>2, <2>5, <2>6, <2>7 DEF Orderly
  <2>. QED
    BY <1>2, <2>3, <2>8 DEF BrowserInv
<1>. QED
  BY <1>4, <1>5

\* Calls that are given up, and answers on their way.
LEMMA CallSteps ==
    ASSUME BrowserInv, UNCHANGED scene,
           \/ expire
           \/ \E t \in scene.tabs :
                 reload(t) \/ \E got \in {200, 401, 503} : answer(t, got)
    PROVE  BrowserInv'
<1>0. /\ BrowserTypeOK /\ Placed /\ TabsAgree /\ Orderly /\ scene.tabs \subseteq Tab
      /\ Nobody \in Anyone
  BY SessionAssumption DEF BrowserInv, BrowserTypeOK, Anyone
<1>1. CASE expire
  <2>1. cookie' = Nobody /\ UNCHANGED <<cached, shown, at, inbox, call, crossed>>
    BY <1>1 DEF expire
  <2>2. BrowserTypeOK' /\ Placed' /\ TabsAgree'
    BY <1>0, <2>1 DEF BrowserTypeOK, Placed, TabsAgree
  <2>3. Orderly'
    BY <1>0, <2>1 DEF Orderly, Granted, SigningIn, Pending
  <2>. QED
    BY <2>2, <2>3 DEF BrowserInv
<1>2. ASSUME NEW t \in scene.tabs, reload(t) PROVE BrowserInv'
  <2>1. /\ shown' = [shown EXCEPT ![t] = cached]
        /\ at' = [at EXCEPT ![t] = RequireRole(at[t], cached)]
        /\ inbox' = [inbox EXCEPT ![t] = FALSE]
        /\ call' = [call EXCEPT ![t] = NoCall]
        /\ crossed' = (crossed \/ SigningIn(t))
        /\ UNCHANGED cached
    BY <1>2 DEF reload
  <2>2. /\ cookie' \in {cookie, Nobody, call[t].who}
        /\ ~SigningIn(t) => cookie' \in {cookie, Nobody}
    BY <1>2 DEF reload
  <2>3. NoCall \in BrowserCall /\ NoCall.kind = "none"
    BY <1>0 DEF NoCall, BrowserCall
  <2>4. t \in Tab /\ call[t] \in BrowserCall /\ call[t].who \in Anyone /\ cached \in Anyone
    BY <1>0 DEF BrowserTypeOK, BrowserCall
  <2>5. crossed' \in BOOLEAN
    <3>1. SigningIn(t) \in BOOLEAN
      BY DEF SigningIn, Pending
    <3>. QED
      BY <2>1
  <2>6. BrowserTypeOK'
    BY <1>0, <2>1, <2>2, <2>3, <2>4, <2>5 DEF BrowserTypeOK
  <2>7. Placed'
    BY <1>0, <2>1, <2>4, Reached DEF Placed, BrowserTypeOK
  <2>8. TabsAgree'
    BY <1>0, <2>1, <2>4 DEF TabsAgree, BrowserTypeOK
  <2>9. Orderly'
    <3> SUFFICES ASSUME ~crossed' PROVE Orderly'
      BY DEF Orderly
    <3>1. ~crossed /\ ~SigningIn(t)
      BY <2>1
    <3>2. /\ call'[t] = NoCall
          /\ \A x \in Tab \ {t} : call'[x] = call[x]
      BY <1>0, <2>1, <2>4 DEF BrowserTypeOK
    <3>3. \A x \in Tab : SigningIn(x)' <=> SigningIn(x)
      BY <2>3, <3>1, <3>2 DEF SigningIn, Pending
    <3>4. \A x \in Tab : (Granted(x)' <=> Granted(x)) /\ (Granted(x) => call'[x] = call[x])
      BY <3>1, <3>2, <3>3 DEF Granted
    <3>. QED
      BY <1>0, <2>1, <2>2, <3>1, <3>3, <3>4 DEF Orderly
  <2>. QED
    BY <2>6, <2>7, <2>8, <2>9 DEF BrowserInv
<1>3. ASSUME NEW t \in scene.tabs, NEW got \in {200, 401, 503}, answer(t, got)
      PROVE  BrowserInv'
  <2>1. /\ call[t].kind \in {"login", "signup", "logout"} /\ call[t].reply = Nobody
        /\ call' = [call EXCEPT ![t].reply = got]
        /\ cookie' = IF got = 200 THEN call[t].who ELSE cookie
        /\ UNCHANGED <<cached, shown, at, inbox, crossed>>
    BY <1>3 DEF answer, Pending
  <2> DEFINE c == [call[t] EXCEPT !.reply = got]
  <2>2. t \in Tab /\ call[t] \in BrowserCall
    BY <1>0 DEF BrowserTypeOK
  <2>3. /\ c \in BrowserCall /\ c.kind = call[t].kind /\ c.who = call[t].who /\ c.reply = got
        /\ call[t].who \in Anyone /\ (call[t].kind = "logout" => call[t].who = Nobody)
    BY <2>2 DEF BrowserCall
  <2>4. call' = [call EXCEPT ![t] = c]
    BY <1>0, <2>1 DEF BrowserTypeOK
  <2> HIDE DEF c
  <2>5. BrowserTypeOK'
    BY <1>0, <2>1, <2>3, <2>4 DEF BrowserTypeOK
  <2>6. Placed' /\ TabsAgree'
    BY <1>0, <2>1 DEF Placed, TabsAgree
  <2>7. /\ call'[t] = c
        /\ \A x \in Tab \ {t} : call'[x] = call[x]
    BY <1>0, <2>2, <2>4 DEF BrowserTypeOK
  <2>8. \A x \in Tab : SigningIn(x)' <=> SigningIn(x)
    BY <2>2, <2>3, <2>7 DEF SigningIn, Pending
  <2>9. \A x \in Tab : call'[x].who = call[x].who
    BY <2>3, <2>7
  <2>10. \A x \in Tab \ {t} : Granted(x)' <=> Granted(x)
    BY <2>7, <2>8 DEF Granted
  <2>11. ~Granted(t)
    BY <2>1, AccessAssumption DEF Granted
  <2>12. Orderly'
    <3> SUFFICES ASSUME ~crossed' PROVE Orderly'
      BY DEF Orderly
    <3>1. ~crossed
      BY <2>1
    <3>2. CASE SigningIn(t)
      <4>1. \A x \in scene.tabs \ {t} : ~SigningIn(x) /\ ~Granted(x)
        BY <1>0, <3>1, <3>2 DEF Orderly, Granted
      <4>2. \A x \in scene.tabs \ {t} : ~SigningIn(x)' /\ ~Granted(x)'
        BY <1>0, <2>8, <2>10, <4>1
      <4>3. Granted(t)' => got = 200
        BY <2>3, <2>7 DEF Granted
      <4>4. got = 200 => Granted(t)'
        BY <1>0, <2>2, <2>3, <2>7, <2>8, <3>2 DEF Granted
      <4>5. cookie = Nobody \/ cached \in {Nobody, cookie}
        BY <1>0, <2>11, <3>1, <4>1 DEF Orderly
      <4>6. call'[t].who = call[t].who
        BY <2>2, <2>9
      <4>. QED
        BY <1>3, <2>1, <4>2, <4>3, <4>4, <4>5, <4>6 DEF Orderly
    <3>3. CASE ~SigningIn(t)
      <4>1. cookie' \in {cookie, Nobody}
        BY <2>1, <2>3, <3>3 DEF SigningIn, Pending
      <4>2. \A x \in Tab : Granted(x)' <=> Granted(x)
        BY <2>2, <2>8, <2>10, <2>11, <3>3 DEF Granted
      <4>. QED
        BY <1>0, <2>1, <2>8, <2>9, <3>1, <4>1, <4>2 DEF Orderly
    <3>. QED
      BY <3>2, <3>3
  <2>. QED
    BY <2>5, <2>6, <2>12 DEF BrowserInv
<1>. QED
  BY <1>1, <1>2, <1>3

\* A tab goes on with its answer.
LEMMA ProceedSteps ==
    ASSUME BrowserInv, UNCHANGED scene, NEW t \in scene.tabs, proceed(t)
    PROVE  BrowserInv'
<1>0. /\ BrowserTypeOK /\ Placed /\ TabsAgree /\ Orderly /\ scene.tabs \subseteq Tab
      /\ Nobody \in Anyone /\ t \in Tab /\ call[t] \in BrowserCall /\ call[t].who \in Anyone
  BY SessionAssumption DEF BrowserInv, BrowserTypeOK, Anyone, BrowserCall
<1>1. /\ call' = [call EXCEPT ![t] = NoCall] /\ UNCHANGED cookie
      /\ crossed' = (crossed /\ (cached' # Nobody \/ \E x \in Tab \ {t} : SigningIn(x)))
  BY DEF proceed
<1>2. \/ Granted(t) /\ \E page : store(t, call[t].who) /\ syncAuth(t, call[t].who, page)
      \/ ~Granted(t) /\ \E page : store(t, Nobody) /\ syncAuth(t, Nobody, page)
      \/ ~Granted(t) /\ UNCHANGED <<cached, shown, at, inbox>>
  <2>1. CASE signedIn(t)
    BY <2>1 DEF signedIn, Granted
  <2>2. CASE unauthorized(t)
    BY <2>2 DEF unauthorized, Granted
  <2>3. CASE handleLogout(t)
    BY <2>3 DEF handleLogout, Granted, SigningIn, Pending
  <2>4. CASE ignored(t)
    BY <2>4 DEF ignored, Granted, SigningIn, Pending
  <2>. QED
    BY <2>1, <2>2, <2>3, <2>4 DEF proceed
<1>3. NoCall \in BrowserCall /\ NoCall.kind = "none"
  BY <1>0 DEF NoCall, BrowserCall
<1>4. crossed' \in BOOLEAN
  BY <1>0, <1>1 DEF BrowserTypeOK
<1>5. /\ call'[t] = NoCall
      /\ \A x \in Tab \ {t} : call'[x] = call[x]
  BY <1>0, <1>1 DEF BrowserTypeOK
<1>6. \A x \in Tab : SigningIn(x)' <=> x # t /\ SigningIn(x)
  BY <1>3, <1>5 DEF SigningIn, Pending
<1>7. \A x \in Tab : Granted(x)' <=> x # t /\ Granted(x)
  BY <1>5, <1>6 DEF Granted
<1>8. CASE \E who \in Anyone : /\ \E page : store(t, who) /\ syncAuth(t, who, page)
                               /\ who = IF Granted(t) THEN call[t].who ELSE Nobody
  <2>1. PICK who \in Anyone :
           /\ cached' = who
           /\ inbox' = IF who = cached THEN inbox ELSE [x \in Tab |-> inbox[x] \/ x # t]
           /\ shown' = [shown EXCEPT ![t] = who]
           /\ \E page : at' = [at EXCEPT ![t] = RequireRole(page, who)]
           /\ who = IF Granted(t) THEN call[t].who ELSE Nobody
    BY <1>8 DEF store, syncAuth
  <2>2. inbox' \in [Tab -> BOOLEAN]
    BY <1>0, <2>1 DEF BrowserTypeOK
  <2>3. BrowserTypeOK'
    BY <1>0, <1>1, <1>3, <1>4, <2>1, <2>2 DEF BrowserTypeOK
  <2>4. Placed'
    BY <1>0, <2>1, Reached DEF Placed, BrowserTypeOK
  <2>5. TabsAgree'
    <3> SUFFICES ASSUME NEW x \in scene.tabs PROVE inbox'[x] \/ shown'[x] = cached'
      BY DEF TabsAgree
    <3>1. CASE x = t
      BY <1>0, <2>1, <3>1 DEF BrowserTypeOK
    <3>2. CASE x # t
      <4>1. shown'[x] = shown[x] /\ x \in Tab
        BY <1>0, <2>1, <3>2 DEF BrowserTypeOK
      <4>2. CASE who = cached
        BY <1>0, <2>1, <4>1, <4>2 DEF TabsAgree
      <4>3. CASE who # cached
        <5>1. inbox'[x] = (inbox[x] \/ x # t)
          BY <2>1, <4>1, <4>3
        <5>. QED
          BY <3>2, <5>1
      <4>. QED
        BY <4>2, <4>3
    <3>. QED
      BY <3>1, <3>2
  <2>6. Orderly'
    <3> SUFFICES ASSUME ~crossed' PROVE Orderly'
      BY DEF Orderly
    <3>1. CASE crossed
      <4>1. who = Nobody /\ \A x \in Tab \ {t} : ~SigningIn(x)
        BY <1>1, <2>1, <3>1
      <4>2. \A x \in Tab : ~SigningIn(x)' /\ ~Granted(x)'
        BY <1>6, <4>1 DEF Granted
      <4>. QED
        BY <1>0, <2>1, <4>1, <4>2 DEF Orderly
    <3>2. CASE ~crossed
      <4>1. \A x, y \in scene.tabs : SigningIn(x)' /\ SigningIn(y)' => x = y
        BY <1>0, <1>6, <3>2 DEF Orderly
      <4>2. \A x \in scene.tabs : Granted(x)' => cookie' \in {Nobody, call'[x].who}
        BY <1>0, <1>1, <1>5, <1>7, <3>2 DEF Orderly
      <4>3. cookie' = Nobody \/ cached' \in {Nobody, cookie'}
        BY <1>0, <1>1, <2>1, <3>2 DEF Orderly
      <4>. QED
        BY <4>1, <4>2, <4>3 DEF Orderly
    <3>. QED
      BY <3>1, <3>2
  <2>. QED
    BY <2>3, <2>4, <2>5, <2>6 DEF BrowserInv
<1>9. CASE ~Granted(t) /\ UNCHANGED <<cached, shown, at, inbox>>
  <2>1. BrowserTypeOK' /\ Placed' /\ TabsAgree'
    BY <1>0, <1>1, <1>3, <1>4, <1>9 DEF BrowserTypeOK, Placed, TabsAgree
  <2>2. Orderly'
    <3> SUFFICES ASSUME ~crossed' PROVE Orderly'
      BY DEF Orderly
    <3>1. CASE crossed
      <4>1. cached' = Nobody /\ \A x \in Tab \ {t} : ~SigningIn(x)
        BY <1>1, <3>1
      <4>2. \A x \in Tab : ~SigningIn(x)' /\ ~Granted(x)'
        BY <1>6, <4>1 DEF Granted
      <4>. QED
        BY <1>0, <4>1, <4>2 DEF Orderly
    <3>2. CASE ~crossed
      <4>1. \A x, y \in scene.tabs : SigningIn(x)' /\ SigningIn(y)' => x = y
        BY <1>0, <1>6, <3>2 DEF Orderly
      <4>2. \A x \in scene.tabs : Granted(x)' => cookie' \in {Nobody, call'[x].who}
        BY <1>0, <1>1, <1>5, <1>7, <3>2 DEF Orderly
      <4>3. (\A x \in scene.tabs : ~Granted(x)') => \A x \in scene.tabs : ~Granted(x)
        BY <1>0, <1>7, <1>9
      <4>. QED
        BY <1>0, <1>1, <1>9, <3>2, <4>1, <4>2, <4>3 DEF Orderly
    <3>. QED
      BY <3>1, <3>2
  <2>. QED
    BY <2>1, <2>2 DEF BrowserInv
<1>. QED
  BY <1>0, <1>2, <1>8, <1>9

\* No order of signing in and out, refused calls and reloads leaves a tab with someone else
\* than the other tabs, on a page that is not theirs, or, unless two sign-ins have met or one
\* was cut off, with someone else than the cookie.
THEOREM IdentityIsOne == SessionSpec => []IdentityAgrees
<1>1. InitSession => BrowserInv
  BY BrowserInit
<1>2. BrowserInv /\ [SessionNext]_sessionVars => BrowserInv'
  <2> SUFFICES ASSUME BrowserInv, [SessionNext]_sessionVars PROVE BrowserInv'
    OBVIOUS
  <2>1. CASE UNCHANGED sessionVars
    BY <2>1 DEF sessionVars, browser, BrowserInv, BrowserTypeOK, Placed, TabsAgree, Orderly,
           Granted, SigningIn, Pending
  <2>2. CASE SessionNext
    <3>1. UNCHANGED scene
      BY <2>2 DEF SessionNext
    <3>. QED
      BY <2>2, <3>1, MoveSteps, SendSteps, CallSteps, ProceedSteps DEF SessionNext
  <2>. QED
    BY <2>1, <2>2
<1>3. BrowserInv => IdentityAgrees
  <2> SUFFICES ASSUME BrowserInv PROVE IdentityAgrees
    OBVIOUS
  <2>1. PagesServe
    <3> SUFFICES ASSUME NEW t \in scene.tabs, NEW c \in calls(at[t], shown[t])
                 PROVE  verifyToken(c, shown[t]) = 200 \/ <<shown[t], c>> \in Withheld
      BY DEF PagesServe
    <3>1. <<shown[t], at[t]>> \in AppRoutes
      BY SessionAssumption DEF BrowserInv, BrowserTypeOK, Placed
    <3>2. <<shown[t], c>> \in routes \/ <<shown[t], c>> \in Withheld
      BY <3>1, ShownServed DEF Served
    <3>. QED
      BY <3>2 DEF verifyToken
  <2>2. ASSUME ~crossed, \A t \in scene.tabs : ~SigningIn(t)
        PROVE  cookie = Nobody \/ cached \in {Nobody, cookie}
    BY <2>2 DEF BrowserInv, Orderly, Granted
  <2>. QED
    BY <2>1, <2>2 DEF BrowserInv, IdentityAgrees
<1>. QED
  BY <1>1, <1>2, <1>3, PTL DEF SessionSpec

-----------------------------------------------------------------------------
(* A list with a search and pages.                                         *)

\* The answer to a request as a function of what it depends on.
Answer(k, rs, q) ==
    LET found == rs \cap q.filter
        paged == {r \in found : /\ (q.page - 1) * PageSize < Cardinality({x \in found : x <= r})
                                /\ Cardinality({x \in found : x <= r}) <= q.page * PageSize}
        last  == (Cardinality(found) + PageSize - 1) \div PageSize
    IN  IF k = "problems" THEN [items |-> paged, total |-> Cardinality(paged), pages |-> 1]
        ELSE [items |-> paged, total |-> Cardinality(found),
              pages |-> IF k = "questions" /\ last = 0 THEN 1 ELSE last]

LEMMA ReplyIs == ASSUME NEW q PROVE reply(q) = Answer(kind, records, q)
  BY DEF reply, Rank, Answer

Query == [filter : SUBSET Record, page : Nat \ {0}]
Reply == [items : SUBSET Record, total : Nat, pages : Nat]

\* The page is there: the first, or one with a record.
There(rs, q) == q.page = 1 \/ (q.page - 1) * PageSize < Cardinality(rs \cap q.filter)

LEMMA Found ==
    ASSUME NEW rs \in SUBSET Record, NEW q \in Query
    PROVE  /\ rs \cap q.filter \in SUBSET Record
           /\ IsFiniteSet(rs \cap q.filter)
           /\ Cardinality(rs \cap q.filter) \in Nat
  BY ListingAssumption, FS_Subset, FS_CardinalityType DEF Query

LEMMA Pages ==
    ASSUME NEW n \in Nat, NEW last, last = (n + PageSize - 1) \div PageSize
    PROVE  /\ last \in Nat /\ (n > 0 => last > 0)
           /\ \A p \in Nat : p < last <=> p * PageSize < n
<1> DEFINE m == n + PageSize - 1
<1>1. PageSize \in Nat /\ PageSize > 0 /\ m \in Nat
  BY ListingAssumption
<1>2. last \in Int /\ last * PageSize <= m /\ m < (last + 1) * PageSize
  BY <1>1
<1>3. last \in Nat
  BY <1>1, <1>2
<1>4. ASSUME NEW p \in Nat PROVE p < last <=> p * PageSize < n
  <2>1. ASSUME p < last PROVE p * PageSize < n
    <3>1. (p + 1) * PageSize <= last * PageSize
      BY <1>1, <1>3, <2>1
    <3>2. (p + 1) * PageSize = p * PageSize + PageSize
      BY <1>1
    <3>. QED
      BY <1>1, <1>2, <3>1, <3>2
  <2>2. ASSUME ~(p < last) PROVE ~(p * PageSize < n)
    <3>1. (last + 1) * PageSize = last * PageSize + PageSize /\ last * PageSize \in Nat
      BY <1>1, <1>3
    <3>2. last * PageSize <= p * PageSize /\ p * PageSize \in Nat
      BY <1>1, <1>3, <2>2
    <3>. QED
      BY <1>1, <1>2, <3>1, <3>2
  <2>. QED
    BY <2>1, <2>2
<1>. QED
  BY <1>1, <1>3, <1>4

LEMMA AnswerType ==
    ASSUME NEW k, NEW rs \in SUBSET Record, NEW q \in Query
    PROVE  Answer(k, rs, q) \in Reply
<1> DEFINE found == rs \cap q.filter
           paged == {r \in found : /\ (q.page - 1) * PageSize < Cardinality({x \in found : x <= r})
                                   /\ Cardinality({x \in found : x <= r}) <= q.page * PageSize}
           last  == (Cardinality(found) + PageSize - 1) \div PageSize
<1>1. found \in SUBSET Record /\ IsFiniteSet(found) /\ Cardinality(found) \in Nat
  BY Found
<1>2. paged \in SUBSET found
  OBVIOUS
<1>3. Cardinality(paged) \in Nat
  <2> HIDE DEF paged, found
  <2>. QED
    BY <1>1, <1>2, FS_Subset, FS_CardinalityType
<1>4. last \in Nat
  <2> HIDE DEF found
  <2>. QED
    BY <1>1, Pages
<1>5. Answer(k, rs, q) =
        IF k = "problems" THEN [items |-> paged, total |-> Cardinality(paged), pages |-> 1]
        ELSE [items |-> paged, total |-> Cardinality(found),
              pages |-> IF k = "questions" /\ last = 0 THEN 1 ELSE last]
  BY DEF Answer
<1> HIDE DEF found, paged, last
<1>. QED
  BY <1>1, <1>2, <1>3, <1>4, <1>5 DEF Reply

\* By the pages of a list that is there one does not turn past the last.
LEMMA NextIsThere ==
    ASSUME NEW rs \in SUBSET Record, NEW q \in Query, NEW k \in {"questions", "users"},
           k = "questions" => q.page < Answer(k, rs, q).pages,
           k = "users" => /\ Answer(k, rs, q).pages > 1 /\ q.page # Answer(k, rs, q).pages
                          /\ There(rs, q)
    PROVE  q.page * PageSize < Cardinality(rs \cap q.filter)
<1> DEFINE n == Cardinality(rs \cap q.filter)
           last == (n + PageSize - 1) \div PageSize
<1>1. n \in Nat
  BY Found
<1>2. Answer(k, rs, q).pages = IF k = "questions" /\ last = 0 THEN 1 ELSE last
  BY DEF Answer
<1>3. q.page \in Nat /\ q.page > 0
  BY DEF Query
<1>4. last \in Nat /\ \A p \in Nat : p < last <=> p * PageSize < n
  <2> HIDE DEF n
  <2>. QED
    BY <1>1, Pages
<1>5. q.page < last
  <2>1. CASE k = "questions"
    <3> HIDE DEF last
    <3>. QED
      BY <1>2, <1>3, <1>4, <2>1
  <2>2. CASE k = "users"
    <3>1. last > 1 /\ q.page # last
      BY <1>2, <2>2
    <3>2. CASE q.page = 1
      BY <3>1, <3>2
    <3>3. CASE (q.page - 1) * PageSize < n
      <4> HIDE DEF n, last
      <4>1. q.page - 1 \in Nat
        BY <1>3
      <4>2. q.page - 1 < last
        BY <1>4, <3>3, <4>1
      <4>. QED
        BY <1>3, <1>4, <3>1, <4>2
    <3>. QED
      BY <2>2, <3>2, <3>3 DEF There
  <2>. QED
    BY <2>1, <2>2
<1> HIDE DEF last
<1>. QED
  BY <1>3, <1>4, <1>5

LEMMA Ranks ==
    ASSUME NEW found \in SUBSET Record, NEW n, n = Cardinality(found)
    PROVE  \A k \in 1..n : \E r \in found : Cardinality({x \in found : x <= r}) = k
<1> DEFINE upTo(r) == {x \in found : x <= r}
           rank == [r \in found |-> Cardinality(upTo(r))]
<1>1. IsFiniteSet(found) /\ n \in Nat /\ found \subseteq Nat
  BY ListingAssumption, FS_Subset, FS_CardinalityType
<1>2. ASSUME NEW r \in found
      PROVE  IsFiniteSet(upTo(r)) /\ Cardinality(upTo(r)) \in 1..n
  <2>1. upTo(r) \in SUBSET found /\ r \in upTo(r)
    BY <1>1
  <2> HIDE DEF upTo
  <2>2. IsFiniteSet(upTo(r)) /\ Cardinality(upTo(r)) <= n
    BY <1>1, <2>1, FS_Subset
  <2>3. Cardinality(upTo(r)) \in Nat /\ Cardinality(upTo(r)) # 0
    BY <2>1, <2>2, FS_CardinalityType, FS_EmptySet
  <2>. QED
    BY <1>1, <2>2, <2>3
<1>3. rank \in [found -> 1..n]
  BY <1>2
<1>4. ASSUME NEW r \in found, NEW s \in found, r < s PROVE rank[r] # rank[s]
  <2>1. upTo(r) \in SUBSET upTo(s) /\ s \in upTo(s) /\ s \notin upTo(r)
    <3>1. r \in Nat /\ s \in Nat /\ ~(s <= r) /\ s <= s
      BY <1>1, <1>4
    <3>2. ASSUME NEW x \in upTo(r) PROVE x \in upTo(s)
      <4>1. x \in found /\ x \in Nat /\ x <= r
        BY <1>1
      <4>2. x <= s
        BY <1>4, <3>1, <4>1
      <4>. QED
        BY <4>1, <4>2
    <3>3. s \in upTo(s) /\ s \notin upTo(r)
      BY <3>1
    <3>. QED
      BY <3>2, <3>3
  <2> HIDE DEF upTo
  <2>2. Cardinality(upTo(s)) # Cardinality(upTo(r))
    BY <1>2, <2>1, FS_Subset
  <2>. QED
    BY <2>2
<1>5. IsFiniteSet(1..n) /\ Cardinality(1..n) = Cardinality(found)
  BY <1>1, FS_Interval
<1>6. rank \in Injection(found, 1..n)
  <2>1. \A r, s \in found : rank[r] = rank[s] => r = s
    BY <1>1, <1>4
  <2> HIDE DEF rank
  <2>. QED
    BY <1>3, <2>1 DEF Injection, IsInjective
<1>7. rank \in Surjection(found, 1..n)
  <2> HIDE DEF rank
  <2>. QED
    BY <1>5, <1>6, FS_Injection
<1>. QED
  BY <1>7 DEF Surjection

\* A page that is there shows something.
LEMMA NotEmpty ==
    ASSUME NEW rs \in SUBSET Record, NEW q \in Query, NEW k \in {"questions", "users", "problems"},
           k # "problems" => There(rs, q), Answer(k, rs, q).total > 0
    PROVE  Answer(k, rs, q).items # {}
<1> DEFINE found == rs \cap q.filter
           rank(r) == Cardinality({x \in found : x <= r})
           paged == {r \in found : (q.page - 1) * PageSize < rank(r) /\ rank(r) <= q.page * PageSize}
           n == Cardinality(found)
<1>1. found \in SUBSET Record /\ n \in Nat
  BY Found
<1>2. Answer(k, rs, q).items = paged
  BY DEF Answer
<1>3. CASE k = "problems"
  <2>1. Answer(k, rs, q).total = Cardinality(paged)
    BY <1>3 DEF Answer
  <2> HIDE DEF paged
  <2>. QED
    BY <1>2, <2>1, FS_EmptySet
<1>4. CASE k # "problems"
  <2>1. n > 0
    BY <1>4 DEF Answer
  <2>2. /\ q.page \in Nat /\ PageSize \in Nat /\ PageSize > 0
        /\ (q.page - 1) * PageSize \in Nat
        /\ q.page * PageSize = (q.page - 1) * PageSize + PageSize
    BY ListingAssumption DEF Query
  <2>3. (q.page - 1) * PageSize < n
    <3>1. CASE q.page = 1
      <4>1. (q.page - 1) * PageSize = 0
        BY <2>2, <3>1
      <4> HIDE DEF n
      <4>. QED
        BY <1>1, <2>1, <4>1
    <3>. QED
      BY <1>4, <3>1 DEF There
  <2> HIDE DEF n
  <2>4. (q.page - 1) * PageSize + 1 \in 1..n
    BY <1>1, <2>2, <2>3
  <2> USE DEF n
  <2>5. PICK r \in found : rank(r) = (q.page - 1) * PageSize + 1
    <3>1. \A j \in 1..n : \E r \in found : rank(r) = j
      <4> HIDE DEF found
      <4>. QED
        BY <1>1, Ranks
    <3> HIDE DEF n, rank
    <3>. QED
      BY <2>4, <3>1
  <2>6. rank(r) <= q.page * PageSize
    BY <2>2, <2>5
  <2>7. r \in paged
    <3> HIDE DEF rank, found
    <3>. QED
      BY <2>2, <2>5, <2>6
  <2>. QED
    BY <1>2, <2>7
<1>. QED
  BY <1>3, <1>4

Fetched      == [query : Query, answered : BOOLEAN, reply : Reply]
ErrandType   == [on : BOOLEAN, ids : SUBSET Record, query : Query, done : BOOLEAN]

ListTypeOK ==
    /\ kind \in {"questions", "users", "problems"} /\ records \in SUBSET Record
    /\ query \in Query /\ list \in Reply /\ fetches \in Seq(Fetched)
    /\ tab \in {"list", "bulk"} /\ errand \in ErrandType

Fair == "crossed" \notin luck
LastSent == fetches[Len(fetches)]

\* The request sent last is about what the controls show, up to the page of the question
\* bank, and so is its answer; with no request under way the list is.  A deletion or
\* an import that is done waits to send a request.
Follows ==
    Fair =>
      /\ fetches # <<>> =>
            /\ LastSent.query.filter = query.filter
            /\ kind # "questions" => LastSent.query = query
            /\ LastSent.answered /\ ~errand.done =>
                  LastSent.reply = Answer(kind, records, LastSent.query)
      /\ fetches = <<>> /\ ~errand.done => list = Answer(kind, records, query)
      /\ OnErrand => /\ errand.query.filter = query.filter
                     /\ kind # "questions" => errand.query = query

Errands ==
    /\ OnErrand => kind \in {"questions", "users"}
    /\ errand.done => OnErrand /\ (kind = "questions" => "strayed" \in luck)

\* Without bad luck the page is there; or requests for different pages are under way in the
\* question bank, and each that is shown asks for its page again.
Turned ==
    luck = {} =>
      /\ kind = "users" => There(records, query)
      /\ kind = "questions" =>
            /\ fetches # <<>> => LastSent.query.page = query.page
            /\ There(records, query) \/ \E i \in DOMAIN fetches : fetches[i].query.page # query.page

ListInv == ListTypeOK /\ Follows /\ Errands /\ Turned

LEMMA FetchesFacts ==
    ASSUME ListTypeOK, NEW q \in Query
    PROVE  /\ Len(fetches) \in Nat /\ DOMAIN fetches = 1..Len(fetches)
           /\ fetches # <<>> <=> Len(fetches) > 0
           /\ fetches # <<>> => LastSent \in Fetched
           /\ Fetch(q) \in Fetched /\ Fetch(q).query = q /\ ~Fetch(q).answered
           /\ \A i \in 1..Len(fetches) : fetches[i] \in Fetched
<1>1. Len(fetches) \in Nat /\ DOMAIN fetches = 1..Len(fetches)
  BY LenProperties DEF ListTypeOK
<1>2. fetches # <<>> <=> Len(fetches) > 0
  BY <1>1, EmptySeq DEF ListTypeOK
<1>3. \A i \in 1..Len(fetches) : fetches[i] \in Fetched
  BY ElementOfSeq DEF ListTypeOK
<1>4. Fetch(q) \in Fetched /\ Fetch(q).query = q /\ ~Fetch(q).answered
  BY DEF Fetch, Fetched, ListTypeOK
<1>. QED
  BY <1>1, <1>2, <1>3, <1>4 DEF LastSent

LEMMA Sent ==
    ASSUME NEW rest \in Seq(Fetched), NEW f \in Fetched
    PROVE  /\ Append(rest, f) \in Seq(Fetched) /\ Append(rest, f) # <<>>
           /\ Append(rest, f)[Len(Append(rest, f))] = f
           /\ DOMAIN Append(rest, f) = 1..(Len(rest) + 1) /\ Len(rest) \in Nat
           /\ \A i \in 1..Len(rest) : Append(rest, f)[i] = rest[i]
<1>1. Append(rest, f) \in Seq(Fetched) /\ Len(Append(rest, f)) = Len(rest) + 1 /\ Len(rest) \in Nat
  BY AppendProperties, LenProperties
<1>2. \A i \in 1..Len(rest) : Append(rest, f)[i] = rest[i]
  BY AppendProperties
<1>3. Append(rest, f)[Len(rest) + 1] = f
  BY AppendProperties
<1>4. Append(rest, f) # <<>>
  BY <1>1, EmptySeq
<1>5. DOMAIN Append(rest, f) = 1..(Len(rest) + 1)
  BY <1>1, LenProperties
<1>. QED
  BY <1>1, <1>2, <1>3, <1>4, <1>5

LEMMA Without ==
    ASSUME NEW s \in Seq(Fetched), NEW i \in 1..Len(s)
    PROVE  /\ RemoveAt(s, i) \in Seq(Fetched) /\ Len(RemoveAt(s, i)) = Len(s) - 1
           /\ \A j \in 1..(Len(s) - 1) : RemoveAt(s, i)[j] = IF j < i THEN s[j] ELSE s[j + 1]
<1> DEFINE a == SubSeq(s, 1, i - 1)
           b == SubSeq(s, i + 1, Len(s))
<1>0. Len(s) \in Nat /\ i \in Nat /\ 1 <= i /\ i <= Len(s) /\ \A j \in 1..Len(s) : s[j] \in Fetched
  BY LenProperties, ElementOfSeq
<1>1. /\ a \in Seq(Fetched) /\ Len(a) = i - 1
      /\ \A j \in 1..(i - 1) : a[j] = s[j]
  <2>1. \A j \in 1..(i - 1) : s[j] \in Fetched
    BY <1>0
  <2>. QED
    BY <1>0, <2>1, SubSeqProperties
<1>2. /\ b \in Seq(Fetched) /\ Len(b) = Len(s) - i
      /\ \A j \in 1..(Len(s) - i) : b[j] = s[i + j]
  <2>1. \A j \in (i + 1)..Len(s) : s[j] \in Fetched
    BY <1>0
  <2>2. b \in Seq(Fetched) /\ Len(b) = IF i + 1 <= Len(s) THEN Len(s) - (i + 1) + 1 ELSE 0
    BY <1>0, <2>1, SubSeqProperties
  <2>3. \A j \in 1..(Len(s) - (i + 1) + 1) : b[j] = s[i + 1 + j - 1]
    BY <1>0, <2>1, SubSeqProperties
  <2> HIDE DEF b
  <2>. QED
    BY <1>0, <2>2, <2>3
<1> HIDE DEF a, b
<1>3. /\ (a \o b) \in Seq(Fetched) /\ Len(a \o b) = Len(a) + Len(b)
      /\ \A j \in 1..(Len(a) + Len(b)) : (a \o b)[j] = IF j <= Len(a) THEN a[j] ELSE b[j - Len(a)]
  BY <1>1, <1>2, ConcatProperties
<1>4. RemoveAt(s, i) = a \o b
  BY DEF RemoveAt, a, b
<1>5. Len(a) + Len(b) = Len(s) - 1
  BY <1>0, <1>1, <1>2
<1>6. ASSUME NEW j \in 1..(Len(s) - 1)
      PROVE  (a \o b)[j] = IF j < i THEN s[j] ELSE s[j + 1]
  <2>1. (a \o b)[j] = IF j <= i - 1 THEN a[j] ELSE b[j - (i - 1)]
    BY <1>1, <1>3, <1>5
  <2>2. CASE j < i
    BY <1>0, <1>1, <2>1, <2>2
  <2>3. CASE ~(j < i)
    <3>1. j - (i - 1) \in 1..(Len(s) - i) /\ i + (j - (i - 1)) = j + 1 /\ ~(j <= i - 1)
      BY <1>0, <2>3
    <3>. QED
      BY <1>2, <2>1, <2>3, <3>1
  <2>. QED
    BY <2>2, <2>3
<1>. QED
  BY <1>3, <1>4, <1>5, <1>6

LEMMA ListInit == InitListing => ListInv
<1> SUFFICES ASSUME InitListing PROVE ListInv
  OBVIOUS
<1>1. Filters[1] \in SUBSET Record
  BY ListingAssumption, ElementOfSeq
<1>2. query \in Query /\ list \in Reply /\ query.page = 1
  BY <1>1 DEF InitListing, Query, Reply
<1>3. errand \in ErrandType /\ ~errand.done /\ ~OnErrand
  BY <1>2 DEF InitListing, NoErrand, ErrandType, OnErrand
<1>4. Fetch(query) \in Fetched /\ Fetch(query).query = query /\ ~Fetch(query).answered
  BY <1>2 DEF Fetch, Fetched
<1>5. fetches = <<Fetch(query)>>
  BY DEF InitListing
<1>6. fetches \in Seq(Fetched) /\ Len(fetches) = 1 /\ LastSent = Fetch(query) /\ fetches # <<>>
  BY <1>4, <1>5 DEF LastSent
<1>7. ListTypeOK
  BY <1>2, <1>3, <1>6 DEF ListTypeOK, InitListing
<1>8. Follows
  BY <1>3, <1>4, <1>6 DEF Follows
<1>9. Errands
  BY <1>3 DEF Errands
<1>10. Turned
  BY <1>2, <1>4, <1>6 DEF Turned, There
<1>. QED
  BY <1>7, <1>8, <1>9, <1>10 DEF ListInv

\* A change of the query that the student or the faculty makes is sent.
LEMMA Asked ==
    ASSUME ListInv, NEW q \in Query, query' = q, fetches' = Append(fetches, Fetch(q)),
           UNCHANGED <<kind, records, list, tab, errand>>,
           Fair' => Fair \/ Quiet, OnErrand => ~Fair' /\ luck \subseteq luck',
           luck' = {} =>
              /\ kind = "users" => There(records, q)
              /\ kind = "questions" =>
                    There(records, q) \/ \E i \in DOMAIN fetches : fetches[i].query.page # q.page
    PROVE  ListInv'
<1>1. ListTypeOK /\ fetches \in Seq(Fetched)
  BY DEF ListInv, ListTypeOK
<1>2. Fetch(q) \in Fetched /\ Fetch(q).query = q /\ ~Fetch(q).answered
  BY <1>1, FetchesFacts
<1>3. /\ fetches' \in Seq(Fetched) /\ fetches' # <<>> /\ LastSent' = Fetch(q)
      /\ DOMAIN fetches' = 1..(Len(fetches) + 1) /\ DOMAIN fetches = 1..Len(fetches)
      /\ Len(fetches) \in Nat
      /\ \A i \in 1..Len(fetches) : fetches'[i] = fetches[i]
  BY <1>1, <1>2, Sent, FetchesFacts DEF LastSent
<1>4. ListTypeOK'
  BY <1>1, <1>3 DEF ListTypeOK
<1>5. Follows'
  BY <1>2, <1>3 DEF Follows, OnErrand
<1>6. Errands'
  BY DEF ListInv, Errands, OnErrand
<1>7. Turned'
  <2> SUFFICES ASSUME luck' = {}
               PROVE  /\ kind = "users" => There(records, q)
                      /\ kind = "questions" =>
                           /\ LastSent'.query.page = q.page
                           /\ \/ There(records, q)
                              \/ \E i \in DOMAIN fetches' : fetches'[i].query.page # q.page
    BY DEF Turned
  <2>1. ASSUME NEW i \in DOMAIN fetches
        PROVE  i \in DOMAIN fetches' /\ fetches'[i] = fetches[i]
    BY <1>3
  <2>. QED
    BY <1>2, <1>3, <2>1
<1>. QED
  BY <1>4, <1>5, <1>6, <1>7 DEF ListInv

LEMMA ChangeSteps ==
    ASSUME ListInv, changeFilter
    PROVE  ListInv'
<1>1. PICK filter \in ToSet(Filters) \ {query.filter} :
            queries([filter |-> filter, page |-> 1], fetches)
  BY DEF changeFilter
<1> DEFINE q == [filter |-> filter, page |-> 1]
<1>2. filter \in SUBSET Record
  BY ListingAssumption, ElementOfSeq, LenProperties DEF ToSet
<1>3. q \in Query /\ q # query /\ q.page = 1
  BY <1>1, <1>2 DEF Query
<1>4. queries(q, fetches)
  BY <1>1
<1> HIDE DEF q
<1>5. query' = q /\ fetches' = Append(fetches, Fetch(q))
  BY <1>3, <1>4 DEF queries
<1>6. /\ Fair' => Fair \/ Quiet
      /\ OnErrand => ~Fair' /\ luck \subseteq luck'
  BY DEF changeFilter, Fair, Quiet
<1>7. There(records, q)
  BY <1>3 DEF There
<1>8. UNCHANGED <<kind, records, list, tab, errand>>
  BY DEF changeFilter
<1>. QED
  BY <1>3, <1>5, <1>6, <1>7, <1>8, Asked

LEMMA TurnSteps ==
    ASSUME ListInv, turnPage
    PROVE  ListInv'
<1>1. PICK q : /\ queries(q, fetches)
               /\ \/ /\ q = [query EXCEPT !.page = @ + 1]
                     /\ \/ kind = "questions" /\ query.page < list.pages
                        \/ kind = "users" /\ list.pages > 1 /\ query.page # list.pages
                  \/ q = [query EXCEPT !.page = @ - 1] /\ query.page > 1
  BY DEF turnPage
<1>2. query \in Query /\ query.page \in Nat /\ query.page > 0
  BY DEF ListInv, ListTypeOK, Query
<1>3. /\ q \in Query /\ q.filter = query.filter
      /\ \/ /\ q.page = query.page + 1
            /\ \/ kind = "questions" /\ query.page < list.pages
               \/ kind = "users" /\ list.pages > 1 /\ query.page # list.pages
         \/ q.page = query.page - 1
  BY <1>1, <1>2 DEF Query
<1>4. q # query
  BY <1>2, <1>3
<1>5. query' = q /\ fetches' = Append(fetches, Fetch(q))
  BY <1>1, <1>4 DEF queries
<1>6. /\ Fair' => Fair \/ Quiet
      /\ OnErrand => ~Fair' /\ luck \subseteq luck'
      /\ luck' = {} => luck = {} /\ fetches = <<>> /\ ~OnErrand
  <2>1. luck' = IF Quiet THEN IF luck = {} THEN {} ELSE {"strayed"}
                ELSE luck \cup (IF fetches = <<>> THEN {} ELSE {"strayed"})
                          \cup (IF OnErrand THEN {"crossed"} ELSE {})
    BY DEF turnPage
  <2>2. CASE Quiet
    BY <2>1, <2>2 DEF Fair, Quiet
  <2>3. CASE ~Quiet
    <3>1. /\ luck \subseteq luck' /\ (OnErrand => "crossed" \in luck')
          /\ fetches # <<>> => "strayed" \in luck'
      BY <2>1, <2>3
    <3>. QED
      BY <2>3, <3>1 DEF Fair, Quiet
  <2>. QED
    BY <2>2, <2>3
<1>7. UNCHANGED <<kind, records, list, tab, errand>>
  BY DEF turnPage
<1>8. ASSUME luck' = {}, kind \in {"questions", "users"} PROVE There(records, q)
  <2>1. luck = {} /\ fetches = <<>> /\ ~errand.done
    BY <1>6, <1>8 DEF ListInv, Errands
  <2>2. list = Answer(kind, records, query)
    BY <2>1 DEF ListInv, Follows, Fair
  <2>3. There(records, query)
    <3>1. DOMAIN fetches = {}
      BY <2>1
    <3>. QED
      BY <1>8, <2>1, <3>1 DEF ListInv, Turned
  <2>4. CASE /\ q.page = query.page + 1
             /\ \/ kind = "questions" /\ query.page < list.pages
                \/ kind = "users" /\ list.pages > 1 /\ query.page # list.pages
    <3>1. query.page * PageSize < Cardinality(records \cap query.filter)
      <4>1. records \in SUBSET Record
        BY DEF ListInv, ListTypeOK
      <4>. QED
        BY <1>2, <1>8, <2>2, <2>3, <2>4, <4>1, NextIsThere
    <3>2. q.page - 1 = query.page
      BY <1>2, <2>4
    <3>. QED
      BY <1>3, <3>1, <3>2 DEF There
  <2>5. CASE q.page = query.page - 1
    <3>1. query.page # 1 /\ (query.page - 1) * PageSize < Cardinality(records \cap query.filter)
      <4>1. query.page # 1
        BY <1>3, <2>5 DEF Query
      <4>. QED
        BY <2>3, <4>1 DEF There
    <3>2. (q.page - 1) * PageSize < Cardinality(records \cap q.filter)
      <4> DEFINE n == Cardinality(records \cap query.filter)
      <4>1. n \in Nat /\ PageSize \in Nat
        BY <1>2, ListingAssumption, Found DEF ListInv, ListTypeOK
      <4>2. q.page - 1 \in Int /\ (q.page - 1) * PageSize = (query.page - 1) * PageSize - PageSize
        BY <1>2, <2>5, <4>1
      <4>3. (query.page - 1) * PageSize \in Int
        BY <1>2, <4>1
      <4> HIDE DEF n
      <4>4. (q.page - 1) * PageSize < n
        BY <3>1, <4>1, <4>2, <4>3 DEF n
      <4>. QED
        BY <1>3, <4>4 DEF n
    <3>. QED
      BY <3>2 DEF There
  <2>. QED
    BY <1>3, <2>4, <2>5
<1>. QED
  BY <1>3, <1>5, <1>6, <1>7, <1>8, Asked

\* An import leaves a page where it is.
LEMMA StillThere ==
    ASSUME NEW rs \in SUBSET Record, NEW more \in SUBSET Record, NEW q \in Query,
           There(rs, q), rs \subseteq more
    PROVE  There(more, q)
<1>1. rs \cap q.filter \subseteq more \cap q.filter
  OBVIOUS
<1>2. Cardinality(rs \cap q.filter) <= Cardinality(more \cap q.filter)
  BY <1>1, Found, FS_Subset
<1> DEFINE m == Cardinality(rs \cap q.filter)
           n == Cardinality(more \cap q.filter)
           k == (q.page - 1) * PageSize
<1>3. m \in Nat /\ n \in Nat /\ k \in Int /\ m <= n
  <2>1. m \in Nat /\ n \in Nat
    BY Found
  <2>2. k \in Int
    BY ListingAssumption DEF Query
  <2>. QED
    BY <1>2, <2>1, <2>2
<1> HIDE DEF m, n, k
<1>4. k < m => k < n
  BY <1>3
<1>. QED
  BY <1>4 DEF There, m, n, k

LEMMA TabSteps ==
    ASSUME ListInv, showTab
    PROVE  ListInv'
<1>0. ListTypeOK /\ Follows /\ Errands /\ Turned /\ kind = "users"
  BY DEF ListInv, showTab
<1>1. UNCHANGED <<kind, records, query, list, errand>> /\ tab' \in {"list", "bulk"}
  BY DEF showTab
<1>2. CASE UNCHANGED <<fetches, luck>>
  BY <1>0, <1>1, <1>2 DEF ListInv, ListTypeOK, Follows, Fair, LastSent, Errands, OnErrand, Turned
<1>3. CASE /\ fetches' = Append(fetches, Fetch(query))
           /\ luck' = IF Quiet THEN IF luck = {} THEN {} ELSE {"strayed"} ELSE luck
  <2>1. Fetch(query) \in Fetched /\ Fetch(query).query = query /\ ~Fetch(query).answered
    BY <1>0, FetchesFacts DEF ListTypeOK
  <2>2. fetches' \in Seq(Fetched) /\ fetches' # <<>> /\ LastSent' = Fetch(query)
    <3>1. fetches \in Seq(Fetched)
      BY <1>0 DEF ListTypeOK
    <3>. QED
      BY <1>3, <2>1, <3>1, Sent DEF LastSent
  <2>3. Fair' /\ OnErrand => Fair
    BY <1>3 DEF Fair, Quiet
  <2>4. luck' = {} => luck = {}
    BY <1>3
  <2>5. ListTypeOK'
    BY <1>0, <1>1, <2>2 DEF ListTypeOK
  <2>6. Follows'
    BY <1>0, <1>1, <2>1, <2>2, <2>3 DEF Follows, OnErrand
  <2>7. Errands'
    BY <1>0, <1>1 DEF Errands, OnErrand
  <2>8. Turned'
    BY <1>0, <1>1, <2>4 DEF Turned
  <2>. QED
    BY <2>5, <2>6, <2>7, <2>8 DEF ListInv
<1>. QED
  BY <1>2, <1>3 DEF showTab

LEMMA ErrandSteps ==
    ASSUME ListInv, \/ handleDelete \/ importUsers \/ runErrand \/ errandAnswered \/ errandFails
    PROVE  ListInv'
<1>0. ListTypeOK /\ Follows /\ Errands /\ Turned
  BY DEF ListInv
<1>1. CASE handleDelete \/ importUsers
  <2>1. PICK ids \in SUBSET Record :
               errand' = [on |-> TRUE, ids |-> ids, query |-> query, done |-> FALSE]
    <3>1. CASE handleDelete
      <4>1. PICK r \in list.items :
                   errand' = [on |-> TRUE, ids |-> {r}, query |-> query, done |-> FALSE]
        BY <3>1 DEF handleDelete
      <4>2. {r} \in SUBSET Record
        BY <1>0 DEF ListTypeOK, Reply
      <4>. QED
        BY <4>1, <4>2
    <3>2. CASE importUsers
      BY <3>2 DEF importUsers
    <3>. QED
      BY <1>1, <3>1, <3>2
  <2>2. /\ kind \in {"questions", "users"} /\ ~OnErrand
        /\ UNCHANGED <<kind, records, query, list, fetches, tab, luck>>
    BY <1>1 DEF handleDelete, importUsers
  <2>3. /\ errand' \in ErrandType /\ ~errand'.done /\ errand'.query = query
        /\ ~errand.done
    BY <1>0, <2>1, <2>2 DEF ErrandType, ListTypeOK, Errands
  <2>4. ListTypeOK'
    BY <1>0, <2>2, <2>3 DEF ListTypeOK
  <2>5. Follows'
    BY <1>0, <2>2, <2>3 DEF Follows, Fair, LastSent
  <2>6. Errands'
    BY <2>2, <2>3 DEF Errands
  <2>7. Turned'
    BY <1>0, <2>2 DEF Turned, LastSent
  <2>. QED
    BY <2>4, <2>5, <2>6, <2>7 DEF ListInv
<1>2. CASE runErrand
  <2>1. /\ OnErrand /\ errand' = [errand EXCEPT !.done = TRUE]
        /\ UNCHANGED <<kind, query, list, loading, fetches, tab>>
    BY <1>2 DEF runErrand
  <2>2. /\ errand' \in ErrandType /\ errand'.done /\ errand'.query = errand.query
        /\ errand'.on = errand.on /\ errand.ids \in SUBSET Record
    BY <1>0, <2>1 DEF ListTypeOK, ErrandType
  <2>3. \/ /\ kind = "questions" /\ records' = records \ errand.ids
           /\ luck' = luck \cup {"strayed"}
        \/ kind = "users" /\ records' = records \cup errand.ids /\ luck' = luck
    BY <1>2 DEF runErrand
  <2>4. ListTypeOK'
    <3>1. records' \in SUBSET Record
      BY <1>0, <2>2, <2>3 DEF ListTypeOK
    <3>. QED
      BY <1>0, <2>1, <2>2, <3>1 DEF ListTypeOK
  <2>5. Follows'
    <3>1. Fair' => Fair
      BY <2>3 DEF Fair
    <3>. QED
      BY <1>0, <2>1, <2>2, <3>1 DEF Follows, LastSent, OnErrand
  <2>6. Errands'
    BY <1>0, <2>1, <2>2, <2>3 DEF Errands, OnErrand
  <2>7. Turned'
    <3>1. CASE kind = "questions"
      BY <2>3, <3>1 DEF Turned
    <3>2. CASE kind = "users" /\ records' = records \cup errand.ids /\ luck' = luck
      <4>1. luck = {} => There(records', query)
        BY <1>0, <2>2, <3>2, StillThere DEF Turned, ListTypeOK
      <4>. QED
        BY <2>1, <3>2, <4>1 DEF Turned
    <3>. QED
      BY <2>3, <3>1, <3>2
  <2>. QED
    BY <2>4, <2>5, <2>6, <2>7 DEF ListInv
<1>3. ASSUME errand' = NoErrand, UNCHANGED <<kind, records, query, list, tab>>
      PROVE  errand' \in ErrandType /\ ~errand'.done /\ ~OnErrand'
  BY <1>0, <1>3 DEF NoErrand, ErrandType, ListTypeOK, OnErrand
<1>4. CASE errandAnswered
  <2>1. /\ OnErrand /\ errand.done /\ errand' = NoErrand
        /\ fetches' = Append(fetches, Fetch(errand.query))
        /\ UNCHANGED <<kind, records, query, list, tab, luck>>
    BY <1>4 DEF errandAnswered
  <2> DEFINE f == Fetch(errand.query)
  <2>2. f \in Fetched /\ f.query = errand.query /\ ~f.answered
    <3>1. errand.query \in Query
      BY <1>0 DEF ListTypeOK, ErrandType
    <3>. QED
      BY <1>0, <3>1, FetchesFacts
  <2>3. fetches' = Append(fetches, f)
    BY <2>1
  <2> HIDE DEF f
  <2>4. fetches' \in Seq(Fetched) /\ fetches' # <<>> /\ LastSent' = f
    <3>1. fetches \in Seq(Fetched)
      BY <1>0 DEF ListTypeOK
    <3>. QED
      BY <2>2, <2>3, <3>1, Sent DEF LastSent
  <2>5. ListTypeOK'
    BY <1>0, <1>3, <2>1, <2>4 DEF ListTypeOK
  <2>6. Follows'
    BY <1>0, <1>3, <2>1, <2>2, <2>4 DEF Follows, Fair
  <2>7. Errands'
    BY <1>3, <2>1 DEF Errands
  <2>8. Turned'
    BY <1>0, <2>1 DEF Errands, Turned
  <2>. QED
    BY <2>5, <2>6, <2>7, <2>8 DEF ListInv
<1>5. CASE errandFails
  <2>1. /\ errand' = NoErrand /\ UNCHANGED <<kind, records, query, list, fetches, tab>>
        /\ luck' = IF errand.done THEN luck \cup {"crossed"} ELSE luck
    BY <1>5 DEF errandFails
  <2>2. ListTypeOK'
    BY <1>0, <1>3, <2>1 DEF ListTypeOK
  <2>3. Errands'
    BY <1>3, <2>1 DEF Errands
  <2>4. CASE errand.done
    <3>1. ~Fair' /\ luck' # {}
      BY <2>1, <2>4 DEF Fair
    <3>. QED
      BY <2>2, <2>3, <3>1 DEF ListInv, Follows, Turned
  <2>5. CASE ~errand.done
    <3>1. Follows'
      BY <1>0, <1>3, <2>1, <2>5 DEF Follows, Fair, LastSent
    <3>2. Turned'
      BY <1>0, <2>1, <2>5 DEF Turned, LastSent
    <3>. QED
      BY <2>2, <2>3, <3>1, <3>2 DEF ListInv
  <2>. QED
    BY <2>4, <2>5
<1>. QED
  BY <1>1, <1>2, <1>4, <1>5

LEMMA AnswerSteps ==
    ASSUME ListInv, answerFetch
    PROVE  ListInv'
<1>0. ListTypeOK /\ Follows /\ Errands /\ Turned
  BY DEF ListInv
<1>1. PICK i \in DOMAIN fetches :
            fetches' = [fetches EXCEPT ![i].answered = TRUE, ![i].reply = reply(fetches[i].query)]
  BY DEF answerFetch
<1>2. UNCHANGED <<kind, records, query, list, loading, tab, errand, luck>>
  BY DEF answerFetch
<1>3. /\ Len(fetches) \in Nat /\ i \in 1..Len(fetches) /\ DOMAIN fetches = 1..Len(fetches)
      /\ fetches[i] \in Fetched /\ fetches \in Seq(Fetched)
  BY <1>0, <1>1, FetchesFacts DEF ListTypeOK
<1> DEFINE a == Answer(kind, records, fetches[i].query)
           f == [fetches[i] EXCEPT !.answered = TRUE, !.reply = a]
<1>4. a \in Reply
  BY <1>0, <1>3, AnswerType DEF ListTypeOK, Fetched
<1>5. fetches' = [fetches EXCEPT ![i] = f]
  <2>1. reply(fetches[i].query) = a
    BY ReplyIs
  <2> HIDE DEF a
  <2>. QED
    BY <1>1, <1>3, <2>1
<1>6. f \in Fetched /\ f.query = fetches[i].query /\ f.reply = a
  <2> HIDE DEF a
  <2>. QED
    BY <1>3, <1>4 DEF Fetched
<1>7. a = Answer(kind, records, f.query)
  BY <1>6
<1> HIDE DEF a, f
<1>8. /\ fetches' \in Seq(Fetched) /\ Len(fetches') = Len(fetches)
      /\ \A j \in 1..Len(fetches) : fetches'[j] = IF j = i THEN f ELSE fetches[j]
  BY <1>3, <1>5, <1>6, ExceptSeq
<1>9. fetches # <<>> /\ fetches' # <<>> /\ Len(fetches) \in 1..Len(fetches)
  BY <1>3, <1>8, EmptySeq
<1>10. LastSent' = IF i = Len(fetches) THEN f ELSE LastSent
  BY <1>8, <1>9 DEF LastSent
<1>11. ListTypeOK'
  BY <1>0, <1>2, <1>8 DEF ListTypeOK
<1>12. Follows'
  <2> SUFFICES ASSUME Fair'
               PROVE  /\ LastSent'.query.filter = query.filter
                      /\ kind # "questions" => LastSent'.query = query
                      /\ LastSent'.answered /\ ~errand.done =>
                            LastSent'.reply = Answer(kind, records, LastSent'.query)
                      /\ OnErrand => /\ errand.query.filter = query.filter
                                     /\ kind # "questions" => errand.query = query
    BY <1>2, <1>9 DEF Follows, OnErrand
  <2>1. Fair
    BY <1>2 DEF Fair
  <2>2. CASE i = Len(fetches)
    <3>1. LastSent' = f /\ LastSent = fetches[i]
      BY <1>10, <2>2 DEF LastSent
    <3>. QED
      BY <1>0, <1>6, <1>7, <1>9, <2>1, <3>1 DEF Follows
  <2>3. CASE i # Len(fetches)
    BY <1>0, <1>9, <1>10, <2>1, <2>3 DEF Follows
  <2>. QED
    BY <2>2, <2>3
<1>13. Errands'
  BY <1>0, <1>2 DEF Errands, OnErrand
<1>14. Turned'
  <2>1. \A j \in 1..Len(fetches) : fetches'[j].query = fetches[j].query
    BY <1>6, <1>8
  <2>2. LastSent'.query = LastSent.query
    BY <1>9, <1>8, <2>1 DEF LastSent
  <2>3. DOMAIN fetches' = 1..Len(fetches)
    BY <1>8, LenProperties
  <2>. QED
    BY <1>0, <1>2, <1>3, <1>9, <2>1, <2>2, <2>3 DEF Turned
<1>. QED
  BY <1>11, <1>12, <1>13, <1>14 DEF ListInv

LEMMA ShowSteps ==
    ASSUME ListInv, showAnswer
    PROVE  ListInv'
<1>0. ListTypeOK /\ Follows /\ Errands /\ Turned
  BY DEF ListInv
<1>1. PICK i \in DOMAIN fetches :
         LET fetch == fetches[i]
             page  == IF kind = "questions" THEN fetch.query.page ELSE query.page
         IN  /\ fetch.answered
             /\ list' = fetch.reply
             /\ queries([query EXCEPT !.page = page], RemoveAt(fetches, i))
             /\ luck' = luck \cup (IF i = 1 THEN {} ELSE {"crossed"})
  BY DEF showAnswer
<1> DEFINE page == IF kind = "questions" THEN fetches[i].query.page ELSE query.page
           q    == [query EXCEPT !.page = page]
           rest == RemoveAt(fetches, i)
<1>2. UNCHANGED <<kind, records, tab, errand>>
  BY DEF showAnswer
<1>3. /\ Len(fetches) \in Nat /\ i \in 1..Len(fetches) /\ DOMAIN fetches = 1..Len(fetches)
      /\ fetches[i] \in Fetched /\ fetches \in Seq(Fetched)
      /\ Len(fetches) \in 1..Len(fetches) /\ fetches # <<>>
  BY <1>0, <1>1, FetchesFacts DEF ListTypeOK
<1>4. /\ rest \in Seq(Fetched) /\ Len(rest) = Len(fetches) - 1
      /\ \A j \in 1..(Len(fetches) - 1) : rest[j] = IF j < i THEN fetches[j] ELSE fetches[j + 1]
  BY <1>3, Without
<1>5. page \in Nat \ {0} /\ q \in Query /\ q.page = page /\ q.filter = query.filter
  BY <1>0, <1>3 DEF ListTypeOK, Query, Fetched
<1>6. /\ query' = q /\ fetches' = IF q = query THEN rest ELSE Append(rest, Fetch(q))
      /\ list' = fetches[i].reply /\ fetches[i].answered
  BY <1>1 DEF queries
<1>7. list' \in Reply
  BY <1>3, <1>6 DEF Fetched
<1>8. /\ Fair' => Fair /\ i = 1
      /\ luck' = {} => luck = {} /\ i = 1
      /\ luck \subseteq luck'
  BY <1>1 DEF Fair
<1>9. /\ q # query => kind = "questions" /\ fetches[i].query.page # query.page
      /\ kind = "questions" => page = fetches[i].query.page
  BY <1>0 DEF ListTypeOK, Query
<1> HIDE DEF page, q, rest
<1>10. Errands'
  BY <1>0, <1>2, <1>8 DEF Errands, OnErrand
<1>11. CASE q = query
  <2>1. fetches' = rest /\ query' = query
    BY <1>6, <1>11
  <2>2. ListTypeOK'
    BY <1>0, <1>2, <1>4, <1>7, <2>1 DEF ListTypeOK
  <2>3. ASSUME i = 1, rest # <<>>
        PROVE  LastSent' = LastSent
    <3>1. Len(rest) \in 1..(Len(fetches) - 1) /\ ~(Len(rest) < i) /\ Len(rest) + 1 = Len(fetches)
      BY <1>3, <1>4, <2>3, EmptySeq
    <3>2. rest[Len(rest)] = fetches[Len(rest) + 1]
      BY <1>4, <3>1
    <3>. QED
      BY <2>1, <3>1, <3>2 DEF LastSent
  <2>4. Follows'
    <3> SUFFICES ASSUME Fair' PROVE Follows'
      BY DEF Follows
    <3>1. Fair /\ i = 1
      BY <1>8
    <3>2. CASE rest # <<>>
      BY <1>0, <1>2, <2>1, <2>3, <3>1, <3>2 DEF Follows, OnErrand
    <3>3. CASE rest = <<>>
      <4>1. Len(fetches) = 1 /\ fetches[i] = LastSent
        <5>1. Len(rest) = 0
          BY <3>3
        <5>2. Len(fetches) = 1
          <6>1. Len(rest) = Len(fetches) - 1 /\ Len(fetches) \in Nat
            BY <1>3, <1>4
          <6>. QED
            BY <5>1, <6>1
        <5>. QED
          BY <3>1, <5>2 DEF LastSent
      <4>2. LastSent.query.filter = query.filter /\ (kind # "questions" => LastSent.query = query)
        BY <1>0, <1>3, <3>1 DEF Follows
      <4>3. LastSent.query = query
        <5>1. LastSent.query \in Query /\ query \in Query
          BY <1>0, <1>3, <4>1 DEF Fetched, ListTypeOK
        <5>2. CASE kind = "questions"
          <6>1. LastSent.query.page = query.page
            BY <1>5, <1>9, <1>11, <4>1, <5>2
          <6>. QED
            BY <4>2, <5>1, <6>1 DEF Query
        <5>. QED
          BY <4>2, <5>2
      <4>4. ~errand.done => list' = Answer(kind, records, query)
        BY <1>0, <1>3, <1>6, <3>1, <4>1, <4>3 DEF Follows
      <4>. QED
        BY <1>0, <1>2, <2>1, <3>1, <3>3, <4>4 DEF Follows, OnErrand
    <3>. QED
      BY <3>2, <3>3
  <2>5. Turned'
    <3> SUFFICES ASSUME luck' = {} PROVE Turned'
      BY DEF Turned
    <3>1. luck = {} /\ i = 1
      BY <1>8
    <3>2. ASSUME kind = "questions", NEW j \in DOMAIN fetches, fetches[j].query.page # query.page
          PROVE  \E k \in DOMAIN rest : rest[k].query.page # query.page
      <4>1. j # 1
        BY <1>5, <1>9, <1>11, <3>1, <3>2
      <4>2. j - 1 \in 1..(Len(fetches) - 1) /\ ~(j - 1 < i) /\ (j - 1) + 1 = j
        BY <1>3, <3>1, <4>1
      <4>3. rest[j - 1] = fetches[j]
        BY <1>4, <4>2
      <4>4. DOMAIN rest = 1..(Len(fetches) - 1)
        BY <1>4, LenProperties
      <4>. QED
        BY <3>2, <4>2, <4>3, <4>4
    <3>. QED
      BY <1>0, <1>2, <1>3, <2>1, <2>3, <3>1, <3>2 DEF Turned
  <2>. QED
    BY <1>10, <2>2, <2>4, <2>5 DEF ListInv
<1>12. CASE q # query
  <2>1. fetches' = Append(rest, Fetch(q)) /\ kind = "questions" /\ page # query.page
    BY <1>6, <1>9, <1>12
  <2>2. Fetch(q) \in Fetched /\ Fetch(q).query = q /\ ~Fetch(q).answered
    BY <1>0, <1>5, FetchesFacts
  <2>3. /\ fetches' \in Seq(Fetched) /\ fetches' # <<>> /\ LastSent' = Fetch(q)
        /\ DOMAIN fetches' = 1..(Len(rest) + 1) /\ Len(rest) \in Nat
        /\ \A j \in 1..Len(rest) : fetches'[j] = rest[j]
    BY <1>4, <2>1, <2>2, Sent DEF LastSent
  <2>4. ListTypeOK'
    BY <1>0, <1>2, <1>5, <1>6, <1>7, <2>3 DEF ListTypeOK
  <2>5. Follows'
    BY <1>0, <1>2, <1>5, <1>6, <1>8, <2>1, <2>2, <2>3 DEF Follows, OnErrand
  <2>6. Turned'
    <3> SUFFICES ASSUME luck' = {} PROVE Turned'
      BY DEF Turned
    <3>1. luck = {} /\ i = 1
      BY <1>8
    <3>2. LastSent.query.page = query.page
      BY <1>0, <1>3, <2>1, <3>1 DEF Turned
    <3>3. Len(fetches) # 1
      BY <1>5, <1>9, <2>1, <3>1, <3>2 DEF LastSent
    <3>4. Len(rest) \in 1..(Len(fetches) - 1) /\ ~(Len(rest) < i) /\ Len(rest) + 1 = Len(fetches)
      BY <1>3, <1>4, <3>1, <3>3
    <3>5. fetches'[Len(rest)] = LastSent /\ Len(rest) \in DOMAIN fetches'
      BY <1>4, <2>3, <3>4 DEF LastSent
    <3>6. fetches'[Len(rest)].query.page # query'.page
      BY <1>5, <1>6, <2>1, <3>2, <3>5
    <3>. QED
      BY <1>2, <1>6, <2>1, <2>2, <2>3, <3>5, <3>6 DEF Turned
  <2>. QED
    BY <1>10, <2>4, <2>5, <2>6 DEF ListInv
<1>. QED
  BY <1>11, <1>12

LEMMA FailSteps ==
    ASSUME ListInv, fetchFails
    PROVE  ListInv'
<1>0. ListTypeOK /\ Errands
  BY DEF ListInv
<1>1. PICK i \in DOMAIN fetches : fetches' = RemoveAt(fetches, i)
  BY DEF fetchFails
<1>2. luck' = luck \cup {"crossed"} /\ UNCHANGED <<kind, records, query, list, tab, errand>>
  BY DEF fetchFails
<1>3. fetches' \in Seq(Fetched)
  BY <1>0, <1>1, FetchesFacts, Without DEF ListTypeOK
<1>4. ListTypeOK'
  BY <1>0, <1>2, <1>3 DEF ListTypeOK
<1>5. Errands' /\ ~Fair' /\ luck' # {}
  BY <1>0, <1>2 DEF Errands, OnErrand, Fair
<1>. QED
  BY <1>4, <1>5 DEF ListInv, Follows, Turned

\* Whatever order of typing, paging, tabs, deletions, imports and answers: when nothing is
\* under way the list is the one of the query on the screen, unless an answer was overtaken,
\* a call failed, or the query changed during a deletion or an import; and it is empty only
\* if nothing is found.
THEOREM ListIsOfTheQuery == ListingSpec => []ListMatches
<1>1. InitListing => ListInv
  BY ListInit
<1>2. ListInv /\ [ListingNext]_listing => ListInv'
  <2> SUFFICES ASSUME ListInv, [ListingNext]_listing PROVE ListInv'
    OBVIOUS
  <2>1. CASE UNCHANGED listing
    BY <2>1 DEF listing, ListInv, ListTypeOK, Follows, Fair, LastSent, Errands, OnErrand, Turned
  <2>. QED
    BY <2>1, ChangeSteps, TurnSteps, TabSteps, ErrandSteps, AnswerSteps, ShowSteps, FailSteps
    DEF ListingNext
<1>3. ListInv => ListMatches
  <2> SUFFICES ASSUME ListInv, Quiet, "crossed" \notin luck
               PROVE  /\ list = reply(query)
                      /\ luck = {} /\ list.total > 0 => list.items # {}
    BY DEF ListMatches
  <2>1. Fair /\ fetches = <<>> /\ ~errand.done
    BY DEF Fair, Quiet, ListInv, Errands
  <2>2. list = Answer(kind, records, query)
    BY <2>1 DEF ListInv, Follows
  <2>3. ASSUME luck = {}, list.total > 0 PROVE list.items # {}
    <3>1. kind # "problems" => There(records, query)
      <4>1. DOMAIN fetches = {}
        BY <2>1
      <4>. QED
        BY <2>3, <4>1 DEF ListInv, ListTypeOK, Turned
    <3>2. /\ kind \in {"questions", "users", "problems"} /\ records \in SUBSET Record
          /\ query \in Query
      BY DEF ListInv, ListTypeOK
    <3>. QED
      BY <2>2, <2>3, <3>1, <3>2, NotEmpty
  <2>. QED
    BY <2>2, <2>3, ReplyIs
<1>. QED
  BY <1>1, <1>2, <1>3, PTL DEF ListingSpec

-----------------------------------------------------------------------------
(* The backup.                                                             *)

FileType ==
    [kind : {"read", "no JSON", "too long"}, has : SUBSET Coll, docs : [Coll -> SUBSET Doc]]

UploadType ==
    [at : 0..(Len(Collections) + 1), cleared : BOOLEAN, todo : SUBSET Doc,
     result : {"none", "restored", "failed"}, file : FileType, before : [Coll -> SUBSET Doc],
     alone : BOOLEAN]

ExportType ==
    [at : 0..(Len(Collections) + 1), got : [Coll -> SUBSET Doc], alone : BOOLEAN,
     told : BOOLEAN]

BackupTypeOK ==
    /\ db \in [Coll -> SUBSET Doc]
    /\ export \in ExportType
    /\ file \in FileType
    /\ uploads \in [Upload -> UploadType]

Docs(u, i) == uploads[u].file.docs[Collections[i]]

At(u, i) == uploads[u].at = i /\ uploads[u].cleared

Past(u, i) == uploads[u].at > i \/ uploads[u].result = "restored"

\* What is left to insert is the end of the collection in the file.
Filling(u) ==
    LET up == uploads[u]
    IN  /\ Working(u) => up.result = "none"
        /\ up.cleared =>
              /\ up.at \in DOMAIN Collections /\ Collections[up.at] \in up.file.has
              /\ up.todo \subseteq Docs(u, up.at)
              /\ \A d \in up.todo, e \in Docs(u, up.at) : d < e => e \in up.todo
        /\ ~up.cleared => up.todo = {}
        /\ up.result = "failed" /\ up.file.has = {} => file.kind # "read" \/ file.has = Coll

\* What has been read of a database that nobody has written to since is what it holds.
Reading ==
    /\ export.at > 0 /\ export.alone =>
          \A i \in DOMAIN Collections :
              i < export.at => export.got[Collections[i]] = db[Collections[i]]
    /\ export.told => export.at = 0
    /\ export.told /\ export.alone => file.docs = db

\* An upload that is alone has done what it has gone through, and nothing else.
Alone(u) ==
    LET up == uploads[u]
    IN  up.alone =>
          /\ Working(u) => \A i \in DOMAIN Collections :
                LET c == Collections[i]
                IN  /\ i < up.at => db[c] = Restored(up.file, up.before)[c]
                    /\ i > up.at \/ (i = up.at /\ ~up.cleared) => db[c] = up.before[c]
                    /\ i = up.at /\ up.cleared => db[c] = Docs(u, i) \ up.todo
          /\ up.result = "restored" => db = Restored(up.file, up.before)
          /\ up.result = "failed" => Torn(up.file, up.before)

Begun(u) == Working(u) \/ uploads[u].result # "none"

OneFile == \A u, v \in Upload : Begun(u) /\ Begun(v) => uploads[u].file = uploads[v].file

\* A collection that some of the uploads have emptied has nothing but the file's
\* documents.  One that is missing is still to come from an upload, which has a lower one
\* behind it if that is there; and whoever inserted a document has it behind, or is past
\* the collection.
Shared(i, docs) ==
    LET c == Collections[i]
    IN  /\ db[c] \subseteq docs
        /\ \A d \in docs \ db[c] : \E w \in Upload : At(w, i) /\ d \in uploads[w].todo
        /\ \A d \in db[c], e \in docs \ db[c] :
              d < e => \E w \in Upload :
                          At(w, i) /\ e \in uploads[w].todo /\ d \notin uploads[w].todo
        /\ \A d \in db[c] :
              \E w \in Upload : Past(w, i) \/ (At(w, i) /\ d \notin uploads[w].todo)

Meeting(i) ==
    \A u \in Upload :
        (At(u, i) \/ Past(u, i)) /\ Collections[i] \in uploads[u].file.has =>
            Shared(i, Docs(u, i))

\* An upload fails only at a document that another one has inserted.
Survived ==
    \A u \in Upload :
        uploads[u].result = "failed" /\ uploads[u].file.has # {} =>
            \E w \in Upload : Working(w) \/ uploads[w].result = "restored"

Meetings ==
    "meet" \in trouble /\ OneFile =>
        (\A i \in DOMAIN Collections : Meeting(i)) /\ Survived

\* Where uploads may meet, nobody else writes and MongoDB refuses nothing.
CalmMeetings == \A T \in Troubles : "meet" \in T => T \cap {"write", "refuse"} = {}

Calm == "meet" \in trouble => trouble \cap {"write", "refuse"} = {}

BackupInv ==
    /\ BackupTypeOK /\ Reading /\ Calm /\ Meetings
    /\ \A u \in Upload : Filling(u) /\ Alone(u)

-----------------------------------------------------------------------------

LEMMA Collected ==
    /\ DOMAIN Collections = 1..Len(Collections) /\ Len(Collections) \in Nat \ {0}
    /\ \A i \in DOMAIN Collections : Collections[i] \in Coll
    /\ \A c \in Coll : \E i \in DOMAIN Collections : c = Collections[i]
    /\ \A i, j \in DOMAIN Collections : Collections[i] = Collections[j] => i = j
<1>1. Collections \in Seq(Coll) /\ Collections # <<>>
  BY BackupAssumption
<1>2. DOMAIN Collections = 1..Len(Collections) /\ Len(Collections) \in Nat \ {0}
  BY <1>1
<1>. QED
  BY <1>1, <1>2, BackupAssumption DEF Coll, ToSet

\* A set of numbers that is not empty has a least one.
LEMMA Least ==
    ASSUME NEW S \in SUBSET Nat, S # {}
    PROVE  Min(S) \in S /\ \A e \in S : Min(S) =< e
<1> DEFINE Below(m) == {x \in S : x =< m}
           T == {Below(m) : m \in S}
           R == StrictSubsetOrdering(Nat)
           F == FiniteSubsetsOf(Nat)
<1>1. T \subseteq F
  <2>1. SUFFICES ASSUME NEW m \in S PROVE IsFiniteSet(Below(m))
    BY <2>1 DEF FiniteSubsetsOf
  <2>2. Below(m) \in SUBSET Nat /\ m \in Nat /\ \A x \in Below(m) : x <= m
    OBVIOUS
  <2>. QED
    BY <2>2, FS_BoundedSetOfNaturals
<1>2. PICK m \in S : \A n \in S : <<Below(n), Below(m)>> \notin R
  <2>1. IsWellFoundedOn(R, F)
    BY FS_StrictSubsetOrderingWellFounded
  <2>2. T # {}
    OBVIOUS
  <2> HIDE DEF R, F, Below
  <2>3. \E x \in T : \A y \in T : <<y, x>> \notin R
    BY <1>1, <2>1, <2>2, WFMin
  <2>. QED
    BY <2>3
<1>3. \A n \in S : m =< n
  <2>1. SUFFICES ASSUME NEW n \in S, n < m PROVE FALSE
    BY <2>1
  <2>2. n \in Nat /\ m \in Nat /\ \A x \in S : x \in Nat
    OBVIOUS
  <2>3. Below(n) \in SUBSET Nat /\ Below(m) \in SUBSET Nat
    OBVIOUS
  <2>4. ASSUME NEW x \in Below(n) PROVE x \in Below(m)
    <3>1. x \in S /\ x =< n
      OBVIOUS
    <3>2. x =< m
      BY <2>1, <2>2, <3>1
    <3>. QED
      BY <3>1, <3>2
  <2>5. m \in Below(m) /\ m \notin Below(n)
    BY <2>1, <2>2
  <2> HIDE DEF Below
  <2>6. <<Below(n), Below(m)>> \in R
    BY <2>3, <2>4, <2>5 DEF StrictSubsetOrdering
  <2>. QED
    BY <1>2, <2>6
<1>. QED
  BY <1>3 DEF Min

-----------------------------------------------------------------------------
(* What each step does to the uploads.                                     *)

\* An upload that is where it was.
Kept(v) ==
    /\ uploads'[v].at = uploads[v].at /\ uploads'[v].cleared = uploads[v].cleared
    /\ uploads'[v].todo = uploads[v].todo /\ uploads'[v].result = uploads[v].result
    /\ uploads'[v].file = uploads[v].file

\* A write by u: the others are no longer alone.
Aside(u) == \A v \in Upload \ {u} : Kept(v) /\ ~uploads'[v].alone

Untouched(u) == \A v \in Upload \ {u} : uploads'[v] = uploads[v]

\* u itself: what it is given with, and what the field it goes by becomes.
Goes(u, n, cleared, todo, result) ==
    /\ uploads'[u].at = n /\ uploads'[u].cleared = cleared /\ uploads'[u].todo = todo
    /\ uploads'[u].result = result /\ uploads'[u].file = uploads[u].file
    /\ uploads'[u].before = uploads[u].before /\ uploads'[u].alone = uploads[u].alone

LEMMA EmptyType == Empty \in [Coll -> SUBSET Doc] /\ Free \in UploadType
<1>1. Empty \in [Coll -> SUBSET Doc]
  BY DEF Empty
<1>. QED
  BY <1>1, Collected DEF Free, UploadType, FileType

LEMMA DisturbedFacts ==
    ASSUME BackupTypeOK, NEW who
    PROVE  /\ Disturbed(who) \in [Upload -> UploadType]
           /\ \A v \in Upload :
                 /\ v = who => Disturbed(who)[v] = uploads[v]
                 /\ v # who =>
                       /\ ~Disturbed(who)[v].alone
                       /\ Disturbed(who)[v].at = uploads[v].at
                       /\ Disturbed(who)[v].cleared = uploads[v].cleared
                       /\ Disturbed(who)[v].todo = uploads[v].todo
                       /\ Disturbed(who)[v].result = uploads[v].result
                       /\ Disturbed(who)[v].file = uploads[v].file
<1>1. ASSUME NEW v \in Upload
      PROVE  LET e == [uploads[v] EXCEPT !.alone = FALSE, !.before = Empty]
             IN  /\ e \in UploadType /\ ~e.alone /\ e.at = uploads[v].at
                 /\ e.cleared = uploads[v].cleared /\ e.todo = uploads[v].todo
                 /\ e.result = uploads[v].result /\ e.file = uploads[v].file
  <2>1. uploads[v] \in UploadType
    BY DEF BackupTypeOK
  <2>. QED
    BY <2>1, EmptyType DEF UploadType
<1>2. \A v \in Upload : uploads[v] \in UploadType
  BY DEF BackupTypeOK
<1>. QED
  BY <1>1, <1>2 DEF Disturbed

LEMMA UploadFields ==
    ASSUME BackupTypeOK, NEW u \in Upload
    PROVE  /\ uploads[u].at \in 0..(Len(Collections) + 1) /\ uploads[u].cleared \in BOOLEAN
           /\ uploads[u].todo \in SUBSET Doc
           /\ uploads[u].result \in {"none", "restored", "failed"}
           /\ uploads[u].file \in FileType /\ uploads[u].before \in [Coll -> SUBSET Doc]
           /\ uploads[u].alone \in BOOLEAN /\ uploads[u] \in UploadType
           /\ uploads[u].file.has \in SUBSET Coll
           /\ uploads[u].file.docs \in [Coll -> SUBSET Doc]
           /\ Working(u) <=> uploads[u].at # 0
<1>1. uploads[u] \in UploadType
  BY DEF BackupTypeOK
<1>2. uploads[u].file \in FileType
  BY <1>1 DEF UploadType
<1>3. uploads[u].at \in 0..(Len(Collections) + 1)
  BY <1>1 DEF UploadType
<1>4. uploads[u].at > 0 <=> uploads[u].at # 0
  BY <1>3, Collected
<1>. QED
  BY <1>1, <1>2, <1>4 DEF UploadType, FileType, Working

LEMMA SkipSteps ==
    ASSUME BackupTypeOK, NEW u \in Upload, skipCollection(u)
    PROVE  /\ uploads[u].at \in DOMAIN Collections /\ ~uploads[u].cleared
           /\ Collections[uploads[u].at] \notin uploads[u].file.has
           /\ Goes(u, uploads[u].at + 1, uploads[u].cleared, uploads[u].todo, uploads[u].result)
           /\ Untouched(u) /\ uploads' \in [Upload -> UploadType]
           /\ UNCHANGED <<db, export, file, trouble>>
<1> DEFINE w == [uploads[u] EXCEPT !.at = @ + 1]
<1>1. uploads' = [uploads EXCEPT ![u] = w]
  BY DEF skipCollection
<1>2. uploads[u] \in UploadType /\ uploads[u].at \in DOMAIN Collections
  BY DEF BackupTypeOK, skipCollection
<1>3. uploads[u].at + 1 \in 0..(Len(Collections) + 1)
  BY <1>2, Collected
<1>4. /\ w \in UploadType /\ w.at = uploads[u].at + 1 /\ w.cleared = uploads[u].cleared
      /\ w.todo = uploads[u].todo /\ w.result = uploads[u].result
      /\ w.file = uploads[u].file /\ w.before = uploads[u].before
      /\ w.alone = uploads[u].alone
  BY <1>2, <1>3 DEF UploadType
<1> HIDE DEF w
<1>. QED
  BY <1>1, <1>4 DEF BackupTypeOK, skipCollection, Goes, Untouched

LEMMA ClearSteps ==
    ASSUME BackupTypeOK, NEW u \in Upload, deleteMany(u)
    PROVE  LET i == uploads[u].at
           IN  /\ i \in DOMAIN Collections /\ ~uploads[u].cleared
               /\ Collections[i] \in uploads[u].file.has
               /\ Goes(u, i, TRUE, Docs(u, i), uploads[u].result)
               /\ Aside(u) /\ uploads' \in [Upload -> UploadType]
               /\ db' = [db EXCEPT ![Collections[i]] = {}]
               /\ export' = [export EXCEPT !.alone = FALSE] /\ UNCHANGED <<file, trouble>>
<1> DEFINE i == uploads[u].at
           w == [uploads[u] EXCEPT !.cleared = TRUE, !.todo = Docs(u, i)]
           D == Disturbed(u)
<1>1. /\ D \in [Upload -> UploadType] /\ D[u] = uploads[u]
      /\ \A v \in Upload \ {u} :
            /\ ~D[v].alone /\ D[v].at = uploads[v].at /\ D[v].cleared = uploads[v].cleared
            /\ D[v].todo = uploads[v].todo /\ D[v].result = uploads[v].result
            /\ D[v].file = uploads[v].file
  BY DisturbedFacts
<1>2. uploads[u] \in UploadType /\ uploads[u].file.docs \in [Coll -> SUBSET Doc]
  BY UploadFields
<1>3. i \in DOMAIN Collections /\ Collections[i] \in Coll
  BY Collected DEF deleteMany, Clearing
<1>4. Docs(u, i) \in SUBSET Doc
  BY <1>2, <1>3 DEF Docs
<1> HIDE DEF D
<1>5. uploads' = [D EXCEPT ![u] = w]
  BY <1>1 DEF deleteMany, Cleared, Docs, D
<1>6. /\ w \in UploadType /\ w.at = uploads[u].at /\ w.cleared = TRUE
      /\ w.todo = Docs(u, i) /\ w.result = uploads[u].result
      /\ w.file = uploads[u].file /\ w.before = uploads[u].before
      /\ w.alone = uploads[u].alone
  BY <1>2, <1>4 DEF UploadType
<1> HIDE DEF w
<1>7. /\ i \in DOMAIN Collections /\ ~uploads[u].cleared
      /\ Collections[i] \in uploads[u].file.has
      /\ db' = [db EXCEPT ![Collections[i]] = {}]
      /\ export' = [export EXCEPT !.alone = FALSE] /\ UNCHANGED <<file, trouble>>
  BY DEF deleteMany, Clearing
<1>8. uploads' \in [Upload -> UploadType]
  BY <1>1, <1>5, <1>6
<1>9. Goes(u, i, TRUE, Docs(u, i), uploads[u].result)
  BY <1>1, <1>5, <1>6 DEF Goes
<1>10. Aside(u)
  BY <1>1, <1>5 DEF Aside, Kept
<1>. QED
  BY <1>7, <1>8, <1>9, <1>10

LEMMA EndedFacts ==
    ASSUME BackupTypeOK, NEW u \in Upload, uploads' = Failing(u)
    PROVE  /\ Goes(u, 0, FALSE, {}, "failed")
           /\ Untouched(u) /\ uploads' \in [Upload -> UploadType]
<1> DEFINE w == [uploads[u] EXCEPT !.at = 0, !.cleared = FALSE, !.todo = {},
                                   !.result = "failed"]
<1>1. uploads' = [uploads EXCEPT ![u] = w]
  BY DEF Failing, BackupTypeOK
<1>2. uploads[u] \in UploadType
  BY DEF BackupTypeOK
<1>3. 0 \in 0..(Len(Collections) + 1)
  BY Collected
<1>4. /\ w \in UploadType /\ w.at = 0 /\ w.cleared = FALSE /\ w.todo = {}
      /\ w.result = "failed" /\ w.file = uploads[u].file
      /\ w.before = uploads[u].before /\ w.alone = uploads[u].alone
  BY <1>2, <1>3 DEF UploadType
<1> HIDE DEF w
<1>. QED
  BY <1>1, <1>4 DEF BackupTypeOK, Goes, Untouched

LEMMA InsertSteps ==
    ASSUME BackupTypeOK, NEW u \in Upload, Filling(u), insertOne(u)
    PROVE  LET i == uploads[u].at
               c == Collections[i]
               d == Min(uploads[u].todo)
           IN  /\ i \in DOMAIN Collections /\ c \in Coll /\ At(u, i)
               /\ uploads[u].result = "none"
               /\ c \in uploads[u].file.has /\ d \in uploads[u].todo
               /\ d \in Docs(u, i) /\ d \in Nat
               /\ \A e \in uploads[u].todo : d =< e
               /\ UNCHANGED <<file, trouble>> /\ uploads' \in [Upload -> UploadType]
               /\ \/ /\ d \in db[c]
                     /\ Goes(u, 0, FALSE, {}, "failed") /\ Untouched(u)
                     /\ UNCHANGED <<db, export>>
                  \/ /\ d \notin db[c]
                     /\ Goes(u, i, TRUE, uploads[u].todo \ {d}, uploads[u].result)
                     /\ Aside(u)
                     /\ db' = [db EXCEPT ![c] = @ \cup {d}]
                     /\ export' = [export EXCEPT !.alone = FALSE]
<1> DEFINE i == uploads[u].at
           c == Collections[i]
           d == Min(uploads[u].todo)
           w == [uploads[u] EXCEPT !.todo = @ \ {d}]
           D == Disturbed(u)
<1>1. /\ Working(u) /\ uploads[u].cleared /\ uploads[u].todo # {}
      /\ UNCHANGED <<file, trouble>>
  BY DEF insertOne
<1>2. /\ i \in DOMAIN Collections /\ c \in uploads[u].file.has
      /\ uploads[u].todo \subseteq Docs(u, i) /\ uploads[u].result = "none"
  BY <1>1 DEF Filling
<1>3. uploads[u].todo \in SUBSET Nat /\ c \in Coll
  BY <1>2, UploadFields, BackupAssumption, Collected
<1>4. d \in uploads[u].todo /\ \A e \in uploads[u].todo : d =< e
  BY <1>1, <1>3, Least
<1>5. At(u, i)
  BY <1>1 DEF At
<1> HIDE DEF d
<1>6. CASE d \in db[c]
  <2>1. uploads' = Failing(u) /\ UNCHANGED <<db, export>>
    BY <1>6 DEF insertOne, d
  <2>. QED
    BY <1>1, <1>2, <1>3, <1>4, <1>5, <1>6, <2>1, EndedFacts DEF d
<1>7. CASE d \notin db[c]
  <2>1. /\ D \in [Upload -> UploadType] /\ D[u] = uploads[u]
        /\ \A v \in Upload \ {u} :
              /\ ~D[v].alone /\ D[v].at = uploads[v].at
              /\ D[v].cleared = uploads[v].cleared /\ D[v].todo = uploads[v].todo
              /\ D[v].result = uploads[v].result /\ D[v].file = uploads[v].file
    BY DisturbedFacts
  <2>2. uploads[u] \in UploadType
    BY UploadFields
  <2> HIDE DEF D
  <2>3. uploads' = [D EXCEPT ![u] = w]
    BY <1>7, <2>1 DEF insertOne, d, D
  <2>4. /\ db' = [db EXCEPT ![c] = @ \cup {d}]
        /\ export' = [export EXCEPT !.alone = FALSE]
    BY <1>7 DEF insertOne, d
  <2>5. /\ w \in UploadType /\ w.at = uploads[u].at /\ w.cleared = uploads[u].cleared
        /\ w.todo = uploads[u].todo \ {d} /\ w.result = uploads[u].result
        /\ w.file = uploads[u].file /\ w.before = uploads[u].before
        /\ w.alone = uploads[u].alone
    BY <2>2 DEF UploadType
  <2> HIDE DEF w
  <2>6. uploads' \in [Upload -> UploadType]
    BY <2>1, <2>3, <2>5
  <2>7. Goes(u, i, TRUE, uploads[u].todo \ {d}, uploads[u].result)
    <3>1. uploads'[u] = w
      BY <2>1, <2>3
    <3>2. uploads[u].cleared = TRUE
      BY <1>1, <2>2 DEF UploadType
    <3>. QED
      BY <2>5, <3>1, <3>2 DEF Goes
  <2>8. Aside(u)
    BY <2>1, <2>3 DEF Aside, Kept
  <2>. QED
    BY <1>1, <1>2, <1>3, <1>4, <1>5, <1>7, <2>4, <2>6, <2>7, <2>8 DEF d
<1>. QED
  BY <1>6, <1>7

LEMMA InsertedSteps ==
    ASSUME BackupTypeOK, NEW u \in Upload, Filling(u), inserted(u)
    PROVE  LET i == uploads[u].at
           IN  /\ i \in DOMAIN Collections /\ At(u, i) /\ uploads[u].todo = {}
               /\ uploads[u].result = "none" /\ Collections[i] \in uploads[u].file.has
               /\ Goes(u, i + 1, FALSE, {}, uploads[u].result)
               /\ Untouched(u) /\ uploads' \in [Upload -> UploadType]
               /\ UNCHANGED <<db, export, file, trouble>>
<1> DEFINE i == uploads[u].at
           w == [uploads[u] EXCEPT !.at = @ + 1, !.cleared = FALSE]
<1>1. /\ Working(u) /\ uploads[u].cleared /\ uploads[u].todo = {}
      /\ UNCHANGED <<db, export, file, trouble>>
  BY DEF inserted
<1>2. /\ i \in DOMAIN Collections /\ Collections[i] \in uploads[u].file.has
      /\ uploads[u].result = "none" /\ At(u, i)
  BY <1>1 DEF Filling, At
<1>3. i + 1 \in 0..(Len(Collections) + 1)
  BY <1>2, Collected
<1>4. uploads[u] \in UploadType
  BY DEF BackupTypeOK
<1>5. /\ w \in UploadType /\ w.at = i + 1 /\ w.cleared = FALSE
      /\ w.todo = uploads[u].todo /\ w.result = uploads[u].result
      /\ w.file = uploads[u].file /\ w.before = uploads[u].before
      /\ w.alone = uploads[u].alone
  BY <1>3, <1>4 DEF UploadType
<1>6. uploads' = [uploads EXCEPT ![u] = w]
  BY DEF inserted, BackupTypeOK
<1> HIDE DEF w
<1>. QED
  BY <1>1, <1>2, <1>5, <1>6 DEF BackupTypeOK, Goes, Untouched

LEMMA RestoredSteps ==
    ASSUME BackupTypeOK, NEW u \in Upload, Filling(u), restored(u)
    PROVE  /\ uploads[u].at > Len(Collections) /\ Working(u)
           /\ ~uploads[u].cleared /\ uploads[u].todo = {}
           /\ Goes(u, 0, FALSE, {}, "restored")
           /\ Untouched(u) /\ uploads' \in [Upload -> UploadType]
           /\ UNCHANGED <<db, export, file, trouble>>
<1> DEFINE w == [uploads[u] EXCEPT !.at = 0, !.result = "restored"]
<1>1. uploads[u].at > Len(Collections) /\ UNCHANGED <<db, export, file, trouble>>
  BY DEF restored
<1>2. uploads[u].at \in 0..(Len(Collections) + 1)
  BY UploadFields
<1>3. Working(u) /\ uploads[u].at \notin DOMAIN Collections
  BY <1>1, <1>2, Collected DEF Working
<1>4. ~uploads[u].cleared /\ uploads[u].todo = {}
  BY <1>3 DEF Filling
<1>5. uploads[u] \in UploadType /\ 0 \in 0..(Len(Collections) + 1)
  BY Collected DEF BackupTypeOK
<1>6. uploads[u].cleared = FALSE
  BY <1>4, <1>5 DEF UploadType
<1>7. /\ w \in UploadType /\ w.at = 0 /\ w.cleared = FALSE
      /\ w.todo = {} /\ w.result = "restored"
      /\ w.file = uploads[u].file /\ w.before = uploads[u].before
      /\ w.alone = uploads[u].alone
  BY <1>4, <1>5, <1>6 DEF UploadType
<1>8. uploads' = [uploads EXCEPT ![u] = w]
  BY DEF restored, BackupTypeOK
<1> HIDE DEF w
<1>. QED
  BY <1>1, <1>3, <1>4, <1>7, <1>8 DEF BackupTypeOK, Goes, Untouched

LEMMA RefusedSteps ==
    ASSUME BackupTypeOK, NEW u \in Upload, Filling(u), restoreFails(u)
    PROVE  /\ "refuse" \in trouble /\ trouble' = trouble \ {"refuse"}
           /\ uploads[u].at \in DOMAIN Collections /\ Working(u)
           /\ Collections[uploads[u].at] \in uploads[u].file.has
           /\ Goes(u, 0, FALSE, {}, "failed")
           /\ Untouched(u) /\ uploads' \in [Upload -> UploadType]
           /\ UNCHANGED <<db, export, file>>
<1>1. /\ "refuse" \in trouble /\ trouble' = trouble \ {"refuse"}
      /\ uploads' = Failing(u) /\ UNCHANGED <<db, export, file>>
  BY DEF restoreFails
<1>2. /\ uploads[u].at \in DOMAIN Collections
      /\ Collections[uploads[u].at] \in uploads[u].file.has
  BY DEF restoreFails, Clearing, Filling
<1>3. Working(u)
  BY <1>2, Collected DEF Working
<1>. QED
  BY <1>1, <1>2, <1>3, EndedFacts

LEMMA StartSteps ==
    ASSUME BackupTypeOK, NEW u \in Upload, handleRestoreDatabase(u)
    PROVE  /\ ~Working(u) /\ uploads[u].result = "none"
           /\ uploads' \in [Upload -> UploadType] /\ Untouched(u)
           /\ UNCHANGED <<db, export, file, trouble>>
           /\ ~uploads'[u].cleared /\ uploads'[u].todo = {}
           /\ \/ /\ uploads'[u].at = 1 /\ uploads'[u].result = "none"
                 /\ uploads'[u].file = file /\ uploads'[u].before = db
              \/ /\ uploads'[u].at = 0 /\ uploads'[u].result = "failed"
                 /\ uploads'[u].file.has = {} /\ ~uploads'[u].alone
                 /\ file.kind # "read"
<1> DEFINE w == IF file.kind = "read"
                THEN [Free EXCEPT !.at = 1, !.file = file, !.before = db,
                                  !.alone = \A v \in Upload : ~Working(v)]
                ELSE [Free EXCEPT !.result = "failed", !.alone = FALSE]
           p == \A v \in Upload : ~Working(v)
<1>1. /\ ~Working(u) /\ uploads[u].result = "none"
      /\ uploads' = [uploads EXCEPT ![u] = w]
      /\ UNCHANGED <<db, export, file, trouble>>
  BY DEF handleRestoreDatabase
<1>2. Free \in UploadType /\ 1 \in 0..(Len(Collections) + 1)
  BY EmptyType, Collected
<1>3. file \in FileType /\ db \in [Coll -> SUBSET Doc] /\ p \in BOOLEAN
  BY DEF BackupTypeOK
<1>4. ~Free.cleared /\ Free.todo = {} /\ Free.file.has = {} /\ Free.at = 0
      /\ Free.result = "none"
  BY DEF Free
<1>5. /\ w \in UploadType /\ ~w.cleared /\ w.todo = {}
      /\ \/ w.at = 1 /\ w.result = "none" /\ w.file = file /\ w.before = db
         \/ /\ w.at = 0 /\ w.result = "failed" /\ w.file.has = {} /\ ~w.alone
            /\ file.kind # "read"
  <2>1. CASE file.kind = "read"
    <3> DEFINE x == [Free EXCEPT !.at = 1, !.file = file, !.before = db, !.alone = p]
    <3> HIDE DEF p
    <3>1. /\ x \in UploadType /\ ~x.cleared /\ x.todo = {}
          /\ x.at = 1 /\ x.result = "none" /\ x.file = file /\ x.before = db
      BY <1>2, <1>3, <1>4 DEF UploadType
    <3> USE DEF p
    <3>2. w = x
      BY <2>1
    <3>. QED
      BY <3>1, <3>2
  <2>2. CASE file.kind # "read"
    <3> DEFINE x == [Free EXCEPT !.result = "failed", !.alone = FALSE]
    <3>1. /\ x \in UploadType /\ ~x.cleared /\ x.todo = {}
          /\ x.at = 0 /\ x.result = "failed" /\ x.file.has = {} /\ ~x.alone
      BY <1>2, <1>4 DEF UploadType
    <3>2. w = x
      BY <2>2
    <3>. QED
      BY <2>2, <3>1, <3>2
  <2>. QED
    BY <2>1, <2>2
<1> HIDE DEF w
<1>. QED
  BY <1>1, <1>5 DEF BackupTypeOK, Untouched

LEMMA WriteSteps ==
    ASSUME BackupTypeOK, writes
    PROVE  /\ "write" \in trouble /\ trouble' = trouble \ {"write"}
           /\ \A v \in Upload : Kept(v) /\ ~uploads'[v].alone
           /\ uploads' \in [Upload -> UploadType] /\ db' \in [Coll -> SUBSET Doc]
           /\ export' = [export EXCEPT !.alone = FALSE] /\ UNCHANGED file
<1> DEFINE D == Disturbed("another request")
<1>1. /\ D \in [Upload -> UploadType]
      /\ \A v \in Upload :
            /\ ~D[v].alone /\ D[v].at = uploads[v].at /\ D[v].cleared = uploads[v].cleared
            /\ D[v].todo = uploads[v].todo /\ D[v].result = uploads[v].result
            /\ D[v].file = uploads[v].file
  BY DisturbedFacts, BackupAssumption
<1>2. /\ uploads' = D /\ "write" \in trouble /\ trouble' = trouble \ {"write"}
      /\ export' = [export EXCEPT !.alone = FALSE] /\ UNCHANGED file
  BY DEF writes
<1>3. db' \in [Coll -> SUBSET Doc]
  <2>1. PICK c \in Coll, d \in Doc :
            db' = [db EXCEPT ![c] = IF d \in db[c] THEN db[c] \ {d} ELSE db[c] \cup {d}]
    BY DEF writes, BackupTypeOK
  <2>. QED
    BY <2>1 DEF BackupTypeOK
<1> HIDE DEF D
<1>. QED
  BY <1>1, <1>2, <1>3 DEF Kept

LEMMA DownloadSteps ==
    ASSUME BackupTypeOK, handleDownloadBackup \/ exportDatabase \/ downloaded
    PROVE  /\ UNCHANGED <<db, uploads>> /\ trouble' \subseteq trouble
           /\ export' \in ExportType /\ file' \in FileType
           /\ file' = file \/ file'.has = Coll
<1>1. CASE handleDownloadBackup
  <2>1. 1 \in 0..(Len(Collections) + 1)
    BY Collected
  <2> DEFINE p == \A u \in Upload : ~Working(u)
  <2>2. p \in BOOLEAN
    OBVIOUS
  <2> HIDE DEF p
  <2>3. [at |-> 1, got |-> Empty, alone |-> p, told |-> FALSE] \in ExportType
    BY <2>1, <2>2, EmptyType DEF ExportType
  <2>. QED
    BY <1>1, <2>3 DEF handleDownloadBackup, BackupTypeOK, p
<1>2. CASE exportDatabase
  <2>1. /\ export.at \in DOMAIN Collections
        /\ export' = [export EXCEPT !.at = @ + 1,
                         !.got[Collections[export.at]] = db[Collections[export.at]]]
        /\ UNCHANGED <<db, file, uploads, trouble>>
    BY <1>2 DEF exportDatabase
  <2>2. export.at + 1 \in 0..(Len(Collections) + 1) /\ Collections[export.at] \in Coll
    BY <2>1, Collected
  <2>3. export' \in ExportType
    BY <2>1, <2>2 DEF ExportType, BackupTypeOK
  <2>. QED
    BY <2>1, <2>3 DEF BackupTypeOK
<1>3. CASE downloaded
  <2>1. 0 \in 0..(Len(Collections) + 1)
    BY Collected
  <2>2. /\ file' = [kind |-> "read", has |-> Coll, docs |-> export.got]
        /\ export' = [export EXCEPT !.at = 0, !.told = TRUE]
        /\ UNCHANGED <<db, uploads>> /\ trouble' = trouble \ {"download"}
    BY <1>3 DEF downloaded
  <2>. QED
    BY <2>1, <2>2 DEF BackupTypeOK, ExportType, FileType
<1>. QED
  BY <1>1, <1>2, <1>3

\* The export is no longer of a database that nobody has written to.
LEMMA SpoiltExport ==
    ASSUME BackupTypeOK, export' = [export EXCEPT !.alone = FALSE]
    PROVE  /\ export' \in ExportType /\ ~export'.alone
           /\ export'.at = export.at /\ export'.told = export.told
  BY DEF BackupTypeOK, ExportType

LEMMA TypeStep ==
    ASSUME BackupTypeOK, \A u \in Upload : Filling(u), [BackupNext]_backup
    PROVE  BackupTypeOK'
<1>1. CASE handleDownloadBackup \/ exportDatabase \/ downloaded
  BY <1>1, DownloadSteps DEF BackupTypeOK
<1>2. CASE writes
  BY <1>2, WriteSteps, SpoiltExport DEF BackupTypeOK
<1>3. ASSUME NEW u \in Upload, handleRestoreDatabase(u) PROVE BackupTypeOK'
  BY <1>3, StartSteps DEF BackupTypeOK
<1>4. ASSUME NEW u \in Upload, skipCollection(u) PROVE BackupTypeOK'
  BY <1>4, SkipSteps DEF BackupTypeOK
<1>5. ASSUME NEW u \in Upload, deleteMany(u) PROVE BackupTypeOK'
  BY <1>5, ClearSteps, SpoiltExport DEF BackupTypeOK
<1>6. ASSUME NEW u \in Upload, insertOne(u) PROVE BackupTypeOK'
  <2>1. Filling(u)
    OBVIOUS
  <2>2. Min(uploads[u].todo) \in Doc
    BY <1>6, <2>1, InsertSteps, UploadFields
  <2>3. UNCHANGED file /\ uploads' \in [Upload -> UploadType]
    BY <1>6, <2>1, InsertSteps
  <2>4. \/ UNCHANGED <<db, export>>
        \/ /\ db' = [db EXCEPT ![Collections[uploads[u].at]] = @ \cup {Min(uploads[u].todo)}]
           /\ export' = [export EXCEPT !.alone = FALSE]
    BY <1>6, <2>1, InsertSteps
  <2>5. export' \in ExportType
    BY <2>4, SpoiltExport DEF BackupTypeOK
  <2>6. db' \in [Coll -> SUBSET Doc]
    BY <2>2, <2>4 DEF BackupTypeOK
  <2>. QED
    BY <2>3, <2>5, <2>6 DEF BackupTypeOK
<1>7. ASSUME NEW u \in Upload, inserted(u) PROVE BackupTypeOK'
  BY <1>7, InsertedSteps DEF BackupTypeOK
<1>8. ASSUME NEW u \in Upload, restored(u) PROVE BackupTypeOK'
  BY <1>8, RestoredSteps DEF BackupTypeOK
<1>9. ASSUME NEW u \in Upload, restoreFails(u) PROVE BackupTypeOK'
  BY <1>9, RefusedSteps DEF BackupTypeOK
<1>10. CASE UNCHANGED backup
  BY <1>10 DEF backup, BackupTypeOK
<1>. QED
  BY <1>1, <1>2, <1>3, <1>4, <1>5, <1>6, <1>7, <1>8, <1>9, <1>10 DEF BackupNext

-----------------------------------------------------------------------------
(* What is left to insert.                                                 *)

LEMMA FillingKept ==
    ASSUME NEW v \in Upload, Filling(v), Kept(v), file' = file \/ file'.has = Coll
    PROVE  Filling(v)'
  BY DEF Filling, Kept, Docs, Working

\* An upload that has nothing to insert now.
LEMMA FillingNothing ==
    ASSUME NEW v \in Upload, uploads'[v].result = "none" \/ uploads'[v].at = 0,
           ~uploads'[v].cleared, uploads'[v].todo = {},
           uploads'[v].result = "failed" /\ uploads'[v].file.has = {} =>
               file'.kind # "read" \/ file'.has = Coll
    PROVE  Filling(v)'
<1>1. Working(v)' => uploads'[v].result = "none"
  BY Collected DEF Working
<1>. QED
  BY <1>1 DEF Filling

LEMMA Busy ==
    ASSUME NEW v \in Upload, uploads[v].at \in DOMAIN Collections
    PROVE  Working(v)
  BY Collected DEF Working

LEMMA FillingStep ==
    ASSUME BackupTypeOK, \A v \in Upload : Filling(v), [BackupNext]_backup, NEW v \in Upload
    PROVE  Filling(v)'
<1>1. CASE UNCHANGED <<uploads, file>>
  BY <1>1, FillingKept DEF Kept
<1>2. CASE handleDownloadBackup \/ exportDatabase \/ downloaded
  BY <1>2, DownloadSteps, FillingKept DEF Kept
<1>3. CASE writes
  BY <1>3, WriteSteps, FillingKept
<1>4. ASSUME NEW u \in Upload, UNCHANGED file, u # v, Untouched(u) \/ Aside(u)
      PROVE  Filling(v)'
  <2>1. Kept(v)
    BY <1>4 DEF Untouched, Aside, Kept
  <2>. QED
    BY <1>4, <2>1, FillingKept
<1>5. ASSUME handleRestoreDatabase(v) PROVE Filling(v)'
  BY <1>5, StartSteps, FillingNothing
<1>6. ASSUME skipCollection(v) PROVE Filling(v)'
  <2>1. uploads[v].result = "none"
    BY <1>6, SkipSteps, Busy DEF Filling
  <2>. QED
    BY <1>6, <2>1, SkipSteps, FillingNothing DEF Filling, Goes
<1>7. ASSUME deleteMany(v) PROVE Filling(v)'
  <2>1. uploads[v].result = "none"
    BY <1>7, ClearSteps, Busy DEF Filling
  <2>2. /\ uploads'[v].at = uploads[v].at /\ uploads'[v].cleared = TRUE
        /\ uploads'[v].todo = Docs(v, uploads[v].at)
        /\ uploads'[v].result = "none" /\ uploads'[v].file = uploads[v].file
        /\ uploads[v].at \in DOMAIN Collections
        /\ Collections[uploads[v].at] \in uploads[v].file.has
    BY <1>7, <2>1, ClearSteps DEF Goes
  <2>3. Docs(v, uploads[v].at)' = Docs(v, uploads[v].at)
    BY <2>2 DEF Docs
  <2>. QED
    BY <2>2, <2>3 DEF Filling, Docs
<1>8. ASSUME insertOne(v) PROVE Filling(v)'
  <2> DEFINE d == Min(uploads[v].todo)
  <2>1. /\ uploads[v].todo \subseteq Docs(v, uploads[v].at)
        /\ \A a \in uploads[v].todo, e \in Docs(v, uploads[v].at) :
              a < e => e \in uploads[v].todo
        /\ uploads[v].at \in DOMAIN Collections
        /\ Collections[uploads[v].at] \in uploads[v].file.has
        /\ uploads[v].result = "none"
    BY <1>8, InsertSteps DEF Filling, At
  <2>2. /\ Docs(v, uploads[v].at) \subseteq Nat
        /\ d \in uploads[v].todo /\ \A e \in uploads[v].todo : d =< e
    <3>1. Docs(v, uploads[v].at) \subseteq Doc
      BY <2>1, UploadFields, Collected DEF Docs
    <3>. QED
      BY <1>8, <3>1, InsertSteps, BackupAssumption
  <2> HIDE DEF d
  <2>3. CASE uploads'[v].result = "failed"
    <3>1. /\ uploads'[v].at = 0 /\ uploads'[v].cleared = FALSE
          /\ uploads'[v].todo = {} /\ uploads'[v].file = uploads[v].file
      BY <1>8, <2>1, <2>3, InsertSteps DEF Goes
    <3>. QED
      BY <2>1, <2>3, <3>1, FillingNothing
  <2>4. CASE uploads'[v].result # "failed"
    <3>1. /\ uploads'[v].at = uploads[v].at /\ uploads'[v].cleared = TRUE
          /\ uploads'[v].todo = uploads[v].todo \ {d}
          /\ uploads'[v].result = "none" /\ uploads'[v].file = uploads[v].file
      BY <1>8, <2>1, <2>4, InsertSteps DEF Goes, d
    <3>2. \A a \in uploads'[v].todo, e \in Docs(v, uploads[v].at) :
             a < e => e \in uploads'[v].todo
      <4>1. SUFFICES ASSUME NEW a \in uploads[v].todo, a # d,
                            NEW e \in Docs(v, uploads[v].at), a < e
                     PROVE  e \in uploads[v].todo /\ e # d
        BY <3>1
      <4>2. a \in Nat /\ e \in Nat /\ d \in Nat /\ d =< a
        BY <2>1, <2>2
      <4>. QED
        BY <2>1, <4>1, <4>2
    <3>3. uploads'[v].todo \subseteq Docs(v, uploads[v].at)
      BY <2>1, <3>1
    <3>. QED
      BY <2>1, <3>1, <3>2, <3>3 DEF Filling, Docs
  <2>. QED
    BY <2>3, <2>4
<1>9. ASSUME inserted(v) PROVE Filling(v)'
  BY <1>9, InsertedSteps, FillingNothing DEF Goes
<1>10. ASSUME restored(v) PROVE Filling(v)'
  BY <1>10, RestoredSteps, FillingNothing DEF Goes
<1>11. ASSUME restoreFails(v) PROVE Filling(v)'
  <2>1. uploads[v].file.has # {}
    BY <1>11, RefusedSteps
  <2>. QED
    BY <1>11, <2>1, RefusedSteps, FillingNothing DEF Goes
<1>12. ASSUME NEW u \in Upload,
              \/ handleRestoreDatabase(u) \/ skipCollection(u) \/ deleteMany(u)
              \/ insertOne(u) \/ inserted(u) \/ restored(u) \/ restoreFails(u)
       PROVE  Filling(v)'
  <2>1. UNCHANGED file /\ (Untouched(u) \/ Aside(u))
    BY <1>12, StartSteps, SkipSteps, ClearSteps, InsertSteps, InsertedSteps,
       RestoredSteps, RefusedSteps
  <2>. QED
    BY <1>4, <1>5, <1>6, <1>7, <1>8, <1>9, <1>10, <1>11, <1>12, <2>1
<1>. QED
  BY <1>1, <1>2, <1>3, <1>12 DEF BackupNext, backup

-----------------------------------------------------------------------------
(* The download.                                                           *)

LEMMA ReadingStep ==
    ASSUME BackupTypeOK, \A v \in Upload : Filling(v), Reading, [BackupNext]_backup
    PROVE  Reading'
<1>1. CASE handleDownloadBackup
  <2>1. export'.at = 1 /\ ~export'.told
    BY <1>1 DEF handleDownloadBackup
  <2>2. \A i \in DOMAIN Collections : ~(i < export'.at)
    BY <2>1, Collected
  <2>. QED
    BY <2>1, <2>2 DEF Reading
<1>2. CASE exportDatabase
  <2> DEFINE n == export.at
  <2>1. /\ n \in DOMAIN Collections
        /\ export' = [export EXCEPT !.at = @ + 1, !.got[Collections[n]] = db[Collections[n]]]
        /\ UNCHANGED <<db, file>>
    BY <1>2 DEF exportDatabase
  <2>2. n \in Nat \ {0} /\ Collections[n] \in Coll
    BY <2>1, Collected
  <2>3. /\ export'.at = n + 1 /\ export'.told = export.told /\ export'.alone = export.alone
        /\ export'.got = [export.got EXCEPT ![Collections[n]] = db[Collections[n]]]
        /\ export.got \in [Coll -> SUBSET Doc]
    BY <2>1 DEF BackupTypeOK, ExportType
  <2>4. ~export.told
    BY <2>2 DEF Reading
  <2>5. ASSUME export.alone, NEW i \in DOMAIN Collections, i < n + 1
        PROVE  export'.got[Collections[i]] = db[Collections[i]]
    <3>1. i = n \/ i < n
      BY <2>2, <2>5, Collected
    <3>2. i < n => export.got[Collections[i]] = db[Collections[i]]
      BY <2>2, <2>5 DEF Reading
    <3>. QED
      BY <2>2, <2>3, <3>1, <3>2, Collected
  <2>. QED
    BY <2>1, <2>3, <2>4, <2>5 DEF Reading
<1>3. CASE downloaded
  <2>1. /\ export.at > Len(Collections) /\ UNCHANGED db
        /\ file' = [kind |-> "read", has |-> Coll, docs |-> export.got]
        /\ export' = [export EXCEPT !.at = 0, !.told = TRUE]
    BY <1>3 DEF downloaded
  <2>2. /\ export'.at = 0 /\ export'.told /\ export'.alone = export.alone
        /\ export.got \in [Coll -> SUBSET Doc] /\ db \in [Coll -> SUBSET Doc]
        /\ export.at \in 0..(Len(Collections) + 1)
    BY <2>1 DEF BackupTypeOK, ExportType
  <2>3. ASSUME export.alone PROVE export.got = db
    <3>1. export.at > 0 /\ \A i \in DOMAIN Collections : i < export.at
      BY <2>1, <2>2, Collected
    <3>2. \A c \in Coll : export.got[c] = db[c]
      BY <2>3, <3>1, Collected DEF Reading
    <3>. QED
      BY <2>2, <3>2
  <2>. QED
    BY <2>1, <2>2, <2>3 DEF Reading
<1>4. ASSUME UNCHANGED file,
             UNCHANGED <<db, export>> \/ export' = [export EXCEPT !.alone = FALSE]
      PROVE  Reading'
  <2>1. CASE UNCHANGED <<db, export>>
    BY <1>4, <2>1 DEF Reading
  <2>2. CASE export' = [export EXCEPT !.alone = FALSE]
    BY <1>4, <2>2, SpoiltExport DEF Reading
  <2>. QED
    BY <1>4, <2>1, <2>2
<1>5. CASE writes
  BY <1>4, <1>5, WriteSteps
<1>6. ASSUME NEW u \in Upload,
             \/ handleRestoreDatabase(u) \/ skipCollection(u) \/ deleteMany(u)
             \/ insertOne(u) \/ inserted(u) \/ restored(u) \/ restoreFails(u)
      PROVE  Reading'
  BY <1>4, <1>6, StartSteps, SkipSteps, ClearSteps, InsertSteps, InsertedSteps,
     RestoredSteps, RefusedSteps
<1>7. CASE UNCHANGED backup
  BY <1>4, <1>7 DEF backup
<1>. QED
  BY <1>1, <1>2, <1>3, <1>5, <1>6, <1>7 DEF BackupNext

-----------------------------------------------------------------------------
(* An upload that is alone.                                                *)

LEMMA AloneKept ==
    ASSUME NEW v \in Upload, Alone(v), uploads'[v] = uploads[v], db' = db
    PROVE  Alone(v)'
<1> DEFINE f == uploads[v].file
           before == uploads[v].before
<1>1. Restored(f, before)' = Restored(f, before)
  BY DEF Restored
<1>2. Torn(f, before) => Torn(f, before)'
  <2> SUFFICES ASSUME Torn(f, before) PROVE Torn(f, before)'
    OBVIOUS
  <2>1. uploads'[v].file = f /\ uploads'[v].before = before
    OBVIOUS
  <2> HIDE DEF f, before
  <2>. QED
    BY <1>1, <2>1 DEF Torn, f, before
<1>. QED
  BY <1>1, <1>2 DEF Alone, Docs, Working

LEMMA AloneStep ==
    ASSUME BackupTypeOK, \A v \in Upload : Filling(v), [BackupNext]_backup,
           NEW v \in Upload, Alone(v)
    PROVE  Alone(v)'
<1> DEFINE up == uploads[v]
<1>0. PICK f, before, n : f = up.file /\ before = up.before /\ n = up.at
  OBVIOUS
<1>1. CASE UNCHANGED <<uploads, db>>
  BY <1>1, AloneKept
<1>2. CASE handleDownloadBackup \/ exportDatabase \/ downloaded
  BY <1>2, DownloadSteps, AloneKept
<1>3. ASSUME ~uploads'[v].alone PROVE Alone(v)'
  BY <1>3 DEF Alone
<1>4. CASE writes
  BY <1>3, <1>4, WriteSteps
<1>5. ASSUME NEW u \in Upload, u # v,
             Aside(u) \/ (Untouched(u) /\ UNCHANGED db)
      PROVE  Alone(v)'
  BY <1>3, <1>5, AloneKept DEF Aside, Untouched
<1>6. /\ n \in 0..(Len(Collections) + 1) /\ f.has \in SUBSET Coll
      /\ f.docs \in [Coll -> SUBSET Doc] /\ before \in [Coll -> SUBSET Doc]
      /\ db \in [Coll -> SUBSET Doc]
  BY <1>0, UploadFields DEF BackupTypeOK
<1>7. \A c \in Coll :
         Restored(f, before)[c] = IF c \in f.has THEN f.docs[c] ELSE before[c]
  BY DEF Restored
<1>8. ASSUME handleRestoreDatabase(v) PROVE Alone(v)'
  <2>1. CASE uploads'[v].at = 1 /\ uploads'[v].result = "none" /\ uploads'[v].before = db
    <3>1. \A i \in DOMAIN Collections : ~(i < 1)
      BY Collected
    <3>2. db' = db /\ ~uploads'[v].cleared
      BY <1>8, StartSteps
    <3>. QED
      BY <2>1, <3>1, <3>2 DEF Alone
  <2>. QED
    BY <1>3, <1>8, <2>1, StartSteps
<1>9. ASSUME skipCollection(v) PROVE Alone(v)'
  <2>1. /\ n \in DOMAIN Collections /\ ~up.cleared /\ Collections[n] \notin f.has
        /\ uploads'[v].at = n + 1 /\ uploads'[v].cleared = up.cleared
        /\ uploads'[v].result = "none" /\ uploads'[v].file = f
        /\ uploads'[v].before = before /\ uploads'[v].alone = up.alone /\ db' = db
    BY <1>0, <1>9, SkipSteps, Busy DEF Goes, Filling
  <2>2. ASSUME up.alone, NEW i \in DOMAIN Collections
        PROVE  /\ i < n + 1 => db[Collections[i]] = Restored(f, before)[Collections[i]]
               /\ i >= n + 1 => db[Collections[i]] = before[Collections[i]]
    <3>1. Working(v) /\ n \in Int /\ i \in Int /\ Collections[i] \in Coll
      BY <1>0, <2>1, Busy, Collected
    <3>2. /\ i < n => db[Collections[i]] = Restored(f, before)[Collections[i]]
          /\ i > n \/ i = n => db[Collections[i]] = before[Collections[i]]
      BY <1>0, <2>1, <2>2, <3>1 DEF Alone
    <3>3. i = n => Restored(f, before)[Collections[i]] = before[Collections[i]]
      BY <1>7, <2>1, <3>1
    <3>. QED
      BY <3>1, <3>2, <3>3
  <2>3. \A i \in DOMAIN Collections : i > n + 1 \/ i = n + 1 => i >= n + 1
    BY <1>6, Collected
  <2>. QED
    BY <1>0, <2>1, <2>2, <2>3 DEF Alone
<1>10. ASSUME deleteMany(v) PROVE Alone(v)'
  <2>1. /\ n \in DOMAIN Collections /\ ~up.cleared /\ Collections[n] \in f.has
        /\ uploads'[v].at = n /\ uploads'[v].cleared = TRUE
        /\ uploads'[v].todo = Docs(v, n)
        /\ uploads'[v].result = "none" /\ uploads'[v].file = f
        /\ uploads'[v].before = before /\ uploads'[v].alone = up.alone
        /\ db' = [db EXCEPT ![Collections[n]] = {}]
    BY <1>0, <1>10, ClearSteps, Busy DEF Goes, Filling
  <2>2. ASSUME up.alone, NEW i \in DOMAIN Collections
        PROVE  /\ i < n => db'[Collections[i]] = Restored(f, before)[Collections[i]]
               /\ i > n => db'[Collections[i]] = before[Collections[i]]
               /\ i = n => db'[Collections[i]] = {}
    <3>1. Working(v) /\ n \in Int /\ i \in Int /\ Collections[i] \in Coll
      BY <1>0, <2>1, Busy, Collected
    <3>2. /\ i < n => db[Collections[i]] = Restored(f, before)[Collections[i]]
          /\ i > n => db[Collections[i]] = before[Collections[i]]
      BY <1>0, <2>1, <2>2, <3>1 DEF Alone
    <3>3. i # n => db'[Collections[i]] = db[Collections[i]]
      BY <1>6, <2>1, <3>1, Collected
    <3>4. i = n => db'[Collections[i]] = {}
      BY <1>6, <2>1, <3>1
    <3>. QED
      BY <3>1, <3>2, <3>3, <3>4
  <2>3. Docs(v, n)' = Docs(v, n)
    BY <1>0, <2>1 DEF Docs
  <2>. QED
    BY <1>0, <2>1, <2>2, <2>3 DEF Alone, Docs
<1>11. ASSUME insertOne(v) PROVE Alone(v)'
  <2> DEFINE d == Min(up.todo)
             c == Collections[n]
  <2>1. /\ n \in DOMAIN Collections /\ c \in Coll /\ At(v, n) /\ Working(v)
        /\ d \in up.todo /\ d \in Docs(v, n)
    BY <1>0, <1>11, InsertSteps, Busy
  <2>2. up.alone => db[c] = Docs(v, n) \ up.todo
    BY <1>0, <2>1 DEF Alone, At
  <2>3. CASE d \in db[c]
    <3>1. uploads'[v].alone = up.alone
      BY <1>0, <1>11, <2>3, InsertSteps DEF Goes
    <3>. QED
      BY <1>3, <2>1, <2>2, <2>3, <3>1
  <2>4. CASE d \notin db[c]
    <3>1. /\ uploads'[v].at = n /\ uploads'[v].cleared = TRUE
          /\ uploads'[v].todo = up.todo \ {d}
          /\ uploads'[v].result = "none" /\ uploads'[v].file = f
          /\ uploads'[v].before = before /\ uploads'[v].alone = up.alone
          /\ db' = [db EXCEPT ![c] = @ \cup {d}]
      BY <1>0, <1>11, <2>4, InsertSteps DEF Goes
    <3>2. ASSUME up.alone, NEW i \in DOMAIN Collections
          PROVE  /\ i < n => db'[Collections[i]] = Restored(f, before)[Collections[i]]
                 /\ i > n => db'[Collections[i]] = before[Collections[i]]
                 /\ i = n => db'[Collections[i]] = Docs(v, n) \ uploads'[v].todo
      <4>1. n \in Int /\ i \in Int /\ Collections[i] \in Coll
        BY <2>1, Collected
      <4>2. /\ i < n => db[Collections[i]] = Restored(f, before)[Collections[i]]
            /\ i > n => db[Collections[i]] = before[Collections[i]]
        BY <1>0, <2>1, <3>2 DEF Alone
      <4>3. i # n => db'[Collections[i]] = db[Collections[i]]
        BY <1>6, <2>1, <3>1, <4>1, Collected
      <4>4. i = n => db'[Collections[i]] = db[c] \cup {d}
        BY <1>6, <2>1, <3>1
      <4>5. db[c] \cup {d} = Docs(v, n) \ (up.todo \ {d})
        BY <2>1, <2>2, <3>2
      <4>. QED
        BY <3>1, <4>1, <4>2, <4>3, <4>4, <4>5
    <3>3. \A i \in DOMAIN Collections : Docs(v, i)' = Docs(v, i)
      BY <1>0, <3>1 DEF Docs
    <3>. QED
      BY <1>0, <2>1, <3>1, <3>2, <3>3 DEF Alone
  <2>. QED
    BY <2>3, <2>4
<1>12. ASSUME inserted(v) PROVE Alone(v)'
  <2>1. /\ n \in DOMAIN Collections /\ At(v, n) /\ up.todo = {}
        /\ Collections[n] \in f.has
        /\ uploads'[v].at = n + 1 /\ ~uploads'[v].cleared
        /\ uploads'[v].result = "none" /\ uploads'[v].file = f
        /\ uploads'[v].before = before /\ uploads'[v].alone = up.alone /\ db' = db
    BY <1>0, <1>12, InsertedSteps DEF Goes
  <2>2. ASSUME up.alone, NEW i \in DOMAIN Collections
        PROVE  /\ i < n + 1 => db[Collections[i]] = Restored(f, before)[Collections[i]]
               /\ i >= n + 1 => db[Collections[i]] = before[Collections[i]]
    <3>1. Working(v) /\ n \in Int /\ i \in Int /\ Collections[i] \in Coll
      BY <1>0, <2>1, Busy, Collected
    <3>2. /\ i < n => db[Collections[i]] = Restored(f, before)[Collections[i]]
          /\ i > n => db[Collections[i]] = before[Collections[i]]
          /\ i = n => db[Collections[i]] = Docs(v, n) \ up.todo
      BY <1>0, <2>1, <2>2, <3>1 DEF Alone, At
    <3>3. i = n => Restored(f, before)[Collections[i]] = Docs(v, n)
      BY <1>0, <1>7, <2>1, <3>1 DEF Docs
    <3>4. Docs(v, n) \ up.todo = Docs(v, n)
      BY <2>1
    <3>5. (i < n + 1 => i < n \/ i = n) /\ (i >= n + 1 => i > n)
      BY <3>1
    <3>. QED
      BY <3>2, <3>3, <3>4, <3>5
  <2>3. \A i \in DOMAIN Collections : i > n + 1 \/ i = n + 1 => i >= n + 1
    BY <1>6, Collected
  <2>. QED
    BY <1>0, <2>1, <2>2, <2>3 DEF Alone
<1>13. ASSUME restored(v) PROVE Alone(v)'
  <2>1. /\ n > Len(Collections) /\ Working(v)
        /\ uploads'[v].at = 0 /\ uploads'[v].result = "restored" /\ uploads'[v].file = f
        /\ uploads'[v].before = before /\ uploads'[v].alone = up.alone /\ db' = db
    BY <1>0, <1>13, RestoredSteps DEF Goes
  <2>2. ASSUME up.alone PROVE db = Restored(f, before)
    <3>1. \A i \in DOMAIN Collections : i < n
      BY <1>6, <2>1, Collected
    <3>2. \A c \in Coll : db[c] = Restored(f, before)[c]
      BY <1>0, <2>1, <2>2, <3>1, Collected DEF Alone
    <3>. QED
      BY <1>6, <3>2 DEF Restored
  <2>3. ~Working(v)'
    BY <2>1 DEF Working
  <2>4. Restored(f, before)' = Restored(f, before)
    BY <2>1 DEF Restored
  <2>. QED
    BY <1>0, <2>1, <2>2, <2>3, <2>4 DEF Alone
<1>14. ASSUME restoreFails(v) PROVE Alone(v)'
  <2>1. /\ n \in DOMAIN Collections /\ Working(v) /\ Collections[n] \in f.has
        /\ uploads'[v].at = 0 /\ uploads'[v].result = "failed" /\ uploads'[v].file = f
        /\ uploads'[v].before = before /\ uploads'[v].alone = up.alone /\ db' = db
    BY <1>0, <1>14, RefusedSteps DEF Goes
  <2>2. ASSUME up.alone, NEW i \in DOMAIN Collections
        PROVE  /\ i < n => db[Collections[i]] = Restored(f, before)[Collections[i]]
               /\ i > n => db[Collections[i]] = before[Collections[i]]
               /\ i = n => \/ db[Collections[i]] = before[Collections[i]]
                           \/ db[Collections[i]] \subseteq f.docs[Collections[i]]
    <3>1. /\ i < n => db[Collections[i]] = Restored(f, before)[Collections[i]]
          /\ i > n \/ (i = n /\ ~up.cleared) => db[Collections[i]] = before[Collections[i]]
          /\ i = n /\ up.cleared => db[Collections[i]] = Docs(v, i) \ up.todo
      BY <1>0, <2>1, <2>2 DEF Alone
    <3>2. Docs(v, i) = f.docs[Collections[i]]
      BY <1>0 DEF Docs
    <3>. QED
      BY <3>1, <3>2
  <2>3. Restored(f, before)' = Restored(f, before)
    BY <2>1 DEF Restored
  <2>4. ~Working(v)'
    BY <2>1 DEF Working
  <2>5. \A i \in DOMAIN Collections : i < n \/ i > n \/ i = n
    BY <2>1, Collected
  <2>6. ASSUME up.alone PROVE Torn(f, before)'
    BY <1>0, <2>1, <2>2, <2>3, <2>5, <2>6 DEF Torn
  <2>. QED
    BY <1>0, <2>1, <2>4, <2>6 DEF Alone
<1>15. ASSUME NEW u \in Upload,
              \/ handleRestoreDatabase(u) \/ skipCollection(u) \/ deleteMany(u)
              \/ insertOne(u) \/ inserted(u) \/ restored(u) \/ restoreFails(u)
       PROVE  Alone(v)'
  <2>1. Aside(u) \/ (Untouched(u) /\ UNCHANGED db)
    BY <1>15, StartSteps, SkipSteps, ClearSteps, InsertSteps, InsertedSteps,
       RestoredSteps, RefusedSteps
  <2>. QED
    BY <1>5, <1>8, <1>9, <1>10, <1>11, <1>12, <1>13, <1>14, <1>15, <2>1
<1>. QED
  BY <1>1, <1>2, <1>4, <1>15 DEF BackupNext, backup

-----------------------------------------------------------------------------
(* Uploads of one file that meet.                                          *)

\* An upload that has begun goes on with its file.
LEMMA Begins ==
    ASSUME BackupTypeOK, \A v \in Upload : Filling(v), [BackupNext]_backup,
           NEW v \in Upload, Begun(v)
    PROVE  Begun(v)' /\ uploads'[v].file = uploads[v].file
<1>1. CASE UNCHANGED uploads
  BY <1>1 DEF Begun, Working
<1>2. CASE handleDownloadBackup \/ exportDatabase \/ downloaded
  BY <1>1, <1>2, DownloadSteps
<1>3. ASSUME Kept(v) PROVE Begun(v)' /\ uploads'[v].file = uploads[v].file
  BY <1>3 DEF Kept, Begun, Working
<1>4. CASE writes
  BY <1>3, <1>4, WriteSteps
<1>5. ASSUME NEW u \in Upload, u # v, Aside(u) \/ Untouched(u)
      PROVE  Begun(v)' /\ uploads'[v].file = uploads[v].file
  BY <1>3, <1>5 DEF Aside, Untouched, Kept
<1>6. ~handleRestoreDatabase(v)
  BY StartSteps DEF Begun
<1>7. ASSUME \/ skipCollection(v) \/ deleteMany(v) \/ insertOne(v)
             \/ inserted(v) \/ restored(v) \/ restoreFails(v)
      PROVE  Begun(v)' /\ uploads'[v].file = uploads[v].file
  <2>1. uploads'[v].file = uploads[v].file
    BY <1>7, SkipSteps, ClearSteps, InsertSteps, InsertedSteps, RestoredSteps,
       RefusedSteps DEF Goes
  <2>2. \A i \in DOMAIN Collections : i > 0 /\ i + 1 > 0
    BY Collected
  <2>3. \/ uploads'[v].result # "none"
        \/ \E i \in DOMAIN Collections : uploads'[v].at = i \/ uploads'[v].at = i + 1
    <3>1. CASE skipCollection(v) \/ deleteMany(v) \/ inserted(v)
      BY <3>1, SkipSteps, ClearSteps, InsertedSteps DEF Goes
    <3>2. CASE insertOne(v)
      BY <3>2, InsertSteps DEF Goes
    <3>3. CASE restored(v) \/ restoreFails(v)
      BY <3>3, RestoredSteps, RefusedSteps DEF Goes
    <3>. QED
      BY <1>7, <3>1, <3>2, <3>3
  <2>. QED
    BY <2>1, <2>2, <2>3 DEF Begun, Working
<1>8. ASSUME NEW u \in Upload,
             \/ handleRestoreDatabase(u) \/ skipCollection(u) \/ deleteMany(u)
             \/ insertOne(u) \/ inserted(u) \/ restored(u) \/ restoreFails(u)
      PROVE  Begun(v)' /\ uploads'[v].file = uploads[v].file
  <2>1. Aside(u) \/ Untouched(u)
    BY <1>8, StartSteps, SkipSteps, ClearSteps, InsertSteps, InsertedSteps,
       RestoredSteps, RefusedSteps
  <2>. QED
    BY <1>5, <1>6, <1>7, <1>8, <2>1
<1>. QED
  BY <1>1, <1>2, <1>4, <1>8 DEF BackupNext, backup

\* Nothing that concerns one collection changes.
LEMMA MeetingKept ==
    ASSUME NEW i \in DOMAIN Collections, Meeting(i),
           db'[Collections[i]] = db[Collections[i]],
           \A v \in Upload :
              /\ At(v, i)' <=> At(v, i)
              /\ Past(v, i)' <=> Past(v, i)
              /\ At(v, i) \/ Past(v, i) => uploads'[v].file = uploads[v].file
              /\ At(v, i) => uploads'[v].todo = uploads[v].todo
    PROVE  Meeting(i)'
<1> SUFFICES ASSUME NEW u \in Upload, (At(u, i) \/ Past(u, i))',
                    Collections[i] \in uploads'[u].file.has
             PROVE  Shared(i, Docs(u, i))'
  BY DEF Meeting
<1>1. Docs(u, i)' = Docs(u, i)
  BY DEF Docs
<1>2. Shared(i, Docs(u, i))
  BY DEF Meeting
<1>3. \A w \in Upload : \A d :
         (At(w, i) /\ d \in uploads[w].todo => At(w, i)' /\ d \in uploads'[w].todo)
         /\ (At(w, i) /\ d \notin uploads[w].todo => At(w, i)' /\ d \notin uploads'[w].todo)
  OBVIOUS
<1>. QED
  BY <1>1, <1>2, <1>3 DEF Shared

\* Uploads at a collection or past it have the same of it.
LEMMA OfOneFile ==
    ASSUME OneFile, BackupTypeOK, NEW i \in DOMAIN Collections,
           NEW u \in Upload, At(u, i) \/ Past(u, i) \/ uploads[u].at = i,
           NEW v \in Upload, At(v, i) \/ Past(v, i)
    PROVE  uploads[v].file = uploads[u].file /\ Docs(v, i) = Docs(u, i)
<1>1. i \in Nat \ {0}
  BY Collected
<1>2. \A w \in Upload : uploads[w].at = i \/ At(w, i) \/ Past(w, i) => Begun(w)
  <2>1. SUFFICES ASSUME NEW w \in Upload, uploads[w].at = i \/ uploads[w].at > i
                 PROVE  uploads[w].at > 0
    BY DEF At, Past, Begun, Working
  <2>2. uploads[w].at \in Int
    BY UploadFields, Collected
  <2>. QED
    BY <1>1, <2>1, <2>2
<1>3. uploads[v].file = uploads[u].file
  BY <1>2 DEF OneFile
<1>. QED
  BY <1>3 DEF Docs

\* A step of u changes nothing in how far the others are.
LEMMA OthersKept ==
    ASSUME NEW u \in Upload, Untouched(u) \/ Aside(u), NEW v \in Upload \ {u}, NEW i
    PROVE  /\ At(v, i)' <=> At(v, i)
           /\ Past(v, i)' <=> Past(v, i)
           /\ uploads'[v].file = uploads[v].file /\ uploads'[v].todo = uploads[v].todo
  BY DEF Untouched, Aside, Kept, At, Past

LEMMA MeetStart ==
    ASSUME BackupTypeOK, NEW u \in Upload, handleRestoreDatabase(u),
           NEW i \in DOMAIN Collections, Meeting(i)
    PROVE  Meeting(i)'
<1>1. i \in Nat \ {0}
  BY Collected
<1>2. uploads[u].at = 0 /\ uploads[u].result = "none"
  BY StartSteps, UploadFields
<1>3. ~At(u, i) /\ ~Past(u, i)
  BY <1>1, <1>2 DEF At, Past
<1>4. ~At(u, i)' /\ ~Past(u, i)'
  BY <1>1, StartSteps DEF At, Past
<1>. QED
  BY <1>3, <1>4, StartSteps, OthersKept, MeetingKept

LEMMA MeetSkip ==
    ASSUME BackupTypeOK, OneFile, NEW u \in Upload, Filling(u), skipCollection(u),
           NEW i \in DOMAIN Collections, Meeting(i)
    PROVE  Meeting(i)'
<1> DEFINE n == uploads[u].at
<1>1. /\ n \in DOMAIN Collections /\ ~uploads[u].cleared /\ uploads[u].result = "none"
      /\ Collections[n] \notin uploads[u].file.has
      /\ uploads'[u].at = n + 1 /\ ~uploads'[u].cleared /\ uploads'[u].result = "none"
      /\ uploads'[u].file = uploads[u].file /\ Untouched(u) /\ db' = db
  BY SkipSteps, Busy DEF Goes, Filling
<1>2. n \in Int /\ i \in Int
  BY <1>1, Collected
<1>3. CASE i # n
  <2>1. ~At(u, i) /\ ~At(u, i)' /\ (Past(u, i)' <=> Past(u, i))
    BY <1>1, <1>2, <1>3 DEF At, Past
  <2>. QED
    BY <1>1, <2>1, OthersKept, MeetingKept
<1>4. CASE i = n
  <2>1. ASSUME NEW v \in Upload, (At(v, i) \/ Past(v, i))'
        PROVE  Collections[i] \notin uploads'[v].file.has
    <3>1. CASE v = u
      BY <1>1, <1>4, <3>1
    <3>2. CASE v # u
      <4>1. At(v, i) \/ Past(v, i)
        BY <1>1, <2>1, <3>2, OthersKept
      <4>2. uploads'[v].file = uploads[u].file
        BY <1>1, <1>4, <3>2, <4>1, OthersKept, OfOneFile
      <4>. QED
        BY <1>1, <1>4, <4>2
    <3>. QED
      BY <3>1, <3>2
  <2>. QED
    BY <2>1 DEF Meeting
<1>. QED
  BY <1>3, <1>4

LEMMA MeetClear ==
    ASSUME BackupTypeOK, OneFile, NEW u \in Upload, Filling(u), deleteMany(u),
           NEW i \in DOMAIN Collections, Meeting(i)
    PROVE  Meeting(i)'
<1> DEFINE n == uploads[u].at
           c == Collections[n]
<1>1. /\ n \in DOMAIN Collections /\ ~uploads[u].cleared /\ uploads[u].result = "none"
      /\ uploads'[u].at = n /\ uploads'[u].cleared /\ uploads'[u].result = "none"
      /\ uploads'[u].todo = Docs(u, n)
      /\ uploads'[u].file = uploads[u].file /\ Aside(u)
      /\ db' = [db EXCEPT ![c] = {}] /\ db \in [Coll -> SUBSET Doc]
  BY ClearSteps, Busy DEF Goes, Filling, BackupTypeOK
<1>2. c \in Coll
  BY <1>1, Collected
<1>3. CASE i # n
  <2>1. ~At(u, i) /\ ~At(u, i)' /\ (Past(u, i)' <=> Past(u, i))
    BY <1>1, <1>3 DEF At, Past
  <2>2. db'[Collections[i]] = db[Collections[i]]
    BY <1>1, <1>2, <1>3, Collected
  <2>. QED
    BY <1>1, <2>1, <2>2, OthersKept, MeetingKept
<1>4. CASE i = n
  <2>1. ASSUME NEW v \in Upload, (At(v, i) \/ Past(v, i))' PROVE Docs(v, i)' = Docs(u, i)
    <3>1. CASE v = u
      BY <1>1, <3>1 DEF Docs
    <3>2. CASE v # u
      <4>1. At(v, i) \/ Past(v, i)
        BY <1>1, <2>1, <3>2, OthersKept
      <4>2. uploads'[v].file = uploads[u].file
        BY <1>1, <1>4, <3>2, <4>1, OthersKept, OfOneFile
      <4>. QED
        BY <4>2 DEF Docs
    <3>. QED
      BY <3>1, <3>2
  <2>2. At(u, i)' /\ uploads'[u].todo = Docs(u, i)
    BY <1>1, <1>4 DEF At
  <2>3. db'[Collections[i]] = {}
    BY <1>1, <1>2, <1>4
  <2>. QED
    BY <2>1, <2>2, <2>3 DEF Meeting, Shared
<1>. QED
  BY <1>3, <1>4

LEMMA MeetInsert ==
    ASSUME BackupTypeOK, OneFile, NEW u \in Upload, Filling(u), insertOne(u),
           Min(uploads[u].todo) \notin db[Collections[uploads[u].at]],
           NEW i \in DOMAIN Collections, Meeting(i)
    PROVE  Meeting(i)'
<1>0. PICK n, d, docs :
          n = uploads[u].at /\ d = Min(uploads[u].todo) /\ docs = Docs(u, n)
  OBVIOUS
<1> DEFINE c == Collections[n]
<1>1. /\ n \in DOMAIN Collections /\ c \in Coll /\ At(u, n)
      /\ c \in uploads[u].file.has /\ d \in uploads[u].todo /\ d \in docs
      /\ uploads[u].result = "none"
      /\ uploads'[u].at = n /\ uploads'[u].cleared /\ uploads'[u].result = "none"
      /\ uploads'[u].todo = uploads[u].todo \ {d}
      /\ uploads'[u].file = uploads[u].file /\ Aside(u)
      /\ db' = [db EXCEPT ![c] = @ \cup {d}] /\ db \in [Coll -> SUBSET Doc]
  BY <1>0, InsertSteps DEF Goes, BackupTypeOK
<1>2. /\ uploads[u].todo \subseteq docs
      /\ \A a \in uploads[u].todo, e \in docs : a < e => e \in uploads[u].todo
  BY <1>0, <1>1 DEF Filling, At
<1>3. \A j \in DOMAIN Collections : (Past(u, j)' <=> Past(u, j)) /\ (At(u, j)' <=> At(u, j))
  BY <1>1 DEF At, Past
<1>4. CASE i # n
  <2>1. ~At(u, i)
    BY <1>1, <1>4 DEF At
  <2>2. db'[Collections[i]] = db[Collections[i]]
    BY <1>1, <1>4, Collected
  <2>. QED
    BY <1>1, <1>3, <2>1, <2>2, OthersKept, MeetingKept
<1>5. CASE i = n
  <2>1. Shared(n, docs)
    BY <1>0, <1>1, <1>5 DEF Meeting
  <2>2. db'[c] = db[c] \cup {d}
    BY <1>1
  <2>3. \A w \in Upload : \A e :
           /\ At(w, n) /\ e \in uploads[w].todo /\ e # d => At(w, n)' /\ e \in uploads'[w].todo
           /\ At(w, n) /\ e \notin uploads[w].todo => At(w, n)' /\ e \notin uploads'[w].todo
           /\ Past(w, n) => Past(w, n)'
    <3>1. SUFFICES ASSUME NEW w \in Upload, NEW e
                   PROVE  /\ At(w, n)' <=> At(w, n)
                          /\ Past(w, n)' <=> Past(w, n)
                          /\ \/ uploads'[w].todo = uploads[w].todo
                             \/ uploads'[w].todo = uploads[w].todo \ {d}
      BY <3>1
    <3>. QED
      BY <1>1, <1>3, OthersKept
  <2>4. At(u, n)' /\ d \notin uploads'[u].todo
    BY <1>1, <1>3
  <2>5. /\ db[c] \cup {d} \subseteq docs
        /\ \A e \in docs \ (db[c] \cup {d}) :
              \E w \in Upload : At(w, n)' /\ e \in uploads'[w].todo
    BY <1>1, <2>1, <2>3 DEF Shared
  <2>6. ASSUME NEW a \in db[c] \cup {d}, NEW e \in docs \ (db[c] \cup {d}), a < e
        PROVE  \E w \in Upload :
                  At(w, n)' /\ e \in uploads'[w].todo /\ a \notin uploads'[w].todo
    <3>1. CASE a = d
      BY <1>1, <1>2, <2>4, <2>6, <3>1
    <3>2. CASE a # d
      <4>1. PICK w \in Upload :
                At(w, n) /\ e \in uploads[w].todo /\ a \notin uploads[w].todo
        BY <2>1, <2>6, <3>2 DEF Shared
      <4>. QED
        BY <2>3, <2>6, <4>1
    <3>. QED
      BY <3>1, <3>2
  <2>7. ASSUME NEW a \in db[c] \cup {d}
        PROVE  \E w \in Upload : Past(w, n)' \/ (At(w, n)' /\ a \notin uploads'[w].todo)
    <3>1. CASE a = d
      BY <2>4, <3>1
    <3>2. CASE a # d
      <4>1. PICK w \in Upload : Past(w, n) \/ (At(w, n) /\ a \notin uploads[w].todo)
        BY <2>1, <2>7, <3>2 DEF Shared
      <4>. QED
        BY <2>3, <4>1
    <3>. QED
      BY <3>1, <3>2
  <2>8. ASSUME NEW v \in Upload, (At(v, n) \/ Past(v, n))' PROVE Docs(v, n)' = docs
    <3>1. At(v, n) \/ Past(v, n)
      BY <1>1, <1>3, <2>8, OthersKept
    <3>2. uploads'[v].file = uploads[v].file
      BY <1>1, OthersKept
    <3>3. Docs(v, n)' = Docs(v, n)
      BY <3>2 DEF Docs
    <3>. QED
      BY <1>0, <1>1, <3>1, <3>3, OfOneFile
  <2>9. ASSUME NEW v \in Upload, (At(v, n) \/ Past(v, n))' PROVE Shared(i, Docs(v, i))'
    <3>1. Docs(v, n)' = docs
      BY <2>8, <2>9
    <3>. QED
      BY <1>5, <2>2, <2>5, <2>6, <2>7, <3>1 DEF Shared
  <2>. QED
    BY <1>1, <1>5, <2>9 DEF Meeting
<1>. QED
  BY <1>4, <1>5

\* An upload meets a document that another one has inserted, and ends there: that other
\* one has everything left to insert that this one had, or is past the collection.
LEMMA MeetClash ==
    ASSUME BackupTypeOK, OneFile, \A v \in Upload : Filling(v), NEW u \in Upload, insertOne(u),
           Min(uploads[u].todo) \in db[Collections[uploads[u].at]],
           \A i \in DOMAIN Collections : Meeting(i)
    PROVE  /\ \A i \in DOMAIN Collections : Meeting(i)'
           /\ \E w \in Upload \ {u} : Working(w) \/ uploads[w].result = "restored"
<1>0. PICK n, d, docs :
          n = uploads[u].at /\ d = Min(uploads[u].todo) /\ docs = Docs(u, n)
  OBVIOUS
<1> DEFINE c == Collections[n]
<1>1. /\ n \in DOMAIN Collections /\ c \in Coll /\ At(u, n) /\ ~Past(u, n)
      /\ c \in uploads[u].file.has /\ d \in uploads[u].todo /\ d \in docs /\ d \in db[c]
      /\ uploads[u].result = "none" /\ \A e \in uploads[u].todo : d =< e
      /\ uploads'[u].at = 0 /\ ~uploads'[u].cleared /\ uploads'[u].result = "failed"
      /\ uploads'[u].file = uploads[u].file /\ Untouched(u)
      /\ db' = db
  <2>1. n \in Int
    BY <1>0, UploadFields, Collected
  <2>2. ~(n > n)
    BY <2>1
  <2>. QED
    BY <1>0, <2>2, InsertSteps DEF Goes, Past
<1>2. /\ docs \subseteq Nat /\ n \in Nat \ {0}
      /\ \A i \in DOMAIN Collections : i \in Nat \ {0}
  <2>1. docs \subseteq Doc
    BY <1>0, <1>1, UploadFields DEF Docs
  <2>2. \A i \in DOMAIN Collections : i \in Nat \ {0}
    BY Collected
  <2>. QED
    BY <1>1, <2>1, <2>2, BackupAssumption
<1>3. /\ uploads[u].todo \subseteq docs
      /\ \A a \in uploads[u].todo, e \in docs : a < e => e \in uploads[u].todo
  BY <1>0, <1>1 DEF Filling, At
<1>4. Shared(n, docs)
  BY <1>0, <1>1 DEF Meeting
<1>5. ASSUME NEW w \in Upload, At(w, n)
      PROVE  /\ uploads[w].todo \subseteq docs
             /\ \A a \in uploads[w].todo, e \in docs : a < e => e \in uploads[w].todo
  <2>1. Docs(w, n) = docs
    BY <1>0, <1>1, <1>5, OfOneFile
  <2>. QED
    BY <1>1, <1>5, <2>1 DEF Filling, At
<1>6. PICK w0 \in Upload : Past(w0, n) \/ (At(w0, n) /\ d \notin uploads[w0].todo)
  BY <1>1, <1>4 DEF Shared
<1>7. w0 # u
  BY <1>1, <1>6
<1>8. Working(w0) \/ uploads[w0].result = "restored"
  <2>1. uploads[w0].at \in Int
    BY UploadFields, Collected
  <2>. QED
    BY <1>2, <1>6, <2>1 DEF Past, At, Working
<1>9. ASSUME NEW i \in DOMAIN Collections PROVE ~At(u, i)' /\ ~Past(u, i)'
  BY <1>1, <1>2 DEF At, Past
<1>10. ASSUME NEW w \in Upload, At(w, n), d \notin uploads[w].todo,
              NEW a \in docs, a \notin uploads[u].todo
       PROVE  a \notin uploads[w].todo
  <2>1. a \in Nat /\ d \in Nat
    BY <1>1, <1>2
  <2>2. ~(d < a) /\ a # d
    BY <1>1, <1>3, <1>10
  <2>3. a < d
    BY <2>1, <2>2
  <2>. QED
    BY <1>1, <1>5, <1>10, <2>3
<1>11. ASSUME NEW i \in DOMAIN Collections, i > n PROVE Meeting(i)'
  <2>1. ~At(u, i) /\ ~Past(u, i)
    BY <1>1, <1>2, <1>11 DEF At, Past
  <2>. QED
    BY <1>1, <1>9, <2>1, OthersKept, MeetingKept
<1>12. ASSUME NEW i \in DOMAIN Collections, i < n PROVE Meeting(i)'
  <2>1. ASSUME NEW v \in Upload, (At(v, i) \/ Past(v, i))',
               Collections[i] \in uploads'[v].file.has
        PROVE  Shared(i, Docs(v, i))'
    <3>1. v # u
      BY <1>9, <2>1
    <3>2. /\ At(v, i) \/ Past(v, i)
          /\ uploads'[v].file = uploads[v].file
      BY <1>1, <2>1, <3>1, OthersKept
    <3>3. Shared(i, Docs(v, i)) /\ Docs(v, i)' = Docs(v, i)
      BY <2>1, <3>2 DEF Meeting, Docs
    <3>4. Past(w0, i)
      <4>1. uploads[w0].at \in Int
        BY UploadFields, Collected
      <4>. QED
        BY <1>2, <1>6, <1>12, <4>1 DEF Past, At
    <3>5. Past(w0, i)'
      BY <1>1, <1>7, <3>4, OthersKept
    <3>6. ~At(u, i)
      BY <1>0, <1>1, <1>2, <1>12 DEF At
    <3>7. \A w \in Upload : \A e :
             /\ At(w, i) /\ e \in uploads[w].todo => At(w, i)' /\ e \in uploads'[w].todo
             /\ At(w, i) /\ e \notin uploads[w].todo => At(w, i)' /\ e \notin uploads'[w].todo
      BY <1>1, <3>6, OthersKept
    <3>. QED
      BY <1>1, <3>3, <3>5, <3>7 DEF Shared
  <2>. QED
    BY <2>1 DEF Meeting
<1>13. Meeting(n)'
  <2>1. \A w \in Upload \ {u} : \A e :
           /\ At(w, n) /\ e \in uploads[w].todo => At(w, n)' /\ e \in uploads'[w].todo
           /\ At(w, n) /\ e \notin uploads[w].todo => At(w, n)' /\ e \notin uploads'[w].todo
           /\ Past(w, n) => Past(w, n)'
    BY <1>1, OthersKept
  <2>2. ASSUME NEW a \in docs \ db[c]
        PROVE  \E w \in Upload : At(w, n)' /\ a \in uploads'[w].todo
    <3>1. PICK w \in Upload : At(w, n) /\ a \in uploads[w].todo
      BY <1>4 DEF Shared
    <3>2. CASE w # u
      BY <2>1, <3>1, <3>2
    <3>3. CASE w = u
      <4>1. a \in Nat /\ d \in Nat /\ d =< a /\ d # a
        BY <1>1, <1>2, <3>1, <3>3
      <4>2. d < a
        BY <4>1
      <4>3. PICK x \in Upload : At(x, n) /\ a \in uploads[x].todo /\ d \notin uploads[x].todo
        BY <1>1, <1>4, <4>2 DEF Shared
      <4>. QED
        BY <1>1, <2>1, <4>3
    <3>. QED
      BY <3>2, <3>3
  <2>3. ASSUME NEW a \in db[c], NEW e \in docs \ db[c], a < e
        PROVE  \E w \in Upload :
                  At(w, n)' /\ e \in uploads'[w].todo /\ a \notin uploads'[w].todo
    <3>1. PICK w \in Upload : At(w, n) /\ e \in uploads[w].todo /\ a \notin uploads[w].todo
      BY <1>4, <2>3 DEF Shared
    <3>2. CASE w # u
      BY <2>1, <3>1, <3>2
    <3>3. CASE w = u
      <4>1. e \in Nat /\ d \in Nat /\ d =< e /\ d # e
        BY <1>1, <1>2, <3>1, <3>3
      <4>2. d < e
        BY <4>1
      <4>3. PICK x \in Upload : At(x, n) /\ e \in uploads[x].todo /\ d \notin uploads[x].todo
        BY <1>1, <1>4, <4>2 DEF Shared
      <4>4. a \in docs
        BY <1>4 DEF Shared
      <4>5. a \notin uploads[x].todo
        BY <1>10, <3>1, <3>3, <4>3, <4>4
      <4>. QED
        BY <1>1, <2>1, <4>3, <4>5
    <3>. QED
      BY <3>2, <3>3
  <2>4. ASSUME NEW a \in db[c]
        PROVE  \E w \in Upload : Past(w, n)' \/ (At(w, n)' /\ a \notin uploads'[w].todo)
    <3>1. PICK w \in Upload : Past(w, n) \/ (At(w, n) /\ a \notin uploads[w].todo)
      BY <1>4 DEF Shared
    <3>2. CASE w # u
      BY <2>1, <3>1, <3>2
    <3>3. CASE w = u
      <4>1. a \notin uploads[u].todo /\ a \in docs
        BY <1>1, <1>4, <3>1, <3>3 DEF Shared
      <4>2. Past(w0, n) \/ (At(w0, n) /\ a \notin uploads[w0].todo)
        BY <1>6, <1>10, <4>1
      <4>. QED
        BY <1>7, <2>1, <4>2
    <3>. QED
      BY <3>2, <3>3
  <2>5. db[c] \subseteq docs
    BY <1>4 DEF Shared
  <2>6. ASSUME NEW v \in Upload, (At(v, n) \/ Past(v, n))' PROVE Docs(v, n)' = docs
    <3>1. v # u
      BY <1>1, <1>9, <2>6
    <3>2. At(v, n) \/ Past(v, n)
      BY <1>1, <2>6, <3>1, OthersKept
    <3>3. uploads'[v].file = uploads[v].file
      BY <1>1, <3>1, OthersKept
    <3>4. Docs(v, n)' = Docs(v, n)
      BY <3>3 DEF Docs
    <3>. QED
      BY <1>0, <1>1, <3>2, <3>4, OfOneFile
  <2>7. ASSUME NEW v \in Upload, (At(v, n) \/ Past(v, n))' PROVE Shared(n, Docs(v, n))'
    <3>1. Docs(v, n)' = docs
      BY <2>6, <2>7
    <3>. QED
      BY <1>1, <2>2, <2>3, <2>4, <2>5, <3>1 DEF Shared
  <2>. QED
    BY <2>7 DEF Meeting
<1>14. \A i \in DOMAIN Collections : i > n \/ i < n \/ i = n
  BY <1>1, <1>2
<1>. QED
  BY <1>7, <1>8, <1>11, <1>12, <1>13, <1>14

LEMMA MeetInserted ==
    ASSUME BackupTypeOK, OneFile, NEW u \in Upload, Filling(u), inserted(u),
           NEW i \in DOMAIN Collections, Meeting(i)
    PROVE  Meeting(i)'
<1>0. PICK n : n = uploads[u].at
  OBVIOUS
<1>1. /\ n \in DOMAIN Collections /\ At(u, n) /\ uploads[u].todo = {}
      /\ uploads[u].result = "none" /\ Collections[n] \in uploads[u].file.has
      /\ uploads'[u].at = n + 1 /\ ~uploads'[u].cleared /\ uploads'[u].result = "none"
      /\ uploads'[u].file = uploads[u].file /\ Untouched(u) /\ db' = db
  BY <1>0, InsertedSteps DEF Goes
<1>2. n \in Int /\ i \in Int
  BY <1>1, Collected
<1>3. ~At(u, i)'
  BY <1>1 DEF At
<1>4. CASE i # n
  <2>1. ~At(u, i) /\ (Past(u, i)' <=> Past(u, i))
    BY <1>0, <1>1, <1>2, <1>4 DEF At, Past
  <2>. QED
    BY <1>1, <1>3, <2>1, OthersKept, MeetingKept
<1>5. CASE i = n
  <2>1. Past(u, n)'
    BY <1>1, <1>2 DEF Past
  <2>2. \A w \in Upload : \A d :
           /\ At(w, n) /\ d \in uploads[w].todo => At(w, n)' /\ d \in uploads'[w].todo
           /\ w # u /\ At(w, n) /\ d \notin uploads[w].todo =>
                 At(w, n)' /\ d \notin uploads'[w].todo
    BY <1>1, OthersKept
  <2>3. ASSUME NEW v \in Upload, (At(v, n) \/ Past(v, n))',
               Collections[n] \in uploads'[v].file.has
        PROVE  Shared(n, Docs(v, n))'
    <3>1. At(v, n) \/ Past(v, n)
      BY <1>1, <2>3, OthersKept
    <3>2. uploads'[v].file = uploads[v].file
      BY <1>1, OthersKept
    <3>3. Shared(n, Docs(v, n)) /\ Docs(v, n)' = Docs(v, n)
      BY <1>5, <2>3, <3>1, <3>2 DEF Meeting, Docs
    <3>4. ASSUME NEW a \in db[Collections[n]], NEW e \in Docs(v, n) \ db[Collections[n]],
                 a < e
          PROVE  \E w \in Upload :
                    At(w, n)' /\ e \in uploads'[w].todo /\ a \notin uploads'[w].todo
      <4>1. PICK w \in Upload :
                At(w, n) /\ e \in uploads[w].todo /\ a \notin uploads[w].todo
        BY <3>3, <3>4 DEF Shared
      <4>2. w # u
        BY <1>1, <4>1
      <4>. QED
        BY <2>2, <4>1, <4>2
    <3>. QED
      BY <1>1, <2>1, <2>2, <3>3, <3>4 DEF Shared
  <2>. QED
    BY <1>5, <2>3 DEF Meeting
<1>. QED
  BY <1>4, <1>5

LEMMA MeetRestored ==
    ASSUME BackupTypeOK, NEW u \in Upload, Filling(u), restored(u),
           NEW i \in DOMAIN Collections, Meeting(i)
    PROVE  Meeting(i)'
<1>1. /\ uploads[u].at > Len(Collections) /\ ~uploads[u].cleared
      /\ uploads'[u].result = "restored" /\ ~uploads'[u].cleared
      /\ uploads'[u].file = uploads[u].file /\ Untouched(u) /\ db' = db
  BY RestoredSteps DEF Goes
<1>2. uploads[u].at > i
  BY <1>1, UploadFields, Collected
<1>3. ~At(u, i) /\ ~At(u, i)' /\ Past(u, i) /\ Past(u, i)'
  BY <1>1, <1>2 DEF At, Past
<1>. QED
  BY <1>1, <1>3, OthersKept, MeetingKept

\* Who is at work or has come through is so after any step but a failure.
LEMMA Survives ==
    ASSUME Survived,
           \A w \in Upload : Working(w) \/ uploads[w].result = "restored" =>
                                 (Working(w) \/ uploads[w].result = "restored")',
           \A v \in Upload : uploads'[v].result = "failed" /\ uploads'[v].file.has # {} =>
                                 uploads[v].result = "failed" /\ uploads[v].file.has # {}
    PROVE  Survived'
  BY DEF Survived

LEMMA MeetingsStep ==
    ASSUME BackupTypeOK, \A v \in Upload : Filling(v), Calm, Meetings, [BackupNext]_backup
    PROVE  Meetings'
<1> SUFFICES ASSUME "meet" \in trouble', OneFile'
             PROVE  (\A i \in DOMAIN Collections : Meeting(i)') /\ Survived'
  BY DEF Meetings
<1>1. OneFile
  BY Begins DEF OneFile
<1>2. "meet" \in trouble
  <2>1. trouble' \subseteq trouble
    BY DownloadSteps, WriteSteps, StartSteps, SkipSteps, ClearSteps, InsertSteps,
       InsertedSteps, RestoredSteps, RefusedSteps DEF BackupNext, backup
  <2>. QED
    BY <2>1
<1>3. (\A i \in DOMAIN Collections : Meeting(i)) /\ Survived
  BY <1>1, <1>2 DEF Meetings
<1>4. ~writes /\ \A u \in Upload : ~restoreFails(u)
  BY <1>2 DEF Calm, writes, restoreFails
<1>5. ASSUME UNCHANGED <<uploads, db>>
      PROVE  (\A i \in DOMAIN Collections : Meeting(i)') /\ Survived'
  <2>1. \A v \in Upload : \A i : (At(v, i)' <=> At(v, i)) /\ (Past(v, i)' <=> Past(v, i))
    BY <1>5 DEF At, Past
  <2>2. \A i \in DOMAIN Collections : Meeting(i)'
    BY <1>3, <1>5, <2>1, MeetingKept
  <2>. QED
    BY <1>3, <1>5, <2>2 DEF Survived, Working
<1>6. ASSUME NEW u \in Upload, Untouched(u) \/ Aside(u),
             (Working(u) \/ uploads[u].result = "restored") =>
                 (Working(u) \/ uploads[u].result = "restored")',
             ~(uploads'[u].result = "failed" /\ uploads'[u].file.has # {})
      PROVE  Survived'
  <2>1. \A v \in Upload \ {u} : /\ Working(v)' <=> Working(v)
                                /\ uploads'[v].result = uploads[v].result
                                /\ uploads'[v].file = uploads[v].file
    BY <1>6 DEF Untouched, Aside, Kept, Working
  <2>. QED
    BY <1>3, <1>6, <2>1, Survives
<1>7. \A i \in DOMAIN Collections : i > 0 /\ i + 1 > 0
  BY Collected
<1>8. ASSUME NEW u \in Upload, handleRestoreDatabase(u)
      PROVE  (\A i \in DOMAIN Collections : Meeting(i)') /\ Survived'
  BY <1>3, <1>6, <1>8, StartSteps, MeetStart
<1>9. ASSUME NEW u \in Upload, skipCollection(u)
      PROVE  (\A i \in DOMAIN Collections : Meeting(i)') /\ Survived'
  <2>1. Untouched(u) /\ Working(u)' /\ uploads'[u].result = "none"
    BY <1>7, <1>9, SkipSteps, Busy DEF Goes, Working, Filling
  <2>. QED
    BY <1>1, <1>3, <1>6, <1>9, <2>1, MeetSkip
<1>10. ASSUME NEW u \in Upload, deleteMany(u)
       PROVE  (\A i \in DOMAIN Collections : Meeting(i)') /\ Survived'
  <2>1. Aside(u) /\ Working(u)' /\ uploads'[u].result = "none"
    <3>1. /\ Aside(u) /\ uploads[u].at \in DOMAIN Collections
          /\ uploads'[u].at = uploads[u].at /\ uploads'[u].result = uploads[u].result
      BY <1>10, ClearSteps DEF Goes
    <3>. QED
      BY <1>7, <3>1, Busy DEF Working, Filling
  <2>. QED
    BY <1>1, <1>3, <1>6, <1>10, <2>1, MeetClear
<1>11. ASSUME NEW u \in Upload, insertOne(u)
       PROVE  (\A i \in DOMAIN Collections : Meeting(i)') /\ Survived'
  <2>1. CASE Min(uploads[u].todo) \notin db[Collections[uploads[u].at]]
    <3>1. Aside(u) /\ Working(u)' /\ uploads'[u].result = "none"
      BY <1>7, <1>11, <2>1, InsertSteps DEF Goes, Working
    <3>. QED
      BY <1>1, <1>3, <1>6, <1>11, <2>1, <3>1, MeetInsert
  <2>2. CASE Min(uploads[u].todo) \in db[Collections[uploads[u].at]]
    <3>1. PICK w \in Upload \ {u} : Working(w) \/ uploads[w].result = "restored"
      BY <1>1, <1>3, <1>11, <2>2, MeetClash
    <3>2. Untouched(u)
      BY <1>11, <2>2, InsertSteps
    <3>3. (Working(w) \/ uploads[w].result = "restored")'
      BY <3>1, <3>2 DEF Untouched, Working
    <3>. QED
      BY <1>1, <1>3, <1>11, <2>2, <3>3, MeetClash DEF Survived
  <2>. QED
    BY <2>1, <2>2
<1>12. ASSUME NEW u \in Upload, inserted(u)
       PROVE  (\A i \in DOMAIN Collections : Meeting(i)') /\ Survived'
  <2>1. Untouched(u) /\ Working(u)' /\ uploads'[u].result = "none"
    BY <1>7, <1>12, InsertedSteps DEF Goes, Working
  <2>. QED
    BY <1>1, <1>3, <1>6, <1>12, <2>1, MeetInserted
<1>13. ASSUME NEW u \in Upload, restored(u)
       PROVE  (\A i \in DOMAIN Collections : Meeting(i)') /\ Survived'
  <2>1. Untouched(u) /\ uploads'[u].result = "restored"
    BY <1>13, RestoredSteps DEF Goes
  <2>. QED
    BY <1>3, <1>6, <1>13, <2>1, MeetRestored
<1>. QED
  BY <1>4, <1>5, <1>8, <1>9, <1>10, <1>11, <1>12, <1>13, DownloadSteps
     DEF BackupNext, backup

-----------------------------------------------------------------------------

LEMMA BackupInit ==
    ASSUME InitBackup, CalmMeetings
    PROVE  BackupInv
<1>1. /\ db \in [Coll -> SUBSET Doc] /\ uploads = [u \in Upload |-> Free]
      /\ export = [at |-> 0, got |-> Empty, alone |-> TRUE, told |-> FALSE]
  BY BackupAssumption DEF InitBackup
<1>2. 0 \in 0..(Len(Collections) + 1)
  BY Collected
<1>3. export \in ExportType /\ export.at = 0 /\ ~export.told
  BY <1>1, <1>2, EmptyType DEF ExportType
<1>4. file \in FileType
  <2>1. CASE file \in Files
    BY <2>1 DEF Files, FileType
  <2>2. ASSUME NEW k \in {"no JSON", "too long"}, file = [Free.file EXCEPT !.kind = k]
        PROVE  file \in FileType
    <3>1. Free.file \in FileType
      BY EmptyType DEF UploadType
    <3>. QED
      BY <2>2, <3>1 DEF FileType
  <2>. QED
    BY <2>1, <2>2 DEF InitBackup
<1>5. BackupTypeOK
  BY <1>1, <1>3, <1>4, EmptyType DEF BackupTypeOK
<1>6. Reading
  BY <1>3 DEF Reading
<1>7. Calm
  BY DEF Calm, CalmMeetings, InitBackup
<1>8. \A u \in Upload : /\ uploads[u].at = 0 /\ ~uploads[u].cleared
                       /\ uploads[u].todo = {} /\ uploads[u].result = "none"
  BY <1>1 DEF Free
<1>9. \A u \in Upload : ~Working(u)
  BY <1>8 DEF Working
<1>10. \A u \in Upload : Filling(u) /\ Alone(u)
  BY <1>8, <1>9 DEF Filling, Alone
<1>11. \A u \in Upload, i \in DOMAIN Collections : ~At(u, i) /\ ~Past(u, i)
  BY <1>8, Collected DEF At, Past
<1>12. Meetings
  BY <1>8, <1>11 DEF Meetings, Meeting, Survived
<1>. QED
  BY <1>5, <1>6, <1>7, <1>10, <1>12 DEF BackupInv

LEMMA CalmStep ==
    ASSUME BackupTypeOK, \A v \in Upload : Filling(v), Calm, [BackupNext]_backup
    PROVE  Calm'
<1>1. trouble' \subseteq trouble
  BY DownloadSteps, WriteSteps, StartSteps, SkipSteps, ClearSteps, InsertSteps,
     InsertedSteps, RestoredSteps, RefusedSteps DEF BackupNext, backup
<1>. QED
  BY <1>1 DEF Calm

LEMMA Heals ==
    ASSUME BackupInv
    PROVE  RestoreHeals
<1>1. export.told /\ export.alone => file.docs = db
  BY DEF BackupInv, Reading
<1>2. ASSUME NEW u \in Upload, uploads[u].alone
      PROVE  /\ uploads[u].result = "restored" =>
                    db = Restored(uploads[u].file, uploads[u].before)
             /\ uploads[u].result = "failed" => Torn(uploads[u].file, uploads[u].before)
  BY <1>2 DEF BackupInv, Alone
<1>3. ASSUME trouble = {"meet"}, file.kind = "read",
             \A u \in Upload : uploads[u].result # "none" /\ uploads[u].file = file
      PROVE  /\ \E u \in Upload : uploads[u].result = "restored"
             /\ \A c \in file.has : db[c] = file.docs[c]
  <2>1. \A u \in Upload : ~Working(u) /\ ~uploads[u].cleared
    <3>1. \A u \in Upload : ~Working(u)
      BY <1>3 DEF BackupInv, Filling
    <3>. QED
      BY <3>1, Busy DEF BackupInv, Filling
  <2>2. (\A i \in DOMAIN Collections : Meeting(i)) /\ Survived
    BY <1>3 DEF BackupInv, Meetings, OneFile
  <2>3. PICK u \in Upload : uploads[u].result = "restored"
    <3>1. PICK u \in Upload : TRUE
      BY BackupAssumption
    <3>2. uploads[u].result \in {"restored", "failed"} /\ uploads[u].file = file
      BY <1>3, UploadFields DEF BackupInv
    <3>3. Coll # {}
      BY Collected
    <3>4. uploads[u].result = "failed" => file.has # {}
      BY <1>3, <3>2, <3>3 DEF BackupInv, Filling
    <3>. QED
      BY <2>1, <2>2, <3>2, <3>4 DEF Survived
  <2>4. ASSUME NEW c \in file.has PROVE db[c] = file.docs[c]
    <3>1. PICK i \in DOMAIN Collections : c = Collections[i]
      BY Collected DEF BackupInv, BackupTypeOK, FileType
    <3>2. uploads[u].file = file /\ Docs(u, i) = file.docs[c]
      BY <1>3, <3>1 DEF Docs
    <3>3. Shared(i, Docs(u, i))
      BY <2>2, <2>3, <3>1, <3>2 DEF Meeting, Past
    <3>4. \A w \in Upload : ~At(w, i)
      BY <2>1 DEF At
    <3>5. db[c] \subseteq file.docs[c]
      BY <3>1, <3>2, <3>3 DEF Shared
    <3>6. ASSUME NEW d \in file.docs[c], d \notin db[c] PROVE FALSE
      BY <3>1, <3>2, <3>3, <3>4, <3>6 DEF Shared
    <3>. QED
      BY <3>5, <3>6
  <2>. QED
    BY <2>3, <2>4
<1>. QED
  BY <1>1, <1>2, <1>3 DEF RestoreHeals

\* A download that nobody wrote to is the database.  A restore that nobody met leaves what
\* its file says, or is torn where it failed; and of any number of uploads of one file that
\* meet, in any order of their steps, one gets through and the collections are the file's
\* (importDatabase).
THEOREM RestoreIsWhole == CalmMeetings => (BackupSpec => []RestoreHeals)
<1> SUFFICES ASSUME CalmMeetings PROVE BackupSpec => []RestoreHeals
  OBVIOUS
<1>1. InitBackup => BackupInv
  BY BackupInit
<1>2. BackupInv /\ [BackupNext]_backup => BackupInv'
  BY TypeStep, FillingStep, ReadingStep, AloneStep, MeetingsStep, CalmStep DEF BackupInv
<1>3. BackupInv => RestoreHeals
  BY Heals
<1>. QED
  BY <1>1, <1>2, <1>3, PTL DEF BackupSpec
=============================================================================
