------------------------------- MODULE Session -------------------------------
(***************************************************************************)
(* Who is signed in, in one browser with several tabs.  Three places keep  *)
(* it: the cookie, which only the API writes and which every call carries, *)
(* the entry "user" of localStorage, which the tabs share, and the state   *)
(* of each tab.  A tab changes the entry and its own state together; the   *)
(* other tabs hear of it by a storage event.  The cookie of an answer is   *)
(* set before the tab that waits for the answer goes on.                   *)
(***************************************************************************)
EXTENDS Access

CONSTANTS
    Tab,
    Scenes  \* bound: the tabs, users and pages of one behaviour

ASSUME SessionAssumption ==
    \A s \in Scenes : s.tabs \subseteq Tab /\ s.users \subseteq Role

VARIABLES
    cookie,  \* the user the browser's cookie names, who has the role of that name
    cached,  \* localStorage "user"
    shown,   \* the state "user" of App in each tab
    at,      \* the page of each tab
    inbox,   \* has a storage event been dispatched to the tab?
    call,    \* the call the tab waits for that may change who is signed in
    crossed, \* has a sign-in met another one, or been cut off?
    scene

browser == <<cookie, cached, shown, at, inbox, call, crossed>>
sessionVars == <<browser, scene>>

NoCall == [kind |-> "none", who |-> Nobody, reply |-> Nobody]
Pending(t, kinds) == call[t].kind \in kinds
SigningIn(t) == Pending(t, {"login", "signup"})

InitSession ==
    /\ cookie = Nobody /\ cached = Nobody
    /\ shown = [t \in Tab |-> Nobody]
    /\ at = [t \in Tab |-> "/"]
    /\ inbox = [t \in Tab |-> FALSE]
    /\ call = [t \in Tab |-> NoCall]
    /\ crossed = FALSE
    /\ scene \in Scenes

\* Defect: only the tab itself hears of it.
storeUnheard(t, who) == cached' = who /\ UNCHANGED inbox

\* The entry changes: the other tabs, and only if it does change, are told.
store(t, who) ==
    /\ cached' = who
    /\ inbox' = IF who = cached THEN inbox ELSE [x \in Tab |-> inbox[x] \/ x # t]

\* The tab takes over the entry; page is where it is on the way.
syncAuth(t, who, page) ==
    LET leaves == shown[t] # Nobody /\ who = Nobody /\ page \in protectedRoutes
    IN  /\ shown' = [shown EXCEPT ![t] = who]
        /\ at' = [at EXCEPT ![t] = RequireRole(IF leaves THEN "/login" ELSE page, who)]

-----------------------------------------------------------------------------

visit(t) ==
    /\ \E page \in scene.pages : at' = [at EXCEPT ![t] = RequireRole(page, shown[t])]
    /\ UNCHANGED <<cookie, cached, shown, inbox, call, crossed>>

\* A tab is loaded anew; a call under way is given up, its cookie perhaps not.
reload(t) ==
    LET who == IF call[t].reply = Nobody /\ SigningIn(t) THEN {call[t].who}
               ELSE IF call[t].reply = Nobody /\ Pending(t, {"logout"}) THEN {Nobody} ELSE {}
    IN  /\ shown' = [shown EXCEPT ![t] = cached]
        /\ at' = [at EXCEPT ![t] = RequireRole(at[t], cached)]
        /\ inbox' = [inbox EXCEPT ![t] = FALSE]
        /\ call' = [call EXCEPT ![t] = NoCall]
        /\ cookie' \in {cookie} \cup who
        /\ crossed' = (crossed \/ SigningIn(t))
        /\ UNCHANGED cached

expire ==
    /\ cookie # Nobody
    /\ cookie' = Nobody
    /\ UNCHANGED <<cached, shown, at, inbox, call, crossed>>

\* LoginPage and SignupPage: whoever signs up is the admin of a new college.
handleSubmit(t) ==
    /\ at[t] \in {"/login", "/signup"} /\ call[t] = NoCall
    /\ \E who \in scene.users :
          /\ at[t] = "/signup" => who = "admin"
          /\ call' = [call EXCEPT ![t] = [kind |-> IF at[t] = "/login" THEN "login" ELSE "signup",
                                          who |-> who, reply |-> Nobody]]
    /\ crossed' = (crossed \/ \E x \in Tab : SigningIn(x))
    /\ UNCHANGED <<cookie, cached, shown, at, inbox>>

\* A call of the page the tab is on: it carries the cookie, which decides its answer.
request(t) ==
    /\ call[t] = NoCall
    /\ \E c \in calls(at[t], shown[t]) \ {"login", "signup"} :
          call' = [call EXCEPT ![t] = [kind |-> "page", who |-> cookie, reply |-> verifyToken(c, cookie)]]
    /\ UNCHANGED <<cookie, cached, shown, at, inbox, crossed>>

logout(t) ==
    /\ shown[t] # Nobody /\ call[t] = NoCall
    /\ call' = [call EXCEPT ![t] = [kind |-> "logout", who |-> Nobody, reply |-> Nobody]]
    /\ UNCHANGED <<cookie, cached, shown, at, inbox, crossed>>

\* The API answers, refuses, or cannot be reached.
answer(t, reply) ==
    /\ Pending(t, {"login", "signup", "logout"}) /\ call[t].reply = Nobody
    /\ reply = 401 => Pending(t, {"login"})
    /\ call' = [call EXCEPT ![t].reply = reply]
    /\ cookie' = IF reply = 200 THEN call[t].who ELSE cookie
    /\ UNCHANGED <<cached, shown, at, inbox, crossed>>

signedIn(t) ==
    /\ SigningIn(t) /\ call[t].reply = 200
    /\ store(t, call[t].who)
    /\ syncAuth(t, call[t].who, "/")

\* A refused call of any kind, a wrong password among them.
unauthorized(t) ==
    /\ call[t].reply = 401
    /\ store(t, Nobody)
    /\ syncAuth(t, Nobody, at[t])

\* Whether or not the API was reached.
handleLogout(t) ==
    /\ Pending(t, {"logout"}) /\ call[t].reply # Nobody
    /\ store(t, Nobody)
    /\ syncAuth(t, Nobody, "/login")

ignored(t) ==
    /\ \/ Pending(t, {"page"}) /\ call[t].reply # 401
       \/ SigningIn(t) /\ call[t].reply = 503
    /\ UNCHANGED <<cached, shown, at, inbox>>

proceed(t) ==
    /\ signedIn(t) \/ unauthorized(t) \/ handleLogout(t) \/ ignored(t)
    /\ call' = [call EXCEPT ![t] = NoCall]
    /\ crossed' = (crossed /\ (cached' # Nobody \/ \E x \in Tab \ {t} : SigningIn(x)))
    /\ UNCHANGED cookie

\* handleStorage reads the entry as it is by then.
handleStorage(t) ==
    /\ inbox[t]
    /\ inbox' = [inbox EXCEPT ![t] = FALSE]
    /\ syncAuth(t, cached, at[t])
    /\ UNCHANGED <<cookie, cached, call, crossed>>

SessionNext ==
    /\ \/ expire
       \/ \E t \in scene.tabs :
             \/ visit(t) \/ reload(t) \/ handleSubmit(t) \/ request(t) \/ logout(t)
             \/ \E reply \in {200, 401, 503} : answer(t, reply)
             \/ proceed(t) \/ handleStorage(t)
    /\ UNCHANGED scene

SessionSpec == InitSession /\ [][SessionNext]_sessionVars

-----------------------------------------------------------------------------

\* Every tab shows who localStorage says is signed in, or has yet to hear of it.
TabsAgree == \A t \in scene.tabs : inbox[t] \/ shown[t] = cached

\* What pages offer to more users than the API allows.
Withheld ==
    {<<"faculty", "assessments.delete">>, <<"faculty", "getSystemStats">>}
    \cup ({"faculty", "admin"} \X {"downloadBackup", "restoreDatabase"})

\* However a tab came to its page, the page makes and offers no call that the API refuses
\* the user it shows, but for the three in Withheld (authorizeRoles beside RequireRole).
PagesServe ==
    \A t \in scene.tabs : \A c \in calls(at[t], shown[t]) :
        verifyToken(c, shown[t]) = 200 \/ <<shown[t], c>> \in Withheld

\* No order of signing in, signing out, refused calls and reloads leaves a tab with
\* someone else than the other tabs, or on a page that is not theirs; and with no sign-in
\* under way the tabs never name someone while the cookie is another's: what one reads on
\* the screen is done in that name.  Only two sign-ins at a time, or one cut off by a
\* reload, may leave the two apart, until someone signs out (syncAuth, handleStorage, the
\* 401 interceptor of api.js).
IdentityAgrees ==
    /\ TabsAgree /\ PagesServe
    /\ ~crossed /\ (\A t \in scene.tabs : ~SigningIn(t)) =>
          cookie = Nobody \/ cached \in {Nobody, cookie}
=============================================================================
