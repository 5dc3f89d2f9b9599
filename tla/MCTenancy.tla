----------------------------- MODULE MCTenancy -----------------------------
(* Small instances of Tenancy, of Session, of UserImport, of Listing, of          *)
(* AssessmentDetails, of ProblemPage and of Backup: accounts in the API, in the   *)
(* browser, on their way in, and in a list, a student's way into an assessment    *)
(* and at the practice of a problem, and the database as a whole.  A behaviour is *)
(* of one of the seven; the others stay as they begin.                            *)
EXTENDS Tenancy, Session, UserImport, Listing, AssessmentDetails, ProblemPage, Backup

CONSTANTS a, b, t1, t2

VARIABLE part

\* Who is at work in one behaviour: registrations and uploads, signups, Stripe,
\* the superadmin beside Stripe, and students.
MCMixes == {{"register", "bulk", "fail"},
            {"signup", "fail"},
            {"checkout", "cancel", "redeliver"},
            {"checkout", "cancel", "manual"},
            {"submit", "outage"}}

\* One tab with every page and role, or two with a page of each kind of RequireRole.
MCScenes == {[tabs |-> {t1}, users |-> Role, pages |-> Page],
             [tabs |-> {t1, t2}, users |-> {"student", "admin"},
              pages |-> {"/", "/login", "/assessments", "/questions"}]}

\* All records, and those that a search or a tag lets through.
MCFilters == <<{1, 2}, {1}>>

\* An assessment may be put off.
MCTimes == {[start |-> 0, end |-> 0], [start |-> 1, end |-> 1]}

\* Up to three lines: any two, or any one with two that have nothing missing.
Line(names, emails, usns) == {<<u, n, e, "A">> : u \in usns, n \in names, e \in emails}
AnyLine == Line({" ", "=n"}, {" ", "-", "x", "X ", "y"}, {" ", "u", "v"})
GoodLine == Line({"=n"}, {"x", "X ", "y"}, {"", "u", "v"})

Account(email, usn) == [usn |-> usn, name |-> "n", email |-> email, section |-> "A"]

Uploads ==
    [lines : {<<>>, <<<<"u">>>>, <<sampleHeaders>>} \cup {<<l>> : l \in AnyLine}
             \cup (AnyLine \X AnyLine) \cup (AnyLine \X GoodLine \X GoodLine),
     accounts : {{}, {Account("x", "")}, {Account("y", "u")}, {Account("z", "v")}}]

\* What the student does at a problem.
MCHabits == {{"tests", "run", "history"}, {"submit", "run", "look"},
             {"submit", "look", "history", "leave", "faults"}}

\* Two of the collections, and two databases.
MCCollections == <<"submissions", "systemsettings">>
MCDatabases == {[submissions |-> {1}, systemsettings |-> {1}],
                [submissions |-> {1, 2}, systemsettings |-> {}]}
MCTroubles == {{"meet"}, {"download", "write"}, {"download", "meet"}, {"refuse", "write"}}

\* Nothing to restore from, and nothing that happens to the database.
NoBackup == file.kind = "no JSON" /\ trouble = {"meet"} /\ db["systemsettings"] = {}

\* A student before a published assessment.
NoEntry ==
    /\ offered = [status |-> "Published", times |-> CHOOSE w \in Times : TRUE, locked |-> FALSE]
    /\ attempt = "none"
    /\ role = "student" /\ screen = [full |-> FALSE, able |-> TRUE]

MCInit ==
    /\ part \in {"tenants", "browser", "import", "list", "start", "practice", "system"}
    /\ Init /\ (part # "tenants" => ops = {"submit", "outage"} /\ plan[a] = "free")
    /\ InitSession /\ (part # "browser" => scene.tabs = {t1})
    /\ upload \in Uploads /\ InitImport /\ (part # "import" => upload.lines = <<>> /\ upload.accounts = {})
    /\ InitListing /\ (kind = "users" => records = {2})
    /\ (part # "list" => kind = "users")
    /\ InitEntry /\ (part # "start" => NoEntry)
    /\ InitPractice /\ (part # "practice" => "tests" \in habit)
    /\ InitBackup /\ (part # "system" => NoBackup)

MCNext ==
    /\ \/ part = "tenants" /\ Next
       \/ part # "tenants" /\ UNCHANGED vars
    /\ \/ part = "browser" /\ SessionNext
       \/ part # "browser" /\ UNCHANGED sessionVars
    /\ \/ part = "list" /\ ListingNext
       \/ part # "list" /\ UNCHANGED listing
    /\ \/ part = "start" /\ EntryNext
       \/ part # "start" /\ UNCHANGED entry
    /\ \/ part = "practice" /\ PracticeNext
       \/ part # "practice" /\ UNCHANGED practice
    /\ \/ part = "system" /\ BackupNext
       \/ part # "system" /\ UNCHANGED backup
    /\ UNCHANGED <<part, upload>>

MCSpec ==
    MCInit /\ [][MCNext]_<<vars, sessionVars, listing, entry, practice, backup, part, upload>>
=============================================================================
