------------------------------ MODULE Backup -------------------------------
(***************************************************************************)
(* The copy of the database that a superadmin downloads and brings back    *)
(* (SystemDashboardPage.jsx, the two routes of admin.routes.js, and        *)
(* exportDatabase and importDatabase of system.service.js).                *)
(*                                                                         *)
(* Nothing is done in a transaction: an export reads one collection after  *)
(* the other, and a restore empties each collection and fills it again,    *)
(* one document at a time, until one is refused.  Both write an entry of   *)
(* their own to the audit log when they are done, which Collections leaves *)
(* out.                                                                    *)
(***************************************************************************)
EXTENDS Integers, Sequences, FiniteSets, SequencesExt, FiniteSetsExt

CONSTANTS
    Collections, \* in the order in which both go through them
    Doc,         \* numbers: the documents a collection may have, by their unique keys
    Upload,      \* the uploads there may be
    Databases,   \* bound: what may be stored at the beginning
    Troubles     \* bound: what may happen in one behaviour, of "download", another
                 \* upload that may "meet" one, "write" and "refuse", the last two once

VARIABLES
    db,       \* the documents of each collection
    export,   \* the download under way: the next collection, and what has been read
    file,     \* the file at hand
    uploads,
    trouble   \* what may still happen

backup == <<db, export, file, uploads, trouble>>

Coll == ToSet(Collections)
Empty == [c \in Coll |-> {}]

ASSUME BackupAssumption ==
    /\ Collections \in Seq(Coll) /\ Collections # <<>>
    /\ \A i, j \in DOMAIN Collections : Collections[i] = Collections[j] => i = j
    /\ Doc \subseteq Nat
    /\ Upload # {} /\ "another request" \notin Upload
    /\ Databases \subseteq [Coll -> SUBSET Doc]

\* A file may lack a collection, be no JSON, or be longer than a request may be.
Files ==
    {f \in [kind : {"read"}, has : SUBSET Coll, docs : [Coll -> SUBSET Doc]] :
        \A c \in Coll \ f.has : f.docs[c] = {}}

\* `before' and `alone' are history: the database when the upload began, and whether no
\* other upload and no other request has written since.
Free == [at |-> 0, cleared |-> FALSE, todo |-> {}, result |-> "none",
         file |-> [kind |-> "read", has |-> {}, docs |-> Empty], before |-> Empty, alone |-> TRUE]

Working(u) == uploads[u].at > 0

InitBackup ==
    /\ db \in Databases
    /\ export = [at |-> 0, got |-> Empty, alone |-> TRUE, told |-> FALSE]
    /\ file \in Files \cup {[Free.file EXCEPT !.kind = kind] : kind \in {"no JSON", "too long"}}
    /\ uploads = [u \in Upload |-> Free]
    /\ trouble \in Troubles

\* The uploads after a write, by one of them or by another request.
Disturbed(who) ==
    [u \in Upload |-> IF u = who THEN uploads[u]
                      ELSE [uploads[u] EXCEPT !.alone = FALSE, !.before = Empty]]

-----------------------------------------------------------------------------
(* The download.                                                           *)

handleDownloadBackup ==
    /\ export.at = 0 /\ "download" \in trouble
    /\ export' = [at |-> 1, got |-> Empty, alone |-> \A u \in Upload : ~Working(u), told |-> FALSE]
    /\ UNCHANGED <<db, file, uploads, trouble>>

exportDatabase ==
    /\ export.at \in DOMAIN Collections
    /\ LET c == Collections[export.at]
       IN  export' = [export EXCEPT !.at = @ + 1, !.got[c] = db[c]]
    /\ UNCHANGED <<db, file, uploads, trouble>>

\* The file is saved.
downloaded ==
    /\ export.at > Len(Collections)
    /\ file' = [kind |-> "read", has |-> Coll, docs |-> export.got]
    /\ export' = [export EXCEPT !.at = 0, !.told = TRUE]
    /\ UNCHANGED <<db, uploads>> /\ trouble' = trouble \ {"download"}

-----------------------------------------------------------------------------
(* The restore.                                                            *)

\* One upload at a time from each page; another one meanwhile from another page.
handleRestoreDatabase(u) ==
    /\ ~Working(u) /\ uploads[u].result = "none"
    /\ "meet" \in trouble \/ \A v \in Upload : ~Working(v)
    /\ uploads' = [uploads EXCEPT ![u] =
          IF file.kind = "read"
          THEN [Free EXCEPT !.at = 1, !.file = file, !.before = db,
                            !.alone = \A v \in Upload : ~Working(v)]
          ELSE [Free EXCEPT !.result = "failed", !.alone = FALSE]]
    /\ UNCHANGED <<db, export, file, trouble>>

\* A collection that the file lacks is passed over.
skipCollection(u) ==
    /\ uploads[u].at \in DOMAIN Collections /\ ~uploads[u].cleared
    /\ Collections[uploads[u].at] \notin uploads[u].file.has
    /\ uploads' = [uploads EXCEPT ![u].at = @ + 1]
    /\ UNCHANGED <<db, export, file, trouble>>

Clearing(u) ==
    /\ uploads[u].at \in DOMAIN Collections /\ ~uploads[u].cleared
    /\ Collections[uploads[u].at] \in uploads[u].file.has

Cleared(u) ==
    [Disturbed(u) EXCEPT ![u].cleared = TRUE,
                         ![u].todo = uploads[u].file.docs[Collections[uploads[u].at]]]

\* Defect: the collection is not emptied.
deleteNothing(u) ==
    /\ Clearing(u) /\ uploads' = Cleared(u)
    /\ export' = [export EXCEPT !.alone = FALSE]
    /\ UNCHANGED <<db, file, trouble>>

deleteMany(u) ==
    /\ Clearing(u) /\ uploads' = Cleared(u)
    /\ db' = [db EXCEPT ![Collections[uploads[u].at]] = {}]
    /\ export' = [export EXCEPT !.alone = FALSE]
    /\ UNCHANGED <<file, trouble>>

Failing(u) ==
    [uploads EXCEPT ![u].at = 0, ![u].cleared = FALSE, ![u].todo = {}, ![u].result = "failed"]

\* insertMany: in the order of the file, up to the first key there is already.
insertOne(u) ==
    LET c == Collections[uploads[u].at]
        d == Min(uploads[u].todo)
    IN  /\ Working(u) /\ uploads[u].cleared /\ uploads[u].todo # {}
        /\ IF d \in db[c]
           THEN /\ uploads' = Failing(u)
                /\ UNCHANGED <<db, export>>
           ELSE /\ db' = [db EXCEPT ![c] = @ \cup {d}]
                /\ uploads' = [Disturbed(u) EXCEPT ![u].todo = @ \ {d}]
                /\ export' = [export EXCEPT !.alone = FALSE]
        /\ UNCHANGED <<file, trouble>>

inserted(u) ==
    /\ Working(u) /\ uploads[u].cleared /\ uploads[u].todo = {}
    /\ uploads' = [uploads EXCEPT ![u].at = @ + 1, ![u].cleared = FALSE]
    /\ UNCHANGED <<db, export, file, trouble>>

restored(u) ==
    /\ uploads[u].at > Len(Collections)
    /\ uploads' = [uploads EXCEPT ![u].at = 0, ![u].result = "restored"]
    /\ UNCHANGED <<db, export, file, trouble>>

\* MongoDB refuses, and the request ends where it is.
restoreFails(u) ==
    /\ "refuse" \in trouble /\ trouble' = trouble \ {"refuse"}
    /\ Clearing(u) \/ (Working(u) /\ uploads[u].todo # {})
    /\ uploads' = Failing(u)
    /\ UNCHANGED <<db, export, file>>

-----------------------------------------------------------------------------

\* Any other request that makes a document or takes one away.
writes ==
    /\ "write" \in trouble /\ trouble' = trouble \ {"write"}
    /\ \E c \in Coll, d \in Doc : db' = [db EXCEPT ![c] = IF d \in @ THEN @ \ {d} ELSE @ \cup {d}]
    /\ uploads' = Disturbed("another request")
    /\ export' = [export EXCEPT !.alone = FALSE]
    /\ UNCHANGED file

BackupNext ==
    \/ handleDownloadBackup \/ exportDatabase \/ downloaded \/ writes
    \/ \E u \in Upload :
          \/ handleRestoreDatabase(u) \/ skipCollection(u) \/ deleteMany(u) \/ insertOne(u)
          \/ inserted(u) \/ restored(u) \/ restoreFails(u)

BackupSpec == InitBackup /\ [][BackupNext]_backup

-----------------------------------------------------------------------------

\* What a restore from f of what was there before leaves.
Restored(f, before) == [c \in Coll |-> IF c \in f.has THEN f.docs[c] ELSE before[c]]

\* The collections of a restore that failed: as in the file up to one that is not whole,
\* and as before from there on.
Torn(f, before) ==
    \E n \in DOMAIN Collections :
        \A i \in DOMAIN Collections :
            LET c == Collections[i]
            IN  CASE i < n -> db[c] = Restored(f, before)[c]
                  [] i > n -> db[c] = before[c]
                  [] OTHER -> db[c] = before[c] \/ (c \in f.has /\ db[c] \subseteq f.docs[c])

\* A download during which nobody wrote is the database.  A restore that ran alone ends in
\* what the file says, whatever an earlier one has left behind, or where it failed, with
\* the collections behind untouched.  And of uploads of one file that meet each other,
\* in two pages say, one gets through unless MongoDB refuses something, and the database
\* is the file's when all are told, however they crossed (importDatabase).
RestoreHeals ==
    /\ export.told /\ export.alone => file.docs = db
    /\ \A u \in Upload :
          LET up == uploads[u]
          IN  up.alone =>
                /\ up.result = "restored" => db = Restored(up.file, up.before)
                /\ up.result = "failed" => Torn(up.file, up.before)
    /\ trouble = {"meet"} /\ file.kind = "read"
         /\ (\A u \in Upload : uploads[u].result # "none" /\ uploads[u].file = file) =>
              /\ \E u \in Upload : uploads[u].result = "restored"
              /\ \A c \in file.has : db[c] = file.docs[c]
=============================================================================
