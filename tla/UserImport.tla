----------------------------- MODULE UserImport -----------------------------
(***************************************************************************)
(* How a list of students becomes accounts: UserManagementPage.jsx reads a *)
(* sheet or pasted lines, marks the rows it finds fault with and sends the *)
(* others; bulkRegister checks them once more, with checks of its own, and *)
(* creates accounts, whose credentials the page saves as a sheet again.    *)
(*                                                                         *)
(* Tenancy has the calls of one upload one by one; here it is alone, and   *)
(* the college has seats for everybody.  Of the ways to write an address   *)
(* there is "X " beside "x", of blank cells " ", of addresses without the  *)
(* form of one "-", and of texts a spreadsheet would evaluate "=n".        *)
(***************************************************************************)
EXTENDS Filtered, SequencesExt

VARIABLE upload  \* the lines that are pasted, and the accounts there are

trim(cell) == IF cell = " " THEN "" ELSE cell
toLowerCase(email) == IF email = "X " THEN "x" ELSE trim(email)
Malformed(email) == email = "-"

-----------------------------------------------------------------------------
(* Sheets and lines.                                                       *)

sanitizeCellValue(value) == IF value = "=n" THEN "'=n" ELSE value

downloadRowsAsExcel(headers, rows) ==
    [headers |-> headers,
     rows |-> [k \in DOMAIN rows |-> [i \in DOMAIN headers |-> sanitizeCellValue(rows[k][i])]]]

\* The first column with one of these headers, whose case does not count.
getVal(sheet, k, possibleHeaders) ==
    LET columns == {i \in DOMAIN sheet.headers : sheet.headers[i] \in possibleHeaders}
    IN  IF columns = {} THEN ""
        ELSE trim(sheet.rows[k][CHOOSE i \in columns : \A j \in columns : i <= j])

handleFileUpload(sheet) ==
    [k \in DOMAIN sheet.rows |->
        [usn     |-> getVal(sheet, k, {"USN", "Roll Number", "USN/Roll", "ID", "RollNo", "Student USN"}),
         name    |-> getVal(sheet, k, {"Name", "Student Name", "Full Name", "StudentName"}),
         email   |-> getVal(sheet, k, {"Email", "Email ID", "EmailAddress", "Email Address"}),
         section |-> getVal(sheet, k, {"Section", "Sec", "Class"})]]

\* Pasted lines have their cells in the order of the template.
pastedLines(lines) ==
    LET rows == Kept(lines, {k \in DOMAIN lines : Len(lines[k]) >= 2})
        part(k, i) == IF i <= Len(rows[k]) THEN trim(rows[k][i]) ELSE ""
    IN  [k \in DOMAIN rows |-> [usn |-> part(k, 1), name |-> part(k, 2),
                                email |-> part(k, 3), section |-> part(k, 4)]]

sampleHeaders == <<"USN", "Name", "Email", "Section">>

-----------------------------------------------------------------------------
(* The page's checks.                                                      *)

\* Defect: an address counts as seen the way it is written.
processUsersAsWritten(rows) ==
    [i \in DOMAIN rows |->
        [usn |-> rows[i].usn, name |-> rows[i].name, email |-> toLowerCase(rows[i].email),
         section |-> rows[i].section,
         isValid |-> /\ trim(rows[i].name) # ""
                     /\ toLowerCase(rows[i].email) # "" /\ ~Malformed(rows[i].email)
                     /\ \A j \in 1..(i - 1) :
                           /\ rows[j].email # rows[i].email
                           /\ rows[i].usn # "" => rows[j].usn # rows[i].usn]]

\* A row without what is blank around its cells.
clean(u) == [usn |-> trim(u.usn), name |-> trim(u.name),
             email |-> toLowerCase(u.email), section |-> trim(u.section)]

\* Every row before counts for what has been seen, also one that is marked itself.
isValid(rows, i) ==
    LET u == clean(rows[i])
    IN  /\ u.name # "" /\ u.email # "" /\ ~Malformed(u.email)
        /\ \A j \in 1..(i - 1) :
              /\ clean(rows[j]).email # u.email
              /\ u.usn # "" => clean(rows[j]).usn # u.usn

processAndValidateUsers(rows) ==
    [i \in DOMAIN rows |->
        LET u == clean(rows[i])
        IN  [usn |-> u.usn, name |-> u.name, email |-> u.email, section |-> u.section,
             isValid |-> isValid(rows, i)]]

Valid(preview) == Kept(preview, {i \in DOMAIN preview : preview[i].isValid})

\* The page sends the rows without a mark, if there are any.
handleBulkImport(preview) ==
    [i \in DOMAIN Valid(preview) |->
        LET u == Valid(preview)[i]
        IN  [usn |-> u.usn, name |-> u.name, email |-> u.email, section |-> u.section]]

-----------------------------------------------------------------------------
(* The API.                                                                *)

\* Why the API does not create an account for row i, "" if it does.  Only rows with a
\* name and a new address count for what has been seen.
rowError(users, accounts, i) ==
    LET email(j) == toLowerCase(users[j].email)
        usn(j) == trim(users[j].usn)
        formed(j) == trim(users[j].name) # "" /\ email(j) # "" /\ ~Malformed(email(j))
        repeats(j) == \E k \in 1..(j - 1) : formed(k) /\ email(k) = email(j)
        counted(j) == formed(j) /\ ~repeats(j)
    IN  CASE ~formed(i) -> "incomplete"
          [] formed(i) /\ repeats(i) -> "Duplicate email in upload batch"
          [] counted(i) /\ usn(i) # "" /\ (\E j \in 1..(i - 1) : counted(j) /\ usn(j) = usn(i)) ->
                "Duplicate USN in upload batch"
          [] OTHER ->
                IF \E a \in accounts : a.email = email(i) THEN "Email already registered in system"
                ELSE IF usn(i) # "" /\ \E a \in accounts : a.usn = usn(i)
                     THEN "USN already registered in system" ELSE ""

bulkImportStudents(users, accounts) ==
    LET error == [i \in DOMAIN users |-> rowError(users, accounts, i)]
    IN  [created |-> Kept([i \in DOMAIN users |-> clean(users[i])],
                          {i \in DOMAIN users : error[i] = ""}),
         errors  |-> Kept([i \in DOMAIN users |-> [row |-> i, error |-> error[i]]],
                          {i \in DOMAIN users : error[i] # ""})]

\* The sheets the page saves: the new accounts, and all that it lists, where the address
\* stands for the id, which is as unique.
downloadCredentials(created) ==
    downloadRowsAsExcel(<<"USN", "Name", "Email", "Section", "Password">>,
        [k \in DOMAIN created |-> <<created[k].usn, created[k].name, created[k].email,
                                    created[k].section, "password">>])

exportAllUsers(users) ==
    downloadRowsAsExcel(<<"ID", "Name", "USN", "Email", "Section", "Role">>,
        [k \in DOMAIN users |-> <<users[k].email, users[k].name, users[k].usn, users[k].email,
                                  users[k].section, "student">>])

-----------------------------------------------------------------------------

\* Accounts have an address each and, if they have a USN, one of their own.  An address that a
\* spreadsheet would evaluate comes back from a sheet as another one.
InitImport ==
    /\ upload.lines \in Seq(Seq(STRING))
    /\ \A line \in ToSet(upload.lines) : \A i \in DOMAIN line : i = 3 => line[i] # "=n"
    /\ IsFiniteSet(upload.accounts)
    /\ \A a, b \in upload.accounts : a # b => a.email # b.email /\ (a.usn = "" \/ a.usn # b.usn)

ImportSpec == InitImport /\ [][UNCHANGED upload]_upload

\* One upload of lines beside these accounts.  The page is nowhere laxer than the API: what
\* it sends is refused for accounts there are and for nothing else, and every row is marked,
\* refused or created.  What is created is new in address and USN, and would be without the
\* page as well.  A sheet and pasted lines are read alike, and a sheet the page saved
\* creates nobody when it comes back (processAndValidateUsers beside bulkRegister).
ImportAgrees ==
    LET lines    == upload.lines
        accounts == upload.accounts
        rows    == pastedLines(lines)
        preview == processAndValidateUsers(rows)
        sent    == handleBulkImport(preview)
        result  == bulkImportStudents(sent, accounts)
        after   == accounts \cup ToSet(result.created)
        again(sheet) == bulkImportStudents(handleBulkImport(processAndValidateUsers(handleFileUpload(sheet))), after)
    IN  /\ \A e \in ToSet(result.errors) :
              e.error \in {"Email already registered in system", "USN already registered in system"}
        /\ Len(sent) = Len(result.created) + Len(result.errors)
        /\ ToSet(result.created) \subseteq ToSet(bulkImportStudents(rows, accounts).created)
        /\ Cardinality(after) = Cardinality(accounts) + Len(result.created)
        /\ \A a, b \in after : a # b => a.email # b.email /\ (a.usn = "" \/ a.usn # b.usn)
        /\ (\A line \in ToSet(lines) : Len(line) = Len(sampleHeaders)) =>
              handleFileUpload([headers |-> sampleHeaders, rows |-> lines]) = rows
        /\ again(downloadCredentials(result.created)).created = <<>>
        /\ again(exportAllUsers(result.created)).created = <<>>
=============================================================================
