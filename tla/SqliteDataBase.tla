--------------------------- MODULE SqliteDataBase ---------------------------
(***************************************************************************)
(* Processes over one database file.  CSqliteDataBase opens the file, or   *)
(* creates it with its two tables, and reads the users into a cache.  The  *)
(* asio server and the SMTP process of socket-cpp do this at their start   *)
(* and then add the users they do not find; the POP3 process of socket-cpp *)
(* does it anew for each of its clients and adds nobody.  Two servers that *)
(* start meet here before one of them finds its port taken.                *)
(*                                                                         *)
(* A step is one statement of sqlite.  Any statement may fail, for the     *)
(* code sets no busy timeout and catches every exception; a process may be *)
(* killed between any two of them.                                         *)
(*                                                                         *)
(* A user is its name: a name comes with the same password everywhere.     *)
(* Mails are left to MailStore.  RemoveUser has no caller in a server.     *)
(***************************************************************************)
EXTENDS Sequences, Naturals

CONSTANTS
    Procs,       \* the processes
    Adders,      \* those whose start adds the test users
    TestUsers,   \* the names a start makes sure of, in order
    MaxRows      \* bound: rows of T_USER

ASSUME SqliteAssumption ==
    /\ Adders \subseteq Procs
    /\ TestUsers \in Seq(STRING)
    /\ MaxRows \in Nat

VARIABLES
    exists,        \* the database file is there
    tables,        \* the tables in it
    T_USER,        \* the names in the user table, in order of ID
    step,          \* what a process is about to do
    g_db,          \* the process has a connection
    uncommitted,   \* the tables its open transaction has created
    m_userArray,   \* its cache of T_USER
    adding,        \* the index of the test user it looks at
    failed,        \* history: a statement failed since it last opened the file
    apart          \* history: adders never overlapped and none of their statements failed

file    == << exists, tables, T_USER >>
process == << step, g_db, uncommitted, m_userArray, adding, failed >>
vars    == << file, process, apart >>

Tables == {"T_USER", "T_EMAIL_SEND"}

\* The process is between the opening of the file and serving.
Starting(p) == step[p] \notin {"off", "serve"}

----------------------------------------------------------------------------
GoTo(p, next) == step' = [step EXCEPT ![p] = next]

\* A statement that throws: the exception ends the block it is in.
Fails(p) ==
    /\ failed' = [failed EXCEPT ![p] = TRUE]
    /\ apart' = (apart /\ p \notin Adders)

Works == UNCHANGED << failed, apart >>

\* sqlite lets one connection write at a time and refuses the others.
MayWrite(p) == \A q \in Procs \ {p} : uncommitted[q] = {}

\* Deviation: the test users are counted from zero.
OpensFromZero(p) ==
    /\ GoTo(p, "open")
    /\ m_userArray' = [m_userArray EXCEPT ![p] = << >>]
    /\ adding' = [adding EXCEPT ![p] = 0]
    /\ failed' = [failed EXCEPT ![p] = FALSE]

\* A database object is made: its cache is empty, and no test user looked for.
Opens(p) ==
    /\ GoTo(p, "open")
    /\ m_userArray' = [m_userArray EXCEPT ![p] = << >>]
    /\ adding' = [adding EXCEPT ![p] = 1]
    /\ failed' = [failed EXCEPT ![p] = FALSE]

\* A process is started.
Run(p) ==
    /\ step[p] = "off"
    /\ Opens(p)
    /\ apart' = (apart /\ (p \in Adders => \A q \in Adders : ~Starting(q)))
    /\ UNCHANGED << file, g_db, uncommitted >>

\* The POP3 process has another client: it makes another database object, and
\* the connection of the last one is replaced when this one opens the file.
NextClient(p) ==
    /\ p \notin Adders
    /\ step[p] = "serve"
    /\ Opens(p)
    /\ UNCHANGED << file, g_db, uncommitted, apart >>

\* Deviation: a file without tables is given them.
OpenReadWriteRepairs(p) ==
    /\ step[p] = "open"
    /\ g_db' = [g_db EXCEPT ![p] = exists]
    /\ GoTo(p, IF ~exists THEN "create" ELSE IF tables = {} THEN "createUser" ELSE "load")
    /\ Works
    /\ UNCHANGED << file, uncommitted, m_userArray, adding >>

\* A file that is there is opened as it is, with or without tables.  If it is not
\* there, or cannot be opened, a process without a connection goes on to create
\* it; one that has the connection of its last client keeps that.
OpenReadWrite(p) ==
    /\ step[p] = "open"
    /\ \/ /\ exists
          /\ g_db' = [g_db EXCEPT ![p] = TRUE]
          /\ GoTo(p, "load")
          /\ Works
       \/ /\ GoTo(p, IF g_db[p] THEN "load" ELSE "create")
          /\ IF exists THEN Fails(p) ELSE Works
          /\ UNCHANGED g_db
    /\ UNCHANGED << file, uncommitted, m_userArray, adding >>

\* The file is opened, or created without tables yet; without it there is no
\* connection.
OpenCreate(p) ==
    /\ step[p] = "create"
    /\ \/ /\ exists' = TRUE
          /\ g_db' = [g_db EXCEPT ![p] = TRUE]
          /\ GoTo(p, "createUser")
          /\ Works
       \/ /\ GoTo(p, "load")
          /\ Fails(p)
          /\ UNCHANGED << exists, g_db >>
    /\ UNCHANGED << tables, T_USER, uncommitted, m_userArray, adding >>

\* A transaction that throws is rolled back by its destructor.
RollBack(p) ==
    /\ uncommitted' = [uncommitted EXCEPT ![p] = {}]
    /\ GoTo(p, "load")
    /\ Fails(p)

\* Deviation: each table is created outside of a transaction.
CreateTableAtOnce(p, table, at, next) ==
    /\ step[p] = at
    /\ \/ /\ table \notin tables /\ MayWrite(p)
          /\ tables' = tables \cup {table}
          /\ GoTo(p, next)
          /\ UNCHANGED uncommitted
          /\ Works
       \/ RollBack(p) /\ UNCHANGED tables
    /\ UNCHANGED << exists, T_USER, g_db, m_userArray, adding >>

\* One table is created in the transaction of the process.
CreateTable(p, table, at, next) ==
    /\ step[p] = at
    /\ \/ /\ table \notin tables /\ MayWrite(p)
          /\ uncommitted' = [uncommitted EXCEPT ![p] = @ \cup {table}]
          /\ GoTo(p, next)
          /\ Works
       \/ RollBack(p)
    /\ UNCHANGED << file, g_db, m_userArray, adding >>

Commit(p) ==
    /\ step[p] = "commit"
    /\ \/ /\ tables' = tables \cup uncommitted[p]
          /\ uncommitted' = [uncommitted EXCEPT ![p] = {}]
          /\ GoTo(p, "load")
          /\ Works
       \/ RollBack(p) /\ UNCHANGED tables
    /\ UNCHANGED << exists, T_USER, g_db, m_userArray, adding >>

----------------------------------------------------------------------------
\* Deviation: the cache is not cleared before it is read.
ReadUsersInto(p, cached) == m_userArray' = [m_userArray EXCEPT ![p] = @ \o cached]

ReadUsers(p, cached) == m_userArray' = [m_userArray EXCEPT ![p] = cached]

\* InitUserArrayFromDB: the query returns all rows, or stops at any of them; it
\* returns none without a connection or a table.
InitUserArrayFromDB(p) ==
    /\ step[p] = "load"
    /\ \/ /\ g_db[p] /\ "T_USER" \in tables
          /\ ReadUsers(p, T_USER)
          /\ Works
       \/ \E n \in 0 .. Len(T_USER) :
             /\ ~g_db[p] \/ "T_USER" \notin tables => n = 0
             /\ ReadUsers(p, SubSeq(T_USER, 1, n))
             /\ Fails(p)
    /\ GoTo(p, "add")
    /\ UNCHANGED << file, g_db, uncommitted, adding >>

\* Deviation: a user is added whether it is known or not.
IsUserExistNever(p, name) == FALSE

IsUserExist(p, name) == \E i \in DOMAIN m_userArray[p] : m_userArray[p][i] = name

\* Deviation: AddUser does not read the cache again.
AddUserBlindly(p) ==
    /\ \/ /\ g_db[p] /\ "T_USER" \in tables /\ MayWrite(p) /\ Len(T_USER) < MaxRows
          /\ T_USER' = Append(T_USER, TestUsers[adding[p]])
          /\ Works
       \/ UNCHANGED T_USER /\ Fails(p)
    /\ UNCHANGED step

\* AddUser: the row is inserted, or not, and the cache is read again.
AddUser(p) ==
    /\ \/ /\ g_db[p] /\ "T_USER" \in tables /\ MayWrite(p) /\ Len(T_USER) < MaxRows
          /\ T_USER' = Append(T_USER, TestUsers[adding[p]])
          /\ Works
       \/ UNCHANGED T_USER /\ Fails(p)
    /\ GoTo(p, "load")

\* The start makes sure of one more test user.
EnsureUser(p) ==
    /\ p \in Adders
    /\ step[p] = "add"
    /\ adding[p] <= Len(TestUsers)
    /\ \/ IsUserExist(p, TestUsers[adding[p]]) /\ Works /\ UNCHANGED << T_USER, step >>
       \/ ~IsUserExist(p, TestUsers[adding[p]]) /\ AddUser(p)
    /\ adding' = [adding EXCEPT ![p] = @ + 1]
    /\ UNCHANGED << exists, tables, g_db, uncommitted, m_userArray >>

\* The server serves, whatever failed before.
Serve(p) ==
    /\ step[p] = "add"
    /\ p \in Adders => adding[p] > Len(TestUsers)
    /\ GoTo(p, "serve")
    /\ Works
    /\ UNCHANGED << file, g_db, uncommitted, m_userArray, adding >>

\* The process ends anywhere; sqlite's journal undoes what it had not committed.
Kill(p) ==
    /\ step[p] # "off"
    /\ GoTo(p, "off")
    /\ g_db' = [g_db EXCEPT ![p] = FALSE]
    /\ uncommitted' = [uncommitted EXCEPT ![p] = {}]
    /\ UNCHANGED << file, m_userArray, adding, failed, apart >>

Init ==
    /\ exists = FALSE
    /\ tables = {}
    /\ T_USER = << >>
    /\ step = [p \in Procs |-> "off"]
    /\ g_db = [p \in Procs |-> FALSE]
    /\ uncommitted = [p \in Procs |-> {}]
    /\ m_userArray = [p \in Procs |-> << >>]
    /\ adding = [p \in Procs |-> 1]
    /\ failed = [p \in Procs |-> FALSE]
    /\ apart = TRUE

Next ==
    \E p \in Procs :
        \/ Run(p) \/ NextClient(p)
        \/ OpenReadWrite(p) \/ OpenCreate(p)
        \/ CreateTable(p, "T_USER", "createUser", "createEmail")
        \/ CreateTable(p, "T_EMAIL_SEND", "createEmail", "commit")
        \/ Commit(p)
        \/ InitUserArrayFromDB(p) \/ EnsureUser(p) \/ Serve(p)
        \/ Kill(p)

Spec == Init /\ [][Next]_vars

----------------------------------------------------------------------------
NoCreator ==
    \A p \in Procs : step[p] \notin {"create", "createUser", "createEmail", "commit"}

Names == {TestUsers[i] : i \in DOMAIN TestUsers}

TypeOK ==
    /\ exists \in BOOLEAN
    /\ tables \subseteq Tables
    /\ T_USER \in Seq(Names)
    /\ step \in [Procs -> {"off", "open", "create", "createUser", "createEmail",
                           "commit", "load", "add", "serve"}]
    /\ g_db \in [Procs -> BOOLEAN]
    /\ uncommitted \in [Procs -> SUBSET Tables]
    /\ m_userArray \in [Procs -> Seq(Names)]
    /\ adding \in [Procs -> 1 .. Len(TestUsers) + 1]
    /\ failed \in [Procs -> BOOLEAN]
    /\ apart \in BOOLEAN

\* The file has both tables or neither, wherever a creator fails or is killed
\* and whoever else creates them (the transaction of CSqliteDataBase).
TablesTogether == tables \in {{}, Tables}

\* What a process takes for the users is a beginning of the table, in its order
\* and without repetitions, however often it reads and others add
\* (InitUserArrayFromDB, AddUser).
CacheIsPrefix ==
    \A p \in Procs :
        /\ Len(m_userArray[p]) <= Len(T_USER)
        /\ \A i \in 1 .. Len(m_userArray[p]) : m_userArray[p][i] = T_USER[i]

\* A server none of whose statements failed lets every test user in, whoever
\* added it (CEmailServer::Start, IsUserExist, AddUser).
ServersKnowUsers ==
    \A p \in Adders :
        step[p] = "serve" /\ ~failed[p] =>
            \A name \in Names : IsUserExist(p, name)

\* T_USER names nobody twice, through any number of starts and ends, unless two
\* starts that add overlapped or a statement of one failed; what the POP3
\* process does never leads to it (IsUserExist, AddUser).
UsersAddedOnce ==
    apart => \A i, j \in DOMAIN T_USER : T_USER[i] = T_USER[j] => i = j

\* No table is created, nor about to be, but by a process that failed to open
\* the file there is.
LeftEmpty ==
    /\ tables' = {}
    /\ \A p \in Procs :
          /\ step'[p] \notin {"createUser", "createEmail", "commit"}
          /\ step'[p] = "create" => failed'[p]

\* A file whose creator failed or was killed before its commit stays without
\* tables, however many processes start later: the only one that comes to create
\* them is one that failed to open the file (the two ways of opening).
EmptyFileStaysEmpty == [][exists /\ tables = {} /\ NoCreator => LeftEmpty]_vars

=============================================================================
