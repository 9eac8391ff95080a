----------------------- MODULE SqliteDataBase_proofs -----------------------
(***************************************************************************)
(* The invariants of SqliteDataBase, for any processes, test users and     *)
(* bound.  Each is proved from the ones before it:                         *)
(*   TypeOK            what every variable is;                             *)
(*   CreatesInOrder    what a transaction has created, by the step it is   *)
(*                     at, so that a commit brings both tables or nothing; *)
(*   CacheIsPrefix     inductive because T_USER is only appended to;       *)
(*   Known             what a start without failures knows, by its step;   *)
(*   AddedApart        what holds as long as starts do not overlap.        *)
(***************************************************************************)
EXTENDS SqliteDataBase, SequenceTheorems, TLAPS

\* A test user is one of the names.
LEMMA TestUserIsName ==
    /\ Len(TestUsers) \in Nat
    /\ \A i \in 1 .. Len(TestUsers) : TestUsers[i] \in Names
    /\ \A name \in Names : \E i \in 1 .. Len(TestUsers) : TestUsers[i] = name
BY SqliteAssumption DEF Names

\* A beginning of the user table is a list of names, and equals it as far as it goes.
LEMMA BeginningOfUsers ==
    ASSUME T_USER \in Seq(Names), NEW n \in 0 .. Len(T_USER)
    PROVE  /\ SubSeq(T_USER, 1, n) \in Seq(Names)
           /\ Len(SubSeq(T_USER, 1, n)) = n
           /\ \A i \in 1 .. n : SubSeq(T_USER, 1, n)[i] = T_USER[i]
<1>1. \A i \in 1 .. n : T_USER[i] \in Names
  OBVIOUS
<1>2. 1 \in Int /\ n \in Int /\ n - 1 + 1 = n
  OBVIOUS
<1> HIDE DEF Names
<1>3. /\ SubSeq(T_USER, 1, n) \in Seq(Names)
      /\ Len(SubSeq(T_USER, 1, n)) = IF 1 <= n THEN n - 1 + 1 ELSE 0
      /\ \A i \in 1 .. n - 1 + 1 : SubSeq(T_USER, 1, n)[i] = T_USER[1 + i - 1]
  BY <1>1, <1>2, SubSeqProperties
<1> QED
  BY <1>3

----------------------------------------------------------------------------
\* No process has been started.
LEMMA InitTypeOK == Init => TypeOK
<1>1. 1 \in 1 .. Len(TestUsers) + 1
  BY TestUserIsName
<1>2. << >> \in Seq(Names)
  OBVIOUS
<1> QED
  BY <1>1, <1>2 DEF Init, TypeOK

\* Every statement is typed: the rows are names, because the test users are.
LEMMA NextTypeOK == TypeOK /\ [Next]_vars => TypeOK'
<1> SUFFICES ASSUME TypeOK, [Next]_vars PROVE TypeOK'
  OBVIOUS
<1> USE DEF file, process, GoTo, Works, Fails, RollBack
<1>1. ASSUME NEW p \in Procs, Run(p) \/ NextClient(p)
      PROVE  TypeOK'
  <2>1. 1 \in 1 .. Len(TestUsers) + 1
    BY TestUserIsName
  <2>2. << >> \in Seq(Names)
    OBVIOUS
  <2>3. /\ step' = [step EXCEPT ![p] = "open"]
        /\ m_userArray' = [m_userArray EXCEPT ![p] = << >>]
        /\ adding' = [adding EXCEPT ![p] = 1]
        /\ failed' = [failed EXCEPT ![p] = FALSE]
        /\ UNCHANGED << file, g_db, uncommitted >>
    BY <1>1 DEF Run, NextClient, Opens
  <2>4. apart' \in BOOLEAN
    BY <1>1 DEF Run, NextClient, TypeOK
  <2> QED
    BY <2>1, <2>2, <2>3, <2>4 DEF TypeOK
<1>2. ASSUME NEW p \in Procs, OpenReadWrite(p) \/ OpenCreate(p)
      PROVE  TypeOK'
  BY <1>2 DEF OpenReadWrite, OpenCreate, TypeOK
<1>3. ASSUME NEW p \in Procs, CreateTable(p, "T_USER", "createUser", "createEmail")
      PROVE  TypeOK'
  <2>1. uncommitted[p] \cup {"T_USER"} \in SUBSET Tables
    BY DEF TypeOK, Tables
  <2> QED
    BY <1>3, <2>1 DEF CreateTable, TypeOK
<1>4. ASSUME NEW p \in Procs, CreateTable(p, "T_EMAIL_SEND", "createEmail", "commit")
      PROVE  TypeOK'
  <2>1. uncommitted[p] \cup {"T_EMAIL_SEND"} \in SUBSET Tables
    BY DEF TypeOK, Tables
  <2> QED
    BY <1>4, <2>1 DEF CreateTable, TypeOK
<1>5. ASSUME NEW p \in Procs, Commit(p)
      PROVE  TypeOK'
  BY <1>5 DEF Commit, TypeOK
<1>6. ASSUME NEW p \in Procs, InitUserArrayFromDB(p)
      PROVE  TypeOK'
  <2>1. PICK cached \in Seq(Names) : m_userArray' = [m_userArray EXCEPT ![p] = cached]
    BY <1>6, BeginningOfUsers DEF InitUserArrayFromDB, ReadUsers, TypeOK
  <2>2. m_userArray' \in [Procs -> Seq(Names)]
    BY <2>1 DEF TypeOK
  <2>3. /\ failed' \in [Procs -> BOOLEAN] /\ apart' \in BOOLEAN
        /\ step' = [step EXCEPT ![p] = "add"]
    BY <1>6 DEF InitUserArrayFromDB, TypeOK
  <2> QED
    BY <1>6, <2>2, <2>3 DEF InitUserArrayFromDB, TypeOK
<1>7. ASSUME NEW p \in Procs, EnsureUser(p)
      PROVE  TypeOK'
  <2>1. adding[p] \in 1 .. Len(TestUsers) /\ adding' = [adding EXCEPT ![p] = @ + 1]
    BY <1>7, TestUserIsName DEF EnsureUser, TypeOK
  <2>2. adding' \in [Procs -> 1 .. Len(TestUsers) + 1]
    BY <2>1, TestUserIsName DEF TypeOK
  <2>3. TestUsers[adding[p]] \in Names
    BY <2>1, TestUserIsName
  <2>4. T_USER' = T_USER \/ T_USER' = Append(T_USER, TestUsers[adding[p]])
    BY <1>7 DEF EnsureUser, AddUser
  <2>5. T_USER' \in Seq(Names)
    <3>1. T_USER \in Seq(Names)
      BY DEF TypeOK
    <3>2. Append(T_USER, TestUsers[adding[p]]) \in Seq(Names)
      BY <2>3, <3>1, AppendProperties
    <3> QED
      BY <2>4, <3>1, <3>2
  <2>6. /\ failed' \in [Procs -> BOOLEAN] /\ apart' \in BOOLEAN
        /\ step' = step \/ step' = [step EXCEPT ![p] = "load"]
    BY <1>7 DEF EnsureUser, AddUser, TypeOK
  <2> QED
    BY <1>7, <2>2, <2>5, <2>6 DEF EnsureUser, TypeOK
<1>8. ASSUME NEW p \in Procs, Serve(p) \/ Kill(p)
      PROVE  TypeOK'
  BY <1>8 DEF Serve, Kill, TypeOK
<1>9. CASE UNCHANGED vars
  BY <1>9 DEF vars, TypeOK
<1> QED
  BY <1>1, <1>2, <1>3, <1>4, <1>5, <1>6, <1>7, <1>8, <1>9 DEF Next

\* The database and its processes are typed (CSqliteDataBase, CEmailServer::Start).
THEOREM TypeCorrect == Spec => []TypeOK
<1>1. Init => TypeOK
  BY InitTypeOK
<1>2. TypeOK /\ [Next]_vars => TypeOK'
  BY NextTypeOK
<1> QED
  BY <1>1, <1>2, PTL DEF Spec

----------------------------------------------------------------------------
\* What the transaction of a process has created, by the step it is at.
CreatesInOrder ==
    \A p \in Procs :
        /\ step[p] = "createEmail" => uncommitted[p] = {"T_USER"}
        /\ step[p] = "commit" => uncommitted[p] = Tables
        /\ step[p] \notin {"createEmail", "commit"} => uncommitted[p] = {}

\* Nothing but a commit changes the tables, and it adds both.
LEMMA NextTables ==
    TypeOK /\ TablesTogether /\ CreatesInOrder /\ [Next]_vars
        => TablesTogether' /\ CreatesInOrder'
<1> SUFFICES ASSUME TypeOK, TablesTogether, CreatesInOrder, [Next]_vars
             PROVE  TablesTogether' /\ CreatesInOrder'
  OBVIOUS
<1> USE DEF TypeOK, TablesTogether, CreatesInOrder, Tables, file, process, GoTo, RollBack
<1>1. ASSUME NEW p \in Procs, Run(p) \/ NextClient(p) \/ OpenReadWrite(p) \/ OpenCreate(p)
      PROVE  TablesTogether' /\ CreatesInOrder'
  BY <1>1 DEF Run, NextClient, Opens, OpenReadWrite, OpenCreate
<1>2. ASSUME NEW p \in Procs, CreateTable(p, "T_USER", "createUser", "createEmail")
      PROVE  TablesTogether' /\ CreatesInOrder'
  <2>1. TablesTogether'
    BY <1>2 DEF CreateTable
  <2>2. \/ uncommitted' = [uncommitted EXCEPT ![p] = {"T_USER"}] /\ step' = [step EXCEPT ![p] = "createEmail"]
        \/ uncommitted' = [uncommitted EXCEPT ![p] = {}] /\ step' = [step EXCEPT ![p] = "load"]
    <3>1. uncommitted[p] \cup {"T_USER"} = {"T_USER"}
      BY <1>2 DEF CreateTable
    <3> QED
      BY <1>2, <3>1 DEF CreateTable
  <2>3. CreatesInOrder'
    BY ZenonT(60), <2>2
  <2> QED
    BY <2>1, <2>3
<1>3. ASSUME NEW p \in Procs, CreateTable(p, "T_EMAIL_SEND", "createEmail", "commit")
      PROVE  TablesTogether' /\ CreatesInOrder'
  <2>1. TablesTogether'
    BY <1>3 DEF CreateTable
  <2>2. \/ uncommitted' = [uncommitted EXCEPT ![p] = Tables] /\ step' = [step EXCEPT ![p] = "commit"]
        \/ uncommitted' = [uncommitted EXCEPT ![p] = {}] /\ step' = [step EXCEPT ![p] = "load"]
    <3>1. uncommitted[p] \cup {"T_EMAIL_SEND"} = Tables
      BY <1>3 DEF CreateTable
    <3> QED
      BY <1>3, <3>1 DEF CreateTable
  <2>3. CreatesInOrder'
    BY ZenonT(60), <2>2
  <2> QED
    BY <2>1, <2>3
<1>4. ASSUME NEW p \in Procs, Commit(p)
      PROVE  TablesTogether' /\ CreatesInOrder'
  BY ZenonT(60), <1>4 DEF Commit
<1>5. ASSUME NEW p \in Procs, InitUserArrayFromDB(p)
      PROVE  TablesTogether' /\ CreatesInOrder'
  BY <1>5 DEF InitUserArrayFromDB
<1>6. ASSUME NEW p \in Procs, EnsureUser(p)
      PROVE  TablesTogether' /\ CreatesInOrder'
  BY <1>6 DEF EnsureUser, AddUser
<1>7. ASSUME NEW p \in Procs, Serve(p) \/ Kill(p)
      PROVE  TablesTogether' /\ CreatesInOrder'
  BY ZenonT(60), <1>7 DEF Serve, Kill
<1>8. CASE UNCHANGED vars
  BY <1>8 DEF vars
<1> QED
  BY <1>1, <1>2, <1>3, <1>4, <1>5, <1>6, <1>7, <1>8 DEF Next

\* The file has both tables or none, wherever its creators fail or are killed
\* (the transaction of the constructor of CSqliteDataBase).
THEOREM TablesCorrect == Spec => []TablesTogether
<1>1. Init => TablesTogether /\ CreatesInOrder
  BY DEF Init, TablesTogether, CreatesInOrder
<1>2. TypeOK /\ TablesTogether /\ CreatesInOrder /\ [Next]_vars
         => TablesTogether' /\ CreatesInOrder'
  BY NextTables
<1> QED
  BY <1>1, <1>2, TypeCorrect, PTL DEF Spec

----------------------------------------------------------------------------
\* T_USER is only appended to, by a user who is not in the adder's cache.
LEMMA UsersOnlyAppended ==
    ASSUME TypeOK, [Next]_vars
    PROVE  /\ Len(T_USER) \in Nat /\ Len(T_USER') \in Nat
           /\ Len(T_USER) <= Len(T_USER')
           /\ \A i \in 1 .. Len(T_USER) : T_USER'[i] = T_USER[i]
<1>0. T_USER \in Seq(Names) /\ T_USER' \in Seq(Names)
  BY NextTypeOK DEF TypeOK
<1>1. CASE T_USER' = T_USER
  BY <1>0, <1>1
<1>2. ASSUME NEW p \in Procs, EnsureUser(p), T_USER' = Append(T_USER, TestUsers[adding[p]])
      PROVE  /\ Len(T_USER) <= Len(T_USER')
             /\ \A i \in 1 .. Len(T_USER) : T_USER'[i] = T_USER[i]
  <2>1. TestUsers[adding[p]] \in Names
    BY <1>2, TestUserIsName DEF EnsureUser, TypeOK
  <2>2. /\ Len(T_USER') = Len(T_USER) + 1
        /\ \A i \in 1 .. Len(T_USER) : T_USER'[i] = T_USER[i]
    BY <1>0, <1>2, <2>1, AppendProperties
  <2> QED
    BY <1>0, <2>2
<1>3. T_USER' = T_USER \/ \E p \in Procs : EnsureUser(p) /\ T_USER' = Append(T_USER, TestUsers[adding[p]])
  BY DEF Next, vars, file, Run, NextClient, OpenReadWrite, OpenCreate, CreateTable, Commit,
         InitUserArrayFromDB, EnsureUser, AddUser, Serve, Kill
<1> QED
  BY <1>0, <1>1, <1>2, <1>3

\* A cache is replaced by a beginning of the table or stays as it is.
LEMMA NextCacheIsPrefix == TypeOK /\ CacheIsPrefix /\ [Next]_vars => CacheIsPrefix'
<1> SUFFICES ASSUME TypeOK, CacheIsPrefix, [Next]_vars, NEW q \in Procs
             PROVE  /\ Len(m_userArray'[q]) <= Len(T_USER')
                    /\ \A i \in 1 .. Len(m_userArray'[q]) : m_userArray'[q][i] = T_USER'[i]
  BY DEF CacheIsPrefix
<1>0. /\ T_USER \in Seq(Names) /\ m_userArray[q] \in Seq(Names)
      /\ m_userArray \in [Procs -> Seq(Names)]
  BY DEF TypeOK
<1>1. CASE m_userArray'[q] = m_userArray[q]
  BY <1>0, <1>1, UsersOnlyAppended DEF CacheIsPrefix
<1>2. ASSUME NEW n \in 0 .. Len(T_USER), m_userArray'[q] = SubSeq(T_USER, 1, n)
      PROVE  /\ Len(m_userArray'[q]) <= Len(T_USER')
             /\ \A i \in 1 .. Len(m_userArray'[q]) : m_userArray'[q][i] = T_USER'[i]
  <2>1. /\ Len(m_userArray'[q]) = n
        /\ \A i \in 1 .. n : m_userArray'[q][i] = T_USER[i]
    BY <1>0, <1>2, BeginningOfUsers
  <2> QED
    BY <1>0, <2>1, UsersOnlyAppended
<1>3. CASE m_userArray'[q] = T_USER
  BY <1>0, <1>3, UsersOnlyAppended
<1>4. CASE m_userArray'[q] = << >>
  BY <1>0, <1>4, UsersOnlyAppended
<1>5. \/ m_userArray'[q] = m_userArray[q]
      \/ \E n \in 0 .. Len(T_USER) : m_userArray'[q] = SubSeq(T_USER, 1, n)
      \/ m_userArray'[q] = T_USER
      \/ m_userArray'[q] = << >>
  BY <1>0 DEF Next, vars, process, Run, NextClient, Opens, OpenReadWrite, OpenCreate,
         CreateTable, Commit, InitUserArrayFromDB, ReadUsers, EnsureUser, Serve, Kill
<1> QED
  BY <1>1, <1>2, <1>3, <1>4, <1>5

\* What a process takes for the users is a beginning of the table
\* (InitUserArrayFromDB, AddUser).
THEOREM CacheCorrect == Spec => []CacheIsPrefix
<1>1. Init => CacheIsPrefix
  <2> SUFFICES ASSUME Init, NEW p \in Procs
               PROVE  /\ Len(m_userArray[p]) <= Len(T_USER)
                      /\ \A i \in 1 .. Len(m_userArray[p]) : m_userArray[p][i] = T_USER[i]
    BY DEF CacheIsPrefix
  <2>1. m_userArray[p] = << >> /\ T_USER = << >>
    BY DEF Init
  <2>2. Len(<< >>) = 0
    OBVIOUS
  <2> QED
    BY <2>1, <2>2
<1>2. TypeOK /\ CacheIsPrefix /\ [Next]_vars => CacheIsPrefix'
  BY NextCacheIsPrefix
<1> QED
  BY <1>1, <1>2, TypeCorrect, PTL DEF Spec

----------------------------------------------------------------------------
\* Somebody has added a user.
Added(name) == \E k \in 1 .. Len(T_USER) : T_USER[k] = name

\* What a start without failures has made sure of, by the step it is at: when it
\* is about to read again, the users it has looked at are in the table, and once
\* it has read, they are in its cache.
KnownBy(p) ==
    ~failed[p] =>
        /\ step[p] \notin {"off", "load", "add", "serve"} => adding[p] = 1
        /\ step[p] = "load" => \A i \in 1 .. adding[p] - 1 : Added(TestUsers[i])
        /\ step[p] \in {"add", "serve"} =>
              \A i \in 1 .. adding[p] - 1 : IsUserExist(p, TestUsers[i])
        /\ step[p] = "serve" /\ p \in Adders => adding[p] = Len(TestUsers) + 1

Known == \A p \in Procs : KnownBy(p)

\* As long as adders do not overlap and nothing of theirs fails, nobody is twice
\* in the table and the only adder that starts has read all of it.
AddedApart ==
    apart =>
        /\ UsersAddedOnce
        /\ \A p, q \in Adders : Starting(p) /\ Starting(q) => p = q
        /\ \A p \in Adders : step[p] = "add" => m_userArray[p] = T_USER

\* A user who was added stays in the table.
LEMMA AddedStays ==
    ASSUME TypeOK, [Next]_vars, NEW name, Added(name)
    PROVE  Added(name)'
<1>1. PICK k \in 1 .. Len(T_USER) : T_USER[k] = name
  BY DEF Added
<1>2. k \in 1 .. Len(T_USER') /\ T_USER'[k] = name
  BY <1>1, UsersOnlyAppended
<1> QED
  BY <1>2 DEF Added

\* Whom a process finds in its cache is in the table.
LEMMA CachedIsAdded ==
    ASSUME TypeOK, CacheIsPrefix, NEW p \in Procs, NEW name, IsUserExist(p, name)
    PROVE  Added(name)
<1>1. m_userArray[p] \in Seq(Names) /\ T_USER \in Seq(Names)
  BY DEF TypeOK
<1>2. PICK k \in 1 .. Len(m_userArray[p]) : m_userArray[p][k] = name
  BY <1>1 DEF IsUserExist
<1>3. k \in 1 .. Len(T_USER) /\ T_USER[k] = name
  BY <1>1, <1>2 DEF CacheIsPrefix
<1> QED
  BY <1>3 DEF Added

\* A step of another process takes nothing from what a start has made sure of.
LEMMA OthersKeepKnown ==
    ASSUME TypeOK, [Next]_vars, NEW q \in Procs, KnownBy(q),
           failed'[q] = failed[q], step'[q] = step[q], adding'[q] = adding[q],
           m_userArray'[q] = m_userArray[q]
    PROVE  KnownBy(q)'
<1>1. ASSUME NEW i, Added(TestUsers[i])
      PROVE  Added(TestUsers[i])'
  BY <1>1, AddedStays
<1>2. ASSUME NEW i, IsUserExist(q, TestUsers[i])
      PROVE  IsUserExist(q, TestUsers[i])'
  BY <1>2 DEF IsUserExist
<1> QED
  BY <1>1, <1>2 DEF KnownBy

\* One step per action: reading and adding are what turns one part of KnownBy
\* into another.
LEMMA NextKnown == TypeOK /\ CacheIsPrefix /\ Known /\ [Next]_vars => Known'
<1> SUFFICES ASSUME TypeOK, CacheIsPrefix, Known, [Next]_vars, NEW q \in Procs
             PROVE  KnownBy(q)'
  BY DEF Known
<1>0. KnownBy(q)
  BY DEF Known
<1>1. CASE UNCHANGED << failed, step, adding, m_userArray >>
  BY <1>0, <1>1, OthersKeepKnown
<1>2. ASSUME NEW p \in Procs, p # q,
             Run(p) \/ NextClient(p) \/ OpenReadWrite(p) \/ OpenCreate(p) \/ Commit(p)
             \/ InitUserArrayFromDB(p) \/ EnsureUser(p) \/ Serve(p) \/ Kill(p)
             \/ CreateTable(p, "T_USER", "createUser", "createEmail")
             \/ CreateTable(p, "T_EMAIL_SEND", "createEmail", "commit")
      PROVE  KnownBy(q)'
  <2>1. /\ failed'[q] = failed[q] /\ step'[q] = step[q]
        /\ adding'[q] = adding[q] /\ m_userArray'[q] = m_userArray[q]
    BY <1>2 DEF Run, NextClient, Opens, OpenReadWrite, OpenCreate, CreateTable, Commit, InitUserArrayFromDB,
           ReadUsers, EnsureUser, AddUser, Serve, Kill, RollBack, GoTo, Fails, Works, TypeOK
  <2> QED
    BY <1>0, <2>1, OthersKeepKnown
<1>3. CASE Run(q) \/ NextClient(q)
  BY <1>3 DEF Run, NextClient, Opens, GoTo, KnownBy, TypeOK
<1>4. CASE OpenReadWrite(q) \/ OpenCreate(q) \/ Commit(q)
           \/ CreateTable(q, "T_USER", "createUser", "createEmail")
           \/ CreateTable(q, "T_EMAIL_SEND", "createEmail", "commit")
  <2>1. \/ failed'[q]
        \/ /\ adding[q] = 1 /\ adding'[q] = 1
           /\ step'[q] \notin {"add", "serve"}
    BY <1>0, <1>4 DEF OpenReadWrite, OpenCreate, CreateTable, Commit, RollBack, GoTo,
           Fails, Works, KnownBy, TypeOK
  <2> QED
    BY <2>1 DEF KnownBy
<1>5. CASE InitUserArrayFromDB(q)
  <2>1. CASE failed'[q]
    BY <2>1 DEF KnownBy
  <2>2. CASE ~failed'[q]
    <3>1. /\ m_userArray'[q] = T_USER /\ failed[q] = FALSE /\ adding'[q] = adding[q]
          /\ step[q] = "load" /\ step'[q] = "add"
      BY <1>5, <2>2 DEF InitUserArrayFromDB, ReadUsers, Fails, Works, GoTo, TypeOK
    <3>2. \A i \in 1 .. adding[q] - 1 : Added(TestUsers[i])
      BY <1>0, <3>1 DEF KnownBy
    <3>3. DOMAIN T_USER = 1 .. Len(T_USER)
      BY DEF TypeOK
    <3>4. \A i \in 1 .. adding'[q] - 1 : IsUserExist(q, TestUsers[i])'
      BY <3>1, <3>2, <3>3 DEF Added, IsUserExist
    <3> QED
      BY <3>1, <3>4 DEF KnownBy
  <2> QED
    BY <2>1, <2>2
<1>6. CASE EnsureUser(q)
  <2>1. CASE failed'[q]
    BY <2>1 DEF KnownBy
  <2>2. CASE ~failed'[q]
    <3>1. /\ ~failed[q] /\ step[q] = "add" /\ adding[q] \in Nat
          /\ adding'[q] = adding[q] + 1 /\ m_userArray'[q] = m_userArray[q]
      BY <1>6, <2>2, TestUserIsName DEF EnsureUser, AddUser, Fails, Works, TypeOK
    <3>2. \A i \in 1 .. adding[q] - 1 : IsUserExist(q, TestUsers[i])
      BY <1>0, <3>1 DEF KnownBy
    <3>0. PICK a \in Nat : a = adding[q]
      BY <3>1
    <3>3. CASE IsUserExist(q, TestUsers[a]) /\ step' = step
      <4>1. \A i \in 1 .. adding'[q] - 1 : IsUserExist(q, TestUsers[i])
        BY <3>0, <3>1, <3>2, <3>3
      <4>2. \A i \in 1 .. adding'[q] - 1 : IsUserExist(q, TestUsers[i])'
        BY <3>1, <4>1 DEF IsUserExist
      <4> QED
        BY <3>1, <3>3, <4>2 DEF KnownBy
    <3>4. CASE /\ T_USER' = Append(T_USER, TestUsers[a])
               /\ step' = [step EXCEPT ![q] = "load"]
      <4>1. ASSUME NEW i \in 1 .. a - 1
            PROVE  Added(TestUsers[i])'
        BY <3>0, <3>2, CachedIsAdded, AddedStays
      <4>2. Added(TestUsers[a])'
        <5>1. T_USER \in Seq(Names) /\ TestUsers[a] \in Names
          BY <1>6, <3>0, TestUserIsName DEF EnsureUser, TypeOK
        <5>2. /\ Len(T_USER') = Len(T_USER) + 1
              /\ T_USER'[Len(T_USER) + 1] = TestUsers[a]
          BY <3>4, <5>1, AppendProperties
        <5>3. Len(T_USER) + 1 \in 1 .. Len(T_USER')
          BY <5>1, <5>2
        <5> QED
          BY <5>2, <5>3 DEF Added
      <4>3. \A i \in 1 .. adding'[q] - 1 : Added(TestUsers[i])'
        BY <3>0, <3>1, <4>1, <4>2
      <4>4. step'[q] = "load"
        BY <3>4 DEF TypeOK
      <4> QED
        BY <4>3, <4>4 DEF KnownBy
    <3> QED
      BY <1>6, <2>2, <3>0, <3>3, <3>4 DEF EnsureUser, AddUser, GoTo, Fails, TypeOK
  <2> QED
    BY <2>1, <2>2
<1>7. CASE Serve(q)
  <2>1. /\ failed'[q] = failed[q] /\ step[q] = "add" /\ step'[q] = "serve"
        /\ adding'[q] = adding[q] /\ m_userArray'[q] = m_userArray[q]
        /\ adding[q] \in 1 .. Len(TestUsers) + 1
        /\ q \in Adders => adding[q] > Len(TestUsers)
    BY <1>7 DEF Serve, Works, GoTo, TypeOK
  <2>2. q \in Adders => adding[q] = Len(TestUsers) + 1
    BY <2>1, TestUserIsName
  <2> QED
    BY <1>0, <2>1, <2>2 DEF KnownBy, IsUserExist
<1>8. CASE Kill(q)
  BY <1>8 DEF Kill, GoTo, KnownBy, TypeOK
<1>9. CASE UNCHANGED vars
  BY <1>1, <1>9 DEF vars, process
<1> QED
  BY <1>2, <1>3, <1>4, <1>5, <1>6, <1>7, <1>8, <1>9 DEF Next

\* A server none of whose statements failed lets every test user in, whoever
\* added it (CEmailServer::Start).
THEOREM ServersCorrect == Spec => []ServersKnowUsers
<1>1. Init => Known
  BY DEF Init, Known, KnownBy
<1>2. TypeOK /\ CacheIsPrefix /\ Known /\ [Next]_vars => Known'
  BY NextKnown
<1>3. Known => ServersKnowUsers
  <2> SUFFICES ASSUME Known, NEW p \in Adders, step[p] = "serve", ~failed[p], NEW name \in Names
               PROVE  IsUserExist(p, name)
    BY DEF ServersKnowUsers
  <2>1. PICK i \in 1 .. Len(TestUsers) : TestUsers[i] = name
    BY TestUserIsName
  <2>2. i \in 1 .. adding[p] - 1 /\ KnownBy(p)
    BY TestUserIsName, SqliteAssumption DEF Known, KnownBy
  <2> QED
    BY <2>1, <2>2 DEF KnownBy
<1> QED
  BY <1>1, <1>2, <1>3, TypeCorrect, CacheCorrect, PTL DEF Spec

----------------------------------------------------------------------------
\* Appending a name that is not there repeats none.
LEMMA AppendKeepsDistinct ==
    ASSUME NEW s \in Seq(Names), NEW name \in Names,
           \A i, j \in DOMAIN s : s[i] = s[j] => i = j,
           \A i \in DOMAIN s : s[i] # name
    PROVE  \A i, j \in DOMAIN Append(s, name) :
              Append(s, name)[i] = Append(s, name)[j] => i = j
<1>1. /\ Append(s, name) \in Seq(Names)
      /\ Len(Append(s, name)) = Len(s) + 1
      /\ \A i \in 1 .. Len(s) : Append(s, name)[i] = s[i]
      /\ Append(s, name)[Len(s) + 1] = name
  BY AppendProperties
<1>2. DOMAIN s = 1 .. Len(s) /\ DOMAIN Append(s, name) = 1 .. Len(s) + 1 /\ Len(s) \in Nat
  BY <1>1
<1>3. \A i \in 1 .. Len(s) + 1 : i \in 1 .. Len(s) \/ i = Len(s) + 1
  BY <1>2
<1> QED
  BY <1>1, <1>2, <1>3

\* While the table stays, only the steps of the processes matter.
LEMMA SameUsersApart ==
    ASSUME UsersAddedOnce, apart, T_USER' = T_USER,
           \A p, q \in Adders : Starting(p)' /\ Starting(q)' => p = q,
           \A p \in Adders : step'[p] = "add" => m_userArray'[p] = T_USER
    PROVE  AddedApart'
<1>1. UsersAddedOnce'
  BY DEF UsersAddedOnce
<1> QED
  BY <1>1 DEF AddedApart

\* One step per action.  A start that begins is alone, so what it reads stays
\* the whole table until it adds to it itself.
LEMMA NextAddedApart == TypeOK /\ AddedApart /\ [Next]_vars => AddedApart'
<1> SUFFICES ASSUME TypeOK, AddedApart, [Next]_vars, apart'
             PROVE  AddedApart'
  BY DEF AddedApart
<1> USE SqliteAssumption DEF GoTo, Works, Fails, RollBack
<1>1. apart
  BY DEF Next, vars, Run, NextClient, OpenReadWrite, OpenCreate, CreateTable, Commit,
         InitUserArrayFromDB, EnsureUser, AddUser, Serve, Kill
<1>2. /\ UsersAddedOnce
      /\ \A p, q \in Adders : Starting(p) /\ Starting(q) => p = q
      /\ \A p \in Adders : step[p] = "add" => m_userArray[p] = T_USER
  BY <1>1 DEF AddedApart
<1>3. ASSUME NEW p \in Procs, Run(p) \/ NextClient(p)
      PROVE  AddedApart'
  <2>1. /\ T_USER' = T_USER /\ step' = [step EXCEPT ![p] = "open"]
        /\ m_userArray' = [m_userArray EXCEPT ![p] = << >>]
        /\ p \in Adders => \A q \in Adders : ~Starting(q)
    BY <1>3 DEF Run, NextClient, Opens, file
  <2>2. \A q \in Adders : Starting(q)' => q = p \/ Starting(q)
    BY <2>1 DEF Starting, TypeOK
  <2>3. \A q, s \in Adders : Starting(q)' /\ Starting(s)' => q = s
    BY <1>2, <2>1, <2>2
  <2>4. \A q \in Adders : step'[q] = "add" => q # p
    BY <2>1 DEF TypeOK
  <2>5. \A q \in Adders : step'[q] = "add" => m_userArray'[q] = T_USER
    BY <1>2, <2>1, <2>4 DEF TypeOK
  <2> QED
    BY <1>1, <1>2, <2>1, <2>3, <2>5, SameUsersApart
<1>4. ASSUME NEW p \in Procs,
             OpenReadWrite(p) \/ OpenCreate(p) \/ Commit(p) \/ Serve(p) \/ Kill(p)
             \/ CreateTable(p, "T_USER", "createUser", "createEmail")
             \/ CreateTable(p, "T_EMAIL_SEND", "createEmail", "commit")
      PROVE  AddedApart'
  <2>1. T_USER' = T_USER /\ m_userArray' = m_userArray
    BY <1>4 DEF OpenReadWrite, OpenCreate, CreateTable, Commit, Serve, Kill, file
  <2>2. PICK next \in {"load", "create", "createUser", "createEmail", "commit", "serve", "off"} :
           step' = [step EXCEPT ![p] = next]
    BY <1>4 DEF OpenReadWrite, OpenCreate, CreateTable, Commit, Serve, Kill
  <2>3. Starting(p) \/ next = "off"
    BY <1>4, <2>2 DEF OpenReadWrite, OpenCreate, CreateTable, Commit, Serve, Kill, Starting, TypeOK
  <2>4. \A q, s \in Adders : Starting(q)' /\ Starting(s)' => q = s
    BY <1>2, <2>2, <2>3 DEF Starting, TypeOK
  <2>5. \A q \in Adders : step'[q] = "add" => m_userArray'[q] = T_USER
    BY <1>2, <2>1, <2>2 DEF TypeOK
  <2> QED
    BY <1>1, <1>2, <2>1, <2>4, <2>5, SameUsersApart
<1>5. ASSUME NEW p \in Procs, InitUserArrayFromDB(p)
      PROVE  AddedApart'
  <2>0. PICK cached : m_userArray' = [m_userArray EXCEPT ![p] = cached]
    BY <1>5 DEF InitUserArrayFromDB, ReadUsers
  <2>1. /\ T_USER' = T_USER
        /\ step[p] = "load" /\ step' = [step EXCEPT ![p] = "add"]
        /\ p \in Adders => m_userArray' = [m_userArray EXCEPT ![p] = T_USER]
    BY <1>5 DEF InitUserArrayFromDB, ReadUsers, file
  <2>2. \A q, s \in Adders : Starting(q)' /\ Starting(s)' => q = s
    BY <1>2, <2>1 DEF Starting, TypeOK
  <2>3. \A q \in Adders : step'[q] = "add" => m_userArray'[q] = T_USER
    BY <1>2, <2>0, <2>1 DEF TypeOK
  <2> QED
    BY <1>1, <1>2, <2>1, <2>2, <2>3, SameUsersApart
<1>6. ASSUME NEW p \in Procs, EnsureUser(p)
      PROVE  AddedApart'
  <2>1. /\ p \in Adders /\ step[p] = "add"
        /\ m_userArray' = m_userArray /\ m_userArray[p] = T_USER
    BY <1>2, <1>6 DEF EnsureUser
  <2>2. CASE T_USER' = T_USER /\ step' = step
    BY <1>1, <1>2, <2>1, <2>2, SameUsersApart DEF Starting
  <2>3. CASE /\ ~IsUserExist(p, TestUsers[adding[p]])
             /\ T_USER' = Append(T_USER, TestUsers[adding[p]])
             /\ step' = [step EXCEPT ![p] = "load"]
    <3>1. T_USER \in Seq(Names) /\ TestUsers[adding[p]] \in Names
      BY <1>6, TestUserIsName DEF EnsureUser, TypeOK
    <3>2. \A i \in DOMAIN T_USER : T_USER[i] # TestUsers[adding[p]]
      BY <2>1, <2>3 DEF IsUserExist
    <3>3. UsersAddedOnce'
      BY <1>1, <1>2, <2>3, <3>1, <3>2, AppendKeepsDistinct DEF UsersAddedOnce
    <3>4. \A q \in Adders : step'[q] # "add"
      BY <1>2, <2>1, <2>3 DEF Starting, TypeOK
    <3>5. \A q, r \in Adders : Starting(q)' /\ Starting(r)' => q = r
      BY <1>2, <2>1, <2>3 DEF Starting, TypeOK
    <3> QED
      BY <3>3, <3>4, <3>5 DEF AddedApart
  <2> QED
    BY <1>6, <2>2, <2>3 DEF EnsureUser, AddUser
<1>7. CASE UNCHANGED vars
  BY <1>2, <1>7 DEF AddedApart, UsersAddedOnce, Starting, vars, file, process
<1> QED
  BY <1>3, <1>4, <1>5, <1>6, <1>7 DEF Next

\* Nobody is twice in T_USER while adders do not overlap and none of their
\* statements fails (IsUserExist, AddUser).
THEOREM UsersCorrect == Spec => []UsersAddedOnce
<1>1. Init => AddedApart
  BY SqliteAssumption DEF Init, AddedApart, UsersAddedOnce, Starting
<1>2. TypeOK /\ AddedApart /\ [Next]_vars => AddedApart'
  BY NextAddedApart
<1>3. AddedApart => UsersAddedOnce
  BY DEF AddedApart, UsersAddedOnce
<1> QED
  BY <1>1, <1>2, <1>3, TypeCorrect, PTL DEF Spec

----------------------------------------------------------------------------
\* Who opens the file that is there goes on with it as it is, who fails to may
\* come to create it, and nobody is past the opening that could create a table.
LEMMA EmptyStaysEmpty ==
    ASSUME TypeOK, exists, tables = {}, NoCreator, Next
    PROVE  LeftEmpty
<1>0. step \in [Procs -> {"off", "open", "create", "createUser", "createEmail",
                           "commit", "load", "add", "serve"}]
  BY DEF TypeOK
<1>1. ASSUME NEW p \in Procs, NEW next \in {"off", "open", "load", "add", "serve"},
             tables' = tables, step' = step \/ step' = [step EXCEPT ![p] = next]
      PROVE  LeftEmpty
  BY <1>0, <1>1 DEF NoCreator, LeftEmpty
<1>2. PICK p \in Procs :
         \/ Run(p) \/ NextClient(p)
         \/ OpenReadWrite(p) \/ OpenCreate(p)
         \/ CreateTable(p, "T_USER", "createUser", "createEmail")
         \/ CreateTable(p, "T_EMAIL_SEND", "createEmail", "commit")
         \/ Commit(p)
         \/ InitUserArrayFromDB(p) \/ EnsureUser(p) \/ Serve(p)
         \/ Kill(p)
  BY DEF Next
<1>3. ~OpenCreate(p) /\ ~Commit(p)
  BY DEF NoCreator, OpenCreate, Commit
<1>4. /\ ~CreateTable(p, "T_USER", "createUser", "createEmail")
      /\ ~CreateTable(p, "T_EMAIL_SEND", "createEmail", "commit")
  BY DEF NoCreator, CreateTable
<1>5. CASE Run(p) \/ NextClient(p)
  <2>1. tables' = tables /\ step' = [step EXCEPT ![p] = "open"]
    BY <1>5 DEF Run, NextClient, Opens, GoTo, file
  <2> QED
    BY <1>1, <2>1
<1>6. CASE OpenReadWrite(p)
  <2>1. tables' = tables
    BY <1>6 DEF OpenReadWrite, file
  <2>2. CASE step' = [step EXCEPT ![p] = "load"]
    BY <1>1, <2>1, <2>2
  <2>3. CASE step' = [step EXCEPT ![p] = "create"]
    <3>1. failed' = [failed EXCEPT ![p] = TRUE]
      BY <1>0, <1>6, <2>3 DEF OpenReadWrite, GoTo, Fails
    <3>2. failed \in [Procs -> BOOLEAN]
      BY DEF TypeOK
    <3> QED
      BY <1>0, <2>1, <2>3, <3>1, <3>2 DEF NoCreator, LeftEmpty
  <2> QED
    BY <1>6, <2>2, <2>3 DEF OpenReadWrite, GoTo
<1>7. CASE InitUserArrayFromDB(p) \/ Serve(p) \/ Kill(p)
  <2>1. tables' = tables
    BY <1>7 DEF InitUserArrayFromDB, Serve, Kill, file
  <2>2. \E next \in {"off", "add", "serve"} : step' = [step EXCEPT ![p] = next]
    BY <1>7 DEF InitUserArrayFromDB, Serve, Kill, GoTo
  <2> QED
    BY <1>1, <2>1, <2>2
<1>8. CASE EnsureUser(p)
  <2>1. tables' = tables /\ (step' = step \/ step' = [step EXCEPT ![p] = "load"])
    BY <1>8 DEF EnsureUser, AddUser, GoTo
  <2> QED
    BY <1>1, <2>1
<1> QED
  BY <1>2, <1>3, <1>4, <1>5, <1>6, <1>7, <1>8

\* A file whose creator is gone before its commit stays without tables, whoever
\* starts later, unless one of them fails to open it (the two ways of opening).
THEOREM EmptyCorrect == Spec => EmptyFileStaysEmpty
<1>1. TypeOK /\ [Next]_vars =>
         [exists /\ tables = {} /\ NoCreator => LeftEmpty]_vars
  <2> SUFFICES ASSUME TypeOK, [Next]_vars, exists /\ tables = {} /\ NoCreator, ~UNCHANGED vars
               PROVE  LeftEmpty
    OBVIOUS
  <2> QED
    BY EmptyStaysEmpty
<1> QED
  BY <1>1, TypeCorrect, PTL DEF Spec, EmptyFileStaysEmpty

=============================================================================
