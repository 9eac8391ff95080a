# tinyEmailServer: specifications, checks and proofs

tinyEmailServer is a small mail server in C++. It takes mail over SMTP, keeps it
in a sqlite table and hands it out over POP3. Its own code is about 3700 lines
under `src/code/include` and `src/code/src`; the rest of the tree is vendored
(asio, sqlite, SQLiteCpp, spdlog, socket-cpp, nlohmann/json).

The protocol handlers are separate from the network: a handler is given the bytes
of one read and leaves the bytes of the answer. Two programs use them: the asio
server (`asio_email_server`), one thread and one event loop for all connections of
both ports, and the socket-cpp servers, two processes that serve one client at a
time. The specifications of the sessions are those of the handlers; `EmailServer`,
`TcpServer` and `TcpClient` put them into the asio server, `SocketServer` into the
other two.

Paths below: `INC` is `src/code/include`, `CS` is `src/code/src`.

## 1. Inventory

| Part | State | Operations | What makes it correct |
|---|---|---|---|
| SMTP session: `CSmtpServerProtoHandler` (INC/proto/smtp/smtp_server_handler.cpp) in a `CSmtpHandler` | `m_step`, name, address, password, `m_emailData`, `m_bFinished`, pending response | one callback per step of a table; `GetResponse`; `IsFinished` | replies follow the dialogue; a login is answered by what was checked; the end of the data is seen however it is cut; one mail saved per finished session, whole |
| POP3 session: `CPop3ServerProtoHandler` (INC/proto/pop3) in a `CPop3Handler` | `m_step`, address, password, `m_emailArray`, `m_bFinished`, pending response | USER, PASS, STAT, LIST, RETR, CAPA, QUIT by a table of step and command | the array is a gapless beginning of the user's mailbox; its numbers are those the client was shown |
| Mail database: `CSqliteDataBase` (INC/database) | the file: tables `T_USER`, `T_EMAIL_SEND`; the cache `m_userArray`; one connection per process | open or create, load the cache, save a mail, read the mails of a receiver, add and remove a user | mails are appended, never lost or changed; the tables exist together; the cache is what the table held when it was read |
| Text helpers: `CProtoUtil`, `ParseEmailForSmtp` (INC/common) | none | find, split, trim, base64, address of a name, parse a mail | defined by what they return |
| Server process: `CEmailServer` (CS/asio_email_server) | the database, two servers, the io context | `Start` opens the database, adds two users, starts both servers and runs the loop | sessions do not disturb each other; mails survive the process |
| TCP server: `CTcpServer<T>` | `m_clients`, the acceptor, a six-second timer | `DoAccept`, `OnTimer`/`CheckClients` | every open connection has its handler; every finished one is dropped in the end; accepting goes on |
| TCP client: `CTcpClient` | `m_bConnected`, one send and one receive buffer of 256 bytes, a weak pointer to the handler, the writes asio has not finished | `Send`, `DoRead`, `Close` | one read at a time; an answer reaches a peer that waits for it as it was given; nothing is owed when the connection is closed |
| IMAP session: `CImapServerProtoHandler` (INC/proto/imap) | `m_step`, `m_strReceive`, pending response | a table of step and command, walked to its end; every answer is a fixed text | a line is taken once, by one row, when it is complete; answers follow the dialogue. `CEmailServer::Start` does not start it |
| socket-cpp servers (CS/socket_cpp_email_server) | the listening socket, one client, one handler | accept, then a loop of send and receive until the client, the handler or a send ends it | a client is told answers of its own session only; no socket is left open; every client is served in the end |
| Memory database `CMemDataBase`, `CNetServerHandler`, `CSmtpProtoCmd`, logging | | used by tests only, by nothing, or for output | |

How they interact: `DoAccept` makes a handler and a client for a connection, the
handler greets from `SetTcpSocket`, `DoRead` calls `OnRecive` with what a read
returned, the handler calls the protocol object, sends `GetResponse()` and closes
the connection once `IsFinished()`. The sessions share one database object, so
the mail table is what couples SMTP to POP3. One thread runs all of it: between
two callbacks anything may happen, within one nothing.

What is hard to test here:

- requests are whatever a read returns, in pieces the sender does not choose,
  and the SMTP handler keeps no line buffer except for the data of a mail;
- the step of a session is written twice per request, by the callback and by the
  table, in an order that depends on what the callback returns;
- a POP3 session holds rows of a table that grows under it;
- an insert or a query may fail and no caller looks at the result;
- the process may end between any two callbacks, and by itself in one of them;
- all answers of a connection go through one buffer that asio reads later;
- the end of a mail is not answered, so a client cannot tell a mail that was taken
  from a connection that was lost;
- lengths of texts are unsigned and some of them are taken below zero.

`PROJECT.json` lists these as hazards, each at its line, with the properties that
are about it.

## 2. Modules

| Module | What it is |
|---|---|
| `ProtoUtil` | the text helpers as operators on sequences of lexemes |
| `SmtpServerHandler` | the SMTP sessions of one process and the mail table they append to |
| `Mailbox` | what the mail table holds for a user and what a query may return of it |
| `Pop3ServerHandler` | the POP3 sessions of one process over a growing mail table |
| `EmailServer` | both, composed by INSTANCE over one table and one process that ends and starts again |
| `MailStore` | the abstract specification: an append-only store and numbered views of it |
| `MailSender` | `EmailServer` with a client that tries to send one mail over a network that fails |
| `TcpServer` | the acceptor, the timer, the handlers it holds and the reads of their connections |
| `TcpClient` | the writes of one connection: the shared buffer and what the peer is sent |
| `SocketServer` | a process of socket-cpp: one thread, one blocking listener, one client at a time |
| `SqliteDataBase` | processes that open or create one database file and make sure of its users |
| `ImapServerHandler` | one IMAP session: the buffer of a line and the table |
| `MailText` | the loops of the text helpers and the text RETR sends, compared with `ProtoUtil` and with each other |
| `Base64` | the loops of the two base64 helpers over bytes |
| `MC...` | instances for TLC, one for each module that is checked |
| `..._proofs` | theorems: of `SmtpServerHandler` (with the lemmas about `ProtoUtil`), `Pop3ServerHandler`, `EmailServer` (with `MailStore` and `MailSender`), `TcpServer`, `TcpClient`, `SocketServer`, `SqliteDataBase`; `TextAndImap_proofs` has those of the parts that share no state with other sessions, `ImapServerHandler`, `MailText` and `Base64` |

### SmtpServerHandler

A session is a connection; its variables are the members of
`CSmtpServerProtoHandler` under their own names. The response is not a variable:
every callback's response is sent before the callback ends, so the history
`replies` keeps what was sent instead. An action is one call of
`CSmtpHandler::OnRecive` (`OnEhloReq` to `OnData`, and `OnClientReqAtEnd` for
the row of `SMTP_END`), with everything it causes: the callback, the step the
table sets, the reply, the save and the closing of the connection. `Accept` is
the construction of the handler and its greeting, `Disconnect` a failed read or
write.

`Accepted(s, stepLeft)` and `Refused(s, rsp, step)` are the two ends of
`OnClientReq`: after true the reply is that of the step the callback left and the
step is the table's; after false the response and the step are the callback's
own. A callback that returns false without setting either changes nothing, and is
not an action.

A text is a sequence of lexemes. `CR`, `LF` and `DOT` are characters, because the
end of a mail is looked for across reads; everything else (a verb, a base64 run,
a `To: <address>`, a word) is never cut in the instances. Sender, subject and
time of a mail are left out. A name, an address and a password are a record of
the part before the `@`, the labels after it and whether blanks surround it, which
is all that `CreateUserAddrFromNameAndDomain` looks at: a login name that is an
address is trimmed, any other is not. Of two receivers on one line the first counts,
of two lines the last (`FirstOfLine`, `ParseEmailForSmtp`).

### Pop3ServerHandler

A request is what `CPop3ProtoReqCmd::FromString` makes of a read: its word,
whether a space follows it, its argument and the number that argument begins
with. A mail is its row number. `ReadMailbox` is what PASS and LIST do to the
array; the rows a query returns are any gapless beginning of the mailbox, because
the query may stop at any row. `last` and `listed` are histories of the last
answer and the last listing. RETR ignores its number but for the test of its range:
`NumberingIsKnown` says that the answer is the last mail of the listing the client
was sent, whichever number of that listing it asked for.

### EmailServer

`SmtpCallback` and `Pop3Callback` are steps of the two modules over the same
`running` and `T_EMAIL_SEND`. `Kill` ends the process between two callbacks and
`Start` runs it again over the same file; sessions of the old process stay
closed. `KillAfterSave` ends the process inside `OnData`, when the insert is
committed and the session is not finished yet. `Store` maps the state to `MailStore`: the table is the store, the
address a POP3 session named is its owner, its array is its view.

### MailSender

The variables of `EmailServer`, the network (`wire`) and what the client knows. A
script is a login of one of four kinds and a mail in two parts. The client writes
a request once all it asked before is answered, and the mail's parts one after the
other; a request comes in one read, a mail in any pieces. The mail is not answered
(`GetNextStepCmd` has no reply for the data step): the client sees its connection
closed, by `IsFinished()`, by a failure of the network or by the end of the process.
It therefore tries in another session only while it has not written the end of its
mail. A client that tries again after that may have its mail stored twice;
`KillAfterSave` is one way, and no client can avoid both that and a lost mail.

### TcpServer

What the modules above take for granted: that a connection has a handler, that
reads come one at a time and that a finished handler gets no other. A connection
is a socket, the flags `m_bConnected` and `m_bFinished`, whether its handler is in
`m_clients`, and its outstanding read. A read is `"ready"` between its completion
and its callback, because a failed write may close the socket in between; the
callback then still hands over what was read. A handler is destroyed when it
leaves `m_clients`, since the client's pointer to it is weak. `AcceptFails` and
`AcceptThrows` are the two ways in which `DoAccept` does not go on. Which writes
are outstanding is left to `TcpClient`: `WriteFails` may happen to any open
connection.

### TcpClient

One connection, whose answers are numbered and have a length. `Send` clears and
fills `m_sendBuf` and starts an `async_write`; `Write` is the system taking the next
bytes of an outstanding write out of the buffer as it is by then, and writes that
overlap may take turns. `OnFinish` is the read that finishes the session: an empty
answer and `Close` in one callback. `early` tells a peer that sends a request before
it has the last answer from one that waits. Overlapping writes do spoil each
other's bytes; `AnswersArriveWhole` says for which peers it cannot happen, and
`BytesAreCounted` what holds for all of them.

### SocketServer

`place` is where the one thread is in the loop of `StartSmtpServer` or
`StartPop3Server`; `Finishes` is the one difference between the two, the look at
`IsFinished()`. The listening socket, the backlog and the three ways in which a send
ends (done, failed, SIGPIPE) are those of `CTCPServer` in socket-cpp and of the
system. A handler is abstracted to the response it holds: `Receive` may set an
answer, set an empty one or leave the response alone, as the handlers do. A response
is the number of the request it answers, so that a response left over from another
client or answered twice would show.

`buff` is the buffer that is declared outside both loops. It is not cleared between
requests (`memset(buff, 128, 0)` has its size and its value in the wrong order), so a
place of it is the client whose bytes are there, and `heard` has the clients whose
bytes the handler was given. Only the `recvLen` first places are, which is what keeps
a client's request from ending with bytes of an earlier client.

### MailText and Base64

No state of the program: a text that grows by `Pieces`, or by bytes, is the input of
the operators, and the invariants compare what these return. `SplitStringByLine`,
`Trim`, `ParseAddr` and `ParseByLine` follow the loops, with positions from 0 and
lengths modulo `SizeRange`, as `size_t` has them. `RetrievedIsSent` compares the
answer to RETR with the data the mail came in; what follows the first dot line of
that answer (a space and a second dot line, for the stored context ends with its own)
stays unread in the client's stream. `Base64` carries the arrays the helpers never
clear as the parameter `stale`. Its loops, like those of `MailText`, are recursive
functions of the turn, so that theorems can be about them.

### SqliteDataBase

What the sessions take as the constant `Users`: how a process comes to the users
it knows. A step is one statement of sqlite, so `step` is the place in
`CSqliteDataBase`'s constructor, in `InitUserArrayFromDB` or in the user part of
`CEmailServer::Start`. Every statement has a branch in which it throws, and `Kill`
ends a process between any two. `Adders` are the processes whose start adds the
test users (the asio server, the SMTP process of socket-cpp); the others are the
POP3 process of socket-cpp, which makes a new database object for each client
(`NextClient`) and adds nobody. `failed` and `apart` are histories.

Of sqlite the module assumes: a statement is atomic; a transaction is seen by
others at its commit only; one connection writes at a time and others are refused
(no busy timeout is set); what was not committed is gone when the process ends.

Opening may fail with the file there. The code then takes it for missing and opens it
with `OPEN_CREATE`, unless a connection is left from an earlier database object
(`OpenReadWrite`). This is the one way in which a file without tables can still be
given them, and `EmptyFileStaysEmpty` says that it is the only one.

### ImapServerHandler

One session is enough: it shares nothing, not even the database, with any other.
`OnRecive` is a read, `HandleLine` what it does when the buffer holds a line end:
the command is taken from the first line (`CmdOf`), the table is walked with the
step each row leaves (`Walk`), and the whole buffer is cleared, with whatever came
after the line. A response is fixed text and is named by its command; the tag of a
command appears in no response.

What was sent is kept in three histories: what the peer has sent since its last line
end (`unfinished`), whether a read has ever had something behind a line end
(`behind`), and the step and the answers of a session that is handed each line by
itself (`due`, by `AfterLine`, which looks for the row of the step before the line and
walks no further). `HandledByLine` compares: without such a read the session is where
`due` is and its buffer is what was sent of the next line. After one, text is lost,
and the property bounds the loss: the buffer never holds anything but an end of
the line the peer is in, so later lines are whole again. (One remainder is possible:
the LF of a line whose CR came behind another line.)

Letters of a word are one lexeme, so spellings that
differ in case, which `strcasecmp` takes for the same, are the same here too.

## 3. Runs

| Run | Instance | States | Shows |
|---|---|---|---|
| `smtp_session` | one session, eleven reads, 9 lexemes of data | 76 thousand | the dialogue, the answer to a login, the end of the data, the saved row, what ends the process |
| `pop3_sessions` | two readers of two mailboxes, three mails | 399 thousand | what a session holds and shows while mails arrive |
| `email_server` | two senders, one reader, ends and starts | 491 thousand | the server implements `MailStore`; a mail goes through whole |
| `mail_sender` | one client, two tries, four scripts, ends and starts | 17 thousand | a careful client has no mail stored twice; nobody waits for an answer that does not come, but after a wrong password |
| `tcp_server` | three connections | 26 thousand | open connections have handlers, finished ones get nothing, closed ones are forgotten, waiting ones accepted |
| `tcp_client` | answers of 0 to 2 bytes through a buffer of 2, four answers | 31 thousand | what a peer that waits, and one that does not, is sent |
| `socket_server` | three clients, two requests each, a buffer of 2 | 277 thousand | answers of one's own session and bytes of one's own, no socket left open, everybody's turn |
| `sqlite_database` | two servers that start, one POP3 process, two test users | 783 thousand | both tables or none; caches, users and duplicates; what becomes of a file without tables |
| `imap_session` | thirteen reads of which some are half a line or two lines, six answers, 12 lexemes | 316 thousand | answers in order, one for a line; lines cut anywhere are handled as if whole |
| `mail_text` | lines of 6 characters of 7, mails of 13 lexemes, 6 bytes of 4 | 466 thousand | the address of a line, the body of a mail from end to end, base64 both ways |
| `pop3_bare_list`, `pop3_quit` | one session | | two sentences of the tests that the code does not satisfy |

Bounds. `MaxData` bounds the data of one session: 9 lexemes hold a `To:` line, a
blank line and the end of a mail, cut at every place the reads allow, and one more
read after the end (which is what a session whose connection stayed open would
need to save again). `smtp_session` has one session; that others change nothing is
what the theorems say for any number, and `email_server` runs two, enough to
interleave two saves and to end the process under a session that did not ask for it.
`MaxMails` = 3 lets a mailbox grow between two listings while the other user's mail
lies between its rows. The reads of an instance include for each step one it takes, one it does not, and
ones meant for other steps. `pop3_sessions` takes its readers as symmetric: no
action tells two of them apart.

`CHECK_DEADLOCK FALSE` in all runs: the server does come to rest, when every
connection of the instance is closed.

Two starts and a third process are what it takes for two to add the same user, or to
create the same tables, while another reads; `MaxRows` = 3 leaves room for one user
added twice. Only the two starts are symmetric.

Three connections to `tcp_server` let one be accepted, one be read and one be
thrown away at once; it uses no symmetry, because it checks liveness.

`imap_session` has reads for every command, two of them cut, and reads that go on
after a line end. `MaxReplies` = 6 is the greeting, both steps to a login and three
answers of the last step; `MaxText` bounds what a client can send without a line
end.

`tcp_client`: two bytes are what it takes to cut a write and to let two writes take
turns, and four answers to have a finished session behind an overlap. It leaves out
answers longer than the buffer.

`socket_server`: three clients let one be served, one wait and one come later; two
requests let a response be left alone between two that are set. The POP3 loop is the
SMTP loop without `Finishes`, so its behaviours are among those checked. A buffer of
two places can hold bytes of two clients.

`mail_sender`: a second try is the last thing a client can do that a first cannot;
`MaxData` holds its mail. `mail_text`: six characters hold a colon, both brackets, an
address and a blank; 13 lexemes a header line, a blank line, a body line, a dot line
and something behind; six bytes are two groups of three, and 0 to 5 all the tails.
The helpers keep no state, so the three inputs grow one at a time. `SizeRange` = 256
holds every length that occurs. The theorems below need none of these bounds.

Fairness. `tcp_server`: the loop calls back what is ready, so
the timer, the accept of a waiting connection, a read that has completed and a
read whose peer is gone are weakly fair. One thread runs `io_context::run`, which
takes handlers from a queue, and a handler of the server never blocks. Nothing is
assumed of peers: they need not come, speak or leave. The liveness properties say
so where they stop holding: after the process has ended (`AcceptThrows`), and, for
accepting, after an accept has failed. A connection whose peer stays silent is
never forgotten, and no property claims it is: the server has no idle timeout.

`tcp_client` assumes that the system goes on taking bytes of an open connection, or
the connection fails. `socket_server` assumes that the one thread goes on whenever
its call can return, and of clients that they leave in the end: without that,
`WaitingIsServed` is false, for the server waits for the client it serves without a
timeout. `mail_sender` assumes only that the server handles what was written to an
open connection.

### Findings

- `pop3_proto_test.cpp:90` expects the handler to take `LIST` without an
  argument. `FromString` looks for LIST only before a space, so the request is
  dropped without an answer (run `pop3_bare_list`).
- `pop3_proto_test.cpp:104` expects false for QUIT. Every request that has a row
  in the table returns true (run `pop3_quit`).

`imap_proto_test.cpp:98-142` disagrees with the code as well, in the wording of
answers: it expects a blank before the answer to LOGIN, and empty answers to SELECT,
EXAMINE, LIST, SEARCH, FETCH and LOGOUT, where the callbacks give fixed texts. The model
has no texts of answers, so no run shows it.

## 4. Proofs

`tlapm` checks the following for all values of the constants that satisfy the named
assumptions of the modules: `ProtoUtilAssumption` and `SmtpAssumption` (the lexemes
include those the end of a mail is made of, reads are nonempty, users are pairs of
texts), `Pop3Assumption` and `EmailServerAssumption` (the same of reads and users, and
requests are what `FromString` tells apart), `MailSenderAssumption` (a script has requests and a mail, and
only its last part ends the mail), `ImapAssumption` (reads are texts),
`MailTextAssumption` (a `size_t` counts every text and has `npos` left, which
`std::string::max_size` promises), `Base64Assumption` (bytes are 0 to 255),
`TcpClientAssumption` (answers fit into the buffer, and one may be empty),
`SocketServerAssumption`, `SqliteAssumption`. TLC evaluates each of them on the
constants of the runs.

- `SmtpServerHandler_proofs!TypeCorrect`: `Spec => []TypeOK`, one step per action;
  it needs that the parser returns an address and a text whatever was received
  (`ParseEmailType`), which needs that `Min` and `Max` of a
  nonempty bounded set of positions are positions (by well-foundedness of `<`).
- `FinishedCorrect`: `[]FinishedAtEndOfData`. It is inductive with `TypeOK`
  because the data is only appended to, and a text that holds a pattern holds it
  whatever follows (`FoundStaysFound`).
- `RowsCorrect`: `[]OneRowPerFinishedSession`, inductive with the two above: a
  session that appends a row is open, so it was not finished, so it has no row.
- `DialogueCorrect`: `[]DialogueInOrder`. The invariant alone is not inductive:
  a session that is accepted must not have said anything, and data must not be
  collected outside the data step, or the next accepted request would break it.
  `Talk` adds both.
- `EndsCorrect`: `[]EndsOnlyAfterRefusal`. Only the row of `SMTP_END` ends the
  process, `Talk` gives what a session at that step was told last, and an ended
  process says nothing more.
- `LoginCorrect`: `[]LoginAnswered`. `LoginTold` says of one session that past the
  login its replies begin with the dialogue that has 235 exactly if the pair it
  holds is right. It is kept because the pair is fixed by then and a later reply,
  250 or 354, makes no sequence begin with a dialogue it did not begin with
  (`LaterReplies`); the login itself is the one step that sets both. `Told` says it of
  every session.

- `Pop3ServerHandler_proofs`: `TypeOK`, `ArrayIsListing`, `NumberingIsKnown` and
  `ShownMailIsAddressed`. The last three follow from `HoldsOwnMails`, which adds to
  them that what was listed is what is held, and that a session without a user
  holds nothing. `RequestKeepsOwn` shows it for the session that asks, from what each
  callback may do to the array (`OnReciveHas`); `OthersKeepTheirs` for the others,
  and `SavedKeepsMails` for mails that arrive: a listing of a table is one of every
  longer table (`GrownTableKeepsMails`).

- `EmailServer_proofs`: `Implementation`, `Spec => ImplementsStore`, and
  `HeldCorrect`. Every step is brought to one of two kinds (`ServerEffects`): on the
  SMTP side nothing but the data and the rows of one session, on the POP3 side
  nothing but the views. Each kind is an `Append`, a `Look` or a stutter of
  `MailStore`, which needs `StoreInv` (types, and a reader that names a user has an
  empty view). `SentInv` says that every row is the mail of the session it came from
  and that this session is closed; it is what keeps row and data together, for the
  data of a closed session is never added to.

- `ViewsCorrect` and `StoreOnlyGrows`: what holds of the abstract store holds of the
  server, because `Implementation` makes every behaviour of the one a behaviour of the
  other. The store is typed, its views are listings (`ListingSurvivesAppend`: a gapless
  beginning of a mailbox stays one when a mail is appended), and mails stay. What is
  known of the text helpers is taken from `SmtpServerHandler_proofs` through the
  instance `SmtpFacts`, whose assumptions `SmtpAssumes` derives from the server's.

- `ServerDialogue`, `ServerLogin`, `ServerNumbering`, `ServerShown`: in the server each
  session keeps `DialogueInOrder`, `LoginAnswered`, `NumberingIsKnown` and
  `ShownMailIsAddressed`, which the runs check of each kind of session alone. A callback
  of a session is a step of its own module (`SameSmtpSteps`, `SamePop3Steps`), so the
  invariants proved there, `Talk` and `Told`, `AllHoldOwnMails`, are kept by it; every
  other step of the server is quiet for this side. For an SMTP session (`SmtpQuiet`) it
  closes connections or saves one mail before the process ends; for a POP3 session
  (`Pop3Quiet`) it closes connections or appends one row, which has a higher number
  than all those shown (`GrownTableKeepsMails`). `FinishedAtEndOfData`,
  `OneRowPerFinishedSession` and `EndsOnlyAfterRefusal` are not inherited: after
  `KillAfterSave` a mail is on disk and its session is not finished, and `Kill` ends
  the process for no reason of the sessions. What the server keeps of the first two is
  `SentInv`.

- `StoredOnce`: `SenderSpec => []StoredAtMostOnce`, for any sessions, scripts and cuts
  into reads. The property says nothing about sessions or wires, so it is far from
  inductive; `SenderInv` adds what carries it:
  - while one session is open to the client, no other is, and none that is over was
    written the whole mail (`OneTries`), so at most one session ever was (`OneWhole`);
  - the data of an open session and its wire are together the last part of what was
    written to it, so data with an end means that the script was written to its end
    (`DataIsSent`, `EndIsWritten`);
  - each row is of a session whose data has ended, and no two are of the same
    (`RowsOfSessions`).

  Two rows would be of two sessions that were both written the whole mail.
  `ReadEffects` brings the nine callbacks to two kinds, those that take data and those
  that do not; `DataKeepsSender` serves a read and `KillAfterSave` alike, for after the
  second the wire is stale but its connection is closed.

- `TcpServer_proofs`: `TypeOK`, `HandlersKept` (`[]OpenHasHandler`) and
  `FinishedCorrect` (`[]FinishedReadsNoMore`), for any connections. They are
  proved together: the timer keeps the handler of an open connection because that
  handler is not finished. `UnacceptedIsUnread` adds that a connection that waits
  has no handler yet that could be finished.

- `TcpClient_proofs`, for any size of the buffer and any lengths of answers:
  - `BytesCorrect` (`[]BytesAreCounted`): what was said and what the writes owe grow by
    the same length in `Send`, and what was delivered grows by what a write takes. It
    holds for overlapping writes too, so nothing is assumed of the peer. `Said` and
    `Owing` are loops, and the lemmas `OwingAppend`, `OwingSends`, `OwingRemove` and
    `FlattenAppend` say what one more, one shorter and one less element does to them;
    `LoopRuns` and `LoopsAgree` (a loop can be run, and has one result) stand for the
    induction the provers cannot do, by the smallest turn at which it would fail.
  - `AnswersCorrect` (`[]AnswersArriveWhole`) and `FinishedCorrect`
    (`[]FinishedWasToldAll`). `WaitsInv`: as long as no request came early, at most one
    write is outstanding, and what was delivered with what that write has still to take
    out of the buffer is all that was said. A read that finds no outstanding write
    therefore finds everything delivered, and `Send` may overwrite the buffer.

- `TextAndImap_proofs` about a session of IMAP, for any reads and any number of answers: `TypeOK`,
  `DialogueCorrect` (`[]DialogueInOrder`) and `HandledByLineCorrect` (`[]HandledByLine`).
  `OneRowTakes` shows that the walk to the end of the table ends as it would if it
  stopped at its first match, because no row matches the command and the step another
  row for this command leads to. `Told` ties the step to how many answers were given,
  and says that nothing follows LOGOUT since no row has the step it leads to.
  For `HandledByLine` the walk must be shown to take the row `AfterLine` looks up
  (`OneRowTakes` again), and the buffer to be followed through a read: neither it nor
  `unfinished` holds a line end (`KeptIsUnfinished`), so a read ends a line of both or
  adds to both, and what it leaves of one follows from the other (`KeptFollows`).

- `SocketServer_proofs`: `TypeOK`, `AnswersCorrect` (`[]ToldOwnAnswers`) and
  `OpenCorrect` (`[]OnlyServedIsOpen`), for any clients, requests and both values of
  `Finishes`. They are inductive together with three facts: nobody waits twice; a
  client was told nothing before it is accepted; the response the thread holds
  answers a later request than all it has sent, and is the greeting if it has sent
  none. That the handler hears its client alone needs only that the first `recvLen`
  places are written before they are read.

- `SqliteDataBase_proofs`, for any processes, test users and bound: `TypeOK`,
  `TablesTogether` (with what each transaction has created by the step it is at),
  `CacheIsPrefix` (because `T_USER` is only appended to), `ServersKnowUsers`
  (`Known`: users a start has looked at are in the table before it reads again, and
  in its cache after) and `UsersAddedOnce` (`AddedApart`: while adders do not
  overlap, the one that starts has read the whole table).

- `EmptyCorrect`: `EmptyFileStaysEmpty`, an action property. With `NoCreator` the
  actions that create something are disabled, and `OpenReadWrite` of a file that is
  there goes on to reading, or to `OPEN_CREATE` with its failure on record.

- `TextAndImap_proofs` about the loops of the text helpers, for texts of any length
  over any words:
  - `ReceiversCut` (`[]ReceiverIsInBrackets`): with what `substr` and `find` return
    (`SubstrCuts`, `IndexOfIs`), `ParseAddrCuts` says that the differences taken in
    `size_t` are those of the positions, and `TrimIsSolid` the same of `Trim`, the blank
    text included, whose count is `1 - Len`.
  - `RetrievedCorrect` (`[]RetrievedIsSent`) needs two things. The header must not hold a
    dot line of its own: the lines the loop is given are `Unbroken` (no line break but
    at the end), an address cut out of one is unbroken too, and unbroken texts joined
    by the fixed words of the header hold no dot line (`HeaderHoldsNoDot`). And the
    body must be what was received: `KeptUpTo` says of each turn that the loop has kept
    the text from the first blank line to where the next line starts (`KeepsLine`,
    `ParsedByLine`).
  - `ContextIsCutOut`: by the same, the loop keeps as body what `ProtoUtil` says at
    once, and so what the modules of the sessions take as its result.

- `TextAndImap_proofs` about base64, for any bytes:
  - `RoundTripHolds` (`[]RoundTrip`). `EncodedTo` says what the encoder has after m
    bytes: the characters of the complete groups, and in its array the m % 3 bytes of
    the next. `EncodeIsEncoded` adds the last group. `DecodedTo` is the same of the
    decoder, and `ThreeUndoesFour` that three bytes come back from their four indices,
    whatever the sums lose. The last group is decoded from an array of which one or two
    places were never written, and the bytes that depend on them are the ones left out.
  - `BitsEncoded` (`[]EncodesBits`): each bit of an index is one of a byte
    (`FourHasBits`, bit by bit), so those of a text are its bytes' and then zeros.

  No induction is needed for these loops. `LoopRuns` says that there is a function of
  what a loop has after each turn, by the longest run that exists; a recursive function
  is CHOSEN among such functions, so it is one of them. `UpTo` then carries a fact from
  turn to turn, by the smallest turn at which it would fail.

Only model-checked: all liveness (`WaitingIsAccepted`, `ClosedIsForgotten`,
`LeftIsForgotten`, `AnswersAreSent`, `WaitingIsServed`, `NobodyWaits`), which needs
fairness and ENABLED.

## 5. Plan

1. Done: `ProtoUtil`, `SmtpServerHandler`, `Mailbox`, `Pop3ServerHandler`,
   `MailStore`, `EmailServer`, `TcpServer`, `SqliteDataBase`,
   `ImapServerHandler`, their runs, the first proofs.
2. Done: `TcpClient`, `SocketServer`, `MailText`, `Base64`, `MailSender`; the proofs
   of POP3, of the refinement, of the login and of `SocketServer`.
3. Done: `StoredAtMostOnce`, the three properties of IMAP and the three safety
   properties of `TcpClient`, each for all values of the constants; the abstract store's
   properties for the server itself; the loops of `MailText` and `Base64` for every text.
   Every invariant a run checks is a theorem.
4. Done: the sessions' own invariants for the server of `EmailServer`, across its ends
   and starts.
5. Left: answers longer than the send buffer.

## 6. Not modelled

- Answers longer than the send buffer of 256 bytes: what `Send` then copies past its
  end is not defined by the code.
- `RemoveUser` of the database, `SplitLine`, `CompareString`, `ParseEmailFromRecv`:
  at most tests call them.
- `CMemDataBase`: the tests' stand-in for the sqlite database.
- `CNetServerHandler`: a template nothing instantiates. `CSmtpProtoCmd` and the
  client-side reply parser: the server does not call them.
- What the code does and no property excludes: the notes of the hazards in
  `PROJECT.json` name it (a mail whose insert failed, a listing cut short, the second
  dot line behind a mail, starts that overlap, answers spoiled or lost for a peer that
  does not wait, a silent client, SIGPIPE). The models behave that way too.
- Logging, the configuration file and the options of the main programs.
- The vendored libraries, 456 thousand of the tree's 460 thousand lines of code. They
  appear as what the server relies on: statements of sqlite are atomic, rows come in
  the order of their ID, asio runs one callback at a time, a stream hands over bytes
  in order and in pieces. Of socket-cpp, the functions the servers call are modelled
  (`SocketServer`). This is why the map covers a small share of all lines.
