------------------------- MODULE Pop3ServerHandler -------------------------
(***************************************************************************)
(* The POP3 sessions of the server: CPop3ServerProtoHandler, driven by     *)
(* CPop3Handler.  A session is one accepted connection and an action is    *)
(* one callback of the event loop, CPop3Handler::OnRecive with the bytes   *)
(* of one read: OnClientReq, then the sending of GetResponse().            *)
(*                                                                         *)
(* A read is a request [word, spaced, arg, number]: the word before the    *)
(* first space, in upper case, and its trimmed argument with the number it *)
(* begins with; spaced = FALSE says that the read is the word and a line   *)
(* break and nothing else.  The steps are named without their common       *)
(* beginning POP3_STEP_SERVER_.                                            *)
(***************************************************************************)
EXTENDS ProtoUtil, Mailbox, SequencesExt

CONSTANTS
    Readers,    \* connections to the POP3 port
    Requests,   \* what one read may return
    Users,      \* the rows of the user cache, filled before the server starts
    NewMails,   \* the rows the SMTP sessions may add
    MaxMails    \* bound: rows in the mail table

Commands == {"USER", "PASS", "UIDL", "RETR", "DELE", "STAT", "LIST",
             "CAPA", "QUIT", "NOOP", "AUTH CRAM-MD5"}

Request == [word : Commands \cup {"other"}, spaced : BOOLEAN, arg : Text, number : Nat]

NoRequest == [word |-> "other", spaced |-> FALSE, arg |-> EmptyText, number |-> 0]

ASSUME Pop3Assumption ==
    /\ Requests \subseteq Request
    /\ Users \subseteq [userName_ : Text, userPassword_ : Text]
    /\ \A m \in NewMails : m.receiver \in Text
    /\ MaxMails \in Nat

VARIABLES
    conn,            \* the connection of a session: "none", "open" or "closed"
    m_step,
    m_strUserAddr,
    m_strPassword,
    m_emailArray,    \* the mails of the last listing, by row number
    m_bFinished,
    T_EMAIL_SEND,    \* the rows of the mail table, in the order of their ID
    running,         \* the server process is up
    last,            \* history: the last request, what OnClientReq returned
                     \* for it and what was sent in answer
    listed           \* history: the mails of the last listing that was sent

session == << conn, m_step, m_strUserAddr, m_strPassword, m_emailArray, m_bFinished,
              last, listed >>
vars    == << session, T_EMAIL_SEND, running >>

----------------------------------------------------------------------------
\* CPop3ProtoReqCmd::FromString
FromString(req) ==
    IF \/ req.spaced /\ req.word \in {"USER", "PASS", "UIDL", "RETR", "DELE", "STAT", "LIST"}
       \/ ~req.spaced /\ req.word \in {"STAT", "CAPA", "QUIT", "NOOP", "AUTH CRAM-MD5"}
    THEN req.word
    ELSE "PARSE_FAILED"

\* An answer: its kind and the mails it shows.
Answer(kind, mails) == [kind |-> kind, mails |-> mails]

AnswerKinds == {"", "+OK Welcome", "+OK user name", "+OK 1 message(s)", "+OK 0", "-ERR",
                "PASS list", "LIST list", "mail", "OK tiny_email"}

Nothing == Answer("", << >>)

\* The answer of a step whose callback left the response empty.
GetNextStepCmd(step) ==
    CASE step = "ON_CONNECT"        -> Answer("+OK Welcome", << >>)
      [] step = "SEND_USER_NAME_OK" -> Answer("+OK user name", << >>)
      [] step = "SEND_PASS_WORD_OK" -> Answer("+OK 1 message(s)", << >>)
      [] OTHER                      -> Nothing

IsPasswordRight(name, password) ==
    \E u \in Users : u.userName_ = name /\ u.userPassword_ = password

\* Deviation: the query has no WHERE.
GetMailInfo(user) == {[i \in 1 .. Len(T_EMAIL_SEND) |-> i]}

\* GetRecvMailInfo fills the array it is given; it may fail before the last
\* row, and no caller looks at its result.
GetRecvMailInfo(user) == Listings(T_EMAIL_SEND, user)

----------------------------------------------------------------------------
Reading(r, step) ==
    /\ running
    /\ conn[r] = "open"
    /\ m_step[r] = step

\* OnClientReq returns ret and OnRecive sends the response, if there is one.
\* A listing shows the mails of the array by number.
Return(r, req, ret, answer) ==
    /\ last' = [last EXCEPT ![r] = [req |-> req, ret |-> ret, answer |-> answer]]
    /\ listed' = [listed EXCEPT ![r] = IF answer.kind \in {"PASS list", "LIST list"}
                                       THEN answer.mails ELSE @]

\* DoAccept: a new handler greets from SetTcpSocket, before the first read.
Accept(r) ==
    /\ running
    /\ conn[r] = "none"
    /\ conn' = [conn EXCEPT ![r] = "open"]
    /\ m_step' = [m_step EXCEPT ![r] = "ON_CONNECT"]
    /\ last' = [last EXCEPT ![r].answer = GetNextStepCmd("ON_CONNECT")]
    /\ UNCHANGED << m_strUserAddr, m_strPassword, m_emailArray, m_bFinished,
                    T_EMAIL_SEND, running, listed >>

\* The peer is gone: a read or a write fails and CTcpClient closes the socket.
\* A read that had ended before a write failed is still handled after it; the
\* two are in the other order here.
Disconnect(r) ==
    /\ running
    /\ conn[r] = "open"
    /\ conn' = [conn EXCEPT ![r] = "closed"]
    /\ UNCHANGED << m_step, m_strUserAddr, m_strPassword, m_emailArray, m_bFinished,
                    last, listed, T_EMAIL_SEND, running >>

OnUser(r, req) ==
    /\ Reading(r, "ON_CONNECT")
    /\ FromString(req) = "USER"
    /\ m_strUserAddr' =
          [m_strUserAddr EXCEPT ![r] = CreateUserAddrFromNameAndDomain(req.arg, Domain)]
    /\ m_step' = [m_step EXCEPT ![r] = "SEND_USER_NAME_OK"]
    /\ Return(r, req, TRUE, GetNextStepCmd("SEND_USER_NAME_OK"))
    /\ UNCHANGED << conn, m_strPassword, m_emailArray, m_bFinished, T_EMAIL_SEND, running >>

OnCapa(r, req) ==
    /\ Reading(r, "ON_CONNECT")
    /\ FromString(req) = "CAPA"
    /\ Return(r, req, TRUE, Answer("-ERR", << >>))
    /\ UNCHANGED << conn, m_step, m_strUserAddr, m_strPassword, m_emailArray, m_bFinished,
                    T_EMAIL_SEND, running >>

\* Deviation: the array is not cleared before it is filled.
ReadMailboxAgain(r, req, kind) ==
    \E list \in GetRecvMailInfo(m_strUserAddr[r]) :
        /\ m_emailArray' = [m_emailArray EXCEPT ![r] = @ \o list]
        /\ Return(r, req, TRUE, Answer(kind, m_emailArray[r] \o list))

\* The array is cleared and filled, and the answer lists it.
ReadMailbox(r, req, kind) ==
    \E list \in GetRecvMailInfo(m_strUserAddr[r]) :
        /\ m_emailArray' = [m_emailArray EXCEPT ![r] = list]
        /\ Return(r, req, TRUE, Answer(kind, list))

\* The table moves on to SEND_PASS_WORD_OK whatever the callback returns; a
\* wrong password only leaves the response empty and the mailbox unread.
OnPassword(r, req) ==
    /\ Reading(r, "SEND_USER_NAME_OK")
    /\ FromString(req) = "PASS"
    /\ m_strPassword' = [m_strPassword EXCEPT ![r] = req.arg]
    /\ m_step' = [m_step EXCEPT ![r] = "SEND_PASS_WORD_OK"]
    /\ \/ /\ IsPasswordRight(m_strUserAddr[r], req.arg)
          /\ ReadMailbox(r, req, "PASS list")
       \/ /\ ~IsPasswordRight(m_strUserAddr[r], req.arg)
          /\ Return(r, req, TRUE, GetNextStepCmd("SEND_PASS_WORD_OK"))
          /\ UNCHANGED m_emailArray
    /\ UNCHANGED << conn, m_strUserAddr, m_bFinished, T_EMAIL_SEND, running >>

OnState(r, req) ==
    /\ Reading(r, "SEND_PASS_WORD_OK")
    /\ FromString(req) = "STAT"
    /\ Return(r, req, TRUE, Answer("+OK 0", << >>))
    /\ UNCHANGED << conn, m_step, m_strUserAddr, m_strPassword, m_emailArray, m_bFinished,
                    T_EMAIL_SEND, running >>

\* Deviation: the mailbox is read again before the mail is picked.
OnRetrRereads(r, req) ==
    /\ Reading(r, "SEND_PASS_WORD_OK")
    /\ FromString(req) = "RETR"
    /\ \E list \in GetRecvMailInfo(m_strUserAddr[r]) :
          /\ m_emailArray' = [m_emailArray EXCEPT ![r] = list]
          /\ Return(r, req, TRUE, IF list # << >> THEN Answer("mail", << Last(list) >>)
                                 ELSE GetNextStepCmd(m_step[r]))
    /\ UNCHANGED << conn, m_step, m_strUserAddr, m_strPassword, m_bFinished,
                    T_EMAIL_SEND, running >>

\* Any number of the listing is answered with its last mail; a number outside
\* of it with the reply of the step.
OnRetr(r, req) ==
    /\ Reading(r, "SEND_PASS_WORD_OK")
    /\ FromString(req) = "RETR"
    /\ \/ /\ req.number \in DOMAIN m_emailArray[r]
          /\ Return(r, req, TRUE, Answer("mail", << Last(m_emailArray[r]) >>))
       \/ /\ req.number \notin DOMAIN m_emailArray[r]
          /\ Return(r, req, TRUE, GetNextStepCmd(m_step[r]))
    /\ UNCHANGED << conn, m_step, m_strUserAddr, m_strPassword, m_emailArray, m_bFinished,
                    T_EMAIL_SEND, running >>

OnList(r, req) ==
    /\ Reading(r, "SEND_PASS_WORD_OK")
    /\ FromString(req) = "LIST"
    /\ ReadMailbox(r, req, "LIST list")
    /\ UNCHANGED << conn, m_step, m_strUserAddr, m_strPassword, m_bFinished,
                    T_EMAIL_SEND, running >>

\* Deviation: the step OnQuit sets stays.
OnQuitKeepsStep(r, req) ==
    /\ Reading(r, "SEND_PASS_WORD_OK")
    /\ FromString(req) = "QUIT"
    /\ m_bFinished' = [m_bFinished EXCEPT ![r] = TRUE]
    /\ m_step' = [m_step EXCEPT ![r] = "SEND_USER_NAME_BAD"]
    /\ Return(r, req, TRUE, Answer("OK tiny_email", << >>))
    /\ UNCHANGED << conn, m_strUserAddr, m_strPassword, m_emailArray,
                    T_EMAIL_SEND, running >>

\* OnQuit sets SEND_USER_NAME_BAD, which the table's step replaces, and
\* IsFinished is FALSE whatever m_bFinished says: the connection stays open.
OnQuit(r, req) ==
    /\ Reading(r, "SEND_PASS_WORD_OK")
    /\ FromString(req) = "QUIT"
    /\ m_bFinished' = [m_bFinished EXCEPT ![r] = TRUE]
    /\ Return(r, req, TRUE, Answer("OK tiny_email", << >>))
    /\ UNCHANGED << conn, m_step, m_strUserAddr, m_strPassword, m_emailArray,
                    T_EMAIL_SEND, running >>

\* The commands the step table has a row for.
Rows(step) ==
    CASE step = "ON_CONNECT"        -> {"USER", "CAPA"}
      [] step = "SEND_USER_NAME_OK" -> {"PASS"}
      [] step = "SEND_PASS_WORD_OK" -> {"STAT", "RETR", "LIST", "QUIT"}
      [] OTHER                      -> {}

\* A request that is not understood, or has no row in this step, is dropped.
Unanswered(r, req) ==
    /\ Reading(r, m_step[r])
    /\ FromString(req) \notin Rows(m_step[r])
    /\ Return(r, req, FALSE, Nothing)
    /\ UNCHANGED << conn, m_step, m_strUserAddr, m_strPassword, m_emailArray, m_bFinished,
                    T_EMAIL_SEND, running >>

OnRecive(r, req) ==
    \/ OnUser(r, req)
    \/ OnCapa(r, req)
    \/ OnPassword(r, req)
    \/ OnState(r, req)
    \/ OnRetr(r, req)
    \/ OnList(r, req)
    \/ OnQuit(r, req)
    \/ Unanswered(r, req)

\* SaveSendMailInfo, called by the SMTP sessions of the same process.
MailSaved ==
    /\ running
    /\ Len(T_EMAIL_SEND) < MaxMails
    /\ \E m \in NewMails : T_EMAIL_SEND' = Append(T_EMAIL_SEND, m)
    /\ UNCHANGED << session, running >>

SessionInit ==
    /\ conn = [r \in Readers |-> "none"]
    /\ m_step = [r \in Readers |-> "ON_CONNECT"]
    /\ m_strUserAddr = [r \in Readers |-> EmptyText]
    /\ m_strPassword = [r \in Readers |-> EmptyText]
    /\ m_emailArray = [r \in Readers |-> << >>]
    /\ m_bFinished = [r \in Readers |-> FALSE]
    /\ last = [r \in Readers |-> [req |-> NoRequest, ret |-> TRUE, answer |-> Nothing]]
    /\ listed = [r \in Readers |-> << >>]

Init == SessionInit /\ T_EMAIL_SEND = << >> /\ running = TRUE

SessionNext ==
    \E r \in Readers :
        \/ Accept(r)
        \/ Disconnect(r)
        \/ \E req \in Requests : OnRecive(r, req)

Next == SessionNext \/ MailSaved

Spec == Init /\ [][Next]_vars

----------------------------------------------------------------------------
TypeOK ==
    /\ conn \in [Readers -> {"none", "open", "closed"}]
    /\ m_step \in [Readers -> {"ON_CONNECT", "SEND_USER_NAME_OK", "SEND_PASS_WORD_OK"}]
    /\ m_strUserAddr \in [Readers -> Text]
    /\ m_strPassword \in [Readers -> Text]
    /\ m_emailArray \in [Readers -> Seq(Nat)]
    /\ m_bFinished \in [Readers -> BOOLEAN]
    /\ T_EMAIL_SEND \in Seq(NewMails)
    /\ running \in BOOLEAN
    /\ last \in [Readers -> [req : Requests \cup {NoRequest}, ret : BOOLEAN,
                             answer : [kind : AnswerKinds, mails : Seq(Nat)]]]
    /\ listed \in [Readers -> Seq(Nat)]

\* While mails arrive and other sessions read, the mails a session holds are a
\* gapless beginning of its user's mailbox, each of them once, although no
\* lock or transaction spans its commands (OnPassword, OnList, GetRecvMailInfo).
ArrayIsListing ==
    \A r \in Readers : IsListing(m_emailArray[r], T_EMAIL_SEND, m_strUserAddr[r])

\* What a client knows of its mailbox is what the server goes by: the array RETR
\* looks at is the listing the client was sent last, so no command renumbers the
\* mails behind its back.  A mail is the answer to a number of that listing only,
\* and is the listing's last one, whichever number it was, and though later mails
\* may have come since (OnRetr).
NumberingIsKnown ==
    \A r \in Readers :
        /\ m_emailArray[r] = listed[r]
        /\ last[r].answer.kind = "mail" =>
              /\ last[r].req.number \in DOMAIN listed[r]
              /\ last[r].answer.mails = << Last(listed[r]) >>

\* A mail that was shown once stays a mail of the user: what a session shows
\* or holds is addressed to the user it named, at any later time.
ShownMailIsAddressed ==
    \A r \in Readers : \A i \in DOMAIN last[r].answer.mails :
        T_EMAIL_SEND[last[r].answer.mails[i]].receiver = m_strUserAddr[r]

\* pop3_proto_test.cpp: LIST without an argument is a request the handler takes
\* once the user has logged in.
BareListIsTaken ==
    \A r \in Readers :
        m_step[r] = "SEND_PASS_WORD_OK" /\ last[r].req.word = "LIST" => last[r].ret

\* pop3_proto_test.cpp: the handler returns false for QUIT.
QuitReturnsFalse ==
    \A r \in Readers : m_bFinished[r] /\ last[r].req.word = "QUIT" => ~last[r].ret

=============================================================================
