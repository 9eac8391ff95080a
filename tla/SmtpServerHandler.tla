------------------------- MODULE SmtpServerHandler -------------------------
(***************************************************************************)
(* The SMTP sessions of the server: CSmtpServerProtoHandler, driven by     *)
(* CSmtpHandler.  A session is one accepted connection.  Every action is   *)
(* one callback of the event loop, CSmtpHandler::OnRecive with the bytes   *)
(* of one read: OnClientReq, the sending of GetResponse() and the closing  *)
(* of the connection once IsFinished().  A chunk the handler of the        *)
(* current step does not accept changes nothing and is not answered, a     *)
(* stuttering step.                                                        *)
(*                                                                         *)
(* The server does not look for lines or commands: whatever one read       *)
(* returns is the request of the current step.                             *)
(***************************************************************************)
EXTENDS ProtoUtil, SequencesExt

CONSTANTS
    Sessions,   \* connections to the SMTP port
    Chunks,     \* what one read may return
    Users,      \* the rows of the user cache, filled before the server starts
    MaxData     \* bound: length of the data one session sends after DATA

ASSUME SmtpAssumption ==
    /\ Chunks \subseteq Seq(Words) \ {<< >>}
    /\ MaxData \in Nat
    /\ Users \subseteq [userName_ : Text, userPassword_ : Text]

VARIABLES
    conn,            \* the connection of a session: "none", "open" or "closed"
    m_step,
    m_strUserName,
    m_strUserAddr,
    m_strPassword,
    m_emailData,
    m_bFinished,
    T_EMAIL_SEND,    \* the rows of the mail table, in the order of their ID
    running,         \* the server process is up
    replies,         \* history: the nonempty replies a session was sent
    savedBy          \* history: the session each row of T_EMAIL_SEND comes from

login   == << m_strUserName, m_strUserAddr, m_strPassword >>
mail    == << m_emailData, m_bFinished, T_EMAIL_SEND, savedBy >>
vars    == << conn, m_step, login, mail, running, replies >>

----------------------------------------------------------------------------
\* Deviation: the row of RCPT TO skips the DATA request.
NextStepSkipsData ==
    [ SMTP_BEGIN               |-> "SMTP_ON_CONNECT",
      SMTP_ON_CONNECT          |-> "SMTP_RECV_HELO_FIRST",
      SMTP_RECV_HELO_FIRST     |-> "SMTP_RECV_AUTH_LOGIN_REQ",
      SMTP_RECV_AUTH_LOGIN_REQ |-> "SMTP_RECV_PASS_WORD_REQ",
      SMTP_RECV_PASS_WORD_REQ  |-> "SMTP_NAME_PASS_VERIFY",
      SMTP_NAME_PASS_VERIFY    |-> "SMTP_RECV_MAIL_FROM_REQ",
      SMTP_RECV_MAIL_FROM_REQ  |-> "SMTP_RECV_RCPT_TO_REQ",
      SMTP_RECV_RCPT_TO_REQ    |-> "SMTP_RECV_EMAIL_DATA",
      SMTP_RECV_DATA_REQ       |-> "SMTP_RECV_EMAIL_DATA",
      SMTP_RECV_EMAIL_DATA     |-> "SMTP_RECV_EMAIL_DATA",
      SMTP_END                 |-> "SMTP_END" ]

\* The step table: the step that follows once a step's callback returns true.
NextStep ==
    [ SMTP_BEGIN               |-> "SMTP_ON_CONNECT",
      SMTP_ON_CONNECT          |-> "SMTP_RECV_HELO_FIRST",
      SMTP_RECV_HELO_FIRST     |-> "SMTP_RECV_AUTH_LOGIN_REQ",
      SMTP_RECV_AUTH_LOGIN_REQ |-> "SMTP_RECV_PASS_WORD_REQ",
      SMTP_RECV_PASS_WORD_REQ  |-> "SMTP_NAME_PASS_VERIFY",
      SMTP_NAME_PASS_VERIFY    |-> "SMTP_RECV_MAIL_FROM_REQ",
      SMTP_RECV_MAIL_FROM_REQ  |-> "SMTP_RECV_RCPT_TO_REQ",
      SMTP_RECV_RCPT_TO_REQ    |-> "SMTP_RECV_DATA_REQ",
      SMTP_RECV_DATA_REQ       |-> "SMTP_RECV_EMAIL_DATA",
      SMTP_RECV_EMAIL_DATA     |-> "SMTP_RECV_EMAIL_DATA",
      SMTP_END                 |-> "SMTP_END" ]

Steps == DOMAIN NextStep

\* Deviation: a wrong password is answered.
GetNextStepCmdRejects(step) ==
    CASE step = "SMTP_ON_CONNECT"          -> "220"
      [] step = "SMTP_RECV_HELO_FIRST"     -> "250 AUTH"
      [] step = "SMTP_RECV_AUTH_LOGIN_REQ" -> "334 Username"
      [] step = "SMTP_RECV_PASS_WORD_REQ"  -> "334 Password"
      [] step = "SMTP_NAME_PASS_VERIFY"    -> "235"
      [] step = "SMTP_RECV_MAIL_FROM_REQ"  -> "250"
      [] step = "SMTP_RECV_RCPT_TO_REQ"    -> "250"
      [] step = "SMTP_RECV_DATA_REQ"       -> "354"
      [] step = "SMTP_END"                 -> "535"
      [] OTHER                             -> ""

\* The reply to an accepted request, by the step it was read in.  The word
\* after a code tells apart replies that share it.
GetNextStepCmd(step) ==
    CASE step = "SMTP_ON_CONNECT"          -> "220"
      [] step = "SMTP_RECV_HELO_FIRST"     -> "250 AUTH"
      [] step = "SMTP_RECV_AUTH_LOGIN_REQ" -> "334 Username"
      [] step = "SMTP_RECV_PASS_WORD_REQ"  -> "334 Password"
      [] step = "SMTP_NAME_PASS_VERIFY"    -> "235"
      [] step = "SMTP_RECV_MAIL_FROM_REQ"  -> "250"
      [] step = "SMTP_RECV_RCPT_TO_REQ"    -> "250"
      [] step = "SMTP_RECV_DATA_REQ"       -> "354"
      [] OTHER                             -> ""

Replies == {"220", "250 AUTH", "334 Username", "334 Password", "235", "250", "354",
            "NOT Support"}

IsPasswordRight(name, password) ==
    \E u \in Users : u.userName_ = name /\ u.userPassword_ = password

----------------------------------------------------------------------------
\* Send(GetResponse()): the response is cleared as it is read, and an empty
\* one puts no byte on the connection.
Send(s, rsp) ==
    replies' = [replies EXCEPT ![s] = IF rsp = "" THEN @ ELSE Append(@, rsp)]

\* Deviation: the reply is the one of the row, whatever the callback did.
AcceptedByRow(s, stepLeft) ==
    /\ Send(s, GetNextStepCmd(m_step[s]))
    /\ m_step' = [m_step EXCEPT ![s] = NextStep[m_step[s]]]

\* The callback of the current row returned true: the reply is the one of the
\* step the callback left in m_step, the next step is the row's.
Accepted(s, stepLeft) ==
    /\ Send(s, GetNextStepCmd(stepLeft))
    /\ m_step' = [m_step EXCEPT ![s] = NextStep[m_step[s]]]

\* The callback returned false after it set the response and the step itself.
Refused(s, rsp, step) ==
    /\ Send(s, rsp)
    /\ m_step' = [m_step EXCEPT ![s] = step]

Reading(s, step) ==
    /\ running
    /\ conn[s] = "open"
    /\ m_step[s] = step

----------------------------------------------------------------------------
\* DoAccept: a new handler greets from SetTcpSocket, before the first read.
Accept(s) ==
    /\ running
    /\ conn[s] = "none"
    /\ conn' = [conn EXCEPT ![s] = "open"]
    /\ m_step' = [m_step EXCEPT ![s] = "SMTP_RECV_HELO_FIRST"]
    /\ Send(s, GetNextStepCmd("SMTP_ON_CONNECT"))
    /\ UNCHANGED << login, mail, running >>

\* The peer is gone: a read or a write fails and CTcpClient closes the socket.
\* A read that had ended before a write failed is still handled after it; the
\* two are in the other order here, which leaves every session in the same state.
Disconnect(s) ==
    /\ running
    /\ conn[s] = "open"
    /\ conn' = [conn EXCEPT ![s] = "closed"]
    /\ UNCHANGED << m_step, login, mail, running, replies >>

OnEhloReq(s, chunk) ==
    /\ Reading(s, "SMTP_RECV_HELO_FIRST")
    /\ HasText(chunk, CRLF)
    /\ \E verb \in {"HELO ", "EHLO"} : HasText(chunk, << verb >>)
    /\ Accepted(s, m_step[s])
    /\ UNCHANGED << conn, login, mail, running >>

\* AUTH PLAIN is taken without a look at its argument.
OnAuthLoginReq(s, chunk) ==
    /\ Reading(s, "SMTP_RECV_AUTH_LOGIN_REQ")
    /\ HasText(chunk, CRLF)
    /\ \/ /\ HasText(chunk, << "AUTH LOGIN" >>)
          /\ Accepted(s, m_step[s])
       \/ /\ ~HasText(chunk, << "AUTH LOGIN" >>)
          /\ HasText(chunk, << "AUTH PLAIN" >>)
          /\ Refused(s, "235", "SMTP_RECV_MAIL_FROM_REQ")
       \/ /\ ~HasText(chunk, << "AUTH LOGIN" >>)
          /\ ~HasText(chunk, << "AUTH PLAIN" >>)
          /\ HasText(chunk, << "AUTH CRAM-MD5" >>)
          /\ Refused(s, "NOT Support", "SMTP_END")
    /\ UNCHANGED << conn, login, mail, running >>

OnPasswordReq(s, chunk) ==
    /\ Reading(s, "SMTP_RECV_PASS_WORD_REQ")
    /\ HasText(chunk, CRLF)
    /\ m_strUserName' = [m_strUserName EXCEPT ![s] = Base64Decode(chunk)]
    /\ Accepted(s, m_step[s])
    /\ UNCHANGED << conn, m_strUserAddr, m_strPassword, mail, running >>

\* After a wrong password the callback sets SMTP_END and returns true all the
\* same: OnClientReq replies with nothing and moves on to the table's step.
OnNamePassVerifyReq(s, chunk) ==
    LET addr     == CreateUserAddrFromNameAndDomain(m_strUserName[s], Domain)
        password == Base64Decode(chunk)
    IN  /\ Reading(s, "SMTP_NAME_PASS_VERIFY")
        /\ m_strUserAddr' = [m_strUserAddr EXCEPT ![s] = addr]
        /\ m_strPassword' = [m_strPassword EXCEPT ![s] = password]
        /\ \/ IsPasswordRight(addr, password) /\ Accepted(s, m_step[s])
           \/ ~IsPasswordRight(addr, password) /\ Accepted(s, "SMTP_END")
        /\ UNCHANGED << conn, m_strUserName, mail, running >>

OnMailFromReq(s, chunk) ==
    /\ Reading(s, "SMTP_RECV_MAIL_FROM_REQ")
    /\ Accepted(s, m_step[s])
    /\ UNCHANGED << conn, login, mail, running >>

OnRcptToReq(s, chunk) ==
    /\ Reading(s, "SMTP_RECV_RCPT_TO_REQ")
    /\ Accepted(s, m_step[s])
    /\ UNCHANGED << conn, login, mail, running >>

OnDataReq(s, chunk) ==
    /\ Reading(s, "SMTP_RECV_DATA_REQ")
    /\ Accepted(s, m_step[s])
    /\ UNCHANGED << conn, login, mail, running >>

----------------------------------------------------------------------------
\* Deviation: the connection of a finished session stays open.
NeverCloses(s, finished) == UNCHANGED conn

\* The end of CSmtpHandler::OnRecive.
CloseIfFinished(s, finished) ==
    conn' = IF finished THEN [conn EXCEPT ![s] = "closed"] ELSE conn

\* Deviation: the end of the data is looked for in the last read only.
ChunkEndsData(s, chunk) == HasText(chunk, EndOfData)

\* Deviation: a blank line ends the data.
BlankLineEndsData(s, chunk) == BlankLines(m_emailData[s] \o chunk) # {}

\* The end of the data is looked for in everything received since DATA.
EndsData(s, chunk) == HasText(m_emailData[s] \o chunk, EndOfData)

\* Deviation: the row replaces the ones saved before it.
SaveOverRows(s, email) ==
    /\ T_EMAIL_SEND' = << email >>
    /\ savedBy' = Append(savedBy, s)

\* SaveSendMailInfo may fail; no caller looks at its result.
SaveSendMailInfo(s, email) ==
    \/ /\ T_EMAIL_SEND' = Append(T_EMAIL_SEND, email)
       /\ savedBy' = Append(savedBy, s)
    \/ UNCHANGED << T_EMAIL_SEND, savedBy >>

\* Neither the data before its end nor the end itself is answered.
OnData(s, chunk) ==
    /\ Reading(s, "SMTP_RECV_EMAIL_DATA")
    /\ Len(m_emailData[s]) + Len(chunk) <= MaxData
    /\ m_emailData' = [m_emailData EXCEPT ![s] = @ \o chunk]
    /\ \/ /\ EndsData(s, chunk)
          /\ SaveSendMailInfo(s, ParseEmailForSmtp(m_emailData[s] \o chunk))
          /\ m_bFinished' = [m_bFinished EXCEPT ![s] = TRUE]
       \/ /\ ~EndsData(s, chunk)
          /\ UNCHANGED << T_EMAIL_SEND, savedBy, m_bFinished >>
    /\ CloseIfFinished(s, m_bFinished'[s])
    /\ UNCHANGED << m_step, login, running, replies >>

\* Deviation: a request that no callback takes is handled again, in any step.
OnClientReqAgain(s) ==
    /\ Reading(s, m_step[s])
    /\ running' = FALSE
    /\ conn' = [x \in Sessions |-> IF conn[x] = "open" THEN "closed" ELSE conn[x]]
    /\ UNCHANGED << m_step, login, mail, replies >>

\* The row of SMTP_END calls OnClientReq itself, which finds the same row
\* again: the stack overflows and the process ends, with every connection.
OnClientReqAtEnd(s) ==
    /\ Reading(s, "SMTP_END")
    /\ running' = FALSE
    /\ conn' = [x \in Sessions |-> IF conn[x] = "open" THEN "closed" ELSE conn[x]]
    /\ UNCHANGED << m_step, login, mail, replies >>

OnRecive(s, chunk) ==
    \/ OnEhloReq(s, chunk)
    \/ OnAuthLoginReq(s, chunk)
    \/ OnPasswordReq(s, chunk)
    \/ OnNamePassVerifyReq(s, chunk)
    \/ OnMailFromReq(s, chunk)
    \/ OnRcptToReq(s, chunk)
    \/ OnDataReq(s, chunk)
    \/ OnData(s, chunk)
    \/ OnClientReqAtEnd(s)

Init ==
    /\ conn = [s \in Sessions |-> "none"]
    /\ m_step = [s \in Sessions |-> "SMTP_BEGIN"]
    /\ m_strUserName = [s \in Sessions |-> EmptyText]
    /\ m_strUserAddr = [s \in Sessions |-> EmptyText]
    /\ m_strPassword = [s \in Sessions |-> EmptyText]
    /\ m_emailData = [s \in Sessions |-> << >>]
    /\ m_bFinished = [s \in Sessions |-> FALSE]
    /\ T_EMAIL_SEND = << >>
    /\ running = TRUE
    /\ replies = [s \in Sessions |-> << >>]
    /\ savedBy = << >>

Next ==
    \E s \in Sessions :
        \/ Accept(s)
        \/ Disconnect(s)
        \/ \E chunk \in Chunks : OnRecive(s, chunk)

Spec == Init /\ [][Next]_vars

----------------------------------------------------------------------------
Row == [receiver : Text, context : Seq(Words)]

TypeOK ==
    /\ conn \in [Sessions -> {"none", "open", "closed"}]
    /\ m_step \in [Sessions -> Steps]
    /\ m_strUserName \in [Sessions -> Text]
    /\ m_strUserAddr \in [Sessions -> Text]
    /\ m_strPassword \in [Sessions -> Text]
    /\ m_emailData \in [Sessions -> Seq(Words)]
    /\ m_bFinished \in [Sessions -> BOOLEAN]
    /\ T_EMAIL_SEND \in Seq(Row)
    /\ running \in BOOLEAN
    /\ replies \in [Sessions -> Seq(Replies)]
    /\ savedBy \in Seq(Sessions)

\* The replies a session may have been sent, by the step it is in.
LoginDialogue == << "220", "250 AUTH", "334 Username", "334 Password" >>

GreetedThrough == { LoginDialogue \o << "235" >>,          \* right password
                    LoginDialogue,                          \* wrong password
                    << "220", "250 AUTH", "235" >> }        \* AUTH PLAIN

Followed(tail) == {d \o tail : d \in GreetedThrough}

Dialogues ==
    [ SMTP_BEGIN               |-> {<< >>},
      SMTP_ON_CONNECT          |-> {},
      SMTP_RECV_HELO_FIRST     |-> {<< "220" >>},
      SMTP_RECV_AUTH_LOGIN_REQ |-> {<< "220", "250 AUTH" >>},
      SMTP_RECV_PASS_WORD_REQ  |-> {<< "220", "250 AUTH", "334 Username" >>},
      SMTP_NAME_PASS_VERIFY    |-> {LoginDialogue},
      SMTP_RECV_MAIL_FROM_REQ  |-> GreetedThrough,
      SMTP_RECV_RCPT_TO_REQ    |-> Followed(<< "250" >>),
      SMTP_RECV_DATA_REQ       |-> Followed(<< "250", "250" >>),
      SMTP_RECV_EMAIL_DATA     |-> Followed(<< "250", "250", "354" >>),
      SMTP_END                 |-> {<< "220", "250 AUTH", "NOT Support" >>} ]

\* Whatever the peer sends and however it is cut into reads, the replies of a
\* session are a beginning of one of four dialogues, and data is taken only
\* after the 354 of that dialogue (OnClientReq, its table and GetNextStepCmd).
DialogueInOrder ==
    \A s \in Sessions :
        /\ replies[s] \in Dialogues[m_step[s]]
        /\ m_emailData[s] # << >> => Last(replies[s]) = "354"

\* Once a session that was asked for a name and a password is past the check,
\* it was answered 235 exactly if the pair it sent is a user's: the wrong pair
\* is not rejected but left unanswered, though the next reply is the same
\* (OnNamePassVerifyReq and the way OnClientReq overrides its step).
LoginAnswered ==
    \A s \in Sessions :
        m_step[s] \in {"SMTP_RECV_MAIL_FROM_REQ", "SMTP_RECV_RCPT_TO_REQ",
                       "SMTP_RECV_DATA_REQ", "SMTP_RECV_EMAIL_DATA"}
          /\ IsPrefix(LoginDialogue, replies[s])
        => (IsPrefix(LoginDialogue \o << "235" >>, replies[s])
              <=> IsPasswordRight(m_strUserAddr[s], m_strPassword[s]))

\* A session is finished, and its connection closed, exactly once the end of
\* the data was received, however the five characters were cut into reads; an
\* end that no line break precedes does not count (OnData, CSmtpHandler::OnRecive).
FinishedAtEndOfData ==
    \A s \in Sessions :
        /\ m_bFinished[s] <=> HasText(m_emailData[s], EndOfData)
        /\ m_bFinished[s] => conn[s] = "closed"

\* Every row of the mail table is the mail one finished session sent, in full,
\* and no session has two rows: m_emailData is never cleared, so a second save
\* is avoided only because the connection is closed (OnData, OnRecive).
OneRowPerFinishedSession ==
    /\ Len(savedBy) = Len(T_EMAIL_SEND)
    /\ \A i \in DOMAIN savedBy :
          /\ m_bFinished[savedBy[i]]
          /\ T_EMAIL_SEND[i] = ParseEmailForSmtp(m_emailData[savedBy[i]])
          /\ \A j \in DOMAIN savedBy : savedBy[i] = savedBy[j] => i = j

\* The process ends by itself only through a request after the refusal of
\* AUTH CRAM-MD5, not through the SMTP_END a wrong password sets for a moment.
EndsOnlyAfterRefusal ==
    ~running => \E s \in Sessions : replies[s] # << >> /\ Last(replies[s]) = "NOT Support"

=============================================================================
