---------------------------- MODULE EmailServer ----------------------------
(***************************************************************************)
(* The server CEmailServer::Start builds: one process whose event loop runs*)
(* the SMTP sessions and the POP3 sessions over one mail database.  The    *)
(* loop has one thread, so a callback of one session is one step.  The     *)
(* process may end at any time, taking the connections with it, and be     *)
(* started again over the same database file.                              *)
(***************************************************************************)
EXTENDS ProtoUtil, Mailbox

CONSTANTS
    Sessions, Chunks, MaxData,   \* of SmtpServerHandler
    Readers, Requests,           \* of Pop3ServerHandler
    Users                        \* of both: Start fills the user cache first

VARIABLES
    running, T_EMAIL_SEND,
    \* SmtpServerHandler
    smtpConn, smtpStep, smtpUserName, smtpUserAddr, smtpPassword,
    m_emailData, smtpFinished, replies, savedBy,
    \* Pop3ServerHandler
    pop3Conn, pop3Step, pop3UserAddr, pop3Password, m_emailArray, pop3Finished,
    last, listed

Smtp == INSTANCE SmtpServerHandler WITH
    conn <- smtpConn, m_step <- smtpStep, m_strUserName <- smtpUserName,
    m_strUserAddr <- smtpUserAddr, m_strPassword <- smtpPassword,
    m_bFinished <- smtpFinished

Row == [receiver : Text, context : Seq(Words)]

Pop3 == INSTANCE Pop3ServerHandler WITH
    conn <- pop3Conn, m_step <- pop3Step, m_strUserAddr <- pop3UserAddr,
    m_strPassword <- pop3Password, m_bFinished <- pop3Finished,
    NewMails <- Row, MaxMails <- 0

smtpSession == << smtpConn, smtpStep, smtpUserName, smtpUserAddr, smtpPassword,
                  m_emailData, smtpFinished, replies, savedBy >>
pop3Session == << pop3Conn, pop3Step, pop3UserAddr, pop3Password, m_emailArray,
                  pop3Finished, last, listed >>
vars == << running, T_EMAIL_SEND, smtpSession, pop3Session >>

ASSUME EmailServerAssumption ==
    /\ Chunks \subseteq Seq(Words) \ {<< >>}
    /\ MaxData \in Nat
    /\ Users \subseteq [userName_ : Text, userPassword_ : Text]
    /\ Requests \subseteq Pop3!Request

----------------------------------------------------------------------------
\* Every connection of the process, to either port, is gone with it.
DropPop3 == pop3Conn' = [r \in Readers |-> IF pop3Conn[r] = "open" THEN "closed" ELSE pop3Conn[r]]
DropSmtp == smtpConn' = [s \in Sessions |-> IF smtpConn[s] = "open" THEN "closed" ELSE smtpConn[s]]

\* A callback of an SMTP session, which may end the process.
SmtpCallback ==
    /\ Smtp!Next
    /\ IF running' THEN UNCHANGED pop3Conn ELSE DropPop3
    /\ UNCHANGED << pop3Step, pop3UserAddr, pop3Password, m_emailArray, pop3Finished,
                    last, listed >>

\* A callback of a POP3 session.
Pop3Callback ==
    /\ Pop3!SessionNext
    /\ UNCHANGED smtpSession

\* The process ends from outside, between two callbacks.
Kill ==
    /\ running
    /\ running' = FALSE
    /\ DropSmtp
    /\ DropPop3
    /\ UNCHANGED << T_EMAIL_SEND, smtpStep, smtpUserName, smtpUserAddr, smtpPassword,
                    m_emailData, smtpFinished, replies, savedBy, pop3Step, pop3UserAddr,
                    pop3Password, m_emailArray, pop3Finished, last, listed >>

\* The process ends inside OnData, after the insert was committed: the mail is
\* on disk, but its session never finished.
KillAfterSave(s, chunk) ==
    /\ Smtp!Reading(s, "SMTP_RECV_EMAIL_DATA")
    /\ Len(m_emailData[s]) + Len(chunk) <= MaxData
    /\ m_emailData' = [m_emailData EXCEPT ![s] = @ \o chunk]
    /\ Smtp!EndsData(s, chunk)
    /\ T_EMAIL_SEND' = Append(T_EMAIL_SEND, ParseEmailForSmtp(m_emailData'[s]))
    /\ savedBy' = Append(savedBy, s)
    /\ running' = FALSE
    /\ DropSmtp
    /\ DropPop3
    /\ UNCHANGED << smtpStep, smtpUserName, smtpUserAddr, smtpPassword, smtpFinished,
                    replies, pop3Step, pop3UserAddr, pop3Password, m_emailArray,
                    pop3Finished, last, listed >>

\* main runs CEmailServer::Start again: the mail table is the one on disk.
Start ==
    /\ ~running
    /\ running' = TRUE
    /\ UNCHANGED << T_EMAIL_SEND, smtpSession, pop3Session >>

Init == Smtp!Init /\ Pop3!SessionInit

Next ==
    \/ SmtpCallback \/ Pop3Callback
    \/ Kill \/ Start
    \/ \E s \in Sessions, chunk \in Chunks : KillAfterSave(s, chunk)

Spec == Init /\ [][Next]_vars

----------------------------------------------------------------------------
\* The mail store of the server, as its users see it.
Store == INSTANCE MailStore WITH
    store <- T_EMAIL_SEND, owner <- pop3UserAddr, view <- m_emailArray,
    Addresses <- Text, Contents <- Seq(Words)

\* The server implements the store: mails are only ever appended, one at a
\* time, and a reader's list changes only when the reader asks (OnData and
\* SaveSendMailInfo against OnPassword, OnList and GetRecvMailInfo).
ImplementsStore == Store!Spec

\* From end to end: a mail a POP3 session holds is the mail some SMTP session
\* sent in full, up to its closing dot, and whose "To: " line names the user,
\* even if the process ended before the session did.
HeldMailWasSent ==
    \A r \in Readers : \A i \in DOMAIN m_emailArray[r] :
        LET row == m_emailArray[r][i]
            s   == savedBy[row]
        IN  /\ HasText(m_emailData[s], EndOfData)
            /\ ParseEmailForSmtp(m_emailData[s]).receiver = pop3UserAddr[r]
            /\ ParseEmailForSmtp(m_emailData[s]) = T_EMAIL_SEND[row]

=============================================================================
