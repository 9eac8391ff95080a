----------------------------- MODULE MailSender -----------------------------
(***************************************************************************)
(* A client with one mail, over the sessions of EmailServer and a network  *)
(* that hands over what was written in pieces of its own.  The server does *)
(* not answer the end of a mail: all the client can see is that its        *)
(* connection was closed, by a finished session or by a failure.  So it    *)
(* tries again, in another session, only while it has not written the end  *)
(* of the mail.                                                            *)
(*                                                                         *)
(* A script is what the client writes: a request for each reply of the     *)
(* dialogue, then the mail in two parts.                                   *)
(***************************************************************************)
EXTENDS EmailServer, SequencesExt

CONSTANT Scripts

\* What the first n parts of a script are together.
Written(parts, n) == FlattenSeq(SubSeq(parts, 1, n))

\* Nothing but the last part ends the mail.
ASSUME MailSenderAssumption ==
    \A parts \in Scripts :
        /\ parts \in Seq(Seq(Words))
        /\ Len(parts) > 2
        /\ \A n \in 0 .. Len(parts) - 1 : ~HasText(Written(parts, n), EndOfData)

VARIABLES
    script,  \* the one of this run
    client,  \* a session, as the client sees it: "unused", "open" or "over"
    wrote,   \* how much of the script was written to a session
    wire     \* what was written to a session and not yet read

senderVars == << script, client, wrote, wire >>

\* The requests of the dialogue, which are answered; the mail is not.
Questions == Len(script) - 2

----------------------------------------------------------------------------
MayTry(s) ==
    \A t \in Sessions : client[t] = "unused" \/ (client[t] = "over" /\ wrote[t] < Len(script))

\* Everything the server is asked for before the data has been answered.
Answered(s) == Len(replies[s]) = Min({wrote[s], Questions}) + 1

UnchangedServer == UNCHANGED << running, T_EMAIL_SEND, smtpSession, pop3Session >>

Connect(s) ==
    /\ client[s] = "unused"
    /\ MayTry(s)
    /\ Smtp!Accept(s)
    /\ UNCHANGED pop3Session
    /\ client' = [client EXCEPT ![s] = "open"]
    /\ UNCHANGED << script, wrote, wire >>

\* The client may write before it notices that the session is closed.
Write(s) ==
    /\ client[s] = "open"
    /\ Answered(s)
    /\ wrote[s] < Len(script)
    /\ wrote' = [wrote EXCEPT ![s] = @ + 1]
    /\ wire' = [wire EXCEPT ![s] = @ \o script[wrote[s] + 1]]
    /\ UNCHANGED << script, client >>
    /\ UnchangedServer

Notice(s) ==
    /\ client[s] = "open"
    /\ smtpConn[s] = "closed"
    /\ client' = [client EXCEPT ![s] = "over"]
    /\ UNCHANGED << script, wrote, wire >>
    /\ UnchangedServer

\* A request is short enough for one read; a mail comes in any pieces.
Read(s) ==
    \E k \in 1 .. Len(wire[s]) :
        /\ k < Len(wire[s]) => smtpStep[s] = "SMTP_RECV_EMAIL_DATA"
        /\ Smtp!OnRecive(s, SubSeq(wire[s], 1, k))
        /\ IF running' THEN UNCHANGED pop3Conn ELSE DropPop3
        /\ UNCHANGED << pop3Step, pop3UserAddr, pop3Password, m_emailArray, pop3Finished,
                        last, listed >>
        /\ wire' = [wire EXCEPT ![s] = SubSeq(@, k + 1, Len(@))]
        /\ UNCHANGED << script, client, wrote >>

\* The network fails, or the process is ended and started.
Fail ==
    /\ \/ \E s \in Sessions : Smtp!Disconnect(s) /\ UNCHANGED pop3Session
       \/ Kill
       \/ \E s \in Sessions : \E k \in 1 .. Len(wire[s]) : KillAfterSave(s, SubSeq(wire[s], 1, k))
    /\ UNCHANGED senderVars

Restart == Start /\ UNCHANGED senderVars

SenderInit ==
    /\ Init
    /\ script \in Scripts
    /\ client = [s \in Sessions |-> "unused"]
    /\ wrote = [s \in Sessions |-> 0]
    /\ wire = [s \in Sessions |-> << >>]

SenderNext ==
    \/ \E s \in Sessions : Connect(s) \/ Write(s) \/ Notice(s) \/ Read(s)
    \/ Fail
    \/ Restart

\* The loop of the server handles what was read; nothing else is sure to come.
SenderSpec ==
    /\ SenderInit
    /\ [][SenderNext]_<< vars, senderVars >>
    /\ \A s \in Sessions : WF_<< vars, senderVars >>(Read(s))

----------------------------------------------------------------------------
\* A client that tries again only while it has not written the end of its mail
\* never has the mail stored twice: no piece of a mail is saved before its end
\* was read, whatever fails in between (OnData, CSmtpHandler::OnRecive).
StoredAtMostOnce == Len(T_EMAIL_SEND) <= 1

\* The client that sent a wrong password is not answered.
WrongPassword(s) ==
    /\ smtpStep[s] = "SMTP_RECV_MAIL_FROM_REQ"
    /\ replies[s] = Smtp!LoginDialogue
    /\ ~Smtp!IsPasswordRight(smtpUserAddr[s], smtpPassword[s])

\* The client has written a request, or all of its mail, and is not answered.
Waits(s) ==
    /\ smtpConn[s] = "open"
    /\ ~Answered(s) \/ wrote[s] = Len(script)

\* Nobody waits for nothing: whatever a client has written is answered in the
\* end or its connection is closed, the end of a mail by the closing only; the
\* one exception is a wrong password, after which each side waits for the other
\* (OnClientReq, GetNextStepCmd, CSmtpHandler::OnRecive).
NobodyWaits == \A s \in Sessions : Waits(s) ~> ~Waits(s) \/ WrongPassword(s)

=============================================================================
