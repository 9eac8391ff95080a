------------------------- MODULE ImapServerHandler -------------------------
(***************************************************************************)
(* One session of CImapServerProtoHandler in its CImapServerHandler.  The  *)
(* server does not start it at present.  Unlike the other two protocols it *)
(* keeps what it receives until a line is complete, and it walks its table *)
(* to the end even after a row has matched.  With the line everything goes *)
(* that is in the buffer: what a read holds behind a line end is lost.     *)
(*                                                                         *)
(* A text is a sequence of lexemes; "SP", "CR" and "LF" are characters.  A *)
(* word of a command stands for all its spellings, since the code compares *)
(* without case.  A response is the command it answers; its text is fixed. *)
(***************************************************************************)
EXTENDS SequencesExt

CONSTANTS
    Chunks,      \* what one read may return
    MaxText,     \* bound: lexemes in m_strReceive
    MaxReplies   \* bound: answers in a session

\* What a read may hold.
Lexemes == UNION {Range(chunk) : chunk \in Chunks}

ASSUME ImapAssumption ==
    /\ Chunks \subseteq Seq(Lexemes)
    /\ MaxText \in Nat /\ MaxReplies \in Nat

VARIABLES
    m_step,
    m_strReceive,
    replies,       \* history: the answers that were sent
    unfinished,    \* history: what the peer has sent since its last line end
    behind,        \* history: a read has had something behind a line end
    due            \* history: the step and answers of a session that was handed
                   \* each line in a read of its own, while ~behind

sent == << unfinished, behind, due >>
vars == << m_step, m_strReceive, replies, sent >>

----------------------------------------------------------------------------
Commands == {"CAPABILITY", "NOOP", "SELECT", "EXAMINE", "SEARCH", "FETCH", "LIST",
             "LOGOUT", "LOGIN"}

Spaces(text) == {i \in DOMAIN text : text[i] = "SP"}

\* The first position of a set, as find_first_of returns it; 0 when there is none.
First(positions) == IF positions = {} THEN 0 ELSE CHOOSE i \in positions : \A j \in positions : i <= j

\* FromString: the command is what is between the first space and the second,
\* or the end of the text without its last two characters.
CmdOf(text) ==
    LET from == First(Spaces(text)) + 1
        to   == First({i \in Spaces(text) : i >= from})
    IN  SubSeq(text, from, IF to = 0 THEN Len(text) - 2 ELSE to - 1)

CodeOf(text) == IF \E cmd \in Commands : CmdOf(text) = << cmd >>
                THEN CmdOf(text)[1] ELSE "UNKNOWN_CMD"

IsCommandComplete(text) ==
    \E i \in 1 .. Len(text) - 1 : text[i] = "CR" /\ text[i + 1] = "LF"

Row(cur, cmd, next) == [curState |-> cur, curCmdId |-> cmd, nextState |-> next]

\* Deviation: CAPABILITY has a row for the step its first row leads to, and a walk
\* without a break takes both for one line.
ImapArrayWithLoops ==
    << Row("SERVER_BEGIN", "CAPABILITY", "SERVER_NOT_LOGIN"),
       Row("SERVER_NOT_LOGIN", "CAPABILITY", "SERVER_LOGIN_SUCCEED"),
       Row("SERVER_NOT_LOGIN", "LOGIN", "SERVER_LOGIN_SUCCEED"),
       Row("SERVER_LOGIN_SUCCEED", "SELECT", "SERVER_LOGIN_SUCCEED"),
       Row("SERVER_LOGIN_SUCCEED", "LOGOUT", "SERVER_LOGIN_FAILED") >>

imapArray ==
    << Row("SERVER_BEGIN", "CAPABILITY", "SERVER_NOT_LOGIN"),
       Row("SERVER_NOT_LOGIN", "LOGIN", "SERVER_LOGIN_SUCCEED"),
       Row("SERVER_LOGIN_SUCCEED", "NOOP", "SERVER_LOGIN_SUCCEED"),
       Row("SERVER_LOGIN_SUCCEED", "SELECT", "SERVER_LOGIN_SUCCEED"),
       Row("SERVER_LOGIN_SUCCEED", "EXAMINE", "SERVER_LOGIN_SUCCEED"),
       Row("SERVER_LOGIN_SUCCEED", "LIST", "SERVER_LOGIN_SUCCEED"),
       Row("SERVER_LOGIN_SUCCEED", "SEARCH", "SERVER_LOGIN_SUCCEED"),
       Row("SERVER_LOGIN_SUCCEED", "FETCH", "SERVER_LOGIN_SUCCEED"),
       Row("SERVER_LOGIN_SUCCEED", "LOGOUT", "SERVER_LOGIN_FAILED") >>

\* OnCapability to OnLogin: every callback sets the response and returns true.  A
\* response is fixed text, so the command names it.
Response(code) == << code >>

\* Deviation: the else that ends the session is that of the match.
WalkEndingOnMiss(step, code) ==
    LET walked[n \in 0 .. Len(imapArray)] ==
            IF n = 0 THEN [step |-> step, response |-> << >>]
            ELSE IF imapArray[n].curState = walked[n - 1].step /\ imapArray[n].curCmdId = code
            THEN [step |-> imapArray[n].nextState, response |-> Response(code)]
            ELSE [walked[n - 1] EXCEPT !.step = "SERVER_END"]
    IN  walked[Len(imapArray)]

\* The whole table is walked, each row with the step the rows before have left.
Walk(step, code) ==
    LET walked[n \in 0 .. Len(imapArray)] ==
            IF n = 0 THEN [step |-> step, response |-> << >>]
            ELSE IF imapArray[n].curState = walked[n - 1].step /\ imapArray[n].curCmdId = code
            THEN [step |-> imapArray[n].nextState, response |-> Response(code)]
            ELSE walked[n - 1]
    IN  walked[Len(imapArray)]

----------------------------------------------------------------------------
(***************************************************************************)
(* What the peer has sent, and what a session makes of its lines that is   *)
(* handed one at a time and takes each by the row of the step before it:   *)
(* neither reads a buffer, nor walks on.                                   *)
(***************************************************************************)
\* Where the line ends of a text begin.
EndsOfLines(text) == {i \in 1 .. Len(text) - 1 : text[i] = "CR" /\ text[i + 1] = "LF"}

\* What follows the last line end of a text.
LastLine(text) ==
    IF EndsOfLines(text) = {} THEN text
    ELSE SubSeq(text, Max(EndsOfLines(text)) + 2, Len(text))

\* One line, after the session that is due.
AfterLine(before, code) ==
    LET rows == {n \in DOMAIN imapArray :
                    imapArray[n].curState = before.step /\ imapArray[n].curCmdId = code}
    IN  IF rows = {} THEN before
        ELSE [step    |-> imapArray[CHOOSE n \in rows : TRUE].nextState,
              replies |-> Append(before.replies, code)]

Sends(chunk) ==
    LET text == unfinished \o chunk
    IN  /\ unfinished' = LastLine(text)
        /\ behind' = (behind \/ \E i \in EndsOfLines(text) : i + 1 < Len(text))
        /\ due' = IF behind' \/ EndsOfLines(text) = {} THEN due ELSE AfterLine(due, CodeOf(text))

----------------------------------------------------------------------------
\* The line goes to the table, and what was received after it goes with it.
HandleLine(text) ==
    LET walked == Walk(m_step, CodeOf(text))
    IN  /\ m_step' = walked.step
        /\ replies' = replies \o walked.response
        /\ m_strReceive' = << >>

\* Deviation: a line end is looked for in what was read last only.
OnReciveInLastRead(chunk) ==
    LET text == m_strReceive \o chunk
    IN  /\ Len(text) <= MaxText /\ Len(replies) < MaxReplies
        /\ \/ IsCommandComplete(chunk) /\ HandleLine(text)
           \/ /\ ~IsCommandComplete(chunk)
              /\ m_strReceive' = text
              /\ UNCHANGED << m_step, replies >>
        /\ Sends(chunk)

\* One read: it completes a line, or it is kept.
OnRecive(chunk) ==
    LET text == m_strReceive \o chunk
    IN  /\ Len(text) <= MaxText /\ Len(replies) < MaxReplies
        /\ \/ IsCommandComplete(text) /\ HandleLine(text)
           \/ /\ ~IsCommandComplete(text)
              /\ m_strReceive' = text
              /\ UNCHANGED << m_step, replies >>
        /\ Sends(chunk)

\* The greeting of the constructor is sent when the socket is set.
Init ==
    /\ m_step = "SERVER_BEGIN"
    /\ m_strReceive = << >>
    /\ replies = << "OK" >>
    /\ unfinished = << >>
    /\ behind = FALSE
    /\ due = [step |-> "SERVER_BEGIN", replies |-> << "OK" >>]

Next == \E chunk \in Chunks : OnRecive(chunk)

Spec == Init /\ [][Next]_vars

----------------------------------------------------------------------------
TypeOK ==
    /\ m_step \in {"SERVER_BEGIN", "SERVER_NOT_LOGIN", "SERVER_LOGIN_SUCCEED", "SERVER_LOGIN_FAILED"}
    /\ m_strReceive \in Seq(Lexemes)
    /\ replies \in Seq(Commands \cup {"OK"})
    /\ unfinished \in Seq(Lexemes)
    /\ behind \in BOOLEAN

\* However lines are cut into reads or run together, the answers are a greeting,
\* the capabilities, a login, then answers about the mailbox, and nothing after
\* the answer to LOGOUT (imapArray, walked without a break).
DialogueInOrder ==
    \A i \in DOMAIN replies :
        /\ i = 1 <=> replies[i] = "OK"
        /\ i = 2 <=> replies[i] = "CAPABILITY"
        /\ i = 3 <=> replies[i] = "LOGIN"
        /\ replies[i] = "LOGOUT" => i > 3 /\ i = Len(replies)

\* A line cut into reads, anywhere, is handled as if it came whole: while no read
\* holds more than the end of a line, the step, the answers and the buffer are those
\* of a session that is handed line by line.  And the text that is lost when a read
\* holds more costs the line it begins, and no other: what is kept belongs to the
\* line the peer is in, all but the end of a line whose first half was lost
\* (OnClientReq, which clears the whole buffer with a line).
HandledByLine ==
    /\ ~behind => /\ m_strReceive = unfinished
                  /\ m_step = due.step /\ replies = due.replies
    /\ \/ IsSuffix(m_strReceive, unfinished)
       \/ m_strReceive = << "LF" >> \o unfinished

=============================================================================
