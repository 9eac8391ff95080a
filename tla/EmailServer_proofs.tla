------------------------- MODULE EmailServer_proofs -------------------------
(* Proofs about the server: it implements the mail store, what a reader     *)
(* holds was sent to it, and its sessions keep what was proved of each kind *)
(* alone.                                                                   *)
EXTENDS MailSender, SequenceTheorems, WellFoundedInduction, TLAPS

SmtpFacts == INSTANCE SmtpServerHandler_proofs WITH
    conn <- smtpConn, m_step <- smtpStep, m_strUserName <- smtpUserName,
    m_strUserAddr <- smtpUserAddr, m_strPassword <- smtpPassword,
    m_bFinished <- smtpFinished

Pop3Facts == INSTANCE Pop3ServerHandler_proofs WITH
    conn <- pop3Conn, m_step <- pop3Step, m_strUserAddr <- pop3UserAddr,
    m_strPassword <- pop3Password, m_bFinished <- pop3Finished,
    NewMails <- Row, MaxMails <- 0

\* A user is named before any mail is held.
Nameless(r) == pop3Conn[r] = "none" \/ pop3Step[r] = "ON_CONNECT"

\* What the mail store is made of is typed, and who is nameless holds nothing.
StoreInv ==
    /\ T_EMAIL_SEND \in Seq(Row)
    /\ m_emailData \in [Sessions -> Seq(Words)]
    /\ smtpConn \in [Sessions -> {"none", "open", "closed"}]
    /\ smtpFinished \in [Sessions -> BOOLEAN]
    /\ pop3Conn \in [Readers -> {"none", "open", "closed"}]
    /\ pop3Step \in [Readers -> {"ON_CONNECT", "SEND_USER_NAME_OK", "SEND_PASS_WORD_OK"}]
    /\ pop3UserAddr \in [Readers -> Text]
    /\ m_emailArray \in [Readers -> Seq(Nat)]
    /\ \A r \in Readers : Nameless(r) => m_emailArray[r] = << >>

----------------------------------------------------------------------------
\* What the SMTP sessions assume of their constants, the server does.
LEMMA SmtpAssumes == SmtpFacts!ProtoUtilAssumption /\ SmtpFacts!SmtpAssumption
<1>1. SmtpFacts!ProtoUtilAssumption
  BY ProtoUtilAssumption DEF SmtpFacts!Text, Text
<1>2. SmtpFacts!SmtpAssumption
  BY EmailServerAssumption DEF SmtpFacts!Text, Text
<1> QED
  BY <1>1, <1>2

\* So what was proved of the text helpers there holds of the server's:
LEMMA SameTexts ==
    /\ SmtpFacts!Text = Text /\ SmtpFacts!EmptyText = EmptyText
    /\ \A text : SmtpFacts!ParseEmailForSmtp(text) = ParseEmailForSmtp(text)
    /\ \A name : SmtpFacts!CreateUserAddrFromNameAndDomain(name, Domain)
                   = CreateUserAddrFromNameAndDomain(name, Domain)
<1>1. SmtpFacts!Text = Text /\ SmtpFacts!EmptyText = EmptyText
  BY DEF SmtpFacts!Text, Text, SmtpFacts!EmptyText, EmptyText
<1>2. ASSUME NEW text PROVE SmtpFacts!ParseEmailForSmtp(text) = ParseEmailForSmtp(text)
  BY DEF SmtpFacts!ParseEmailForSmtp, ParseEmailForSmtp, SmtpFacts!BlankLines, BlankLines,
         SmtpFacts!LineEnds, LineEnds, SmtpFacts!Find, Find, SmtpFacts!CRLF, CRLF,
         SmtpFacts!FirstOfLine, FirstOfLine,
         SmtpFacts!EmptyText, EmptyText, SmtpFacts!Min, Min, SmtpFacts!Max, Max
<1>3. ASSUME NEW name
      PROVE  SmtpFacts!CreateUserAddrFromNameAndDomain(name, Domain)
                 = CreateUserAddrFromNameAndDomain(name, Domain)
  BY <1>1 DEF SmtpFacts!CreateUserAddrFromNameAndDomain, CreateUserAddrFromNameAndDomain,
              SmtpFacts!TrimName, TrimName, SmtpFacts!EmptyText, EmptyText
<1> QED
  BY <1>1, <1>2, <1>3

\* the empty text is a text,
LEMMA EmptyTextType == EmptyText \in Text
<1>1. SmtpFacts!EmptyText \in SmtpFacts!Text
  BY SmtpAssumes, SmtpFacts!EmptyTextType
<1> QED
  BY <1>1, SameTexts

\* the address of a login name is a text,
LEMMA UserAddrType ==
    ASSUME NEW name \in Text
    PROVE  CreateUserAddrFromNameAndDomain(name, Domain) \in Text
<1>1. name \in SmtpFacts!Text
  BY SameTexts
<1>2. SmtpFacts!CreateUserAddrFromNameAndDomain(name, Domain) \in SmtpFacts!Text
  BY <1>1, SmtpAssumes, SmtpFacts!UserAddrType
<1> QED
  BY <1>2, SameTexts

\* and what is parsed of a mail is a row.
LEMMA ParseEmailType ==
    ASSUME NEW text \in Seq(Words)
    PROVE  ParseEmailForSmtp(text) \in [receiver : Text, context : Seq(Words)]
<1>1. SmtpFacts!ParseEmailForSmtp(text) \in [receiver : SmtpFacts!Text, context : Seq(Words)]
  BY SmtpAssumes, SmtpFacts!ParseEmailType
<1> QED
  BY <1>1, SameTexts

----------------------------------------------------------------------------
\* The handlers' text helpers are the server's.
LEMMA SameHelpers ==
    ASSUME NEW text, NEW pat
    PROVE  /\ Smtp!HasText(text, pat) = HasText(text, pat)
           /\ Smtp!EndOfData = EndOfData
           /\ Smtp!ParseEmailForSmtp(text) = ParseEmailForSmtp(text)
<1>1. Smtp!HasText(text, pat) = HasText(text, pat)
  BY DEF Smtp!HasText, HasText, Smtp!Find, Find
<1>2. Smtp!EndOfData = EndOfData
  BY DEF Smtp!EndOfData, EndOfData
<1>3. Smtp!ParseEmailForSmtp(text) = ParseEmailForSmtp(text)
  BY DEF Smtp!ParseEmailForSmtp, ParseEmailForSmtp, Smtp!BlankLines, BlankLines,
         Smtp!LineEnds, LineEnds, Smtp!Find, Find, Smtp!CRLF, CRLF,
         Smtp!FirstOfLine, FirstOfLine,
         Smtp!EmptyText, EmptyText, Smtp!Min, Min, Smtp!Max, Max
<1> QED
  BY <1>1, <1>2, <1>3

\* And so are the listings of the reader's handler, and of the store.
LEMMA SameListings ==
    ASSUME NEW table, NEW user
    PROVE  /\ Pop3!Listings(table, user) = Listings(table, user)
           /\ Store!Listings(table, user) = Listings(table, user)
BY DEF Pop3!Listings, Store!Listings, Listings, Pop3!IsListing, Store!IsListing, IsListing,
       Pop3!Received, Store!Received, Received

----------------------------------------------------------------------------
SmtpTyped ==
    /\ smtpConn \in [Sessions -> {"none", "open", "closed"}]
    /\ smtpFinished \in [Sessions -> BOOLEAN]
    /\ m_emailData \in [Sessions -> Seq(Words)]

\* The data of a session grows; when it reaches its end the session is closed, and
\* the mail may be saved.
TakesData(s, chunk) ==
    /\ smtpConn[s] = "open"
    /\ chunk \in Seq(Words)
    /\ m_emailData' = [m_emailData EXCEPT ![s] = @ \o chunk]
    /\ \A q \in Sessions : smtpConn[q] = "closed" => smtpConn'[q] = "closed"
    /\ HasText(m_emailData'[s], EndOfData) => smtpConn'[s] = "closed"
    /\ \/ UNCHANGED << T_EMAIL_SEND, savedBy >>
       \/ /\ HasText(m_emailData'[s], EndOfData)
          /\ T_EMAIL_SEND' = Append(T_EMAIL_SEND, ParseEmailForSmtp(m_emailData'[s]))
          /\ savedBy' = Append(savedBy, s)

TakesNoData ==
    /\ UNCHANGED << m_emailData, T_EMAIL_SEND, savedBy >>
    /\ \A q \in Sessions : smtpConn[q] = "closed" => smtpConn'[q] = "closed"

SmtpFrame ==
    /\ smtpConn' \in [Sessions -> {"none", "open", "closed"}]
    /\ smtpFinished' \in [Sessions -> BOOLEAN]

\* What SMTP does with any read.
LEMMA SmtpReads ==
    ASSUME SmtpTyped, NEW s \in Sessions, NEW chunk \in Seq(Words), Smtp!OnRecive(s, chunk)
    PROVE  /\ SmtpFrame
           /\ TakesNoData \/ TakesData(s, chunk)
<1>0. /\ smtpConn \in [Sessions -> {"none", "open", "closed"}]
      /\ smtpFinished \in [Sessions -> BOOLEAN]
      /\ m_emailData \in [Sessions -> Seq(Words)]
  BY DEF SmtpTyped
<1>1. CASE Smtp!OnData(s, chunk)
  <2>1. /\ smtpConn[s] = "open" /\ chunk \in Seq(Words)
        /\ m_emailData' = [m_emailData EXCEPT ![s] = @ \o chunk]
        /\ smtpConn' = IF smtpFinished'[s] THEN [smtpConn EXCEPT ![s] = "closed"]
                       ELSE smtpConn
    BY <1>1, EmailServerAssumption DEF Smtp!OnData, Smtp!Reading, Smtp!CloseIfFinished
  <2>2. m_emailData'[s] = m_emailData[s] \o chunk
    BY <1>0, <2>1
  <2>3. Smtp!EndsData(s, chunk) <=> HasText(m_emailData'[s], EndOfData)
    BY <2>2, SameHelpers DEF Smtp!EndsData
  <2>4. CASE Smtp!EndsData(s, chunk)
    <3>1. smtpFinished' = [smtpFinished EXCEPT ![s] = TRUE]
      BY <1>1, <2>4 DEF Smtp!OnData
    <3>2. smtpConn' = [smtpConn EXCEPT ![s] = "closed"]
      BY <1>0, <2>1, <3>1
    <3>3. Smtp!SaveSendMailInfo(s, Smtp!ParseEmailForSmtp(m_emailData[s] \o chunk))
      BY <1>1, <2>4 DEF Smtp!OnData
    <3>4. \/ UNCHANGED << T_EMAIL_SEND, savedBy >>
          \/ /\ T_EMAIL_SEND' = Append(T_EMAIL_SEND, ParseEmailForSmtp(m_emailData'[s]))
             /\ savedBy' = Append(savedBy, s)
      BY <2>2, <3>3, SameHelpers DEF Smtp!SaveSendMailInfo
    <3>5. SmtpFrame
      BY <1>0, <3>1, <3>2 DEF SmtpFrame
    <3>6. TakesData(s, chunk)
      BY <1>0, <2>1, <2>3, <2>4, <3>2, <3>4 DEF TakesData
    <3> QED
      BY <3>5, <3>6
  <2>5. CASE ~Smtp!EndsData(s, chunk)
    <3>1. UNCHANGED << T_EMAIL_SEND, savedBy, smtpFinished >>
      BY <1>1, <2>5 DEF Smtp!OnData
    <3>2. SmtpFrame /\ \A q \in Sessions : smtpConn[q] = "closed" => smtpConn'[q] = "closed"
      BY <1>0, <2>1, <3>1 DEF SmtpFrame
    <3>3. TakesData(s, chunk)
      BY <2>1, <2>3, <2>5, <3>1, <3>2 DEF TakesData
    <3> QED
      BY <3>2, <3>3
  <2> QED
    BY <2>4, <2>5
<1>2. CASE Smtp!OnClientReqAtEnd(s)
  BY <1>0, <1>2 DEF Smtp!OnClientReqAtEnd, Smtp!mail, SmtpFrame, TakesNoData
<1>3. CASE \/ Smtp!OnEhloReq(s, chunk) \/ Smtp!OnAuthLoginReq(s, chunk)
           \/ Smtp!OnPasswordReq(s, chunk) \/ Smtp!OnNamePassVerifyReq(s, chunk)
           \/ Smtp!OnMailFromReq(s, chunk) \/ Smtp!OnRcptToReq(s, chunk)
           \/ Smtp!OnDataReq(s, chunk)
  <2>1. UNCHANGED << smtpConn, smtpFinished, m_emailData, T_EMAIL_SEND, savedBy >>
    BY <1>3 DEF Smtp!OnEhloReq, Smtp!OnAuthLoginReq, Smtp!OnPasswordReq,
                Smtp!OnNamePassVerifyReq, Smtp!OnMailFromReq, Smtp!OnRcptToReq,
                Smtp!OnDataReq, Smtp!mail
  <2> QED
    BY <1>0, <2>1 DEF SmtpFrame, TakesNoData
<1> QED
  BY <1>1, <1>2, <1>3 DEF Smtp!OnRecive

\* What a callback of an SMTP session does to the mails.
LEMMA SmtpEffects ==
    ASSUME StoreInv, Smtp!Next
    PROVE  /\ SmtpFrame
           /\ TakesNoData \/ \E s \in Sessions, chunk \in Chunks : TakesData(s, chunk)
<1>0. /\ smtpConn \in [Sessions -> {"none", "open", "closed"}]
      /\ smtpFinished \in [Sessions -> BOOLEAN]
      /\ m_emailData \in [Sessions -> Seq(Words)]
  BY DEF StoreInv
<1>1. PICK s \in Sessions :
         \/ Smtp!Accept(s)
         \/ Smtp!Disconnect(s)
         \/ \E chunk \in Chunks : Smtp!OnRecive(s, chunk)
  BY DEF Smtp!Next
<1>2. CASE Smtp!Accept(s)
  BY <1>0, <1>2 DEF Smtp!Accept, Smtp!mail, SmtpFrame, TakesNoData
<1>3. CASE Smtp!Disconnect(s)
  BY <1>0, <1>3 DEF Smtp!Disconnect, Smtp!mail, SmtpFrame, TakesNoData
<1>4. ASSUME NEW chunk \in Chunks, Smtp!OnRecive(s, chunk)
      PROVE  /\ SmtpFrame
             /\ TakesNoData \/ TakesData(s, chunk)
  BY <1>0, <1>4, EmailServerAssumption, SmtpReads DEF SmtpTyped
<1> QED
  BY <1>1, <1>2, <1>3, <1>4

----------------------------------------------------------------------------
\* What a request of a POP3 session does to its view.
KeepsViews == UNCHANGED << pop3UserAddr, m_emailArray >>

NamesUser(r) ==
    /\ Nameless(r)
    /\ pop3UserAddr' \in [Readers -> Text]
    /\ \A q \in Readers \ {r} : pop3UserAddr'[q] = pop3UserAddr[q]
    /\ UNCHANGED m_emailArray

Lists(r) ==
    /\ \E list \in Listings(T_EMAIL_SEND, pop3UserAddr[r]) :
          m_emailArray' = [m_emailArray EXCEPT ![r] = list]
    /\ ~Nameless(r)'
    /\ UNCHANGED pop3UserAddr

Pop3Frame ==
    /\ UNCHANGED T_EMAIL_SEND
    /\ pop3Conn' \in [Readers -> {"none", "open", "closed"}]
    /\ pop3Step' \in [Readers -> {"ON_CONNECT", "SEND_USER_NAME_OK", "SEND_PASS_WORD_OK"}]
    /\ \A r \in Readers : Nameless(r)' => Nameless(r)

\* A row of the step table.
LEMMA Pop3Request ==
    ASSUME StoreInv, NEW r \in Readers, NEW req \in Requests, Pop3!OnRecive(r, req)
    PROVE  Pop3Frame /\ (KeepsViews \/ NamesUser(r) \/ Lists(r))
<1>0. /\ pop3Conn \in [Readers -> {"none", "open", "closed"}]
      /\ pop3Step \in [Readers -> {"ON_CONNECT", "SEND_USER_NAME_OK", "SEND_PASS_WORD_OK"}]
      /\ pop3UserAddr \in [Readers -> Text] /\ m_emailArray \in [Readers -> Seq(Nat)]
      /\ req.arg \in Text
  BY EmailServerAssumption DEF StoreInv, Pop3!Request, Pop3!Text, Text
<1>1. CASE Pop3!OnUser(r, req)
  <2>1. Pop3!CreateUserAddrFromNameAndDomain(req.arg, Domain) \in Text
    <3>1. CreateUserAddrFromNameAndDomain(req.arg, Domain) \in Text
      BY <1>0, UserAddrType
    <3> QED
      BY <3>1 DEF Pop3!CreateUserAddrFromNameAndDomain, CreateUserAddrFromNameAndDomain,
                  Pop3!EmptyText, EmptyText, Pop3!TrimName, TrimName
  <2>2. Pop3Frame
    BY <1>0, <1>1 DEF Pop3!OnUser, Pop3!Reading, Pop3Frame, Nameless
  <2>3. NamesUser(r)
    BY <1>0, <1>1, <2>1 DEF Pop3!OnUser, Pop3!Reading, NamesUser, Nameless
  <2> QED
    BY <2>2, <2>3
<1>2. ASSUME NEW kind, Pop3!ReadMailbox(r, req, kind),
             UNCHANGED << pop3Conn, pop3UserAddr >>, pop3Conn[r] = "open",
             pop3Step'[r] # "ON_CONNECT"
      PROVE  Lists(r)
  <2>1. PICK list \in Pop3!Listings(T_EMAIL_SEND, pop3UserAddr[r]) :
           m_emailArray' = [m_emailArray EXCEPT ![r] = list]
    BY <1>2 DEF Pop3!ReadMailbox, Pop3!GetRecvMailInfo
  <2>2. list \in Listings(T_EMAIL_SEND, pop3UserAddr[r])
    BY <2>1, SameListings
  <2> QED
    BY <1>2, <2>1, <2>2 DEF Lists, Nameless
<1>3. CASE Pop3!OnPassword(r, req)
  <2>1. Pop3Frame
    BY <1>0, <1>3 DEF Pop3!OnPassword, Pop3!Reading, Pop3Frame, Nameless
  <2>2. pop3Step'[r] # "ON_CONNECT" /\ pop3Conn[r] = "open"
    BY <1>0, <1>3 DEF Pop3!OnPassword, Pop3!Reading
  <2>3. KeepsViews \/ Lists(r)
    BY <1>2, <1>3, <2>2 DEF Pop3!OnPassword, KeepsViews
  <2> QED
    BY <2>1, <2>3
<1>4. CASE Pop3!OnList(r, req)
  <2>1. Pop3Frame
    BY <1>0, <1>4 DEF Pop3!OnList, Pop3!Reading, Pop3Frame, Nameless
  <2>2. pop3Step'[r] # "ON_CONNECT" /\ pop3Conn[r] = "open"
    BY <1>0, <1>4 DEF Pop3!OnList, Pop3!Reading
  <2>3. Lists(r)
    BY <1>2, <1>4, <2>2 DEF Pop3!OnList
  <2> QED
    BY <2>1, <2>3
<1>5. CASE \/ Pop3!OnCapa(r, req) \/ Pop3!OnState(r, req) \/ Pop3!OnRetr(r, req)
           \/ Pop3!OnQuit(r, req) \/ Pop3!Unanswered(r, req)
  <2>1. UNCHANGED << pop3Conn, pop3Step, pop3UserAddr, m_emailArray, T_EMAIL_SEND >>
    BY <1>5 DEF Pop3!OnCapa, Pop3!OnState, Pop3!OnRetr, Pop3!OnQuit, Pop3!Unanswered
  <2> QED
    BY <1>0, <2>1 DEF Pop3Frame, Nameless, KeepsViews
<1> QED
  BY <1>1, <1>3, <1>4, <1>5 DEF Pop3!OnRecive

\* A POP3 step leaves the SMTP side alone and names a user or lists at most.
LEMMA Pop3Effects ==
    ASSUME StoreInv, Pop3!SessionNext
    PROVE  /\ Pop3Frame
           /\ KeepsViews \/ \E r \in Readers : NamesUser(r) \/ Lists(r)
<1>1. PICK r \in Readers :
         \/ Pop3!Accept(r)
         \/ Pop3!Disconnect(r)
         \/ \E req \in Requests : Pop3!OnRecive(r, req)
  BY DEF Pop3!SessionNext
<1>2. CASE Pop3!Accept(r)
  BY <1>2 DEF Pop3!Accept, StoreInv, Pop3Frame, Nameless, KeepsViews
<1>3. CASE Pop3!Disconnect(r)
  BY <1>3 DEF Pop3!Disconnect, StoreInv, Pop3Frame, Nameless, KeepsViews
<1>4. ASSUME NEW req \in Requests, Pop3!OnRecive(r, req)
      PROVE  Pop3Frame /\ (KeepsViews \/ NamesUser(r) \/ Lists(r))
  BY <1>4, Pop3Request
<1> QED
  BY <1>1, <1>2, <1>3, <1>4

----------------------------------------------------------------------------
\* A step of the server is one of the SMTP sessions, which leaves the readers what
\* they hold, or one of a reader, which leaves the mails alone.
SmtpStep ==
    /\ SmtpFrame
    /\ TakesNoData \/ \E s \in Sessions, chunk \in Chunks : TakesData(s, chunk)
    /\ KeepsViews
    /\ pop3Conn' \in [Readers -> {"none", "open", "closed"}]
    /\ pop3Step' = pop3Step
    /\ \A r \in Readers : pop3Conn'[r] = "none" => pop3Conn[r] = "none"

Pop3Step ==
    /\ UNCHANGED << smtpConn, smtpFinished, m_emailData, savedBy >>
    /\ Pop3Frame
    /\ KeepsViews \/ \E r \in Readers : NamesUser(r) \/ Lists(r)

\* Every step of the server is one of the two kinds.
LEMMA ServerEffects ==
    ASSUME StoreInv, [Next]_vars
    PROVE  SmtpStep \/ Pop3Step
<1>0. /\ smtpConn \in [Sessions -> {"none", "open", "closed"}]
      /\ smtpFinished \in [Sessions -> BOOLEAN]
      /\ m_emailData \in [Sessions -> Seq(Words)]
      /\ pop3Conn \in [Readers -> {"none", "open", "closed"}]
  BY DEF StoreInv
<1>a. DropPop3 => /\ pop3Conn' \in [Readers -> {"none", "open", "closed"}]
                  /\ \A r \in Readers : pop3Conn'[r] = "none" => pop3Conn[r] = "none"
  BY <1>0 DEF DropPop3
<1>b. DropSmtp => /\ smtpConn' \in [Sessions -> {"none", "open", "closed"}]
                  /\ \A s \in Sessions : smtpConn[s] \in {"open", "closed"} => smtpConn'[s] = "closed"
  BY <1>0 DEF DropSmtp
<1>1. CASE SmtpCallback
  <2>1. SmtpFrame /\ (TakesNoData \/ \E s \in Sessions, chunk \in Chunks : TakesData(s, chunk))
    BY <1>1, SmtpEffects DEF SmtpCallback
  <2>2. pop3Conn' = pop3Conn \/ DropPop3
    BY <1>1 DEF SmtpCallback
  <2> QED
    BY <1>0, <1>1, <1>a, <2>1, <2>2 DEF SmtpCallback, SmtpStep, KeepsViews
<1>2. CASE Pop3Callback
  BY <1>2, Pop3Effects DEF Pop3Callback, smtpSession, Pop3Step
<1>3. CASE Kill
  <2>1. SmtpFrame /\ TakesNoData
    BY <1>0, <1>3, <1>b DEF Kill, SmtpFrame, TakesNoData
  <2> QED
    BY <1>3, <1>a, <2>1 DEF Kill, SmtpStep, KeepsViews
<1>4. CASE Start \/ UNCHANGED vars
  <2>1. SmtpFrame /\ TakesNoData
    BY <1>0, <1>4 DEF Start, vars, smtpSession, SmtpFrame, TakesNoData
  <2> QED
    BY <1>0, <1>4, <2>1 DEF Start, vars, pop3Session, SmtpStep, KeepsViews
<1>5. ASSUME NEW s \in Sessions, NEW chunk \in Chunks, KillAfterSave(s, chunk)
      PROVE  SmtpStep
  <2>1. /\ smtpConn[s] = "open" /\ chunk \in Seq(Words)
        /\ m_emailData' = [m_emailData EXCEPT ![s] = @ \o chunk]
        /\ T_EMAIL_SEND' = Append(T_EMAIL_SEND, ParseEmailForSmtp(m_emailData'[s]))
        /\ savedBy' = Append(savedBy, s)
    BY <1>5, EmailServerAssumption DEF KillAfterSave, Smtp!Reading
  <2>2. HasText(m_emailData'[s], EndOfData)
    BY <1>0, <1>5, <2>1, SameHelpers DEF KillAfterSave, Smtp!EndsData
  <2>3. SmtpFrame /\ TakesData(s, chunk)
    BY <1>0, <1>5, <1>b, <2>1, <2>2 DEF KillAfterSave, SmtpFrame, TakesData
  <2> QED
    BY <1>5, <1>a, <2>3 DEF KillAfterSave, SmtpStep, KeepsViews
<1> QED
  BY <1>1, <1>2, <1>3, <1>4, <1>5 DEF Next

\* Taking data appends at most one row, a mail.
LEMMA TakesDataTyped ==
    ASSUME StoreInv, NEW s \in Sessions, NEW chunk \in Chunks, TakesData(s, chunk)
    PROVE  /\ m_emailData' \in [Sessions -> Seq(Words)]
           /\ m_emailData'[s] \in Seq(Words)
           /\ ParseEmailForSmtp(m_emailData'[s]) \in Row
           /\ T_EMAIL_SEND' \in Seq(Row)
<1>0. m_emailData \in [Sessions -> Seq(Words)] /\ T_EMAIL_SEND \in Seq(Row)
  BY DEF StoreInv
<1>1. m_emailData[s] \o chunk \in Seq(Words)
  BY <1>0 DEF TakesData
<1>2. m_emailData' \in [Sessions -> Seq(Words)] /\ m_emailData'[s] \in Seq(Words)
  BY <1>0, <1>1 DEF TakesData
<1>3. ParseEmailForSmtp(m_emailData'[s]) \in Row
  BY <1>2, ParseEmailType DEF Row
<1>4. T_EMAIL_SEND' \in Seq(Row)
  <2>1. \/ T_EMAIL_SEND' = T_EMAIL_SEND
        \/ T_EMAIL_SEND' = Append(T_EMAIL_SEND, ParseEmailForSmtp(m_emailData'[s]))
    BY DEF TakesData
  <2>2. Append(T_EMAIL_SEND, ParseEmailForSmtp(m_emailData'[s])) \in Seq(Row)
    BY <1>0, <1>3
  <2> QED
    BY <1>0, <2>1, <2>2
<1> QED
  BY <1>2, <1>3, <1>4

\* Both kinds of step keep what the refinement needs.
LEMMA StoreInvKept ==
    ASSUME StoreInv, SmtpStep \/ Pop3Step
    PROVE  StoreInv'
<1>1. CASE SmtpStep
  <2>1. m_emailData' \in [Sessions -> Seq(Words)] /\ T_EMAIL_SEND' \in Seq(Row)
    <3>1. CASE TakesNoData
      BY <3>1 DEF TakesNoData, StoreInv
    <3>2. ASSUME NEW s \in Sessions, NEW chunk \in Chunks, TakesData(s, chunk)
          PROVE  m_emailData' \in [Sessions -> Seq(Words)] /\ T_EMAIL_SEND' \in Seq(Row)
      BY <3>2, TakesDataTyped
    <3> QED
      BY <1>1, <3>1, <3>2 DEF SmtpStep
  <2>2. \A r \in Readers : Nameless(r)' => m_emailArray'[r] = << >>
    BY <1>1 DEF SmtpStep, KeepsViews, Nameless, StoreInv
  <2> QED
    BY <1>1, <2>1, <2>2 DEF SmtpStep, SmtpFrame, KeepsViews, StoreInv
<1>2. CASE Pop3Step
  <2>0. /\ T_EMAIL_SEND' \in Seq(Row) /\ m_emailData' \in [Sessions -> Seq(Words)]
        /\ smtpConn' \in [Sessions -> {"none", "open", "closed"}]
        /\ smtpFinished' \in [Sessions -> BOOLEAN]
        /\ pop3Conn' \in [Readers -> {"none", "open", "closed"}]
        /\ pop3Step' \in [Readers -> {"ON_CONNECT", "SEND_USER_NAME_OK", "SEND_PASS_WORD_OK"}]
    BY <1>2 DEF Pop3Step, Pop3Frame, StoreInv
  <2>a. \A r \in Readers : Nameless(r)' => m_emailArray[r] = << >>
    BY <1>2 DEF Pop3Step, Pop3Frame, StoreInv
  <2>1. CASE KeepsViews
    BY <2>0, <2>1, <2>a DEF KeepsViews, StoreInv
  <2>2. ASSUME NEW r \in Readers, NamesUser(r) PROVE StoreInv'
    BY <2>0, <2>2, <2>a DEF NamesUser, StoreInv
  <2>3. ASSUME NEW r \in Readers, Lists(r) PROVE StoreInv'
    <3>1. PICK list \in Listings(T_EMAIL_SEND, pop3UserAddr[r]) :
             m_emailArray' = [m_emailArray EXCEPT ![r] = list]
      BY <2>3 DEF Lists
    <3>2. list \in Seq(Nat)
      <4>1. PICK k \in 0 .. Len(T_EMAIL_SEND) : list \in [1 .. k -> DOMAIN T_EMAIL_SEND]
        BY DEF Listings
      <4>2. DOMAIN T_EMAIL_SEND \subseteq Nat
        BY DEF StoreInv
      <4>3. k \in Nat
        BY DEF StoreInv
      <4> QED
        BY <4>1, <4>2, <4>3
    <3>3. m_emailArray' \in [Readers -> Seq(Nat)]
      BY <3>1, <3>2 DEF StoreInv
    <3>4. \A q \in Readers : Nameless(q)' => m_emailArray'[q] = << >>
      BY <2>3, <2>a, <3>1 DEF Lists, StoreInv
    <3> QED
      BY <2>0, <2>3, <3>3, <3>4 DEF Lists, StoreInv
  <2> QED
    BY <1>2, <2>1, <2>2, <2>3 DEF Pop3Step
<1> QED
  BY <1>1, <1>2

\* A server over a new file has it.
LEMMA StoreInvStarts == Init => StoreInv
<1> SUFFICES ASSUME Init PROVE StoreInv
  OBVIOUS
<1>1. Pop3!EmptyText \in Text
  BY EmptyTextType DEF Pop3!EmptyText, EmptyText
<1> QED
  BY <1>1 DEF Init, Smtp!Init, Pop3!SessionInit, StoreInv

\* Every behaviour of the server, in which the process may end between and inside
\* callbacks, is one of the abstract mail store.
THEOREM Implementation == Spec => ImplementsStore
<1>1. Init => Store!Init
  <2> SUFFICES ASSUME Init PROVE Store!Init
    OBVIOUS
  <2>1. pop3UserAddr \in [Readers -> Text]
    BY StoreInvStarts DEF StoreInv
  <2> QED
    BY <2>1 DEF Init, Smtp!Init, Pop3!SessionInit, Store!Init
<1>2. StoreInv /\ [Next]_vars => [Store!Next]_Store!vars
  <2> SUFFICES ASSUME StoreInv, [Next]_vars PROVE [Store!Next]_Store!vars
    OBVIOUS
  <2>1. CASE SmtpStep
    <3>1. CASE UNCHANGED T_EMAIL_SEND
      BY <2>1, <3>1 DEF SmtpStep, KeepsViews, Store!vars
    <3>2. ASSUME NEW s \in Sessions, NEW chunk \in Chunks, TakesData(s, chunk),
                 T_EMAIL_SEND' = Append(T_EMAIL_SEND, ParseEmailForSmtp(m_emailData'[s]))
          PROVE  Store!Deliver
      <4>1. /\ T_EMAIL_SEND \in Seq(Row) /\ T_EMAIL_SEND' \in Seq(Row)
            /\ ParseEmailForSmtp(m_emailData'[s]) \in Row
        BY <3>2, TakesDataTyped DEF StoreInv
      <4>2. /\ Len(T_EMAIL_SEND') = Len(T_EMAIL_SEND) + 1
            /\ \A i \in DOMAIN T_EMAIL_SEND : T_EMAIL_SEND'[i] = T_EMAIL_SEND[i]
        BY <3>2, <4>1
      <4>3. Row = Store!Mail
        BY DEF Row, Store!Mail
      <4> QED
        BY <2>1, <4>1, <4>2, <4>3 DEF Store!Deliver, SmtpStep, KeepsViews
    <3> QED
      BY <2>1, <3>1, <3>2 DEF SmtpStep, TakesNoData, TakesData, Store!Next
  <2>2. CASE Pop3Step
    <3>1. CASE KeepsViews
      BY <2>2, <3>1 DEF Pop3Step, Pop3Frame, KeepsViews, Store!vars
    <3>2. ASSUME NEW r \in Readers, NamesUser(r) PROVE Store!Next
      BY <2>2, <3>2 DEF Pop3Step, Pop3Frame, NamesUser, StoreInv, Store!Next, Store!NameUser
    <3>3. ASSUME NEW r \in Readers, Lists(r) PROVE Store!Next
      <4>1. \E list \in Store!Listings(T_EMAIL_SEND, pop3UserAddr[r]) :
               m_emailArray' = [m_emailArray EXCEPT ![r] = list]
        BY <3>3, SameListings DEF Lists
      <4> QED
        BY <2>2, <3>3, <4>1 DEF Pop3Step, Pop3Frame, Lists, Store!Next, Store!Look
    <3> QED
      BY <2>2, <3>1, <3>2, <3>3 DEF Pop3Step
  <2> QED
    BY <2>1, <2>2, ServerEffects
<1>3. StoreInv /\ [Next]_vars => StoreInv'
  BY ServerEffects, StoreInvKept
<1> QED
  BY <1>1, <1>2, <1>3, StoreInvStarts, PTL DEF Spec, Store!Spec, ImplementsStore

----------------------------------------------------------------------------
\* What a reader holds stays a listing when the store grows: a new mail has a
\* higher number than all those listed.
LEMMA ListingSurvivesAppend ==
    ASSUME NEW old, NEW new, NEW user, NEW list \in Seq(Nat),
           old \in Seq(Store!Mail), new \in Seq(Store!Mail),
           Len(old) <= Len(new),
           \A i \in DOMAIN old : new[i] = old[i],
           Store!IsListing(list, old, user)
    PROVE  Store!IsListing(list, new, user)
<1>1. DOMAIN old = 1 .. Len(old) /\ DOMAIN new = 1 .. Len(new)
  OBVIOUS
<1>2. \A i \in DOMAIN list : list[i] \in Store!Received(new, user)
  BY <1>1 DEF Store!IsListing, Store!Received
<1>3. \A i \in DOMAIN list, k \in Store!Received(new, user) :
         k < list[i] => \E j \in DOMAIN list : list[j] = k
  <2> SUFFICES ASSUME NEW i \in DOMAIN list, NEW k \in Store!Received(new, user), k < list[i]
               PROVE  \E j \in DOMAIN list : list[j] = k
    OBVIOUS
  <2>1. list[i] \in 1 .. Len(old)
    BY <1>1 DEF Store!IsListing, Store!Received
  <2>2. k \in Store!Received(old, user)
    BY <1>1, <2>1 DEF Store!Received
  <2> QED
    BY <2>2 DEF Store!IsListing
<1> QED
  BY <1>2, <1>3 DEF Store!IsListing

\* A listing of a store is a sequence of row numbers.
LEMMA ListingsAreLists ==
    ASSUME NEW table \in Seq(Store!Mail), NEW user, NEW list \in Store!Listings(table, user)
    PROVE  list \in Seq(Nat) /\ Store!IsListing(list, table, user)
<1>1. PICK n \in 0 .. Len(table) : list \in [1 .. n -> DOMAIN table]
  BY DEF Store!Listings
<1>2. DOMAIN table \subseteq Nat
  OBVIOUS
<1>3. list \in Seq(Nat)
  BY <1>1, <1>2
<1> QED
  BY <1>3 DEF Store!Listings

\* The abstract store is typed.
LEMMA StoreTyped == Store!Spec => []Store!TypeOK
<1>1. Store!Init => Store!TypeOK
  BY DEF Store!Init, Store!TypeOK
<1>2. Store!TypeOK /\ [Store!Next]_Store!vars => Store!TypeOK'
  <2> SUFFICES ASSUME Store!TypeOK, [Store!Next]_Store!vars PROVE Store!TypeOK'
    OBVIOUS
  <2> USE DEF Store!TypeOK
  <2>1. CASE Store!Deliver
    BY <2>1 DEF Store!Deliver
  <2>2. ASSUME NEW r \in Readers, Store!NameUser(r) PROVE Store!TypeOK'
    BY <2>2 DEF Store!NameUser
  <2>3. ASSUME NEW r \in Readers, Store!Look(r) PROVE Store!TypeOK'
    <3>1. PICK list \in Store!Listings(T_EMAIL_SEND, pop3UserAddr[r]) :
             m_emailArray' = [m_emailArray EXCEPT ![r] = list]
      BY <2>3 DEF Store!Look
    <3>2. list \in Seq(Nat)
      BY ListingsAreLists
    <3> QED
      BY <2>3, <3>1, <3>2 DEF Store!Look
  <2>4. CASE UNCHANGED Store!vars
    BY <2>4 DEF Store!vars
  <2> QED
    BY <2>1, <2>2, <2>3, <2>4 DEF Store!Next
<1> QED
  BY <1>1, <1>2, PTL DEF Store!Spec

\* Whatever is delivered while readers look, what each of them holds is a
\* gapless beginning of the mails of its user.
LEMMA StoreViews == Store!Spec => []Store!ViewsAreListings
<1>1. Store!Init => Store!ViewsAreListings
  BY DEF Store!Init, Store!ViewsAreListings, Store!IsListing
<1>2. Store!TypeOK /\ Store!ViewsAreListings /\ Store!TypeOK' /\ [Store!Next]_Store!vars
        => Store!ViewsAreListings'
  <2> SUFFICES ASSUME Store!TypeOK, Store!ViewsAreListings, Store!TypeOK', [Store!Next]_Store!vars,
                      NEW q \in Readers
               PROVE  Store!IsListing(m_emailArray'[q], T_EMAIL_SEND', pop3UserAddr'[q])
    BY DEF Store!ViewsAreListings
  <2>0. Store!IsListing(m_emailArray[q], T_EMAIL_SEND, pop3UserAddr[q])
    BY DEF Store!ViewsAreListings
  <2>1. CASE Store!Deliver
    <3>1. m_emailArray' = m_emailArray /\ pop3UserAddr' = pop3UserAddr
      BY <2>1 DEF Store!Deliver
    <3>2. /\ T_EMAIL_SEND \in Seq(Store!Mail) /\ T_EMAIL_SEND' \in Seq(Store!Mail)
          /\ m_emailArray[q] \in Seq(Nat)
      BY DEF Store!TypeOK
    <3>3. /\ Len(T_EMAIL_SEND) <= Len(T_EMAIL_SEND')
          /\ \A i \in DOMAIN T_EMAIL_SEND : T_EMAIL_SEND'[i] = T_EMAIL_SEND[i]
      BY <2>1, <3>2 DEF Store!Deliver
    <3> QED
      BY <2>0, <3>1, <3>2, <3>3, ListingSurvivesAppend
  <2>2. ASSUME NEW r \in Readers, Store!NameUser(r)
        PROVE  Store!IsListing(m_emailArray'[q], T_EMAIL_SEND', pop3UserAddr'[q])
    <3>1. CASE q = r
      BY <2>2, <3>1 DEF Store!NameUser, Store!IsListing
    <3>2. CASE q # r
      BY <2>2, <3>2, <2>0 DEF Store!NameUser
    <3> QED
      BY <3>1, <3>2
  <2>3. ASSUME NEW r \in Readers, Store!Look(r)
        PROVE  Store!IsListing(m_emailArray'[q], T_EMAIL_SEND', pop3UserAddr'[q])
    <3>1. PICK list \in Store!Listings(T_EMAIL_SEND, pop3UserAddr[r]) :
             m_emailArray' = [m_emailArray EXCEPT ![r] = list]
      BY <2>3 DEF Store!Look
    <3>2. Store!IsListing(list, T_EMAIL_SEND, pop3UserAddr[r])
      BY ListingsAreLists DEF Store!TypeOK
    <3> QED
      BY <2>3, <2>0, <3>1, <3>2 DEF Store!Look, Store!TypeOK
  <2>4. CASE UNCHANGED Store!vars
    BY <2>4, <2>0 DEF Store!vars
  <2> QED
    BY <2>1, <2>2, <2>3, <2>4 DEF Store!Next
<1> QED
  BY <1>1, <1>2, StoreTyped, PTL DEF Store!Spec

\* Every step appends to the store or leaves it alone.
LEMMA StoreOnlyAppends == Store!Spec => Store!StoreGrows
<1>1. Store!TypeOK /\ [Store!Next]_Store!vars =>
        [/\ Len(T_EMAIL_SEND) <= Len(T_EMAIL_SEND')
         /\ \A i \in DOMAIN T_EMAIL_SEND : T_EMAIL_SEND'[i] = T_EMAIL_SEND[i]]_T_EMAIL_SEND
  BY DEF Store!TypeOK, Store!Next, Store!Deliver, Store!NameUser, Store!Look, Store!vars
<1> QED
  BY <1>1, StoreTyped, PTL DEF Store!Spec, Store!StoreGrows

\* So whatever is delivered while POP3 sessions look, and whenever the process ends, what
\* each session holds is a gapless beginning of the mails of its user,
THEOREM ViewsCorrect == Spec => []Store!ViewsAreListings
BY Implementation, StoreViews, PTL DEF ImplementsStore

\* and no step of the server, its ends and starts included, loses or changes a mail.
THEOREM StoreOnlyGrows == Spec => Store!StoreGrows
BY Implementation, StoreOnlyAppends, PTL DEF ImplementsStore

----------------------------------------------------------------------------
\* Every row is the mail of the session it came from, whose data has reached its
\* end and whose connection is closed, so no later read can change it; and every
\* mail that is held is addressed to its reader.
SentInv ==
    /\ savedBy \in Seq(Sessions)
    /\ Len(savedBy) = Len(T_EMAIL_SEND)
    /\ \A s \in Sessions : HasText(m_emailData[s], EndOfData) => smtpConn[s] = "closed"
    /\ \A k \in DOMAIN T_EMAIL_SEND :
          /\ HasText(m_emailData[savedBy[k]], EndOfData)
          /\ ParseEmailForSmtp(m_emailData[savedBy[k]]) = T_EMAIL_SEND[k]
    /\ \A r \in Readers : \A i \in DOMAIN m_emailArray[r] :
          m_emailArray[r][i] \in Received(T_EMAIL_SEND, pop3UserAddr[r])

\* No data has an end before it has begun.
LEMMA NothingHasNoEnd == ~HasText(<< >>, EndOfData)
<1>1. Len(<< >>) = 0 /\ Len(EndOfData) = 5
  BY DEF EndOfData
<1>2. Find(<< >>, EndOfData) = {}
  BY <1>1 DEF Find
<1> QED
  BY <1>2 DEF HasText

\* A server over a new file has saved nothing.
LEMMA SentInvStarts == Init => SentInv
<1> SUFFICES ASSUME Init PROVE SentInv
  OBVIOUS
<1>1. /\ savedBy = << >> /\ T_EMAIL_SEND = << >>
      /\ m_emailData = [s \in Sessions |-> << >>]
      /\ m_emailArray = [r \in Readers |-> << >>]
  BY DEF Init, Smtp!Init, Pop3!SessionInit
<1> QED
  BY <1>1, NothingHasNoEnd DEF SentInv

\* Data that is taken belongs to an open session, so it is not of a saved mail.
LEMMA DataKeepsSent ==
    ASSUME StoreInv, SentInv, KeepsViews,
           NEW s \in Sessions, NEW chunk \in Chunks, TakesData(s, chunk)
    PROVE  SentInv'
<1>0. /\ m_emailData \in [Sessions -> Seq(Words)]
      /\ savedBy \in Seq(Sessions) /\ Len(savedBy) = Len(T_EMAIL_SEND)
      /\ T_EMAIL_SEND \in Seq(Row) /\ ParseEmailForSmtp(m_emailData'[s]) \in Row
      /\ DOMAIN T_EMAIL_SEND = 1 .. Len(T_EMAIL_SEND) /\ Len(T_EMAIL_SEND) \in Nat
      /\ DOMAIN savedBy = 1 .. Len(savedBy)
  BY TakesDataTyped DEF StoreInv, SentInv
<1>1. \A q \in Sessions : q # s => m_emailData'[q] = m_emailData[q]
  BY <1>0 DEF TakesData
<1>2. \A q \in Sessions : HasText(m_emailData'[q], EndOfData) => smtpConn'[q] = "closed"
  <2> SUFFICES ASSUME NEW q \in Sessions, HasText(m_emailData'[q], EndOfData)
               PROVE  smtpConn'[q] = "closed"
    OBVIOUS
  <2>1. CASE q = s
    BY <2>1 DEF TakesData
  <2>2. CASE q # s
    BY <1>1, <2>2 DEF SentInv, TakesData
  <2> QED
    BY <2>1, <2>2
<1>3. \A k \in DOMAIN T_EMAIL_SEND : savedBy[k] \in Sessions /\ savedBy[k] # s
  <2> SUFFICES ASSUME NEW k \in DOMAIN T_EMAIL_SEND
               PROVE  savedBy[k] \in Sessions /\ savedBy[k] # s
    OBVIOUS
  <2>1. savedBy[k] \in Sessions
    BY <1>0
  <2>2. smtpConn[savedBy[k]] = "closed"
    BY <2>1 DEF SentInv
  <2> QED
    BY <2>1, <2>2 DEF TakesData
<1>4. \A k \in DOMAIN T_EMAIL_SEND :
         /\ HasText(m_emailData'[savedBy[k]], EndOfData)
         /\ ParseEmailForSmtp(m_emailData'[savedBy[k]]) = T_EMAIL_SEND[k]
  BY <1>1, <1>3 DEF SentInv
<1>5. CASE UNCHANGED << T_EMAIL_SEND, savedBy >>
  <2>1. \A r \in Readers : \A i \in DOMAIN m_emailArray'[r] :
           m_emailArray'[r][i] \in Received(T_EMAIL_SEND', pop3UserAddr'[r])
    BY <1>5 DEF SentInv, KeepsViews
  <2> QED
    BY <1>2, <1>4, <1>5, <2>1 DEF SentInv
<1>6. CASE /\ HasText(m_emailData'[s], EndOfData)
           /\ T_EMAIL_SEND' = Append(T_EMAIL_SEND, ParseEmailForSmtp(m_emailData'[s]))
           /\ savedBy' = Append(savedBy, s)
  <2> DEFINE n   == Len(T_EMAIL_SEND) + 1
             row == ParseEmailForSmtp(m_emailData'[s])
  <2>1. /\ savedBy' \in Seq(Sessions) /\ Len(savedBy') = n /\ Len(T_EMAIL_SEND') = n
        /\ DOMAIN T_EMAIL_SEND' = 1 .. n
        /\ T_EMAIL_SEND'[n] = row /\ savedBy'[n] = s
        /\ \A k \in DOMAIN T_EMAIL_SEND :
              T_EMAIL_SEND'[k] = T_EMAIL_SEND[k] /\ savedBy'[k] = savedBy[k]
    <3>1. row \in Row
      BY <1>0
    <3> HIDE DEF row
    <3> QED
      BY <1>0, <1>6, <3>1 DEF row
  <2> HIDE DEF row
  <2>2. \A k \in DOMAIN T_EMAIL_SEND' :
           /\ HasText(m_emailData'[savedBy'[k]], EndOfData)
           /\ ParseEmailForSmtp(m_emailData'[savedBy'[k]]) = T_EMAIL_SEND'[k]
    <3> SUFFICES ASSUME NEW k \in DOMAIN T_EMAIL_SEND'
                 PROVE  /\ HasText(m_emailData'[savedBy'[k]], EndOfData)
                        /\ ParseEmailForSmtp(m_emailData'[savedBy'[k]]) = T_EMAIL_SEND'[k]
      OBVIOUS
    <3>1. CASE k = n
      BY <1>6, <2>1, <3>1 DEF row
    <3>2. CASE k # n
      <4>1. k \in DOMAIN T_EMAIL_SEND
        BY <1>0, <2>1, <3>2
      <4> QED
        BY <1>4, <2>1, <4>1
    <3> QED
      BY <3>1, <3>2
  <2>3. \A r \in Readers : \A i \in DOMAIN m_emailArray'[r] :
           m_emailArray'[r][i] \in Received(T_EMAIL_SEND', pop3UserAddr'[r])
    <3>1. DOMAIN T_EMAIL_SEND \subseteq DOMAIN T_EMAIL_SEND'
      BY <1>0, <2>1
    <3>2. \A user : Received(T_EMAIL_SEND, user) \subseteq Received(T_EMAIL_SEND', user)
      BY <2>1, <3>1 DEF Received
    <3> QED
      BY <3>2 DEF SentInv, KeepsViews
  <2> QED
    BY <1>2, <2>1, <2>2, <2>3 DEF SentInv
<1> QED
  BY <1>5, <1>6 DEF TakesData

\* Both kinds of step keep the table and the data it was parsed from together.
LEMMA SentInvKept ==
    ASSUME StoreInv, SentInv, SmtpStep \/ Pop3Step
    PROVE  SentInv'
<1>1. CASE SmtpStep
  <2>1. CASE TakesNoData
    BY <1>1, <2>1 DEF SmtpStep, TakesNoData, KeepsViews, SentInv
  <2>2. ASSUME NEW s \in Sessions, NEW chunk \in Chunks, TakesData(s, chunk)
        PROVE  SentInv'
    BY <1>1, <2>2, DataKeepsSent DEF SmtpStep
  <2> QED
    BY <1>1, <2>1, <2>2 DEF SmtpStep
<1>2. CASE Pop3Step
  <2>0. UNCHANGED << smtpConn, m_emailData, savedBy, T_EMAIL_SEND >>
    BY <1>2 DEF Pop3Step, Pop3Frame
  <2>1. \A r \in Readers : \A i \in DOMAIN m_emailArray'[r] :
           m_emailArray'[r][i] \in Received(T_EMAIL_SEND, pop3UserAddr'[r])
    <3> SUFFICES ASSUME NEW q \in Readers
                 PROVE  \A i \in DOMAIN m_emailArray'[q] :
                           m_emailArray'[q][i] \in Received(T_EMAIL_SEND, pop3UserAddr'[q])
      OBVIOUS
    <3>1. CASE KeepsViews
      BY <3>1 DEF KeepsViews, SentInv
    <3>2. ASSUME NEW r \in Readers, NamesUser(r)
          PROVE  \A i \in DOMAIN m_emailArray'[q] :
                    m_emailArray'[q][i] \in Received(T_EMAIL_SEND, pop3UserAddr'[q])
      <4>1. CASE q = r
        <5>1. m_emailArray'[q] = << >>
          BY <3>2, <4>1 DEF NamesUser, StoreInv
        <5> QED
          BY <5>1
      <4>2. CASE q # r
        BY <3>2, <4>2 DEF NamesUser, SentInv
      <4> QED
        BY <4>1, <4>2
    <3>3. ASSUME NEW r \in Readers, Lists(r)
          PROVE  \A i \in DOMAIN m_emailArray'[q] :
                    m_emailArray'[q][i] \in Received(T_EMAIL_SEND, pop3UserAddr'[q])
      <4>1. PICK list \in Listings(T_EMAIL_SEND, pop3UserAddr[r]) :
               m_emailArray' = [m_emailArray EXCEPT ![r] = list]
        BY <3>3 DEF Lists
      <4>2. \A i \in DOMAIN list : list[i] \in Received(T_EMAIL_SEND, pop3UserAddr[r])
        BY DEF Listings, IsListing
      <4>3. CASE q = r
        BY <3>3, <4>1, <4>2, <4>3 DEF Lists, StoreInv
      <4>4. CASE q # r
        BY <3>3, <4>1, <4>4 DEF Lists, StoreInv, SentInv
      <4> QED
        BY <4>3, <4>4
    <3> QED
      BY <1>2, <3>1, <3>2, <3>3 DEF Pop3Step
  <2> QED
    BY <2>0, <2>1 DEF SentInv
<1> QED
  BY <1>1, <1>2

\* From end to end, for any sessions, readers, users and mails: what a reader holds
\* was sent in full to that user.
THEOREM HeldCorrect == Spec => []HeldMailWasSent
<1>1. StoreInv /\ SentInv => HeldMailWasSent
  <2> SUFFICES ASSUME SentInv, NEW r \in Readers, NEW i \in DOMAIN m_emailArray[r]
               PROVE  LET row == m_emailArray[r][i]
                          s   == savedBy[row]
                      IN  /\ HasText(m_emailData[s], EndOfData)
                          /\ ParseEmailForSmtp(m_emailData[s]).receiver = pop3UserAddr[r]
                          /\ ParseEmailForSmtp(m_emailData[s]) = T_EMAIL_SEND[row]
    BY DEF HeldMailWasSent
  <2>1. /\ m_emailArray[r][i] \in DOMAIN T_EMAIL_SEND
        /\ T_EMAIL_SEND[m_emailArray[r][i]].receiver = pop3UserAddr[r]
    BY DEF SentInv, Received
  <2> QED
    BY <2>1 DEF SentInv
<1>2. Init => StoreInv /\ SentInv
  BY StoreInvStarts, SentInvStarts
<1>3. StoreInv /\ SentInv /\ [Next]_vars => (StoreInv /\ SentInv)'
  BY ServerEffects, StoreInvKept, SentInvKept
<1> QED
  BY <1>1, <1>2, <1>3, PTL DEF Spec

----------------------------------------------------------------------------
\* What the POP3 sessions assume of their constants, the server does.
LEMMA Pop3Assumes == Pop3Facts!ProtoUtilAssumption /\ Pop3Facts!Pop3Assumption
<1>1. Pop3Facts!ProtoUtilAssumption
  BY ProtoUtilAssumption DEF Pop3Facts!Text, Text
<1>2. Requests \subseteq Pop3Facts!Request
  BY EmailServerAssumption DEF Pop3Facts!Request, Pop3!Request, Pop3Facts!Commands,
     Pop3!Commands, Pop3Facts!Text, Pop3!Text
<1>3. Users \subseteq [userName_ : Pop3Facts!Text, userPassword_ : Pop3Facts!Text]
  BY EmailServerAssumption DEF Pop3Facts!Text, Text
<1>4. \A m \in Row : m.receiver \in Pop3Facts!Text
  BY DEF Row, Pop3Facts!Text, Text
<1> QED
  BY <1>1, <1>2, <1>3, <1>4

\* The replies of the two instances are the same,
LEMMA SameReplies ==
    /\ \A step : SmtpFacts!GetNextStepCmd(step) = Smtp!GetNextStepCmd(step)
    /\ SmtpFacts!NextStep = Smtp!NextStep
    /\ \A text, pat : SmtpFacts!HasText(text, pat) = Smtp!HasText(text, pat)
    /\ SmtpFacts!CRLF = Smtp!CRLF /\ SmtpFacts!EndOfData = Smtp!EndOfData
    /\ \A text : SmtpFacts!Base64Decode(text) = Smtp!Base64Decode(text)
    /\ \A name : SmtpFacts!CreateUserAddrFromNameAndDomain(name, Domain)
                   = Smtp!CreateUserAddrFromNameAndDomain(name, Domain)
    /\ \A text : SmtpFacts!ParseEmailForSmtp(text) = Smtp!ParseEmailForSmtp(text)
    /\ \A name, password : SmtpFacts!IsPasswordRight(name, password)
                             <=> Smtp!IsPasswordRight(name, password)
    /\ SmtpFacts!EmptyText = Smtp!EmptyText
<1>1. ASSUME NEW step PROVE SmtpFacts!GetNextStepCmd(step) = Smtp!GetNextStepCmd(step)
  BY DEF SmtpFacts!GetNextStepCmd, Smtp!GetNextStepCmd
<1>2. SmtpFacts!NextStep = Smtp!NextStep
  BY DEF SmtpFacts!NextStep, Smtp!NextStep
<1>3. ASSUME NEW text, NEW pat PROVE SmtpFacts!HasText(text, pat) = Smtp!HasText(text, pat)
  BY DEF SmtpFacts!HasText, Smtp!HasText, SmtpFacts!Find, Smtp!Find
<1>4. SmtpFacts!CRLF = Smtp!CRLF /\ SmtpFacts!EndOfData = Smtp!EndOfData
  BY DEF SmtpFacts!CRLF, Smtp!CRLF, SmtpFacts!EndOfData, Smtp!EndOfData
<1>5. SmtpFacts!EmptyText = Smtp!EmptyText
  BY DEF SmtpFacts!EmptyText, Smtp!EmptyText
<1>6. ASSUME NEW text PROVE SmtpFacts!Base64Decode(text) = Smtp!Base64Decode(text)
  BY <1>5 DEF SmtpFacts!Base64Decode, Smtp!Base64Decode
<1>7. ASSUME NEW name
      PROVE  SmtpFacts!CreateUserAddrFromNameAndDomain(name, Domain)
               = Smtp!CreateUserAddrFromNameAndDomain(name, Domain)
  BY <1>5 DEF SmtpFacts!CreateUserAddrFromNameAndDomain, Smtp!CreateUserAddrFromNameAndDomain,
              SmtpFacts!TrimName, Smtp!TrimName
<1>8. ASSUME NEW text PROVE SmtpFacts!ParseEmailForSmtp(text) = Smtp!ParseEmailForSmtp(text)
  BY SameTexts, SameHelpers
<1>9. ASSUME NEW name, NEW password
      PROVE  SmtpFacts!IsPasswordRight(name, password) <=> Smtp!IsPasswordRight(name, password)
  BY DEF SmtpFacts!IsPasswordRight, Smtp!IsPasswordRight
<1> QED
  BY <1>1, <1>2, <1>3, <1>4, <1>5, <1>6, <1>7, <1>8, <1>9

\* and so are their steps.
LEMMA SameSmtpSteps == (Smtp!Next => SmtpFacts!Next) /\ (Smtp!Init => SmtpFacts!Init)
<1> USE SameReplies DEF Smtp!Send, SmtpFacts!Send, Smtp!Accepted, SmtpFacts!Accepted,
      Smtp!Refused, SmtpFacts!Refused, Smtp!Reading, SmtpFacts!Reading,
      Smtp!login, SmtpFacts!login, Smtp!mail, SmtpFacts!mail
<1>1. ASSUME NEW s \in Sessions, Smtp!Accept(s) PROVE SmtpFacts!Accept(s)
  BY <1>1 DEF Smtp!Accept, SmtpFacts!Accept
<1>2. ASSUME NEW s \in Sessions, Smtp!Disconnect(s) PROVE SmtpFacts!Disconnect(s)
  BY <1>2 DEF Smtp!Disconnect, SmtpFacts!Disconnect
<1>3. ASSUME NEW s \in Sessions, NEW chunk \in Chunks, Smtp!OnRecive(s, chunk)
      PROVE  SmtpFacts!OnRecive(s, chunk)
  <2>1. Smtp!OnEhloReq(s, chunk) => SmtpFacts!OnEhloReq(s, chunk)
    BY DEF Smtp!OnEhloReq, SmtpFacts!OnEhloReq
  <2>2. Smtp!OnAuthLoginReq(s, chunk) => SmtpFacts!OnAuthLoginReq(s, chunk)
    BY DEF Smtp!OnAuthLoginReq, SmtpFacts!OnAuthLoginReq
  <2>3. Smtp!OnPasswordReq(s, chunk) => SmtpFacts!OnPasswordReq(s, chunk)
    BY DEF Smtp!OnPasswordReq, SmtpFacts!OnPasswordReq
  <2>4. Smtp!OnNamePassVerifyReq(s, chunk) => SmtpFacts!OnNamePassVerifyReq(s, chunk)
    BY DEF Smtp!OnNamePassVerifyReq, SmtpFacts!OnNamePassVerifyReq
  <2>5. Smtp!OnMailFromReq(s, chunk) => SmtpFacts!OnMailFromReq(s, chunk)
    BY DEF Smtp!OnMailFromReq, SmtpFacts!OnMailFromReq
  <2>6. Smtp!OnRcptToReq(s, chunk) => SmtpFacts!OnRcptToReq(s, chunk)
    BY DEF Smtp!OnRcptToReq, SmtpFacts!OnRcptToReq
  <2>7. Smtp!OnDataReq(s, chunk) => SmtpFacts!OnDataReq(s, chunk)
    BY DEF Smtp!OnDataReq, SmtpFacts!OnDataReq
  <2>8. Smtp!OnData(s, chunk) => SmtpFacts!OnData(s, chunk)
    BY DEF Smtp!OnData, SmtpFacts!OnData, Smtp!EndsData, SmtpFacts!EndsData,
           Smtp!SaveSendMailInfo, SmtpFacts!SaveSendMailInfo,
           Smtp!CloseIfFinished, SmtpFacts!CloseIfFinished
  <2>9. Smtp!OnClientReqAtEnd(s) => SmtpFacts!OnClientReqAtEnd(s)
    BY DEF Smtp!OnClientReqAtEnd, SmtpFacts!OnClientReqAtEnd
  <2> QED
    BY <1>3, <2>1, <2>2, <2>3, <2>4, <2>5, <2>6, <2>7, <2>8, <2>9
       DEF Smtp!OnRecive, SmtpFacts!OnRecive
<1>4. Smtp!Next => SmtpFacts!Next
  BY <1>1, <1>2, <1>3 DEF Smtp!Next, SmtpFacts!Next
<1>5. Smtp!Init => SmtpFacts!Init
  BY DEF Smtp!Init, SmtpFacts!Init
<1> QED
  BY <1>4, <1>5

\* The listings and answers of the two instances are the same,
LEMMA SameAnswers ==
    /\ \A table, user : Pop3Facts!Listings(table, user) = Pop3!Listings(table, user)
    /\ \A step : Pop3Facts!GetNextStepCmd(step) = Pop3!GetNextStepCmd(step)
    /\ \A kind, mails : Pop3Facts!Answer(kind, mails) = Pop3!Answer(kind, mails)
    /\ \A req : Pop3Facts!FromString(req) = Pop3!FromString(req)
    /\ \A step : Pop3Facts!Rows(step) = Pop3!Rows(step)
    /\ \A name, password : Pop3Facts!IsPasswordRight(name, password)
                             <=> Pop3!IsPasswordRight(name, password)
    /\ \A name : Pop3Facts!CreateUserAddrFromNameAndDomain(name, Domain)
                   = Pop3!CreateUserAddrFromNameAndDomain(name, Domain)
    /\ Pop3Facts!EmptyText = Pop3!EmptyText
    /\ Pop3Facts!Nothing = Pop3!Nothing
    /\ Pop3Facts!NoRequest = Pop3!NoRequest
<1>1. ASSUME NEW table, NEW user
      PROVE  Pop3Facts!Listings(table, user) = Pop3!Listings(table, user)
  BY DEF Pop3Facts!Listings, Pop3!Listings, Pop3Facts!IsListing, Pop3!IsListing,
         Pop3Facts!Received, Pop3!Received
<1>2. ASSUME NEW kind, NEW mails
      PROVE  Pop3Facts!Answer(kind, mails) = Pop3!Answer(kind, mails)
  BY DEF Pop3Facts!Answer, Pop3!Answer
<1>3. Pop3Facts!EmptyText = Pop3!EmptyText /\ Pop3Facts!Nothing = Pop3!Nothing
  BY <1>2 DEF Pop3Facts!EmptyText, Pop3!EmptyText, Pop3Facts!Nothing, Pop3!Nothing
<1>4. ASSUME NEW step PROVE Pop3Facts!GetNextStepCmd(step) = Pop3!GetNextStepCmd(step)
  BY <1>2, <1>3 DEF Pop3Facts!GetNextStepCmd, Pop3!GetNextStepCmd
<1>5. ASSUME NEW req PROVE Pop3Facts!FromString(req) = Pop3!FromString(req)
  BY DEF Pop3Facts!FromString, Pop3!FromString
<1>6. ASSUME NEW step PROVE Pop3Facts!Rows(step) = Pop3!Rows(step)
  BY DEF Pop3Facts!Rows, Pop3!Rows
<1>7. ASSUME NEW name, NEW password
      PROVE  Pop3Facts!IsPasswordRight(name, password) <=> Pop3!IsPasswordRight(name, password)
  BY DEF Pop3Facts!IsPasswordRight, Pop3!IsPasswordRight
<1>8. ASSUME NEW name
      PROVE  Pop3Facts!CreateUserAddrFromNameAndDomain(name, Domain)
               = Pop3!CreateUserAddrFromNameAndDomain(name, Domain)
  BY <1>3 DEF Pop3Facts!CreateUserAddrFromNameAndDomain, Pop3!CreateUserAddrFromNameAndDomain,
              Pop3Facts!TrimName, Pop3!TrimName
<1>9. Pop3Facts!NoRequest = Pop3!NoRequest
  BY <1>3 DEF Pop3Facts!NoRequest, Pop3!NoRequest
<1> QED
  BY <1>1, <1>2, <1>3, <1>4, <1>5, <1>6, <1>7, <1>8, <1>9

\* and so are their steps.
LEMMA SamePop3Steps ==
    /\ Pop3!SessionNext => Pop3Facts!SessionNext
    /\ Pop3!SessionInit => Pop3Facts!SessionInit
<1> USE SameAnswers DEF Pop3!Reading, Pop3Facts!Reading, Pop3!Return, Pop3Facts!Return
<1>1. ASSUME NEW r \in Readers, Pop3!Accept(r) PROVE Pop3Facts!Accept(r)
  BY <1>1 DEF Pop3!Accept, Pop3Facts!Accept
<1>2. ASSUME NEW r \in Readers, Pop3!Disconnect(r) PROVE Pop3Facts!Disconnect(r)
  BY <1>2 DEF Pop3!Disconnect, Pop3Facts!Disconnect
<1>3. ASSUME NEW r \in Readers, NEW req \in Requests, Pop3!OnRecive(r, req)
      PROVE  Pop3Facts!OnRecive(r, req)
  <2>0. ASSUME NEW kind, Pop3!ReadMailbox(r, req, kind)
        PROVE  Pop3Facts!ReadMailbox(r, req, kind)
    BY <2>0 DEF Pop3!ReadMailbox, Pop3Facts!ReadMailbox,
       Pop3!GetRecvMailInfo, Pop3Facts!GetRecvMailInfo
  <2>1. Pop3!OnUser(r, req) => Pop3Facts!OnUser(r, req)
    BY DEF Pop3!OnUser, Pop3Facts!OnUser
  <2>2. Pop3!OnCapa(r, req) => Pop3Facts!OnCapa(r, req)
    BY DEF Pop3!OnCapa, Pop3Facts!OnCapa
  <2>3. Pop3!OnPassword(r, req) => Pop3Facts!OnPassword(r, req)
    BY <2>0 DEF Pop3!OnPassword, Pop3Facts!OnPassword
  <2>4. Pop3!OnState(r, req) => Pop3Facts!OnState(r, req)
    BY DEF Pop3!OnState, Pop3Facts!OnState
  <2>5. Pop3!OnRetr(r, req) => Pop3Facts!OnRetr(r, req)
    BY DEF Pop3!OnRetr, Pop3Facts!OnRetr, Pop3!Last, Pop3Facts!Last
  <2>6. Pop3!OnList(r, req) => Pop3Facts!OnList(r, req)
    BY <2>0 DEF Pop3!OnList, Pop3Facts!OnList
  <2>7. Pop3!OnQuit(r, req) => Pop3Facts!OnQuit(r, req)
    BY DEF Pop3!OnQuit, Pop3Facts!OnQuit
  <2>8. Pop3!Unanswered(r, req) => Pop3Facts!Unanswered(r, req)
    BY DEF Pop3!Unanswered, Pop3Facts!Unanswered
  <2> QED
    BY <1>3, <2>1, <2>2, <2>3, <2>4, <2>5, <2>6, <2>7, <2>8
       DEF Pop3!OnRecive, Pop3Facts!OnRecive
<1>4. Pop3!SessionNext => Pop3Facts!SessionNext
  BY <1>1, <1>2, <1>3 DEF Pop3!SessionNext, Pop3Facts!SessionNext
<1>5. Pop3!SessionInit => Pop3Facts!SessionInit
  BY DEF Pop3!SessionInit, Pop3Facts!SessionInit
<1> QED
  BY <1>4, <1>5

----------------------------------------------------------------------------
\* What is known of the SMTP sessions, their process not ending.
SmtpSound == SmtpFacts!TypeOK /\ SmtpFacts!Talk /\ SmtpFacts!Told

\* A step of the server that is not a callback of an SMTP session leaves what
\* the sessions were told, and at most saves the data of one of them.
SmtpQuiet ==
    /\ running' \in BOOLEAN
    /\ smtpConn' \in [Sessions -> {"none", "open", "closed"}]
    /\ \A s \in Sessions : smtpConn'[s] = "none" => smtpConn[s] = "none"
    /\ UNCHANGED << smtpStep, smtpUserName, smtpUserAddr, smtpPassword, smtpFinished, replies >>
    /\ \/ UNCHANGED << m_emailData, T_EMAIL_SEND, savedBy >>
       \/ \E s \in Sessions, chunk \in Chunks :
             /\ smtpStep[s] = "SMTP_RECV_EMAIL_DATA"
             /\ m_emailData' = [m_emailData EXCEPT ![s] = @ \o chunk]
             /\ T_EMAIL_SEND' = Append(T_EMAIL_SEND, ParseEmailForSmtp(m_emailData'[s]))
             /\ savedBy' = Append(savedBy, s)

\* Such a step keeps it.
LEMMA QuietKeepsSmtp ==
    ASSUME SmtpSound, SmtpQuiet
    PROVE  SmtpSound'
<1>0. /\ m_emailData \in [Sessions -> Seq(Words)] /\ T_EMAIL_SEND \in Seq(Row)
      /\ savedBy \in Seq(Sessions)
  BY SameTexts DEF SmtpSound, SmtpFacts!TypeOK, SmtpFacts!Row, Row
<1> DEFINE DataTyped ==
      /\ m_emailData' \in [Sessions -> Seq(Words)] /\ T_EMAIL_SEND' \in Seq(Row)
      /\ savedBy' \in Seq(Sessions)
      /\ \A q \in Sessions : m_emailData'[q] # << >> =>
            m_emailData[q] # << >> \/ smtpStep[q] = "SMTP_RECV_EMAIL_DATA"
<1>1. DataTyped
  <2>1. CASE UNCHANGED << m_emailData, T_EMAIL_SEND, savedBy >>
    BY <1>0, <2>1
  <2>2. ASSUME NEW s \in Sessions, NEW chunk \in Chunks,
               smtpStep[s] = "SMTP_RECV_EMAIL_DATA",
               m_emailData' = [m_emailData EXCEPT ![s] = @ \o chunk],
               T_EMAIL_SEND' = Append(T_EMAIL_SEND, ParseEmailForSmtp(m_emailData'[s])),
               savedBy' = Append(savedBy, s)
        PROVE  DataTyped
    <3>1. chunk \in Seq(Words) /\ m_emailData[s] \in Seq(Words)
      BY <1>0, EmailServerAssumption
    <3>2. m_emailData[s] \o chunk \in Seq(Words)
      BY <3>1, ConcatProperties
    <3>3. m_emailData' \in [Sessions -> Seq(Words)] /\ m_emailData'[s] \in Seq(Words)
      BY <1>0, <2>2, <3>2
    <3>4. ParseEmailForSmtp(m_emailData'[s]) \in Row
      BY <3>3, ParseEmailType DEF Row
    <3>5. T_EMAIL_SEND' \in Seq(Row)
      BY <1>0, <2>2, <3>4
    <3>6. savedBy' \in Seq(Sessions)
      BY <1>0, <2>2
    <3> QED
      BY <1>0, <2>2, <3>3, <3>5, <3>6
  <2> QED
    BY <2>1, <2>2 DEF SmtpQuiet
<1>2. SmtpFacts!TypeOK'
  BY <1>1, SameTexts DEF SmtpSound, SmtpQuiet, SmtpFacts!TypeOK, SmtpFacts!Row, Row
<1>3. SmtpFacts!Talk'
  BY <1>1 DEF SmtpSound, SmtpQuiet, SmtpFacts!Talk
<1>4. SmtpFacts!Told'
  BY DEF SmtpSound, SmtpQuiet, SmtpFacts!Told, SmtpFacts!LoginTold, SmtpFacts!IsPasswordRight
<1> QED
  BY <1>2, <1>3, <1>4 DEF SmtpSound

\* Every step of the server keeps it.
LEMMA SmtpSoundKept == SmtpSound /\ [Next]_vars => SmtpSound'
<1> SUFFICES ASSUME SmtpSound, [Next]_vars PROVE SmtpSound'
  OBVIOUS
<1>0. /\ smtpConn \in [Sessions -> {"none", "open", "closed"}] /\ running \in BOOLEAN
  BY DEF SmtpSound, SmtpFacts!TypeOK
<1>a. DropSmtp => /\ smtpConn' \in [Sessions -> {"none", "open", "closed"}]
                  /\ \A s \in Sessions : smtpConn'[s] = "none" => smtpConn[s] = "none"
  BY <1>0 DEF DropSmtp
<1>1. CASE SmtpCallback
  <2>1. SmtpFacts!Next
    BY <1>1, SameSmtpSteps DEF SmtpCallback
  <2>2. SmtpFacts!TypeOK /\ [SmtpFacts!Next]_SmtpFacts!vars => SmtpFacts!TypeOK'
    BY SmtpAssumes, SmtpFacts!TypeOKKept
  <2>3. SmtpFacts!TypeOK /\ SmtpFacts!Talk /\ [SmtpFacts!Next]_SmtpFacts!vars => SmtpFacts!Talk'
    BY SmtpAssumes, SmtpFacts!TalkIsInductive
  <2>4. SmtpFacts!TypeOK /\ SmtpFacts!Talk /\ SmtpFacts!Told /\ [SmtpFacts!Next]_SmtpFacts!vars
          => SmtpFacts!Told'
    BY SmtpAssumes, SmtpFacts!ToldKept
  <2> QED
    BY <2>1, <2>2, <2>3, <2>4 DEF SmtpSound
<1>2. CASE Pop3Callback
  <2>1. running' = running /\ UNCHANGED T_EMAIL_SEND
    BY <1>2 DEF Pop3Callback, Pop3!SessionNext, Pop3!Accept, Pop3!Disconnect, Pop3!OnRecive,
       Pop3!OnUser, Pop3!OnCapa, Pop3!OnPassword, Pop3!OnState, Pop3!OnRetr, Pop3!OnList,
       Pop3!OnQuit, Pop3!Unanswered
  <2>2. SmtpQuiet
    BY <1>0, <1>2, <2>1 DEF Pop3Callback, smtpSession, SmtpQuiet
  <2> QED
    BY <2>2, QuietKeepsSmtp
<1>3. CASE Kill
  <2>1. SmtpQuiet
    BY <1>3, <1>a DEF Kill, SmtpQuiet
  <2> QED
    BY <2>1, QuietKeepsSmtp
<1>4. ASSUME NEW s \in Sessions, NEW chunk \in Chunks, KillAfterSave(s, chunk)
      PROVE  SmtpSound'
  <2>1. SmtpQuiet
    BY <1>4, <1>a DEF KillAfterSave, Smtp!Reading, SmtpQuiet
  <2> QED
    BY <2>1, QuietKeepsSmtp
<1>5. CASE Start \/ UNCHANGED vars
  <2>1. SmtpQuiet
    BY <1>0, <1>5 DEF Start, vars, smtpSession, SmtpQuiet
  <2> QED
    BY <2>1, QuietKeepsSmtp
<1> QED
  BY <1>1, <1>2, <1>3, <1>4, <1>5 DEF Next

\* A server over a new file has it.
LEMMA SmtpSoundStarts == Init => SmtpSound
<1> SUFFICES ASSUME Init PROVE SmtpSound
  OBVIOUS
<1>1. SmtpFacts!Init
  BY SameSmtpSteps DEF Init
<1>2. SmtpFacts!TypeOK
  BY <1>1, SmtpAssumes, SmtpFacts!TypeOKStarts
<1>3. SmtpFacts!Talk
  BY <1>1, SmtpAssumes, SmtpFacts!TalkInitially
<1>4. SmtpFacts!Told
  BY <1>1 DEF SmtpFacts!Init, SmtpFacts!Told, SmtpFacts!LoginTold, SmtpFacts!PastLogin
<1> QED
  BY <1>2, <1>3, <1>4 DEF SmtpSound

----------------------------------------------------------------------------
\* What is known of the POP3 sessions, their table being the one SMTP fills.
Pop3Sound == Pop3Facts!TypeOK /\ Pop3Facts!AllHoldOwnMails

\* A step of the server that is not a callback of a POP3 session leaves what
\* the sessions hold and know, and at most adds a row to the table.
Pop3Quiet ==
    /\ running' \in BOOLEAN
    /\ pop3Conn' \in [Readers -> {"none", "open", "closed"}]
    /\ \A r \in Readers : pop3Conn'[r] = "none" => pop3Conn[r] = "none"
    /\ UNCHANGED << pop3Step, pop3UserAddr, pop3Password, m_emailArray, pop3Finished,
                    last, listed >>
    /\ \/ T_EMAIL_SEND' = T_EMAIL_SEND
       \/ \E row \in Row : T_EMAIL_SEND' = Append(T_EMAIL_SEND, row)

\* Such a step keeps it: the new row has a higher number than all those held.
LEMMA QuietKeepsPop3 ==
    ASSUME Pop3Sound, Pop3Quiet
    PROVE  Pop3Sound'
<1>0. T_EMAIL_SEND \in Seq(Row)
  BY DEF Pop3Sound, Pop3Facts!TypeOK
<1>1. T_EMAIL_SEND' \in Seq(Row)
  BY <1>0 DEF Pop3Quiet
<1>2. Pop3Facts!TypeOK'
  BY <1>1 DEF Pop3Sound, Pop3Quiet, Pop3Facts!TypeOK
<1>3. ASSUME NEW r \in Readers PROVE Pop3Facts!HoldsOwnMails(r)'
  <2>1. Pop3Facts!HoldsOwnMails(r)
    BY DEF Pop3Sound, Pop3Facts!AllHoldOwnMails
  <2>2. /\ T_EMAIL_SEND' = T_EMAIL_SEND
           \/ \E row \in Row : T_EMAIL_SEND' = Append(T_EMAIL_SEND, row)
        /\ UNCHANGED << pop3Step, pop3UserAddr, m_emailArray, last, listed >>
        /\ pop3Conn'[r] = "none" => pop3Conn[r] = "none"
    BY DEF Pop3Quiet
  <2> QED
    BY <1>0, <2>1, <2>2, Pop3Assumes, Pop3Facts!GrownTableKeepsMails
<1>4. Pop3Facts!AllHoldOwnMails'
  BY <1>3 DEF Pop3Facts!AllHoldOwnMails
<1> QED
  BY <1>2, <1>4 DEF Pop3Sound

\* Every step of the server keeps it.
LEMMA Pop3SoundKept ==
    ASSUME StoreInv, Pop3Sound, [Next]_vars, running' \in BOOLEAN
    PROVE  Pop3Sound'
<1>0. pop3Conn \in [Readers -> {"none", "open", "closed"}]
  BY DEF StoreInv
<1>a. DropPop3 => /\ pop3Conn' \in [Readers -> {"none", "open", "closed"}]
                  /\ \A r \in Readers : pop3Conn'[r] = "none" => pop3Conn[r] = "none"
  BY <1>0 DEF DropPop3
<1>1. CASE SmtpCallback
  <2> DEFINE AddsOneRow == \/ T_EMAIL_SEND' = T_EMAIL_SEND
                           \/ \E row \in Row : T_EMAIL_SEND' = Append(T_EMAIL_SEND, row)
  <2>1. AddsOneRow
    <3>1. ASSUME NEW s \in Sessions, NEW chunk \in Chunks, TakesData(s, chunk)
          PROVE  AddsOneRow
      BY <3>1, TakesDataTyped DEF TakesData
    <3> QED
      BY <1>1, <3>1, SmtpEffects DEF SmtpCallback, TakesNoData
  <2>2. Pop3Quiet
    BY <1>0, <1>1, <1>a, <2>1 DEF SmtpCallback, Pop3Quiet
  <2> QED
    BY <2>2, QuietKeepsPop3
<1>2. CASE Pop3Callback
  <2>1. Pop3Facts!Next
    BY <1>2, SamePop3Steps DEF Pop3Callback, Pop3Facts!Next
  <2>2. Pop3Facts!TypeOK /\ [Pop3Facts!Next]_Pop3Facts!vars => Pop3Facts!TypeOK'
    BY Pop3Assumes, Pop3Facts!TypeOKKept
  <2>3. Pop3Facts!TypeOK /\ Pop3Facts!AllHoldOwnMails /\ [Pop3Facts!Next]_Pop3Facts!vars
          => Pop3Facts!AllHoldOwnMails'
    BY Pop3Assumes, Pop3Facts!MailsStayOwn
  <2> QED
    BY <2>1, <2>2, <2>3 DEF Pop3Sound
<1>3. CASE Kill
  <2>1. Pop3Quiet
    BY <1>3, <1>a DEF Kill, Pop3Quiet
  <2> QED
    BY <2>1, QuietKeepsPop3
<1>4. ASSUME NEW s \in Sessions, NEW chunk \in Chunks, KillAfterSave(s, chunk)
      PROVE  Pop3Sound'
  <2>1. \E row \in Row : T_EMAIL_SEND' = Append(T_EMAIL_SEND, row)
    <3>1. /\ m_emailData[s] \in Seq(Words) /\ chunk \in Seq(Words)
          /\ m_emailData' = [m_emailData EXCEPT ![s] = @ \o chunk]
          /\ T_EMAIL_SEND' = Append(T_EMAIL_SEND, ParseEmailForSmtp(m_emailData'[s]))
      BY <1>4, EmailServerAssumption DEF KillAfterSave, StoreInv
    <3>2. m_emailData'[s] \in Seq(Words)
      <4>1. m_emailData[s] \o chunk \in Seq(Words)
        BY <3>1, ConcatProperties
      <4> QED
        BY <3>1, <4>1 DEF StoreInv
    <3> QED
      BY <3>1, <3>2, ParseEmailType DEF Row
  <2>2. Pop3Quiet
    BY <1>4, <1>a, <2>1 DEF KillAfterSave, Pop3Quiet
  <2> QED
    BY <2>2, QuietKeepsPop3
<1>5. CASE Start \/ UNCHANGED vars
  <2>1. Pop3Quiet
    BY <1>0, <1>5 DEF Start, vars, pop3Session, Pop3Quiet
  <2> QED
    BY <2>1, QuietKeepsPop3
<1> QED
  BY <1>1, <1>2, <1>3, <1>4, <1>5 DEF Next

\* A server over a new file has it.
LEMMA Pop3SoundStarts == Init => Pop3Sound
<1> SUFFICES ASSUME Init PROVE Pop3Sound
  OBVIOUS
<1>1. Pop3Facts!Init
  BY SamePop3Steps DEF Init, Smtp!Init, Pop3Facts!Init
<1> QED
  BY <1>1, Pop3Assumes, Pop3Facts!TypeOKStarts, Pop3Facts!MailsAreOwnAtFirst DEF Pop3Sound

\* So neither side disturbs the other, nor do the ends of the process.
LEMMA SessionsAreSound == Spec => [](SmtpSound /\ Pop3Sound)
<1>1. StoreInv /\ [Next]_vars => StoreInv'
  BY ServerEffects, StoreInvKept
<1>2. SmtpSound' => running' \in BOOLEAN
  BY DEF SmtpSound, SmtpFacts!TypeOK
<1>3. StoreInv /\ SmtpSound /\ Pop3Sound /\ [Next]_vars => SmtpSound' /\ Pop3Sound'
  BY <1>2, SmtpSoundKept, Pop3SoundKept
<1> QED
  BY <1>1, <1>3, StoreInvStarts, SmtpSoundStarts, Pop3SoundStarts, PTL DEF Spec

\* Whatever the POP3 sessions do to the shared table and whenever the process
\* ends, the replies of an SMTP session are a beginning of one of its dialogues,
\* and data is taken only after the 354 of that dialogue,
THEOREM ServerDialogue == Spec => []Smtp!DialogueInOrder
<1>1. SmtpSound => Smtp!DialogueInOrder
  <2>1. SmtpFacts!Dialogues = Smtp!Dialogues
    BY DEF SmtpFacts!Dialogues, Smtp!Dialogues, SmtpFacts!LoginDialogue, Smtp!LoginDialogue,
       SmtpFacts!GreetedThrough, Smtp!GreetedThrough, SmtpFacts!Followed, Smtp!Followed
  <2>2. \A d \in Smtp!Dialogues["SMTP_RECV_EMAIL_DATA"] : Smtp!Last(d) = "354"
    BY <2>1, SmtpAssumes, SmtpFacts!DataFollows354 DEF SmtpFacts!Last, Smtp!Last
  <2> QED
    BY <2>1, <2>2 DEF SmtpSound, SmtpFacts!Talk, Smtp!DialogueInOrder
<1> QED
  BY <1>1, SessionsAreSound, PTL

\* and a session past the login was told 235 exactly if the name and the
\* password it sent are a user's.
THEOREM ServerLogin == Spec => []Smtp!LoginAnswered
<1>1. SmtpSound => Smtp!LoginAnswered
  <2>1. SmtpFacts!Told => SmtpFacts!LoginAnswered
    BY SmtpAssumes, SmtpFacts!ToldIsAnswered
  <2>2. SmtpFacts!LoginAnswered => Smtp!LoginAnswered
    BY DEF SmtpFacts!LoginAnswered, Smtp!LoginAnswered, SmtpFacts!LoginDialogue,
       Smtp!LoginDialogue, SmtpFacts!IsPrefix, Smtp!IsPrefix,
       SmtpFacts!IsPasswordRight, Smtp!IsPasswordRight
  <2> QED
    BY <2>1, <2>2 DEF SmtpSound
<1> QED
  BY <1>1, SessionsAreSound, PTL

\* While SMTP sessions add mails, the array RETR looks at is the last listing its
\* client was sent: a mail is the answer to a number of that listing only, and is
\* always the last one of it,
THEOREM ServerNumbering == Spec => []Pop3!NumberingIsKnown
<1>1. Pop3Sound => Pop3!NumberingIsKnown
  BY DEF Pop3Sound, Pop3Facts!AllHoldOwnMails, Pop3Facts!HoldsOwnMails, Pop3!NumberingIsKnown,
     Pop3Facts!Last, Pop3!Last
<1> QED
  BY <1>1, SessionsAreSound, PTL

\* and a mail a session was shown is, from then on, one some SMTP session
\* addressed to the user it named.
THEOREM ServerShown == Spec => []Pop3!ShownMailIsAddressed
<1>1. Pop3Sound => Pop3!ShownMailIsAddressed
  BY DEF Pop3Sound, Pop3Facts!AllHoldOwnMails, Pop3Facts!HoldsOwnMails,
     Pop3Facts!Received, Pop3!ShownMailIsAddressed
<1> QED
  BY <1>1, SessionsAreSound, PTL


----------------------------------------------------------------------------
\* Every nonempty set of naturals has a smallest element.
LEMMA Smallest ==
    ASSUME NEW S \in SUBSET Nat, S # {}
    PROVE  \E x \in S : \A y \in S : x <= y
<1> DEFINE R == {p \in Nat \X Nat : p[1] < p[2]}
<1>0. IsWellFoundedOn(R, Nat)
  BY NatLessThanWellFounded DEF OpToRel
<1>1. \A x, y \in Nat : << y, x >> \in R <=> y < x
  OBVIOUS
<1>2. \E x \in S : \A y \in S : ~(<< y, x >> \in R)
  <2> HIDE DEF R
  <2> QED
    BY <1>0, WFMin
<1> HIDE DEF R
<1>3. PICK x \in S : \A y \in S : ~(y < x)
  BY <1>1, <1>2
<1>4. \A y \in S : x <= y
  BY <1>3
<1> QED
  BY <1>4

\* What a loop has after each of n turns, if it starts with a.
Runs(A, a, F, n) ==
    {f \in [0 .. n -> A] : f[0] = a /\ \A i \in 1 .. n : f[i] = F[<< i, f[i - 1] >>]}

\* A loop that hands what it has from one turn to the next can be run any number of
\* turns: there is a function of what it has after each.
LEMMA LoopRuns ==
    ASSUME NEW A, NEW a \in A, NEW F \in [Nat \X A -> A], NEW n \in Nat
    PROVE  Runs(A, a, F, n) # {}
<1> DEFINE Run(m) == \E f \in [0 .. m -> A] :
                        f[0] = a /\ \A i \in 1 .. m : f[i] = F[<< i, f[i - 1] >>]
           Bad == {m \in Nat : ~Run(m)}
<1>1. Run(0)
  <2>1. [i \in 0 .. 0 |-> a] \in [0 .. 0 -> A] /\ [i \in 0 .. 0 |-> a][0] = a
    OBVIOUS
  <2>2. 1 .. 0 = {}
    OBVIOUS
  <2> QED
    BY <2>1, <2>2
<1>2. ASSUME NEW m \in Nat, Run(m) PROVE Run(m + 1)
  <2>1. PICK f \in [0 .. m -> A] : f[0] = a /\ \A i \in 1 .. m : f[i] = F[<< i, f[i - 1] >>]
    BY <1>2
  <2> DEFINE g == [i \in 0 .. (m + 1) |-> IF i = m + 1 THEN F[<< m + 1, f[m] >>] ELSE f[i]]
  <2>2. F[<< m + 1, f[m] >>] \in A
    OBVIOUS
  <2>3. \A i \in 0 .. (m + 1) : i = m + 1 \/ i \in 0 .. m
    OBVIOUS
  <2>4. g \in [0 .. (m + 1) -> A]
    BY <2>2, <2>3
  <2>5. g[0] = a
    BY <2>1
  <2>6. ASSUME NEW i \in 1 .. (m + 1) PROVE g[i] = F[<< i, g[i - 1] >>]
    <3>1. i - 1 \in 0 .. (m + 1) /\ i - 1 # m + 1 /\ i \in 0 .. (m + 1)
      OBVIOUS
    <3>2. g[i - 1] = f[i - 1]
      BY <3>1
    <3>3. CASE i = m + 1
      <4>1. i - 1 = m
        BY <3>3
      <4>2. g[i] = F[<< m + 1, f[m] >>]
        BY <3>1, <3>3
      <4> HIDE DEF g
      <4> QED
        BY <3>2, <3>3, <4>1, <4>2
    <3>4. CASE i # m + 1
      BY <2>1, <3>1, <3>2, <3>4
    <3> QED
      BY <3>3, <3>4
  <2> HIDE DEF g
  <2> QED
    BY <2>4, <2>5, <2>6
<1> HIDE DEF Run
<1>3. Bad = {}
  <2> SUFFICES ASSUME Bad # {} PROVE FALSE
    OBVIOUS
  <2>1. PICK m \in Bad : \A k \in Bad : m <= k
    <3>1. Bad \in SUBSET Nat
      OBVIOUS
    <3> HIDE DEF Bad
    <3> QED
      BY <3>1, Smallest
  <2>2. m \in Nat /\ m # 0
    BY <1>1
  <2>3. m - 1 \in Nat /\ ~(m <= m - 1)
    BY <2>2
  <2>4. Run(m - 1)
    BY <2>1, <2>3
  <2>5. Run((m - 1) + 1)
    BY <1>2, <2>3, <2>4
  <2>6. (m - 1) + 1 = m
    BY <2>2
  <2> QED
    BY <2>1, <2>5, <2>6
<1>4. Run(n)
  BY <1>3
<1> QED
  BY <1>4 DEF Run, Runs

\* As long as two loops agree before a turn, they do after it.
GoTogether(f, g, a, n) ==
    f[a] = g[a] /\ \A i \in a + 1 .. n : f[i - 1] = g[i - 1] => f[i] = g[i]

\* So a loop has one result only, wherever it starts.
LEMMA LoopsAgree ==
    ASSUME NEW a \in Nat, NEW n \in Nat, a <= n, NEW f, NEW g, GoTogether(f, g, a, n)
    PROVE  f[n] = g[n]
<1> DEFINE Bad == {i \in a .. n : f[i] # g[i]}
<1>1. Bad = {}
  <2> SUFFICES ASSUME Bad # {} PROVE FALSE
    OBVIOUS
  <2>1. PICK m \in Bad : \A k \in Bad : m <= k
    <3>1. Bad \in SUBSET Nat
      OBVIOUS
    <3> HIDE DEF Bad
    <3> QED
      BY <3>1, Smallest
  <2>2. m \in a + 1 .. n
    BY <2>1 DEF GoTogether
  <2>3. m - 1 \in a .. n /\ ~(m <= m - 1)
    BY <2>2
  <2>4. f[m - 1] = g[m - 1]
    BY <2>1, <2>3
  <2> QED
    BY <2>1, <2>2, <2>4 DEF GoTogether
<1> QED
  BY <1>1

----------------------------------------------------------------------------
\* Texts put together one after the other, as FlattenSeq does it.
IsFlat(f, ss) ==
    /\ f \in [1 .. Len(ss) -> Seq(Words)]
    /\ f[1] = ss[1]
    /\ \A n \in 2 .. Len(ss) : f[n] = f[n - 1] \o ss[n]

\* Texts can be put together,
LEMMA FlatExists ==
    ASSUME NEW ss \in Seq(Seq(Words)), ss # << >>
    PROVE  \E f : IsFlat(f, ss)
<1> DEFINE F == [p \in Nat \X Seq(Words) |-> IF p[1] \in 1 .. Len(ss) THEN p[2] \o ss[p[1]] ELSE p[2]]
<1>1. F \in [Nat \X Seq(Words) -> Seq(Words)]
  <2>1. ASSUME NEW n \in 1 .. Len(ss), NEW t \in Seq(Words) PROVE t \o ss[n] \in Seq(Words)
    <3>1. ss[n] \in Seq(Words)
      OBVIOUS
    <3> QED
      BY <3>1
  <2> QED
    BY <2>1
<1>2. Len(ss) \in Nat /\ Len(ss) >= 1 /\ << >> \in Seq(Words)
  OBVIOUS
<1>3. Runs(Seq(Words), << >>, F, Len(ss)) # {}
  <2> HIDE DEF F
  <2> QED
    BY <1>1, <1>2, LoopRuns
<1>4. PICK f \in [0 .. Len(ss) -> Seq(Words)] :
         f[0] = << >> /\ \A i \in 1 .. Len(ss) : f[i] = F[<< i, f[i - 1] >>]
  <2> HIDE DEF F
  <2> QED
    BY <1>3 DEF Runs
<1>5. \A i \in 1 .. Len(ss) : f[i] = f[i - 1] \o ss[i]
  <2> TAKE i \in 1 .. Len(ss)
  <2>1. i \in Nat /\ i - 1 \in 0 .. Len(ss)
    BY <1>2
  <2>2. f[i - 1] \in Seq(Words)
    BY <2>1
  <2>3. << i, f[i - 1] >> \in Nat \X Seq(Words)
    BY <2>1, <2>2
  <2> QED
    BY <1>4, <2>3
<1> HIDE DEF F
<1> DEFINE g == [i \in 1 .. Len(ss) |-> f[i]]
<1>6. g \in [1 .. Len(ss) -> Seq(Words)]
  BY <1>2
<1>7. g[1] = ss[1]
  <2>1. f[1] = f[0] \o ss[1]
    <3>1. 1 \in 1 .. Len(ss) /\ 1 - 1 = 0
      BY <1>2
    <3> QED
      BY <1>5, <3>1
  <2>2. ss[1] \in Seq(Words)
    BY <1>2
  <2>3. << >> \o ss[1] = ss[1]
    BY <2>2, ConcatEmptySeq
  <2> QED
    BY <1>2, <1>4, <2>1, <2>3
<1>8. \A n \in 2 .. Len(ss) : g[n] = g[n - 1] \o ss[n]
  <2> TAKE n \in 2 .. Len(ss)
  <2>1. n \in 1 .. Len(ss) /\ n - 1 \in 1 .. Len(ss)
    BY <1>2
  <2> QED
    BY <1>5, <2>1
<1> QED
  BY <1>6, <1>7, <1>8 DEF IsFlat

\* and FlattenSeq returns the last of them.
LEMMA FlattenIsFlat ==
    ASSUME NEW ss \in Seq(Seq(Words)), ss # << >>, NEW f, IsFlat(f, ss)
    PROVE  FlattenSeq(ss) = f[Len(ss)]
<1> DEFINE next(n, before) == before \o ss[n]
           body(w) == [n \in 1 .. Len(ss) |-> IF n = 1 THEN ss[n] ELSE next(n, w[n - 1])]
           flat == CHOOSE w : w = body(w)
<1>1. Len(ss) \in Nat /\ Len(ss) >= 1
  OBVIOUS
<1>2. FlattenSeq(ss) = flat[Len(ss)]
  BY <1>1 DEF FlattenSeq
<1>3. \A n \in 2 .. Len(ss) : f[n] = next(n, f[n - 1])
  BY DEF IsFlat
<1> HIDE DEF next
<1>4. f = body(f)
  BY <1>1, <1>3 DEF IsFlat
<1>5. flat = body(flat)
  <2> HIDE DEF body
  <2> QED
    BY <1>4
<1> HIDE DEF flat
<1>6. flat[1] = ss[1] /\ \A n \in 2 .. Len(ss) : flat[n] = next(n, flat[n - 1])
  BY <1>1, <1>5
<1> HIDE DEF body
<1>7. \A n \in 1 + 1 .. Len(ss) : flat[n - 1] = f[n - 1] => flat[n] = f[n]
  BY <1>3, <1>6
<1>8. flat[1] = f[1]
  BY <1>6 DEF IsFlat
<1>9. flat[Len(ss)] = f[Len(ss)]
  <2>1. GoTogether(flat, f, 1, Len(ss))
    BY <1>7, <1>8 DEF GoTogether
  <2>2. 1 \in Nat /\ 1 <= Len(ss)
    BY <1>1
  <2> QED
    BY <1>1, <2>1, <2>2, LoopsAgree
<1> QED
  BY <1>1, <1>2, <1>9

\* One more text comes behind all the others.
LEMMA FlattenAppend ==
    ASSUME NEW ss \in Seq(Seq(Words)), ss # << >>, NEW t \in Seq(Words)
    PROVE  /\ FlattenSeq(ss) \in Seq(Words)
           /\ FlattenSeq(Append(ss, t)) = FlattenSeq(ss) \o t
<1> DEFINE l == Len(ss)
           more == Append(ss, t)
<1>1. PICK f : IsFlat(f, ss)
  BY FlatExists
<1>2. /\ more \in Seq(Seq(Words)) /\ more # << >> /\ Len(more) = l + 1 /\ l \in Nat /\ l >= 1
      /\ more[l + 1] = t /\ \A i \in 1 .. l : more[i] = ss[i]
  BY AppendProperties
<1>3. f \in [1 .. l -> Seq(Words)] /\ f[1] = ss[1] /\ \A n \in 2 .. l : f[n] = f[n - 1] \o ss[n]
  BY <1>1 DEF IsFlat
<1>4. FlattenSeq(ss) = f[l]
  BY <1>1, FlattenIsFlat
<1> DEFINE g == [n \in 1 .. l + 1 |-> IF n = l + 1 THEN f[l] \o t ELSE f[n]]
<1> HIDE DEF l, more
<1>5. f[l] \in Seq(Words) /\ f[l] \o t \in Seq(Words)
  <2>1. f[l] \in Seq(Words)
    BY <1>2, <1>3
  <2> QED
    BY <2>1
<1>6. IsFlat(g, more)
  <2>1. g \in [1 .. l + 1 -> Seq(Words)] /\ g[1] = more[1]
    BY <1>2, <1>3, <1>5
  <2>2. ASSUME NEW n \in 2 .. l + 1 PROVE g[n] = g[n - 1] \o more[n]
    <3>1. n - 1 \in 1 .. l + 1 /\ n - 1 # l + 1 /\ n \in 1 .. l + 1
      BY <1>2
    <3>2. g[n - 1] = f[n - 1]
      BY <3>1
    <3>3. CASE n = l + 1
      <4>1. g[n] = f[l] \o t /\ n - 1 = l /\ more[n] = t
        BY <1>2, <3>1, <3>3
      <4> QED
        BY <3>2, <4>1
    <3>4. CASE n # l + 1
      <4>1. n \in 2 .. l
        BY <1>2, <3>4
      <4>2. g[n] = f[n] /\ more[n] = ss[n]
        BY <1>2, <3>1, <3>4, <4>1
      <4> QED
        BY <1>3, <3>2, <4>1, <4>2
    <3> QED
      BY <3>3, <3>4
  <2> HIDE DEF g
  <2> QED
    BY <1>2, <2>1, <2>2 DEF IsFlat
<1>7. g[l + 1] = f[l] \o t
  BY <1>2
<1> HIDE DEF g
<1>8. FlattenSeq(more) = g[l + 1]
  BY <1>2, <1>6, FlattenIsFlat
<1> QED
  BY <1>4, <1>5, <1>7, <1>8 DEF more

\* One text is all there is.
LEMMA FlattenOne ==
    ASSUME NEW ss \in Seq(Seq(Words)), ss # << >>, Len(ss) = 1
    PROVE  FlattenSeq(ss) = ss[1]
<1>1. PICK f : IsFlat(f, ss)
  BY FlatExists
<1> QED
  BY <1>1, FlattenIsFlat DEF IsFlat

----------------------------------------------------------------------------
\* The first parts of a script.
LEMMA FirstParts ==
    ASSUME NEW parts \in Seq(Seq(Words)), NEW n \in 0 .. Len(parts)
    PROVE  /\ SubSeq(parts, 1, n) \in Seq(Seq(Words)) /\ Len(SubSeq(parts, 1, n)) = n
           /\ \A i \in 1 .. n : SubSeq(parts, 1, n)[i] = parts[i]
<1>1. \A i \in 1 .. n : parts[i] \in Seq(Words)
  OBVIOUS
<1>2. 1 \in Int /\ n \in Int /\ (1 <= n => n - 1 + 1 = n) /\ (~(1 <= n) => n = 0)
  OBVIOUS
<1>3. /\ SubSeq(parts, 1, n) \in Seq(Seq(Words))
      /\ Len(SubSeq(parts, 1, n)) = IF 1 <= n THEN n - 1 + 1 ELSE 0
      /\ \A i \in 1 .. n - 1 + 1 : SubSeq(parts, 1, n)[i] = parts[1 + i - 1]
  BY <1>1, <1>2, SubSeqProperties
<1> QED
  BY <1>2, <1>3

\* Nothing is written before the first part,
LEMMA WrittenNothing ==
    ASSUME NEW parts \in Seq(Seq(Words))
    PROVE  Written(parts, 0) = << >>
<1>1. SubSeq(parts, 1, 0) = << >>
  BY SubSeqEmpty
<1> QED
  BY <1>1 DEF Written, FlattenSeq

\* and each part is written behind those before it.
LEMMA WrittenGrows ==
    ASSUME NEW parts \in Seq(Seq(Words)), NEW n \in 0 .. Len(parts) - 1
    PROVE  /\ parts[n + 1] \in Seq(Words)
           /\ Written(parts, n) \in Seq(Words)
           /\ Written(parts, n + 1) = Written(parts, n) \o parts[n + 1]
<1> DEFINE p == parts[n + 1]
           before == SubSeq(parts, 1, n)
           after == SubSeq(parts, 1, n + 1)
<1>1. n \in Nat /\ n \in 0 .. Len(parts) /\ n + 1 \in 0 .. Len(parts) /\ n + 1 \in 1 .. Len(parts)
  OBVIOUS
<1>2. p \in Seq(Words)
  BY <1>1
<1>3. /\ before \in Seq(Seq(Words)) /\ Len(before) = n
      /\ \A i \in 1 .. n : before[i] = parts[i]
  BY <1>1, FirstParts
<1>4. /\ after \in Seq(Seq(Words)) /\ Len(after) = n + 1
      /\ \A i \in 1 .. n + 1 : after[i] = parts[i]
  BY <1>1, FirstParts
<1>5. Written(parts, n) = FlattenSeq(before) /\ Written(parts, n + 1) = FlattenSeq(after)
  BY DEF Written
<1> HIDE DEF before, after
<1>6. CASE n = 0
  <2>1. Len(after) = 1 /\ after[1] = p /\ after # << >>
    <3>1. n + 1 = 1
      BY <1>6
    <3>2. Len(after) = 1 /\ after[1] = parts[1]
      BY <1>4, <3>1
    <3>3. after # << >>
      BY <1>4, <3>2
    <3>4. parts[1] = p
      BY <3>1
    <3> QED
      BY <3>2, <3>3, <3>4
  <2> HIDE DEF p
  <2>2. Written(parts, n + 1) = p
    BY <1>4, <1>5, <2>1, FlattenOne
  <2>3. Written(parts, n) = << >> /\ << >> \in Seq(Words)
    BY <1>6, WrittenNothing
  <2>4. << >> \o p = p
    BY <1>2, ConcatEmptySeq
  <2> QED
    BY <1>2, <2>2, <2>3, <2>4 DEF p
<1>7. CASE n # 0
  <2> HIDE DEF p
  <2>1. after = Append(before, p)
    <3>1. /\ Append(before, p) \in Seq(Seq(Words)) /\ Len(Append(before, p)) = n + 1
          /\ \A i \in 1 .. n : Append(before, p)[i] = before[i]
          /\ Append(before, p)[n + 1] = p
      <4>1. Append(before, p) \in Seq(Seq(Words))
        BY <1>2, <1>3, AppendProperties
      <4>2. Len(Append(before, p)) = n + 1
        BY <1>2, <1>3, AppendProperties
      <4>3. Append(before, p)[n + 1] = p
        BY <1>2, <1>3, AppendProperties
      <4>4. \A i \in 1 .. n : Append(before, p)[i] = before[i]
        BY <1>2, <1>3, AppendProperties
      <4> QED
        BY <4>1, <4>2, <4>3, <4>4
    <3>2. ASSUME NEW i \in 1 .. n + 1 PROVE after[i] = Append(before, p)[i]
      <4>1. CASE i = n + 1
        BY <1>4, <3>1, <4>1 DEF p
      <4>2. CASE i # n + 1
        <5>1. i \in 1 .. n
          BY <1>1, <4>2
        <5> QED
          BY <1>3, <1>4, <3>1, <5>1
      <4> QED
        BY <4>1, <4>2
    <3> QED
      BY <1>4, <3>1, <3>2, SeqEqual
  <2>2. before # << >>
    BY <1>3, <1>7
  <2>3. FlattenSeq(before) \in Seq(Words) /\ FlattenSeq(Append(before, p)) = FlattenSeq(before) \o p
    BY <1>2, <1>3, <2>2, FlattenAppend
  <2> QED
    BY <1>2, <1>5, <2>1, <2>3 DEF p
<1> QED
  BY <1>6, <1>7

\* It does not matter which two of three texts are put together first.
LEMMA ConcatTexts ==
    ASSUME NEW r \in Seq(Words), NEW s \in Seq(Words), NEW t \in Seq(Words)
    PROVE  (r \o s) \o t = r \o (s \o t)
BY ConcatAssociative

\* What a text holds, every text holds that it is a piece of.
LEMMA FoundInside ==
    ASSUME NEW a \in Seq(Words), NEW b \in Seq(Words), NEW c \in Seq(Words),
           NEW pat, Len(pat) \in Nat, HasText(b, pat)
    PROVE  HasText(a \o (b \o c), pat)
<1> DEFINE t == a \o (b \o c)
           l == Len(a)
           m == Len(pat)
<1>1. PICK i \in Find(b, pat) : TRUE
  BY DEF HasText
<1>2. /\ i \in Nat /\ 1 <= i /\ i + m - 1 <= Len(b) /\ SubSeq(b, i, i + m - 1) = pat
      /\ l \in Nat /\ m \in Nat /\ Len(b) \in Nat /\ Len(c) \in Nat
  BY <1>1 DEF Find
<1>3. t \in Seq(Words) /\ Len(t) = l + (Len(b) + Len(c))
  OBVIOUS
<1>4. \A k \in 1 .. Len(b) : t[l + k] = b[k]
  OBVIOUS
<1> HIDE DEF t, l, m
<1>5. SubSeq(t, l + i, l + i + m - 1) = pat
  <2> DEFINE low  == i + m - 1
             high == l + i + m - 1
             left == SubSeq(b, i, low)
             right == SubSeq(t, l + i, high)
  <2>1. /\ i \in Int /\ low \in Int /\ l + i \in Int /\ high \in Int
        /\ low - i + 1 = m /\ high - (l + i) + 1 = m
        /\ low <= Len(b) /\ high <= l + Len(b) /\ high <= Len(t)
        /\ i >= 1 /\ l + i >= 1
        /\ i <= low <=> m > 0
        /\ l + i <= high <=> m > 0
        /\ m = 0 \/ m > 0
    BY <1>2, <1>3
  <2>2. left = pat
    BY <1>2
  <2> HIDE DEF low, high
  <2>3. ASSUME NEW k \in i .. low PROVE b[k] \in Words
    <3>1. k \in 1 .. Len(b)
      BY <1>2, <2>1
    <3> QED
      BY <3>1
  <2>4. ASSUME NEW k \in l + i .. high PROVE t[k] \in Words
    <3>1. k \in 1 .. Len(t)
      BY <1>2, <1>3, <2>1
    <3> QED
      BY <1>3, <3>1
  <2>5. /\ left \in Seq(Words) /\ Len(left) = (IF i <= low THEN low - i + 1 ELSE 0)
        /\ \A k \in 1 .. low - i + 1 : left[k] = b[i + k - 1]
    BY SMTT(30), <2>1, <2>3, SubSeqProperties
  <2>6. /\ right \in Seq(Words) /\ Len(right) = (IF l + i <= high THEN high - (l + i) + 1 ELSE 0)
        /\ \A k \in 1 .. high - (l + i) + 1 : right[k] = t[l + i + k - 1]
    BY SMTT(30), <2>1, <2>4, SubSeqProperties
  <2> HIDE DEF left, right
  <2>7. Len(left) = m /\ Len(right) = m
    BY <2>1, <2>5, <2>6
  <2>8. ASSUME NEW k \in 1 .. m PROVE right[k] = left[k]
    <3>1. left[k] = b[i + k - 1] /\ right[k] = t[l + i + k - 1]
      BY <2>1, <2>5, <2>6
    <3>2. i + k - 1 \in 1 .. Len(b) /\ l + i + k - 1 = l + (i + k - 1)
      BY <1>2, <2>1
    <3> QED
      BY <1>4, <3>1, <3>2
  <2>9. right = left
    BY <2>5, <2>6, <2>7, <2>8, SeqEqual
  <2> QED
    BY <2>2, <2>9 DEF right, high
<1>6. l + i \in Find(t, pat)
  <2>1. l + i \in 1 .. Len(t) - m + 1
    BY <1>2, <1>3
  <2> QED
    BY <1>5, <2>1 DEF Find, m
<1> QED
  BY <1>6 DEF HasText, t

----------------------------------------------------------------------------
\* The state of the clients' side, as far as the proof needs it.
SenderTyped ==
    /\ script \in Scripts
    /\ SmtpTyped
    /\ DOMAIN smtpStep = Sessions
    /\ savedBy \in Seq(Sessions)
    /\ T_EMAIL_SEND \in Seq(Row)
    /\ Len(savedBy) = Len(T_EMAIL_SEND)
    /\ client \in [Sessions -> {"unused", "open", "over"}]
    /\ wrote \in [Sessions -> 0 .. Len(script)]
    /\ wire \in [Sessions -> Seq(Words)]

\* A session the client has not opened is untouched.
Unused ==
    \A s \in Sessions : client[s] = "unused" =>
        smtpConn[s] = "none" /\ m_emailData[s] = << >> /\ wire[s] = << >> /\ wrote[s] = 0

\* While the client tries one session no other is open, and none that is over was
\* written the end of the mail;
OneTries ==
    \A s, t \in Sessions : s # t /\ client[s] = "open" =>
        client[t] = "unused" \/ (client[t] = "over" /\ wrote[t] < Len(script))

\* so at most one session was ever written the whole mail.
OneWhole ==
    \A s, t \in Sessions : wrote[s] = Len(script) /\ wrote[t] = Len(script) => s = t

\* What is data and what is on its way are the last of what was written.
IsSent(data, w, n) ==
    \E front \in Seq(Words) : front \o (data \o w) = Written(script, n)

\* Data comes from the client, in the last step of the dialogue only, and has an end
\* only when the client has written all of its mail.
DataIsSent ==
    \A s \in Sessions :
        /\ m_emailData[s] # << >> => smtpStep[s] = "SMTP_RECV_EMAIL_DATA"
        /\ smtpConn[s] = "open" => IsSent(m_emailData[s], wire[s], wrote[s])
        /\ HasText(m_emailData[s], EndOfData)
             => smtpConn[s] = "closed" /\ wrote[s] = Len(script)

\* The rows are those of sessions whose data has ended, at most one of each.
RowsOfSessions ==
    /\ \A k \in DOMAIN savedBy : HasText(m_emailData[savedBy[k]], EndOfData)
    /\ \A k, l \in DOMAIN savedBy : savedBy[k] = savedBy[l] => k = l

SenderInv ==
    SenderTyped /\ Unused /\ OneTries /\ OneWhole /\ DataIsSent /\ RowsOfSessions

\* What all steps but Connect do to the connections.
ConnsClose ==
    /\ SmtpFrame
    /\ \A q \in Sessions :
          /\ smtpConn'[q] = "open" => smtpConn[q] = "open"
          /\ smtpConn[q] = "closed" => smtpConn'[q] = "closed"
          /\ smtpConn[q] = "none" => smtpConn'[q] = "none"

----------------------------------------------------------------------------
\* A read is data in the last step of the dialogue, and only there.
LEMMA ReadEffects ==
    ASSUME SmtpTyped, DOMAIN smtpStep = Sessions,
           NEW s \in Sessions, NEW chunk \in Seq(Words), Smtp!OnRecive(s, chunk)
    PROVE  /\ ConnsClose
           /\ smtpConn[s] = "open"
           /\ DOMAIN smtpStep' = Sessions
           /\ \A q \in Sessions : q # s => smtpStep'[q] = smtpStep[q]
           /\ \/ /\ smtpStep[s] = "SMTP_RECV_EMAIL_DATA"
                 /\ smtpStep' = smtpStep
                 /\ TakesData(s, chunk)
              \/ /\ smtpStep[s] # "SMTP_RECV_EMAIL_DATA"
                 /\ TakesNoData
<1>0. /\ smtpConn \in [Sessions -> {"none", "open", "closed"}]
      /\ smtpFinished \in [Sessions -> BOOLEAN]
      /\ m_emailData \in [Sessions -> Seq(Words)]
  BY DEF SmtpTyped
<1>1. CASE Smtp!OnData(s, chunk)
  <2>1. /\ smtpConn[s] = "open" /\ smtpStep[s] = "SMTP_RECV_EMAIL_DATA" /\ smtpStep' = smtpStep
        /\ smtpConn' = [smtpConn EXCEPT ![s] = "closed"] \/ smtpConn' = smtpConn
        /\ m_emailData' = [m_emailData EXCEPT ![s] = @ \o chunk]
    BY <1>1 DEF Smtp!OnData, Smtp!Reading, Smtp!CloseIfFinished
  <2>2. SmtpFrame /\ (TakesNoData \/ TakesData(s, chunk))
    BY SmtpReads
  <2>3. ConnsClose
    BY <1>0, <2>1, <2>2 DEF ConnsClose
  <2>4. TakesData(s, chunk)
    <3>1. CASE TakesNoData
      <4>1. m_emailData'[s] = m_emailData[s] \o chunk
        BY <1>0, <2>1
      <4>2. UNCHANGED << m_emailData, T_EMAIL_SEND, savedBy >>
        BY <3>1 DEF TakesNoData
      <4>3. CASE Smtp!EndsData(s, chunk)
        <5>1. smtpConn' = [smtpConn EXCEPT ![s] = "closed"]
          BY <1>0, <1>1, <4>3 DEF Smtp!OnData, Smtp!CloseIfFinished
        <5> QED
          BY <1>0, <2>1, <3>1, <4>2, <5>1 DEF TakesData, TakesNoData
      <4>4. CASE ~Smtp!EndsData(s, chunk)
        <5>1. ~HasText(m_emailData'[s], EndOfData)
          BY <4>1, <4>4, SameHelpers DEF Smtp!EndsData
        <5> QED
          BY <2>1, <3>1, <4>2, <5>1 DEF TakesData, TakesNoData
      <4> QED
        BY <4>3, <4>4
    <3> QED
      BY <2>2, <3>1
  <2> QED
    BY <2>1, <2>3, <2>4
<1>2. CASE Smtp!OnClientReqAtEnd(s)
  BY <1>0, <1>2 DEF Smtp!OnClientReqAtEnd, Smtp!Reading, Smtp!mail, ConnsClose, SmtpFrame,
                    TakesNoData
<1> DEFINE Asks ==
         /\ UNCHANGED << smtpConn, smtpFinished, m_emailData, T_EMAIL_SEND, savedBy >>
         /\ smtpConn[s] = "open" /\ smtpStep[s] # "SMTP_RECV_EMAIL_DATA"
         /\ \E step : smtpStep' = [smtpStep EXCEPT ![s] = step]
<1>3. Smtp!OnEhloReq(s, chunk) => Asks
  <2>1. Smtp!OnEhloReq(s, chunk) =>
          /\ Smtp!Reading(s, "SMTP_RECV_HELO_FIRST")
          /\ Smtp!Accepted(s, smtpStep[s])
          /\ UNCHANGED << smtpConn, Smtp!mail >>
    BY Zenon DEF Smtp!OnEhloReq
  <2> QED
    BY <2>1 DEF Smtp!Reading, Smtp!mail, Smtp!Accepted
<1>4. Smtp!OnAuthLoginReq(s, chunk) => Asks
  <2>1. Smtp!OnAuthLoginReq(s, chunk) =>
          /\ Smtp!Reading(s, "SMTP_RECV_AUTH_LOGIN_REQ")
          /\ \/ Smtp!Accepted(s, smtpStep[s])
             \/ \E rsp, step : Smtp!Refused(s, rsp, step)
          /\ UNCHANGED << smtpConn, Smtp!mail >>
    BY Zenon DEF Smtp!OnAuthLoginReq
  <2> QED
    BY <2>1 DEF Smtp!Reading, Smtp!mail, Smtp!Accepted, Smtp!Refused
<1>5. Smtp!OnPasswordReq(s, chunk) => Asks
  BY DEF Smtp!OnPasswordReq, Smtp!Reading, Smtp!mail, Smtp!Accepted
<1>6. Smtp!OnNamePassVerifyReq(s, chunk) => Asks
  BY DEF Smtp!OnNamePassVerifyReq, Smtp!Reading, Smtp!mail, Smtp!Accepted
<1>7. Smtp!OnMailFromReq(s, chunk) => Asks
  BY DEF Smtp!OnMailFromReq, Smtp!Reading, Smtp!mail, Smtp!Accepted
<1>8. Smtp!OnRcptToReq(s, chunk) => Asks
  BY DEF Smtp!OnRcptToReq, Smtp!Reading, Smtp!mail, Smtp!Accepted
<1>9. Smtp!OnDataReq(s, chunk) => Asks
  BY DEF Smtp!OnDataReq, Smtp!Reading, Smtp!mail, Smtp!Accepted
<1>10. CASE Asks
  BY <1>0, <1>10 DEF ConnsClose, SmtpFrame, TakesNoData
<1> HIDE DEF Asks
<1> QED
  BY <1>1, <1>2, <1>3, <1>4, <1>5, <1>6, <1>7, <1>8, <1>9, <1>10 DEF Smtp!OnRecive

\* The end of the data is the end of the script.
LEMMA EndIsWritten ==
    ASSUME NEW data \in Seq(Words), NEW rest \in Seq(Words), NEW n \in 0 .. Len(script),
           script \in Scripts, IsSent(data, rest, n), HasText(data, EndOfData)
    PROVE  n = Len(script)
<1>1. PICK front \in Seq(Words) : front \o (data \o rest) = Written(script, n)
  BY DEF IsSent
<1>2. Len(EndOfData) \in Nat
  BY DEF EndOfData
<1>3. HasText(Written(script, n), EndOfData)
  BY <1>1, <1>2, FoundInside
<1>4. ~(n \in 0 .. Len(script) - 1)
  BY <1>3, MailSenderAssumption
<1>5. Len(script) \in Nat
  BY MailSenderAssumption
<1> QED
  BY <1>4, <1>5

\* What is read from the wire was on it.
LEMMA WireIsCut ==
    ASSUME NEW w \in Seq(Words), NEW k \in 1 .. Len(w)
    PROVE  /\ SubSeq(w, 1, k) \in Seq(Words)
           /\ SubSeq(w, k + 1, Len(w)) \in Seq(Words)
           /\ SubSeq(w, 1, k) \o SubSeq(w, k + 1, Len(w)) = w
<1> DEFINE n == Len(w)
           a == SubSeq(w, 1, k)
           b == SubSeq(w, k + 1, n)
<1>1. /\ n \in Nat /\ k \in Nat /\ 1 <= k /\ k <= n
      /\ 1 \in Int /\ k \in Int /\ k + 1 \in Int /\ n \in Int
      /\ k - 1 + 1 = k /\ n - (k + 1) + 1 = n - k
  OBVIOUS
<1>2. \A i \in 1 .. n : w[i] \in Words
  OBVIOUS
<1>3. n = Len(w)
  OBVIOUS
<1> HIDE DEF n
<1>4. a \in Seq(Words) /\ Len(a) = k /\ \A i \in 1 .. k : a[i] = w[i]
  <2>1. \A i \in 1 .. k : w[i] \in Words
    BY <1>1, <1>2
  <2>2. /\ a \in Seq(Words) /\ Len(a) = (IF 1 <= k THEN k - 1 + 1 ELSE 0)
        /\ \A i \in 1 .. k - 1 + 1 : a[i] = w[1 + i - 1]
    BY <1>1, <2>1, SubSeqProperties
  <2> HIDE DEF a
  <2> QED
    BY <1>1, <2>2
<1>5. b \in Seq(Words) /\ Len(b) = n - k /\ \A i \in 1 .. n - k : b[i] = w[k + i]
  <2>1. \A i \in k + 1 .. n : w[i] \in Words
    BY <1>1, <1>2
  <2>2. /\ b \in Seq(Words) /\ Len(b) = (IF k + 1 <= n THEN n - (k + 1) + 1 ELSE 0)
        /\ \A i \in 1 .. n - (k + 1) + 1 : b[i] = w[k + 1 + i - 1]
    BY <1>1, <2>1, SubSeqProperties
  <2> HIDE DEF b
  <2> QED
    BY <1>1, <2>2
<1> HIDE DEF a, b
<1>6. /\ a \o b \in Seq(Words) /\ Len(a \o b) = n
      /\ \A i \in 1 .. n : (a \o b)[i] = IF i <= k THEN a[i] ELSE b[i - k]
  <2>1. k + (n - k) = n
    BY <1>1
  <2>2. a \o b \in Seq(Words)
    BY <1>4, <1>5, ConcatProperties
  <2>3. Len(a \o b) = Len(a) + Len(b)
    BY <1>4, <1>5, ConcatProperties
  <2>4. \A i \in 1 .. Len(a) + Len(b) : (a \o b)[i] = IF i <= Len(a) THEN a[i] ELSE b[i - Len(a)]
    BY <1>4, <1>5, ConcatProperties
  <2>5. Len(a) = k /\ Len(a) + Len(b) = n
    BY <1>4, <1>5, <2>1
  <2> QED
    BY <2>2, <2>3, <2>4, <2>5
<1>7. ASSUME NEW i \in 1 .. n PROVE (a \o b)[i] = w[i]
  <2>1. (a \o b)[i] = IF i <= k THEN a[i] ELSE b[i - k]
    BY <1>6
  <2>2. CASE i <= k
    BY <1>1, <1>4, <2>1, <2>2
  <2>3. CASE ~(i <= k)
    <3>1. i - k \in 1 .. n - k /\ k + (i - k) = i
      BY <1>1, <2>3
    <3> QED
      BY <1>5, <2>1, <2>3, <3>1
  <2> QED
    BY <2>2, <2>3
<1>8. a \o b = w
  BY <1>3, <1>6, <1>7, SeqEqual
<1> QED
  BY <1>3, <1>4, <1>5, <1>8 DEF a, b

----------------------------------------------------------------------------
\* A step in which no data is taken: the wire of a session whose data has not begun
\* may have been read.
LEMMA NoDataKeepsSender ==
    ASSUME SenderInv, TakesNoData, ConnsClose,
           UNCHANGED << script, client, wrote >>,
           DOMAIN smtpStep' = Sessions,
           \A q \in Sessions : m_emailData[q] # << >> => smtpStep'[q] = smtpStep[q],
           wire' \in [Sessions -> Seq(Words)],
           \A q \in Sessions :
              wire'[q] = wire[q] \/ (wire'[q] = << >> /\ m_emailData[q] = << >>)
    PROVE  SenderInv'
<1>1. SenderTyped'
  BY DEF SenderInv, SenderTyped, SmtpTyped, TakesNoData, ConnsClose, SmtpFrame
<1>2. Unused'
  BY DEF SenderInv, Unused, TakesNoData, ConnsClose
<1>3. OneTries' /\ OneWhole'
  BY DEF SenderInv, OneTries, OneWhole
<1>4. RowsOfSessions'
  BY DEF SenderInv, RowsOfSessions, TakesNoData
<1>5. ASSUME NEW q \in Sessions, smtpConn'[q] = "open"
      PROVE  IsSent(m_emailData[q], wire'[q], wrote[q])
  <2>1. IsSent(m_emailData[q], wire[q], wrote[q])
    BY <1>5 DEF ConnsClose, SenderInv, DataIsSent
  <2>2. CASE wire'[q] = wire[q]
    BY <2>1, <2>2
  <2>3. CASE wire'[q] = << >> /\ m_emailData[q] = << >>
    <3> DEFINE w == wire[q]
    <3>1. w \in Seq(Words)
      BY DEF SenderInv, SenderTyped
    <3>2. PICK front \in Seq(Words) :
             front \o (m_emailData[q] \o w) = Written(script, wrote[q])
      BY <2>1 DEF IsSent
    <3> HIDE DEF w
    <3>3. m_emailData[q] \o w = w
      BY <2>3, <3>1, ConcatEmptySeq
    <3>4. front \o w \in Seq(Words) /\ front \o w = Written(script, wrote[q])
      BY <3>1, <3>2, <3>3, ConcatProperties
    <3>5. (front \o w) \o (m_emailData[q] \o wire'[q]) = front \o w
      <4>1. << >> \in Seq(Words)
        OBVIOUS
      <4>2. << >> \o << >> = << >>
        BY <4>1, ConcatEmptySeq
      <4>3. (front \o w) \o << >> = front \o w
        BY <3>4, ConcatEmptySeq
      <4> QED
        BY <2>3, <4>2, <4>3
    <3> QED
      BY <3>4, <3>5 DEF IsSent
  <2> QED
    BY <2>2, <2>3
<1>6. DataIsSent'
  <2> SUFFICES ASSUME NEW q \in Sessions
               PROVE  /\ m_emailData'[q] # << >> => smtpStep'[q] = "SMTP_RECV_EMAIL_DATA"
                      /\ smtpConn'[q] = "open" => IsSent(m_emailData[q], wire'[q], wrote[q])
                      /\ HasText(m_emailData'[q], EndOfData)
                           => smtpConn'[q] = "closed" /\ wrote'[q] = Len(script)
    BY DEF DataIsSent, IsSent, TakesNoData
  <2> QED
    BY <1>5 DEF SenderInv, DataIsSent, TakesNoData, ConnsClose
<1> QED
  BY <1>1, <1>2, <1>3, <1>4, <1>6 DEF SenderInv

\* A step in which data is taken that was on the wire, where it is no more, unless the
\* connection is closed.
LEMMA DataKeepsSender ==
    ASSUME SenderInv, ConnsClose, NEW s \in Sessions,
           NEW chunk \in Seq(Words), NEW rest \in Seq(Words), wire[s] = chunk \o rest,
           smtpStep[s] = "SMTP_RECV_EMAIL_DATA", smtpStep' = smtpStep,
           TakesData(s, chunk),
           UNCHANGED << script, client, wrote >>,
           wire' \in [Sessions -> Seq(Words)],
           \A q \in Sessions : q # s => wire'[q] = wire[q],
           wire'[s] = rest \/ smtpConn'[s] # "open"
    PROVE  SenderInv'
<1> DEFINE data == m_emailData[s]
           more == data \o chunk
<1>1. /\ m_emailData \in [Sessions -> Seq(Words)] /\ data \in Seq(Words)
      /\ m_emailData' = [m_emailData EXCEPT ![s] = data \o chunk]
      /\ smtpConn \in [Sessions -> {"none", "open", "closed"}] /\ smtpConn[s] = "open"
  BY DEF SenderInv, SenderTyped, SmtpTyped, TakesData
<1> HIDE DEF data
<1>2. /\ m_emailData' \in [Sessions -> Seq(Words)] /\ more \in Seq(Words)
      /\ m_emailData'[s] = more
      /\ \A q \in Sessions : q # s => m_emailData'[q] = m_emailData[q]
  BY <1>1
<1>3. IsSent(more, rest, wrote[s])
  <2>1. PICK front \in Seq(Words) : front \o (data \o wire[s]) = Written(script, wrote[s])
    BY <1>1 DEF SenderInv, DataIsSent, IsSent, data
  <2>2. data \in Seq(Words)
    BY <1>1
  <2>3. more \o rest = data \o (chunk \o rest)
    BY <2>2, ConcatTexts
  <2> HIDE DEF more
  <2>4. front \o (more \o rest) = Written(script, wrote[s])
    BY <2>1, <2>3
  <2> QED
    BY <2>4 DEF IsSent
<1> HIDE DEF more
<1>4. HasText(more, EndOfData) => wrote[s] = Len(script)
  <2>1. wrote[s] \in 0 .. Len(script) /\ script \in Scripts
    BY DEF SenderInv, SenderTyped
  <2> QED
    BY <1>2, <1>3, <2>1, EndIsWritten
<1>5. ~HasText(m_emailData[s], EndOfData)
  BY <1>1 DEF SenderInv, DataIsSent
<1>6. Unused'
  <2>1. client[s] # "unused"
    BY <1>1 DEF SenderInv, Unused
  <2> QED
    BY <1>2, <2>1 DEF SenderInv, Unused, ConnsClose
<1>7. OneTries' /\ OneWhole'
  BY DEF SenderInv, OneTries, OneWhole
<1>8. DataIsSent'
  <2> SUFFICES ASSUME NEW q \in Sessions
               PROVE  /\ m_emailData'[q] # << >> => smtpStep'[q] = "SMTP_RECV_EMAIL_DATA"
                      /\ smtpConn'[q] = "open" => IsSent(m_emailData'[q], wire'[q], wrote[q])
                      /\ HasText(m_emailData'[q], EndOfData)
                           => smtpConn'[q] = "closed" /\ wrote'[q] = Len(script)
    BY DEF DataIsSent, IsSent
  <2>1. CASE q = s
    BY <1>2, <1>3, <1>4, <2>1 DEF TakesData
  <2>2. CASE q # s
    <3>1. m_emailData'[q] = m_emailData[q] /\ wire'[q] = wire[q]
      BY <1>2, <2>2
    <3> QED
      BY <3>1 DEF SenderInv, DataIsSent, ConnsClose
  <2> QED
    BY <2>1, <2>2
<1>9. /\ savedBy \in Seq(Sessions) /\ T_EMAIL_SEND \in Seq(Row)
      /\ Len(savedBy) = Len(T_EMAIL_SEND)
  BY DEF SenderInv, SenderTyped
<1>10. \A k \in DOMAIN savedBy :
          /\ savedBy[k] \in Sessions /\ savedBy[k] # s
          /\ HasText(m_emailData'[savedBy[k]], EndOfData)
  <2> SUFFICES ASSUME NEW k \in DOMAIN savedBy
               PROVE  /\ savedBy[k] \in Sessions /\ savedBy[k] # s
                      /\ HasText(m_emailData'[savedBy[k]], EndOfData)
    OBVIOUS
  <2>1. savedBy[k] \in Sessions
    BY <1>9
  <2>2. HasText(m_emailData[savedBy[k]], EndOfData)
    BY DEF SenderInv, RowsOfSessions
  <2>3. savedBy[k] # s
    BY <1>5, <2>2
  <2> QED
    BY <1>2, <2>1, <2>2, <2>3
<1>11. ParseEmailForSmtp(more) \in Row
  BY <1>2, ParseEmailType DEF Row
<1>12. /\ savedBy' \in Seq(Sessions) /\ T_EMAIL_SEND' \in Seq(Row)
       /\ Len(savedBy') = Len(T_EMAIL_SEND')
       /\ RowsOfSessions'
  <2>1. CASE UNCHANGED << T_EMAIL_SEND, savedBy >>
    BY <1>9, <1>10, <2>1 DEF SenderInv, RowsOfSessions
  <2>2. CASE /\ HasText(m_emailData'[s], EndOfData)
             /\ T_EMAIL_SEND' = Append(T_EMAIL_SEND, ParseEmailForSmtp(m_emailData'[s]))
             /\ savedBy' = Append(savedBy, s)
    <3> DEFINE row == ParseEmailForSmtp(more)
               n == Len(savedBy) + 1
    <3>1. T_EMAIL_SEND' = Append(T_EMAIL_SEND, row) /\ row \in Row
      BY <1>2, <1>11, <2>2
    <3> HIDE DEF row
    <3>2. T_EMAIL_SEND' \in Seq(Row) /\ Len(T_EMAIL_SEND') = Len(T_EMAIL_SEND) + 1
      BY <1>9, <3>1
    <3>3. /\ savedBy' \in Seq(Sessions) /\ Len(savedBy') = n
          /\ DOMAIN savedBy = 1 .. Len(savedBy) /\ DOMAIN savedBy' = 1 .. n
          /\ Len(savedBy) \in Nat
      BY <1>9, <2>2
    <3>4. savedBy'[n] = s /\ \A k \in DOMAIN savedBy : savedBy'[k] = savedBy[k]
      <4>1. Append(savedBy, s)[Len(savedBy) + 1] = s
        BY <1>9, AppendProperties
      <4>2. \A k \in 1 .. Len(savedBy) : Append(savedBy, s)[k] = savedBy[k]
        BY <1>9, AppendProperties
      <4> QED
        BY <2>2, <3>3, <4>1, <4>2
    <3>5. \A k \in DOMAIN savedBy' : k \in DOMAIN savedBy \/ k = n
      BY <3>3
    <3>6. HasText(m_emailData'[s], EndOfData)
      BY <2>2
    <3> HIDE DEF n
    <3>7. \A k \in DOMAIN savedBy' : HasText(m_emailData'[savedBy'[k]], EndOfData)
      BY <1>10, <3>4, <3>5, <3>6
    <3>8. \A k, l \in DOMAIN savedBy' : savedBy'[k] = savedBy'[l] => k = l
      <4> SUFFICES ASSUME NEW k \in DOMAIN savedBy', NEW l \in DOMAIN savedBy',
                          savedBy'[k] = savedBy'[l]
                   PROVE  k = l
        OBVIOUS
      <4>1. CASE k \in DOMAIN savedBy /\ l \in DOMAIN savedBy
        <5>1. savedBy[k] = savedBy[l]
          BY <3>4, <4>1
        <5> QED
          BY <4>1, <5>1 DEF SenderInv, RowsOfSessions
      <4>2. CASE k \in DOMAIN savedBy /\ l = n
        BY <1>10, <3>4, <4>2
      <4>3. CASE k = n /\ l \in DOMAIN savedBy
        BY <1>10, <3>4, <4>3
      <4> QED
        BY <3>5, <4>1, <4>2, <4>3
    <3> QED
      BY <1>9, <3>2, <3>3, <3>7, <3>8 DEF RowsOfSessions, n
  <2> QED
    BY <2>1, <2>2 DEF TakesData
<1>13. SenderTyped'
  BY <1>2, <1>12 DEF SenderInv, SenderTyped, SmtpTyped, ConnsClose, SmtpFrame
<1> QED
  BY <1>6, <1>7, <1>8, <1>12, <1>13 DEF SenderInv

\* A client before its first try has it.
LEMMA SenderInvStarts == SenderInit => SenderInv
<1> SUFFICES ASSUME SenderInit PROVE SenderInv
  OBVIOUS
<1>1. /\ savedBy = << >> /\ T_EMAIL_SEND = << >>
      /\ m_emailData = [s \in Sessions |-> << >>]
      /\ smtpConn = [s \in Sessions |-> "none"]
      /\ smtpFinished = [s \in Sessions |-> FALSE]
      /\ DOMAIN smtpStep = Sessions
  BY DEF SenderInit, Init, Smtp!Init
<1>2. /\ script \in Scripts /\ Len(script) \in Nat /\ Len(script) > 2
      /\ client = [s \in Sessions |-> "unused"]
      /\ wrote = [s \in Sessions |-> 0]
      /\ wire = [s \in Sessions |-> << >>]
  BY MailSenderAssumption DEF SenderInit
<1>3. SenderTyped
  BY <1>1, <1>2 DEF SenderTyped, SmtpTyped
<1>4. Unused /\ OneTries /\ OneWhole
  BY <1>1, <1>2 DEF Unused, OneTries, OneWhole
<1>5. DataIsSent
  BY <1>1, NothingHasNoEnd DEF DataIsSent
<1>6. RowsOfSessions
  BY <1>1 DEF RowsOfSessions
<1> QED
  BY <1>3, <1>4, <1>5, <1>6 DEF SenderInv

\* A new connection carries nothing yet, and is opened only when no other session is
\* open or was written the whole mail.
LEMMA ConnectKeepsSender ==
    ASSUME SenderInv, NEW s \in Sessions, Connect(s)
    PROVE  SenderInv'
<1>1. /\ smtpConn' = [smtpConn EXCEPT ![s] = "open"]
      /\ \E step : smtpStep' = [smtpStep EXCEPT ![s] = step]
      /\ UNCHANGED << m_emailData, smtpFinished, T_EMAIL_SEND, savedBy, script, wrote, wire >>
      /\ client' = [client EXCEPT ![s] = "open"]
      /\ client[s] = "unused" /\ MayTry(s)
  BY DEF Connect, Smtp!Accept, Smtp!mail
<1>2. /\ m_emailData[s] = << >> /\ wire[s] = << >> /\ wrote[s] = 0
  BY <1>1 DEF SenderInv, Unused
<1>3. SenderTyped'
  BY <1>1 DEF SenderInv, SenderTyped, SmtpTyped
<1>4. Unused' /\ OneWhole'
  BY <1>1 DEF SenderInv, SenderTyped, SmtpTyped, Unused, OneWhole
<1>5. OneTries'
  BY <1>1 DEF SenderInv, SenderTyped, OneTries, MayTry
<1>6. DataIsSent'
  <2> SUFFICES ASSUME NEW q \in Sessions
               PROVE  /\ m_emailData[q] # << >> => smtpStep'[q] = "SMTP_RECV_EMAIL_DATA"
                      /\ smtpConn'[q] = "open" => IsSent(m_emailData[q], wire[q], wrote[q])
                      /\ HasText(m_emailData[q], EndOfData)
                           => smtpConn'[q] = "closed" /\ wrote[q] = Len(script)
    BY <1>1 DEF DataIsSent, IsSent
  <2>1. CASE q = s
    <3>1. << >> \in Seq(Words) /\ script \in Seq(Seq(Words))
      BY MailSenderAssumption DEF SenderInv, SenderTyped
    <3>2. << >> \o << >> = << >>
      BY <3>1, ConcatEmptySeq
    <3>3. << >> \o (m_emailData[q] \o wire[q]) = Written(script, wrote[q])
      BY <1>2, <2>1, <3>1, <3>2, WrittenNothing
    <3>4. IsSent(m_emailData[q], wire[q], wrote[q])
      BY <3>1, <3>3 DEF IsSent
    <3> QED
      BY <1>2, <2>1, <3>4, NothingHasNoEnd
  <2>2. CASE q # s
    BY <1>1, <2>2 DEF SenderInv, SenderTyped, SmtpTyped, DataIsSent
  <2> QED
    BY <2>1, <2>2
<1>7. RowsOfSessions'
  BY <1>1 DEF SenderInv, RowsOfSessions
<1> QED
  BY <1>3, <1>4, <1>5, <1>6, <1>7 DEF SenderInv

\* The next part goes to the end of the wire.
LEMMA WriteKeepsSender ==
    ASSUME SenderInv, NEW s \in Sessions, Write(s)
    PROVE  SenderInv'
<1> DEFINE n == wrote[s]
           part == script[n + 1]
<1>1. /\ client[s] = "open" /\ n < Len(script)
      /\ wrote' = [wrote EXCEPT ![s] = n + 1]
      /\ wire' = [wire EXCEPT ![s] = wire[s] \o part]
      /\ UNCHANGED << script, client, smtpConn, smtpStep, m_emailData, smtpFinished,
                      T_EMAIL_SEND, savedBy >>
  BY DEF Write, UnchangedServer, smtpSession
<1>2. /\ script \in Scripts /\ script \in Seq(Seq(Words)) /\ Len(script) \in Nat
      /\ n \in Nat /\ n \in 0 .. Len(script) - 1 /\ n + 1 \in 0 .. Len(script)
      /\ \A q \in Sessions : wrote[q] \in 0 .. Len(script)
  <2>1. script \in Scripts /\ \A q \in Sessions : wrote[q] \in 0 .. Len(script)
    BY DEF SenderInv, SenderTyped
  <2>2. script \in Seq(Seq(Words))
    BY <2>1, MailSenderAssumption
  <2> QED
    BY <1>1, <2>1, <2>2
<1>3. /\ part \in Seq(Words) /\ Written(script, n) \in Seq(Words)
      /\ Written(script, n + 1) = Written(script, n) \o part
  BY <1>2, WrittenGrows
<1>4. wire[s] \in Seq(Words) /\ wire \in [Sessions -> Seq(Words)]
  BY DEF SenderInv, SenderTyped
<1> HIDE DEF part
<1>5. /\ wire' \in [Sessions -> Seq(Words)] /\ wire'[s] = wire[s] \o part
      /\ \A q \in Sessions : q # s => wire'[q] = wire[q]
  <2>1. wire[s] \o part \in Seq(Words)
    BY <1>3, <1>4, ConcatProperties
  <2> QED
    BY <1>1, <1>4, <2>1
<1>6. /\ wrote' \in [Sessions -> 0 .. Len(script)] /\ wrote'[s] = n + 1
      /\ \A q \in Sessions : q # s => wrote'[q] = wrote[q]
  BY <1>1, <1>2 DEF SenderInv, SenderTyped
<1>7. SenderTyped'
  BY <1>1, <1>5, <1>6 DEF SenderInv, SenderTyped, SmtpTyped
<1>8. Unused'
  <2> SUFFICES ASSUME NEW q \in Sessions, client[q] = "unused"
               PROVE  /\ smtpConn[q] = "none" /\ m_emailData[q] = << >>
                      /\ wire'[q] = << >> /\ wrote'[q] = 0
    BY <1>1 DEF Unused
  <2>1. q # s
    BY <1>1
  <2> QED
    BY <1>5, <1>6, <2>1 DEF SenderInv, Unused
<1>9. \A t \in Sessions : t # s => wrote[t] # Len(script)
  <2> SUFFICES ASSUME NEW t \in Sessions, t # s PROVE wrote[t] # Len(script)
    OBVIOUS
  <2>1. client[t] = "unused" \/ (client[t] = "over" /\ wrote[t] < Len(script))
    BY <1>1 DEF SenderInv, OneTries
  <2>2. CASE client[t] = "unused"
    <3>1. wrote[t] = 0 /\ Len(script) > 2
      BY <1>2, <2>2, MailSenderAssumption DEF SenderInv, Unused
    <3> QED
      BY <3>1
  <2>3. CASE wrote[t] < Len(script)
    BY <1>2, <2>3
  <2> QED
    BY <2>1, <2>2, <2>3
<1>10. OneWhole'
  BY <1>1, <1>6, <1>9 DEF OneWhole
<1>11. OneTries'
  <2> SUFFICES ASSUME NEW u \in Sessions, NEW t \in Sessions, u # t, client[u] = "open"
               PROVE  client[t] = "unused" \/ (client[t] = "over" /\ wrote'[t] < Len(script))
    BY <1>1 DEF OneTries
  <2>1. client[t] = "unused" \/ (client[t] = "over" /\ wrote[t] < Len(script))
    BY DEF SenderInv, OneTries
  <2>2. t # s
    BY <1>1, <2>1
  <2> QED
    BY <1>6, <2>1, <2>2
<1>12. ASSUME smtpConn[s] = "open"
       PROVE  IsSent(m_emailData[s], wire'[s], n + 1)
  <2>1. PICK front \in Seq(Words) : front \o (m_emailData[s] \o wire[s]) = Written(script, n)
    BY <1>12 DEF SenderInv, DataIsSent, IsSent
  <2> DEFINE data == m_emailData[s]
             w == wire[s]
  <2>2. data \in Seq(Words) /\ w \in Seq(Words)
    BY DEF SenderInv, SenderTyped, SmtpTyped
  <2>3. front \o (data \o w) = Written(script, n)
    BY <2>1
  <2> HIDE DEF data, w
  <2>4. part \in Seq(Words)
    BY <1>3
  <2>5. data \o (w \o part) = (data \o w) \o part
    BY <2>2, <2>4, ConcatTexts
  <2> DEFINE both == data \o w
  <2>6. both \in Seq(Words)
    BY <2>2, ConcatProperties
  <2> HIDE DEF both
  <2>7. front \o (both \o part) = (front \o both) \o part
    BY <2>4, <2>6, ConcatTexts
  <2>8. front \o (data \o (w \o part)) = Written(script, n + 1)
    BY <1>3, <2>3, <2>5, <2>7 DEF both
  <2> QED
    BY <1>5, <2>8 DEF IsSent, data, w
<1>13. DataIsSent'
  <2> SUFFICES ASSUME NEW q \in Sessions
               PROVE  /\ m_emailData[q] # << >> => smtpStep[q] = "SMTP_RECV_EMAIL_DATA"
                      /\ smtpConn[q] = "open" => IsSent(m_emailData[q], wire'[q], wrote'[q])
                      /\ HasText(m_emailData[q], EndOfData)
                           => smtpConn[q] = "closed" /\ wrote'[q] = Len(script)
    BY <1>1 DEF DataIsSent, IsSent
  <2>1. CASE q = s
    <3>1. ~HasText(m_emailData[s], EndOfData)
      <4>1. n # Len(script)
        BY <1>2
      <4> QED
        BY <4>1 DEF SenderInv, DataIsSent
    <3>2. m_emailData[s] # << >> => smtpStep[s] = "SMTP_RECV_EMAIL_DATA"
      BY DEF SenderInv, DataIsSent
    <3> QED
      BY <1>6, <1>12, <2>1, <3>1, <3>2
  <2>2. CASE q # s
    <3>1. wire'[q] = wire[q] /\ wrote'[q] = wrote[q]
      BY <1>5, <1>6, <2>2
    <3> QED
      BY <3>1 DEF SenderInv, DataIsSent
  <2> QED
    BY <2>1, <2>2
<1>14. RowsOfSessions'
  BY <1>1 DEF SenderInv, RowsOfSessions
<1> QED
  BY <1>7, <1>8, <1>10, <1>11, <1>13, <1>14 DEF SenderInv

\* The client sees that its connection is closed.
LEMMA NoticeKeepsSender ==
    ASSUME SenderInv, NEW s \in Sessions, Notice(s)
    PROVE  SenderInv'
<1>1. /\ client[s] = "open" /\ client' = [client EXCEPT ![s] = "over"]
      /\ client \in [Sessions -> {"unused", "open", "over"}]
      /\ UNCHANGED << script, wrote, wire, smtpConn, smtpStep, m_emailData, smtpFinished,
                      T_EMAIL_SEND, savedBy >>
  BY DEF Notice, UnchangedServer, smtpSession, SenderInv, SenderTyped
<1>2. SenderTyped'
  BY <1>1 DEF SenderInv, SenderTyped, SmtpTyped
<1>3. Unused' /\ OneWhole' /\ RowsOfSessions'
  BY <1>1 DEF SenderInv, Unused, OneWhole, RowsOfSessions
<1>4. OneTries'
  BY <1>1 DEF SenderInv, OneTries
<1>5. DataIsSent'
  BY <1>1 DEF SenderInv, DataIsSent, IsSent
<1> QED
  BY <1>2, <1>3, <1>4, <1>5 DEF SenderInv

\* A read takes from the wire what it hands to the session.
LEMMA ReadKeepsSender ==
    ASSUME SenderInv, NEW s \in Sessions, Read(s)
    PROVE  SenderInv'
<1>0. /\ SmtpTyped /\ DOMAIN smtpStep = Sessions /\ wire \in [Sessions -> Seq(Words)]
      /\ wire[s] \in Seq(Words)
  BY DEF SenderInv, SenderTyped
<1> DEFINE w == wire[s]
<1>1. PICK k \in 1 .. Len(w) :
         /\ k < Len(w) => smtpStep[s] = "SMTP_RECV_EMAIL_DATA"
         /\ Smtp!OnRecive(s, SubSeq(w, 1, k))
         /\ wire' = [wire EXCEPT ![s] = SubSeq(w, k + 1, Len(w))]
         /\ UNCHANGED << script, client, wrote >>
  BY DEF Read
<1> DEFINE chunk == SubSeq(w, 1, k)
           rest == SubSeq(w, k + 1, Len(w))
<1>2. chunk \in Seq(Words) /\ rest \in Seq(Words) /\ chunk \o rest = w
  BY <1>0, WireIsCut
<1>3. Smtp!OnRecive(s, chunk) /\ wire' = [wire EXCEPT ![s] = rest]
  BY <1>1
<1>4. k # Len(w) => smtpStep[s] = "SMTP_RECV_EMAIL_DATA"
  BY <1>0, <1>1
<1>5. k = Len(w) => rest = << >>
  <2>1. Len(w) \in Int /\ Len(w) + 1 \in Int /\ Len(w) < Len(w) + 1
    BY <1>0
  <2> QED
    BY <2>1, SubSeqEmpty
<1> HIDE DEF chunk, rest
<1>6. /\ wire' \in [Sessions -> Seq(Words)] /\ wire'[s] = rest
      /\ \A q \in Sessions : q # s => wire'[q] = wire[q]
  BY <1>0, <1>2, <1>3
<1>7. /\ ConnsClose /\ DOMAIN smtpStep' = Sessions
      /\ \A q \in Sessions : q # s => smtpStep'[q] = smtpStep[q]
      /\ \/ /\ smtpStep[s] = "SMTP_RECV_EMAIL_DATA"
            /\ smtpStep' = smtpStep
            /\ TakesData(s, chunk)
         \/ /\ smtpStep[s] # "SMTP_RECV_EMAIL_DATA"
            /\ TakesNoData
  BY <1>0, <1>2, <1>3, ReadEffects
<1>8. CASE smtpStep[s] = "SMTP_RECV_EMAIL_DATA"
  <2>1. smtpStep' = smtpStep /\ TakesData(s, chunk)
    BY <1>7, <1>8
  <2> QED
    BY <1>1, <1>2, <1>6, <1>7, <1>8, <2>1, DataKeepsSender
<1>9. CASE smtpStep[s] # "SMTP_RECV_EMAIL_DATA"
  <2>1. TakesNoData
    BY <1>7, <1>9
  <2>2. m_emailData[s] = << >>
    BY <1>9 DEF SenderInv, DataIsSent
  <2>3. rest = << >>
    BY <1>4, <1>5, <1>9
  <2>4. \A q \in Sessions : m_emailData[q] # << >> => smtpStep'[q] = smtpStep[q]
    BY <1>7, <2>2
  <2>5. \A q \in Sessions :
           wire'[q] = wire[q] \/ (wire'[q] = << >> /\ m_emailData[q] = << >>)
    BY <1>6, <2>2, <2>3
  <2> QED
    BY <1>1, <1>6, <1>7, <2>1, <2>4, <2>5, NoDataKeepsSender
<1> QED
  BY <1>8, <1>9

\* A failure leaves the wires, and closes connections: all of them when the process
\* ends, which it may do after it has saved a mail.
LEMMA FailKeepsSender ==
    ASSUME SenderInv, Fail
    PROVE  SenderInv'
<1>0. /\ smtpConn \in [Sessions -> {"none", "open", "closed"}]
      /\ smtpFinished \in [Sessions -> BOOLEAN]
      /\ m_emailData \in [Sessions -> Seq(Words)]
      /\ DOMAIN smtpStep = Sessions /\ wire \in [Sessions -> Seq(Words)]
      /\ UNCHANGED << script, client, wrote, wire >>
  BY DEF Fail, senderVars, SenderInv, SenderTyped, SmtpTyped
<1>1. DropSmtp =>
         /\ smtpConn' \in [Sessions -> {"none", "open", "closed"}]
         /\ \A q \in Sessions :
               /\ smtpConn'[q] # "open"
               /\ smtpConn[q] = "closed" => smtpConn'[q] = "closed"
               /\ smtpConn[q] = "none" => smtpConn'[q] = "none"
               /\ smtpConn[q] = "open" => smtpConn'[q] = "closed"
  BY <1>0 DEF DropSmtp
<1>2. ASSUME NEW s \in Sessions, Smtp!Disconnect(s) PROVE SenderInv'
  <2>1. /\ smtpConn' = [smtpConn EXCEPT ![s] = "closed"] /\ smtpConn[s] = "open"
        /\ UNCHANGED << smtpStep, m_emailData, smtpFinished, T_EMAIL_SEND, savedBy >>
    BY <1>2 DEF Smtp!Disconnect, Smtp!mail
  <2>2. TakesNoData /\ ConnsClose
    BY <1>0, <2>1 DEF TakesNoData, ConnsClose, SmtpFrame
  <2> QED
    BY <1>0, <2>1, <2>2, NoDataKeepsSender
<1>3. CASE Kill
  <2>1. DropSmtp /\ UNCHANGED << smtpStep, m_emailData, smtpFinished, T_EMAIL_SEND, savedBy >>
    BY <1>3 DEF Kill
  <2>2. TakesNoData /\ ConnsClose
    BY <1>0, <1>1, <2>1 DEF TakesNoData, ConnsClose, SmtpFrame
  <2> QED
    BY <1>0, <2>1, <2>2, NoDataKeepsSender
<1>4. ASSUME NEW s \in Sessions, NEW k \in 1 .. Len(wire[s]),
             KillAfterSave(s, SubSeq(wire[s], 1, k))
      PROVE  SenderInv'
  <2> DEFINE w == wire[s]
             chunk == SubSeq(w, 1, k)
             rest == SubSeq(w, k + 1, Len(w))
  <2>1. chunk \in Seq(Words) /\ rest \in Seq(Words) /\ w = chunk \o rest
    BY <1>0, WireIsCut
  <2>2. KillAfterSave(s, chunk)
    BY <1>4
  <2> HIDE DEF w, chunk, rest
  <2>3. /\ smtpConn[s] = "open" /\ smtpStep[s] = "SMTP_RECV_EMAIL_DATA"
        /\ m_emailData' = [m_emailData EXCEPT ![s] = @ \o chunk]
        /\ T_EMAIL_SEND' = Append(T_EMAIL_SEND, ParseEmailForSmtp(m_emailData'[s]))
        /\ savedBy' = Append(savedBy, s)
        /\ DropSmtp
        /\ UNCHANGED << smtpStep, smtpFinished >>
    BY <2>2 DEF KillAfterSave, Smtp!Reading
  <2>4. ConnsClose
    BY <1>0, <1>1, <2>3 DEF ConnsClose, SmtpFrame
  <2>5. HasText(m_emailData'[s], EndOfData)
    BY <1>0, <2>2, <2>3, SameHelpers DEF KillAfterSave, Smtp!EndsData
  <2>6. TakesData(s, chunk)
    BY <1>1, <2>1, <2>3, <2>5 DEF TakesData
  <2>7. smtpConn'[s] # "open"
    BY <1>1, <2>3
  <2> QED
    BY <1>0, <2>1, <2>3, <2>4, <2>6, <2>7, DataKeepsSender DEF w
<1> QED
  BY <1>2, <1>3, <1>4 DEF Fail

\* Neither a start nor a step of nobody changes what it says.
LEMMA RestKeepsSender ==
    ASSUME SenderInv, Restart \/ UNCHANGED << vars, senderVars >>
    PROVE  SenderInv'
<1>1. /\ UNCHANGED << smtpConn, smtpStep, m_emailData, smtpFinished, T_EMAIL_SEND, savedBy >>
      /\ UNCHANGED << script, client, wrote, wire >>
  BY DEF Restart, Start, vars, smtpSession, senderVars
<1>2. /\ smtpConn \in [Sessions -> {"none", "open", "closed"}]
      /\ smtpFinished \in [Sessions -> BOOLEAN]
      /\ DOMAIN smtpStep = Sessions /\ wire \in [Sessions -> Seq(Words)]
  BY DEF SenderInv, SenderTyped, SmtpTyped
<1>3. TakesNoData /\ ConnsClose
  BY <1>1, <1>2 DEF TakesNoData, ConnsClose, SmtpFrame
<1> QED
  BY <1>1, <1>2, <1>3, NoDataKeepsSender

\* Every step of the client, the network and the server keeps it.
LEMMA SenderInvKept ==
    ASSUME SenderInv, [SenderNext]_<< vars, senderVars >>
    PROVE  SenderInv'
<1>1. ASSUME NEW s \in Sessions, Connect(s) \/ Write(s) \/ Notice(s) \/ Read(s)
      PROVE  SenderInv'
  BY <1>1, ConnectKeepsSender, WriteKeepsSender, NoticeKeepsSender, ReadKeepsSender
<1> QED
  BY <1>1, FailKeepsSender, RestKeepsSender DEF SenderNext

\* However the mail is cut into reads, whenever the network fails or the process ends,
\* a client that stops trying once it has written the end of its mail never has the
\* mail stored twice: a second row would be of a second session, and both would have
\* been written the whole mail.
THEOREM StoredOnce == SenderSpec => []StoredAtMostOnce
<1>1. SenderInv /\ [SenderNext]_<< vars, senderVars >> => SenderInv'
  BY SenderInvKept
<1>2. SenderInv => StoredAtMostOnce
  <2> SUFFICES ASSUME SenderInv PROVE Len(T_EMAIL_SEND) <= 1
    BY DEF StoredAtMostOnce
  <2>1. /\ savedBy \in Seq(Sessions) /\ Len(savedBy) = Len(T_EMAIL_SEND)
        /\ Len(savedBy) \in Nat /\ DOMAIN savedBy = 1 .. Len(savedBy)
    BY DEF SenderInv, SenderTyped
  <2>2. ASSUME ~(Len(savedBy) <= 1) PROVE FALSE
    <3>1. 1 \in DOMAIN savedBy /\ 2 \in DOMAIN savedBy
      BY <2>1, <2>2
    <3>2. savedBy[1] \in Sessions /\ savedBy[2] \in Sessions
      BY <2>1, <3>1
    <3>3. wrote[savedBy[1]] = Len(script) /\ wrote[savedBy[2]] = Len(script)
      BY <3>1, <3>2 DEF SenderInv, DataIsSent, RowsOfSessions
    <3>4. savedBy[1] = savedBy[2]
      BY <3>2, <3>3 DEF SenderInv, OneWhole
    <3>5. \A k, l \in DOMAIN savedBy : savedBy[k] = savedBy[l] => k = l
      BY DEF SenderInv, RowsOfSessions
    <3>6. 1 = 2
      BY <3>1, <3>4, <3>5
    <3> QED
      BY <3>6
  <2> QED
    BY <2>1, <2>2
<1> QED
  BY <1>1, <1>2, SenderInvStarts, PTL DEF SenderSpec

=============================================================================
