---------------------- MODULE SmtpServerHandler_proofs ----------------------
(* Proofs about the SMTP sessions.                                         *)
EXTENDS SmtpServerHandler, SequenceTheorems, WellFoundedInduction, TLAPS

----------------------------------------------------------------------------
\* Every nonempty set of naturals has the minimum that Min chooses.
LEMMA MinIsSmallest ==
    ASSUME NEW S \in SUBSET Nat, S # {}
    PROVE  Min(S) \in S /\ \A y \in S : Min(S) <= y
<1> DEFINE R == {p \in Nat \X Nat : p[1] < p[2]}
<1>0. IsWellFoundedOn(R, Nat)
  BY NatLessThanWellFounded DEF OpToRel
<1>1. \E x \in S : \A y \in S : ~(<< y, x >> \in R)
  <2> HIDE DEF R
  <2> QED
    BY <1>0, WFMin
<1>2. \A x, y \in Nat : << y, x >> \in R <=> y < x
  OBVIOUS
<1>3. \E x \in S : \A y \in S : x <= y
  <2> HIDE DEF R
  <2>1. PICK x \in S : \A y \in S : ~(<< y, x >> \in R)
    BY <1>1
  <2>2. \A y \in S : ~(y < x)
    BY <1>2, <2>1
  <2>3. \A y \in S : x <= y
    BY <2>2
  <2> QED
    BY <2>3
<1> QED
  BY <1>3 DEF Min

\* Every nonempty set of naturals with a bound has the maximum that Max chooses.
LEMMA MaxIsGreatest ==
    ASSUME NEW n \in Nat, NEW S \in SUBSET (0 .. n), S # {}
    PROVE  Max(S) \in S /\ \A y \in S : y <= Max(S)
<1> DEFINE D == {n - x : x \in S}
<1>1. D \in SUBSET Nat /\ D # {}
  <2>1. D \in SUBSET Nat
    OBVIOUS
  <2>2. D # {}
    OBVIOUS
  <2> QED
    BY <2>1, <2>2
<1>2. Min(D) \in D /\ \A d \in D : Min(D) <= d
  BY <1>1, MinIsSmallest
<1>3. PICK x \in S : Min(D) = n - x
  BY <1>2
<1>4. \A y \in S : y <= x
  <2> TAKE y \in S
  <2>1. n - y \in D
    OBVIOUS
  <2>2. n - x <= n - y
    BY <1>2, <1>3, <2>1
  <2> QED
    BY <2>2
<1> QED
  BY <1>4 DEF Max

\* A line break ends before the text does, and so does a blank line.
LEMMA LineBounds ==
    ASSUME NEW text \in Seq(Words)
    PROVE  /\ LineEnds(text) \subseteq 1 .. (Len(text) - 1)
           /\ BlankLines(text) \subseteq LineEnds(text)
<1>1. Len(CRLF) = 2
  BY DEF CRLF
<1>2. \A i \in LineEnds(text) : i \in Nat /\ 1 <= i /\ i + 1 <= Len(text)
  <2> SUFFICES ASSUME NEW i \in Find(text, CRLF)
               PROVE  i \in Nat /\ 1 <= i /\ i + 1 <= Len(text)
    BY DEF LineEnds
  <2> QED
    BY <1>1 DEF Find
<1> QED
  BY <1>2 DEF BlankLines

\* Appending to the empty tuple gives a tuple of one element.
LEMMA AppendToEmpty ==
    ASSUME NEW S, NEW a \in S
    PROVE  Append(<< >>, a) = << a >>
<1> DEFINE l == Append(<< >>, a)
           r == << a >>
<1>1. l \in Seq(S) /\ Len(l) = 1 /\ l[1] = a
  BY EmptySeq, AppendProperties
<1>2. r \in Seq(S) /\ Len(r) = 1 /\ r[1] = a
  OBVIOUS
<1> HIDE DEF l, r
<1>3. \A i \in 1 .. Len(l) : l[i] = r[i]
  BY <1>1, <1>2
<1>4. l = r
  BY <1>1, <1>2, <1>3, SeqEqual
<1> QED
  BY <1>4 DEF l, r

\* The same for a tuple of one element,
LEMMA AppendToOne ==
    ASSUME NEW S, NEW a \in S, NEW b \in S
    PROVE  Append(<< a >>, b) = << a, b >>
<1> DEFINE p == << a >>
           l == Append(p, b)
           r == << a, b >>
<1>0. p \in Seq(S)
  OBVIOUS
<1>1. Len(p) = 1 /\ p[1] = a
  OBVIOUS
<1>2. r \in Seq(S) /\ Len(r) = 2 /\ r[1] = a /\ r[2] = b
  OBVIOUS
<1> HIDE DEF p, r
<1>3. /\ l \in Seq(S)
      /\ Len(l) = Len(p) + 1
      /\ l[Len(p) + 1] = b
      /\ \A i \in 1 .. Len(p) : l[i] = p[i]
  <2>1. l \in Seq(S)
    BY <1>0, AppendProperties
  <2>2. Len(l) = Len(p) + 1
    BY <1>0, AppendProperties
  <2>3. l[Len(p) + 1] = b
    BY <1>0, AppendProperties
  <2>4. \A i \in 1 .. Len(p) : l[i] = p[i]
    BY <1>0, AppendProperties
  <2> QED
    BY <2>1, <2>2, <2>3, <2>4
<1> HIDE DEF l
<1>4. 1 \in 1 .. Len(p)
  BY <1>1
<1>5. Len(l) = 2 /\ l[1] = a /\ l[2] = b
  BY <1>1, <1>3, <1>4
<1>6. \A i \in 1 .. Len(l) : l[i] = r[i]
  BY <1>2, <1>5
<1>7. l = r
  BY <1>2, <1>3, <1>5, <1>6, SeqEqual
<1> QED
  BY <1>7 DEF l, r, p

\* of two,
LEMMA AppendToTwo ==
    ASSUME NEW S, NEW a \in S, NEW b \in S, NEW c \in S
    PROVE  Append(<< a, b >>, c) = << a, b, c >>
<1> DEFINE p == << a, b >>
           l == Append(p, c)
           r == << a, b, c >>
<1>0. p \in Seq(S)
  OBVIOUS
<1>1. Len(p) = 2 /\ p[1] = a /\ p[2] = b
  OBVIOUS
<1>2. r \in Seq(S) /\ Len(r) = 3 /\ r[1] = a /\ r[2] = b /\ r[3] = c
  OBVIOUS
<1> HIDE DEF p, r
<1>3. /\ l \in Seq(S)
      /\ Len(l) = Len(p) + 1
      /\ l[Len(p) + 1] = c
      /\ \A i \in 1 .. Len(p) : l[i] = p[i]
  <2>1. l \in Seq(S)
    BY <1>0, AppendProperties
  <2>2. Len(l) = Len(p) + 1
    BY <1>0, AppendProperties
  <2>3. l[Len(p) + 1] = c
    BY <1>0, AppendProperties
  <2>4. \A i \in 1 .. Len(p) : l[i] = p[i]
    BY <1>0, AppendProperties
  <2> QED
    BY <2>1, <2>2, <2>3, <2>4
<1> HIDE DEF l
<1>4. 1 \in 1 .. Len(p) /\ 2 \in 1 .. Len(p)
  BY <1>1
<1>5. Len(l) = 3 /\ l[1] = a /\ l[2] = b /\ l[3] = c
  BY <1>1, <1>3, <1>4
<1>6. \A i \in 1 .. Len(l) : l[i] = r[i]
  BY <1>2, <1>5
<1>7. l = r
  BY <1>2, <1>3, <1>5, <1>6, SeqEqual
<1> QED
  BY <1>7 DEF l, r, p

\* and of three.
LEMMA AppendToThree ==
    ASSUME NEW S, NEW a \in S, NEW b \in S, NEW c \in S, NEW d \in S
    PROVE  Append(<< a, b, c >>, d) = << a, b, c, d >>
<1> DEFINE p == << a, b, c >>
           l == Append(p, d)
           r == << a, b, c, d >>
<1>0. p \in Seq(S)
  OBVIOUS
<1>1. Len(p) = 3 /\ p[1] = a /\ p[2] = b /\ p[3] = c
  OBVIOUS
<1>2. r \in Seq(S) /\ Len(r) = 4 /\ r[1] = a /\ r[2] = b /\ r[3] = c /\ r[4] = d
  OBVIOUS
<1> HIDE DEF p, r
<1>3. /\ l \in Seq(S)
      /\ Len(l) = Len(p) + 1
      /\ l[Len(p) + 1] = d
      /\ \A i \in 1 .. Len(p) : l[i] = p[i]
  <2>1. l \in Seq(S)
    BY <1>0, AppendProperties
  <2>2. Len(l) = Len(p) + 1
    BY <1>0, AppendProperties
  <2>3. l[Len(p) + 1] = d
    BY <1>0, AppendProperties
  <2>4. \A i \in 1 .. Len(p) : l[i] = p[i]
    BY <1>0, AppendProperties
  <2> QED
    BY <2>1, <2>2, <2>3, <2>4
<1> HIDE DEF l
<1>4. 1 \in 1 .. Len(p) /\ 2 \in 1 .. Len(p) /\ 3 \in 1 .. Len(p)
  BY <1>1
<1>5. Len(l) = 4 /\ l[1] = a /\ l[2] = b /\ l[3] = c /\ l[4] = d
  BY <1>1, <1>3, <1>4
<1>6. \A i \in 1 .. Len(l) : l[i] = r[i]
  BY <1>2, <1>5
<1>7. l = r
  BY <1>2, <1>3, <1>5, <1>6, SeqEqual
<1> QED
  BY <1>7 DEF l, r, p

\* The empty text is a text.
LEMMA EmptyTextType == EmptyText \in Text
<1>1. << >> \in Seq(Words)
  BY EmptySeq
<1> QED
  BY <1>1, ProtoUtilAssumption DEF EmptyText, Text

\* Decoding gives a text, whatever was received.
LEMMA Base64DecodeType ==
    ASSUME NEW text \in Seq(Words)
    PROVE  Base64Decode(text) \in Text
<1>1. EmptyText \in Text
  BY EmptyTextType
<1> QED
  BY <1>1, ProtoUtilAssumption DEF Base64Decode

\* The address of a login name is a text, for a domain of any length.
LEMMA UserAddrType ==
    ASSUME NEW name \in Text
    PROVE  CreateUserAddrFromNameAndDomain(name, Domain) \in Text
<1>1. EmptyText \in Text
  BY EmptyTextType
<1>2. name.host \in Seq(Words)
  BY DEF Text
<1>3. CASE name.host # << >>
  BY <1>3 DEF Text, TrimName, CreateUserAddrFromNameAndDomain
<1>4. CASE name.host = << >> /\ Len(Domain) > 1
  <2>1. Tail(Domain) \in Seq(Words)
    <3>1. Domain \in Seq(Words)
      BY ProtoUtilAssumption
    <3>2. Domain # << >>
      BY <1>4
    <3> QED
      BY <3>1, <3>2, HeadTailProperties
  <2>2. [name EXCEPT !.host = Tail(Domain)] \in Text
    BY <2>1 DEF Text
  <2> QED
    BY <1>4, <2>2 DEF CreateUserAddrFromNameAndDomain
<1>5. CASE name.host = << >> /\ ~(Len(Domain) > 1)
  BY <1>1, <1>5 DEF CreateUserAddrFromNameAndDomain
<1> QED
  BY <1>3, <1>4, <1>5

\* Whatever was received, the parser returns an address and a piece of the text.
LEMMA ParseEmailType ==
    ASSUME NEW text \in Seq(Words)
    PROVE  ParseEmailForSmtp(text) \in [receiver : Text, context : Seq(Words)]
<1> DEFINE header == 1 .. (Min(BlankLines(text) \cup {Len(text) + 1}) - 1)
           to     == {i \in header : /\ text[i] \in DOMAIN ToHeader /\ FirstOfLine(text, i)
                                     /\ \E e \in LineEnds(text) : i < e}
           rcv    == IF to = {} THEN EmptyText ELSE ToHeader[text[Max(to)]]
           ctx    == IF BlankLines(text) = {} THEN << >>
                     ELSE SubSeq(text, Min(BlankLines(text)), Max(LineEnds(text)) + 1)
<1>1. rcv \in Text
  <2>1. CASE to = {}
    BY <2>1, EmptyTextType
  <2>2. CASE to # {}
    <3>1. to \in SUBSET (0 .. Len(text))
      BY LineBounds
    <3>2. Max(to) \in to
      <4>1. Len(text) \in Nat
        OBVIOUS
      <4> HIDE DEF to
      <4> QED
        BY <2>2, <3>1, <4>1, MaxIsGreatest
    <3> QED
      BY <2>2, <3>2, ProtoUtilAssumption
  <2> QED
    BY <2>1, <2>2
<1>2. ctx \in Seq(Words)
  <2>1. CASE BlankLines(text) = {}
    BY <2>1
  <2>2. CASE BlankLines(text) # {}
    <3>1. /\ BlankLines(text) \in SUBSET Nat
          /\ LineEnds(text) \in SUBSET (0 .. Len(text))
          /\ LineEnds(text) # {}
      BY <2>2, LineBounds
    <3>2. Min(BlankLines(text)) \in BlankLines(text)
      BY <2>2, <3>1, MinIsSmallest
    <3>3. Max(LineEnds(text)) \in LineEnds(text)
      <4>1. Len(text) \in Nat
        OBVIOUS
      <4> QED
        BY <3>1, <4>1, MaxIsGreatest
    <3>4. /\ Min(BlankLines(text)) \in Int /\ Min(BlankLines(text)) >= 1
          /\ Max(LineEnds(text)) + 1 \in Int /\ Max(LineEnds(text)) + 1 <= Len(text)
      BY <3>2, <3>3, LineBounds
    <3>5. \A i \in Min(BlankLines(text)) .. (Max(LineEnds(text)) + 1) : text[i] \in Words
      BY <3>4
    <3>6. SubSeq(text, Min(BlankLines(text)), Max(LineEnds(text)) + 1) \in Seq(Words)
      BY <3>4, <3>5, SubSeqProperties
    <3> QED
      BY <2>2, <3>6
  <2> QED
    BY <2>1, <2>2
<1>3. ParseEmailForSmtp(text) = [receiver |-> rcv, context |-> ctx]
  BY DEF ParseEmailForSmtp
<1> HIDE DEF rcv, ctx
<1> QED
  BY <1>1, <1>2, <1>3

----------------------------------------------------------------------------

----------------------------------------------------------------------------
\* What each operator of the step table returns.
LEMMA NextStepType == \A step \in Steps : NextStep[step] \in Steps
BY DEF NextStep, Steps

\* Every reply of the table is a known one, or none.
LEMMA ReplyType == \A step \in Steps : GetNextStepCmd(step) \in Replies \cup {""}
BY DEF GetNextStepCmd, Replies, Steps, NextStep

\* Sending keeps the replies of a session a sequence of replies.
LEMMA SendType ==
    ASSUME TypeOK, NEW s \in Sessions, NEW rsp \in Replies \cup {""}, Send(s, rsp)
    PROVE  replies' \in [Sessions -> Seq(Replies)]
<1>1. replies \in [Sessions -> Seq(Replies)] /\ replies[s] \in Seq(Replies)
  BY DEF TypeOK
<1>2. CASE rsp = ""
  BY <1>1, <1>2 DEF Send
<1>3. CASE rsp # ""
  <2>1. Append(replies[s], rsp) \in Seq(Replies)
    <3>1. rsp \in Replies
      BY <1>3
    <3> QED
      BY <1>1, <3>1, AppendProperties
  <2> QED
    BY <1>1, <1>3, <2>1 DEF Send
<1> QED
  BY <1>2, <1>3

\* An accepted request leads to a step of the table.
LEMMA AcceptedType ==
    ASSUME TypeOK, NEW s \in Sessions, NEW stepLeft \in Steps, Accepted(s, stepLeft)
    PROVE  /\ replies' \in [Sessions -> Seq(Replies)]
           /\ m_step' \in [Sessions -> Steps]
<1>1. GetNextStepCmd(stepLeft) \in Replies \cup {""}
  BY ReplyType
<1>2. replies' \in [Sessions -> Seq(Replies)]
  BY <1>1, SendType DEF Accepted
<1>3. m_step' \in [Sessions -> Steps]
  BY NextStepType DEF Accepted, TypeOK
<1> QED
  BY <1>2, <1>3

----------------------------------------------------------------------------
\* Nothing has been received or said at the start.
LEMMA TypeOKStarts == Init => TypeOK
<1> SUFFICES ASSUME Init PROVE TypeOK
  OBVIOUS
<1>1. << >> \in Seq(Words) /\ << >> \in Seq(Row) /\ << >> \in Seq(Sessions)
      /\ << >> \in Seq(Replies)
  BY EmptySeq
<1>2. "SMTP_BEGIN" \in Steps
  BY DEF Steps, NextStep
<1> QED
  BY <1>1, <1>2, EmptyTextType DEF Init, TypeOK

\* Every callback keeps the sessions typed.
LEMMA TypeOKKept == TypeOK /\ [Next]_vars => TypeOK'
<1> SUFFICES ASSUME TypeOK, [Next]_vars PROVE TypeOK'
  OBVIOUS
<1>1. ASSUME NEW s \in Sessions, Accept(s) PROVE TypeOK'
  <2>1. "SMTP_RECV_HELO_FIRST" \in Steps /\ "SMTP_ON_CONNECT" \in Steps
    BY DEF Steps, NextStep
  <2>2. GetNextStepCmd("SMTP_ON_CONNECT") \in Replies \cup {""}
    BY <2>1, ReplyType
  <2>3. replies' \in [Sessions -> Seq(Replies)]
    BY <1>1, <2>2, SendType DEF Accept
  <2> QED
    BY <1>1, <2>1, <2>3 DEF Accept, TypeOK, login, mail
<1>2. ASSUME NEW s \in Sessions, Disconnect(s) PROVE TypeOK'
  BY <1>2 DEF Disconnect, TypeOK, login, mail
<1>3. ASSUME NEW s \in Sessions, NEW chunk \in Chunks, OnRecive(s, chunk) PROVE TypeOK'
  <2>0. chunk \in Seq(Words) /\ m_step[s] \in Steps /\ m_strUserName[s] \in Text
    BY SmtpAssumption DEF TypeOK
  <2>1. CASE \/ OnEhloReq(s, chunk) \/ OnMailFromReq(s, chunk)
             \/ OnRcptToReq(s, chunk) \/ OnDataReq(s, chunk)
    <3>1. Accepted(s, m_step[s]) /\ UNCHANGED << conn, login, mail, running >>
      BY <2>1 DEF OnEhloReq, OnMailFromReq, OnRcptToReq, OnDataReq
    <3>2. replies' \in [Sessions -> Seq(Replies)] /\ m_step' \in [Sessions -> Steps]
      BY <2>0, <3>1, AcceptedType
    <3> QED
      BY <3>1, <3>2 DEF TypeOK, login, mail
  <2>2. CASE OnAuthLoginReq(s, chunk)
    <3>1. replies' \in [Sessions -> Seq(Replies)] /\ m_step' \in [Sessions -> Steps]
      <4>1. CASE Accepted(s, m_step[s])
        BY <2>0, <4>1, AcceptedType
      <4>2. CASE Refused(s, "235", "SMTP_RECV_MAIL_FROM_REQ")
        <5>1. "235" \in Replies \cup {""} /\ "SMTP_RECV_MAIL_FROM_REQ" \in Steps
          BY DEF Replies, Steps, NextStep
        <5> QED
          BY <4>2, <5>1, SendType DEF Refused, TypeOK
      <4>3. CASE Refused(s, "NOT Support", "SMTP_END")
        <5>1. "NOT Support" \in Replies \cup {""} /\ "SMTP_END" \in Steps
          BY DEF Replies, Steps, NextStep
        <5> QED
          BY <4>3, <5>1, SendType DEF Refused, TypeOK
      <4> QED
        BY <2>2, <4>1, <4>2, <4>3 DEF OnAuthLoginReq
    <3> QED
      BY <2>2, <3>1 DEF OnAuthLoginReq, TypeOK, login, mail
  <2>3. CASE OnPasswordReq(s, chunk)
    <3>1. replies' \in [Sessions -> Seq(Replies)] /\ m_step' \in [Sessions -> Steps]
      BY <2>0, <2>3, AcceptedType DEF OnPasswordReq
    <3>2. Base64Decode(chunk) \in Text
      BY <2>0, Base64DecodeType
    <3> QED
      BY <2>3, <3>1, <3>2 DEF OnPasswordReq, TypeOK, mail
  <2>4. CASE OnNamePassVerifyReq(s, chunk)
    <3>1. replies' \in [Sessions -> Seq(Replies)] /\ m_step' \in [Sessions -> Steps]
      <4>1. "SMTP_END" \in Steps
        BY DEF Steps, NextStep
      <4>2. CASE Accepted(s, m_step[s])
        BY <2>0, <4>2, AcceptedType
      <4>3. CASE Accepted(s, "SMTP_END")
        BY <4>1, <4>3, AcceptedType
      <4> QED
        BY <2>4, <4>2, <4>3 DEF OnNamePassVerifyReq
    <3>2. /\ Base64Decode(chunk) \in Text
          /\ CreateUserAddrFromNameAndDomain(m_strUserName[s], Domain) \in Text
      BY <2>0, Base64DecodeType, UserAddrType
    <3> QED
      BY <2>4, <3>1, <3>2 DEF OnNamePassVerifyReq, TypeOK, mail
  <2>5. CASE OnData(s, chunk)
    <3>1. m_emailData[s] \o chunk \in Seq(Words)
      BY <2>0, ConcatProperties DEF TypeOK
    <3>2. m_emailData' \in [Sessions -> Seq(Words)]
      BY <2>5, <3>1 DEF OnData, TypeOK
    <3>3. ParseEmailForSmtp(m_emailData[s] \o chunk) \in Row
      BY <3>1, ParseEmailType DEF Row
    <3>4. T_EMAIL_SEND' \in Seq(Row) /\ savedBy' \in Seq(Sessions)
      <4>1. CASE SaveSendMailInfo(s, ParseEmailForSmtp(m_emailData[s] \o chunk))
        <5>1. Append(T_EMAIL_SEND, ParseEmailForSmtp(m_emailData[s] \o chunk)) \in Seq(Row)
          BY <3>3 DEF TypeOK
        <5>2. Append(savedBy, s) \in Seq(Sessions)
          BY DEF TypeOK
        <5> QED
          BY <4>1, <5>1, <5>2 DEF SaveSendMailInfo, TypeOK
      <4>2. CASE UNCHANGED << T_EMAIL_SEND, savedBy >>
        BY <4>2 DEF TypeOK
      <4> QED
        BY <2>5, <4>1, <4>2 DEF OnData
    <3>5. m_bFinished' \in [Sessions -> BOOLEAN]
      BY <2>5 DEF OnData, TypeOK
    <3>6. conn' \in [Sessions -> {"none", "open", "closed"}]
      BY <2>5 DEF OnData, CloseIfFinished, TypeOK
    <3> QED
      BY <2>5, <3>2, <3>4, <3>5, <3>6 DEF OnData, TypeOK, login
  <2>6. CASE OnClientReqAtEnd(s)
    <3>1. conn' \in [Sessions -> {"none", "open", "closed"}]
      BY <2>6 DEF OnClientReqAtEnd, TypeOK
    <3> QED
      BY <2>6, <3>1 DEF OnClientReqAtEnd, TypeOK, login, mail
  <2> QED
    BY <1>3, <2>1, <2>2, <2>3, <2>4, <2>5, <2>6 DEF OnRecive
<1>4. CASE UNCHANGED vars
  BY <1>4 DEF vars, TypeOK, login, mail
<1> QED
  BY <1>1, <1>2, <1>3, <1>4 DEF Next

\* The type invariant, for every set of sessions, users and chunks.
THEOREM TypeCorrect == Spec => []TypeOK
BY TypeOKStarts, TypeOKKept, PTL DEF Spec

----------------------------------------------------------------------------
\* A chunk read outside the data step leaves the data and the rows alone.
LEMMA OnlyOnDataTouchesMail ==
    ASSUME NEW s \in Sessions, NEW chunk \in Chunks, OnRecive(s, chunk), ~OnData(s, chunk)
    PROVE  UNCHANGED mail
BY DEF OnRecive, OnEhloReq, OnAuthLoginReq, OnPasswordReq, OnNamePassVerifyReq,
       OnMailFromReq, OnRcptToReq, OnDataReq, OnClientReqAtEnd

\* Only OnData and the end of the process close connections, and none opens one.
LEMMA OnReciveKeepsClosed ==
    ASSUME TypeOK, NEW s \in Sessions, NEW chunk \in Chunks, OnRecive(s, chunk),
           NEW x \in Sessions, conn[x] = "closed"
    PROVE  conn'[x] = "closed"
<1>1. CASE OnData(s, chunk)
  BY <1>1 DEF OnData, CloseIfFinished, TypeOK
<1>2. CASE OnClientReqAtEnd(s)
  BY <1>2 DEF OnClientReqAtEnd
<1>3. CASE UNCHANGED conn
  BY <1>3
<1> QED
  BY <1>1, <1>2, <1>3 DEF OnRecive, OnEhloReq, OnAuthLoginReq, OnPasswordReq,
     OnNamePassVerifyReq, OnMailFromReq, OnRcptToReq, OnDataReq

\* No data holds no end of data.
LEMMA NothingEndsAnEmptyText == ~HasText(<< >>, EndOfData)
<1>1. Len(EndOfData) = 5 /\ Len(<< >>) = 0
  BY DEF EndOfData
<1> QED
  BY <1>1 DEF HasText, Find

\* A session is finished, and closed, exactly when the end of its data has been
\* received: for every set of chunks, so however the end is cut into reads.
THEOREM FinishedCorrect == Spec => []FinishedAtEndOfData
<1>1. Init => FinishedAtEndOfData
  BY NothingEndsAnEmptyText DEF Init, FinishedAtEndOfData
<1>2. TypeOK /\ FinishedAtEndOfData /\ [Next]_vars => FinishedAtEndOfData'
  <2> SUFFICES ASSUME TypeOK, FinishedAtEndOfData, [Next]_vars, NEW x \in Sessions
               PROVE  /\ m_bFinished'[x] <=> HasText(m_emailData'[x], EndOfData)
                      /\ m_bFinished'[x] => conn'[x] = "closed"
    BY DEF FinishedAtEndOfData
  <2>0. /\ m_bFinished[x] <=> HasText(m_emailData[x], EndOfData)
        /\ m_bFinished[x] => conn[x] = "closed"
    BY DEF FinishedAtEndOfData
  <2>1. ASSUME NEW s \in Sessions, Accept(s)
        PROVE  UNCHANGED mail /\ (conn[x] = "closed" => conn'[x] = "closed")
    BY <2>1 DEF Accept, TypeOK
  <2>2. ASSUME NEW s \in Sessions, Disconnect(s)
        PROVE  UNCHANGED mail /\ (conn[x] = "closed" => conn'[x] = "closed")
    BY <2>2 DEF Disconnect, TypeOK
  <2>3. ASSUME NEW s \in Sessions, NEW chunk \in Chunks, OnRecive(s, chunk)
        PROVE  /\ m_bFinished'[x] <=> HasText(m_emailData'[x], EndOfData)
               /\ m_bFinished'[x] => conn'[x] = "closed"
    <3>1. CASE OnData(s, chunk)
      <4>1. CASE x = s
        <5>1. conn[s] = "open" /\ m_bFinished[s] = FALSE
          BY <2>0, <3>1, <4>1 DEF OnData, Reading, TypeOK
        <5>2. m_emailData'[s] = m_emailData[s] \o chunk
          BY <3>1 DEF OnData, TypeOK
        <5>3. CASE EndsData(s, chunk)
          <6>1. m_bFinished'[s] = TRUE
            BY <3>1, <5>3 DEF OnData, TypeOK
          <6>2. conn'[s] = "closed"
            BY <3>1, <6>1 DEF OnData, CloseIfFinished, TypeOK
          <6> QED
            BY <4>1, <5>2, <5>3, <6>1, <6>2 DEF EndsData
        <5>4. CASE ~EndsData(s, chunk)
          <6>1. m_bFinished'[s] = FALSE
            BY <3>1, <5>1, <5>4 DEF OnData
          <6> QED
            BY <4>1, <5>2, <5>4, <6>1 DEF EndsData
        <5> QED
          BY <5>3, <5>4
      <4>2. CASE x # s
        <5>1. m_emailData'[x] = m_emailData[x] /\ m_bFinished'[x] = m_bFinished[x]
          BY <3>1, <4>2 DEF OnData, TypeOK
        <5> QED
          BY <2>0, <2>3, <5>1, OnReciveKeepsClosed
      <4> QED
        BY <4>1, <4>2
    <3>2. CASE ~OnData(s, chunk)
      <4>1. UNCHANGED mail
        BY <2>3, <3>2, OnlyOnDataTouchesMail
      <4> QED
        BY <2>0, <2>3, <4>1, OnReciveKeepsClosed DEF mail
    <3> QED
      BY <3>1, <3>2
  <2>4. CASE UNCHANGED vars
    BY <2>0, <2>4 DEF vars, mail
  <2> QED
    BY <2>0, <2>1, <2>2, <2>3, <2>4 DEF Next, mail
<1> QED
  BY <1>1, <1>2, TypeCorrect, PTL DEF Spec

----------------------------------------------------------------------------
\* A session whose connection is closed adds no more data.
LEMMA ClosedKeepsData ==
    ASSUME TypeOK, NEW s \in Sessions, NEW chunk \in Chunks, OnRecive(s, chunk),
           NEW x \in Sessions, conn[x] = "closed"
    PROVE  m_emailData'[x] = m_emailData[x] /\ m_bFinished'[x] = m_bFinished[x]
<1>1. CASE OnData(s, chunk)
  <2>1. x # s
    BY <1>1 DEF OnData, Reading
  <2> QED
    BY <1>1, <2>1 DEF OnData, TypeOK
<1>2. CASE ~OnData(s, chunk)
  BY <1>2, OnlyOnDataTouchesMail DEF mail
<1> QED
  BY <1>1, <1>2

\* Each row is the whole mail of one finished session and no session has two.
\* The rows are safe because a finished session is closed (FinishedCorrect).
THEOREM RowsCorrect == Spec => []OneRowPerFinishedSession
<1>1. Init => OneRowPerFinishedSession
  BY DEF Init, OneRowPerFinishedSession
<1>2. TypeOK /\ FinishedAtEndOfData /\ OneRowPerFinishedSession /\ [Next]_vars
        => OneRowPerFinishedSession'
  <2> SUFFICES ASSUME TypeOK, FinishedAtEndOfData, OneRowPerFinishedSession, [Next]_vars
               PROVE  OneRowPerFinishedSession'
    OBVIOUS
  <2>0. /\ savedBy \in Seq(Sessions) /\ T_EMAIL_SEND \in Seq(Row)
        /\ Len(savedBy) = Len(T_EMAIL_SEND)
        /\ \A i \in DOMAIN savedBy :
              /\ savedBy[i] \in Sessions
              /\ m_bFinished[savedBy[i]]
              /\ conn[savedBy[i]] = "closed"
              /\ T_EMAIL_SEND[i] = ParseEmailForSmtp(m_emailData[savedBy[i]])
              /\ \A j \in DOMAIN savedBy : savedBy[i] = savedBy[j] => i = j
    BY DEF TypeOK, FinishedAtEndOfData, OneRowPerFinishedSession
  <2>1. CASE UNCHANGED mail
    BY <2>1 DEF mail, OneRowPerFinishedSession
  <2>2. ASSUME NEW s \in Sessions, NEW chunk \in Chunks, OnData(s, chunk)
        PROVE  OneRowPerFinishedSession'
    <3>0. OnRecive(s, chunk)
      BY <2>2 DEF OnRecive
    <3>1. conn[s] = "open"
      BY <2>2 DEF OnData, Reading
    <3>2. \A i \in DOMAIN savedBy :
             /\ savedBy[i] # s
             /\ m_emailData'[savedBy[i]] = m_emailData[savedBy[i]]
             /\ m_bFinished'[savedBy[i]] = m_bFinished[savedBy[i]]
      BY <2>0, <3>0, <3>1, ClosedKeepsData
    <3>3. CASE UNCHANGED << T_EMAIL_SEND, savedBy >>
      BY <2>0, <3>2, <3>3 DEF OneRowPerFinishedSession
    <3>4. CASE EndsData(s, chunk) /\ savedBy' # savedBy
      <4> DEFINE email == ParseEmailForSmtp(m_emailData[s] \o chunk)
      <4>1. T_EMAIL_SEND' = Append(T_EMAIL_SEND, email) /\ savedBy' = Append(savedBy, s)
        BY <2>2, <3>4 DEF OnData, SaveSendMailInfo
      <4>2. m_bFinished'[s] = TRUE /\ m_emailData'[s] = m_emailData[s] \o chunk
        BY <2>2, <3>4 DEF OnData, TypeOK
      <4>3. email \in Row
        <5>1. m_emailData[s] \o chunk \in Seq(Words)
          BY SmtpAssumption, ConcatProperties DEF TypeOK
        <5> QED
          BY <5>1, ParseEmailType DEF Row
      <4> DEFINE n == Len(savedBy)
      <4>4. /\ n \in Nat
            /\ Len(savedBy') = n + 1 /\ savedBy' \in Seq(Sessions)
            /\ \A i \in 1 .. n : savedBy'[i] = savedBy[i]
            /\ savedBy'[n + 1] = s
        BY <2>0, <4>1, AppendProperties
      <4> HIDE DEF email
      <4>5. /\ Len(T_EMAIL_SEND') = n + 1
            /\ \A i \in 1 .. n : T_EMAIL_SEND'[i] = T_EMAIL_SEND[i]
            /\ T_EMAIL_SEND'[n + 1] = email
        BY <2>0, <4>1, <4>3, AppendProperties
      <4>6. DOMAIN savedBy = 1 .. n /\ DOMAIN savedBy' = 1 .. (n + 1)
        BY <2>0, <4>4
      <4>7. ASSUME NEW i \in DOMAIN savedBy'
            PROVE  /\ m_bFinished'[savedBy'[i]]
                   /\ T_EMAIL_SEND'[i] = ParseEmailForSmtp(m_emailData'[savedBy'[i]])
        <5>1. CASE i \in 1 .. n
          BY <2>0, <3>2, <4>4, <4>5, <4>6, <5>1
        <5>2. CASE i = n + 1
          BY <4>2, <4>4, <4>5, <5>2 DEF email
        <5> QED
          BY <4>4, <4>6, <4>7, <5>1, <5>2
      <4>8. ASSUME NEW i \in DOMAIN savedBy', NEW j \in DOMAIN savedBy',
                   savedBy'[i] = savedBy'[j]
            PROVE  i = j
        <5>1. i \in 1 .. n \/ i = n + 1
          BY <4>4, <4>6
        <5>2. j \in 1 .. n \/ j = n + 1
          BY <4>4, <4>6
        <5> QED
          BY <2>0, <3>2, <4>4, <4>6, <4>8, <5>1, <5>2
      <4> QED
        BY <4>4, <4>5, <4>7, <4>8 DEF OneRowPerFinishedSession
    <3> QED
      BY <2>2, <3>3, <3>4 DEF OnData, SaveSendMailInfo
  <2>3. ASSUME NEW s \in Sessions, NEW chunk \in Chunks, OnRecive(s, chunk), ~OnData(s, chunk)
        PROVE  UNCHANGED mail
    BY <2>3, OnlyOnDataTouchesMail
  <2>4. CASE UNCHANGED vars
    BY <2>1, <2>4 DEF vars
  <2>5. ASSUME NEW s \in Sessions, Accept(s) \/ Disconnect(s)
        PROVE  UNCHANGED mail
    BY <2>5 DEF Accept, Disconnect
  <2> QED
    BY <2>1, <2>2, <2>3, <2>4, <2>5 DEF Next
<1> QED
  BY <1>1, <1>2, TypeCorrect, FinishedCorrect, PTL DEF Spec

----------------------------------------------------------------------------
\* The dialogues are sequences of replies.
LEMMA GreetedType == GreetedThrough \subseteq Seq(Replies)
<1>1. LoginDialogue \in Seq(Replies)
  BY DEF LoginDialogue, Replies
<1>2. << "235" >> \in Seq(Replies)
  BY DEF Replies
<1>3. << "220", "250 AUTH", "235" >> \in Seq(Replies)
  BY DEF Replies
<1>4. LoginDialogue \o << "235" >> \in Seq(Replies)
  BY <1>1, <1>2, ConcatProperties
<1> QED
  BY <1>1, <1>3, <1>4 DEF GreetedThrough

\* Appending to a concatenation appends to its second part.
LEMMA AppendToConcat ==
    ASSUME NEW d \in Seq(Replies), NEW t \in Seq(Replies), NEW x \in Replies
    PROVE  Append(d \o t, x) = d \o Append(t, x)
<1>1. d \o t \in Seq(Replies) /\ << x >> \in Seq(Replies)
  BY ConcatProperties
<1>2. Append(d \o t, x) = (d \o t) \o << x >> /\ Append(t, x) = t \o << x >>
  BY <1>1, AppendIsConcat
<1> QED
  BY <1>1, <1>2, ConcatAssociative

\* An accepted request extends a dialogue of its step to one of the next step.
LEMMA DialogueGoesOn ==
    ASSUME NEW step \in {"SMTP_RECV_HELO_FIRST", "SMTP_RECV_AUTH_LOGIN_REQ",
                         "SMTP_RECV_PASS_WORD_REQ", "SMTP_NAME_PASS_VERIFY",
                         "SMTP_RECV_MAIL_FROM_REQ", "SMTP_RECV_RCPT_TO_REQ",
                         "SMTP_RECV_DATA_REQ"},
           NEW d \in Dialogues[step]
    PROVE  /\ GetNextStepCmd(step) # ""
           /\ Append(d, GetNextStepCmd(step)) \in Dialogues[NextStep[step]]
<1> USE DEF NextStep, GetNextStepCmd
<1>0. /\ {"220", "250 AUTH", "334 Username", "334 Password"} \subseteq Replies
      /\ "250" \in Replies /\ "354" \in Replies /\ "235" \in Replies
      /\ << "250" >> \in Seq(Replies) /\ << "250", "250" >> \in Seq(Replies)
      /\ LoginDialogue \in Seq(Replies)
  BY DEF Replies, LoginDialogue
<1>1. CASE step = "SMTP_RECV_HELO_FIRST"
  <2>1. d = << "220" >>
    BY <1>1 DEF Dialogues
  <2>2. Append(<< "220" >>, "250 AUTH") = << "220", "250 AUTH" >>
    <3>1. "220" \in Replies /\ "250 AUTH" \in Replies
      BY <1>0
    <3> QED
      BY <3>1, AppendToOne, Zenon
  <2> QED
    BY <1>1, <2>1, <2>2 DEF Dialogues
<1>2. CASE step = "SMTP_RECV_AUTH_LOGIN_REQ"
  <2>1. d = << "220", "250 AUTH" >>
    BY <1>2 DEF Dialogues
  <2>2. Append(<< "220", "250 AUTH" >>, "334 Username") = << "220", "250 AUTH", "334 Username" >>
    <3>1. "220" \in Replies /\ "250 AUTH" \in Replies /\ "334 Username" \in Replies
      BY <1>0
    <3> QED
      BY <3>1, AppendToTwo, Zenon
  <2> QED
    BY <1>2, <2>1, <2>2 DEF Dialogues
<1>3. CASE step = "SMTP_RECV_PASS_WORD_REQ"
  <2>1. d = << "220", "250 AUTH", "334 Username" >>
    BY <1>3 DEF Dialogues
  <2>2. Append(<< "220", "250 AUTH", "334 Username" >>, "334 Password")
          = << "220", "250 AUTH", "334 Username", "334 Password" >>
    <3>1. /\ "220" \in Replies
          /\ "250 AUTH" \in Replies
          /\ "334 Username" \in Replies
          /\ "334 Password" \in Replies
      BY <1>0
    <3> QED
      BY ZenonT(60), <3>1, AppendToThree
  <2>3. Append(d, "334 Password") = LoginDialogue
    BY <2>1, <2>2 DEF LoginDialogue
  <2> QED
    BY <1>3, <2>3 DEF Dialogues
<1>4. CASE step = "SMTP_NAME_PASS_VERIFY"
  <2>1. d = LoginDialogue
    BY <1>4 DEF Dialogues
  <2>2. Append(LoginDialogue, "235") = LoginDialogue \o << "235" >>
    BY <1>0, AppendIsConcat
  <2> QED
    BY <1>4, <2>1, <2>2 DEF Dialogues, GreetedThrough
<1>5. CASE step = "SMTP_RECV_MAIL_FROM_REQ"
  <2>1. d \in GreetedThrough /\ d \in Seq(Replies)
    BY <1>5, GreetedType DEF Dialogues
  <2>2. Append(d, "250") = d \o << "250" >>
    BY <1>0, <2>1, AppendIsConcat
  <2> QED
    BY <1>5, <2>1, <2>2 DEF Dialogues, Followed
<1>6. CASE step = "SMTP_RECV_RCPT_TO_REQ"
  <2>1. PICK g \in GreetedThrough : d = g \o << "250" >>
    BY <1>6 DEF Dialogues, Followed
  <2>2. g \in Seq(Replies)
    BY GreetedType
  <2>3. Append(d, "250") = g \o Append(<< "250" >>, "250")
    BY ZenonT(60), <1>0, <2>1, <2>2, AppendToConcat
  <2>4. Append(<< "250" >>, "250") = << "250", "250" >>
    <3>1. "250" \in Replies
      BY <1>0
    <3> QED
      BY <3>1, AppendToOne, Zenon
  <2> QED
    BY <1>6, <2>3, <2>4 DEF Dialogues, Followed
<1>7. CASE step = "SMTP_RECV_DATA_REQ"
  <2>1. PICK g \in GreetedThrough : d = g \o << "250", "250" >>
    BY <1>7 DEF Dialogues, Followed
  <2>2. g \in Seq(Replies)
    BY GreetedType
  <2>3. Append(d, "354") = g \o Append(<< "250", "250" >>, "354")
    BY ZenonT(60), <1>0, <2>1, <2>2, AppendToConcat
  <2>4. Append(<< "250", "250" >>, "354") = << "250", "250", "354" >>
    <3>1. "250" \in Replies /\ "354" \in Replies
      BY <1>0
    <3> QED
      BY <3>1, AppendToTwo, Zenon
  <2> QED
    BY <1>7, <2>3, <2>4 DEF Dialogues, Followed
<1> QED
  BY <1>1, <1>2, <1>3, <1>4, <1>5, <1>6, <1>7

\* What makes the dialogue inductive: a connection that was not accepted yet has
\* said nothing, and data is only collected in the data step.
Talk ==
    \A s \in Sessions :
        /\ conn[s] = "none" => replies[s] = << >>
        /\ replies[s] \in Dialogues[m_step[s]]
        /\ m_emailData[s] # << >> => m_step[s] = "SMTP_RECV_EMAIL_DATA"

\* No session has said anything before it is accepted.
LEMMA TalkInitially == Init => Talk
<1> SUFFICES ASSUME Init, NEW s \in Sessions
             PROVE  /\ conn[s] = "none" => replies[s] = << >>
                    /\ replies[s] \in Dialogues[m_step[s]]
                    /\ m_emailData[s] # << >> => m_step[s] = "SMTP_RECV_EMAIL_DATA"
  BY DEF Talk
<1>1. replies[s] = << >> /\ m_step[s] = "SMTP_BEGIN" /\ m_emailData[s] = << >>
  BY DEF Init
<1>2. << >> \in Dialogues["SMTP_BEGIN"]
  BY DEF Dialogues
<1> QED
  BY <1>1, <1>2

\* The steps whose callbacks may accept a request.
Asking == {"SMTP_RECV_HELO_FIRST", "SMTP_RECV_AUTH_LOGIN_REQ", "SMTP_RECV_PASS_WORD_REQ",
           "SMTP_NAME_PASS_VERIFY", "SMTP_RECV_MAIL_FROM_REQ", "SMTP_RECV_RCPT_TO_REQ",
           "SMTP_RECV_DATA_REQ"}

\* A session whose request is accepted goes on talking; the others are untouched.
LEMMA AcceptedTalks ==
    ASSUME TypeOK, Talk, NEW s \in Sessions, m_step[s] \in Asking, conn[s] = "open",
           \/ Accepted(s, m_step[s])
           \/ m_step[s] = "SMTP_NAME_PASS_VERIFY" /\ Accepted(s, "SMTP_END"),
           UNCHANGED << conn, m_emailData >>
    PROVE  Talk'
<1>1. /\ replies[s] \in Dialogues[m_step[s]]
      /\ m_emailData[s] = << >>
      /\ m_step' = [m_step EXCEPT ![s] = NextStep[m_step[s]]]
  BY DEF Talk, Asking, Accepted
<1>2. replies'[s] \in Dialogues[NextStep[m_step[s]]]
  <2>1. CASE Accepted(s, m_step[s])
    <3>1. /\ GetNextStepCmd(m_step[s]) # ""
          /\ Append(replies[s], GetNextStepCmd(m_step[s])) \in Dialogues[NextStep[m_step[s]]]
      BY <1>1, DialogueGoesOn DEF Asking
    <3>2. replies \in [Sessions -> Seq(Replies)]
      BY DEF TypeOK
    <3>3. replies'[s] = Append(replies[s], GetNextStepCmd(m_step[s]))
      BY <2>1, <3>1, <3>2 DEF Accepted, Send
    <3> QED
      BY <3>1, <3>3
  <2>2. CASE m_step[s] = "SMTP_NAME_PASS_VERIFY" /\ Accepted(s, "SMTP_END")
    <3>1. GetNextStepCmd("SMTP_END") = ""
      BY DEF GetNextStepCmd
    <3>2. replies'[s] = replies[s]
      BY <2>2, <3>1 DEF Accepted, Send, TypeOK
    <3>3. replies[s] = LoginDialogue
      BY <1>1, <2>2 DEF Dialogues
    <3>4. LoginDialogue \in GreetedThrough
      BY DEF GreetedThrough
    <3>5. /\ NextStep["SMTP_NAME_PASS_VERIFY"] = "SMTP_RECV_MAIL_FROM_REQ"
          /\ Dialogues["SMTP_RECV_MAIL_FROM_REQ"] = GreetedThrough
      BY DEF NextStep, Dialogues
    <3> QED
      BY <2>2, <3>2, <3>3, <3>4, <3>5
  <2> QED
    BY <2>1, <2>2
<1>3. \A x \in Sessions \ {s} : m_step'[x] = m_step[x] /\ replies'[x] = replies[x]
  BY DEF Accepted, Send, TypeOK
<1>4. m_step'[s] = NextStep[m_step[s]]
  BY <1>1 DEF TypeOK
<1> SUFFICES ASSUME NEW x \in Sessions
             PROVE  /\ conn'[x] = "none" => replies'[x] = << >>
                    /\ replies'[x] \in Dialogues[m_step'[x]]
                    /\ m_emailData'[x] # << >> => m_step'[x] = "SMTP_RECV_EMAIL_DATA"
  BY DEF Talk
<1>5. CASE x = s
  BY <1>1, <1>2, <1>4, <1>5
<1>6. CASE x # s
  BY <1>3, <1>6 DEF Talk
<1> QED
  BY <1>5, <1>6

\* A session that moves on without an accepted request keeps what it said, or is
\* told "235" or "NOT Support" after AUTH.
LEMMA TalkIsInductive == TypeOK /\ Talk /\ [Next]_vars => Talk'
<1> SUFFICES ASSUME TypeOK, Talk, [Next]_vars PROVE Talk'
  OBVIOUS
<1>1. ASSUME NEW s \in Sessions, Accept(s) PROVE Talk'
  <2>1. replies[s] = << >> /\ conn[s] = "none"
    BY <1>1 DEF Accept, Talk
  <2>2. m_emailData[s] = << >>
    <3>1. m_step[s] # "SMTP_RECV_EMAIL_DATA"
      <4>1. \A d \in Dialogues["SMTP_RECV_EMAIL_DATA"] : d # << >>
        <5> SUFFICES ASSUME NEW g \in GreetedThrough
                     PROVE  g \o << "250", "250", "354" >> # << >>
          BY DEF Dialogues, Followed
        <5>1. g \in Seq(Replies) /\ << "250", "250", "354" >> \in Seq(Replies)
          <6>1. "250" \in Replies /\ "354" \in Replies
            BY DEF Replies
          <6> QED
            BY <6>1, GreetedType
        <5>2. Len(<< "250", "250", "354" >>) = 3 /\ Len(g) \in Nat /\ Len(<< >>) = 0
          BY <5>1, LenProperties
        <5>3. Len(g \o << "250", "250", "354" >>) = Len(g) + 3
          BY <5>1, <5>2, ConcatProperties
        <5> QED
          BY <5>2, <5>3
      <4> QED
        BY <2>1, <4>1 DEF Talk
    <3> QED
      BY <3>1 DEF Talk
  <2>3. GetNextStepCmd("SMTP_ON_CONNECT") = "220"
    BY DEF GetNextStepCmd
  <2>4. Append(<< >>, "220") = << "220" >>
    BY AppendToEmpty DEF Replies
  <2>5. replies'[s] = << "220" >> /\ m_step'[s] = "SMTP_RECV_HELO_FIRST" /\ conn'[s] = "open"
    BY <1>1, <2>1, <2>3, <2>4 DEF Accept, Send, TypeOK
  <2>6. Dialogues["SMTP_RECV_HELO_FIRST"] = {<< "220" >>}
    BY DEF Dialogues
  <2>7. \A x \in Sessions \ {s} :
           m_step'[x] = m_step[x] /\ replies'[x] = replies[x] /\ conn'[x] = conn[x]
    BY <1>1 DEF Accept, Send, TypeOK
  <2>8. m_emailData' = m_emailData
    BY <1>1 DEF Accept, mail
  <2> QED
    BY <2>2, <2>5, <2>6, <2>7, <2>8 DEF Talk
<1>2. ASSUME NEW s \in Sessions, Disconnect(s) PROVE Talk'
  <2>1. \A x \in Sessions : conn'[x] = "none" => conn[x] = "none"
    BY <1>2 DEF Disconnect, TypeOK
  <2>2. UNCHANGED << m_step, m_emailData, replies >>
    BY <1>2 DEF Disconnect, mail
  <2> QED
    BY <2>1, <2>2 DEF Talk
<1>3. ASSUME NEW s \in Sessions, NEW chunk \in Chunks, OnRecive(s, chunk) PROVE Talk'
  <2>0. conn[s] = "open"
    BY <1>3 DEF OnRecive, OnEhloReq, OnAuthLoginReq, OnPasswordReq, OnNamePassVerifyReq,
       OnMailFromReq, OnRcptToReq, OnDataReq, OnData, OnClientReqAtEnd, Reading
  <2>1. CASE OnEhloReq(s, chunk)
    BY <2>0, <2>1, AcceptedTalks DEF OnEhloReq, Reading, Asking, mail
  <2>2. CASE OnAuthLoginReq(s, chunk)
    <3>1. m_step[s] = "SMTP_RECV_AUTH_LOGIN_REQ" /\ UNCHANGED << conn, m_emailData >>
      BY <2>2 DEF OnAuthLoginReq, Reading, mail
    <3>2. CASE Accepted(s, m_step[s])
      BY <2>0, <3>1, <3>2, AcceptedTalks DEF Asking
    <3>3. ASSUME NEW rsp \in {"235", "NOT Support"}, NEW step \in Steps,
                 Refused(s, rsp, step),
                 << "220", "250 AUTH", rsp >> \in Dialogues[step]
          PROVE  Talk'
      <4>1. replies[s] = << "220", "250 AUTH" >> /\ m_emailData[s] = << >>
        <5>1. Dialogues["SMTP_RECV_AUTH_LOGIN_REQ"] = {<< "220", "250 AUTH" >>}
          BY DEF Dialogues
        <5> QED
          BY <3>1, <5>1 DEF Talk
      <4>2. Append(<< "220", "250 AUTH" >>, rsp) = << "220", "250 AUTH", rsp >>
        <5>1. "220" \in Replies /\ "250 AUTH" \in Replies /\ rsp \in Replies
          BY DEF Replies
        <5> QED
          BY <5>1, AppendToTwo, Zenon
      <4>3. replies'[s] = << "220", "250 AUTH", rsp >> /\ m_step'[s] = step
        <5>1. rsp # "" /\ replies \in [Sessions -> Seq(Replies)] /\ m_step \in [Sessions -> Steps]
          BY DEF TypeOK
        <5> QED
          BY <3>3, <4>1, <4>2, <5>1 DEF Refused, Send
      <4>4. \A x \in Sessions \ {s} : m_step'[x] = m_step[x] /\ replies'[x] = replies[x]
        BY <3>3 DEF Refused, Send, TypeOK
      <4> QED
        BY <2>0, <3>1, <3>3, <4>1, <4>3, <4>4 DEF Talk
    <3>4. /\ << "220", "250 AUTH", "235" >> \in Dialogues["SMTP_RECV_MAIL_FROM_REQ"]
          /\ << "220", "250 AUTH", "NOT Support" >> \in Dialogues["SMTP_END"]
          /\ "SMTP_RECV_MAIL_FROM_REQ" \in Steps /\ "SMTP_END" \in Steps
      BY DEF Dialogues, GreetedThrough, Steps, NextStep
    <3>5. CASE Refused(s, "235", "SMTP_RECV_MAIL_FROM_REQ")
      BY <3>3, <3>4, <3>5
    <3>6. CASE Refused(s, "NOT Support", "SMTP_END")
      BY <3>3, <3>4, <3>6
    <3> QED
      BY <2>2, <3>2, <3>5, <3>6 DEF OnAuthLoginReq
  <2>3. CASE OnPasswordReq(s, chunk)
    BY <2>0, <2>3, AcceptedTalks DEF OnPasswordReq, Reading, Asking, mail
  <2>4. CASE OnNamePassVerifyReq(s, chunk)
    BY <2>0, <2>4, AcceptedTalks DEF OnNamePassVerifyReq, Reading, Asking, mail
  <2>5. CASE OnMailFromReq(s, chunk)
    BY <2>0, <2>5, AcceptedTalks DEF OnMailFromReq, Reading, Asking, mail
  <2>6. CASE OnRcptToReq(s, chunk)
    BY <2>0, <2>6, AcceptedTalks DEF OnRcptToReq, Reading, Asking, mail
  <2>7. CASE OnDataReq(s, chunk)
    BY <2>0, <2>7, AcceptedTalks DEF OnDataReq, Reading, Asking, mail
  <2>8. CASE OnData(s, chunk)
    <3>1. /\ m_step[s] = "SMTP_RECV_EMAIL_DATA" /\ UNCHANGED << m_step, replies >>
          /\ \A x \in Sessions \ {s} : m_emailData'[x] = m_emailData[x]
      BY <2>8 DEF OnData, Reading, TypeOK
    <3>2. \A x \in Sessions : conn'[x] = "none" => conn[x] = "none"
      BY <2>8 DEF OnData, CloseIfFinished, TypeOK
    <3> QED
      BY <3>1, <3>2 DEF Talk
  <2>9. CASE OnClientReqAtEnd(s)
    <3>1. \A x \in Sessions : conn'[x] = "none" => conn[x] = "none"
      BY <2>9 DEF OnClientReqAtEnd
    <3>2. UNCHANGED << m_step, m_emailData, replies >>
      BY <2>9 DEF OnClientReqAtEnd, mail
    <3> QED
      BY <3>1, <3>2 DEF Talk
  <2> QED
    BY <1>3, <2>1, <2>2, <2>3, <2>4, <2>5, <2>6, <2>7, <2>8, <2>9 DEF OnRecive
<1>4. CASE UNCHANGED vars
  <2>1. UNCHANGED << conn, m_step, m_emailData, replies >>
    BY <1>4 DEF vars, mail
  <2> QED
    BY <2>1 DEF Talk
<1> QED
  BY <1>1, <1>2, <1>3, <1>4 DEF Next

\* A dialogue of the data step ends with the 354.
LEMMA DataFollows354 == \A d \in Dialogues["SMTP_RECV_EMAIL_DATA"] : Last(d) = "354"
<1> DEFINE tail == << "250", "250", "354" >>
<1> SUFFICES ASSUME NEW g \in GreetedThrough PROVE Last(g \o tail) = "354"
  BY DEF Dialogues, Followed
<1>0. "250" \in Replies /\ "354" \in Replies
  BY DEF Replies
<1>1. g \in Seq(Replies) /\ tail \in Seq(Replies) /\ Len(tail) = 3 /\ tail[3] = "354"
  BY <1>0, GreetedType
<1> HIDE DEF tail
<1>2. Len(g) \in Nat
  BY <1>1, LenProperties
<1>3. Len(g \o tail) = Len(g) + 3
  <2>1. g \in Seq(Replies) /\ tail \in Seq(Replies)
    BY <1>1
  <2>2. Len(g \o tail) = Len(g) + Len(tail)
    BY <2>1, ConcatProperties
  <2> QED
    BY <1>1, <2>2
<1>4. (g \o tail)[Len(g) + 3] = tail[3]
  <2>1. \A i \in 1 .. Len(g) + Len(tail) :
           (g \o tail)[i] = IF i <= Len(g) THEN g[i] ELSE tail[i - Len(g)]
    BY <1>1, ConcatProperties
  <2>2. Len(g) + 3 \in 1 .. Len(g) + Len(tail)
    BY <1>1, <1>2
  <2>3. ~(Len(g) + 3 <= Len(g)) /\ (Len(g) + 3) - Len(g) = 3
    BY <1>2
  <2> QED
    BY <2>1, <2>2, <2>3
<1> QED
  BY <1>1, <1>3, <1>4 DEF Last

\* Whatever is read, in whatever pieces, a session is only ever told a beginning
\* of one of the four dialogues of its step.
THEOREM DialogueCorrect == Spec => []DialogueInOrder
<1>1. Talk => DialogueInOrder
  BY DataFollows354 DEF Talk, DialogueInOrder
<1> QED
  BY <1>1, TalkInitially, TalkIsInductive, TypeCorrect, PTL DEF Spec

----------------------------------------------------------------------------
\* A session in SMTP_END was refused: it is the last thing it was told.
LEMMA EndIsRefused ==
    ASSUME Talk, NEW s \in Sessions, m_step[s] = "SMTP_END"
    PROVE  replies[s] # << >> /\ Last(replies[s]) = "NOT Support"
<1> DEFINE d == << "220", "250 AUTH", "NOT Support" >>
<1>1. replies[s] = d
  <2>1. Dialogues["SMTP_END"] = {d}
    BY DEF Dialogues
  <2> QED
    BY <2>1 DEF Talk
<1>2. Len(d) = 3 /\ d[3] = "NOT Support"
  OBVIOUS
<1>3. d # << >>
  BY <1>2, Len(<< >>) = 0
<1> HIDE DEF d
<1>4. Last(d) = "NOT Support"
  BY <1>2 DEF Last
<1> QED
  BY <1>1, <1>3, <1>4

\* The one request that ends the process is read in SMTP_END.
LEMMA OnlyEndStops ==
    ASSUME running, [Next]_vars, ~running'
    PROVE  \E s \in Sessions : m_step[s] = "SMTP_END" /\ UNCHANGED replies
<1>1. ~UNCHANGED vars
  BY DEF vars
<1>2. PICK s \in Sessions : Accept(s) \/ Disconnect(s) \/ \E chunk \in Chunks : OnRecive(s, chunk)
  BY <1>1 DEF Next
<1>3. ~Accept(s) /\ ~Disconnect(s)
  BY DEF Accept, Disconnect
<1>4. PICK chunk \in Chunks : OnRecive(s, chunk)
  BY <1>2, <1>3
<1>5. OnClientReqAtEnd(s)
  BY <1>4 DEF OnRecive, OnEhloReq, OnAuthLoginReq, OnPasswordReq, OnNamePassVerifyReq,
     OnMailFromReq, OnRcptToReq, OnDataReq, OnData
<1> QED
  BY <1>5 DEF OnClientReqAtEnd, Reading

\* A process that has ended does nothing more.
LEMMA StoppedStaysStopped ==
    ASSUME ~running, [Next]_vars
    PROVE  UNCHANGED << running, replies >>
<1>1. ~Next
  BY ZenonT(60) DEF Next, Accept, Disconnect, OnRecive, OnEhloReq, OnAuthLoginReq, OnPasswordReq,
     OnNamePassVerifyReq, OnMailFromReq, OnRcptToReq, OnDataReq, OnData, OnClientReqAtEnd,
     Reading
<1> QED
  BY <1>1 DEF vars

\* However many sessions share the process, only a request after the refusal of
\* AUTH CRAM-MD5 ends it; the SMTP_END of a wrong password never does.
THEOREM EndsCorrect == Spec => []EndsOnlyAfterRefusal
<1>1. Init => EndsOnlyAfterRefusal
  BY DEF Init, EndsOnlyAfterRefusal
<1>2. Talk /\ EndsOnlyAfterRefusal /\ [Next]_vars => EndsOnlyAfterRefusal'
  <2> SUFFICES ASSUME Talk, EndsOnlyAfterRefusal, [Next]_vars, ~running'
               PROVE  \E s \in Sessions : replies'[s] # << >> /\ Last(replies'[s]) = "NOT Support"
    BY DEF EndsOnlyAfterRefusal, Last
  <2>1. CASE running
    <3>1. PICK s \in Sessions : m_step[s] = "SMTP_END" /\ UNCHANGED replies
      BY <2>1, OnlyEndStops
    <3> QED
      BY <3>1, EndIsRefused
  <2>2. CASE ~running
    <3>1. replies' = replies
      BY <2>2, StoppedStaysStopped
    <3> QED
      BY <2>2, <3>1 DEF EndsOnlyAfterRefusal
  <2> QED
    BY <2>1, <2>2
<1> QED
  BY <1>1, <1>2, TypeCorrect, TalkInitially, TalkIsInductive, PTL DEF Spec

----------------------------------------------------------------------------
\* The dialogue of a right name and password.
RightDialogue == LoginDialogue \o << "235" >>

\* The steps after the login.
PastLogin == {"SMTP_RECV_MAIL_FROM_REQ", "SMTP_RECV_RCPT_TO_REQ",
              "SMTP_RECV_DATA_REQ", "SMTP_RECV_EMAIL_DATA"}

\* The replies to both, one by one.
LEMMA LoginReplies ==
    /\ LoginDialogue \in Seq(Replies) /\ Len(LoginDialogue) = 4
    /\ LoginDialogue[1] = "220" /\ LoginDialogue[2] = "250 AUTH"
    /\ LoginDialogue[3] = "334 Username" /\ LoginDialogue[4] = "334 Password"
    /\ RightDialogue \in Seq(Replies) /\ Len(RightDialogue) = 5
    /\ RightDialogue = Append(LoginDialogue, "235")
    /\ \A i \in 1 .. 4 : RightDialogue[i] = LoginDialogue[i]
    /\ RightDialogue[5] = "235"
<1>1. /\ LoginDialogue \in Seq(Replies) /\ Len(LoginDialogue) = 4
      /\ LoginDialogue[1] = "220" /\ LoginDialogue[2] = "250 AUTH"
      /\ LoginDialogue[3] = "334 Username" /\ LoginDialogue[4] = "334 Password"
  <2>2. LoginDialogue \in Seq(Replies)
    BY DEF LoginDialogue, Replies
  <2>3. /\ Len(LoginDialogue) = 4
        /\ LoginDialogue[1] = "220" /\ LoginDialogue[2] = "250 AUTH"
        /\ LoginDialogue[3] = "334 Username" /\ LoginDialogue[4] = "334 Password"
    BY DEF LoginDialogue
  <2> QED
    BY <2>2, <2>3
<1>2. /\ << "235" >> \in Seq(Replies) /\ Len(<< "235" >>) = 1
      /\ << "235" >>[1] = "235" /\ "235" \in Replies
  <2>1. "235" \in Replies
    BY DEF Replies
  <2> QED
    BY <2>1
<1> DEFINE one  == << "235" >>
           more == Append(LoginDialogue, "235")
<1> HIDE DEF one
<1>3. /\ RightDialogue \in Seq(Replies) /\ Len(RightDialogue) = 5
      /\ RightDialogue[5] = "235"
      /\ \A i \in 1 .. 4 : RightDialogue[i] = LoginDialogue[i]
  <2> DEFINE l == LoginDialogue
  <2>1. /\ l \in Seq(Replies) /\ Len(l) = 4
        /\ one \in Seq(Replies) /\ Len(one) = 1 /\ one[1] = "235"
    BY <1>1, <1>2 DEF one
  <2> HIDE DEF l
  <2>2. /\ l \o one \in Seq(Replies)
        /\ Len(l \o one) = Len(l) + Len(one)
        /\ \A i \in 1 .. Len(l) + Len(one) :
              (l \o one)[i] = IF i <= Len(l) THEN l[i] ELSE one[i - Len(l)]
    BY <2>1, ConcatProperties
  <2>3. Len(l) + Len(one) = 5
    BY <2>1
  <2>4. (l \o one)[5] = one[5 - Len(l)]
    BY <2>1, <2>2, <2>3
  <2>5. 5 - Len(l) = 1
    BY <2>1
  <2>6. \A i \in 1 .. 4 : (l \o one)[i] = l[i]
    BY <2>1, <2>2, <2>3
  <2> QED
    BY <2>1, <2>2, <2>3, <2>4, <2>5, <2>6 DEF RightDialogue, l, one
<1>4. /\ more \in Seq(Replies) /\ Len(more) = 5 /\ more[5] = "235"
      /\ \A i \in 1 .. 4 : more[i] = LoginDialogue[i]
  <2> DEFINE l == LoginDialogue
  <2>1. l \in Seq(Replies) /\ Len(l) = 4 /\ "235" \in Replies
    BY <1>1, <1>2
  <2> HIDE DEF l
  <2>2. Append(l, "235") \in Seq(Replies)
    BY <2>1, AppendProperties
  <2>3. Len(Append(l, "235")) = Len(l) + 1
    BY ZenonT(60), <2>1, AppendProperties
  <2>4. Append(l, "235")[Len(l) + 1] = "235"
    BY <2>1, AppendProperties
  <2>5. ASSUME NEW i \in 1 .. Len(l) PROVE Append(l, "235")[i] = l[i]
    BY <2>1, <2>2, <2>3
  <2>6. Len(l) + 1 = 5
    BY <2>1
  <2> QED
    BY <2>1, <2>2, <2>3, <2>4, <2>5, <2>6 DEF l
<1> HIDE DEF more
<1>5. RightDialogue = more
  <2>1. \A i \in 1 .. Len(more) : more[i] = RightDialogue[i]
    BY <1>3, <1>4
  <2> QED
    BY <1>3, <1>4, <2>1, SeqEqual
<1> QED
  BY <1>1, <1>3, <1>5 DEF more

\* A sequence begins with another if it has its elements at its places.
LEMMA PrefixByElement ==
    ASSUME NEW p \in Seq(Replies), NEW t \in Seq(Replies)
    PROVE  IsPrefix(p, t) <=> Len(p) <= Len(t) /\ \A i \in 1 .. Len(p) : t[i] = p[i]
<1>1. Len(p) \in Nat /\ Len(t) \in Nat
  OBVIOUS
<1>2. ASSUME Len(p) <= Len(t)
      PROVE  SubSeq(p, 1, Len(p)) = SubSeq(t, 1, Len(p)) <=> \A i \in 1 .. Len(p) : t[i] = p[i]
  <2>1. /\ Len(SubSeq(p, 1, Len(p))) = Len(p) /\ Len(SubSeq(t, 1, Len(p))) = Len(p)
        /\ SubSeq(p, 1, Len(p)) \in Seq(Replies) /\ SubSeq(t, 1, Len(p)) \in Seq(Replies)
        /\ \A i \in 1 .. Len(p) : SubSeq(p, 1, Len(p))[i] = p[i] /\ SubSeq(t, 1, Len(p))[i] = t[i]
    BY <1>1, <1>2
  <2>2. ASSUME \A i \in 1 .. Len(p) : t[i] = p[i]
        PROVE  SubSeq(p, 1, Len(p)) = SubSeq(t, 1, Len(p))
    BY <2>1, <2>2, SeqEqual
  <2>3. ASSUME SubSeq(p, 1, Len(p)) = SubSeq(t, 1, Len(p)), NEW i \in 1 .. Len(p)
        PROVE  t[i] = p[i]
    BY <2>1, <2>3
  <2> QED
    BY <2>2, <2>3
<1> QED
  BY <1>1, <1>2 DEF IsPrefix

\* What it takes to begin with either dialogue.
BeginsLogin(t) ==
    /\ 4 <= Len(t)
    /\ t[1] = "220" /\ t[2] = "250 AUTH" /\ t[3] = "334 Username" /\ t[4] = "334 Password"

BeginsRight(t) == BeginsLogin(t) /\ 5 <= Len(t) /\ t[5] = "235"

\* What was sent begins with a dialogue exactly when its first replies are those.
LEMMA LoginPrefixes ==
    ASSUME NEW t \in Seq(Replies)
    PROVE  /\ IsPrefix(LoginDialogue, t) <=> BeginsLogin(t)
           /\ IsPrefix(RightDialogue, t) <=> BeginsRight(t)
<1> DEFINE a == LoginDialogue
           b == RightDialogue
<1>1. /\ a \in Seq(Replies) /\ Len(a) = 4
      /\ a[1] = "220" /\ a[2] = "250 AUTH" /\ a[3] = "334 Username" /\ a[4] = "334 Password"
      /\ b \in Seq(Replies) /\ Len(b) = 5 /\ (\A i \in 1 .. 4 : b[i] = a[i]) /\ b[5] = "235"
  BY LoginReplies
<1>2. /\ IsPrefix(a, t) <=> Len(a) <= Len(t) /\ \A i \in 1 .. Len(a) : t[i] = a[i]
      /\ IsPrefix(b, t) <=> Len(b) <= Len(t) /\ \A i \in 1 .. Len(b) : t[i] = b[i]
  BY <1>1, PrefixByElement
<1> HIDE DEF a, b
<1>3. 1 .. 4 = {1, 2, 3, 4} /\ 1 .. 5 = {1, 2, 3, 4, 5} /\ Len(t) \in Nat
  OBVIOUS
<1>4. (Len(a) <= Len(t) /\ \A i \in 1 .. Len(a) : t[i] = a[i]) <=> BeginsLogin(t)
  <2>1. (\A i \in {1, 2, 3, 4} : t[i] = a[i]) <=>
           t[1] = a[1] /\ t[2] = a[2] /\ t[3] = a[3] /\ t[4] = a[4]
    OBVIOUS
  <2> QED
    BY <1>1, <1>3, <2>1 DEF BeginsLogin
<1>5. (Len(b) <= Len(t) /\ \A i \in 1 .. Len(b) : t[i] = b[i]) <=> BeginsRight(t)
  <2>1. (\A i \in {1, 2, 3, 4, 5} : t[i] = b[i]) <=>
           t[1] = b[1] /\ t[2] = b[2] /\ t[3] = b[3] /\ t[4] = b[4] /\ t[5] = b[5]
    BY Zenon
  <2>2. 1 \in 1 .. 4 /\ 2 \in 1 .. 4 /\ 3 \in 1 .. 4 /\ 4 \in 1 .. 4
    OBVIOUS
  <2>3. b[1] = "220" /\ b[2] = "250 AUTH" /\ b[3] = "334 Username" /\ b[4] = "334 Password"
    BY <1>1, <2>2
  <2>4. 5 <= Len(t) => 4 <= Len(t)
    BY <1>3
  <2>5. Len(b) = 5 /\ b[5] = "235" /\ 1 .. Len(b) = {1, 2, 3, 4, 5}
    BY <1>1, <1>3
  <2> QED
    BY <2>1, <2>3, <2>4, <2>5 DEF BeginsLogin, BeginsRight
<1> QED
  BY <1>2, <1>4, <1>5, Zenon DEF a, b

\* A reply to a request after the login changes neither whether a session was
\* asked for its name and password nor whether the pair was accepted.
LEMMA LaterReplies ==
    ASSUME NEW t \in Seq(Replies), NEW x \in {"250", "354"}
    PROVE  /\ IsPrefix(LoginDialogue, Append(t, x)) <=> IsPrefix(LoginDialogue, t)
           /\ IsPrefix(RightDialogue, Append(t, x)) <=> IsPrefix(RightDialogue, t)
<1> DEFINE u == Append(t, x)
<1>1. x \in Replies
  BY DEF Replies
<1>2. /\ u \in Seq(Replies) /\ Len(t) \in Nat /\ Len(u) = Len(t) + 1
      /\ \A i \in 1 .. Len(t) : u[i] = t[i]
      /\ u[Len(t) + 1] = x
  BY <1>1
<1> HIDE DEF u
<1>3. BeginsLogin(u) <=> BeginsLogin(t)
  <2>1. CASE 4 <= Len(t)
    <3>1. 1 \in 1 .. Len(t) /\ 2 \in 1 .. Len(t) /\ 3 \in 1 .. Len(t) /\ 4 \in 1 .. Len(t)
      BY <1>2, <2>1
    <3>2. u[1] = t[1] /\ u[2] = t[2] /\ u[3] = t[3] /\ u[4] = t[4]
      BY <1>2, <3>1
    <3>3. 4 <= Len(u)
      BY <1>2, <2>1
    <3> QED
      BY <2>1, <3>2, <3>3 DEF BeginsLogin
  <2>2. CASE Len(t) = 3
    <3>1. Len(t) + 1 = 4 /\ ~(4 <= Len(t))
      BY <2>2
    <3>2. u[4] = x /\ x # "334 Password"
      BY <1>2, <3>1
    <3> QED
      BY <3>1, <3>2 DEF BeginsLogin
  <2>3. CASE Len(t) < 3
    <3>1. ~(4 <= Len(t)) /\ ~(4 <= Len(u))
      BY <1>2, <2>3
    <3> QED
      BY <3>1 DEF BeginsLogin
  <2>4. 4 <= Len(t) \/ Len(t) = 3 \/ Len(t) < 3
    <3>1. \A n \in Nat : 4 <= n \/ n = 3 \/ n < 3
      OBVIOUS
    <3>2. Len(t) \in Nat
      BY <1>2
    <3> QED
      BY <3>1, <3>2, Zenon
  <2> QED
    BY <2>1, <2>2, <2>3, <2>4, Zenon
<1>4. BeginsRight(u) <=> BeginsRight(t)
  <2>1. CASE 5 <= Len(t)
    <3>1. 5 \in 1 .. Len(t) /\ 5 <= Len(u)
      BY <1>2, <2>1
    <3>2. u[5] = t[5]
      BY <1>2, <3>1
    <3> QED
      BY <1>3, <2>1, <3>1, <3>2 DEF BeginsRight
  <2>2. CASE Len(t) = 4
    <3>1. Len(t) + 1 = 5 /\ ~(5 <= Len(t))
      BY <2>2
    <3>2. u[5] = x /\ x # "235"
      BY <1>2, <3>1
    <3> QED
      BY <3>1, <3>2 DEF BeginsRight
  <2>3. CASE Len(t) < 4
    <3>1. ~(5 <= Len(t)) /\ ~(5 <= Len(u))
      BY <1>2, <2>3
    <3> QED
      BY <3>1 DEF BeginsRight
  <2>4. 5 <= Len(t) \/ Len(t) = 4 \/ Len(t) < 4
    <3>1. \A n \in Nat : 5 <= n \/ n = 4 \/ n < 4
      OBVIOUS
    <3>2. Len(t) \in Nat
      BY <1>2
    <3> QED
      BY <3>1, <3>2, Zenon
  <2> QED
    BY <2>1, <2>2, <2>3, <2>4, Zenon
<1>5. /\ IsPrefix(LoginDialogue, u) <=> BeginsLogin(u)
      /\ IsPrefix(RightDialogue, u) <=> BeginsRight(u)
  BY <1>2, LoginPrefixes
<1> QED
  BY <1>3, <1>4, <1>5, LoginPrefixes, Zenon DEF u

\* What a session was told of its login.
LoginTold(s) ==
    m_step[s] \in PastLogin /\ IsPrefix(LoginDialogue, replies[s])
        => (IsPrefix(RightDialogue, replies[s])
              <=> IsPasswordRight(m_strUserAddr[s], m_strPassword[s]))

\* What a step of one session may do to what it was told: nothing, or move on
\* before the login is over, or check the login, or answer a later request.
LEMMA LoginSteps ==
    ASSUME TypeOK, Talk, NEW s \in Sessions,
           Accept(s) \/ Disconnect(s) \/ \E chunk \in Chunks : OnRecive(s, chunk),
           LoginTold(s)
    PROVE  LoginTold(s)'
<1>0. replies \in [Sessions -> Seq(Replies)] /\ m_step \in [Sessions -> Steps]
  BY DEF TypeOK
<1>1. CASE Accept(s)
  BY <1>0, <1>1 DEF Accept, LoginTold, PastLogin
<1>2. CASE Disconnect(s)
  BY <1>2 DEF Disconnect, login, LoginTold, IsPasswordRight
<1>3. ASSUME NEW chunk \in Chunks, OnRecive(s, chunk) PROVE LoginTold(s)'
  <2>a. ASSUME NEW step \in {"SMTP_RECV_HELO_FIRST", "SMTP_RECV_AUTH_LOGIN_REQ",
                             "SMTP_RECV_PASS_WORD_REQ"},
               m_step[s] = step, Accepted(s, m_step[s])
        PROVE  LoginTold(s)'
    BY <1>0, <2>a DEF Accepted, NextStep, LoginTold, PastLogin
  <2>b. ASSUME NEW step \in {"SMTP_RECV_MAIL_FROM_REQ", "SMTP_RECV_RCPT_TO_REQ",
                             "SMTP_RECV_DATA_REQ"},
               m_step[s] = step, Accepted(s, m_step[s]), UNCHANGED login
        PROVE  LoginTold(s)'
    <3>1. GetNextStepCmd(step) \in {"250", "354"}
      BY DEF GetNextStepCmd
    <3>2. replies'[s] = Append(replies[s], GetNextStepCmd(step))
      BY <1>0, <2>b, <3>1 DEF Accepted, Send
    <3>3. /\ IsPrefix(LoginDialogue, replies'[s]) <=> IsPrefix(LoginDialogue, replies[s])
          /\ IsPrefix(RightDialogue, replies'[s]) <=> IsPrefix(RightDialogue, replies[s])
      BY <1>0, <3>1, <3>2, LaterReplies
    <3>4. m_step[s] \in PastLogin /\ m_strUserAddr' = m_strUserAddr
          /\ m_strPassword' = m_strPassword
      BY <2>b DEF PastLogin, login
    <3> QED
      BY <3>3, <3>4 DEF LoginTold, IsPasswordRight
  <2>1. CASE OnEhloReq(s, chunk)
    BY <2>1, <2>a DEF OnEhloReq, Reading
  <2>2. CASE OnAuthLoginReq(s, chunk)
    <3>1. m_step[s] = "SMTP_RECV_AUTH_LOGIN_REQ"
      BY <2>2 DEF OnAuthLoginReq, Reading
    <3>2. CASE Accepted(s, m_step[s])
      BY <2>a, <3>1, <3>2
    <3>3. CASE Refused(s, "NOT Support", "SMTP_END")
      BY <1>0, <3>3 DEF Refused, LoginTold, PastLogin
    <3>4. CASE Refused(s, "235", "SMTP_RECV_MAIL_FROM_REQ")
      <4>1. replies[s] = << "220", "250 AUTH" >>
        <5>1. Dialogues["SMTP_RECV_AUTH_LOGIN_REQ"] = {<< "220", "250 AUTH" >>}
          BY DEF Dialogues
        <5> QED
          BY <3>1, <5>1 DEF Talk
      <4>2. "235" \in Replies /\ replies'[s] = Append(replies[s], "235")
        BY <1>0, <3>4 DEF Refused, Send, Replies
      <4>3. Len(replies[s]) = 2 /\ replies[s] \in Seq(Replies)
        BY <1>0, <4>1
      <4>4. Len(replies'[s]) = 3 /\ replies'[s] \in Seq(Replies)
        BY <4>2, <4>3, AppendProperties
      <4>5. ~IsPrefix(LoginDialogue, replies'[s])
        <5>1. ~BeginsLogin(replies'[s])
          BY <4>4 DEF BeginsLogin
        <5> QED
          BY <4>4, <5>1, LoginPrefixes
      <4> QED
        BY <4>5 DEF LoginTold
    <3> QED
      BY <2>2, <3>2, <3>3, <3>4 DEF OnAuthLoginReq
  <2>3. CASE OnPasswordReq(s, chunk)
    BY <2>3, <2>a DEF OnPasswordReq, Reading
  <2>4. CASE OnNamePassVerifyReq(s, chunk)
    <3> DEFINE addr     == CreateUserAddrFromNameAndDomain(m_strUserName[s], Domain)
               password == Base64Decode(chunk)
    <3>1. /\ replies[s] = LoginDialogue
          /\ m_strUserAddr'[s] = addr /\ m_strPassword'[s] = password
      <4>1. m_step[s] = "SMTP_NAME_PASS_VERIFY"
        BY <2>4 DEF OnNamePassVerifyReq, Reading
      <4>2. replies[s] = LoginDialogue
        <5>1. Dialogues["SMTP_NAME_PASS_VERIFY"] = {LoginDialogue}
          BY DEF Dialogues
        <5> QED
          BY <4>1, <5>1 DEF Talk
      <4> QED
        BY <2>4, <4>2 DEF OnNamePassVerifyReq, TypeOK
    <3>2. CASE IsPasswordRight(addr, password) /\ Accepted(s, m_step[s])
      <4>1. m_step[s] = "SMTP_NAME_PASS_VERIFY"
        BY <2>4 DEF OnNamePassVerifyReq, Reading
      <4>2. GetNextStepCmd("SMTP_NAME_PASS_VERIFY") = "235"
        BY DEF GetNextStepCmd
      <4>3. replies'[s] = Append(LoginDialogue, "235")
        BY <1>0, <3>1, <3>2, <4>1, <4>2 DEF Accepted, Send
      <4>4. replies'[s] = RightDialogue
        BY <4>3, LoginReplies
      <4>5. IsPrefix(RightDialogue, replies'[s])
        <5>1. RightDialogue \in Seq(Replies)
          BY LoginReplies
        <5> QED
          BY <4>4, <5>1, PrefixByElement
      <4>6. IsPasswordRight(m_strUserAddr'[s], m_strPassword'[s])
        BY <3>1, <3>2
      <4> QED
        BY <4>5, <4>6 DEF LoginTold, IsPasswordRight
    <3>3. CASE ~IsPasswordRight(addr, password) /\ Accepted(s, "SMTP_END")
      <4>1. GetNextStepCmd("SMTP_END") = ""
        BY DEF GetNextStepCmd
      <4>2. replies'[s] = LoginDialogue
        BY <1>0, <3>1, <3>3, <4>1 DEF Accepted, Send
      <4>3. ~IsPrefix(RightDialogue, replies'[s])
        <5>1. LoginDialogue \in Seq(Replies) /\ Len(LoginDialogue) = 4
          BY LoginReplies
        <5>2. IsPrefix(RightDialogue, LoginDialogue) => 5 <= Len(LoginDialogue)
          BY <5>1, LoginPrefixes DEF BeginsRight
        <5> QED
          BY <4>2, <5>1, <5>2
      <4>4. ~IsPasswordRight(m_strUserAddr'[s], m_strPassword'[s])
        BY <3>1, <3>3
      <4> QED
        BY <4>3, <4>4 DEF LoginTold, IsPasswordRight
    <3> QED
      BY <2>4, <3>2, <3>3 DEF OnNamePassVerifyReq
  <2>5. CASE OnMailFromReq(s, chunk)
    BY <2>5, <2>b DEF OnMailFromReq, Reading
  <2>6. CASE OnRcptToReq(s, chunk)
    BY <2>6, <2>b DEF OnRcptToReq, Reading
  <2>7. CASE OnDataReq(s, chunk)
    BY <2>7, <2>b DEF OnDataReq, Reading
  <2>8. CASE OnData(s, chunk) \/ OnClientReqAtEnd(s)
    <3>1. UNCHANGED << m_step, replies, m_strUserAddr, m_strPassword >>
      BY <2>8 DEF OnData, OnClientReqAtEnd, login
    <3> QED
      BY <3>1 DEF LoginTold, IsPasswordRight
  <2> QED
    BY <1>3, <2>1, <2>2, <2>3, <2>4, <2>5, <2>6, <2>7, <2>8 DEF OnRecive
<1> QED
  BY <1>1, <1>2, <1>3

\* A step of one session tells another nothing and changes nothing of its login.
LEMMA OthersLogin ==
    ASSUME TypeOK, NEW s \in Sessions,
           Accept(s) \/ Disconnect(s) \/ \E chunk \in Chunks : OnRecive(s, chunk),
           NEW x \in Sessions \ {s}
    PROVE  /\ m_step'[x] = m_step[x] /\ replies'[x] = replies[x]
           /\ m_strUserAddr'[x] = m_strUserAddr[x] /\ m_strPassword'[x] = m_strPassword[x]
<1> USE DEF TypeOK, Send, Accepted, Refused, login
<1>1. CASE Accept(s) \/ Disconnect(s)
  BY <1>1 DEF Accept, Disconnect
<1>2. ASSUME NEW chunk \in Chunks,
             \/ OnEhloReq(s, chunk) \/ OnAuthLoginReq(s, chunk) \/ OnMailFromReq(s, chunk)
             \/ OnRcptToReq(s, chunk) \/ OnDataReq(s, chunk)
      PROVE  /\ m_step'[x] = m_step[x] /\ replies'[x] = replies[x]
             /\ m_strUserAddr'[x] = m_strUserAddr[x] /\ m_strPassword'[x] = m_strPassword[x]
  BY <1>2 DEF OnEhloReq, OnAuthLoginReq, OnMailFromReq, OnRcptToReq, OnDataReq
<1>3. ASSUME NEW chunk \in Chunks,
             \/ OnPasswordReq(s, chunk) \/ OnNamePassVerifyReq(s, chunk)
             \/ OnData(s, chunk) \/ OnClientReqAtEnd(s)
      PROVE  /\ m_step'[x] = m_step[x] /\ replies'[x] = replies[x]
             /\ m_strUserAddr'[x] = m_strUserAddr[x] /\ m_strPassword'[x] = m_strPassword[x]
  BY <1>3 DEF OnPasswordReq, OnNamePassVerifyReq, OnData, OnClientReqAtEnd
<1> QED
  BY <1>1, <1>2, <1>3 DEF OnRecive

\* What the sessions were told of their logins.
Told == \A s \in Sessions : LoginTold(s)

\* Every callback keeps it.
LEMMA ToldKept == TypeOK /\ Talk /\ Told /\ [Next]_vars => Told'
<1> SUFFICES ASSUME TypeOK, Talk, Told, [Next]_vars, NEW x \in Sessions
             PROVE  LoginTold(x)'
  BY DEF Told
<1>1. CASE UNCHANGED vars
  BY <1>1 DEF Told, vars, login, LoginTold, IsPasswordRight
<1>2. ASSUME NEW s \in Sessions,
             Accept(s) \/ Disconnect(s) \/ \E chunk \in Chunks : OnRecive(s, chunk)
      PROVE  LoginTold(x)'
  <2>1. CASE x = s
    BY <1>2, <2>1, LoginSteps DEF Told
  <2>2. CASE x # s
    BY <1>2, <2>2, OthersLogin DEF Told, LoginTold, IsPasswordRight
  <2> QED
    BY <2>1, <2>2
<1> QED
  BY <1>1, <1>2 DEF Next

\* It is what is claimed of logins.
LEMMA ToldIsAnswered == Told => LoginAnswered
BY DEF Told, LoginTold, LoginAnswered, PastLogin, RightDialogue

\* Whatever name and password were sent, a session past the login was told 235
\* exactly if they are a user's.
THEOREM LoginCorrect == Spec => []LoginAnswered
<1>1. Init => Told
  BY DEF Init, Told, LoginTold, PastLogin
<1> QED
  BY <1>1, ToldKept, ToldIsAnswered, TypeCorrect, TalkInitially, TalkIsInductive, PTL DEF Spec

=============================================================================
