---------------------- MODULE Pop3ServerHandler_proofs ----------------------
(* Proofs about the POP3 sessions.                                         *)
EXTENDS Pop3ServerHandler, SequenceTheorems, TLAPS

AnswerType == [kind : AnswerKinds, mails : Seq(Nat)]

LastType == [req : Requests \cup {NoRequest}, ret : BOOLEAN, answer : AnswerType]

----------------------------------------------------------------------------
\* The empty text is a text.
LEMMA EmptyTextType == EmptyText \in Text
<1>1. << >> \in Seq(Words)
  BY EmptySeq
<1> QED
  BY <1>1, ProtoUtilAssumption DEF EmptyText, Text

\* The address of a login name is a text, for a domain of any length.
LEMMA UserAddrType ==
    ASSUME NEW name \in Text
    PROVE  CreateUserAddrFromNameAndDomain(name, Domain) \in Text
<1>1. EmptyText \in Text
  BY EmptyTextType
<1>2. name.host \in Seq(Words)
  BY DEF Text
<1>3. CASE name.host # << >>
  BY <1>3 DEF Text, TrimName, CreateUserAddrFromNameAndDomain
<1>4. CASE name.host = << >> /\ Len(Domain) > 1
  <2>1. Tail(Domain) \in Seq(Words)
    <3>1. Domain \in Seq(Words)
      BY ProtoUtilAssumption
    <3>2. Domain # << >>
      BY <1>4
    <3> QED
      BY <3>1, <3>2, HeadTailProperties
  <2>2. [name EXCEPT !.host = Tail(Domain)] \in Text
    BY <2>1 DEF Text
  <2> QED
    BY <1>4, <2>2 DEF CreateUserAddrFromNameAndDomain
<1>5. CASE name.host = << >> /\ ~(Len(Domain) > 1)
  BY <1>1, <1>5 DEF CreateUserAddrFromNameAndDomain
<1> QED
  BY <1>3, <1>4, <1>5

\* An answer of a kind and a sequence of mail numbers is an answer.
LEMMA AnswerIsTyped ==
    ASSUME NEW kind \in AnswerKinds, NEW mails \in Seq(Nat)
    PROVE  Answer(kind, mails) \in AnswerType
BY DEF Answer, AnswerType

\* The reply of a step shows no mail.
LEMMA StepAnswerType ==
    ASSUME NEW step
    PROVE  /\ GetNextStepCmd(step) \in AnswerType
           /\ GetNextStepCmd(step).mails = << >>
           /\ GetNextStepCmd(step).kind \notin {"mail", "PASS list", "LIST list"}
<1>1. << >> \in Seq(Nat)
  OBVIOUS
<1>2. CASE step = "ON_CONNECT"
  BY <1>1, <1>2 DEF GetNextStepCmd, Answer, AnswerType, AnswerKinds
<1>3. CASE step = "SEND_USER_NAME_OK"
  BY <1>1, <1>3 DEF GetNextStepCmd, Answer, AnswerType, AnswerKinds
<1>4. CASE step = "SEND_PASS_WORD_OK"
  BY <1>1, <1>4 DEF GetNextStepCmd, Answer, AnswerType, AnswerKinds
<1>5. CASE step \notin {"ON_CONNECT", "SEND_USER_NAME_OK", "SEND_PASS_WORD_OK"}
  BY <1>1, <1>5 DEF GetNextStepCmd, Nothing, Answer, AnswerType, AnswerKinds
<1> QED
  BY <1>2, <1>3, <1>4, <1>5

\* A listing is a sequence of row numbers.
LEMMA ListingType ==
    ASSUME NEW S, NEW table \in Seq(S), NEW user, NEW list \in Listings(table, user)
    PROVE  list \in Seq(Nat) /\ IsListing(list, table, user)
<1>1. PICK k \in 0 .. Len(table) : list \in [1 .. k -> DOMAIN table]
  BY DEF Listings
<1>2. DOMAIN table \subseteq Nat
  OBVIOUS
<1>3. list \in Seq(Nat)
  BY <1>1, <1>2
<1> QED
  BY <1>3 DEF Listings

\* What a session is told keeps the histories typed.
LEMMA ReturnType ==
    ASSUME TypeOK, NEW r \in Readers, NEW req \in Requests, NEW ret \in BOOLEAN,
           NEW answer \in AnswerType, Return(r, req, ret, answer)
    PROVE  /\ last' \in [Readers -> LastType]
           /\ listed' \in [Readers -> Seq(Nat)]
<1>1. last \in [Readers -> LastType]
  BY DEF TypeOK, LastType, AnswerType
<1>2. [req |-> req, ret |-> ret, answer |-> answer] \in LastType
  BY DEF LastType
<1>3. answer.mails \in Seq(Nat)
  BY DEF AnswerType
<1>4. listed \in [Readers -> Seq(Nat)]
  BY DEF TypeOK
<1>5. last' \in [Readers -> LastType]
  BY <1>1, <1>2 DEF Return
<1>6. listed' \in [Readers -> Seq(Nat)]
  BY <1>3, <1>4 DEF Return
<1> QED
  BY <1>5, <1>6

\* The answer a listing is sent with.
LEMMA ReadMailboxType ==
    ASSUME TypeOK, NEW r \in Readers, NEW req \in Requests,
           NEW kind \in {"PASS list", "LIST list"}, ReadMailbox(r, req, kind)
    PROVE  \E list \in Seq(Nat) :
              /\ IsListing(list, T_EMAIL_SEND, m_strUserAddr[r])
              /\ m_emailArray' = [m_emailArray EXCEPT ![r] = list]
              /\ Return(r, req, TRUE, Answer(kind, list))
              /\ Answer(kind, list) \in AnswerType
<1>1. PICK list \in Listings(T_EMAIL_SEND, m_strUserAddr[r]) :
         /\ m_emailArray' = [m_emailArray EXCEPT ![r] = list]
         /\ Return(r, req, TRUE, Answer(kind, list))
  BY DEF ReadMailbox, GetRecvMailInfo
<1>2. T_EMAIL_SEND \in Seq(NewMails)
  BY DEF TypeOK
<1>3. list \in Seq(Nat) /\ IsListing(list, T_EMAIL_SEND, m_strUserAddr[r])
  BY <1>2, ListingType
<1>4. kind \in AnswerKinds
  BY DEF AnswerKinds
<1>5. Answer(kind, list) \in AnswerType
  BY <1>3, <1>4, AnswerIsTyped
<1> QED
  BY <1>1, <1>3, <1>5

\* The mail RETR picks is one of the array, whatever number it is given.
LEMMA RetrType ==
    ASSUME TypeOK, NEW r \in Readers, m_emailArray[r] # << >>
    PROVE  /\ Len(m_emailArray[r]) \in DOMAIN m_emailArray[r]
           /\ Last(m_emailArray[r]) = m_emailArray[r][Len(m_emailArray[r])]
           /\ << Last(m_emailArray[r]) >> \in Seq(Nat)
           /\ Answer("mail", << Last(m_emailArray[r]) >>) \in AnswerType
<1>1. m_emailArray[r] \in Seq(Nat)
  BY DEF TypeOK
<1>2. Len(m_emailArray[r]) \in DOMAIN m_emailArray[r]
  BY <1>1
<1>3. Last(m_emailArray[r]) \in Nat
  BY <1>1, <1>2 DEF Last
<1>4. "mail" \in AnswerKinds
  BY DEF AnswerKinds
<1>5. Answer("mail", << Last(m_emailArray[r]) >>) \in AnswerType
  <2>1. << Last(m_emailArray[r]) >> \in Seq(Nat)
    BY <1>3
  <2> QED
    BY <1>4, <2>1, AnswerIsTyped
<1> QED
  BY <1>2, <1>3, <1>5 DEF Last

\* A request that shows no mail and lists none.
Shows(r, req, ret, answer) ==
    /\ Return(r, req, ret, answer)
    /\ answer \in AnswerType
    /\ answer.kind \notin {"PASS list", "LIST list"}
    /\ answer.mails = << >> /\ answer.kind # "mail"

\* What a request may do to what its session holds and was shown: nothing, name
\* the user, list the mailbox or show the last mail of the array.
ShowsNothing(r, req) ==
    /\ \E ret \in BOOLEAN, answer \in AnswerType : Shows(r, req, ret, answer)
    /\ UNCHANGED << m_strUserAddr, m_emailArray >>

NamesUser(r, req) ==
    /\ m_step[r] = "ON_CONNECT"
    /\ \E answer \in AnswerType : Shows(r, req, TRUE, answer)
    /\ \E addr \in Text : m_strUserAddr' = [m_strUserAddr EXCEPT ![r] = addr]
    /\ UNCHANGED m_emailArray

ListsMailbox(r, req) ==
    /\ \E kind \in {"PASS list", "LIST list"} : ReadMailbox(r, req, kind)
    /\ m_step'[r] # "ON_CONNECT"
    /\ UNCHANGED m_strUserAddr

ShowsLast(r, req) ==
    /\ m_emailArray[r] # << >> /\ req.number \in DOMAIN m_emailArray[r]
    /\ Return(r, req, TRUE, Answer("mail", << Last(m_emailArray[r]) >>))
    /\ UNCHANGED << m_strUserAddr, m_emailArray >>

Effects(r, req) ==
    \/ ShowsNothing(r, req) \/ NamesUser(r, req)
    \/ ListsMailbox(r, req) \/ ShowsLast(r, req)

\* What any request leaves alone, and the steps it may lead to.
Frame(r) ==
    /\ UNCHANGED << conn, T_EMAIL_SEND, running >>
    /\ m_step' \in [Readers -> {"ON_CONNECT", "SEND_USER_NAME_OK", "SEND_PASS_WORD_OK"}]
    /\ m_step[r] # "ON_CONNECT" => m_step'[r] # "ON_CONNECT"
    /\ \A q \in Readers \ {r} : m_step'[q] = m_step[q]
    /\ m_strPassword' \in [Readers -> Text]
    /\ m_bFinished' \in [Readers -> BOOLEAN]
    /\ conn[r] = "open"

\* Every row of the step table, and a request without a row, has one of these
\* effects.
LEMMA OnReciveHas ==
    ASSUME TypeOK, NEW r \in Readers, NEW req \in Requests, OnRecive(r, req)
    PROVE  Effects(r, req) /\ Frame(r)
<1>0. /\ req.arg \in Text /\ m_step[r] \in {"ON_CONNECT", "SEND_USER_NAME_OK", "SEND_PASS_WORD_OK"}
      /\ m_step \in [Readers -> {"ON_CONNECT", "SEND_USER_NAME_OK", "SEND_PASS_WORD_OK"}]
      /\ m_strPassword \in [Readers -> Text] /\ m_bFinished \in [Readers -> BOOLEAN]
  BY Pop3Assumption DEF TypeOK, Request
<1>a. \A kind \in AnswerKinds : Answer(kind, << >>) \in AnswerType
  <2>1. << >> \in Seq(Nat)
    OBVIOUS
  <2> QED
    BY <2>1, AnswerIsTyped
<1>b. \A kind \in AnswerKinds \ {"PASS list", "LIST list", "mail"}, ret \in BOOLEAN :
         Return(r, req, ret, Answer(kind, << >>)) => Shows(r, req, ret, Answer(kind, << >>))
  BY <1>a DEF Shows, Answer
<1>c. \A step : \A ret \in BOOLEAN :
         Return(r, req, ret, GetNextStepCmd(step)) => Shows(r, req, ret, GetNextStepCmd(step))
  BY StepAnswerType DEF Shows
<1>d. {"-ERR", "+OK 0", "OK tiny_email", ""} \subseteq AnswerKinds \ {"PASS list", "LIST list", "mail"}
  BY DEF AnswerKinds
<1>1. CASE OnUser(r, req)
  <2>1. CreateUserAddrFromNameAndDomain(req.arg, Domain) \in Text
    BY <1>0, UserAddrType
  <2>2. Shows(r, req, TRUE, GetNextStepCmd("SEND_USER_NAME_OK"))
    BY <1>1, <1>c DEF OnUser
  <2>3. Effects(r, req)
    BY <1>1, <2>1, <2>2, StepAnswerType DEF OnUser, Reading, NamesUser, Effects
  <2>4. Frame(r)
    BY <1>0, <1>1 DEF OnUser, Reading, Frame
  <2> QED
    BY <2>3, <2>4
<1>2. CASE OnCapa(r, req)
  <2>1. Shows(r, req, TRUE, Answer("-ERR", << >>))
    BY <1>2, <1>b, <1>d DEF OnCapa
  <2>2. Effects(r, req)
    BY <1>2, <2>1, <1>a, <1>d DEF OnCapa, ShowsNothing, Effects
  <2>3. Frame(r)
    BY <1>0, <1>2 DEF OnCapa, Reading, Frame
  <2> QED
    BY <2>2, <2>3
<1>3. CASE OnPassword(r, req)
  <2>1. ASSUME ReadMailbox(r, req, "PASS list")
        PROVE  Effects(r, req)
    <3>1. m_step'[r] # "ON_CONNECT"
      BY <1>0, <1>3 DEF OnPassword
    <3>2. ListsMailbox(r, req)
      BY <1>3, <2>1, <3>1 DEF OnPassword, ListsMailbox
    <3> QED
      BY <3>2 DEF Effects
  <2>2. ASSUME Return(r, req, TRUE, GetNextStepCmd("SEND_PASS_WORD_OK")),
               UNCHANGED m_emailArray
        PROVE  Effects(r, req)
    <3>1. Shows(r, req, TRUE, GetNextStepCmd("SEND_PASS_WORD_OK"))
      BY <2>2, <1>c
    <3> QED
      BY <1>3, <2>2, <3>1, StepAnswerType DEF OnPassword, ShowsNothing, Effects
  <2>3. Effects(r, req)
    BY <1>3, <2>1, <2>2 DEF OnPassword
  <2>4. Frame(r)
    BY <1>0, <1>3 DEF OnPassword, Reading, Frame
  <2> QED
    BY <2>3, <2>4
<1>4. CASE OnState(r, req)
  <2>1. Shows(r, req, TRUE, Answer("+OK 0", << >>))
    BY <1>4, <1>b, <1>d DEF OnState
  <2>2. Effects(r, req)
    BY <1>4, <2>1, <1>a, <1>d DEF OnState, ShowsNothing, Effects
  <2>3. Frame(r)
    BY <1>0, <1>4 DEF OnState, Reading, Frame
  <2> QED
    BY <2>2, <2>3
<1>5. CASE OnRetr(r, req)
  <2>1. ASSUME req.number \in DOMAIN m_emailArray[r],
               Return(r, req, TRUE, Answer("mail", << Last(m_emailArray[r]) >>))
        PROVE  Effects(r, req)
    <3>1. m_emailArray[r] # << >>
      <4>1. m_emailArray[r] \in Seq(Nat)
        BY DEF TypeOK
      <4> QED
        BY <2>1, <4>1
    <3> QED
      BY <1>5, <2>1, <3>1 DEF OnRetr, ShowsLast, Effects
  <2>2. ASSUME Return(r, req, TRUE, GetNextStepCmd(m_step[r]))
        PROVE  Effects(r, req)
    <3>1. Shows(r, req, TRUE, GetNextStepCmd(m_step[r]))
      BY <2>2, <1>c
    <3> QED
      BY <1>5, <3>1, StepAnswerType DEF OnRetr, ShowsNothing, Effects
  <2>3. Effects(r, req)
    BY <1>5, <2>1, <2>2 DEF OnRetr
  <2>4. Frame(r)
    BY <1>0, <1>5 DEF OnRetr, Reading, Frame
  <2> QED
    BY <2>3, <2>4
<1>6. CASE OnList(r, req)
  <2>1. Effects(r, req)
    BY <1>6 DEF OnList, Reading, ListsMailbox, Effects
  <2>2. Frame(r)
    BY <1>0, <1>6 DEF OnList, Reading, Frame
  <2> QED
    BY <2>1, <2>2
<1>7. CASE OnQuit(r, req)
  <2>1. Shows(r, req, TRUE, Answer("OK tiny_email", << >>))
    BY <1>7, <1>b, <1>d DEF OnQuit
  <2>2. Effects(r, req)
    BY <1>7, <2>1, <1>a, <1>d DEF OnQuit, ShowsNothing, Effects
  <2>3. Frame(r)
    BY <1>0, <1>7 DEF OnQuit, Reading, Frame
  <2> QED
    BY <2>2, <2>3
<1>8. CASE Unanswered(r, req)
  <2>1. Shows(r, req, FALSE, Nothing)
    BY <1>8, <1>b, <1>d DEF Unanswered, Nothing
  <2>2. Effects(r, req)
    BY <1>8, <2>1, <1>a, <1>d DEF Unanswered, Nothing, ShowsNothing, Effects
  <2>3. Frame(r)
    BY <1>0, <1>8 DEF Unanswered, Reading, Frame
  <2> QED
    BY <2>2, <2>3
<1> QED
  BY <1>1, <1>2, <1>3, <1>4, <1>5, <1>6, <1>7, <1>8 DEF OnRecive

----------------------------------------------------------------------------
\* What a session holds and was shown is typed after any of the four effects.
LEMMA EffectsType ==
    ASSUME TypeOK, NEW r \in Readers, NEW req \in Requests, Effects(r, req)
    PROVE  /\ m_strUserAddr' \in [Readers -> Text]
           /\ m_emailArray' \in [Readers -> Seq(Nat)]
           /\ last' \in [Readers -> LastType]
           /\ listed' \in [Readers -> Seq(Nat)]
<1>0. m_strUserAddr \in [Readers -> Text] /\ m_emailArray \in [Readers -> Seq(Nat)]
  BY DEF TypeOK
<1>1. CASE ShowsNothing(r, req)
  <2>1. PICK ret \in BOOLEAN, answer \in AnswerType : Shows(r, req, ret, answer)
    BY <1>1 DEF ShowsNothing
  <2>2. Return(r, req, ret, answer)
    BY <2>1 DEF Shows
  <2> QED
    BY <1>0, <1>1, <2>2, ReturnType DEF ShowsNothing
<1>2. CASE NamesUser(r, req)
  <2>1. PICK answer \in AnswerType : Shows(r, req, TRUE, answer)
    BY <1>2 DEF NamesUser
  <2>2. Return(r, req, TRUE, answer)
    BY <2>1 DEF Shows
  <2>3. m_strUserAddr' \in [Readers -> Text]
    BY <1>0, <1>2 DEF NamesUser
  <2> QED
    BY <1>0, <1>2, <2>2, <2>3, ReturnType DEF NamesUser
<1>3. CASE ListsMailbox(r, req)
  <2>1. PICK kind \in {"PASS list", "LIST list"} : ReadMailbox(r, req, kind)
    BY <1>3 DEF ListsMailbox
  <2>2. PICK list \in Seq(Nat) :
           /\ m_emailArray' = [m_emailArray EXCEPT ![r] = list]
           /\ Return(r, req, TRUE, Answer(kind, list))
           /\ Answer(kind, list) \in AnswerType
    BY <2>1, ReadMailboxType
  <2>3. m_emailArray' \in [Readers -> Seq(Nat)]
    BY <1>0, <2>2
  <2> QED
    BY <1>0, <1>3, <2>2, <2>3, ReturnType DEF ListsMailbox
<1>4. CASE ShowsLast(r, req)
  <2>1. Answer("mail", << Last(m_emailArray[r]) >>) \in AnswerType
    BY <1>4, RetrType DEF ShowsLast
  <2> QED
    BY <1>0, <1>4, <2>1, ReturnType DEF ShowsLast
<1> QED
  BY <1>1, <1>2, <1>3, <1>4 DEF Effects

\* No session has asked for anything at the start.
LEMMA TypeOKStarts == Init => TypeOK
<1> SUFFICES ASSUME Init PROVE TypeOK
  OBVIOUS
<1>1. Nothing \in AnswerType
  <2>1. << >> \in Seq(Nat) /\ "" \in AnswerKinds
    BY DEF AnswerKinds
  <2> QED
    BY <2>1, AnswerIsTyped DEF Nothing
<1>2. EmptyText \in Text
  BY EmptyTextType
<1>3. [req |-> NoRequest, ret |-> TRUE, answer |-> Nothing] \in LastType
  BY <1>1 DEF LastType
<1>4. last \in [Readers -> LastType]
  BY <1>3 DEF Init, SessionInit
<1> QED
  BY <1>2, <1>4 DEF Init, SessionInit, TypeOK, LastType, AnswerType

\* Every callback, and every mail that is saved, keeps the sessions typed.
LEMMA TypeOKKept == TypeOK /\ [Next]_vars => TypeOK'
<1> SUFFICES ASSUME TypeOK, [Next]_vars PROVE TypeOK'
  OBVIOUS
<1>1. ASSUME NEW r \in Readers, Accept(r) PROVE TypeOK'
  <2>1. GetNextStepCmd("ON_CONNECT") \in AnswerType
    BY StepAnswerType
  <2>2. last \in [Readers -> LastType]
    BY DEF TypeOK, LastType, AnswerType
  <2>3. last' \in [Readers -> LastType]
    BY <1>1, <2>1, <2>2 DEF Accept, LastType
  <2> QED
    BY <1>1, <2>3 DEF Accept, TypeOK, LastType, AnswerType
<1>2. ASSUME NEW r \in Readers, Disconnect(r) PROVE TypeOK'
  BY <1>2 DEF Disconnect, TypeOK
<1>3. ASSUME NEW r \in Readers, NEW req \in Requests, OnRecive(r, req) PROVE TypeOK'
  <2>1. Effects(r, req) /\ Frame(r)
    BY <1>3, OnReciveHas
  <2>2. /\ m_strUserAddr' \in [Readers -> Text]
        /\ m_emailArray' \in [Readers -> Seq(Nat)]
        /\ last' \in [Readers -> LastType]
        /\ listed' \in [Readers -> Seq(Nat)]
    BY <2>1, EffectsType
  <2> QED
    BY <2>1, <2>2 DEF Frame, TypeOK, LastType, AnswerType
<1>4. CASE MailSaved
  BY <1>4 DEF MailSaved, session, TypeOK
<1>5. CASE UNCHANGED vars
  BY <1>5 DEF vars, session, TypeOK
<1> QED
  BY <1>1, <1>2, <1>3, <1>4, <1>5 DEF Next, SessionNext

\* Sessions are typed in every reachable state, for any requests, users and mails.
THEOREM TypeCorrect == Spec => []TypeOK
BY TypeOKStarts, TypeOKKept, PTL DEF Spec

----------------------------------------------------------------------------
\* What ties the array of a session to the mail table, to the listing its client
\* has and to the last answer.  A session that has not named its user holds
\* nothing: without that, naming the user would make a listing of another one.
HoldsOwnMails(r) ==
    /\ IsListing(m_emailArray[r], T_EMAIL_SEND, m_strUserAddr[r])
    /\ m_emailArray[r] = listed[r]
    /\ conn[r] = "none" \/ m_step[r] = "ON_CONNECT" => m_emailArray[r] = << >>
    /\ \A i \in DOMAIN last[r].answer.mails :
          last[r].answer.mails[i] \in Received(T_EMAIL_SEND, m_strUserAddr[r])
    /\ last[r].answer.kind = "mail" =>
          /\ last[r].req.number \in DOMAIN listed[r]
          /\ last[r].answer.mails = << Last(listed[r]) >>

\* A row that is added has a higher number than all of a listing, so what is a
\* listing of a user, or a mail of one, stays it.
LEMMA GrownTableKeepsMails ==
    ASSUME T_EMAIL_SEND \in Seq(NewMails),
           \/ T_EMAIL_SEND' = T_EMAIL_SEND
           \/ \E m \in NewMails : T_EMAIL_SEND' = Append(T_EMAIL_SEND, m),
           UNCHANGED << m_step, m_strUserAddr, m_emailArray, last, listed >>,
           NEW q \in Readers, conn'[q] = "none" => conn[q] = "none", HoldsOwnMails(q)
    PROVE  HoldsOwnMails(q)'
<1> DEFINE user == m_strUserAddr[q]
           list == m_emailArray[q]
<1>1. /\ list' = list /\ user' = user
      /\ listed' = listed /\ m_step' = m_step /\ last' = last
  OBVIOUS
<1>2. /\ DOMAIN T_EMAIL_SEND = 1 .. Len(T_EMAIL_SEND)
      /\ DOMAIN T_EMAIL_SEND' \in {1 .. Len(T_EMAIL_SEND), 1 .. (Len(T_EMAIL_SEND) + 1)}
      /\ Len(T_EMAIL_SEND) \in Nat
      /\ \A i \in DOMAIN T_EMAIL_SEND : T_EMAIL_SEND'[i] = T_EMAIL_SEND[i]
  <2>1. CASE T_EMAIL_SEND' = T_EMAIL_SEND
    BY <2>1
  <2>2. CASE \E m \in NewMails : T_EMAIL_SEND' = Append(T_EMAIL_SEND, m)
    BY <2>2
  <2> QED
    BY <2>1, <2>2
<1>3. Received(T_EMAIL_SEND, user) \subseteq Received(T_EMAIL_SEND', user)
  BY <1>2 DEF Received
<1>4. \A i \in DOMAIN list, k \in Received(T_EMAIL_SEND', user) :
         k < list[i] => k \in Received(T_EMAIL_SEND, user)
  <2> SUFFICES ASSUME NEW i \in DOMAIN list, NEW k \in Received(T_EMAIL_SEND', user),
                      k < list[i]
               PROVE  k \in Received(T_EMAIL_SEND, user)
    OBVIOUS
  <2>1. list[i] \in 1 .. Len(T_EMAIL_SEND)
    BY <1>2 DEF HoldsOwnMails, IsListing, Received
  <2> QED
    BY <1>2, <2>1 DEF Received
<1>5. IsListing(list, T_EMAIL_SEND', user)
  BY <1>3, <1>4 DEF HoldsOwnMails, IsListing
<1> QED
  BY <1>1, <1>3, <1>5 DEF HoldsOwnMails

\* So do the mails that are saved.
LEMMA SavedKeepsMails ==
    ASSUME TypeOK, MailSaved, NEW q \in Readers, HoldsOwnMails(q)
    PROVE  HoldsOwnMails(q)'
<1>1. /\ T_EMAIL_SEND \in Seq(NewMails)
      /\ \E m \in NewMails : T_EMAIL_SEND' = Append(T_EMAIL_SEND, m)
      /\ UNCHANGED << conn, m_step, m_strUserAddr, m_emailArray, last, listed >>
  BY DEF MailSaved, TypeOK, session
<1> QED
  BY <1>1, GrownTableKeepsMails

\* A request of one session leaves every other as it was.
LEMMA OthersKeepTheirs ==
    ASSUME TypeOK, NEW r \in Readers, NEW req \in Requests, Effects(r, req), Frame(r),
           NEW q \in Readers, q # r, HoldsOwnMails(q)
    PROVE  HoldsOwnMails(q)'
<1>1. T_EMAIL_SEND' = T_EMAIL_SEND /\ conn' = conn /\ m_step'[q] = m_step[q]
  BY DEF Frame
<1>2. \A ret, answer : Return(r, req, ret, answer) =>
         last'[q] = last[q] /\ listed'[q] = listed[q]
  BY DEF Return, TypeOK
<1>3. last'[q] = last[q] /\ listed'[q] = listed[q]
  BY <1>2 DEF Effects, ShowsNothing, NamesUser, ListsMailbox, ReadMailbox, ShowsLast, Shows
<1>4. m_strUserAddr'[q] = m_strUserAddr[q]
  BY DEF Effects, ShowsNothing, NamesUser, ListsMailbox, ShowsLast, TypeOK
<1>5. m_emailArray'[q] = m_emailArray[q]
  BY DEF Effects, ShowsNothing, NamesUser, ListsMailbox, ReadMailbox, ShowsLast, TypeOK
<1> QED
  BY <1>1, <1>3, <1>4, <1>5 DEF HoldsOwnMails

\* What a session is told when no mail is shown.
LEMMA ShowsKeeps ==
    ASSUME TypeOK, NEW r \in Readers, NEW req \in Requests, NEW ret, NEW answer,
           Shows(r, req, ret, answer)
    PROVE  /\ listed'[r] = listed[r]
           /\ last'[r].answer.mails = << >>
           /\ last'[r].answer.kind # "mail"
<1>1. Return(r, req, ret, answer)
  BY DEF Shows
<1>2. last'[r].answer = answer
  BY <1>1 DEF Return, TypeOK
<1>3. listed'[r] = listed[r]
  BY <1>1 DEF Return, Shows, TypeOK
<1> QED
  BY <1>2, <1>3 DEF Shows

\* A request of a session keeps what it holds its user's.
LEMMA RequestKeepsOwn ==
    ASSUME TypeOK, NEW r \in Readers, NEW req \in Requests, Effects(r, req), Frame(r),
           HoldsOwnMails(r)
    PROVE  HoldsOwnMails(r)'
<1>0. T_EMAIL_SEND' = T_EMAIL_SEND /\ conn'[r] = conn[r] /\ conn[r] = "open"
  BY DEF Frame
<1>1. CASE ShowsNothing(r, req)
  <2>1. PICK ret \in BOOLEAN, answer \in AnswerType : Shows(r, req, ret, answer)
    BY <1>1 DEF ShowsNothing
  <2>2. /\ listed'[r] = listed[r] /\ last'[r].answer.mails = << >>
        /\ last'[r].answer.kind # "mail"
    BY <2>1, ShowsKeeps
  <2>3. m_emailArray' = m_emailArray /\ m_strUserAddr' = m_strUserAddr
    BY <1>1 DEF ShowsNothing
  <2>4. m_step'[r] = "ON_CONNECT" => m_step[r] = "ON_CONNECT"
    BY DEF Frame
  <2> QED
    BY <1>0, <2>2, <2>3, <2>4 DEF HoldsOwnMails
<1>2. CASE NamesUser(r, req)
  <2>1. PICK answer \in AnswerType : Shows(r, req, TRUE, answer)
    BY <1>2 DEF NamesUser
  <2>2. /\ listed'[r] = listed[r] /\ last'[r].answer.mails = << >>
        /\ last'[r].answer.kind # "mail"
    BY <2>1, ShowsKeeps
  <2>3. m_emailArray[r] = << >> /\ m_emailArray'[r] = << >> /\ listed[r] = << >>
    BY <1>2 DEF NamesUser, HoldsOwnMails
  <2>4. IsListing(m_emailArray'[r], T_EMAIL_SEND', m_strUserAddr'[r])
    BY <2>3 DEF IsListing
  <2> QED
    BY <2>2, <2>3, <2>4 DEF HoldsOwnMails
<1>3. CASE ListsMailbox(r, req)
  <2>1. PICK kind \in {"PASS list", "LIST list"} : ReadMailbox(r, req, kind)
    BY <1>3 DEF ListsMailbox
  <2>2. PICK list \in Seq(Nat) :
           /\ IsListing(list, T_EMAIL_SEND, m_strUserAddr[r])
           /\ m_emailArray' = [m_emailArray EXCEPT ![r] = list]
           /\ Return(r, req, TRUE, Answer(kind, list))
    BY <2>1, ReadMailboxType
  <2>3. /\ m_emailArray'[r] = list /\ m_strUserAddr'[r] = m_strUserAddr[r]
        /\ m_step'[r] # "ON_CONNECT"
    BY <1>3, <2>2 DEF ListsMailbox, TypeOK
  <2>4. /\ last'[r].answer.mails = list /\ last'[r].answer.kind # "mail"
        /\ listed'[r] = list
    BY <2>2 DEF Return, Answer, TypeOK
  <2>5. \A i \in DOMAIN list : list[i] \in Received(T_EMAIL_SEND, m_strUserAddr[r])
    BY <2>2 DEF IsListing
  <2> QED
    BY <1>0, <2>2, <2>3, <2>4, <2>5 DEF HoldsOwnMails
<1>4. CASE ShowsLast(r, req)
  <2> DEFINE n    == Len(m_emailArray[r])
             mail == m_emailArray[r][n]
  <2>1. /\ n \in DOMAIN m_emailArray[r] /\ Last(m_emailArray[r]) = mail
    BY <1>4, RetrType DEF ShowsLast
  <2>2. /\ last'[r].answer.mails = << mail >> /\ listed'[r] = listed[r]
        /\ last'[r].req = req
    BY <1>4, <2>1 DEF ShowsLast, Return, Answer, TypeOK
  <2>3. m_emailArray' = m_emailArray /\ m_strUserAddr' = m_strUserAddr
    BY <1>4 DEF ShowsLast
  <2>4. mail \in Received(T_EMAIL_SEND, m_strUserAddr[r])
    BY <2>1 DEF HoldsOwnMails, IsListing
  <2>5. \A i \in DOMAIN << mail >> : << mail >>[i] = mail
    OBVIOUS
  <2>6. m_step'[r] = "ON_CONNECT" => m_step[r] = "ON_CONNECT"
    BY DEF Frame
  <2>7. /\ req.number \in DOMAIN listed[r]
        /\ << mail >> = << Last(listed[r]) >>
    BY <1>4, <2>1 DEF HoldsOwnMails, ShowsLast
  <2> HIDE DEF mail
  <2> QED
    BY <1>0, <2>2, <2>3, <2>4, <2>5, <2>6, <2>7 DEF HoldsOwnMails
<1> QED
  BY <1>1, <1>2, <1>3, <1>4 DEF Effects

\* Every session holds its user's mails.
AllHoldOwnMails == \A r \in Readers : HoldsOwnMails(r)

\* At the start none holds any,
LEMMA MailsAreOwnAtFirst == Init => AllHoldOwnMails
<1> SUFFICES ASSUME Init, NEW r \in Readers PROVE HoldsOwnMails(r)
  BY DEF AllHoldOwnMails
<1>1. m_emailArray[r] = << >> /\ listed[r] = << >>
  BY DEF Init, SessionInit
<1>2. last[r].answer.mails = << >> /\ last[r].answer.kind # "mail"
  BY DEF Init, SessionInit, Nothing, Answer
<1>3. IsListing(<< >>, T_EMAIL_SEND, m_strUserAddr[r])
  BY DEF IsListing
<1> QED
  BY <1>1, <1>2, <1>3 DEF HoldsOwnMails

\* and every callback keeps it, and every mail that is saved.
LEMMA MailsStayOwn == TypeOK /\ AllHoldOwnMails /\ [Next]_vars => AllHoldOwnMails'
<1> SUFFICES ASSUME TypeOK, AllHoldOwnMails, [Next]_vars, NEW q \in Readers
             PROVE  HoldsOwnMails(q)'
  BY DEF AllHoldOwnMails
<1>0. HoldsOwnMails(q)
  BY DEF AllHoldOwnMails
<1>1. ASSUME NEW r \in Readers, Accept(r) PROVE HoldsOwnMails(q)'
  <2>1. CASE q = r
    <3>1. /\ m_emailArray' = m_emailArray /\ listed' = listed
          /\ m_strUserAddr' = m_strUserAddr /\ T_EMAIL_SEND' = T_EMAIL_SEND
          /\ m_emailArray[q] = << >>
      BY <1>0, <1>1, <2>1 DEF Accept, HoldsOwnMails
    <3>2. last'[q].answer = GetNextStepCmd("ON_CONNECT")
      BY <1>1, <2>1 DEF Accept, TypeOK
    <3>3. last'[q].answer.mails = << >> /\ last'[q].answer.kind # "mail"
      BY <3>2, StepAnswerType
    <3> QED
      BY <1>0, <3>1, <3>3 DEF HoldsOwnMails
  <2>2. CASE q # r
    <3>1. /\ m_emailArray' = m_emailArray /\ listed' = listed
          /\ m_strUserAddr' = m_strUserAddr /\ T_EMAIL_SEND' = T_EMAIL_SEND
          /\ last'[q] = last[q] /\ m_step'[q] = m_step[q] /\ conn'[q] = conn[q]
      BY <1>1, <2>2 DEF Accept, TypeOK
    <3> QED
      BY <1>0, <3>1 DEF HoldsOwnMails
  <2> QED
    BY <2>1, <2>2
<1>2. ASSUME NEW r \in Readers, Disconnect(r) PROVE HoldsOwnMails(q)'
  <2>1. conn'[q] = "none" => conn[q] = "none"
    BY <1>2 DEF Disconnect, TypeOK
  <2> QED
    BY <1>0, <1>2, <2>1 DEF Disconnect, HoldsOwnMails
<1>3. ASSUME NEW r \in Readers, NEW req \in Requests, OnRecive(r, req)
      PROVE  HoldsOwnMails(q)'
  <2>1. Effects(r, req) /\ Frame(r)
    BY <1>3, OnReciveHas
  <2>2. CASE q = r
    BY <1>0, <2>1, <2>2, RequestKeepsOwn
  <2>3. CASE q # r
    BY <1>0, <2>1, <2>3, OthersKeepTheirs
  <2> QED
    BY <2>2, <2>3
<1>4. CASE MailSaved
  BY <1>0, <1>4, SavedKeepsMails
<1>5. CASE UNCHANGED vars
  BY <1>0, <1>5 DEF vars, session, HoldsOwnMails
<1> QED
  BY <1>1, <1>2, <1>3, <1>4, <1>5 DEF Next, SessionNext

\* Every session holds its user's mails in every reachable state.
LEMMA MailsAreOwn == Spec => []AllHoldOwnMails
BY TypeCorrect, MailsAreOwnAtFirst, MailsStayOwn, PTL DEF Spec

\* The array of every session is a gapless beginning of its user's mails.
THEOREM ArrayCorrect == Spec => []ArrayIsListing
<1>1. AllHoldOwnMails => ArrayIsListing
  BY DEF AllHoldOwnMails, HoldsOwnMails, ArrayIsListing
<1> QED
  BY <1>1, MailsAreOwn, PTL

\* The array of every session is its last listing, and RETR gives the last mail of
\* that for any number of it.
THEOREM NumberingCorrect == Spec => []NumberingIsKnown
<1>1. AllHoldOwnMails => NumberingIsKnown
  BY DEF AllHoldOwnMails, HoldsOwnMails, NumberingIsKnown
<1> QED
  BY <1>1, MailsAreOwn, PTL

\* What a session was shown stays addressed to its user.
THEOREM ShownCorrect == Spec => []ShownMailIsAddressed
<1>1. AllHoldOwnMails => ShownMailIsAddressed
  BY DEF AllHoldOwnMails, HoldsOwnMails, ShownMailIsAddressed, Received
<1> QED
  BY <1>1, MailsAreOwn, PTL

=============================================================================
