------------------------- MODULE TextAndImap_proofs -------------------------
(***************************************************************************)
(* Theorems about the parts that share no state with other sessions: an    *)
(* IMAP session, the loops of the text helpers, and those of base64.       *)
(*                                                                         *)
(* The last two take every text, however long.  A recursive function is    *)
(* used through LoopRuns: there is a function of what a loop has after     *)
(* each turn, so the CHOOSE the definition stands for finds one.  What a   *)
(* loop keeps is then shown from turn to turn (UpTo):                      *)
(*   KeptUpTo     the text from the first blank line to the line read last *)
(*                (ParseEmailForSmtp);                                     *)
(*   EncodedTo    the indices of the groups of three that are complete and *)
(*                the bytes of the one that is not (Base64Encode);         *)
(*   DecodedTo    the bytes of the groups of four that are complete and    *)
(*                the indices of the one that is not (Base64Decode).       *)
(***************************************************************************)
EXTENDS ImapServerHandler, MailText, Base64, SequenceTheorems, WellFoundedInduction, TLAPS

----------------------------------------------------------------------------
(***************************************************************************)
(* The least and the greatest of some numbers.                             *)
(***************************************************************************)
\* Every nonempty set of naturals has a smallest element.
LEMMA Smallest ==
    ASSUME NEW S \in SUBSET Nat, S # {}
    PROVE  \E x \in S : \A y \in S : x <= y
<1> DEFINE R == {p \in Nat \X Nat : p[1] < p[2]}
<1>0. IsWellFoundedOn(R, Nat)
  BY NatLessThanWellFounded DEF OpToRel
<1>1. \A x, y \in Nat : << y, x >> \in R <=> y < x
  OBVIOUS
<1>2. \E x \in S : \A y \in S : ~(<< y, x >> \in R)
  <2> HIDE DEF R
  <2> QED
    BY <1>0, WFMin
<1> HIDE DEF R
<1>3. PICK x \in S : \A y \in S : ~(y < x)
  BY <1>1, <1>2
<1>4. \A y \in S : x <= y
  BY <1>3
<1> QED
  BY <1>4

\* So one of numbers that go no further than a bound has a greatest one.
LEMMA Greatest ==
    ASSUME NEW n \in Nat, NEW S \in SUBSET (0 .. n), S # {}
    PROVE  \E x \in S : \A y \in S : y <= x
<1> DEFINE T == {n - y : y \in S}
<1>1. T \in SUBSET Nat /\ T # {}
  <2>1. \A y \in S : n - y \in Nat
    OBVIOUS
  <2> QED
    BY <2>1
<1>2. PICK t \in T : \A u \in T : t <= u
  <2> HIDE DEF T
  <2> QED
    BY <1>1, Smallest
<1>3. PICK x \in S : t = n - x
  OBVIOUS
<1>4. \A y \in S : n - x <= n - y /\ y \in Int
  BY <1>2, <1>3
<1> QED
  BY <1>4

\* The least and the greatest of some numbers are what they are named.
LEMMA MinIs ==
    ASSUME NEW S \in SUBSET Int, NEW x \in S, \A y \in S : x <= y
    PROVE  Min(S) = x
<1>1. Min(S) \in S /\ \A y \in S : Min(S) <= y
  BY DEF Min
<1>2. Min(S) \in Int /\ x \in Int
  BY <1>1
<1>3. x <= Min(S) /\ Min(S) <= x
  BY <1>1
<1> QED
  BY <1>2, <1>3

\* The greatest of some numbers.
LEMMA MaxIs ==
    ASSUME NEW S \in SUBSET Int, NEW x \in S, \A y \in S : y <= x
    PROVE  Max(S) = x
<1>1. Max(S) \in S /\ \A y \in S : y <= Max(S)
  BY DEF Max
<1>2. Max(S) \in Int /\ x \in Int
  BY <1>1
<1>3. x <= Max(S) /\ Max(S) <= x
  BY <1>1
<1> QED
  BY <1>2, <1>3

----------------------------------------------------------------------------
(***************************************************************************)
(* An IMAP session: its table, its dialogue and its buffer.                *)
(***************************************************************************)
Steps == {"SERVER_BEGIN", "SERVER_NOT_LOGIN", "SERVER_LOGIN_SUCCEED", "SERVER_LOGIN_FAILED"}

Codes == Commands \cup {"UNKNOWN_CMD"}

Takes(n, step, code) == imapArray[n].curState = step /\ imapArray[n].curCmdId = code

----------------------------------------------------------------------------
\* Each command has one row, so a walk that goes on after the row that took a line
\* finds no other, whatever step that row has left; and a line no row takes is
\* dropped.
LEMMA OneRowTakes ==
    ASSUME NEW step \in Steps, NEW code \in Codes
    PROVE  \/ /\ Walk(step, code) = [step |-> step, response |-> << >>]
              /\ \A n \in 1 .. 9 : ~Takes(n, step, code)
           \/ \E n \in 1 .. 9 :
                 /\ Takes(n, step, code)
                 /\ Walk(step, code) = [step |-> imapArray[n].nextState, response |-> << code >>]
<1> DEFINE start == [step |-> step, response |-> << >>]
           taken(n) == [step |-> imapArray[n].nextState, response |-> << code >>]
           after(n, before) == IF Takes(n, before.step, code) THEN taken(n) ELSE before
           body(w) == [n \in 0 .. Len(imapArray) |-> IF n = 0 THEN start ELSE after(n, w[n - 1])]
           walked == CHOOSE w : w = body(w)
<1>1. Len(imapArray) = 9
  BY DEF imapArray
<1>2. PICK k \in 1 .. 10 : \A n \in 1 .. 9 : imapArray[n].curCmdId = code <=> n = k
  <2>1. \A n, m \in 1 .. 9 : imapArray[n].curCmdId = imapArray[m].curCmdId => n = m
    BY DEF imapArray, Row
  <2>2. CASE \A n \in 1 .. 9 : imapArray[n].curCmdId # code
    BY <2>2
  <2>3. CASE \E n \in 1 .. 9 : imapArray[n].curCmdId = code
    BY <2>1, <2>3
  <2> QED
    BY <2>2, <2>3
<1> DEFINE f == [n \in 0 .. 9 |-> IF k <= n /\ Takes(k, step, code) THEN taken(k) ELSE start]
<1>3. \A n \in 1 .. 9 : f[n] = after(n, f[n - 1])
  <2> TAKE n \in 1 .. 9
  <2>1. start.step = step
    OBVIOUS
  <2> HIDE DEF start, taken
  <2>2. n - 1 \in 0 .. 9 /\ n \in 0 .. 9
    OBVIOUS
  <2>3. CASE n = k
    BY <2>1, <2>2, <2>3
  <2>4. CASE n # k
    <3>1. after(n, f[n - 1]) = f[n - 1]
      BY <1>2, <2>4 DEF Takes
    <3>2. k <= n <=> k <= n - 1
      BY <2>4
    <3> QED
      BY <2>2, <3>1, <3>2
  <2> QED
    BY <2>3, <2>4
<1>4. f[0] = start /\ f[9] = IF k <= 9 /\ Takes(k, step, code) THEN taken(k) ELSE start
  OBVIOUS
<1> HIDE DEF start, taken, after
<1>5. f = body(f)
  BY <1>1, <1>3, <1>4
<1>6. walked = body(walked)
  <2> HIDE DEF body
  <2> QED
    BY <1>5
<1>7. Walk(step, code) = walked[9]
  BY <1>1 DEF Walk, start, taken, after, Takes, Response
<1> HIDE DEF walked, f
<1>8. walked[9] = f[9]
  <2>1. /\ walked[0] = start
        /\ \A n \in 1 .. 9 : walked[n] = after(n, walked[n - 1])
    BY <1>1, <1>6
  <2>2. \A n \in 1 .. 9 : walked[n - 1] = f[n - 1] => walked[n] = f[n]
    BY <1>3, <2>1
  <2> QED
    BY <1>4, <2>1, <2>2
<1>9. CASE k <= 9 /\ Takes(k, step, code)
  BY <1>4, <1>7, <1>8, <1>9 DEF start, taken
<1>10. CASE ~(k <= 9 /\ Takes(k, step, code))
  <2>1. \A n \in 1 .. 9 : ~Takes(n, step, code)
    BY <1>2, <1>10 DEF Takes
  <2> QED
    BY <1>4, <1>7, <1>8, <1>10, <2>1 DEF start, taken
<1> QED
  BY <1>9, <1>10

----------------------------------------------------------------------------
\* What a read may do to the dialogue: nothing, or what one row says.
TakenBy(n, code) ==
    /\ Takes(n, m_step, code)
    /\ code \in Commands
    /\ m_step' = imapArray[n].nextState
    /\ replies' = Append(replies, code)

\* A read keeps what it is given until it has a line, and a line is taken by one row.
LEMMA ReadEffects ==
    ASSUME TypeOK, NEW chunk \in Chunks, OnRecive(chunk)
    PROVE  /\ \/ m_strReceive' = << >>
              \/ /\ m_strReceive' = m_strReceive \o chunk
                 /\ ~IsCommandComplete(m_strReceive')
           /\ \/ UNCHANGED << m_step, replies >>
              \/ \E n \in 1 .. 9, code \in Codes : TakenBy(n, code)
<1> DEFINE heard == m_strReceive \o chunk
           code == CodeOf(heard)
<1>1. CASE ~IsCommandComplete(heard) /\ m_strReceive' = heard /\ UNCHANGED << m_step, replies >>
  BY <1>1
<1>2. CASE HandleLine(heard)
  <2>1. code \in Codes
    BY DEF CodeOf, Codes
  <2>2. m_step \in Steps /\ replies \in Seq(Commands \cup {"OK"})
    BY DEF TypeOK, Steps
  <2>3. /\ m_step' = Walk(m_step, code).step
        /\ replies' = replies \o Walk(m_step, code).response
        /\ m_strReceive' = << >>
    BY <1>2 DEF HandleLine
  <2> HIDE DEF code
  <2>4. CASE Walk(m_step, code) = [step |-> m_step, response |-> << >>]
    BY <2>2, <2>3, <2>4
  <2>5. ASSUME NEW n \in 1 .. 9, Takes(n, m_step, code),
               Walk(m_step, code) = [step |-> imapArray[n].nextState, response |-> << code >>]
        PROVE  TakenBy(n, code)
    <3>1. imapArray[n].curCmdId \in Commands
      BY DEF imapArray, Row, Commands
    <3>2. code \in Commands
      BY <2>5, <3>1 DEF Takes
    <3>3. replies' = replies \o << code >> /\ m_step' = imapArray[n].nextState
      BY <2>3, <2>5
    <3>4. replies \o << code >> = Append(replies, code)
      BY <2>2, <3>2
    <3> QED
      BY <2>5, <3>2, <3>3, <3>4 DEF TakenBy
  <2> QED
    BY <2>1, <2>2, <2>3, <2>4, <2>5, OneRowTakes
<1> QED
  BY <1>1, <1>2 DEF OnRecive

\* A session starts typed, and a read keeps it so.
LEMMA TypeOKStarts == Init => TypeOK
<1> SUFFICES ASSUME Init PROVE TypeOK
  OBVIOUS
<1>1. << "OK" >> \in Seq(Commands \cup {"OK"}) /\ << >> \in Seq(Lexemes)
  OBVIOUS
<1> QED
  BY <1>1 DEF Init, TypeOK

\* What follows the last line end is without one, and is all of a text that has
\* none.
LEMMA LastLineIs ==
    ASSUME NEW got \in Seq(Lexemes)
    PROVE  /\ LastLine(got) \in Seq(Lexemes)
           /\ EndsOfLines(LastLine(got)) = {}
           /\ EndsOfLines(got) = {} => LastLine(got) = got
           /\ \A i \in EndsOfLines(got) : (\A j \in EndsOfLines(got) : j <= i) =>
                 LastLine(got) = SubSeq(got, i + 2, Len(got))
<1>1. CASE EndsOfLines(got) = {}
  BY <1>1 DEF LastLine
<1>2. CASE EndsOfLines(got) # {}
  <2>1. Len(got) \in Nat /\ EndsOfLines(got) \subseteq 1 .. Len(got)
    BY DEF EndsOfLines
  <2>2. EndsOfLines(got) \subseteq 0 .. Len(got) /\ EndsOfLines(got) \subseteq Int
    BY <2>1
  <2>3. PICK end \in EndsOfLines(got) : \A j \in EndsOfLines(got) : j <= end
    BY <1>2, <2>1, <2>2, Greatest
  <2> DEFINE rest == SubSeq(got, end + 2, Len(got))
  <2>4. LastLine(got) = rest
    <3>1. Max(EndsOfLines(got)) = end
      BY <2>2, <2>3, MaxIs
    <3> QED
      BY <1>2, <3>1 DEF LastLine
  <2>5. end \in 1 .. Len(got) - 1
    BY <2>3 DEF EndsOfLines
  <2>6. /\ rest \in Seq(Lexemes) /\ Len(rest) = Len(got) - end - 1
        /\ \A i \in 1 .. Len(rest) : rest[i] = got[end + 1 + i]
    BY <2>1, <2>5
  <2> HIDE DEF rest
  <2>7. EndsOfLines(rest) = {}
    <3> SUFFICES ASSUME NEW i \in EndsOfLines(rest) PROVE FALSE
      OBVIOUS
    <3>1. i \in 1 .. Len(rest) - 1 /\ rest[i] = "CR" /\ rest[i + 1] = "LF"
      BY DEF EndsOfLines
    <3>2. end + 1 + i \in 1 .. Len(got) - 1
      BY <2>1, <2>5, <2>6, <3>1
    <3>3. got[end + 1 + i] = "CR" /\ got[end + 1 + i + 1] = "LF"
      <4>1. i \in 1 .. Len(rest) /\ i + 1 \in 1 .. Len(rest) /\ end + 1 + (i + 1) = end + 1 + i + 1
        BY <2>5, <2>6, <3>1
      <4> QED
        BY <2>6, <3>1, <4>1
    <3>4. end + 1 + i \in EndsOfLines(got)
      BY <3>2, <3>3 DEF EndsOfLines
    <3> QED
      BY <2>3, <2>5, <3>1, <3>4
  <2>8. ASSUME NEW i \in EndsOfLines(got), \A j \in EndsOfLines(got) : j <= i
        PROVE  i = end
    BY <2>1, <2>3, <2>8
  <2> QED
    BY <1>2, <2>4, <2>6, <2>7, <2>8 DEF rest
<1> QED
  BY <1>1, <1>2

\* Every step keeps the types.
LEMMA TypeOKKept == TypeOK /\ [Next]_vars => TypeOK'
<1> SUFFICES ASSUME TypeOK, [Next]_vars PROVE TypeOK'
  OBVIOUS
<1>1. ASSUME NEW chunk \in Chunks, OnRecive(chunk) PROVE TypeOK'
  <2>1. chunk \in Seq(Lexemes)
    BY ImapAssumption
  <2>2. m_strReceive' \in Seq(Lexemes)
    <3>1. m_strReceive' = << >> \/ m_strReceive' = m_strReceive \o chunk
      BY <1>1, ReadEffects
    <3>2. m_strReceive \o chunk \in Seq(Lexemes)
      BY <2>1 DEF TypeOK
    <3>3. << >> \in Seq(Lexemes)
      OBVIOUS
    <3> QED
      BY <3>1, <3>2, <3>3
  <2>3. ASSUME NEW n \in 1 .. 9, NEW code \in Codes, TakenBy(n, code)
        PROVE  m_step' \in Steps /\ replies' \in Seq(Commands \cup {"OK"})
    <3>1. imapArray[n].nextState \in Steps
      BY DEF imapArray, Row, Steps
    <3>2. Append(replies, code) \in Seq(Commands \cup {"OK"})
      BY <2>3 DEF TypeOK, TakenBy
    <3> QED
      BY <2>3, <3>1, <3>2 DEF TakenBy
  <2>4. m_step' \in Steps /\ replies' \in Seq(Commands \cup {"OK"})
    BY <1>1, <2>3, ReadEffects DEF TypeOK, Steps
  <2>5. unfinished' \in Seq(Lexemes)
    <3>1. unfinished \o chunk \in Seq(Lexemes)
      BY <2>1 DEF TypeOK
    <3>2. unfinished' = LastLine(unfinished \o chunk)
      BY <1>1 DEF OnRecive, Sends
    <3> QED
      BY <3>1, <3>2, LastLineIs
  <2>6. behind' \in BOOLEAN
    BY <1>1 DEF OnRecive, Sends
  <2> QED
    BY <2>2, <2>4, <2>5, <2>6 DEF TypeOK, Steps
<1>2. CASE UNCHANGED vars
  BY <1>2 DEF vars, sent, TypeOK
<1> QED
  BY <1>1, <1>2 DEF Next

\* The session is typed, for any reads and any bounds.
THEOREM TypeCorrect == Spec => []TypeOK
BY TypeOKStarts, TypeOKKept, PTL DEF Spec

----------------------------------------------------------------------------
\* How far the dialogue has come at each step: without it the order of the answers
\* is not inductive, for the table only knows the step.
Told ==
    /\ m_step = "SERVER_BEGIN" => Len(replies) = 1
    /\ m_step = "SERVER_NOT_LOGIN" => Len(replies) = 2
    /\ m_step = "SERVER_LOGIN_SUCCEED" =>
          Len(replies) >= 3 /\ \A i \in DOMAIN replies : replies[i] # "LOGOUT"

\* A row of the table continues the dialogue.
LEMMA RowKeepsOrder ==
    ASSUME TypeOK, Told, DialogueInOrder, NEW n \in 1 .. 9, NEW code \in Codes,
           TakenBy(n, code)
    PROVE  Told' /\ DialogueInOrder'
<1> DEFINE l == Len(replies) + 1
<1>1. replies \in Seq(Commands \cup {"OK"}) /\ code \in Commands /\ code # "OK"
  BY DEF TypeOK, TakenBy, Commands
<1>2. /\ Len(replies') = l /\ replies'[l] = code
      /\ \A i \in DOMAIN replies : replies'[i] = replies[i]
      /\ DOMAIN replies' = 1 .. l /\ DOMAIN replies = 1 .. (l - 1) /\ l \in Nat
  BY <1>1 DEF TakenBy
<1> HIDE DEF l
<1>3. \/ l = 2 /\ code = "CAPABILITY" /\ m_step' = "SERVER_NOT_LOGIN"
      \/ l = 3 /\ code = "LOGIN" /\ m_step' = "SERVER_LOGIN_SUCCEED"
      \/ /\ l > 3 /\ code \notin {"OK", "CAPABILITY", "LOGIN", "LOGOUT"}
         /\ m_step = "SERVER_LOGIN_SUCCEED" /\ m_step' = "SERVER_LOGIN_SUCCEED"
      \/ l > 3 /\ code = "LOGOUT" /\ m_step' = "SERVER_LOGIN_FAILED"
  <2>1. /\ imapArray[n].curState = m_step /\ imapArray[n].curCmdId = code
        /\ m_step' = imapArray[n].nextState
    BY DEF TakenBy, Takes
  <2>2. \/ /\ m_step = "SERVER_BEGIN"
           /\ code = "CAPABILITY" /\ m_step' = "SERVER_NOT_LOGIN"
        \/ /\ m_step = "SERVER_NOT_LOGIN"
           /\ code = "LOGIN" /\ m_step' = "SERVER_LOGIN_SUCCEED"
        \/ /\ m_step = "SERVER_LOGIN_SUCCEED"
           /\ code \notin {"OK", "CAPABILITY", "LOGIN", "LOGOUT"}
           /\ m_step' = "SERVER_LOGIN_SUCCEED"
        \/ /\ m_step = "SERVER_LOGIN_SUCCEED"
           /\ code = "LOGOUT" /\ m_step' = "SERVER_LOGIN_FAILED"
    BY <2>1 DEF imapArray, Row
  <2>3. Len(replies) \in Nat /\ l = Len(replies) + 1
    BY <1>1 DEF l
  <2>4. \A k \in Nat : (k = 1 => k + 1 = 2) /\ (k = 2 => k + 1 = 3) /\ (k >= 3 => k + 1 > 3)
    OBVIOUS
  <2>5. /\ m_step = "SERVER_BEGIN" => Len(replies) = 1
        /\ m_step = "SERVER_NOT_LOGIN" => Len(replies) = 2
        /\ m_step = "SERVER_LOGIN_SUCCEED" => Len(replies) >= 3
    BY DEF Told
  <2>6. /\ m_step = "SERVER_BEGIN" => l = 2
        /\ m_step = "SERVER_NOT_LOGIN" => l = 3
        /\ m_step = "SERVER_LOGIN_SUCCEED" => l > 3
    BY <2>3, <2>4, <2>5, Zenon
  <2> QED
    BY <2>2, <2>6
<1>4. \A i \in DOMAIN replies : replies[i] # "LOGOUT"
  <2>1. CASE m_step = "SERVER_LOGIN_SUCCEED"
    BY <2>1 DEF Told
  <2>2. CASE m_step # "SERVER_LOGIN_SUCCEED"
    <3>1. l = 2 \/ l = 3
      BY <1>3, <2>2 DEF TakenBy, Takes, imapArray, Row, Told, l
    <3> QED
      BY <1>2, <3>1 DEF DialogueInOrder
  <2> QED
    BY <2>1, <2>2
<1>5. \A i \in 1 .. l : i = l \/ i \in 1 .. (l - 1)
  BY <1>2
<1>6. Told'
  BY <1>2, <1>3, <1>4, <1>5 DEF Told
<1>7. ASSUME NEW i \in 1 .. l
      PROVE  /\ i = 1 <=> replies'[i] = "OK"
             /\ i = 2 <=> replies'[i] = "CAPABILITY"
             /\ i = 3 <=> replies'[i] = "LOGIN"
             /\ replies'[i] = "LOGOUT" => i > 3 /\ i = l
  <2>1. CASE i = l
    BY <1>2, <1>3, <2>1
  <2>2. CASE i # l
    BY <1>2, <1>4, <1>5, <2>2 DEF DialogueInOrder
  <2> QED
    BY <2>1, <2>2
<1> QED
  BY <1>2, <1>6, <1>7 DEF DialogueInOrder

\* However lines are cut into reads or run together, for any number of them, the
\* answers are a greeting, the capabilities, a login, then those about the mailbox,
\* and nothing after the answer to LOGOUT.
THEOREM DialogueCorrect == Spec => []DialogueInOrder
<1>1. Init => Told /\ DialogueInOrder
  <2> SUFFICES ASSUME Init PROVE Told /\ DialogueInOrder
    OBVIOUS
  <2>1. replies = << "OK" >> /\ m_step = "SERVER_BEGIN"
    BY DEF Init
  <2>2. Len(replies) = 1 /\ DOMAIN replies = 1 .. 1 /\ replies[1] = "OK"
    BY <2>1
  <2> QED
    BY <2>1, <2>2 DEF Told, DialogueInOrder
<1>2. TypeOK /\ Told /\ DialogueInOrder /\ [Next]_vars => (Told /\ DialogueInOrder)'
  <2> SUFFICES ASSUME TypeOK, Told, DialogueInOrder, [Next]_vars
               PROVE  (Told /\ DialogueInOrder)'
    OBVIOUS
  <2>1. CASE UNCHANGED << m_step, replies >>
    BY <2>1 DEF Told, DialogueInOrder
  <2>2. ASSUME NEW chunk \in Chunks, OnRecive(chunk)
        PROVE  \/ UNCHANGED << m_step, replies >>
               \/ \E n \in 1 .. 9, code \in Codes : TakenBy(n, code)
    BY <2>2, ReadEffects
  <2> QED
    BY <2>1, <2>2, RowKeepsOrder DEF Next, vars
<1> QED
  BY <1>1, <1>2, TypeCorrect, PTL DEF Spec

----------------------------------------------------------------------------
(***************************************************************************)
(* A line is handled as if it came whole.  What is kept and what the peer  *)
(* has not finished are both without a line end, so a read either ends     *)
(* both, or adds to both, or ends a line whose first half was dropped.     *)
(***************************************************************************)
KeptIsUnfinished ==
    /\ HandledByLine
    /\ EndsOfLines(m_strReceive) = {} /\ EndsOfLines(unfinished) = {}

\* A suffix, place by place.
LEMMA SuffixByPlace ==
    ASSUME NEW s \in Seq(Lexemes), NEW t \in Seq(Lexemes)
    PROVE  IsSuffix(s, t) <=>
              /\ Len(s) <= Len(t)
              /\ \A i \in 1 .. Len(s) : s[i] = t[Len(t) - Len(s) + i]
<1> DEFINE a == Reverse(s)
           b == Reverse(t)
<1>1. /\ Len(s) \in Nat /\ Len(t) \in Nat
      /\ a = [i \in 1 .. Len(s) |-> s[(Len(s) - i) + 1]]
      /\ b = [i \in 1 .. Len(t) |-> t[(Len(t) - i) + 1]]
  BY DEF Reverse
<1>2. a \in Seq(Lexemes) /\ b \in Seq(Lexemes) /\ Len(a) = Len(s) /\ Len(b) = Len(t)
  <2>1. \A i \in 1 .. Len(s) : (Len(s) - i) + 1 \in 1 .. Len(s)
    BY <1>1
  <2>2. \A i \in 1 .. Len(t) : (Len(t) - i) + 1 \in 1 .. Len(t)
    BY <1>1
  <2>3. /\ \A i \in 1 .. Len(s) : s[i] \in Lexemes
        /\ \A i \in 1 .. Len(t) : t[i] \in Lexemes
    OBVIOUS
  <2>4. a \in [1 .. Len(s) -> Lexemes] /\ b \in [1 .. Len(t) -> Lexemes]
    BY <1>1, <2>1, <2>2, <2>3
  <2> QED
    BY <1>1, <2>4
<1> HIDE DEF a, b
<1>3. IsSuffix(s, t) <=> IsPrefix(a, b)
  BY DEF IsSuffix, a, b
<1>4. IsPrefix(a, b) <=> Len(a) <= Len(b) /\ \A i \in 1 .. Len(a) : a[i] = b[i]
  <2>1. CASE Len(a) <= Len(b)
    <3>1. /\ SubSeq(a, 1, Len(a)) \in Seq(Lexemes) /\ Len(SubSeq(a, 1, Len(a))) = Len(a)
          /\ \A i \in 1 .. Len(a) : SubSeq(a, 1, Len(a))[i] = a[i]
      BY <1>2
    <3>2. /\ SubSeq(b, 1, Len(a)) \in Seq(Lexemes) /\ Len(SubSeq(b, 1, Len(a))) = Len(a)
          /\ \A i \in 1 .. Len(a) : SubSeq(b, 1, Len(a))[i] = b[i]
      BY <1>1, <1>2, <2>1
    <3> DEFINE x == SubSeq(a, 1, Len(a))
               y == SubSeq(b, 1, Len(a))
    <3>3. IsPrefix(a, b) <=> x = y
      BY <1>2, <2>1 DEF IsPrefix
    <3> HIDE DEF x, y
    <3>4. x = y <=> \A i \in 1 .. Len(a) : x[i] = y[i]
      BY <3>1, <3>2 DEF x, y
    <3> QED
      BY <2>1, <3>1, <3>2, <3>3, <3>4 DEF x, y
  <2>2. CASE ~(Len(a) <= Len(b))
    BY <2>2 DEF IsPrefix
  <2> QED
    BY <2>1, <2>2
<1>5. ASSUME Len(s) <= Len(t)
      PROVE  (\A i \in 1 .. Len(s) : a[i] = b[i]) <=>
                \A i \in 1 .. Len(s) : s[i] = t[Len(t) - Len(s) + i]
  <2>1. ASSUME NEW i \in 1 .. Len(s)
        PROVE  /\ (Len(s) - i) + 1 \in 1 .. Len(s)
               /\ a[(Len(s) - i) + 1] = s[i]
               /\ b[(Len(s) - i) + 1] = t[Len(t) - Len(s) + i]
               /\ a[i] = s[(Len(s) - i) + 1]
               /\ b[i] = t[Len(t) - Len(s) + ((Len(s) - i) + 1)]
    BY <1>1, <1>5
  <2> QED
    BY <2>1
<1> QED
  BY <1>2, <1>3, <1>4, <1>5

\* A read that leaves the buffer without a line end leaves it the end of the line the
\* peer is in.
LEMMA KeptFollows ==
    ASSUME NEW kept \in Seq(Lexemes), NEW got \in Seq(Lexemes), NEW chunk \in Seq(Lexemes),
           IsSuffix(kept, got) \/ kept = << "LF" >> \o got,
           EndsOfLines(got) = {}, EndsOfLines(kept \o chunk) = {}
    PROVE  \/ IsSuffix(kept \o chunk, LastLine(got \o chunk))
           \/ kept \o chunk = << "LF" >> \o LastLine(got \o chunk)
<1> DEFINE k == kept \o chunk
           u == got \o chunk
<1>1. /\ k \in Seq(Lexemes) /\ Len(k) = Len(kept) + Len(chunk)
      /\ u \in Seq(Lexemes) /\ Len(u) = Len(got) + Len(chunk)
      /\ Len(kept) \in Nat /\ Len(got) \in Nat /\ Len(chunk) \in Nat
  OBVIOUS
<1>2. /\ \A i \in 1 .. Len(kept) : k[i] = kept[i]
      /\ \A i \in 1 .. Len(chunk) : k[Len(kept) + i] = chunk[i]
      /\ \A i \in 1 .. Len(got) : u[i] = got[i]
      /\ \A i \in 1 .. Len(chunk) : u[Len(got) + i] = chunk[i]
  OBVIOUS
<1>3. EndsOfLines(k) = {}
  OBVIOUS
<1> HIDE DEF k, u
<1>4. CASE kept = << "LF" >> \o got
  <2>1. Len(kept) = Len(got) + 1 /\ \A i \in 1 .. Len(got) : kept[i + 1] = got[i]
    BY <1>4
  <2>2. \A i \in 1 .. Len(u) : u[i] = k[i + 1]
    <3> TAKE i \in 1 .. Len(u)
    <3>1. CASE i <= Len(got)
      BY <1>1, <1>2, <2>1, <3>1
    <3>2. CASE i > Len(got)
      <4>1. i - Len(got) \in 1 .. Len(chunk) /\ i = Len(got) + (i - Len(got))
            /\ i + 1 = Len(kept) + (i - Len(got))
        BY <1>1, <2>1, <3>2
      <4>2. u[Len(got) + (i - Len(got))] = chunk[i - Len(got)]
        BY <1>2, <4>1
      <4>3. k[Len(kept) + (i - Len(got))] = chunk[i - Len(got)]
        BY <1>2, <4>1
      <4> QED
        BY <4>1, <4>2, <4>3
    <3> QED
      BY <1>1, <3>1, <3>2
  <2>3. EndsOfLines(u) = {}
    <3> SUFFICES ASSUME NEW i \in EndsOfLines(u) PROVE FALSE
      OBVIOUS
    <3>1. i \in 1 .. Len(u) - 1 /\ u[i] = "CR" /\ u[i + 1] = "LF"
      BY DEF EndsOfLines
    <3>2. i \in 1 .. Len(u) /\ i + 1 \in 1 .. Len(u) /\ i + 1 \in 1 .. Len(k) - 1
      BY <1>1, <2>1, <3>1
    <3>3. i + 1 \in EndsOfLines(k)
      BY <2>2, <3>1, <3>2 DEF EndsOfLines
    <3> QED
      BY <1>3, <3>3
  <2>4. LastLine(u) = u
    BY <1>1, <2>3, LastLineIs
  <2>5. k = << "LF" >> \o u
    <3>1. << "LF" >> \in Seq({"LF"} \cup Lexemes) /\ got \in Seq({"LF"} \cup Lexemes)
          /\ chunk \in Seq({"LF"} \cup Lexemes)
      OBVIOUS
    <3>2. (<< "LF" >> \o got) \o chunk = << "LF" >> \o (got \o chunk)
      BY <3>1, ConcatAssociative
    <3> QED
      BY <1>4, <3>2 DEF k, u
  <2> QED
    BY <2>4, <2>5 DEF k, u
<1>5. CASE IsSuffix(kept, got)
  <2> DEFINE d == Len(got) - Len(kept)
  <2>1. d \in Nat /\ \A i \in 1 .. Len(kept) : kept[i] = got[d + i]
    BY <1>1, <1>5, SuffixByPlace
  <2>2. Len(got) = d + Len(kept) /\ Len(u) = d + Len(k)
    BY <1>1
  <2> HIDE DEF d
  <2>3. \A i \in 1 .. Len(k) : k[i] = u[d + i]
    <3> TAKE i \in 1 .. Len(k)
    <3>1. CASE i <= Len(kept)
      <4>1. i \in 1 .. Len(kept) /\ d + i \in 1 .. Len(got)
        BY <1>1, <2>1, <2>2, <3>1
      <4>2. u[d + i] = got[d + i]
        BY <1>2, <4>1
      <4>3. k[i] = kept[i] /\ kept[i] = got[d + i]
        BY <1>2, <2>1, <4>1
      <4> QED
        BY <4>2, <4>3
    <3>2. CASE i > Len(kept)
      <4>1. i - Len(kept) \in 1 .. Len(chunk) /\ i = Len(kept) + (i - Len(kept))
            /\ d + i = Len(got) + (i - Len(kept))
        BY <1>1, <2>1, <2>2, <3>2
      <4> QED
        BY <1>2, <4>1
    <3> QED
      BY <1>1, <3>1, <3>2
  <2>4. ASSUME NEW i \in EndsOfLines(u)
        PROVE  i = d /\ kept = << >> /\ d \in Nat \ {0}
    <3>1. i \in 1 .. Len(u) - 1 /\ u[i] = "CR" /\ u[i + 1] = "LF"
      BY DEF EndsOfLines
    <3>2. ~(i + 1 <= Len(got))
      <4> SUFFICES ASSUME i + 1 <= Len(got) PROVE FALSE
        OBVIOUS
      <4>1. i \in 1 .. Len(got) - 1 /\ i \in 1 .. Len(got) /\ i + 1 \in 1 .. Len(got)
        BY <1>1, <3>1
      <4>2. i \in EndsOfLines(got)
        BY <1>2, <3>1, <4>1 DEF EndsOfLines
      <4> QED
        BY <4>2
    <3>3. ~(i > d)
      <4> SUFFICES ASSUME i > d PROVE FALSE
        OBVIOUS
      <4>1. i - d \in 1 .. Len(k) - 1 /\ i - d \in 1 .. Len(k) /\ (i - d) + 1 \in 1 .. Len(k)
            /\ d + (i - d) = i /\ d + ((i - d) + 1) = i + 1
        BY <1>1, <2>1, <2>2, <3>1
      <4>2. i - d \in EndsOfLines(k)
        BY <2>3, <3>1, <4>1 DEF EndsOfLines
      <4> QED
        BY <1>3, <4>2
    <3>4. i = d /\ Len(kept) = 0 /\ d \in Nat \ {0}
      BY <1>1, <2>1, <2>2, <3>1, <3>2, <3>3
    <3> QED
      BY <3>4
  <2>5. CASE EndsOfLines(u) = {}
    <3>1. LastLine(u) = u
      BY <1>1, <2>5, LastLineIs
    <3>2. Len(k) <= Len(u) /\ d = Len(u) - Len(k)
      BY <1>1, <2>1, <2>2
    <3>3. IsSuffix(k, u)
      BY <1>1, <2>3, <3>2, SuffixByPlace
    <3> QED
      BY <3>1, <3>3 DEF k, u
  <2>6. CASE EndsOfLines(u) # {}
    <3>1. d \in EndsOfLines(u) /\ kept = << >> /\ d \in Nat \ {0} /\ \A i \in EndsOfLines(u) : i <= d
      BY <2>4, <2>6
    <3>2. LastLine(u) = SubSeq(u, d + 2, Len(u))
      BY <1>1, <3>1, LastLineIs
    <3>3. Len(u) = d + Len(k) /\ k = chunk
      BY <2>2, <3>1 DEF k
    <3>4. d \in 1 .. Len(u) - 1 /\ u[d + 1] = "LF"
      BY <3>1 DEF EndsOfLines
    <3> DEFINE rest == SubSeq(u, d + 2, Len(u))
    <3>5. /\ rest \in Seq(Lexemes) /\ Len(rest) = Len(k) - 1
          /\ \A i \in 1 .. Len(rest) : rest[i] = u[d + 1 + i]
      BY <1>1, <3>3, <3>4
    <3> HIDE DEF rest
    <3>6. k[1] = "LF" /\ Len(k) \in Nat \ {0}
      BY <1>1, <2>3, <3>3, <3>4
    <3>7. \A i \in 1 .. Len(rest) : k[i + 1] = rest[i]
      <4> TAKE i \in 1 .. Len(rest)
      <4>1. i + 1 \in 1 .. Len(k) /\ d + (i + 1) = d + 1 + i
        BY <3>1, <3>5, <3>6
      <4> QED
        BY <2>3, <3>5, <4>1
    <3>8. k = << "LF" >> \o rest
      <4> DEFINE r == << "LF" >> \o rest
      <4>1. rest \in Seq({"LF"} \cup Lexemes)
        BY <3>5
      <4>2. /\ r \in Seq({"LF"} \cup Lexemes) /\ Len(r) = Len(k) /\ r[1] = "LF"
            /\ \A i \in 1 .. Len(rest) : r[i + 1] = rest[i]
        BY <3>5, <3>6, <4>1
      <4> HIDE DEF r
      <4>3. \A i \in 1 .. Len(k) : k[i] = r[i]
        <5> TAKE i \in 1 .. Len(k)
        <5>1. CASE i = 1
          BY <3>6, <4>2, <5>1
        <5>2. CASE i # 1
          <6>1. i - 1 \in 1 .. Len(rest) /\ (i - 1) + 1 = i
            BY <3>5, <3>6, <5>2
          <6> QED
            BY <3>7, <4>2, <6>1
        <5> QED
          BY <5>1, <5>2
      <4>4. k \in Seq({"LF"} \cup Lexemes)
        BY <1>1
      <4>5. k = r
        BY <4>2, <4>3, <4>4, SeqEqual
      <4> QED
        BY <4>5 DEF r
    <3> QED
      BY <3>2, <3>8 DEF k, u, rest
  <2> QED
    BY <2>5, <2>6
<1> QED
  BY <1>4, <1>5

\* A line that comes in pieces is taken by the row a whole one is taken by, with the
\* step the lines before it have left.
LEMMA HandledKept ==
    ASSUME TypeOK, KeptIsUnfinished, NEW chunk \in Chunks, OnRecive(chunk)
    PROVE  KeptIsUnfinished'
<1> DEFINE kept == m_strReceive \o chunk
           got == unfinished \o chunk
<1>1. /\ m_strReceive \in Seq(Lexemes) /\ unfinished \in Seq(Lexemes)
      /\ chunk \in Seq(Lexemes)
      /\ m_step \in Steps /\ replies \in Seq(Commands \cup {"OK"})
  BY ImapAssumption DEF TypeOK, Steps
<1>2. kept \in Seq(Lexemes) /\ got \in Seq(Lexemes)
  BY <1>1
<1>3. IsCommandComplete(kept) <=> EndsOfLines(kept) # {}
  BY DEF IsCommandComplete, EndsOfLines
<1>4. /\ \/ EndsOfLines(kept) # {} /\ HandleLine(kept)
         \/ EndsOfLines(kept) = {} /\ m_strReceive' = kept /\ UNCHANGED << m_step, replies >>
      /\ unfinished' = LastLine(got)
      /\ behind' = (behind \/ \E i \in EndsOfLines(got) : i + 1 < Len(got))
      /\ due' = IF behind' \/ EndsOfLines(got) = {} THEN due ELSE AfterLine(due, CodeOf(got))
  BY <1>3 DEF OnRecive, Sends
<1>5. EndsOfLines(unfinished') = {}
  BY <1>2, <1>4, LastLineIs
<1>6. /\ EndsOfLines(m_strReceive') = {}
      /\ IsSuffix(m_strReceive', unfinished') \/ m_strReceive' = << "LF" >> \o unfinished'
  <2>1. CASE EndsOfLines(kept) = {} /\ m_strReceive' = kept
    <3>1. EndsOfLines(unfinished) = {}
      BY DEF KeptIsUnfinished
    <3>2. IsSuffix(m_strReceive, unfinished) \/ m_strReceive = << "LF" >> \o unfinished
      BY DEF KeptIsUnfinished, HandledByLine
    <3> QED
      BY <1>1, <1>4, <2>1, <3>1, <3>2, KeptFollows
  <2>2. CASE m_strReceive' = << >>
    <3>1. EndsOfLines(<< >>) = {}
      BY DEF EndsOfLines
    <3>2. << >> \in Seq(Lexemes) /\ Len(<< >>) = 0
      OBVIOUS
    <3>3. unfinished' \in Seq(Lexemes)
      BY <1>2, <1>4, LastLineIs
    <3>4. IsSuffix(<< >>, unfinished')
      <4>1. 0 <= Len(unfinished') /\ 1 .. 0 = {}
        BY <3>3
      <4> QED
        BY <3>2, <3>3, <4>1, SuffixByPlace
    <3> QED
      BY <2>2, <3>1, <3>4
  <2> QED
    BY <1>4, <2>1, <2>2 DEF HandleLine
<1>7. ASSUME ~behind'
      PROVE  m_strReceive' = unfinished' /\ m_step' = due'.step /\ replies' = due'.replies
  <2>1. /\ ~behind /\ m_strReceive = unfinished
        /\ m_step = due.step /\ replies = due.replies
    BY <1>4, <1>7 DEF KeptIsUnfinished, HandledByLine
  <2>2. kept = got
    BY <2>1
  <2>3. CASE EndsOfLines(got) = {}
    <3>1. unfinished' = got /\ due' = due
      BY <1>2, <1>4, <2>3, LastLineIs
    <3> QED
      BY <1>4, <2>1, <2>2, <2>3, <3>1
  <2>4. CASE EndsOfLines(got) # {}
    <3> DEFINE code == CodeOf(got)
    <3>1. HandleLine(got) /\ due' = AfterLine(due, code)
      BY <1>4, <1>7, <2>2, <2>4
    <3>2. unfinished' = << >>
      <4>1. PICK i \in EndsOfLines(got) : TRUE
        BY <2>4
      <4>2. \A j \in EndsOfLines(got) : j \in 1 .. Len(got) - 1 /\ ~(j + 1 < Len(got))
        BY <1>4, <1>7 DEF EndsOfLines
      <4>3. Len(got) \in Nat
        BY <1>2
      <4>4. i + 1 = Len(got) /\ \A j \in EndsOfLines(got) : j <= i
        BY <4>2, <4>3
      <4>5. LastLine(got) = SubSeq(got, i + 2, Len(got))
        BY <1>2, <4>4, LastLineIs
      <4>6. SubSeq(got, i + 2, Len(got)) = << >>
        <5> HIDE DEF got
        <5>1. i + 2 > Len(got) /\ i + 2 \in Int
          BY <4>2, <4>3, <4>4
        <5> QED
          BY <1>2, <4>3, <5>1
      <4> QED
        BY <1>4, <4>5, <4>6
    <3>3. code \in Codes
      BY DEF CodeOf, Codes
    <3>4. /\ m_step' = Walk(m_step, code).step
          /\ replies' = replies \o Walk(m_step, code).response
          /\ m_strReceive' = << >>
      BY <3>1 DEF HandleLine
    <3> HIDE DEF code
    <3>5. DOMAIN imapArray = 1 .. 9
      BY DEF imapArray
    <3> DEFINE rows == {n \in DOMAIN imapArray :
                           imapArray[n].curState = due.step /\ imapArray[n].curCmdId = code}
    <3>6. due' = IF rows = {} THEN due
                 ELSE [step    |-> imapArray[CHOOSE n \in rows : TRUE].nextState,
                       replies |-> Append(due.replies, code)]
      BY <3>1 DEF AfterLine
    <3>7. \A n \in 1 .. 9 : n \in rows <=> Takes(n, m_step, code)
      BY <2>1, <3>5 DEF Takes
    <3>8. rows \subseteq 1 .. 9
      BY <3>5
    <3> HIDE DEF rows
    <3>9. CASE /\ Walk(m_step, code) = [step |-> m_step, response |-> << >>]
               /\ \A n \in 1 .. 9 : ~Takes(n, m_step, code)
      <4>1. rows = {}
        BY <3>7, <3>8, <3>9
      <4> QED
        BY <1>1, <2>1, <3>2, <3>4, <3>6, <3>9, <4>1
    <3>10. ASSUME NEW n \in 1 .. 9, Takes(n, m_step, code),
                  Walk(m_step, code) = [step |-> imapArray[n].nextState, response |-> << code >>]
           PROVE  /\ m_strReceive' = unfinished'
                  /\ m_step' = due'.step /\ replies' = due'.replies
      <4>1. rows = {n}
        <5>1. \A i, j \in 1 .. 9 : imapArray[i].curCmdId = imapArray[j].curCmdId => i = j
          BY DEF imapArray, Row
        <5> QED
          BY <3>7, <3>8, <3>10, <5>1 DEF Takes
      <4>2. (CHOOSE k \in rows : TRUE) = n /\ rows # {}
        BY <4>1
      <4>3. due' = [step |-> imapArray[n].nextState, replies |-> Append(due.replies, code)]
        BY <3>6, <4>2
      <4>4. code \in Commands
        BY <3>10 DEF Takes, imapArray, Row, Commands
      <4>5. replies \o << code >> = Append(replies, code)
        BY <1>1, <4>4
      <4> QED
        BY <2>1, <3>2, <3>4, <3>10, <4>3, <4>5
    <3> QED
      BY <1>1, <3>3, <3>9, <3>10, OneRowTakes
  <2> QED
    BY <2>3, <2>4
<1> QED
  BY <1>5, <1>6, <1>7 DEF KeptIsUnfinished, HandledByLine

\* For any reads, however lines are cut and whatever is lost behind them, a session
\* that loses nothing is one that is handed its lines, and one that does is back in
\* step with its peer at the next line end.
THEOREM HandledByLineCorrect == Spec => []HandledByLine
<1>1. Init => KeptIsUnfinished
  <2> SUFFICES ASSUME Init PROVE KeptIsUnfinished
    OBVIOUS
  <2>1. EndsOfLines(<< >>) = {}
    BY DEF EndsOfLines
  <2>2. IsSuffix(<< >>, << >>)
    <3>1. << >> \in Seq(Lexemes) /\ Len(<< >>) = 0 /\ 1 .. 0 = {} /\ 0 <= 0
      OBVIOUS
    <3>2. \A i \in 1 .. Len(<< >>) : FALSE
      BY <3>1
    <3> QED
      BY <3>1, <3>2, SuffixByPlace
  <2> QED
    BY <2>1, <2>2 DEF Init, KeptIsUnfinished, HandledByLine
<1>2. TypeOK /\ KeptIsUnfinished /\ [Next]_vars => KeptIsUnfinished'
  <2> SUFFICES ASSUME TypeOK, KeptIsUnfinished, [Next]_vars PROVE KeptIsUnfinished'
    OBVIOUS
  <2>1. CASE UNCHANGED vars
    BY <2>1 DEF vars, sent, KeptIsUnfinished, HandledByLine
  <2> QED
    BY <2>1, HandledKept DEF Next
<1>3. KeptIsUnfinished => HandledByLine
  BY DEF KeptIsUnfinished
<1> QED
  BY <1>1, <1>2, <1>3, TypeCorrect, PTL DEF Spec

----------------------------------------------------------------------------
(***************************************************************************)
(* Sequences and loops.                                                    *)
(***************************************************************************)
\* What holds at 0 and from each number for the next one holds up to n.
LEMMA UpTo ==
    ASSUME NEW n \in Nat, NEW S, 0 \in S, \A m \in 0 .. n : m < n /\ m \in S => m + 1 \in S
    PROVE  \A m \in 0 .. n : m \in S
<1> DEFINE Bad == (0 .. n) \ S
<1>1. Bad = {}
  <2> SUFFICES ASSUME Bad # {} PROVE FALSE
    OBVIOUS
  <2>1. PICK m \in Bad : \A k \in Bad : m <= k
    <3>1. Bad \in SUBSET Nat
      OBVIOUS
    <3> HIDE DEF Bad
    <3> QED
      BY <3>1, Smallest
  <2>2. m \in 0 .. n /\ m # 0 /\ m \notin S
    OBVIOUS
  <2>3. m - 1 \in 0 .. n /\ m - 1 < n /\ ~(m <= m - 1) /\ (m - 1) + 1 = m
    BY <2>2
  <2>4. m - 1 \in S
    BY <2>1, <2>3
  <2> QED
    BY <2>2, <2>3, <2>4
<1> QED
  BY <1>1

\* What a loop has after each of n turns, if it starts with a.
Runs(A, a, F, n) ==
    {f \in [0 .. n -> A] : f[0] = a /\ \A i \in 1 .. n : f[i] = F[<< i, f[i - 1] >>]}

\* A loop that hands what it has from one turn to the next can be run any number of
\* turns: there is a function of what it has after each.
LEMMA LoopRuns ==
    ASSUME NEW A, NEW a \in A, NEW F \in [Nat \X A -> A], NEW n \in Nat
    PROVE  Runs(A, a, F, n) # {}
<1> DEFINE Run(m) == \E f \in [0 .. m -> A] :
                        f[0] = a /\ \A i \in 1 .. m : f[i] = F[<< i, f[i - 1] >>]
           Bad == {m \in Nat : ~Run(m)}
<1>1. Run(0)
  <2>1. [i \in 0 .. 0 |-> a] \in [0 .. 0 -> A] /\ [i \in 0 .. 0 |-> a][0] = a
    OBVIOUS
  <2>2. 1 .. 0 = {}
    OBVIOUS
  <2> QED
    BY <2>1, <2>2
<1>2. ASSUME NEW m \in Nat, Run(m) PROVE Run(m + 1)
  <2>1. PICK f \in [0 .. m -> A] : f[0] = a /\ \A i \in 1 .. m : f[i] = F[<< i, f[i - 1] >>]
    BY <1>2
  <2> DEFINE g == [i \in 0 .. (m + 1) |-> IF i = m + 1 THEN F[<< m + 1, f[m] >>] ELSE f[i]]
  <2>2. F[<< m + 1, f[m] >>] \in A
    OBVIOUS
  <2>3. \A i \in 0 .. (m + 1) : i = m + 1 \/ i \in 0 .. m
    OBVIOUS
  <2>4. g \in [0 .. (m + 1) -> A]
    BY <2>2, <2>3
  <2>5. g[0] = a
    BY <2>1
  <2>6. ASSUME NEW i \in 1 .. (m + 1) PROVE g[i] = F[<< i, g[i - 1] >>]
    <3>1. i - 1 \in 0 .. (m + 1) /\ i - 1 # m + 1 /\ i \in 0 .. (m + 1)
      OBVIOUS
    <3>2. g[i - 1] = f[i - 1]
      BY <3>1
    <3>3. CASE i = m + 1
      <4>1. i - 1 = m
        BY <3>3
      <4>2. g[i] = F[<< m + 1, f[m] >>]
        BY <3>1, <3>3
      <4> HIDE DEF g
      <4> QED
        BY <3>2, <3>3, <4>1, <4>2
    <3>4. CASE i # m + 1
      BY <2>1, <3>1, <3>2, <3>4
    <3> QED
      BY <3>3, <3>4
  <2> HIDE DEF g
  <2> QED
    BY <2>4, <2>5, <2>6
<1> HIDE DEF Run
<1>3. Bad = {}
  <2> SUFFICES ASSUME Bad # {} PROVE FALSE
    OBVIOUS
  <2>1. PICK m \in Bad : \A k \in Bad : m <= k
    <3>1. Bad \in SUBSET Nat
      OBVIOUS
    <3> HIDE DEF Bad
    <3> QED
      BY <3>1, Smallest
  <2>2. m \in Nat /\ m # 0
    BY <1>1
  <2>3. m - 1 \in Nat /\ ~(m <= m - 1)
    BY <2>2
  <2>4. Run(m - 1)
    BY <2>1, <2>3
  <2>5. Run((m - 1) + 1)
    BY <1>2, <2>3, <2>4
  <2>6. (m - 1) + 1 = m
    BY <2>2
  <2> QED
    BY <2>1, <2>5, <2>6
<1>4. Run(n)
  BY <1>3
<1> QED
  BY <1>4 DEF Run, Runs

\* What is at each place of two sequences put together.
LEMMA Joined ==
    ASSUME NEW A, NEW s \in Seq(A), NEW t \in Seq(A)
    PROVE  /\ s \o t \in Seq(A) /\ Len(s \o t) = Len(s) + Len(t)
           /\ \A i \in 1 .. Len(s) : (s \o t)[i] = s[i]
           /\ \A i \in 1 .. Len(t) : (s \o t)[Len(s) + i] = t[i]
<1>1. s \o t \in Seq(A) /\ Len(s \o t) = Len(s) + Len(t)
  BY ConcatProperties
<1>2. \A i \in 1 .. Len(s) + Len(t) : (s \o t)[i] = IF i <= Len(s) THEN s[i] ELSE t[i - Len(s)]
  BY ConcatProperties
<1>3. Len(s) \in Nat /\ Len(t) \in Nat
  OBVIOUS
<1>4. \A i \in 1 .. Len(s) : (s \o t)[i] = s[i]
  BY <1>2, <1>3
<1>5. ASSUME NEW i \in 1 .. Len(t) PROVE (s \o t)[Len(s) + i] = t[i]
  <2>1. Len(s) + i \in 1 .. Len(s) + Len(t) /\ ~(Len(s) + i <= Len(s)) /\ (Len(s) + i) - Len(s) = i
    BY <1>3
  <2> QED
    BY <1>2, <2>1
<1> QED
  BY <1>1, <1>4, <1>5

\* Functions of one set that agree at each of its elements are the same.
LEMMA SameFunction ==
    ASSUME NEW A, NEW B, NEW f \in [A -> B], NEW g \in [A -> B], \A x \in A : f[x] = g[x]
    PROVE  f = g
OBVIOUS

----------------------------------------------------------------------------
(***************************************************************************)
(* The text helpers and the text RETR sends.                               *)
(***************************************************************************)
\* A text is short enough for a size_t to count it and to tell it from npos.
Fits(s) == s \in Seq(Words) /\ Len(s) < SizeRange - 1

\* A part of a text that fits is short enough too.
LEMMA PartFits ==
    ASSUME NEW s, Fits(s), NEW m \in 1 .. Len(s) + 1, NEW n \in 0 .. Len(s), m <= n + 1
    PROVE  /\ Fits(SubSeq(s, m, n))
           /\ Len(SubSeq(s, m, n)) = n - m + 1
           /\ \A i \in 1 .. n - m + 1 : SubSeq(s, m, n)[i] = s[m + i - 1]
<1>1. s \in Seq(Words) /\ m \in Int /\ n \in Int
  BY DEF Fits
<1>2. \A i \in m .. n : i \in 1 .. Len(s)
  BY <1>1
<1>3. SubSeq(s, m, n) \in Seq(Words) /\ Len(SubSeq(s, m, n)) = n - m + 1
  BY <1>1, <1>2
<1> QED
  BY <1>1, <1>3, MailTextAssumption DEF Fits

\* substr of a part inside a text cuts that part out.
LEMMA SubstrCuts ==
    ASSUME NEW s, Fits(s), NEW pos \in Nat, NEW count \in Nat, pos + count <= Len(s)
    PROVE  Substr(s, pos, count) = SubSeq(s, pos + 1, pos + count)
<1>1. Len(s) \in Nat /\ Len(s) < SizeRange /\ SizeRange \in Nat
  BY MailTextAssumption DEF Fits
<1>2. SizeT(count) = count
  BY <1>1 DEF SizeT
<1>3. Min({Len(s), pos + count}) = pos + count
  BY <1>1, MinIs
<1>4. ~(pos > Len(s))
  BY <1>1
<1> QED
  BY <1>2, <1>3, <1>4, Zenon DEF Substr

\* find returns the place of the first of some characters.
LEMMA IndexOfIs ==
    ASSUME NEW s, Fits(s), NEW char, NEW k \in 1 .. Len(s), s[k] = char,
           \A j \in 1 .. (k - 1) : s[j] # char
    PROVE  IndexOf(s, char) = k - 1 /\ k - 1 # Npos
<1> DEFINE places == {i - 1 : i \in At(s, char)}
<1>1. Len(s) \in Nat /\ Len(s) < SizeRange - 1 /\ SizeRange \in Nat /\ s \in Seq(Words)
  BY MailTextAssumption DEF Fits
<1>2. Npos = SizeRange - 1
  BY <1>1 DEF Npos, SizeT
<1>3. k - 1 \in places
  BY <1>1 DEF At
<1>4. \A p \in places : p \in Int /\ k - 1 <= p
  BY <1>1 DEF At
<1> HIDE DEF places
<1>5. Min(places \cup {Npos}) = k - 1
  <2>1. places \cup {Npos} \in SUBSET Int
    BY <1>1, <1>2, <1>4
  <2>2. \A p \in places \cup {Npos} : k - 1 <= p
    BY <1>1, <1>2, <1>4
  <2> QED
    BY <1>3, <2>1, <2>2, MinIs
<1> QED
  BY <1>1, <1>2, <1>5 DEF IndexOf, places

\* The address between the brackets of a line is what ParseFromToString returns.
LEMMA ParseAddrCuts ==
    ASSUME NEW s, Fits(s), NEW c \in At(s, ":"), NEW i \in At(s, "<"), NEW j \in At(s, ">"),
           1 < c, c < i, i < j,
           \A k \in 1 .. (j - 1) : /\ k < c => s[k] # ":"
                                   /\ c < k /\ k # i => s[k] \notin {"<", ">"}
    PROVE  ParseAddr(s) = SubSeq(s, i + 1, j - 1)
<1> DEFINE value == SubSeq(s, c + 1, Len(s))
<1>1. /\ Len(s) \in Nat /\ SizeRange \in Nat /\ Len(s) < SizeRange - 1
      /\ c \in 1 .. Len(s) /\ i \in 1 .. Len(s) /\ j \in 1 .. Len(s)
      /\ s[c] = ":" /\ s[i] = "<" /\ s[j] = ">"
  BY MailTextAssumption DEF Fits, At
<1>2. IndexOf(s, ":") = c - 1
  BY <1>1, IndexOfIs
<1>3. SizeT((c - 1) + 1) = c
  BY <1>1 DEF SizeT
<1>4. Substr(s, c, Len(s) - (c - 1) - 1) = value
  <2> DEFINE rest == Len(s) - (c - 1) - 1
  <2>1. rest \in Nat /\ c + rest = Len(s) /\ c \in Nat /\ c + rest <= Len(s)
    BY <1>1
  <2> HIDE DEF rest
  <2>2. Substr(s, c, rest) = SubSeq(s, c + 1, c + rest)
    BY <2>1, SubstrCuts
  <2> QED
    BY <2>1, <2>2 DEF rest
<1>5. /\ Fits(value) /\ Len(value) = Len(s) - c
      /\ \A n \in 1 .. Len(s) - c : value[n] = s[c + n]
  <2>1. /\ c + 1 \in 1 .. Len(s) + 1 /\ Len(s) \in 0 .. Len(s) /\ c + 1 <= Len(s) + 1
        /\ Len(s) - (c + 1) + 1 = Len(s) - c
        /\ \A n \in 1 .. Len(s) - c : c + 1 + n - 1 = c + n
    BY <1>1
  <2> QED
    BY <2>1, PartFits
<1> HIDE DEF value
<1>6. IndexOf(value, "<") = i - c - 1 /\ i - c - 1 # Npos
  <2>1. i - c \in 1 .. Len(value) /\ value[i - c] = "<"
    BY <1>1, <1>5
  <2>2. \A n \in 1 .. (i - c - 1) : value[n] # "<"
    <3> TAKE n \in 1 .. (i - c - 1)
    <3>1. c + n \in 1 .. (j - 1) /\ c < c + n /\ c + n # i /\ n \in 1 .. Len(s) - c
      BY <1>1
    <3> QED
      BY <1>5, <3>1
  <2> QED
    BY <1>5, <2>1, <2>2, IndexOfIs
<1>7. IndexOf(value, ">") = j - c - 1 /\ j - c - 1 # Npos
  <2>1. j - c \in 1 .. Len(value) /\ value[j - c] = ">"
    BY <1>1, <1>5
  <2>2. \A n \in 1 .. (j - c - 1) : value[n] # ">"
    <3> TAKE n \in 1 .. (j - c - 1)
    <3>1. c + n \in 1 .. (j - 1) /\ c < c + n /\ n \in 1 .. Len(s) - c
      BY <1>1
    <3>2. CASE c + n = i
      BY <1>1, <1>5, <3>1, <3>2
    <3>3. CASE c + n # i
      BY <1>5, <3>1, <3>3
    <3> QED
      BY <3>2, <3>3
  <2> QED
    BY <1>5, <2>1, <2>2, IndexOfIs
<1>8. Substr(value, (i - c - 1) + 1, (j - c - 1) - (i - c - 1) - 1)
        = SubSeq(value, i - c + 1, j - c - 1)
  <2> DEFINE first == (i - c - 1) + 1
             count == (j - c - 1) - (i - c - 1) - 1
  <2>1. /\ first \in Nat /\ count \in Nat /\ first + count <= Len(value)
        /\ first + 1 = i - c + 1 /\ first + count = j - c - 1
    BY <1>1, <1>5
  <2> HIDE DEF first, count
  <2>2. Substr(value, first, count) = SubSeq(value, first + 1, first + count)
    BY <1>5, <2>1, SubstrCuts
  <2> QED
    BY <2>1, <2>2 DEF first, count
<1>9. SubSeq(value, i - c + 1, j - c - 1) = SubSeq(s, i + 1, j - 1)
  BY <1>1, <1>5
<1>10. ParseAddr(s) = Substr(value, (i - c - 1) + 1, (j - c - 1) - (i - c - 1) - 1)
  <2>1. c - 1 # 0
    BY <1>1
  <2> QED
    BY <1>2, <1>3, <1>4, <1>6, <1>7, <2>1, Zenon DEF ParseAddr
<1> QED
  BY <1>8, <1>9, <1>10

\* Trim leaves what is between the first and the last character that is not blank.
LEMMA TrimIsSolid ==
    ASSUME NEW s, Fits(s)
    PROVE  Trim(s) = Solid(s)
<1> DEFINE solid == {i \in DOMAIN s : s[i] \notin Blank}
           starts == {i - 1 : i \in solid} \cup {Len(s)}
           stops == {i - 1 : i \in solid} \cup {0}
<1>1. /\ Len(s) \in Nat /\ SizeRange \in Nat /\ Len(s) < SizeRange - 1
      /\ s \in Seq(Words) /\ DOMAIN s = 1 .. Len(s)
  BY MailTextAssumption DEF Fits
<1>2. CASE s = << >>
  BY <1>1, <1>2 DEF Trim, Solid
<1>3. CASE s # << >> /\ solid = {}
  <2>1. Min(starts) = Len(s)
    <3>1. starts = {Len(s)}
      BY <1>3
    <3>2. {Len(s)} \in SUBSET Int /\ \A p \in {Len(s)} : Len(s) <= p
      BY <1>1
    <3>3. Min({Len(s)}) = Len(s)
      BY <3>2, MinIs
    <3> QED
      BY <3>1, <3>3
  <2>2. Max(stops) = 0
    BY <1>3, MaxIs
  <2>3. Trim(s) = Substr(s, Len(s), 0 - Len(s) + 1)
    BY <1>3, <2>1, <2>2, Zenon DEF Trim
  <2>4. Len(s) >= 1
    BY <1>1, <1>3
  <2>5. Min({Len(s), Len(s) + SizeT(0 - Len(s) + 1)}) = Len(s)
    <3> DEFINE more == SizeT(0 - Len(s) + 1)
    <3>1. more \in Nat
      BY <1>1 DEF SizeT
    <3> HIDE DEF more
    <3>2. {Len(s), Len(s) + more} \in SUBSET Int /\ Len(s) <= Len(s) + more /\ Len(s) <= Len(s)
      BY <1>1, <3>1
    <3>3. Min({Len(s), Len(s) + more}) = Len(s)
      BY <3>2, MinIs
    <3> QED
      BY <3>3 DEF more
  <2>6. ~(Len(s) > Len(s))
    BY <1>1
  <2>7. Trim(s) = SubSeq(s, Len(s) + 1, Len(s))
    BY <2>3, <2>5, <2>6, Zenon DEF Substr
  <2>8. SubSeq(s, Len(s) + 1, Len(s)) = << >>
    BY <1>1
  <2> QED
    BY <1>3, <2>7, <2>8 DEF Solid
<1>4. CASE s # << >> /\ solid # {}
  <2>1. /\ solid \in SUBSET (1 .. Len(s)) /\ solid \in SUBSET Nat /\ solid \in SUBSET Int
        /\ solid \in SUBSET (0 .. Len(s))
    BY <1>1
  <2>0. solid # {}
    BY <1>4
  <2> HIDE DEF solid
  <2>2. PICK a \in solid : \A i \in solid : a <= i
    BY <2>0, <2>1, Smallest
  <2>3. PICK z \in solid : \A i \in solid : i <= z
    BY <1>1, <2>0, <2>1, Greatest
  <2>4. a \in 1 .. Len(s) /\ z \in 1 .. Len(s) /\ a <= z
    BY <2>1, <2>2, <2>3
  <2>5. Min(solid) = a /\ Max(solid) = z
    <3>1. Min(solid) = a
      BY <2>1, <2>2, MinIs
    <3>2. Max(solid) = z
      BY <2>1, <2>3, MaxIs
    <3> QED
      BY <3>1, <3>2
  <2>6. Min(starts) = a - 1
    <3>1. a - 1 \in starts /\ \A p \in starts : p \in Int /\ a - 1 <= p
      BY <1>1, <2>1, <2>2, <2>4
    <3> HIDE DEF starts
    <3> QED
      BY <3>1, MinIs
  <2>7. Max(stops) = z - 1
    <3>1. z - 1 \in stops /\ \A p \in stops : p \in Int /\ p <= z - 1
      BY <1>1, <2>1, <2>3, <2>4
    <3> HIDE DEF stops
    <3> QED
      BY <3>1, MaxIs
  <2>8. Trim(s) = Substr(s, a - 1, (z - 1) - (a - 1) + 1)
    BY <1>4, <2>6, <2>7, Zenon DEF Trim, solid
  <2>9. Substr(s, a - 1, (z - 1) - (a - 1) + 1) = SubSeq(s, a, z)
    <3>1. /\ a - 1 \in Nat /\ (z - 1) - (a - 1) + 1 \in Nat /\ (a - 1) + 1 = a
          /\ (a - 1) + ((z - 1) - (a - 1) + 1) = z /\ z <= Len(s)
      BY <2>4
    <3> QED
      BY <3>1, SubstrCuts
  <2>10. Solid(s) = SubSeq(s, a, z)
    BY <1>4, <2>5, Zenon DEF Solid, solid
  <2> QED
    BY <2>8, <2>9, <2>10
<1> QED
  BY <1>2, <1>3, <1>4

\* A text grows by pieces and no further than MaxSize.
TextOK == text \in Seq(Words) /\ Len(text) <= MaxSize

\* The texts that are received are typed and short enough.
LEMMA TextCorrect == TextSpec => []TextOK
<1>1. TextInit => TextOK
  BY MailTextAssumption DEF TextInit, TextOK
<1>2. TextOK /\ [TextNext]_text => TextOK'
  <2> SUFFICES ASSUME TextOK, [TextNext]_text PROVE TextOK'
    OBVIOUS
  <2>1. CASE UNCHANGED text
    BY <2>1 DEF TextOK
  <2>2. ASSUME NEW piece \in Pieces, Receive(piece) PROVE TextOK'
    <3>1. piece \in Seq(Words) /\ text \in Seq(Words)
      BY MailTextAssumption DEF TextOK
    <3>2. text \o piece \in Seq(Words) /\ Len(text \o piece) = Len(text) + Len(piece)
      BY <3>1
    <3> QED
      BY <2>2, <3>2 DEF TextOK, Receive
  <2> QED
    BY <2>1, <2>2 DEF TextNext
<1> QED
  BY <1>1, <1>2, PTL DEF TextSpec

\* A text that was received fits.
LEMMA ReceivedFits == ASSUME TextOK PROVE Fits(text)
BY MailTextAssumption DEF TextOK, Fits

\* The receiver of a line is the address in the brackets behind its first colon
\* without the blanks around it, however long the line is: lengths of size_t that are
\* taken below zero come out right, for any number of values of a size_t
\* (ParseFromToString, Trim).
THEOREM ReceiversCut == TextSpec => []ReceiverIsInBrackets
<1>1. TextOK => ReceiverIsInBrackets
  <2> SUFFICES ASSUME TextOK,
                      NEW c \in At(text, ":"), NEW i \in At(text, "<"), NEW j \in At(text, ">"),
                      1 < c /\ c < i /\ i < j,
                      \A k \in 1 .. (j - 1) : /\ k < c => text[k] # ":"
                                              /\ c < k /\ k # i => text[k] \notin {"<", ">"}
               PROVE  Trim(ParseAddr(text)) = Solid(SubSeq(text, i + 1, j - 1))
    BY Zenon DEF ReceiverIsInBrackets
  <2>1. Fits(text)
    BY ReceivedFits
  <2>2. ParseAddr(text) = SubSeq(text, i + 1, j - 1)
    BY <2>1, ParseAddrCuts, Zenon
  <2>3. i \in 1 .. Len(text) /\ j \in 1 .. Len(text) /\ Len(text) \in Nat
    BY <2>1 DEF Fits, At
  <2>4. Fits(SubSeq(text, i + 1, j - 1))
    <3>1. /\ i + 1 \in 1 .. Len(text) + 1 /\ j - 1 \in 0 .. Len(text)
          /\ i + 1 <= (j - 1) + 1
      BY <2>3
    <3> QED
      BY <2>1, <3>1, PartFits
  <2> QED
    BY <2>2, <2>4, TrimIsSolid
<1> QED
  BY <1>1, TextCorrect, PTL

----------------------------------------------------------------------------
\* The characters of a text, and those a header is written with.
Letters == Words \cup {"CR", "LF", "DOT", "SP", ":", "Date", "From", "To", "Subject"}

\* Where a text breaks, and where a line of a single dot follows.
BreaksAt(s, i) == i \in 1 .. Len(s) - 1 /\ s[i] = "CR" /\ s[i + 1] = "LF"

EndsAt(s, i) ==
    /\ i \in 1 .. Len(s) - 4
    /\ s[i] = "CR" /\ s[i + 1] = "LF" /\ s[i + 2] = "DOT" /\ s[i + 3] = "CR" /\ s[i + 4] = "LF"

\* A part of a text is a given one if it is at each place.
LEMMA PartIs ==
    ASSUME NEW A, NEW s \in Seq(A), NEW n \in Nat, NEW i \in 1 .. Len(s) - (n - 1),
           NEW pat \in [1 .. n -> A]
    PROVE  SubSeq(s, i, i + n - 1) = pat <=> \A k \in 1 .. n : s[i + k - 1] = pat[k]
<1> DEFINE part == SubSeq(s, i, i + n - 1)
<1>1. /\ i \in Int /\ i + n - 1 \in Int /\ \A j \in i .. i + n - 1 : j \in 1 .. Len(s)
      /\ (i + n - 1) - i + 1 = n /\ (i <= i + n - 1 => n >= 1) /\ (~(i <= i + n - 1) => n = 0)
  OBVIOUS
<1>2. \A j \in i .. i + n - 1 : s[j] \in A
  BY <1>1, ElementOfSeq
<1>3. part \in Seq(A) /\ Len(part) = (IF i <= i + n - 1 THEN (i + n - 1) - i + 1 ELSE 0)
  BY <1>1, <1>2, SubSeqProperties
<1>4. \A k \in 1 .. n : part[k] = s[i + k - 1]
  BY <1>1, <1>2, SubSeqProperties
<1>5. Len(part) = n
  BY <1>1, <1>3
<1> HIDE DEF part
<1>6. part \in [1 .. n -> A]
  BY <1>3, <1>5
<1>7. part = pat <=> \A k \in 1 .. n : part[k] = pat[k]
  BY <1>6, SameFunction
<1>8. part = pat <=> \A k \in 1 .. n : s[i + k - 1] = pat[k]
  BY <1>4, <1>7
<1> QED
  BY <1>8 DEF part

\* The line breaks of a text are where "CR" stands before "LF".
LEMMA BreaksAre ==
    ASSUME NEW A, NEW s \in Seq(A), {"CR", "LF"} \subseteq A, NEW i
    PROVE  i \in LineEnds(s) <=> BreaksAt(s, i)
<1>1. Len(s) \in Nat /\ Len(CRLF) = 2 /\ CRLF[1] = "CR" /\ CRLF[2] = "LF" /\ CRLF \in [1 .. 2 -> A]
  BY DEF CRLF
<1>2. i \in LineEnds(s) <=> i \in 1 .. Len(s) - 1 /\ SubSeq(s, i, i + 2 - 1) = CRLF
  <2>1. Len(s) - Len(CRLF) + 1 = Len(s) - 1 /\ \A j \in 1 .. Len(s) - 1 : j + Len(CRLF) - 1 = j + 2 - 1
    BY <1>1
  <2> QED
    BY <2>1 DEF LineEnds, Find
<1>3. ASSUME i \in 1 .. Len(s) - 1
      PROVE  SubSeq(s, i, i + 2 - 1) = CRLF <=> s[i] = "CR" /\ s[i + 1] = "LF"
  <2>1. i \in 1 .. Len(s) - (2 - 1) /\ 2 \in Nat
    BY <1>1, <1>3
  <2>2. SubSeq(s, i, i + 2 - 1) = CRLF <=> \A k \in 1 .. 2 : s[i + k - 1] = CRLF[k]
    BY <1>1, <2>1, PartIs
  <2>3. i + 1 - 1 = i /\ i + 2 - 1 = i + 1
    BY <1>3
  <2>4. (\A k \in 1 .. 2 : s[i + k - 1] = CRLF[k]) <=> s[i] = "CR" /\ s[i + 1] = "LF"
    <3>1. 1 .. 2 = {1, 2}
      OBVIOUS
    <3> QED
      BY <1>1, <2>3, <3>1
  <2> QED
    BY <2>2, <2>4
<1> QED
  BY <1>2, <1>3 DEF BreaksAt

\* The ends of a mail are where a line of a single dot follows.
LEMMA EndsAre ==
    ASSUME NEW A, NEW s \in Seq(A), {"CR", "LF", "DOT"} \subseteq A, NEW i
    PROVE  i \in Find(s, EndOfData) <=> EndsAt(s, i)
<1> DEFINE pat == EndOfData
<1>1. /\ Len(s) \in Nat /\ Len(pat) = 5 /\ pat \in [1 .. 5 -> A]
      /\ pat[1] = "CR" /\ pat[2] = "LF" /\ pat[3] = "DOT" /\ pat[4] = "CR" /\ pat[5] = "LF"
  BY DEF EndOfData
<1> HIDE DEF pat
<1>2. i \in Find(s, pat) <=> i \in 1 .. Len(s) - 4 /\ SubSeq(s, i, i + 5 - 1) = pat
  <2>1. Len(s) - Len(pat) + 1 = Len(s) - 4
        /\ \A j \in 1 .. Len(s) - 4 : j + Len(pat) - 1 = j + 5 - 1
    BY <1>1
  <2> QED
    BY <2>1 DEF Find
<1>3. ASSUME i \in 1 .. Len(s) - 4
      PROVE  SubSeq(s, i, i + 5 - 1) = pat <=> EndsAt(s, i)
  <2>1. i \in 1 .. Len(s) - (5 - 1) /\ 5 \in Nat
    BY <1>1, <1>3
  <2>2. SubSeq(s, i, i + 5 - 1) = pat <=> \A k \in 1 .. 5 : s[i + k - 1] = pat[k]
    BY <1>1, <2>1, PartIs
  <2>3. i + 1 - 1 = i /\ i + 2 - 1 = i + 1 /\ i + 3 - 1 = i + 2 /\ i + 4 - 1 = i + 3 /\ i + 5 - 1 = i + 4
    BY <1>3
  <2>4. 1 .. 5 = {1, 2, 3, 4, 5}
    OBVIOUS
  <2>5. (\A k \in 1 .. 5 : s[i + k - 1] = pat[k])
          <=> /\ s[i] = pat[1] /\ s[i + 1] = pat[2] /\ s[i + 2] = pat[3]
              /\ s[i + 3] = pat[4] /\ s[i + 4] = pat[5]
    BY <2>3, <2>4
  <2> QED
    BY <1>1, <1>3, <2>2, <2>5 DEF EndsAt
<1>4. EndsAt(s, i) => i \in 1 .. Len(s) - 4
  BY DEF EndsAt
<1> QED
  BY <1>2, <1>3, <1>4 DEF pat

\* No line break of a text is followed by a dot.
NoDotLine(s) == \A i \in 1 .. Len(s) - 2 : ~(s[i] = "CR" /\ s[i + 1] = "LF" /\ s[i + 2] = "DOT")

\* Two texts put together hold no line that begins with a dot either, unless it
\* begins where they meet.
LEMMA NoDotLineJoined ==
    ASSUME NEW A, NEW s \in Seq(A), NEW t \in Seq(A), NoDotLine(s), NoDotLine(t),
           \/ t = << >> \/ t[1] \notin {"LF", "DOT"}
           \/ s # << >> /\ s[Len(s)] \notin {"CR", "LF"}
    PROVE  /\ s \o t \in Seq(A) /\ NoDotLine(s \o t)
           /\ t # << >> => s \o t # << >> /\ (s \o t)[Len(s \o t)] = t[Len(t)]
<1> DEFINE both == s \o t
           m == Len(s)
           n == Len(t)
<1>1. both \in Seq(A) /\ Len(both) = m + n /\ m \in Nat /\ n \in Nat
  BY Joined
<1>2. \A i \in 1 .. m : both[i] = s[i]
  BY Joined
<1>3. \A i \in 1 .. n : both[m + i] = t[i]
  BY Joined
<1>7. (t = << >> => n = 0) /\ (s # << >> => m >= 1)
  BY <1>1
<1>8. \A i \in 1 .. m - 2 : ~(s[i] = "CR" /\ s[i + 1] = "LF" /\ s[i + 2] = "DOT")
  BY DEF NoDotLine
<1>9. \A i \in 1 .. n - 2 : ~(t[i] = "CR" /\ t[i + 1] = "LF" /\ t[i + 2] = "DOT")
  BY DEF NoDotLine
<1>10. n = 0 \/ t[1] \notin {"LF", "DOT"} \/ (m >= 1 /\ s[m] \notin {"CR", "LF"})
  BY <1>7
<1>11. t # << >> => n >= 1
  BY <1>1
<1> HIDE DEF both, m, n
<1>12. ASSUME n >= 1 PROVE both # << >> /\ both[m + n] = t[n]
  <2>1. n \in 1 .. n
    BY <1>1, <1>12
  <2> QED
    BY <1>1, <1>3, <1>12, <2>1
<1>13. Len(both) = m + n
  BY <1>1
<1> SUFFICES ASSUME NEW i \in 1 .. (m + n) - 2,
                    both[i] = "CR", both[i + 1] = "LF", both[i + 2] = "DOT"
             PROVE  FALSE
  BY <1>1, <1>11, <1>12, <1>13 DEF NoDotLine, both, m, n
<1>4. CASE i + 2 <= m
  <2>1. i \in 1 .. m - 2 /\ i \in 1 .. m /\ i + 1 \in 1 .. m /\ i + 2 \in 1 .. m
    BY <1>1, <1>4
  <2> QED
    BY <1>2, <1>8, <2>1
<1>5. CASE m < i
  <2> DEFINE j == i - m
  <2>1. j \in 1 .. n - 2 /\ j \in 1 .. n /\ j + 1 \in 1 .. n /\ j + 2 \in 1 .. n
        /\ m + j = i /\ m + (j + 1) = i + 1 /\ m + (j + 2) = i + 2
    BY <1>1, <1>5
  <2> HIDE DEF j
  <2>2. t[j] = "CR" /\ t[j + 1] = "LF" /\ t[j + 2] = "DOT"
    BY <1>3, <2>1
  <2> QED
    BY <1>9, <2>1, <2>2
<1>6. CASE i <= m /\ m < i + 2
  <2>1. (i = m \/ i + 1 = m) /\ m \in 1 .. m /\ n >= 1 /\ 1 \in 1 .. n
    BY <1>1, <1>6
  <2>2. both[m] = s[m] /\ both[m + 1] = t[1]
    BY <1>2, <1>3, <2>1
  <2>3. s[m] \in {"CR", "LF"}
    BY <2>1, <2>2
  <2>4. t[1] \in {"LF", "DOT"}
    <3>1. CASE i = m
      BY <2>2, <3>1
    <3>2. CASE i + 1 = m
      <4>1. m + 1 = i + 2
        BY <1>1, <3>2
      <4> QED
        BY <2>2, <4>1
    <3> QED
      BY <2>1, <3>1, <3>2
  <2> QED
    BY <1>10, <2>1, <2>3, <2>4
<1> QED
  BY <1>1, <1>4, <1>5, <1>6

\* The header of an answer, and the line break behind it, hold no line that begins
\* with a dot, if neither the sender nor the receiver does.
LEMMA HeaderHoldsNoDot ==
    ASSUME NEW email, email.sender \in Seq(Letters), email.receiver \in Seq(Letters),
           NoDotLine(email.sender), NoDotLine(email.receiver)
    PROVE  /\ RspHeader(email) \in Seq(Letters)
           /\ RspHeader(email) \o CRLF \in Seq(Letters) /\ NoDotLine(RspHeader(email) \o CRLF)
<1> DEFINE Good(s) == s \in Seq(Letters) /\ NoDotLine(s)
           Closed(s) == s # << >> /\ s[Len(s)] \notin {"CR", "LF"}
           date == << "Date", ":", "SP" >>
           from == << "From", ":", "SP" >>
           to == << "To", ":", "SP" >>
           subject == << "Subject", ":", "SP", "SP", "SP" >>
           space == << "SP" >>
           sender == email.sender
           receiver == email.receiver
           x1 == date \o CRLF
           x2 == x1 \o from
           x3 == x2 \o sender
           x4 == x3 \o space
           x5 == x4 \o CRLF
           x6 == x5 \o to
           x7 == x6 \o receiver
           x8 == x7 \o space
           x9 == x8 \o CRLF
           x10 == x9 \o subject
           x11 == x10 \o CRLF
           x12 == x11 \o CRLF
<1>1. ASSUME NEW s, NEW t, Good(s), Good(t), t[1] \notin {"LF", "DOT"}
      PROVE  Good(s \o t) /\ (t # << >> /\ t[Len(t)] \notin {"CR", "LF"} => Closed(s \o t))
  BY <1>1, NoDotLineJoined
<1>2. ASSUME NEW s, NEW t, Good(s), Good(t), Closed(s) PROVE Good(s \o t)
  BY <1>2, NoDotLineJoined
<1>3. Good(CRLF) /\ CRLF[1] \notin {"LF", "DOT"}
  BY DEF NoDotLine, CRLF, Letters
<1>4. Good(space) /\ space[1] \notin {"LF", "DOT"}
  BY DEF NoDotLine, Letters
<1>5. Good(date)
  BY DEF NoDotLine, Letters
<1>6. Good(from) /\ from[1] \notin {"LF", "DOT"} /\ from # << >> /\ from[Len(from)] \notin {"CR", "LF"}
  BY DEF NoDotLine, Letters
<1>7. Good(to) /\ to[1] \notin {"LF", "DOT"} /\ to # << >> /\ to[Len(to)] \notin {"CR", "LF"}
  BY DEF NoDotLine, Letters
<1>8. Good(subject) /\ subject[1] \notin {"LF", "DOT"}
  BY DEF NoDotLine, Letters
<1>9. Good(sender) /\ Good(receiver)
  OBVIOUS
<1>10. RspHeader(email) = x11 /\ RspHeader(email) \o CRLF = x12
  BY DEF RspHeader
<1> HIDE DEF Good, Closed, date, from, to, subject, space, sender, receiver
<1>11. Good(x1)
  BY <1>1, <1>3, <1>5, Zenon
<1> HIDE DEF x1
<1>12. Good(x2) /\ Closed(x2)
  BY <1>1, <1>6, <1>11, Zenon
<1> HIDE DEF x2
<1>13. Good(x3)
  BY <1>2, <1>9, <1>12, Zenon
<1> HIDE DEF x3
<1>14. Good(x4)
  BY <1>1, <1>4, <1>13, Zenon
<1> HIDE DEF x4
<1>15. Good(x5)
  BY <1>1, <1>3, <1>14, Zenon
<1> HIDE DEF x5
<1>16. Good(x6) /\ Closed(x6)
  BY <1>1, <1>7, <1>15, Zenon
<1> HIDE DEF x6
<1>17. Good(x7)
  BY <1>2, <1>9, <1>16, Zenon
<1> HIDE DEF x7
<1>18. Good(x8)
  BY <1>1, <1>4, <1>17, Zenon
<1> HIDE DEF x8
<1>19. Good(x9)
  BY <1>1, <1>3, <1>18, Zenon
<1> HIDE DEF x9
<1>20. Good(x10)
  BY <1>1, <1>8, <1>19, Zenon
<1> HIDE DEF x10
<1>21. Good(x11)
  BY <1>1, <1>3, <1>20, Zenon
<1> HIDE DEF x11
<1>22. Good(x12)
  BY <1>1, <1>3, <1>21, Zenon
<1> QED
  BY <1>10, <1>21, <1>22 DEF Good

\* What a client reads of an answer, if no line of its first part begins with a dot:
\* it reads on to the first end in the second part.
LEMMA ReadsToEnd ==
    ASSUME NEW s \in Seq(Letters), NEW t \in Seq(Letters), NoDotLine(s), s # << >>,
           \/ t[1] \notin {"LF", "DOT"}
           \/ s[Len(s)] \notin {"CR", "LF"},
           NEW e, EndsAt(t, e), \A i \in Nat : EndsAt(t, i) => e <= i
    PROVE  ClientReads(s \o t) = s \o SubSeq(t, 1, e + 4)
<1> DEFINE both == s \o t
           m == Len(s)
           n == Len(t)
<1>1. both \in Seq(Letters) /\ Len(both) = m + n /\ m \in Nat /\ n \in Nat
  BY Joined
<1>2. \A i \in 1 .. m : both[i] = s[i]
  BY Joined
<1>3. \A i \in 1 .. n : both[m + i] = t[i]
  BY Joined
<1>4. m >= 1
  BY <1>1
<1>5. \A i \in 1 .. m - 2 : ~(s[i] = "CR" /\ s[i + 1] = "LF" /\ s[i + 2] = "DOT")
  BY DEF NoDotLine
<1>6. t[1] \notin {"LF", "DOT"} \/ s[m] \notin {"CR", "LF"}
  OBVIOUS
<1>7. e \in 1 .. n - 4
  BY DEF EndsAt
<1>0. {"CR", "LF", "DOT"} \subseteq Letters
  BY DEF Letters
<1> HIDE DEF m, n, both
<1>8. EndsAt(both, m + e)
  <2>1. /\ e \in 1 .. n /\ e + 1 \in 1 .. n /\ e + 2 \in 1 .. n /\ e + 3 \in 1 .. n /\ e + 4 \in 1 .. n
        /\ m + e \in 1 .. (m + n) - 4
        /\ (m + e) + 1 = m + (e + 1) /\ (m + e) + 2 = m + (e + 2)
        /\ (m + e) + 3 = m + (e + 3) /\ (m + e) + 4 = m + (e + 4)
    BY <1>1, <1>7
  <2>2. t[e] = "CR" /\ t[e + 1] = "LF" /\ t[e + 2] = "DOT" /\ t[e + 3] = "CR" /\ t[e + 4] = "LF"
    BY DEF EndsAt
  <2> QED
    BY <1>1, <1>3, <2>1, <2>2 DEF EndsAt
<1>9. ASSUME NEW i, EndsAt(both, i) PROVE m + e <= i
  <2>1. /\ i \in 1 .. (m + n) - 4
        /\ both[i] = "CR" /\ both[i + 1] = "LF" /\ both[i + 2] = "DOT"
        /\ both[i + 3] = "CR" /\ both[i + 4] = "LF"
    BY <1>1, <1>9 DEF EndsAt
  <2>2. CASE i + 2 <= m
    <3>1. i \in 1 .. m - 2 /\ i \in 1 .. m /\ i + 1 \in 1 .. m /\ i + 2 \in 1 .. m
      BY <1>1, <2>1, <2>2
    <3> QED
      BY <1>2, <1>5, <2>1, <3>1
  <2>3. CASE i <= m /\ m < i + 2
    <3>1. (i = m \/ i + 1 = m) /\ m \in 1 .. m /\ n >= 1 /\ 1 \in 1 .. n
      BY <1>1, <1>4, <2>1, <2>3
    <3>2. both[m] = s[m] /\ both[m + 1] = t[1]
      BY <1>2, <1>3, <3>1
    <3>3. s[m] \in {"CR", "LF"}
      BY <2>1, <3>1, <3>2
    <3>4. t[1] \in {"LF", "DOT"}
      <4>1. CASE i = m
        BY <2>1, <3>2, <4>1
      <4>2. CASE i + 1 = m
        <5>1. m + 1 = i + 2
          BY <1>1, <2>1, <4>2
        <5> QED
          BY <2>1, <3>2, <5>1
      <4> QED
        BY <3>1, <4>1, <4>2
    <3> QED
      BY <1>6, <3>3, <3>4
  <2>4. CASE m < i
    <3> DEFINE j == i - m
    <3>1. /\ j \in 1 .. n - 4 /\ j \in Nat /\ m + j = i
          /\ m + (j + 1) = i + 1 /\ m + (j + 2) = i + 2 /\ m + (j + 3) = i + 3 /\ m + (j + 4) = i + 4
          /\ j \in 1 .. n /\ j + 1 \in 1 .. n /\ j + 2 \in 1 .. n /\ j + 3 \in 1 .. n /\ j + 4 \in 1 .. n
      BY <1>1, <2>1, <2>4
    <3> HIDE DEF j
    <3>2. EndsAt(t, j)
      BY <1>3, <2>1, <3>1 DEF EndsAt, n
    <3>3. e <= j
      BY <3>1, <3>2
    <3> QED
      BY <1>1, <1>7, <3>1, <3>3
  <2> QED
    BY <1>1, <2>1, <2>2, <2>3, <2>4
<1>10. Min(Find(both, EndOfData)) = m + e
  <2> DEFINE ends == Find(both, EndOfData)
  <2>1. \A i : i \in ends <=> EndsAt(both, i)
    BY <1>0, <1>1, EndsAre
  <2>2. \A i : EndsAt(both, i) => i \in Int
    BY <1>1 DEF EndsAt
  <2> HIDE DEF ends
  <2>3. ends \in SUBSET Int /\ m + e \in ends /\ \A i \in ends : m + e <= i
    BY <1>8, <1>9, <2>1, <2>2
  <2>4. Min(ends) = m + e
    BY <2>3, MinIs
  <2> QED
    BY <2>4 DEF ends
<1>11. ClientReads(both) = SubSeq(both, 1, m + (e + 4))
  <2>1. Len(EndOfData) = 5
    BY DEF EndOfData
  <2>2. (m + e) + 5 - 1 = m + (e + 4)
    BY <1>1, <1>7
  <2> QED
    BY <1>10, <2>1, <2>2 DEF ClientReads
<1>12. SubSeq(both, 1, m) = s
  <2>1. 1 \in 1 .. Len(s) /\ Len(s) \in 1 .. Len(s)
    BY <1>4 DEF m
  <2>2. SubSeq(s \o t, 1, Len(s)) = SubSeq(s, 1, Len(s))
    BY <2>1, SubSeqOfConcat1
  <2>3. SubSeq(s, 1, Len(s)) = s
    BY SubSeqFull
  <2> QED
    BY <2>2, <2>3 DEF m, both
<1>13. SubSeq(both, m + 1, m + (e + 4)) = SubSeq(t, 1, e + 4)
  <2>1. m + 1 \in m + 1 .. m + n /\ m + (e + 4) \in m + 1 .. m + n
        /\ (m + 1) - m = 1 /\ (m + (e + 4)) - m = e + 4
    BY <1>1, <1>7
  <2>2. SubSeq(both, m + 1, m + (e + 4)) = SubSeq(t, (m + 1) - m, (m + (e + 4)) - m)
    BY <2>1, SubSeqOfConcat2 DEF both, m, n
  <2> QED
    BY <2>1, <2>2
<1>14. SubSeq(both, 1, m) \o SubSeq(both, m + 1, m + (e + 4)) = SubSeq(both, 1, m + (e + 4))
  <2> DEFINE z == m + (e + 4)
  <2>1. 1 \in 1 .. Len(both) + 1 /\ m \in 1 - 1 .. Len(both) /\ z \in m .. Len(both)
    BY <1>1, <1>7
  <2> HIDE DEF z
  <2>2. SubSeq(both, 1, m) \o SubSeq(both, m + 1, z) = SubSeq(both, 1, z)
    BY <1>1, <2>1, ConcatAdjacentSubSeq
  <2> QED
    BY <2>2 DEF z
<1>15. ClientReads(both) = s \o SubSeq(t, 1, e + 4)
  BY <1>11, <1>12, <1>13, <1>14
<1> QED
  BY <1>15 DEF both

----------------------------------------------------------------------------
\* The line breaks from a place of a text on.
EndsFrom(s, start) == {e \in LineEnds(s) : e >= start}

\* The lines from a place on, given those from each later place.
LinesAt(s, start, lines) ==
    IF EndsFrom(s, start) = {} THEN << >>
    ELSE << SubSeq(s, start, Min(EndsFrom(s, start)) + 1) >> \o lines[Min(EndsFrom(s, start)) + 2]

\* A line ends with the first line break from its start on, inside the text.
LEMMA LineEndsBehind ==
    ASSUME NEW s \in Seq(Words), NEW start \in 1 .. Len(s) + 1, EndsFrom(s, start) # {}
    PROVE  /\ Min(EndsFrom(s, start)) \in LineEnds(s)
           /\ Min(EndsFrom(s, start)) \in start .. Len(s) - 1
           /\ \A e \in LineEnds(s) : start <= e => Min(EndsFrom(s, start)) <= e
<1> DEFINE ends == EndsFrom(s, start)
<1>0. {"CR", "LF"} \subseteq Words
  BY ProtoUtilAssumption
<1>1. Len(s) \in Nat
  OBVIOUS
<1>2. \A e \in LineEnds(s) : e \in 1 .. Len(s) - 1
  BY <1>0, BreaksAre DEF BreaksAt
<1>3. ends \in SUBSET Nat /\ ends # {}
  BY <1>1, <1>2 DEF EndsFrom
<1> HIDE DEF ends
<1>4. PICK e \in ends : \A f \in ends : e <= f
  BY <1>3, Smallest
<1>5. Min(ends) = e
  <2>1. ends \in SUBSET Int
    BY <1>3
  <2> QED
    BY <1>4, <2>1, MinIs
<1>6. e \in LineEnds(s) /\ e >= start /\ \A f \in LineEnds(s) : f >= start => e <= f
  BY <1>4 DEF ends, EndsFrom
<1>7. e \in start .. Len(s) - 1 /\ \A f \in LineEnds(s) : start <= f => e <= f
  BY <1>1, <1>2, <1>6
<1> QED
  BY <1>5, <1>6, <1>7 DEF ends

\* The lines from a place on are texts, if those from later places are.
LEMMA LinesAtTyped ==
    ASSUME NEW s \in Seq(Words), NEW start \in 1 .. Len(s) + 1, NEW lines,
           \A p \in start + 1 .. Len(s) + 1 : lines[p] \in Seq(Seq(Words))
    PROVE  LinesAt(s, start, lines) \in Seq(Seq(Words))
<1>1. CASE EndsFrom(s, start) = {}
  <2>1. << >> \in Seq(Seq(Words))
    OBVIOUS
  <2> QED
    BY <1>1, <2>1 DEF LinesAt
<1>2. CASE EndsFrom(s, start) # {}
  <2> DEFINE e == Min(EndsFrom(s, start))
             line == SubSeq(s, start, e + 1)
             rest == lines[e + 2]
  <2>1. e \in start .. Len(s) - 1
    BY <1>2, LineEndsBehind
  <2> HIDE DEF e
  <2>2. e + 2 \in start + 1 .. Len(s) + 1 /\ Len(s) \in Nat
    BY <2>1
  <2>3. rest \in Seq(Seq(Words))
    BY <2>2
  <2>4. line \in Seq(Words)
    <3>1. \A i \in start .. e + 1 : s[i] \in Words
      BY <2>1, <2>2, ElementOfSeq
    <3>2. start \in Int /\ e + 1 \in Int
      BY <2>1
    <3> QED
      BY <3>1, <3>2, SubSeqProperties
  <2>6. LinesAt(s, start, lines) = << line >> \o rest
    BY <1>2 DEF LinesAt, e
  <2> HIDE DEF line, rest
  <2>5. << line >> \in Seq(Seq(Words))
    BY <2>4
  <2>7. << line >> \o rest \in Seq(Seq(Words))
    BY <2>3, <2>5, ConcatProperties
  <2> QED
    BY <2>6, <2>7
<1> QED
  BY <1>1, <1>2

\* There are the lines from every place of a text on.
LEMMA SplitRuns ==
    ASSUME NEW s \in Seq(Words)
    PROVE  \E w : w = [start \in 1 .. Len(s) + 1 |-> LinesAt(s, start, w)]
<1> DEFINE n == Len(s)
           All == Seq(Seq(Words))
           Good(g, from) == g \in [from .. n + 1 -> All]
                            /\ \A p \in from .. n + 1 : g[p] = LinesAt(s, p, g)
           S == {d \in 0 .. n : \E g : Good(g, n + 1 - d)}
<1>1. n \in Nat
  OBVIOUS
<1>2. 0 \in S
  <2> DEFINE g == [p \in n + 1 .. n + 1 |-> << >>]
  <2>1. EndsFrom(s, n + 1) = {}
    <3>1. {"CR", "LF"} \subseteq Words
      BY ProtoUtilAssumption
    <3>2. \A e \in LineEnds(s) : e \in 1 .. n - 1
      BY <3>1, BreaksAre DEF BreaksAt
    <3> HIDE DEF n
    <3> QED
      BY <1>1, <3>2 DEF EndsFrom
  <2>2. << >> \in All
    OBVIOUS
  <2> HIDE DEF n, All
  <2>3. n + 1 - 0 = n + 1 /\ \A p \in n + 1 .. n + 1 : p = n + 1
    BY <1>1
  <2>4. g \in [n + 1 .. n + 1 -> All]
    BY <2>2
  <2>5. \A p \in n + 1 .. n + 1 : g[p] = LinesAt(s, p, g)
    BY <2>1, <2>3 DEF LinesAt
  <2>6. Good(g, n + 1 - 0)
    BY <2>3, <2>4, <2>5
  <2> HIDE DEF Good
  <2> QED
    BY <1>1, <2>6
<1>3. ASSUME NEW d \in 0 .. n, d < n, d \in S PROVE d + 1 \in S
  <2> DEFINE from == n + 1 - d
             p0 == n + 1 - (d + 1)
  <2>1. /\ from \in 1 .. n + 1 /\ p0 \in 1 .. n + 1 /\ p0 + 1 = from
        /\ \A p \in p0 .. n + 1 : p = p0 \/ p \in from .. n + 1
        /\ \A p \in from .. n + 1 : p # p0 /\ p \in p0 .. n + 1 /\ p \in 1 .. n + 1
    BY <1>1, <1>3
  <2>2. PICK g : Good(g, from)
    BY <1>3
  <2>3. g \in [from .. n + 1 -> All] /\ \A p \in from .. n + 1 : g[p] = LinesAt(s, p, g)
    BY <2>2
  <2> HIDE DEF from, p0
  <2> DEFINE h == [p \in p0 .. n + 1 |-> IF p = p0 THEN LinesAt(s, p0, g) ELSE g[p]]
  <2>4. \A p \in from .. n + 1 : g[p] \in All
    BY <2>3
  <2>5. LinesAt(s, p0, g) \in All
    BY <2>1, <2>4, LinesAtTyped
  <2>6. h \in [p0 .. n + 1 -> All]
    <3> HIDE DEF All, n
    <3> QED
      BY <2>1, <2>4, <2>5
  <2>7. \A p \in from .. n + 1 : h[p] = g[p]
    <3> HIDE DEF All, n
    <3> QED
      BY <2>1
  <2>12. h[p0] = LinesAt(s, p0, g)
    <3>1. p0 \in p0 .. n + 1
      BY <2>1
    <3> HIDE DEF All, n
    <3> QED
      BY <3>1
  <2> HIDE DEF h
  <2>8. ASSUME NEW p \in p0 .. n + 1 PROVE LinesAt(s, p, h) = LinesAt(s, p, g)
    <3>1. CASE EndsFrom(s, p) = {}
      BY <3>1 DEF LinesAt
    <3>2. CASE EndsFrom(s, p) # {}
      <4> DEFINE e == Min(EndsFrom(s, p))
      <4>1. p \in 1 .. Len(s) + 1
        BY <2>1
      <4>2. e \in p .. Len(s) - 1
        BY <3>2, <4>1, LineEndsBehind
      <4> HIDE DEF e
      <4>3. e + 2 \in from .. n + 1
        BY <1>1, <2>1, <4>1, <4>2
      <4>4. h[e + 2] = g[e + 2]
        BY <2>7, <4>3
      <4> QED
        BY <3>2, <4>4 DEF LinesAt, e
    <3> QED
      BY <3>1, <3>2
  <2>9. \A p \in p0 .. n + 1 : h[p] = LinesAt(s, p, h)
    <3> TAKE p \in p0 .. n + 1
    <3>1. LinesAt(s, p, h) = LinesAt(s, p, g)
      BY <2>8
    <3>2. CASE p = p0
      BY <2>12, <3>1, <3>2
    <3>3. CASE p \in from .. n + 1
      BY <2>3, <2>7, <3>1, <3>3
    <3> QED
      BY <2>1, <3>2, <3>3
  <2>10. Good(h, p0)
    BY <2>6, <2>9
  <2>11. d + 1 \in 0 .. n
    BY <1>1, <1>3
  <2> HIDE DEF Good
  <2> QED
    BY <2>10, <2>11 DEF p0
<1>4. n \in S
  <2> HIDE DEF S, n
  <2>1. \A d \in 0 .. n : d < n /\ d \in S => d + 1 \in S
    BY <1>3
  <2>2. \A d \in 0 .. n : d \in S
    BY <1>1, <1>2, <2>1, UpTo
  <2> QED
    BY <1>1, <2>2
<1>5. PICK g : Good(g, n + 1 - n)
  <2> HIDE DEF Good
  <2> QED
    BY <1>4
<1>6. n + 1 - n = 1
  BY <1>1
<1>7. g \in [1 .. n + 1 -> All] /\ \A p \in 1 .. n + 1 : g[p] = LinesAt(s, p, g)
  BY <1>5, <1>6
<1> HIDE DEF n, All
<1>8. g = [p \in 1 .. n + 1 |-> LinesAt(s, p, g)]
  BY <1>7
<1> QED
  BY <1>8 DEF n

\* Where lines are cut out of a text: the first starts at a place, each ends with
\* the first line break from its start on, and none is left behind the last.
Cuts(s, start, lines) ==
    {cut \in [0 .. Len(lines) -> 1 .. Len(s) + 1] :
        /\ cut[0] = start
        /\ \A k \in 1 .. Len(lines) :
              /\ lines[k] = SubSeq(s, cut[k - 1], cut[k] - 1)
              /\ cut[k] - 2 \in LineEnds(s) /\ cut[k - 1] <= cut[k] - 2
              /\ \A e \in LineEnds(s) : cut[k - 1] <= e => cut[k] - 2 <= e
        /\ \A e \in LineEnds(s) : e < cut[Len(lines)]}

\* One line more, and where it is cut.
LEMMA CutOnce ==
    ASSUME NEW s \in Seq(Words), NEW start \in 1 .. Len(s) + 1, NEW e \in LineEnds(s),
           e \in start .. Len(s) - 1, \A f \in LineEnds(s) : start <= f => e <= f,
           NEW rest \in Seq(Seq(Words)), Cuts(s, e + 2, rest) # {}
    PROVE  Cuts(s, start, << SubSeq(s, start, e + 1) >> \o rest) # {}
<1> DEFINE line == SubSeq(s, start, e + 1)
           lines == << line >> \o rest
           n == Len(s)
           m == Len(rest)
           Ends == LineEnds(s)
<1>1. n \in Nat /\ m \in Nat
  OBVIOUS
<1>2. PICK old \in Cuts(s, e + 2, rest) : TRUE
  OBVIOUS
<1>3. /\ old \in [0 .. m -> 1 .. n + 1] /\ old[0] = e + 2
      /\ \A k \in 1 .. m : /\ rest[k] = SubSeq(s, old[k - 1], old[k] - 1)
                           /\ old[k] - 2 \in Ends /\ old[k - 1] <= old[k] - 2
                           /\ \A f \in Ends : old[k - 1] <= f => old[k] - 2 <= f
      /\ \A f \in Ends : f < old[m]
  BY <1>2 DEF Cuts
<1>4. line \in Seq(Words)
  <2>1. \A i \in start .. e + 1 : s[i] \in Words
    BY ElementOfSeq
  <2>2. start \in Int /\ e + 1 \in Int
    OBVIOUS
  <2> QED
    BY <2>1, <2>2, SubSeqProperties
<1>5. Len(lines) = m + 1 /\ lines[1] = line /\ \A k \in 1 .. m : lines[k + 1] = rest[k]
  <2> DEFINE one == << line >>
  <2> HIDE DEF line
  <2>1. one \in Seq(Seq(Words)) /\ Len(one) = 1 /\ one[1] = line
    BY <1>4
  <2> HIDE DEF one
  <2>2. Len(one \o rest) = Len(one) + Len(rest)
    BY <2>1, Joined
  <2>3. \A i \in 1 .. Len(one) : (one \o rest)[i] = one[i]
    BY <2>1, Joined
  <2>10. one \in Seq(Seq(Words))
    BY <2>1
  <2>4. \A i \in 1 .. Len(rest) : (one \o rest)[Len(one) + i] = rest[i]
    BY <2>10, Joined
  <2>5. 1 \in 1 .. Len(one) /\ \A k \in 1 .. m : Len(one) + k = k + 1
    BY <2>1
  <2>6. Len(one) + Len(rest) = m + 1
    BY <1>1, <2>1
  <2>7. (one \o rest)[1] = line
    BY <2>1, <2>3, <2>5
  <2>8. \A k \in 1 .. m : (one \o rest)[k + 1] = rest[k]
    <3> TAKE k \in 1 .. m
    <3>1. (one \o rest)[Len(one) + k] = rest[k]
      BY <2>4
    <3> QED
      BY <2>5, <3>1
  <2>9. lines = one \o rest
    BY DEF one
  <2> HIDE DEF lines, m
  <2> QED
    BY <2>2, <2>6, <2>7, <2>8, <2>9
<1> DEFINE cut == [k \in 0 .. m + 1 |-> IF k = 0 THEN start ELSE old[k - 1]]
<1>11. e \in Ends /\ start <= (e + 2) - 2 /\ (e + 2) - 2 = e /\ \A f \in Ends : start <= f => e <= f
  OBVIOUS
<1>12. line = SubSeq(s, start, (e + 2) - 1)
  <2>1. (e + 2) - 1 = e + 1
    OBVIOUS
  <2> QED
    BY <2>1
<1>13. start \in 1 .. n + 1
  OBVIOUS
<1> HIDE DEF m, lines, n, line, Ends
<1>6. cut \in [0 .. m + 1 -> 1 .. n + 1]
  <2>1. \A k \in 0 .. m + 1 : k = 0 \/ k - 1 \in 0 .. m
    BY <1>1
  <2> QED
    BY <1>3, <1>13, <2>1
<1>7. cut[0] = start /\ \A k \in 0 .. m : cut[k + 1] = old[k]
  <2>1. 0 \in 0 .. m + 1 /\ \A k \in 0 .. m : k + 1 \in 0 .. m + 1 /\ k + 1 # 0 /\ (k + 1) - 1 = k
    BY <1>1
  <2> QED
    BY <2>1
<1> HIDE DEF cut
<1>8. ASSUME NEW k \in 1 .. m + 1
      PROVE  /\ lines[k] = SubSeq(s, cut[k - 1], cut[k] - 1)
             /\ cut[k] - 2 \in Ends /\ cut[k - 1] <= cut[k] - 2
             /\ \A f \in Ends : cut[k - 1] <= f => cut[k] - 2 <= f
  <2>1. CASE k = 1
    <3>1. cut[1 - 1] = start /\ cut[1] = e + 2
      <4>1. 1 - 1 = 0 /\ 0 + 1 = 1 /\ 0 \in 0 .. m
        BY <1>1
      <4> QED
        BY <1>3, <1>7, <4>1
    <3>2. lines[1] = SubSeq(s, cut[1 - 1], cut[1] - 1)
      BY <1>5, <1>12, <3>1
    <3>3. cut[1] - 2 = e
      BY <1>11, <3>1
    <3> QED
      BY <1>11, <2>1, <3>1, <3>2, <3>3
  <2>2. CASE k # 1
    <3> DEFINE j == k - 1
    <3>1. j \in 1 .. m /\ j \in 0 .. m /\ j - 1 \in 0 .. m /\ j + 1 = k /\ k - 1 = j /\ (j - 1) + 1 = j
      BY <1>1, <2>2
    <3> HIDE DEF j
    <3>2. cut[k] = old[j] /\ cut[k - 1] = old[j - 1] /\ lines[k] = rest[j]
      <4>1. cut[j + 1] = old[j]
        BY <1>7, <3>1
      <4>2. cut[(j - 1) + 1] = old[j - 1]
        BY <1>7, <3>1
      <4>3. lines[j + 1] = rest[j]
        BY <1>5, <3>1
      <4> QED
        BY <3>1, <4>1, <4>2, <4>3
    <3> QED
      BY <1>3, <3>1, <3>2
  <2> QED
    BY <2>1, <2>2
<1>9. \A f \in Ends : f < cut[m + 1]
  <2>1. cut[m + 1] = old[m]
    BY <1>1, <1>7
  <2> QED
    BY <1>3, <2>1
<1>10. cut \in Cuts(s, start, lines)
  BY <1>5, <1>6, <1>7, <1>8, <1>9 DEF Cuts, Ends, n
<1> QED
  BY <1>10 DEF lines, line

\* SplitStringByLine cuts a text at its line breaks and loses nothing before the last.
LEMMA SplitCuts ==
    ASSUME NEW s \in Seq(Words)
    PROVE  SplitStringByLine(s) \in Seq(Seq(Words)) /\ Cuts(s, 1, SplitStringByLine(s)) # {}
<1> DEFINE n == Len(s)
           body(w) == [start \in 1 .. Len(s) + 1 |-> LinesAt(s, start, w)]
           lines == CHOOSE w : w = body(w)
           Good(p) == lines[p] \in Seq(Seq(Words)) /\ Cuts(s, p, lines[p]) # {}
           S == {d \in 0 .. n : \A p \in n + 1 - d .. n + 1 : Good(p)}
<1>1. n \in Nat
  OBVIOUS
<1>2. lines = body(lines)
  <2>1. PICK w : w = body(w)
    BY SplitRuns
  <2> HIDE DEF body
  <2> QED
    BY <2>1
<1>3. SplitStringByLine(s) = lines[1]
  BY DEF SplitStringByLine, LinesAt, EndsFrom
<1> HIDE DEF lines
<1>4. \A p \in 1 .. n + 1 : lines[p] = LinesAt(s, p, lines)
  BY <1>2
<1> HIDE DEF body
<1>5. ASSUME NEW p \in 1 .. n + 1, \A q \in p + 1 .. n + 1 : Good(q) PROVE Good(p)
  <2>1. lines[p] \in Seq(Seq(Words))
    BY <1>4, <1>5, LinesAtTyped
  <2>2. CASE EndsFrom(s, p) = {}
    <3>1. lines[p] = << >> /\ Len(<< >>) = 0
      BY <1>4, <2>2 DEF LinesAt
    <3> DEFINE cut == [k \in 0 .. 0 |-> p]
    <3>2. \A e \in LineEnds(s) : e < p
      <4>1. {"CR", "LF"} \subseteq Words
        BY ProtoUtilAssumption
      <4>2. \A e \in LineEnds(s) : e \in 1 .. n - 1
        BY <4>1, BreaksAre DEF BreaksAt
      <4>3. \A e \in LineEnds(s) : ~(e >= p)
        BY <2>2 DEF EndsFrom
      <4> HIDE DEF n
      <4> QED
        BY <1>1, <4>2, <4>3
    <3>3. cut \in [0 .. 0 -> 1 .. n + 1] /\ cut[0] = p /\ 1 .. 0 = {}
      OBVIOUS
    <3> HIDE DEF cut
    <3>4. cut \in Cuts(s, p, << >>)
      BY <3>1, <3>2, <3>3 DEF Cuts
    <3> QED
      BY <2>1, <3>1, <3>4
  <2>3. CASE EndsFrom(s, p) # {}
    <3> DEFINE e == Min(EndsFrom(s, p))
    <3>1. e \in LineEnds(s) /\ e \in p .. Len(s) - 1 /\ \A f \in LineEnds(s) : p <= f => e <= f
      BY <2>3, LineEndsBehind
    <3>2. lines[p] = << SubSeq(s, p, e + 1) >> \o lines[e + 2]
      BY <1>4, <2>3 DEF LinesAt
    <3> HIDE DEF e
    <3>3. Good(e + 2)
      <4>1. e + 2 \in p + 1 .. n + 1
        BY <1>1, <3>1
      <4> QED
        BY <1>5, <4>1
    <3>4. Cuts(s, p, << SubSeq(s, p, e + 1) >> \o lines[e + 2]) # {}
      BY <3>1, <3>3, CutOnce
    <3> QED
      BY <2>1, <3>2, <3>4
  <2> QED
    BY <2>2, <2>3
<1> HIDE DEF Good
<1>6. 0 \in S
  <2>1. n + 1 \in 1 .. n + 1 /\ (n + 1) + 1 .. n + 1 = {} /\ \A p \in n + 1 - 0 .. n + 1 : p = n + 1
    BY <1>1
  <2>2. Good(n + 1)
    BY <1>5, <2>1
  <2> QED
    BY <1>1, <2>1, <2>2
<1>7. ASSUME NEW d \in 0 .. n, d < n, d \in S PROVE d + 1 \in S
  <2> DEFINE p0 == n + 1 - (d + 1)
  <2>1. /\ p0 \in 1 .. n + 1 /\ d + 1 \in 0 .. n
        /\ \A p \in p0 + 1 .. n + 1 : p \in n + 1 - d .. n + 1
        /\ \A p \in p0 .. n + 1 : p = p0 \/ p \in p0 + 1 .. n + 1
    BY <1>1, <1>7
  <2>2. \A p \in p0 + 1 .. n + 1 : Good(p)
    BY <1>7, <2>1
  <2>3. \A p \in p0 .. n + 1 : Good(p)
    BY <1>5, <2>1, <2>2
  <2> QED
    BY <2>1, <2>3
<1>8. n \in S
  <2> HIDE DEF S, n
  <2>1. \A d \in 0 .. n : d < n /\ d \in S => d + 1 \in S
    BY <1>7
  <2>2. \A d \in 0 .. n : d \in S
    BY <1>1, <1>6, <2>1, UpTo
  <2> QED
    BY <1>1, <2>2
<1>9. Good(1)
  <2>1. 1 \in n + 1 - n .. n + 1
    BY <1>1
  <2> QED
    BY <1>8, <2>1
<1> QED
  BY <1>3, <1>9 DEF Good

----------------------------------------------------------------------------
\* A text that breaks at its end only, if at all.
Unbroken(s) == Fits(s) /\ \A i \in 1 .. Len(s) - 2 : ~(s[i] = "CR" /\ s[i + 1] = "LF")

\* Every part of such a text is one.
LEMMA PartUnbroken ==
    ASSUME NEW s, Unbroken(s), NEW m \in 1 .. Len(s) + 1, NEW n \in 0 .. Len(s), m <= n + 1
    PROVE  Unbroken(SubSeq(s, m, n))
<1> DEFINE part == SubSeq(s, m, n)
<1>1. Fits(s) /\ \A i \in 1 .. Len(s) - 2 : ~(s[i] = "CR" /\ s[i + 1] = "LF")
  BY DEF Unbroken
<1>2. /\ Fits(part) /\ Len(part) = n - m + 1
      /\ \A i \in 1 .. n - m + 1 : part[i] = s[m + i - 1]
  BY <1>1, PartFits
<1>3. Len(s) \in Nat
  BY <1>1 DEF Fits
<1> HIDE DEF part
<1>4. ASSUME NEW i \in 1 .. Len(part) - 2, part[i] = "CR", part[i + 1] = "LF" PROVE FALSE
  <2> DEFINE j == m + i - 1
  <2>1. /\ i \in 1 .. n - m + 1 /\ i + 1 \in 1 .. n - m + 1 /\ j \in 1 .. Len(s) - 2
        /\ m + (i + 1) - 1 = j + 1
    BY <1>2, <1>3
  <2>2. part[i] = s[j]
    BY <1>2, <2>1
  <2>3. part[i + 1] = s[m + (i + 1) - 1]
    BY <1>2, <2>1
  <2>4. part[i + 1] = s[j + 1]
    BY <2>1, <2>3
  <2> HIDE DEF j
  <2> QED
    BY <1>1, <1>4, <2>1, <2>2, <2>4
<1>5. Unbroken(part)
  BY <1>2, <1>4 DEF Unbroken
<1> QED
  BY <1>5 DEF part

\* No line of it begins with a dot.
LEMMA UnbrokenHoldsNoDot ==
    ASSUME NEW s, Unbroken(s)
    PROVE  s \in Seq(Words) /\ s \in Seq(Letters) /\ NoDotLine(s)
<1>1. s \in Seq(Words) /\ NoDotLine(s)
  BY DEF Unbroken, Fits, NoDotLine
<1>2. Words \subseteq Letters
  BY DEF Letters
<1> QED
  BY <1>1, <1>2

\* The empty text.
LEMMA NothingIsUnbroken == Unbroken(<< >>)
<1>1. << >> \in Seq(Words) /\ Len(<< >>) = 0
  OBVIOUS
<1> QED
  BY <1>1, MailTextAssumption DEF Unbroken, Fits

\* substr cuts a part out, whatever the count is.
LEMMA SubstrUnbroken ==
    ASSUME NEW s, Unbroken(s), NEW pos \in 0 .. Len(s), NEW count \in Int
    PROVE  Unbroken(Substr(s, pos, count))
<1> DEFINE size == SizeT(count)
           stop == Min({Len(s), pos + size})
<1>1. Len(s) \in Nat /\ SizeRange \in Nat /\ Len(s) < SizeRange - 1
  BY MailTextAssumption DEF Unbroken, Fits
<1>2. size \in Nat
  BY <1>1 DEF SizeT
<1>4. Substr(s, pos, count) = SubSeq(s, pos + 1, stop)
  <2>1. ~(pos > Len(s))
    BY <1>1
  <2> QED
    BY <2>1, Zenon DEF Substr
<1> HIDE DEF size
<1>6. {Len(s), pos + size} \in SUBSET Int
  BY <1>1, <1>2
<1>3. stop \in pos .. Len(s)
  <2>1. CASE Len(s) <= pos + size
    <3>1. \A y \in {Len(s), pos + size} : Len(s) <= y
      BY <1>1, <1>2, <2>1
    <3>2. stop = Len(s)
      BY <1>6, <3>1, MinIs
    <3> HIDE DEF stop
    <3> QED
      BY <1>1, <3>2
  <2>2. CASE pos + size <= Len(s)
    <3>1. \A y \in {Len(s), pos + size} : pos + size <= y
      BY <1>1, <1>2, <2>2
    <3>2. stop = pos + size
      BY <1>6, <3>1, MinIs
    <3> HIDE DEF stop
    <3> QED
      BY <1>1, <1>2, <2>2, <3>2
  <2> QED
    BY <1>1, <1>2, <2>1, <2>2
<1> HIDE DEF stop
<1>5. pos + 1 \in 1 .. Len(s) + 1 /\ stop \in 0 .. Len(s) /\ pos + 1 <= stop + 1
  BY <1>1, <1>3
<1> QED
  BY <1>4, <1>5, PartUnbroken

\* find returns a position of the text or npos.
LEMMA IndexInside ==
    ASSUME NEW s, Fits(s), NEW char
    PROVE  /\ IndexOf(s, char) \in Nat
           /\ IndexOf(s, char) \in 0 .. Len(s) - 1 \/ IndexOf(s, char) = Npos
           /\ SizeT(IndexOf(s, char) + 1) \in 0 .. Len(s)
<1> DEFINE places == {i - 1 : i \in At(s, char)}
           all == places \cup {Npos}
<1>1. Len(s) \in Nat /\ Len(s) < SizeRange - 1 /\ SizeRange \in Nat
  BY MailTextAssumption DEF Fits
<1>2. Npos = SizeRange - 1
  BY <1>1 DEF Npos, SizeT
<1>3. \A p \in places : p \in 0 .. Len(s) - 1
  <2>1. DOMAIN s = 1 .. Len(s)
    BY DEF Fits
  <2> QED
    BY <1>1, <2>1 DEF At
<1>4. IndexOf(s, char) = Min(all)
  BY DEF IndexOf
<1> HIDE DEF places
<1>5. all \in SUBSET Nat /\ all # {}
  BY <1>1, <1>2, <1>3
<1>6. PICK x \in all : \A y \in all : x <= y
  <2> HIDE DEF all
  <2> QED
    BY <1>5, Smallest
<1>7. Min(all) = x
  <2> HIDE DEF all
  <2>1. all \in SUBSET Int
    BY <1>5
  <2> QED
    BY <1>6, <2>1, MinIs
<1>8. x \in Nat /\ (x \in 0 .. Len(s) - 1 \/ x = Npos)
  BY <1>3, <1>5, <1>6
<1>9. SizeT(x + 1) \in 0 .. Len(s)
  <2>1. CASE x \in 0 .. Len(s) - 1
    <3>1. x + 1 \in 0 .. Len(s) /\ x + 1 < SizeRange
      BY <1>1, <2>1
    <3>2. (x + 1) % SizeRange = x + 1
      BY <1>1, <3>1
    <3> QED
      BY <3>1, <3>2 DEF SizeT
  <2>2. CASE x = Npos
    <3>1. x + 1 = SizeRange
      BY <1>1, <1>2, <2>2
    <3>2. SizeRange % SizeRange = 0
      BY <1>1
    <3> QED
      BY <1>1, <3>1, <3>2 DEF SizeT
  <2> QED
    BY <1>8, <2>1, <2>2
<1> QED
  BY <1>4, <1>7, <1>8, <1>9

\* The address ParseFromToString finds in a line is a part of it.
LEMMA AddrUnbroken ==
    ASSUME NEW line, Unbroken(line)
    PROVE  Unbroken(ParseAddr(line))
<1> DEFINE index == IndexOf(line, ":")
           value == Substr(line, SizeT(index + 1), Len(line) - index - 1)
           start == IndexOf(value, "<")
           end   == IndexOf(value, ">")
           addr  == Substr(value, start + 1, end - start - 1)
<1>1. Fits(line) /\ Len(line) \in Nat
  BY DEF Unbroken, Fits
<1>2. index \in Nat /\ SizeT(index + 1) \in 0 .. Len(line)
  BY <1>1, IndexInside
<1>3. Unbroken(value)
  <2> DEFINE pos == SizeT(index + 1)
             count == Len(line) - index - 1
  <2>1. pos \in 0 .. Len(line) /\ count \in Int
    BY <1>1, <1>2
  <2> HIDE DEF pos, count
  <2>2. Unbroken(Substr(line, pos, count))
    BY <2>1, SubstrUnbroken
  <2> QED
    BY <2>2 DEF pos, count
<1>4. ParseAddr(line) = << >> \/ ParseAddr(line) = value \/ (start # Npos /\ ParseAddr(line) = addr)
  BY Zenon DEF ParseAddr
<1> HIDE DEF value
<1>5. Fits(value)
  BY <1>3 DEF Unbroken
<1>6. start \in Nat /\ end \in Nat /\ (start \in 0 .. Len(value) - 1 \/ start = Npos)
  BY <1>5, IndexInside
<1>7. ASSUME start # Npos PROVE Unbroken(addr)
  <2> HIDE DEF start, end
  <2>1. start + 1 \in 0 .. Len(value) /\ end - start - 1 \in Int
    <3>1. Len(value) \in Nat
      BY <1>5 DEF Fits
    <3> QED
      BY <1>6, <1>7, <3>1
  <2> QED
    BY <1>3, <2>1, SubstrUnbroken
<1> HIDE DEF addr
<1> QED
  BY <1>3, <1>4, <1>7, NothingIsUnbroken

\* So is what Trim leaves of a text.
LEMMA TrimUnbroken ==
    ASSUME NEW s, Unbroken(s)
    PROVE  Unbroken(Trim(s))
<1> DEFINE solid == {i \in DOMAIN s : s[i] \notin Blank}
<1>1. Fits(s) /\ Len(s) \in Nat /\ DOMAIN s = 1 .. Len(s)
  BY DEF Unbroken, Fits
<1>2. Trim(s) = Solid(s)
  BY <1>1, TrimIsSolid
<1>3. CASE solid = {}
  BY <1>2, <1>3, NothingIsUnbroken DEF Solid
<1>4. CASE solid # {}
  <2>1. Trim(s) = SubSeq(s, Min(solid), Max(solid))
    BY <1>2, <1>4 DEF Solid
  <2>2. solid \in SUBSET (0 .. Len(s)) /\ solid \in SUBSET Nat /\ solid \in SUBSET Int
        /\ \A i \in solid : i \in 1 .. Len(s)
    BY <1>1
  <2> HIDE DEF solid
  <2>3. PICK a \in solid : \A i \in solid : a <= i
    BY <1>4, <2>2, Smallest
  <2>4. PICK z \in solid : \A i \in solid : i <= z
    BY <1>1, <1>4, <2>2, Greatest
  <2>5. Min(solid) = a
    BY <2>2, <2>3, MinIs
  <2>6. Max(solid) = z
    BY <2>2, <2>4, MaxIs
  <2>7. a \in 1 .. Len(s) + 1 /\ z \in 0 .. Len(s) /\ a <= z + 1
    BY <1>1, <2>2, <2>3
  <2>8. Unbroken(SubSeq(s, a, z))
    BY <2>7, PartUnbroken
  <2> QED
    BY <2>1, <2>5, <2>6, <2>8
<1> QED
  BY <1>3, <1>4

----------------------------------------------------------------------------
\* What ParseEmailForSmtp keeps between two lines.
Emails ==
    [ sender   : {x \in Seq(Words) : Unbroken(x)},
      receiver : {x \in Seq(Words) : Unbroken(x)},
      inBody   : BOOLEAN,
      context  : Seq(Words) ]

\* A turn of its loop is typed, and does one of three things to the context.
LEMMA ReadLineTyped ==
    ASSUME NEW email \in Emails, NEW line, Unbroken(line)
    PROVE  /\ ReadLine(email, line) \in Emails
           /\ email.inBody => /\ ReadLine(email, line).inBody
                              /\ ReadLine(email, line).context = email.context \o line
           /\ ~email.inBody => /\ ReadLine(email, line).inBody <=> line = CRLF
                               /\ line = CRLF => ReadLine(email, line).context = line
                               /\ line # CRLF => ReadLine(email, line).context = << >>
<1>1. line \in Seq(Words)
  BY DEF Unbroken, Fits
<1>2. /\ email.sender \in {x \in Seq(Words) : Unbroken(x)}
      /\ email.receiver \in {x \in Seq(Words) : Unbroken(x)}
      /\ email.inBody \in BOOLEAN /\ email.context \in Seq(Words)
  BY DEF Emails
<1>3. CASE email.inBody
  <2> DEFINE context == email.context \o line
  <2>1. context \in Seq(Words)
    BY <1>1, <1>2, ConcatProperties
  <2>2. ReadLine(email, line) = [email EXCEPT !.context = context]
    BY <1>3 DEF ReadLine
  <2> HIDE DEF context
  <2>3. [email EXCEPT !.context = context] \in Emails
    BY <2>1 DEF Emails
  <2>4. [email EXCEPT !.context = context].context = context
        /\ [email EXCEPT !.context = context].inBody = email.inBody
    BY DEF Emails
  <2> QED
    BY <1>3, <2>2, <2>3, <2>4 DEF context
<1>4. CASE ~email.inBody
  <2> DEFINE sender == IF IsHeader(line, "From") THEN ParseAddr(line) ELSE email.sender
             receiver == IF IsHeader(line, "To") THEN Trim(ParseAddr(line)) ELSE email.receiver
             context == IF line = CRLF THEN line ELSE << >>
             body == line = CRLF
  <2>1. ReadLine(email, line)
          = [sender |-> sender, receiver |-> receiver, inBody |-> body, context |-> context]
    BY <1>4 DEF ReadLine
  <2>2. Unbroken(sender) /\ Unbroken(receiver)
    <3>1. Unbroken(ParseAddr(line)) /\ Unbroken(Trim(ParseAddr(line)))
      BY AddrUnbroken, TrimUnbroken
    <3> QED
      BY <1>2, <3>1
  <2>3. context \in Seq(Words) /\ body \in BOOLEAN
    <3>1. << >> \in Seq(Words)
      OBVIOUS
    <3> QED
      BY <1>1, <3>1
  <2>6. body <=> line = CRLF
    OBVIOUS
  <2>7. (line = CRLF => context = line) /\ (line # CRLF => context = << >>)
    OBVIOUS
  <2> HIDE DEF sender, receiver, context, body
  <2>4. sender \in Seq(Words) /\ receiver \in Seq(Words)
    BY <2>2, UnbrokenHoldsNoDot
  <2>5. [sender |-> sender, receiver |-> receiver, inBody |-> body, context |-> context] \in Emails
    BY <2>2, <2>3, <2>4 DEF Emails
  <2> QED
    BY <1>4, <2>1, <2>5, <2>6, <2>7
<1> QED
  BY <1>2, <1>3, <1>4

\* Every line a text is cut into breaks at its end only.
LEMMA LineUnbroken ==
    ASSUME NEW s, Fits(s), NEW lines, NEW cut \in Cuts(s, 1, lines), NEW k \in 1 .. Len(lines),
           Len(lines) \in Nat
    PROVE  Unbroken(lines[k])
<1> DEFINE p == cut[k - 1]
           q == cut[k]
           line == lines[k]
<1>1. /\ cut \in [0 .. Len(lines) -> 1 .. Len(s) + 1]
      /\ line = SubSeq(s, p, q - 1) /\ q - 2 \in LineEnds(s) /\ p <= q - 2
      /\ \A e \in LineEnds(s) : p <= e => q - 2 <= e
  BY DEF Cuts
<1>2. p \in 1 .. Len(s) + 1 /\ q \in 1 .. Len(s) + 1 /\ Len(s) \in Nat /\ s \in Seq(Words)
  <2>1. k - 1 \in 0 .. Len(lines) /\ k \in 0 .. Len(lines)
    OBVIOUS
  <2> QED
    BY <1>1, <2>1 DEF Fits
<1> HIDE DEF p, q, line
<1>3. p \in 1 .. Len(s) + 1 /\ q - 1 \in 0 .. Len(s) /\ p <= (q - 1) + 1
  BY <1>1, <1>2
<1>4. /\ Fits(line) /\ Len(line) = (q - 1) - p + 1
      /\ \A i \in 1 .. (q - 1) - p + 1 : line[i] = s[p + i - 1]
  BY <1>1, <1>3, PartFits
<1>5. ASSUME NEW i \in 1 .. Len(line) - 2, line[i] = "CR", line[i + 1] = "LF" PROVE FALSE
  <2> DEFINE j == p + i - 1
  <2>1. /\ i \in 1 .. (q - 1) - p + 1 /\ i + 1 \in 1 .. (q - 1) - p + 1
        /\ j \in 1 .. Len(s) - 1 /\ p + (i + 1) - 1 = j + 1 /\ p <= j /\ ~(q - 2 <= j)
    BY <1>2, <1>3, <1>4
  <2>2. line[i] = s[j] /\ line[i + 1] = s[j + 1]
    BY <1>4, <2>1
  <2> HIDE DEF j
  <2>3. BreaksAt(s, j)
    BY <1>5, <2>1, <2>2 DEF BreaksAt
  <2>4. {"CR", "LF"} \subseteq Words
    BY ProtoUtilAssumption
  <2>5. j \in LineEnds(s)
    BY <1>2, <2>3, <2>4, BreaksAre
  <2> QED
    BY <1>1, <2>1, <2>5
<1>6. Unbroken(line)
  BY <1>4, <1>5 DEF Unbroken
<1> QED
  BY <1>6 DEF line

----------------------------------------------------------------------------
\* Where the first blank line of a text begins, or the end of a text without one.
FirstBlank(s) == IF BlankLines(s) = {} THEN Len(s) + 1 ELSE Min(BlankLines(s))

\* What is where it is.
LEMMA FirstBlankIs ==
    ASSUME NEW s \in Seq(Words)
    PROVE  /\ FirstBlank(s) \in 1 .. Len(s) + 1
           /\ \A b \in BlankLines(s) : FirstBlank(s) <= b
           /\ FirstBlank(s) \in BlankLines(s) \/ FirstBlank(s) = Len(s) + 1
           /\ BlankLines(s) # {} => FirstBlank(s) \in BlankLines(s)
<1> DEFINE blanks == BlankLines(s)
<1>0. {"CR", "LF"} \subseteq Words
  BY ProtoUtilAssumption
<1>1. Len(s) \in Nat
  OBVIOUS
<1>2. \A e \in LineEnds(s) : e \in 1 .. Len(s) - 1
  BY <1>0, BreaksAre DEF BreaksAt
<1>3. \A b \in blanks : b \in 1 .. Len(s) - 1
  BY <1>2 DEF BlankLines
<1>4. CASE blanks = {}
  <2>1. FirstBlank(s) = Len(s) + 1
    BY <1>4 DEF FirstBlank
  <2> QED
    BY <1>1, <1>4, <2>1
<1>5. CASE blanks # {}
  <2>1. FirstBlank(s) = Min(blanks)
    BY <1>5 DEF FirstBlank
  <2> HIDE DEF blanks
  <2>2. blanks \in SUBSET Nat /\ blanks \in SUBSET Int
    BY <1>3
  <2>3. PICK b \in blanks : \A f \in blanks : b <= f
    BY <1>5, <2>2, Smallest
  <2>4. Min(blanks) = b
    BY <2>2, <2>3, MinIs
  <2>5. b \in 1 .. Len(s) + 1
    BY <1>1, <1>3
  <2>6. FirstBlank(s) = b
    BY <2>1, <2>4
  <2> QED
    BY <2>3, <2>5, <2>6 DEF blanks
<1> QED
  BY <1>4, <1>5

\* A line that starts no later than the first blank line is the line break alone
\* exactly if it is that line, and otherwise ends no later than it.
LEMMA LineIsBlank ==
    ASSUME NEW s \in Seq(Words), NEW p \in 1 .. Len(s) + 1, NEW q \in 1 .. Len(s) + 1,
           p = 1 \/ p - 2 \in LineEnds(s),
           q - 2 \in LineEnds(s), p <= q - 2, \A e \in LineEnds(s) : p <= e => q - 2 <= e,
           p <= FirstBlank(s)
    PROVE  /\ SubSeq(s, p, q - 1) = CRLF => FirstBlank(s) = p /\ p < q
           /\ SubSeq(s, p, q - 1) # CRLF => q <= FirstBlank(s)
<1> DEFINE z == FirstBlank(s)
           line == SubSeq(s, p, q - 1)
<1>0. {"CR", "LF"} \subseteq Words
  BY ProtoUtilAssumption
<1>1. Len(s) \in Nat
  OBVIOUS
<1>2. \A e : e \in LineEnds(s) <=> BreaksAt(s, e)
  BY <1>0, BreaksAre
<1>3. \A e : e \in BlankLines(s) <=> e \in LineEnds(s) /\ (e = 1 \/ e - 2 \in LineEnds(s))
  BY DEF BlankLines
<1>4. /\ z \in 1 .. Len(s) + 1 /\ \A b \in BlankLines(s) : z <= b
      /\ z \in BlankLines(s) \/ z = Len(s) + 1
  BY FirstBlankIs
<1> HIDE DEF z, line
<1>5. ASSUME line = CRLF PROVE z = p /\ p < q
  <2>1. Len(line) = q - p
    <3>1. \A i \in p .. q - 1 : s[i] \in Words
      BY <1>1, ElementOfSeq
    <3>2. p \in Int /\ q - 1 \in Int /\ p <= q - 1 /\ (q - 1) - p + 1 = q - p
      OBVIOUS
    <3>3. Len(SubSeq(s, p, q - 1)) = IF p <= q - 1 THEN (q - 1) - p + 1 ELSE 0
      BY <3>1, <3>2, SubSeqProperties
    <3> QED
      BY <3>2, <3>3 DEF line
  <2>2. Len(line) = 2
    BY <1>5 DEF CRLF
  <2>3. q - 2 = p
    <3>1. q - p = 2
      BY <2>1, <2>2
    <3>2. p \in Int /\ q \in Int
      OBVIOUS
    <3> QED
      BY <3>1, <3>2
  <2>4. p \in BlankLines(s)
    BY <1>3, <2>3
  <2> QED
    BY <1>4, <2>3, <2>4 DEF z
<1>6. ASSUME line # CRLF PROVE q <= z
  <2>1. q - 2 # p
    <3>1. ASSUME q - 2 = p PROVE FALSE
      <4>1. BreaksAt(s, p)
        BY <1>2, <3>1
      <4>2. p \in 1 .. Len(s) - 1 /\ s[p] = "CR" /\ s[p + 1] = "LF"
        BY <4>1 DEF BreaksAt
      <4>3. q - 1 = p + 2 - 1 /\ p \in 1 .. Len(s) - (2 - 1) /\ 2 \in Nat
        BY <1>1, <3>1, <4>2
      <4>4. CRLF \in [1 .. 2 -> Words] /\ CRLF[1] = "CR" /\ CRLF[2] = "LF"
        BY <1>0 DEF CRLF
      <4>5. SubSeq(s, p, p + 2 - 1) = CRLF <=> \A k \in 1 .. 2 : s[p + k - 1] = CRLF[k]
        BY <4>3, <4>4, PartIs
      <4>6. \A k \in 1 .. 2 : s[p + k - 1] = CRLF[k]
        <5>1. p + 1 - 1 = p /\ p + 2 - 1 = p + 1 /\ 1 .. 2 = {1, 2}
          OBVIOUS
        <5> QED
          BY <4>2, <4>4, <5>1
      <4> QED
        BY <1>6, <4>3, <4>5, <4>6 DEF line
    <3> QED
      BY <3>1
  <2> SUFFICES ASSUME z < q PROVE FALSE
    BY <1>4
  <2>2. z \in BlankLines(s) /\ z \in LineEnds(s)
    BY <1>1, <1>3, <1>4
  <2>3. q - 2 <= z
    BY <2>2 DEF z
  <2>4. s[q - 2] = "CR" /\ s[q - 1] = "LF" /\ s[z] = "CR" /\ q - 2 \in 1 .. Len(s) - 1
    <3>1. BreaksAt(s, q - 2) /\ BreaksAt(s, z)
      BY <1>2, <2>2
    <3>2. (q - 2) + 1 = q - 1
      OBVIOUS
    <3> QED
      BY <3>1, <3>2 DEF BreaksAt
  <2>5. z = q - 2
    <3>1. z # q - 1
      BY <2>4
    <3> QED
      BY <1>4, <2>3, <3>1
  <2>6. z # 1
    BY <2>1, <2>5
  <2>7. z - 2 \in LineEnds(s)
    BY <1>3, <2>2, <2>6
  <2>8. ~(p <= z - 2)
    BY <2>5, <2>7
  <2>9. p = z - 1
    BY <1>4, <2>1, <2>5, <2>8
  <2>10. s[p - 1] = "CR" /\ p # 1
    <3>1. BreaksAt(s, z - 2)
      BY <1>2, <2>7
    <3>2. z - 2 \in 1 .. Len(s) - 1 /\ s[z - 2] = "CR"
      BY <3>1 DEF BreaksAt
    <3>3. p - 1 = z - 2
      BY <1>4, <2>9
    <3> QED
      BY <3>2, <3>3
  <2>11. s[p - 1] = "LF"
    <3>1. BreaksAt(s, p - 2)
      BY <1>2, <2>10
    <3>2. (p - 2) + 1 = p - 1
      OBVIOUS
    <3> QED
      BY <3>1, <3>2 DEF BreaksAt
  <2> QED
    BY <2>10, <2>11
<1> QED
  BY <1>5, <1>6 DEF z, line

\* What the loop has kept when the next line starts at a place.
KeptUpTo(s, place, email) ==
    /\ email \in Emails
    /\ email.inBody <=> FirstBlank(s) < place
    /\ email.context = SubSeq(s, FirstBlank(s), place - 1)

\* A turn keeps one line more.
LEMMA KeepsLine ==
    ASSUME NEW s \in Seq(Words), NEW p \in 1 .. Len(s) + 1, NEW q \in 1 .. Len(s) + 1,
           p = 1 \/ p - 2 \in LineEnds(s),
           q - 2 \in LineEnds(s), p <= q - 2, \A e \in LineEnds(s) : p <= e => q - 2 <= e,
           NEW line, line = SubSeq(s, p, q - 1), Unbroken(line),
           NEW email, KeptUpTo(s, p, email)
    PROVE  KeptUpTo(s, q, ReadLine(email, line))
<1> DEFINE z == FirstBlank(s)
           next == ReadLine(email, line)
<1>1. z \in 1 .. Len(s) + 1 /\ Len(s) \in Nat
  BY FirstBlankIs
<1>2. /\ email \in Emails /\ (email.inBody <=> z < p)
      /\ email.context = SubSeq(s, z, p - 1)
  BY DEF KeptUpTo
<1>3. /\ next \in Emails
      /\ email.inBody => next.inBody /\ next.context = email.context \o line
      /\ ~email.inBody => /\ next.inBody <=> line = CRLF
                          /\ line = CRLF => next.context = line
                          /\ line # CRLF => next.context = << >>
  BY <1>2, ReadLineTyped, Zenon
<1>4. p <= z => (line = CRLF => z = p /\ p < q) /\ (line # CRLF => q <= z)
  BY LineIsBlank
<1> HIDE DEF z, next
<1>5. CASE z < p
  <2>1. email.inBody /\ z < q
    BY <1>1, <1>2, <1>5
  <2>2. next.context = SubSeq(s, z, p - 1) \o SubSeq(s, p, q - 1)
    BY <1>2, <1>3, <2>1
  <2>3. SubSeq(s, z, p - 1) \o SubSeq(s, (p - 1) + 1, q - 1) = SubSeq(s, z, q - 1)
    <3> DEFINE k == p - 1
               n == q - 1
    <3>1. k \in z - 1 .. Len(s) /\ n \in k .. Len(s)
      BY <1>1, <1>5
    <3> HIDE DEF k, n
    <3>2. SubSeq(s, z, k) \o SubSeq(s, k + 1, n) = SubSeq(s, z, n)
      BY <1>1, <3>1, ConcatAdjacentSubSeq
    <3> QED
      BY <3>2 DEF k, n
  <2>4. (p - 1) + 1 = p
    OBVIOUS
  <2>5. next.context = SubSeq(s, z, q - 1)
    BY <2>2, <2>3, <2>4
  <2>6. KeptUpTo(s, q, next)
    BY <1>3, <2>1, <2>5 DEF KeptUpTo, z
  <2> QED
    BY <2>6 DEF next
<1>6. CASE ~(z < p)
  <2>1. ~email.inBody /\ p <= z
    BY <1>1, <1>2, <1>6
  <2>2. CASE line = CRLF
    <3>1. z = p /\ z < q
      BY <1>4, <2>1, <2>2
    <3>2. next.inBody /\ next.context = SubSeq(s, z, q - 1)
      BY <1>3, <2>1, <2>2, <3>1
    <3>3. KeptUpTo(s, q, next)
      BY <1>3, <3>1, <3>2 DEF KeptUpTo, z
    <3> QED
      BY <3>3 DEF next
  <2>3. CASE line # CRLF
    <3>1. q <= z /\ ~(z < q)
      BY <1>1, <1>4, <2>1, <2>3
    <3>2. ~next.inBody /\ next.context = << >>
      BY <1>3, <2>1, <2>3
    <3>3. SubSeq(s, z, q - 1) = << >>
      <4>1. z \in Int /\ q - 1 \in Int /\ q - 1 < z
        BY <1>1, <3>1
      <4> QED
        BY <4>1, SubSeqEmpty
    <3>4. KeptUpTo(s, q, next)
      BY <1>3, <3>1, <3>2, <3>3 DEF KeptUpTo, z
    <3> QED
      BY <3>4 DEF next
  <2> QED
    BY <2>2, <2>3
<1> QED
  BY <1>5, <1>6

\* What the loop of ParseEmailForSmtp has kept at its end: the text from the first
\* blank line to the last line break.
LEMMA ParsedByLine ==
    ASSUME NEW s, Fits(s)
    PROVE  \E last \in 1 .. Len(s) + 1 :
              /\ KeptUpTo(s, last, ParseByLine(s))
              /\ last = 1 \/ last - 2 \in LineEnds(s)
              /\ \A e \in LineEnds(s) : e < last
<1> DEFINE lines == SplitStringByLine(s)
           n == Len(lines)
           turn(k, before) == ReadLine(before, lines[k])
           body(w) == [k \in 0 .. n |-> IF k = 0 THEN NoEmail ELSE turn(k, w[k - 1])]
           after == CHOOSE w : w = body(w)
           F == [p \in Nat \X Emails |-> IF p[1] \in 1 .. n THEN turn(p[1], p[2]) ELSE p[2]]
<1>0. s \in Seq(Words)
  BY DEF Fits
<1>1. lines \in Seq(Seq(Words)) /\ Cuts(s, 1, lines) # {}
  BY <1>0, SplitCuts
<1>2. ParseByLine(s) = after[n]
  BY DEF ParseByLine
<1> HIDE DEF lines
<1>3. n \in Nat
  BY <1>1
<1>4. PICK cut \in Cuts(s, 1, lines) : TRUE
  BY <1>1
<1>5. /\ cut \in [0 .. n -> 1 .. Len(s) + 1] /\ cut[0] = 1
      /\ \A k \in 1 .. n :
              /\ lines[k] = SubSeq(s, cut[k - 1], cut[k] - 1)
              /\ cut[k] - 2 \in LineEnds(s) /\ cut[k - 1] <= cut[k] - 2
              /\ \A e \in LineEnds(s) : cut[k - 1] <= e => cut[k] - 2 <= e
      /\ \A e \in LineEnds(s) : e < cut[n]
  BY DEF Cuts
<1>6. \A k \in 1 .. n : Unbroken(lines[k])
  BY <1>3, LineUnbroken
<1>7. NoEmail \in Emails
  <2>1. << >> \in Seq(Words) /\ Unbroken(<< >>)
    BY NothingIsUnbroken
  <2> QED
    BY <2>1 DEF NoEmail, Emails
<1>8. \A k \in 1 .. n, email \in Emails : turn(k, email) \in Emails
  BY <1>6, ReadLineTyped
<1> HIDE DEF turn, n
<1>9. F \in [Nat \X Emails -> Emails]
  <2> HIDE DEF Emails
  <2> QED
    BY <1>8
<1>10. Runs(Emails, NoEmail, F, n) # {}
  <2> HIDE DEF F
  <2> QED
    BY <1>3, <1>7, <1>9, LoopRuns
<1>11. PICK f \in [0 .. n -> Emails] : f[0] = NoEmail /\ \A k \in 1 .. n : f[k] = F[<< k, f[k - 1] >>]
  <2> HIDE DEF F
  <2> QED
    BY <1>10 DEF Runs
<1>12. \A k \in 1 .. n : f[k] = turn(k, f[k - 1])
  <2> HIDE DEF Emails
  <2> TAKE k \in 1 .. n
  <2>1. k \in Nat /\ k - 1 \in 0 .. n
    BY <1>3
  <2>2. << k, f[k - 1] >> \in Nat \X Emails
    BY <2>1
  <2> QED
    BY <1>11, <2>2
<1> HIDE DEF F
<1>13. f = body(f)
  <2> HIDE DEF Emails
  <2> QED
    BY <1>3, <1>11, <1>12
<1>14. after = body(after)
  <2> HIDE DEF body
  <2> QED
    BY <1>13
<1> HIDE DEF after
<1>15. after[0] = NoEmail /\ \A k \in 0 .. n : k < n => after[k + 1] = turn(k + 1, after[k])
  <2>1. 0 \in 0 .. n /\ \A k \in 0 .. n : k < n => k + 1 \in 0 .. n /\ k + 1 # 0 /\ (k + 1) - 1 = k
    BY <1>3
  <2> QED
    BY <1>14, <2>1
<1> HIDE DEF body
<1> DEFINE S == {k \in 0 .. n : KeptUpTo(s, cut[k], after[k])}
<1>16. 0 \in S
  <2>1. FirstBlank(s) \in 1 .. Len(s) + 1
    BY <1>0, FirstBlankIs
  <2>2. SubSeq(s, FirstBlank(s), 1 - 1) = << >>
    <3>1. FirstBlank(s) \in Int /\ 1 - 1 \in Int /\ 1 - 1 < FirstBlank(s)
      BY <2>1
    <3> QED
      BY <3>1, SubSeqEmpty
  <2>3. ~(FirstBlank(s) < 1)
    BY <2>1
  <2>4. ~NoEmail.inBody /\ NoEmail.context = << >>
    BY DEF NoEmail
  <2>5. KeptUpTo(s, cut[0], after[0])
    BY <1>5, <1>7, <1>15, <2>2, <2>3, <2>4 DEF KeptUpTo
  <2> QED
    BY <1>3, <2>5
<1>17. ASSUME NEW k \in 0 .. n, k < n, k \in S PROVE k + 1 \in S
  <2> DEFINE p == cut[k]
             q == cut[k + 1]
             line == lines[k + 1]
  <2>1. k + 1 \in 1 .. n /\ k + 1 \in 0 .. n /\ (k + 1) - 1 = k
    BY <1>3, <1>17
  <2>2. p \in 1 .. Len(s) + 1 /\ q \in 1 .. Len(s) + 1
    BY <1>5, <2>1
  <2>3. p = 1 \/ p - 2 \in LineEnds(s)
    <3>1. CASE k = 0
      BY <1>5, <3>1
    <3>2. CASE k # 0
      <4>1. k \in 1 .. n
        BY <1>3, <3>2
      <4> QED
        BY <1>5, <4>1
    <3> QED
      BY <3>1, <3>2
  <2>4. /\ line = SubSeq(s, p, q - 1) /\ q - 2 \in LineEnds(s) /\ p <= q - 2
        /\ \A e \in LineEnds(s) : p <= e => q - 2 <= e
    BY <1>5, <2>1
  <2>5. Unbroken(line)
    BY <1>6, <2>1
  <2>6. KeptUpTo(s, p, after[k])
    BY <1>17
  <2>7. after[k + 1] = ReadLine(after[k], line)
    BY <1>15, <1>17 DEF turn
  <2> HIDE DEF p, q, line
  <2>8. KeptUpTo(s, q, ReadLine(after[k], line))
    BY <1>0, <2>2, <2>3, <2>4, <2>5, <2>6, KeepsLine
  <2> QED
    BY <2>1, <2>7, <2>8 DEF q
<1>18. n \in S
  <2> HIDE DEF S
  <2>1. \A k \in 0 .. n : k < n /\ k \in S => k + 1 \in S
    BY <1>17
  <2>2. \A k \in 0 .. n : k \in S
    BY <1>3, <1>16, <2>1, UpTo
  <2> QED
    BY <1>3, <2>2
<1>19. cut[n] \in 1 .. Len(s) + 1 /\ (cut[n] = 1 \/ cut[n] - 2 \in LineEnds(s))
  <2>1. CASE n = 0
    BY <1>5, <2>1
  <2>2. CASE n # 0
    <3>1. n \in 1 .. n /\ n \in 0 .. n
      BY <1>3, <2>2
    <3> QED
      BY <1>5, <3>1
  <2> QED
    BY <2>1, <2>2
<1> QED
  BY <1>2, <1>5, <1>18, <1>19

----------------------------------------------------------------------------
\* A text that holds the end of a mail: the first end, and what is sent behind the
\* header of an answer that ends at the same place.
LEMMA ReadsBody ==
    ASSUME NEW s \in Seq(Words), NEW end, EndsAt(s, end), \A i \in Nat : EndsAt(s, i) => end <= i,
           NEW b \in LineEnds(s), b <= end,
           NEW last \in 1 .. Len(s) + 1, last = 1 \/ last - 2 \in LineEnds(s),
           \A e \in LineEnds(s) : e < last,
           NEW head \in Seq(Letters), NoDotLine(head), head # << >>
    PROVE  ClientReads(head \o (SubSeq(s, b, last - 1) \o (<< "SP" >> \o EndOfData)))
             = head \o SubSeq(s, b, end + 4)
<1> DEFINE body == SubSeq(s, b, last - 1)
           close == << "SP" >> \o EndOfData
           t == body \o close
           m == Len(body)
           e == end - b + 1
<1>0. {"CR", "LF"} \subseteq Words
  BY ProtoUtilAssumption
<1>1. Len(s) \in Nat
  OBVIOUS
<1>2. \A f : f \in LineEnds(s) <=> BreaksAt(s, f)
  BY <1>0, BreaksAre
<1>3. /\ end \in 1 .. Len(s) - 4 /\ s[end] = "CR" /\ s[end + 1] = "LF" /\ s[end + 2] = "DOT"
      /\ s[end + 3] = "CR" /\ s[end + 4] = "LF"
  BY DEF EndsAt
<1>4. b \in 1 .. Len(s) - 1 /\ s[b] = "CR" /\ b \in Nat
  BY <1>2 DEF BreaksAt
<1>5. end + 5 <= last
  <2>1. end + 3 \in LineEnds(s)
    <3>1. end + 3 \in 1 .. Len(s) - 1 /\ (end + 3) + 1 = end + 4
      BY <1>1, <1>3
    <3>2. BreaksAt(s, end + 3)
      BY <1>3, <3>1 DEF BreaksAt
    <3> QED
      BY <1>2, <3>2
  <2>2. end + 3 < last
    BY <2>1
  <2>3. last # 1 /\ BreaksAt(s, last - 2)
    BY <1>2, <1>3, <2>2
  <2>4. s[last - 2] = "CR"
    BY <2>3 DEF BreaksAt
  <2>5. last - 2 # end + 2
    BY <1>3, <2>4
  <2> QED
    BY <1>1, <1>3, <2>2, <2>5
<1>6. /\ body \in Seq(Letters) /\ m = last - b
      /\ \A i \in 1 .. last - b : body[i] = s[b + i - 1]
  <2>1. Words \subseteq Letters
    BY DEF Letters
  <2>2. \A i \in b .. last - 1 : i \in 1 .. Len(s)
    BY <1>1, <1>4
  <2>3. \A i \in b .. last - 1 : s[i] \in Letters
    BY <2>1, <2>2, ElementOfSeq
  <2>4. b \in Int /\ last - 1 \in Int /\ b <= last - 1 /\ (last - 1) - b + 1 = last - b
    BY <1>1, <1>3, <1>4, <1>5
  <2>5. /\ body \in Seq(Letters) /\ Len(body) = (IF b <= last - 1 THEN (last - 1) - b + 1 ELSE 0)
        /\ \A i \in 1 .. (last - 1) - b + 1 : body[i] = s[b + i - 1]
    BY <2>3, <2>4, SubSeqProperties
  <2> QED
    BY <2>4, <2>5
<1>7. close \in Seq(Letters) /\ Len(close) = 6
  <2>1. << "SP" >> \in Seq(Letters) /\ EndOfData \in Seq(Letters) /\ Len(<< "SP" >>) = 1 /\ Len(EndOfData) = 5
    BY DEF Letters, EndOfData
  <2>2. Len(<< "SP" >> \o EndOfData) = Len(<< "SP" >>) + Len(EndOfData)
    BY <2>1, Joined
  <2>3. << "SP" >> \o EndOfData \in Seq(Letters)
    BY <2>1, Joined
  <2> QED
    BY <2>1, <2>2, <2>3
<1> HIDE DEF body, close
<1>8. t \in Seq(Letters) /\ Len(t) = m + 6
  <2>1. t \in Seq(Letters) /\ Len(t) = Len(body) + Len(close)
    BY <1>6, <1>7, Joined
  <2> QED
    BY <1>7, <2>1
<1>9. \A i \in 1 .. m : t[i] = body[i]
  BY <1>6, <1>7, Joined
<1>10. \A i \in 1 .. m : t[i] = s[b + i - 1]
  BY <1>6, <1>9
<1> HIDE DEF t, m
<1>11. e \in Nat /\ e \in 1 .. m - 4 /\ b + e - 1 = end /\ m \in Nat
  BY <1>1, <1>3, <1>4, <1>5, <1>6
<1> HIDE DEF e
<1>12. EndsAt(t, e)
  <2>1. /\ e \in 1 .. m /\ e + 1 \in 1 .. m /\ e + 2 \in 1 .. m /\ e + 3 \in 1 .. m /\ e + 4 \in 1 .. m
        /\ b + (e + 1) - 1 = end + 1 /\ b + (e + 2) - 1 = end + 2
        /\ b + (e + 3) - 1 = end + 3 /\ b + (e + 4) - 1 = end + 4
        /\ e \in 1 .. (m + 6) - 4
    BY <1>3, <1>4, <1>11
  <2>2. t[e] = "CR" /\ t[e + 1] = "LF" /\ t[e + 2] = "DOT" /\ t[e + 3] = "CR" /\ t[e + 4] = "LF"
    BY <1>3, <1>10, <1>11, <2>1
  <2> QED
    BY <1>8, <2>1, <2>2 DEF EndsAt
<1>13. ASSUME NEW i \in Nat, EndsAt(t, i) PROVE e <= i
  <2> SUFFICES ASSUME i < e PROVE FALSE
    BY <1>11
  <2>1. /\ i \in 1 .. (m + 6) - 4 /\ t[i] = "CR" /\ t[i + 1] = "LF" /\ t[i + 2] = "DOT"
        /\ t[i + 3] = "CR" /\ t[i + 4] = "LF"
    BY <1>8, <1>13 DEF EndsAt
  <2> DEFINE j == b + i - 1
  <2>2. /\ i \in 1 .. m /\ i + 1 \in 1 .. m /\ i + 2 \in 1 .. m /\ i + 3 \in 1 .. m /\ i + 4 \in 1 .. m
        /\ b + (i + 1) - 1 = j + 1 /\ b + (i + 2) - 1 = j + 2
        /\ b + (i + 3) - 1 = j + 3 /\ b + (i + 4) - 1 = j + 4
        /\ j \in 1 .. Len(s) - 4 /\ j \in Nat /\ ~(end <= j)
    BY <1>1, <1>3, <1>4, <1>11, <2>1
  <2>5. t[i] = s[j]
    BY <1>10, <2>2
  <2>6. t[i + 1] = s[b + (i + 1) - 1]
    BY <1>10, <2>2
  <2>7. t[i + 2] = s[b + (i + 2) - 1]
    BY <1>10, <2>2
  <2>8. t[i + 3] = s[b + (i + 3) - 1]
    BY <1>10, <2>2
  <2>9. t[i + 4] = s[b + (i + 4) - 1]
    BY <1>10, <2>2
  <2>3. /\ t[i] = s[j] /\ t[i + 1] = s[j + 1] /\ t[i + 2] = s[j + 2]
        /\ t[i + 3] = s[j + 3] /\ t[i + 4] = s[j + 4]
    <3> HIDE DEF j
    <3> QED
      BY <2>2, <2>5, <2>6, <2>7, <2>8, <2>9, Zenon
  <2> HIDE DEF j
  <2>4. EndsAt(s, j)
    BY <2>1, <2>2, <2>3 DEF EndsAt
  <2> QED
    BY <2>2, <2>4
<1>14. t[1] \notin {"LF", "DOT"}
  <2>1. 1 \in 1 .. m /\ b + 1 - 1 = b
    BY <1>4, <1>11
  <2>2. t[1] = "CR"
    BY <1>4, <1>10, <2>1
  <2> QED
    BY <2>2
<1>15. ClientReads(head \o t) = head \o SubSeq(t, 1, e + 4)
  BY <1>8, <1>12, <1>13, <1>14, ReadsToEnd
<1>16. SubSeq(t, 1, e + 4) = SubSeq(s, b, end + 4)
  <2> DEFINE k == e + 4
  <2>1. k \in 1 .. m /\ 1 \in 1 .. m /\ k \in 1 .. Len(body) /\ 1 \in 1 .. Len(body)
    BY <1>11 DEF m
  <2>2. SubSeq(body \o close, 1, k) = SubSeq(body, 1, k)
    BY <1>6, <1>7, <2>1, SubSeqOfConcat1
  <2>3. SubSeq(body, 1, k) = SubSeq(s, b + 1 - 1, b + k - 1)
    <3>1. b \in 1 .. Len(s) /\ last - 1 \in 1 .. Len(s) /\ 1 \in 1 .. (last - 1) - b + 1
          /\ k \in 1 .. (last - 1) - b + 1
      BY <1>1, <1>3, <1>4, <1>5, <1>6, <2>1
    <3> HIDE DEF k
    <3> QED
      BY <3>1, SubSeqOfSubSeq DEF body
  <2>4. b + 1 - 1 = b /\ b + k - 1 = end + 4
    BY <1>3, <1>4, <1>11
  <2> QED
    BY <2>2, <2>3, <2>4 DEF t
<1> QED
  BY <1>15, <1>16 DEF t, body, close

\* A mail without a blank line has no body, and the answer ends behind its header.
LEMMA ReadsNoBody ==
    ASSUME NEW head \in Seq(Letters), NoDotLine(head)
    PROVE  ClientReads(head \o << "SP" >> \o EndOfData) = head \o << "SP" >> \o EndOfData
<1> DEFINE space == << "SP" >>
           s == head \o space
           pat == EndOfData
<1>1. space \in Seq(Letters) /\ NoDotLine(space) /\ space # << >> /\ Len(space) = 1 /\ space[1] = "SP"
  BY DEF Letters, NoDotLine
<1>2. pat \in Seq(Letters) /\ Len(pat) = 5
  BY DEF Letters, EndOfData
<1>3. EndsAt(pat, 1)
  BY DEF EndsAt, EndOfData
<1>4. SubSeq(pat, 1, Len(pat)) = pat
  BY <1>2, SubSeqFull
<1> HIDE DEF space, pat
<1>5. s \in Seq(Letters) /\ NoDotLine(s) /\ s # << >> /\ s[Len(s)] \notin {"CR", "LF"}
  <2>1. space[1] \notin {"LF", "DOT"}
    BY <1>1
  <2>2. s \in Seq(Letters) /\ NoDotLine(s) /\ s # << >> /\ s[Len(s)] = space[Len(space)]
    BY <1>1, <2>1, NoDotLineJoined
  <2> QED
    BY <1>1, <2>2
<1> HIDE DEF s
<1>6. \A i \in Nat : EndsAt(pat, i) => 1 <= i
  BY <1>2 DEF EndsAt
<1>7. ClientReads(s \o pat) = s \o SubSeq(pat, 1, 1 + 4)
  BY <1>2, <1>3, <1>5, <1>6, ReadsToEnd
<1>8. SubSeq(pat, 1, 1 + 4) = pat
  BY <1>2, <1>4
<1> QED
  BY <1>7, <1>8 DEF s, space, pat

\* What a client reads of the answer to RETR.
LEMMA ReadsWhatWasSent ==
    ASSUME NEW s, Fits(s), HasText(s, EndOfData)
    PROVE  LET email == ParseByLine(s)
               end   == Min(Find(s, EndOfData))
               read  == ClientReads(Pop3RspFromEmail(email))
           IN  /\ BlankLines(s) = {} =>
                     read = RspHeader(email) \o CRLF \o << "SP" >> \o EndOfData
               /\ \A b \in BlankLines(s) :
                     b = Min(BlankLines(s)) /\ b <= end =>
                         read = RspHeader(email) \o CRLF \o SubSeq(s, b, end + Len(EndOfData) - 1)
<1> DEFINE email == ParseByLine(s)
           end == Min(Find(s, EndOfData))
           front == RspHeader(email) \o CRLF
           blanks == BlankLines(s)
           rsp == Pop3RspFromEmail(email)
<1> SUFFICES /\ blanks = {} => ClientReads(rsp) = front \o << "SP" >> \o EndOfData
             /\ \A b \in blanks :
                   b = Min(blanks) /\ b <= end =>
                     ClientReads(rsp) = front \o SubSeq(s, b, end + Len(EndOfData) - 1)
  OBVIOUS
<1>1. Fits(s) /\ s \in Seq(Words)
  BY DEF Fits
<1>2. PICK last \in 1 .. Len(s) + 1 :
            /\ KeptUpTo(s, last, email)
            /\ last = 1 \/ last - 2 \in LineEnds(s)
            /\ \A e \in LineEnds(s) : e < last
  BY <1>1, ParsedByLine
<1>3. /\ Unbroken(email.sender) /\ Unbroken(email.receiver)
      /\ email.context = SubSeq(s, FirstBlank(s), last - 1)
  BY <1>2 DEF KeptUpTo, Emails
<1> DEFINE middle == email.context
           sp == << "SP" >>
           close == sp \o EndOfData
<1>4. rsp = front \o middle \o sp \o EndOfData
  BY DEF Pop3RspFromEmail
<1> HIDE DEF email
<1>5. front \in Seq(Letters) /\ NoDotLine(front)
  BY <1>3, UnbrokenHoldsNoDot, HeaderHoldsNoDot
<1>6. EndsAt(s, end) /\ \A i \in Nat : EndsAt(s, i) => end <= i
  <2> DEFINE ends == Find(s, EndOfData)
  <2>0. {"CR", "LF", "DOT"} \subseteq Words
    BY ProtoUtilAssumption
  <2>1. \A i : i \in ends <=> EndsAt(s, i)
    BY <1>1, <2>0, EndsAre
  <2>2. ends # {}
    BY DEF HasText
  <2>3. \A i : EndsAt(s, i) => i \in Nat
    BY <1>1 DEF EndsAt
  <2> HIDE DEF ends
  <2>4. ends \in SUBSET Nat /\ ends \in SUBSET Int
    BY <2>1, <2>3
  <2>5. PICK e \in ends : \A f \in ends : e <= f
    BY <2>2, <2>4, Smallest
  <2>6. Min(ends) = e
    BY <2>4, <2>5, MinIs
  <2>7. end = e
    BY <2>6 DEF ends
  <2> QED
    BY <2>1, <2>5, <2>7
<1> HIDE DEF rsp, front, end
<1>7. ASSUME blanks = {} PROVE ClientReads(rsp) = front \o << "SP" >> \o EndOfData
  <2>1. FirstBlank(s) = Len(s) + 1
    BY <1>7 DEF FirstBlank
  <2>2. SubSeq(s, Len(s) + 1, last - 1) = << >>
    <3>1. Len(s) + 1 \in Int /\ last - 1 \in Int /\ last - 1 < Len(s) + 1
      <4>1. Len(s) \in Nat
        BY <1>1
      <4> QED
        BY <4>1
    <3> QED
      BY <3>1, SubSeqEmpty
  <2>3. middle = << >>
    BY <1>3, <2>1, <2>2
  <2>4. front \o << >> = front
    BY <1>5, ConcatEmptySeq
  <2>5. rsp = front \o << "SP" >> \o EndOfData
    BY <1>4, <2>3, <2>4
  <2> QED
    BY <1>5, <2>5, ReadsNoBody
<1>8. ASSUME NEW b \in blanks, b = Min(blanks), b <= end
      PROVE  ClientReads(rsp) = front \o SubSeq(s, b, end + Len(EndOfData) - 1)
  <2>1. middle = SubSeq(s, b, last - 1) /\ b \in LineEnds(s)
    BY <1>3, <1>8 DEF FirstBlank, BlankLines
  <2>2. middle \in Seq(Letters)
    <3>1. middle \in Seq(Words)
      BY <1>2 DEF KeptUpTo, Emails
    <3>2. Words \subseteq Letters
      BY DEF Letters
    <3> HIDE DEF middle
    <3> QED
      BY <3>1, <3>2
  <2>3. sp \in Seq(Letters) /\ EndOfData \in Seq(Letters)
    BY DEF Letters, EndOfData
  <2>4. rsp = front \o (middle \o close)
    <3> HIDE DEF middle, sp
    <3>1. ((front \o middle) \o sp) \o EndOfData = front \o (middle \o (sp \o EndOfData))
      <4>1. front \in Seq(Letters)
        BY <1>5
      <4>2. sp \in Seq(Letters)
        BY <2>3
      <4>3. EndOfData \in Seq(Letters)
        BY <2>3
      <4> DEFINE eod == EndOfData
                 hc == front \o middle
                 se == sp \o eod
      <4> HIDE DEF sp, middle, eod
      <4>4. hc \in Seq(Letters) /\ eod \in Seq(Letters)
        BY <2>2, <4>1, <4>3, ConcatProperties DEF eod
      <4>7. se \in Seq(Letters)
        BY <4>2, <4>3, ConcatProperties DEF eod
      <4>5. hc \o se = front \o (middle \o se)
        <5> HIDE DEF se
        <5> QED
          BY <2>2, <4>1, <4>7, ConcatAssociative
      <4>6. (hc \o sp) \o eod = hc \o (sp \o eod)
        <5> HIDE DEF hc
        <5> QED
          BY <4>2, <4>4, ConcatAssociative
      <4> QED
        BY <4>5, <4>6 DEF eod
    <3> QED
      BY <1>4, <3>1
  <2>5. front # << >>
    <3>1. CRLF \in Seq(Letters) /\ CRLF # << >>
      BY DEF CRLF, Letters
    <3>2. RspHeader(email) \in Seq(Letters)
      BY <1>3, UnbrokenHoldsNoDot, HeaderHoldsNoDot
    <3> QED
      BY <3>1, <3>2, ConcatEqualIffEmpty DEF front
  <2>6. ClientReads(front \o (SubSeq(s, b, last - 1) \o (<< "SP" >> \o EndOfData)))
           = front \o SubSeq(s, b, end + 4)
    BY <1>1, <1>2, <1>5, <1>6, <1>8, <2>1, <2>5, ReadsBody
  <2>7. end + Len(EndOfData) - 1 = end + 4
    <3>1. end \in Nat /\ Len(EndOfData) = 5
      BY <1>1, <1>6 DEF EndsAt, EndOfData
    <3> QED
      BY <3>1
  <2> QED
    BY <2>1, <2>4, <2>6, <2>7
<1> QED
  BY <1>7, <1>8

\* From end to end: a client that reads the answer to RETR up to its first dot line
\* gets the body as it was sent, up to the dot line that ended it (OnData's end,
\* ParseEmailForSmtp, Pop3RspFromEmail).
THEOREM RetrievedCorrect == TextSpec => []RetrievedIsSent
<1>1. TextOK => RetrievedIsSent
  BY ReceivedFits, ReadsWhatWasSent, Zenon DEF RetrievedIsSent
<1> QED
  BY <1>1, TextCorrect, PTL

\* The context of a mail is the same whether it is read line by line, as the loop of
\* ParseEmailForSmtp does, or cut out from the first blank line to the last line
\* break, as the sessions' model of that function says.
THEOREM ContextIsCutOut ==
    ASSUME NEW s, Fits(s)
    PROVE  ParseByLine(s).context = ParseEmailForSmtp(s).context
<1> DEFINE z == FirstBlank(s)
           ends == LineEnds(s)
           kept == ParseByLine(s).context
<1>0. {"CR", "LF"} \subseteq Words
  BY ProtoUtilAssumption
<1>1. s \in Seq(Words) /\ Len(s) \in Nat
  BY DEF Fits
<1>2. PICK last \in 1 .. Len(s) + 1 :
            /\ KeptUpTo(s, last, ParseByLine(s))
            /\ last = 1 \/ last - 2 \in ends
            /\ \A e \in ends : e < last
  BY ParsedByLine
<1>3. kept = SubSeq(s, z, last - 1)
  BY <1>2 DEF KeptUpTo
<1>4. ParseEmailForSmtp(s).context
        = IF BlankLines(s) = {} THEN << >> ELSE SubSeq(s, Min(BlankLines(s)), Max(ends) + 1)
  BY DEF ParseEmailForSmtp
<1>5. CASE BlankLines(s) = {}
  <2>1. z = Len(s) + 1
    BY <1>5 DEF FirstBlank
  <2> HIDE DEF z
  <2>2. z \in Int /\ last - 1 \in Int /\ last - 1 < z
    BY <1>1, <2>1
  <2>3. SubSeq(s, z, last - 1) = << >>
    BY <2>2, SubSeqEmpty
  <2> QED
    BY <1>3, <1>4, <1>5, <2>3
<1>6. CASE BlankLines(s) # {}
  <2>1. z = Min(BlankLines(s)) /\ z \in ends /\ z \in 1 .. Len(s) + 1
    <3>1. z \in BlankLines(s) /\ z \in 1 .. Len(s) + 1
      BY <1>1, <1>6, FirstBlankIs
    <3> QED
      BY <1>6, <3>1 DEF FirstBlank, BlankLines
  <2> HIDE DEF z
  <2>2. \A e : e \in ends <=> BreaksAt(s, e)
    BY <1>0, <1>1, BreaksAre
  <2> HIDE DEF ends
  <2>3. last - 2 \in ends
    BY <1>1, <1>2, <2>1
  <2>4. ends \in SUBSET Int
    BY <2>2 DEF BreaksAt
  <2>5. \A e \in ends : e <= last - 2
    <3> TAKE e \in ends
    <3>1. s[last - 2] = "CR" /\ s[(last - 2) + 1] = "LF" /\ s[e] = "CR" /\ e \in Int
      BY <2>2, <2>3 DEF BreaksAt
    <3>2. e # (last - 2) + 1 /\ e < last
      BY <1>2, <3>1
    <3> QED
      BY <3>1, <3>2
  <2>6. Max(ends) = last - 2
    BY <2>3, <2>4, <2>5, MaxIs
  <2>7. Max(ends) + 1 = last - 1
    BY <2>6
  <2> QED
    BY <1>3, <1>4, <1>6, <2>1, <2>7
<1> QED
  BY <1>5, <1>6

----------------------------------------------------------------------------
(***************************************************************************)
(* The two loops of base64.                                                *)
(***************************************************************************)
\* The 64 characters are base64 and differ from each other.
LEMMA CharsAreBase64 ==
    ASSUME NEW k \in 0 .. 63
    PROVE  base64_chars[k] \in Byte /\ is_base64(base64_chars[k]) /\ PositionOf(base64_chars[k]) = k
<1>1. \A n \in 0 .. 63 : n < 26 => base64_chars[n] = 65 + n
  BY DEF base64_chars
<1>2. \A n \in 0 .. 63 : n \in 26 .. 51 => base64_chars[n] = 71 + n
  BY DEF base64_chars
<1>3. \A n \in 0 .. 63 : n \in 52 .. 61 => base64_chars[n] = n - 4
  BY DEF base64_chars
<1>4. base64_chars[62] = 43 /\ base64_chars[63] = 47
  BY DEF base64_chars
<1>5. \A n \in 0 .. 63 : n < 26 \/ n \in 26 .. 51 \/ n \in 52 .. 61 \/ n = 62 \/ n = 63
  OBVIOUS
<1>6. base64_chars[k] \in Byte /\ is_base64(base64_chars[k])
  BY <1>1, <1>2, <1>3, <1>4, <1>5 DEF Byte, is_base64
<1>7. \A n \in 0 .. 63 : base64_chars[n] = base64_chars[k] => n = k
  BY <1>1, <1>2, <1>3, <1>4, <1>5
<1>8. PositionOf(base64_chars[k]) \in 0 .. 63
      /\ base64_chars[PositionOf(base64_chars[k])] = base64_chars[k]
  BY DEF PositionOf
<1> QED
  BY <1>6, <1>7, <1>8

\* The bits of four indices are those of the three bytes, in their order.
LEMMA FourHasBits ==
    ASSUME NEW a \in [1 .. 3 -> Byte], NEW t \in 0 .. 23
    PROVE  (Four(a)[t \div 6 + 1] \div 2 ^ (5 - (t % 6))) % 2
             = (a[t \div 8 + 1] \div 2 ^ (7 - (t % 8))) % 2
<1>1. CASE t = 0
  BY <1>1 DEF Four, Byte
<1>2. CASE t = 1
  BY <1>2 DEF Four, Byte
<1>3. CASE t = 2
  BY <1>3 DEF Four, Byte
<1>4. CASE t = 3
  BY <1>4 DEF Four, Byte
<1>5. CASE t = 4
  BY <1>5 DEF Four, Byte
<1>6. CASE t = 5
  BY <1>6 DEF Four, Byte
<1>7. CASE t = 6
  BY <1>7 DEF Four, Byte
<1>8. CASE t = 7
  BY <1>8 DEF Four, Byte
<1>9. CASE t = 8
  BY <1>9 DEF Four, Byte
<1>10. CASE t = 9
  BY <1>10 DEF Four, Byte
<1>11. CASE t = 10
  BY <1>11 DEF Four, Byte
<1>12. CASE t = 11
  BY <1>12 DEF Four, Byte
<1>13. CASE t = 12
  BY <1>13 DEF Four, Byte
<1>14. CASE t = 13
  BY <1>14 DEF Four, Byte
<1>15. CASE t = 14
  BY <1>15 DEF Four, Byte
<1>16. CASE t = 15
  BY <1>16 DEF Four, Byte
<1>17. CASE t = 16
  BY <1>17 DEF Four, Byte
<1>18. CASE t = 17
  BY <1>18 DEF Four, Byte
<1>19. CASE t = 18
  BY <1>19 DEF Four, Byte
<1>20. CASE t = 19
  BY <1>20 DEF Four, Byte
<1>21. CASE t = 20
  BY <1>21 DEF Four, Byte
<1>22. CASE t = 21
  BY <1>22 DEF Four, Byte
<1>23. CASE t = 22
  BY <1>23 DEF Four, Byte
<1>24. CASE t = 23
  BY <1>24 DEF Four, Byte
<1> QED
  BY <1>1, <1>2, <1>3, <1>4, <1>5, <1>6, <1>7, <1>8, <1>9, <1>10, <1>11, <1>12, <1>13, <1>14, <1>15, <1>16, <1>17, <1>18, <1>19, <1>20, <1>21, <1>22, <1>23, <1>24

\* Three bytes give four indices,
LEMMA FourIsTyped ==
    ASSUME NEW a \in [1 .. 3 -> Byte]
    PROVE  /\ Four(a) \in Seq(0 .. 63) /\ Len(Four(a)) = 4 /\ DOMAIN Four(a) = 1 .. 4
           /\ \A r \in 1 .. 4 : Four(a)[r] \in 0 .. 63
<1>1. /\ a[1] \div 4 \in 0 .. 63 /\ (a[1] % 4) * 16 + a[2] \div 16 \in 0 .. 63
      /\ (a[2] % 16) * 4 + a[3] \div 64 \in 0 .. 63 /\ a[3] % 64 \in 0 .. 63
  BY DEF Byte
<1> QED
  BY <1>1 DEF Four

\* of which so many as are there give back the bytes.
LEMMA ThreeUndoesFour ==
    ASSUME NEW a \in [1 .. 3 -> Byte], NEW g \in [1 .. 4 -> Byte],
           g[1] = Four(a)[1], g[2] = Four(a)[2]
    PROVE  /\ Three(g)[1] = a[1]
           /\ g[3] = Four(a)[3] => Three(g)[2] = a[2]
           /\ g[3] = Four(a)[3] /\ g[4] = Four(a)[4] => Three(g)[3] = a[3]
<1>1. Three(g)[1] = a[1]
  BY SMTT(60) DEF Three, Four, Byte
<1>2. g[3] = Four(a)[3] => Three(g)[2] = a[2]
  BY SMTT(60) DEF Three, Four, Byte
<1>3. g[3] = Four(a)[3] /\ g[4] = Four(a)[4] => Three(g)[3] = a[3]
  BY SMTT(60) DEF Three, Four, Byte
<1> QED
  BY <1>1, <1>2, <1>3

\* Four indices give three bytes.
LEMMA ThreeIsTyped ==
    ASSUME NEW g \in [1 .. 4 -> Byte]
    PROVE  /\ Three(g) \in Seq(Byte) /\ Len(Three(g)) = 3
           /\ \A r \in 1 .. 3 : Three(g)[r] \in Byte
<1>1. /\ (g[1] * 4 + ((g[2] \div 16) % 4)) % 256 \in Byte
      /\ (g[2] % 16) * 16 + ((g[3] \div 4) % 16) \in Byte
      /\ ((g[3] % 4) * 64 + g[4]) % 256 \in Byte
  BY DEF Byte
<1> QED
  BY <1>1 DEF Three

----------------------------------------------------------------------------
\* The byte at a place of a text, and 0 behind its end.
ByteAt(bytes, k) == IF k \in 1 .. Len(bytes) THEN bytes[k] ELSE 0

\* The q-th group of three, counted from 0, and the index at a place.
GroupAt(bytes, q) == [r \in 1 .. 3 |-> ByteAt(bytes, 3 * q + r)]

Sextet(bytes, k) == Four(GroupAt(bytes, (k - 1) \div 4))[((k - 1) % 4) + 1]

\* How many indices hold the bits of n bytes.
Size(n) == 4 * (n \div 3) + (IF n % 3 = 0 THEN 0 ELSE (n % 3) + 1)

\* A group is of bytes, so an index is below 64.
LEMMA SextetIsTyped ==
    ASSUME NEW bytes \in Seq(Byte)
    PROVE  /\ \A q \in Nat : GroupAt(bytes, q) \in [1 .. 3 -> Byte]
           /\ \A k \in Nat \ {0} : Sextet(bytes, k) \in 0 .. 63
           /\ \A q \in Nat, r \in 1 .. 4 : Sextet(bytes, 4 * q + r) = Four(GroupAt(bytes, q))[r]
<1>1. ASSUME NEW q \in Nat PROVE GroupAt(bytes, q) \in [1 .. 3 -> Byte]
  <2>1. \A k \in Nat : ByteAt(bytes, k) \in Byte
    <3>1. 0 \in Byte
      BY DEF Byte
    <3>2. \A k \in 1 .. Len(bytes) : bytes[k] \in Byte
      OBVIOUS
    <3> QED
      BY <3>1, <3>2 DEF ByteAt
  <2> QED
    BY <2>1 DEF GroupAt
<1>2. ASSUME NEW k \in Nat \ {0} PROVE Sextet(bytes, k) \in 0 .. 63
  <2>1. (k - 1) \div 4 \in Nat /\ ((k - 1) % 4) + 1 \in 1 .. 4
    OBVIOUS
  <2> QED
    BY <1>1, <2>1, FourIsTyped DEF Sextet
<1>3. ASSUME NEW q \in Nat, NEW r \in 1 .. 4
      PROVE  Sextet(bytes, 4 * q + r) = Four(GroupAt(bytes, q))[r]
  <2>1. ((4 * q + r) - 1) \div 4 = q /\ (((4 * q + r) - 1) % 4) + 1 = r
    OBVIOUS
  <2> QED
    BY <2>1 DEF Sextet
<1> QED
  BY <1>1, <1>2, <1>3

----------------------------------------------------------------------------
\* What the loop of base64_encode has after m bytes.
Encoders == [group : [1 .. 3 -> Byte], i : 0 .. 2, ret : Seq(Byte)]

EncodedTo(bytes, m, e) ==
    /\ e \in Encoders
    /\ e.i = m % 3
    /\ \A j \in 1 .. e.i : e.group[j] = bytes[3 * (m \div 3) + j]
    /\ Len(e.ret) = 4 * (m \div 3)
    /\ \A k \in 1 .. 4 * (m \div 3) : e.ret[k] = base64_chars[Sextet(bytes, k)]

\* Four indices are four characters.
LEMMA CharsAreTyped ==
    ASSUME NEW a \in [1 .. 3 -> Byte]
    PROVE  /\ Chars(Four(a)) \in Seq(Byte) /\ Len(Chars(Four(a))) = 4
           /\ \A r \in 1 .. 4 : Chars(Four(a))[r] = base64_chars[Four(a)[r]]
<1>1. DOMAIN Four(a) = 1 .. 4 /\ \A r \in 1 .. 4 : Four(a)[r] \in 0 .. 63
  BY FourIsTyped
<1>2. \A r \in 1 .. 4 : base64_chars[Four(a)[r]] \in Byte
  BY <1>1, CharsAreBase64
<1>3. Chars(Four(a)) = [r \in 1 .. 4 |-> base64_chars[Four(a)[r]]]
  BY <1>1 DEF Chars
<1>4. [r \in 1 .. 4 |-> base64_chars[Four(a)[r]]] \in [1 .. 4 -> Byte]
  BY <1>2
<1> HIDE DEF Byte
<1> QED
  BY <1>3, <1>4

\* A turn of the loop is typed.
LEMMA EncodeTurnIsTyped ==
    ASSUME NEW e \in Encoders, NEW byte \in Byte
    PROVE  /\ EncodeTurn(e, byte) \in Encoders
           /\ EncodeTurn(e, byte).group = [e.group EXCEPT ![e.i + 1] = byte]
           /\ e.i < 2 => EncodeTurn(e, byte).i = e.i + 1 /\ EncodeTurn(e, byte).ret = e.ret
           /\ e.i = 2 => /\ EncodeTurn(e, byte).i = 0
                         /\ EncodeTurn(e, byte).ret
                              = e.ret \o Chars(Four([e.group EXCEPT ![e.i + 1] = byte]))
<1> DEFINE group == [e.group EXCEPT ![e.i + 1] = byte]
<1>1. e.i \in 0 .. 2 /\ e.group \in [1 .. 3 -> Byte] /\ e.ret \in Seq(Byte)
  BY DEF Encoders
<1>2. group \in [1 .. 3 -> Byte]
  BY <1>1
<1> HIDE DEF group
<1>3. CASE e.i < 2
  <2>1. EncodeTurn(e, byte) = [e EXCEPT !.group = group, !.i = @ + 1]
    BY <1>1, <1>3 DEF EncodeTurn, group
  <2>2. e.i + 1 \in 0 .. 2 /\ ~(e.i = 2)
    BY <1>1, <1>3
  <2> QED
    BY <1>1, <1>2, <1>3, <2>1, <2>2 DEF Encoders, group
<1>4. CASE e.i = 2
  <2>1. EncodeTurn(e, byte) = [group |-> group, i |-> 0, ret |-> e.ret \o Chars(Four(group))]
    BY <1>1, <1>4 DEF EncodeTurn, group
  <2>2. Chars(Four(group)) \in Seq(Byte)
    BY <1>2, CharsAreTyped
  <2>3. e.ret \o Chars(Four(group)) \in Seq(Byte)
    BY <1>1, <2>2
  <2> QED
    BY <1>1, <1>2, <1>4, <2>1, <2>3 DEF Encoders, group
<1>5. e.i < 2 \/ e.i = 2
  BY <1>1
<1> QED
  BY <1>3, <1>4, <1>5

\* The loop of base64_encode has, after the bytes of a text, those of its groups.
LEMMA GroupedIsEncoded ==
    ASSUME NEW bytes \in Seq(Byte), NEW stale \in Byte
    PROVE  EncodedTo(bytes, Len(bytes), Grouped(bytes, stale))
<1> DEFINE n == Len(bytes)
           start == [group |-> << stale, stale, stale >>, i |-> 0, ret |-> << >>]
           turn(m, before) == EncodeTurn(before, bytes[m])
           body(w) == [m \in 0 .. n |-> IF m = 0 THEN start ELSE turn(m, w[m - 1])]
           after == CHOOSE w : w = body(w)
           F == [p \in Nat \X Encoders |-> IF p[1] \in 1 .. n THEN turn(p[1], p[2]) ELSE p[2]]
<1>1. n \in Nat /\ \A m \in 1 .. n : bytes[m] \in Byte
  OBVIOUS
<1>2. start \in Encoders
  <2>1. << stale, stale, stale >> \in [1 .. 3 -> Byte] /\ << >> \in Seq(Byte) /\ 0 \in 0 .. 2
    OBVIOUS
  <2> QED
    BY <2>1 DEF Encoders
<1>3. \A m \in 1 .. n, e \in Encoders : turn(m, e) \in Encoders
  BY <1>1, EncodeTurnIsTyped
<1>4. Grouped(bytes, stale) = after[n]
  BY DEF Grouped
<1> HIDE DEF start, turn, n
<1>5. F \in [Nat \X Encoders -> Encoders]
  BY <1>3
<1>6. Runs(Encoders, start, F, n) # {}
  <2> HIDE DEF F
  <2> QED
    BY <1>1, <1>2, <1>5, LoopRuns
<1>7. PICK f \in [0 .. n -> Encoders] : f[0] = start /\ \A m \in 1 .. n : f[m] = F[<< m, f[m - 1] >>]
  <2> HIDE DEF F
  <2> QED
    BY <1>6 DEF Runs
<1>8. \A m \in 1 .. n : f[m] = turn(m, f[m - 1])
  <2> TAKE m \in 1 .. n
  <2>1. m \in Nat /\ m - 1 \in 0 .. n
    BY <1>1
  <2>2. << m, f[m - 1] >> \in Nat \X Encoders
    BY <2>1
  <2> QED
    BY <1>7, <2>2
<1> HIDE DEF F
<1>9. f = body(f)
  BY <1>1, <1>7, <1>8
<1>10. after = body(after)
  <2> HIDE DEF body
  <2> QED
    BY <1>9
<1> HIDE DEF after
<1>11. after[0] = start /\ \A m \in 0 .. n : m < n => after[m + 1] = turn(m + 1, after[m])
  <2>1. 0 \in 0 .. n /\ \A m \in 0 .. n : m < n => m + 1 \in 0 .. n /\ m + 1 # 0 /\ (m + 1) - 1 = m
    BY <1>1
  <2> QED
    BY <1>10, <2>1
<1> HIDE DEF body
<1> DEFINE S == {m \in 0 .. n : EncodedTo(bytes, m, after[m])}
<1>12. 0 \in S
  <2>1. 0 \in 0 .. n /\ 0 % 3 = 0 /\ 4 * (0 \div 3) = 0 /\ 1 .. 0 = {}
    BY <1>1
  <2>2. start.i = 0 /\ start.ret = << >>
    BY DEF start
  <2>3. Len(start.ret) = 0
    BY <2>2
  <2> QED
    BY <1>2, <1>11, <2>1, <2>2, <2>3 DEF EncodedTo
<1>13. ASSUME NEW m \in 0 .. n, m < n, m \in S PROVE m + 1 \in S
  <2> DEFINE e == after[m]
             b == bytes[m + 1]
             q == m \div 3
  <2>1. after[m + 1] = EncodeTurn(e, b)
    BY <1>11, <1>13 DEF turn
  <2>2. EncodedTo(bytes, m, e)
    BY <1>13
  <2> HIDE DEF e
  <2>3. e \in Encoders /\ e.i = m % 3 /\ e.i \in 0 .. 2 /\ e.group \in [1 .. 3 -> Byte]
        /\ e.ret \in Seq(Byte) /\ Len(e.ret) = 4 * q
    BY <2>2 DEF EncodedTo, Encoders
  <2>4. m \in Nat /\ q \in Nat /\ m = 3 * q + e.i /\ m + 1 \in 1 .. n /\ m + 1 \in 0 .. n
    BY <1>1, <1>13, <2>3
  <2>5. b \in Byte
    BY <1>1, <2>4
  <2>0. b = bytes[m + 1]
    OBVIOUS
  <2> HIDE DEF b
  <2> DEFINE group == [e.group EXCEPT ![e.i + 1] = b]
  <2>6. \A j \in 1 .. e.i + 1 : group[j] = bytes[3 * q + j]
    <3> TAKE j \in 1 .. e.i + 1
    <3>1. j \in 1 .. 3
      BY <2>3
    <3>2. CASE j = e.i + 1
      <4>1. 3 * q + j = m + 1
        BY <2>3, <2>4, <3>2
      <4> QED
        BY <2>0, <2>3, <3>1, <3>2, <4>1
    <3>3. CASE j # e.i + 1
      <4>1. j \in 1 .. e.i
        BY <2>3, <3>3
      <4>2. e.group[j] = bytes[3 * q + j]
        BY <2>2, <4>1 DEF EncodedTo
      <4> QED
        BY <2>3, <3>1, <3>3, <4>2
    <3> QED
      BY <3>2, <3>3
  <2>7. after[m + 1] \in Encoders /\ after[m + 1].group = group
    BY <2>1, <2>3, <2>5, EncodeTurnIsTyped
  <2>10. /\ e.i < 2 => EncodeTurn(e, b).i = e.i + 1 /\ EncodeTurn(e, b).ret = e.ret
         /\ e.i = 2 => EncodeTurn(e, b).i = 0 /\ EncodeTurn(e, b).ret = e.ret \o Chars(Four(group))
    BY <2>3, <2>5, EncodeTurnIsTyped, Zenon
  <2>8. CASE e.i < 2
    <3>1. after[m + 1].i = e.i + 1 /\ after[m + 1].ret = e.ret
      BY <2>1, <2>8, <2>10, Zenon
    <3>2. (m + 1) % 3 = e.i + 1 /\ (m + 1) \div 3 = q
      <4> HIDE DEF e, q, group
      <4>1. \A j \in 0 .. 1 : m = 3 * q + j =>
              (m + 1) % 3 = j + 1 /\ (m + 1) \div 3 = q
        BY <2>4
      <4> QED
        BY <2>3, <2>4, <2>8, <4>1
    <3>3. \A k \in 1 .. 4 * q : e.ret[k] = base64_chars[Sextet(bytes, k)]
      BY <2>2 DEF EncodedTo
    <3> HIDE DEF e, q, group
    <3>4. EncodedTo(bytes, m + 1, after[m + 1])
      BY <2>3, <2>6, <2>7, <3>1, <3>2, <3>3 DEF EncodedTo
    <3> QED
      BY <2>4, <3>4
  <2>9. CASE e.i = 2
    <3>1. after[m + 1].i = 0 /\ after[m + 1].ret = e.ret \o Chars(Four(group))
      BY <2>1, <2>9, <2>10, Zenon
    <3>2. (m + 1) % 3 = 0 /\ (m + 1) \div 3 = q + 1 /\ 3 * q + 3 <= n
      <4>1. m = 3 * q + 2 /\ q \in Nat
        BY <2>4, <2>9
      <4>2. n \in Nat /\ m + 1 <= n
        BY <1>1, <2>4
      <4> HIDE DEF q
      <4> QED
        BY <4>1, <4>2
    <3>3. \A k \in 1 .. 4 * q : e.ret[k] = base64_chars[Sextet(bytes, k)]
      BY <2>2 DEF EncodedTo
    <3>4. group \in [1 .. 3 -> Byte]
      BY <2>3, <2>5
    <3>5. group = GroupAt(bytes, q)
      <4>1. \A j \in 1 .. 3 : 3 * q + j \in 1 .. n /\ j \in 1 .. e.i + 1
        <5> HIDE DEF q
        <5> QED
          BY <1>1, <2>4, <2>9, <3>2
      <4>2. \A j \in 1 .. 3 : group[j] = GroupAt(bytes, q)[j]
        BY <2>6, <4>1 DEF GroupAt, ByteAt, n
      <4>3. GroupAt(bytes, q) \in [1 .. 3 -> Byte]
        BY <2>4, SextetIsTyped
      <4> HIDE DEF group, e, q
      <4> QED
        BY <3>4, <4>2, <4>3
    <3> HIDE DEF e, q, group
    <3> DEFINE four == Chars(Four(group))
    <3>6. /\ four \in Seq(Byte) /\ Len(four) = 4
          /\ \A r \in 1 .. 4 : four[r] = base64_chars[Sextet(bytes, 4 * q + r)]
      <4>1. \A r \in 1 .. 4 : Sextet(bytes, 4 * q + r) = Four(group)[r]
        BY <2>4, <3>5, SextetIsTyped
      <4> QED
        BY <3>4, <4>1, CharsAreTyped
    <3>10. after[m + 1].ret = e.ret \o four
      BY <3>1
    <3> HIDE DEF four
    <3>7. Len(e.ret \o four) = 4 * (q + 1)
      <4>1. Len(e.ret \o four) = Len(e.ret) + Len(four)
        BY <2>3, <3>6, ConcatProperties
      <4> QED
        BY <2>3, <2>4, <3>6, <4>1
    <3>8. \A k \in 1 .. 4 * (q + 1) : (e.ret \o four)[k] = base64_chars[Sextet(bytes, k)]
      <4> TAKE k \in 1 .. 4 * (q + 1)
      <4>1. CASE k <= 4 * q
        <5>1. k \in 1 .. 4 * q /\ k \in 1 .. Len(e.ret)
          BY <2>3, <2>4, <4>1
        <5>2. (e.ret \o four)[k] = e.ret[k]
          BY <2>3, <3>6, <5>1
        <5> QED
          BY <3>3, <5>1, <5>2
      <4>2. CASE ~(k <= 4 * q)
        <5>1. PICK r \in 1 .. 4 : k = 4 * q + r
          <6>1. k - 4 * q \in 1 .. 4 /\ 4 * q + (k - 4 * q) = k
            BY <2>4, <4>2
          <6> QED
            BY <6>1
        <5>2. (e.ret \o four)[Len(e.ret) + r] = four[r]
          <6>1. r \in 1 .. Len(four)
            BY <3>6
          <6>2. \A i \in 1 .. Len(four) : (e.ret \o four)[Len(e.ret) + i] = four[i]
            <7> DEFINE old == e.ret
            <7>1. old \in Seq(Byte) /\ four \in Seq(Byte)
              BY <2>3, <3>6
            <7> HIDE DEF old
            <7>2. \A i \in 1 .. Len(four) : (old \o four)[Len(old) + i] = four[i]
              BY <7>1, Joined
            <7> QED
              BY <7>2 DEF old
          <6> QED
            BY <6>1, <6>2, Zenon
        <5> QED
          BY <2>3, <3>6, <5>1, <5>2
      <4> QED
        BY <4>1, <4>2
    <3>9. EncodedTo(bytes, m + 1, after[m + 1])
      <4>1. 1 .. 0 = {}
        OBVIOUS
      <4> QED
        BY <2>7, <3>1, <3>2, <3>7, <3>8, <3>10, <4>1 DEF EncodedTo
    <3> QED
      BY <2>4, <3>9
  <2> QED
    BY <2>3, <2>8, <2>9
<1>14. n \in S
  <2> HIDE DEF S
  <2>1. \A m \in 0 .. n : m < n /\ m \in S => m + 1 \in S
    BY <1>13
  <2>2. \A m \in 0 .. n : m \in S
    BY <1>1, <1>12, <2>1, UpTo
  <2> QED
    BY <1>1, <2>2
<1> QED
  BY <1>4, <1>14 DEF n

\* What follows of two sequences put together with a third: the places of each.
LEMMA JoinedThree ==
    ASSUME NEW A, NEW s \in Seq(A), NEW t \in Seq(A), NEW u \in Seq(A)
    PROVE  /\ s \o t \o u \in Seq(A) /\ Len(s \o t \o u) = Len(s) + Len(t) + Len(u)
           /\ \A i \in 1 .. Len(s) : (s \o t \o u)[i] = s[i]
           /\ \A i \in 1 .. Len(t) : (s \o t \o u)[Len(s) + i] = t[i]
           /\ \A i \in 1 .. Len(u) : (s \o t \o u)[Len(s) + Len(t) + i] = u[i]
<1> DEFINE st == s \o t
<1>0. Len(s) \in Nat /\ Len(t) \in Nat /\ Len(u) \in Nat
  OBVIOUS
<1>1. /\ st \in Seq(A) /\ Len(st) = Len(s) + Len(t)
      /\ \A i \in 1 .. Len(s) : st[i] = s[i]
      /\ \A i \in 1 .. Len(t) : st[Len(s) + i] = t[i]
  BY Joined
<1> HIDE DEF st
<1>2. /\ st \o u \in Seq(A) /\ Len(st \o u) = Len(st) + Len(u)
      /\ \A i \in 1 .. Len(st) : (st \o u)[i] = st[i]
      /\ \A i \in 1 .. Len(u) : (st \o u)[Len(st) + i] = u[i]
  <2>1. st \in Seq(A)
    BY <1>1
  <2>2. st \o u \in Seq(A) /\ Len(st \o u) = Len(st) + Len(u)
    BY <2>1, Joined
  <2>3. \A i \in 1 .. Len(st) : (st \o u)[i] = st[i]
    BY <2>1, Joined
  <2>4. \A i \in 1 .. Len(u) : (st \o u)[Len(st) + i] = u[i]
    BY <2>1, Joined
  <2> QED
    BY <2>2, <2>3, <2>4
<1>3. \A i \in 1 .. Len(s) : (st \o u)[i] = s[i]
  <2>1. \A i \in 1 .. Len(s) : i \in 1 .. Len(st)
    BY <1>0, <1>1
  <2> QED
    BY <1>1, <1>2, <2>1
<1>4. \A i \in 1 .. Len(t) : (st \o u)[Len(s) + i] = t[i]
  <2>1. \A i \in 1 .. Len(t) : Len(s) + i \in 1 .. Len(st)
    BY <1>0, <1>1
  <2> QED
    BY <1>1, <1>2, <2>1
<1>5. \A i \in 1 .. Len(u) : (st \o u)[Len(s) + Len(t) + i] = u[i]
  BY <1>1, <1>2
<1>6. Len(st \o u) = Len(s) + Len(t) + Len(u)
  BY <1>1, <1>2
<1> QED
  BY <1>2, <1>3, <1>4, <1>5, <1>6 DEF st

\* An encoded text: its indices as characters, and "=" up to a group of four.
Encoded(bytes, e) ==
    /\ e \in Seq(Byte) /\ Size(Len(bytes)) \in 0 .. Len(e)
    /\ \A k \in 1 .. Size(Len(bytes)) : e[k] = base64_chars[Sextet(bytes, k)]
    /\ \A k \in Size(Len(bytes)) + 1 .. Len(e) : e[k] = Equals

\* base64_encode does that, whatever its array held.
LEMMA EncodeIsEncoded ==
    ASSUME NEW bytes \in Seq(Byte), NEW stale \in Byte
    PROVE  Encoded(bytes, base64_encode(bytes, stale))
<1> DEFINE n == Len(bytes)
           q == n \div 3
           e == Grouped(bytes, stale)
           group == [k \in 1 .. 3 |-> IF k <= e.i THEN e.group[k] ELSE 0]
           front == SubSeq(Chars(Four(group)), 1, e.i + 1)
           equals == [k \in 1 .. 3 - e.i |-> Equals]
           r == base64_encode(bytes, stale)
<1>1. /\ e \in Encoders /\ e.i = n % 3 /\ Len(e.ret) = 4 * q
      /\ \A j \in 1 .. e.i : e.group[j] = bytes[3 * q + j]
      /\ \A k \in 1 .. 4 * q : e.ret[k] = base64_chars[Sextet(bytes, k)]
  BY GroupedIsEncoded DEF EncodedTo
<1>2. e.i \in 0 .. 2 /\ e.group \in [1 .. 3 -> Byte] /\ e.ret \in Seq(Byte)
  BY <1>1 DEF Encoders
<1>3. n \in Nat /\ q \in Nat /\ n = 3 * q + e.i
  <2>1. n \in Nat
    OBVIOUS
  <2> HIDE DEF n, e
  <2> QED
    BY <1>1, <2>1
<1>4. Size(n) = IF e.i = 0 THEN 4 * q ELSE 4 * q + e.i + 1
  <2>1. Size(n) = 4 * q + (IF e.i = 0 THEN 0 ELSE e.i + 1)
    <3> HIDE DEF e
    <3> QED
      BY <1>1 DEF Size
  <2> HIDE DEF n, e, q
  <2> QED
    BY <1>2, <1>3, <2>1
<1>5. r = IF e.i = 0 THEN e.ret ELSE e.ret \o front \o equals
  BY Zenon DEF base64_encode
<1>0. /\ Encoded(bytes, r) <=> Encoded(bytes, base64_encode(bytes, stale))
      /\ n = Len(bytes)
  OBVIOUS
<1> HIDE DEF n, e, r
<1>6. CASE e.i = 0
  <2> HIDE DEF q, group, front, equals
  <2>3. r = e.ret /\ Size(n) = 4 * q /\ Len(e.ret) = 4 * q /\ 4 * q \in Nat
    BY <1>1, <1>3, <1>4, <1>5, <1>6
  <2>1. \A k \in Size(n) + 1 .. Len(e.ret) : FALSE
    BY <2>3
  <2>2. Size(n) \in 0 .. Len(e.ret)
    BY <2>3
  <2> QED
    BY <1>0, <1>1, <1>2, <2>1, <2>2, <2>3 DEF Encoded
<1>7. CASE e.i # 0
  <2>1. group \in [1 .. 3 -> Byte]
    <3>1. 0 \in Byte
      BY DEF Byte
    <3> QED
      BY <1>2, <3>1
  <2>2. group = GroupAt(bytes, q)
    <3>1. \A k \in 1 .. 3 : group[k] = ByteAt(bytes, 3 * q + k)
      <4> TAKE k \in 1 .. 3
      <4>1. CASE k <= e.i
        <5>1. k \in 1 .. e.i /\ 3 * q + k \in 1 .. n
          <6> HIDE DEF q
          <6> QED
            BY <1>2, <1>3, <4>1
        <5> QED
          BY <1>0, <1>1, <4>1, <5>1 DEF ByteAt
      <4>2. CASE ~(k <= e.i)
        <5>1. 3 * q + k \notin 1 .. n
          <6> HIDE DEF q
          <6> QED
            BY <1>2, <1>3, <4>2
        <5> QED
          BY <1>0, <4>2, <5>1 DEF ByteAt
      <4> QED
        BY <4>1, <4>2
    <3> HIDE DEF q
    <3> QED
      BY <3>1 DEF GroupAt
  <2> HIDE DEF group, q
  <2>3. /\ Chars(Four(group)) \in Seq(Byte) /\ Len(Chars(Four(group))) = 4
        /\ \A k \in 1 .. 4 : Chars(Four(group))[k] = base64_chars[Sextet(bytes, 4 * q + k)]
    <3>1. \A k \in 1 .. 4 : Sextet(bytes, 4 * q + k) = Four(group)[k]
      BY <1>3, <2>2, SextetIsTyped
    <3> QED
      BY <2>1, <3>1, CharsAreTyped
  <2>4. /\ front \in Seq(Byte) /\ Len(front) = e.i + 1
        /\ \A k \in 1 .. e.i + 1 : front[k] = base64_chars[Sextet(bytes, 4 * q + k)]
    <3> DEFINE four == Chars(Four(group))
    <3>0. four \in Seq(Byte) /\ Len(four) = 4
      BY <2>3
    <3>1. \A k \in 1 .. e.i + 1 : k \in 1 .. 4 /\ four[k] \in Byte
      <4> HIDE DEF four
      <4>1. \A k \in 1 .. e.i + 1 : k \in 1 .. 4
        BY <1>2
      <4>2. \A k \in 1 .. 4 : four[k] \in Byte
        BY <3>0, ElementOfSeq
      <4> QED
        BY <4>1, <4>2
    <3>2. e.i + 1 \in Int /\ 1 <= e.i + 1 /\ 1 \in Int /\ (e.i + 1) - 1 + 1 = e.i + 1
          /\ \A k \in 1 .. e.i + 1 : 1 + k - 1 = k
      BY <1>2
    <3> HIDE DEF four
    <3>3. /\ SubSeq(four, 1, e.i + 1) \in Seq(Byte)
          /\ Len(SubSeq(four, 1, e.i + 1)) = IF 1 <= e.i + 1 THEN (e.i + 1) - 1 + 1 ELSE 0
          /\ \A k \in 1 .. (e.i + 1) - 1 + 1 : SubSeq(four, 1, e.i + 1)[k] = four[1 + k - 1]
      BY <3>1, <3>2, SubSeqProperties
    <3>4. \A k \in 1 .. e.i + 1 : SubSeq(four, 1, e.i + 1)[k] = four[k]
      BY <3>2, <3>3
    <3>5. \A k \in 1 .. e.i + 1 : four[k] = base64_chars[Sextet(bytes, 4 * q + k)]
      BY <2>3, <3>1 DEF four
    <3>6. SubSeq(four, 1, e.i + 1) = front
      BY DEF four
    <3> HIDE DEF front
    <3> QED
      BY <3>2, <3>3, <3>4, <3>5, <3>6
  <2>5. /\ equals \in Seq(Byte) /\ Len(equals) = 3 - e.i
        /\ \A k \in 1 .. 3 - e.i : equals[k] = Equals
    <3>1. 3 - e.i \in Nat /\ Equals \in Byte
      BY <1>2 DEF Equals, Byte
    <3>2. equals \in [1 .. 3 - e.i -> Byte]
      BY <3>1
    <3> QED
      BY <3>1, <3>2
  <2> HIDE DEF front, equals
  <2>6. r = e.ret \o front \o equals /\ Size(n) = 4 * q + e.i + 1
    BY <1>4, <1>5, <1>7
  <2>7. /\ r \in Seq(Byte) /\ Len(r) = 4 * q + (e.i + 1) + (3 - e.i)
        /\ \A k \in 1 .. 4 * q : r[k] = e.ret[k]
        /\ \A k \in 1 .. e.i + 1 : r[4 * q + k] = front[k]
        /\ \A k \in 1 .. 3 - e.i : r[4 * q + (e.i + 1) + k] = equals[k]
    <3>1. /\ r \in Seq(Byte) /\ Len(r) = Len(e.ret) + Len(front) + Len(equals)
          /\ \A k \in 1 .. Len(e.ret) : r[k] = e.ret[k]
          /\ \A k \in 1 .. Len(front) : r[Len(e.ret) + k] = front[k]
          /\ \A k \in 1 .. Len(equals) : r[Len(e.ret) + Len(front) + k] = equals[k]
      <4> DEFINE old == e.ret
      <4>1. old \in Seq(Byte) /\ front \in Seq(Byte) /\ equals \in Seq(Byte)
        BY <1>2, <2>4, <2>5
      <4>2. r = old \o front \o equals
        BY <2>6
      <4> HIDE DEF old
      <4>3. old \o front \o equals \in Seq(Byte)
            /\ Len(old \o front \o equals) = Len(old) + Len(front) + Len(equals)
        BY <4>1, JoinedThree
      <4>4. \A k \in 1 .. Len(old) : (old \o front \o equals)[k] = old[k]
        BY <4>1, JoinedThree
      <4>5. \A k \in 1 .. Len(front) : (old \o front \o equals)[Len(old) + k] = front[k]
        BY <4>1, JoinedThree
      <4>6. \A k \in 1 .. Len(equals) :
               (old \o front \o equals)[Len(old) + Len(front) + k] = equals[k]
        BY <4>1, JoinedThree
      <4> QED
        BY <4>2, <4>3, <4>4, <4>5, <4>6, Zenon DEF old
    <3>2. Len(e.ret) = 4 * q /\ Len(front) = e.i + 1 /\ Len(equals) = 3 - e.i
      BY <1>1, <2>4, <2>5
    <3> QED
      BY <3>1, <3>2, Zenon
  <2>11. e.i \in 1 .. 2 /\ q \in Nat /\ Size(n) = 4 * q + e.i + 1 /\ Len(r) = 4 * q + 4
    <3>1. Len(r) = 4 * q + (e.i + 1) + (3 - e.i)
      BY <2>7
    <3> QED
      BY <1>2, <1>3, <1>7, <2>6, <3>1
  <2>8. Size(n) \in 0 .. Len(r)
    BY <2>11
  <2>9. ASSUME NEW k \in 1 .. Size(n) PROVE r[k] = base64_chars[Sextet(bytes, k)]
    <3>1. k \in 1 .. 4 * q \/ \E l \in 1 .. e.i + 1 : k = 4 * q + l
      <4>1. k <= 4 * q \/ (k - 4 * q \in 1 .. e.i + 1 /\ k = 4 * q + (k - 4 * q))
        BY <2>11
      <4> QED
        BY <2>11, <4>1
    <3>2. CASE k \in 1 .. 4 * q
      BY <1>1, <2>7, <3>2, Zenon
    <3>3. ASSUME NEW l \in 1 .. e.i + 1, k = 4 * q + l PROVE r[k] = base64_chars[Sextet(bytes, k)]
      BY <2>4, <2>7, <3>3, Zenon
    <3> QED
      BY <3>1, <3>2, <3>3
  <2>10. ASSUME NEW k \in Size(n) + 1 .. Len(r) PROVE r[k] = Equals
    <3>1. \E l \in 1 .. 3 - e.i : k = 4 * q + (e.i + 1) + l
      <4>1. k - (4 * q + (e.i + 1)) \in 1 .. 3 - e.i /\ k = 4 * q + (e.i + 1) + (k - (4 * q + (e.i + 1)))
        BY <2>11
      <4> QED
        BY <4>1
    <3> QED
      BY <2>5, <2>7, <3>1, Zenon
  <2> QED
    BY <1>0, <2>7, <2>8, <2>9, <2>10 DEF Encoded
<1> QED
  BY <1>6, <1>7

\* A number in threes and what is left.
LEMMA InThrees ==
    ASSUME NEW n \in Nat
    PROVE  n % 3 \in 0 .. 2 /\ n \div 3 \in Nat /\ n = 3 * (n \div 3) + (n % 3)
OBVIOUS

\* The indices of n bytes have their bits and fewer than eight more.
LEMMA SizeInBits ==
    ASSUME NEW n \in Nat
    PROVE  Size(n) \in Nat /\ Size(n) * 6 \in n * 8 .. n * 8 + 7
<1> DEFINE q == n \div 3
           i == n % 3
<1>1. q \in Nat /\ i \in 0 .. 2 /\ n = 3 * q + i
  BY InThrees
<1>2. Size(n) = 4 * q + (IF i = 0 THEN 0 ELSE i + 1)
  BY DEF Size
<1> HIDE DEF q, i
<1> QED
  BY <1>1, <1>2

\* Decoding reads a text up to its first character that is not base64.
LEMMA DigitsAre ==
    ASSUME NEW t \in Seq(Byte), NEW l \in 0 .. Len(t),
           \A k \in 1 .. l : is_base64(t[k]), l < Len(t) => ~is_base64(t[l + 1])
    PROVE  /\ Digits(t) \in Seq(Byte) /\ Len(Digits(t)) = l
           /\ \A k \in 1 .. l : Digits(t)[k] = t[k]
<1> DEFINE I == {i \in 1 .. Len(t) : ~is_base64(t[i])}
<1>1. Len(t) \in Nat /\ l \in Nat /\ l <= Len(t)
  OBVIOUS
<1>2. Leading(t) = IF I # {} THEN Min(I) ELSE 0
  BY DEF Leading, SelectInSeq
<1>3. Leading(t) = IF l < Len(t) THEN l + 1 ELSE 0
  <2>1. CASE l < Len(t)
    <3>1. l + 1 \in I
      BY <1>1, <2>1
    <3>2. \A i \in I : i \in Int /\ l + 1 <= i
      BY <1>1
    <3> HIDE DEF I
    <3>3. Min(I) = l + 1
      BY <3>1, <3>2, MinIs
    <3> QED
      BY <1>2, <2>1, <3>1, <3>3
  <2>2. CASE l = Len(t)
    <3>1. I = {}
      BY <1>1, <2>2
    <3> QED
      BY <1>1, <1>2, <2>2, <3>1
  <2> QED
    BY <1>1, <2>1, <2>2
<1>4. Digits(t) = SubSeq(t, 1, l)
  <2>1. CASE l < Len(t)
    <3>1. Leading(t) = l + 1 /\ l + 1 # 0 /\ (l + 1) - 1 = l
      BY <1>1, <1>3, <2>1
    <3> QED
      BY <3>1 DEF Digits
  <2>2. CASE l = Len(t)
    <3>1. Leading(t) = 0
      BY <1>1, <1>3, <2>2
    <3>2. SubSeq(t, 1, Len(t)) = t
      BY SubSeqFull
    <3> QED
      BY <2>2, <3>1, <3>2 DEF Digits
  <2> QED
    BY <1>1, <2>1, <2>2
<1>5. \A i \in 1 .. l : i \in 1 .. Len(t) /\ t[i] \in Byte
  BY <1>1, ElementOfSeq
<1>6. /\ SubSeq(t, 1, l) \in Seq(Byte)
      /\ Len(SubSeq(t, 1, l)) = IF 1 <= l THEN l - 1 + 1 ELSE 0
      /\ \A i \in 1 .. l - 1 + 1 : SubSeq(t, 1, l)[i] = t[1 + i - 1]
  <2>1. 1 \in Int /\ l \in Int
    OBVIOUS
  <2> QED
    BY <1>5, <2>1, SubSeqProperties
<1>7. (IF 1 <= l THEN l - 1 + 1 ELSE 0) = l /\ l - 1 + 1 = l /\ \A i \in 1 .. l : 1 + i - 1 = i
  BY <1>1
<1> QED
  BY <1>4, <1>6, <1>7

----------------------------------------------------------------------------
\* What the loop of Base64Decode has after m indices of an encoded text.
Decoders == [group : [1 .. 4 -> Byte], i : 0 .. 3, ret : Seq(Byte)]

DecodedTo(bytes, m, d) ==
    /\ d \in Decoders
    /\ d.i = m % 4
    /\ \A j \in 1 .. d.i : d.group[j] = Sextet(bytes, 4 * (m \div 4) + j)
    /\ Len(d.ret) = 3 * (m \div 4)
    /\ \A k \in 1 .. 3 * (m \div 4) : d.ret[k] = bytes[k]

\* A turn of the loop is typed.
LEMMA DecodeTurnIsTyped ==
    ASSUME NEW d \in Decoders, NEW c, PositionOf(c) \in 0 .. 63
    PROVE  /\ DecodeTurn(d, c) \in Decoders
           /\ DecodeTurn(d, c).group = [d.group EXCEPT ![d.i + 1] = PositionOf(c)]
           /\ d.i < 3 => DecodeTurn(d, c).i = d.i + 1 /\ DecodeTurn(d, c).ret = d.ret
           /\ d.i = 3 => /\ DecodeTurn(d, c).i = 0
                         /\ DecodeTurn(d, c).ret
                              = d.ret \o Three([d.group EXCEPT ![d.i + 1] = PositionOf(c)])
<1> DEFINE p == PositionOf(c)
           group == [d.group EXCEPT ![d.i + 1] = p]
<1>1. d.i \in 0 .. 3 /\ d.group \in [1 .. 4 -> Byte] /\ d.ret \in Seq(Byte)
  BY DEF Decoders
<1>2. p \in Byte
  BY DEF Byte
<1>3. group \in [1 .. 4 -> Byte]
  BY <1>1, <1>2
<1> HIDE DEF group
<1>4. CASE d.i < 3
  <2>1. DecodeTurn(d, c) = [d EXCEPT !.group = group, !.i = @ + 1]
    BY <1>1, <1>4 DEF DecodeTurn, group
  <2>2. d.i + 1 \in 0 .. 3 /\ ~(d.i = 3)
    BY <1>1, <1>4
  <2> QED
    BY <1>1, <1>3, <1>4, <2>1, <2>2 DEF Decoders, group
<1>5. CASE d.i = 3
  <2>1. DecodeTurn(d, c) = [group |-> group, i |-> 0, ret |-> d.ret \o Three(group)]
    BY <1>1, <1>5 DEF DecodeTurn, group
  <2>2. Three(group) \in Seq(Byte)
    BY <1>3, ThreeIsTyped
  <2>3. d.ret \o Three(group) \in Seq(Byte)
    BY <1>1, <2>2
  <2> QED
    BY <1>1, <1>3, <1>5, <2>1, <2>3 DEF Decoders, group
<1>6. d.i < 3 \/ d.i = 3
  BY <1>1
<1> QED
  BY <1>4, <1>5, <1>6

\* The loop of Base64Decode has, after the indices of an encoded text, the bytes
\* of its whole groups and the indices of the rest.
LEMMA UngroupedIsDecoded ==
    ASSUME NEW bytes \in Seq(Byte), NEW stale \in Byte, NEW t,
           Len(Digits(t)) = Size(Len(bytes)),
           \A k \in 1 .. Size(Len(bytes)) : Digits(t)[k] = base64_chars[Sextet(bytes, k)]
    PROVE  DecodedTo(bytes, Size(Len(bytes)), Ungrouped(t, stale))
<1> DEFINE n == Size(Len(bytes))
           digits == Digits(t)
           start == [group |-> << stale, stale, stale, stale >>, i |-> 0, ret |-> << >>]
           turn(m, before) == DecodeTurn(before, digits[m])
           body(w) == [m \in 0 .. n |-> IF m = 0 THEN start ELSE turn(m, w[m - 1])]
           after == CHOOSE w : w = body(w)
           F == [p \in Nat \X Decoders |-> IF p[1] \in 1 .. n THEN turn(p[1], p[2]) ELSE p[2]]
<1>1. n \in Nat /\ Len(bytes) \in Nat
  <2>1. Len(bytes) \in Nat
    OBVIOUS
  <2>2. \A l \in Nat : Size(l) \in Nat
    BY DEF Size
  <2> QED
    BY <2>1, <2>2
<1>0. \A m \in 1 .. n : PositionOf(digits[m]) = Sextet(bytes, m) /\ Sextet(bytes, m) \in 0 .. 63
  <2> TAKE m \in 1 .. n
  <2>1. Sextet(bytes, m) \in 0 .. 63
    <3>1. m \in Nat \ {0}
      BY <1>1
    <3> QED
      BY <3>1, SextetIsTyped
  <2> QED
    BY <2>1, CharsAreBase64
<1>2. start \in Decoders
  <2>1. << stale, stale, stale, stale >> \in [1 .. 4 -> Byte] /\ << >> \in Seq(Byte) /\ 0 \in 0 .. 3
    OBVIOUS
  <2> QED
    BY <2>1 DEF Decoders
<1>3. \A m \in 1 .. n, d \in Decoders : turn(m, d) \in Decoders
  BY <1>0, DecodeTurnIsTyped
<1>4. Ungrouped(t, stale) = after[n]
  BY DEF Ungrouped
<1> HIDE DEF start, turn, n
<1>5. F \in [Nat \X Decoders -> Decoders]
  BY <1>3
<1>6. Runs(Decoders, start, F, n) # {}
  <2> HIDE DEF F
  <2> QED
    BY <1>1, <1>2, <1>5, LoopRuns
<1>7. PICK f \in [0 .. n -> Decoders] : f[0] = start /\ \A m \in 1 .. n : f[m] = F[<< m, f[m - 1] >>]
  <2> HIDE DEF F
  <2> QED
    BY <1>6 DEF Runs
<1>8. \A m \in 1 .. n : f[m] = turn(m, f[m - 1])
  <2> TAKE m \in 1 .. n
  <2>1. m \in Nat /\ m - 1 \in 0 .. n
    BY <1>1
  <2>2. << m, f[m - 1] >> \in Nat \X Decoders
    BY <2>1
  <2> QED
    BY <1>7, <2>2
<1> HIDE DEF F
<1>9. f = body(f)
  BY <1>1, <1>7, <1>8
<1>10. after = body(after)
  <2> HIDE DEF body
  <2> QED
    BY <1>9
<1> HIDE DEF after
<1>11. after[0] = start /\ \A m \in 0 .. n : m < n => after[m + 1] = turn(m + 1, after[m])
  <2>1. 0 \in 0 .. n /\ \A m \in 0 .. n : m < n => m + 1 \in 0 .. n /\ m + 1 # 0 /\ (m + 1) - 1 = m
    BY <1>1
  <2> QED
    BY <1>10, <2>1
<1> HIDE DEF body
<1> DEFINE S == {m \in 0 .. n : DecodedTo(bytes, m, after[m])}
<1>12. 0 \in S
  <2>1. 0 \in 0 .. n /\ 0 % 4 = 0 /\ 3 * (0 \div 4) = 0 /\ 1 .. 0 = {}
    BY <1>1
  <2>2. start.i = 0 /\ start.ret = << >>
    BY DEF start
  <2>3. Len(start.ret) = 0
    BY <2>2
  <2> QED
    BY <1>2, <1>11, <2>1, <2>2, <2>3 DEF DecodedTo
<1>13. ASSUME NEW m \in 0 .. n, m < n, m \in S PROVE m + 1 \in S
  <2> DEFINE d == after[m]
             c == digits[m + 1]
             p == PositionOf(c)
             q == m \div 4
  <2>1. after[m + 1] = DecodeTurn(d, c)
    BY <1>11, <1>13 DEF turn
  <2>2. DecodedTo(bytes, m, d)
    BY <1>13
  <2> HIDE DEF d
  <2>3. d \in Decoders /\ d.i = m % 4 /\ d.i \in 0 .. 3 /\ d.group \in [1 .. 4 -> Byte]
        /\ d.ret \in Seq(Byte) /\ Len(d.ret) = 3 * q
    BY <2>2 DEF DecodedTo, Decoders
  <2>4. m \in Nat /\ q \in Nat /\ m = 4 * q + d.i /\ m + 1 \in 1 .. n /\ m + 1 \in 0 .. n
    BY <1>1, <1>13, <2>3
  <2>5. p = Sextet(bytes, m + 1) /\ p \in 0 .. 63 /\ p \in Byte
    BY <1>0, <2>4 DEF Byte
  <2> DEFINE group == [d.group EXCEPT ![d.i + 1] = p]
  <2>6. group \in [1 .. 4 -> Byte]
    BY <2>3, <2>5
  <2>10. /\ DecodeTurn(d, c) \in Decoders /\ DecodeTurn(d, c).group = group
         /\ d.i < 3 => DecodeTurn(d, c).i = d.i + 1 /\ DecodeTurn(d, c).ret = d.ret
         /\ d.i = 3 => DecodeTurn(d, c).i = 0 /\ DecodeTurn(d, c).ret = d.ret \o Three(group)
    BY <2>3, <2>5, DecodeTurnIsTyped, Zenon
  <2> HIDE DEF p, c
  <2>7. \A j \in 1 .. d.i + 1 : group[j] = Sextet(bytes, 4 * q + j)
    <3> TAKE j \in 1 .. d.i + 1
    <3>1. j \in 1 .. 4
      BY <2>3
    <3>2. CASE j = d.i + 1
      <4>1. 4 * q + j = m + 1
        BY <2>3, <2>4, <3>2
      <4> QED
        BY <2>3, <2>5, <3>1, <3>2, <4>1
    <3>3. CASE j # d.i + 1
      <4>1. j \in 1 .. d.i
        BY <2>3, <3>3
      <4>2. d.group[j] = Sextet(bytes, 4 * q + j)
        BY <2>2, <4>1 DEF DecodedTo
      <4> QED
        BY <2>3, <3>1, <3>3, <4>2
    <3> QED
      BY <3>2, <3>3
  <2>11. \A k \in 1 .. 3 * q : d.ret[k] = bytes[k]
    BY <2>2 DEF DecodedTo
  <2>8. CASE d.i < 3
    <3>1. after[m + 1].i = d.i + 1 /\ after[m + 1].ret = d.ret
          /\ after[m + 1] \in Decoders /\ after[m + 1].group = group
      BY <2>1, <2>8, <2>10, Zenon
    <3>2. (m + 1) % 4 = d.i + 1 /\ (m + 1) \div 4 = q
      BY <2>3, <2>4, <2>8
    <3> HIDE DEF q, group
    <3>4. DecodedTo(bytes, m + 1, after[m + 1])
      BY <2>3, <2>7, <2>11, <3>1, <3>2 DEF DecodedTo
    <3> QED
      BY <2>4, <3>4
  <2>9. CASE d.i = 3
    <3> DEFINE three == Three(group)
               a == GroupAt(bytes, q)
               old == d.ret
    <3>1. after[m + 1].i = 0 /\ after[m + 1].ret = old \o three
          /\ after[m + 1] \in Decoders /\ after[m + 1].group = group
      BY <2>1, <2>9, <2>10, Zenon
    <3>2. (m + 1) % 4 = 0 /\ (m + 1) \div 4 = q + 1 /\ 4 * q + 4 <= n
      <4>1. m = 4 * q + 3 /\ q \in Nat
        BY <2>4, <2>9
      <4>2. n \in Nat /\ m + 1 <= n
        BY <1>1, <2>4
      <4> HIDE DEF q
      <4> QED
        BY <4>1, <4>2
    <3> HIDE DEF q
    <3>3. 3 * q + 3 <= Len(bytes)
      <4>1. n = 4 * (Len(bytes) \div 3) + (IF Len(bytes) % 3 = 0 THEN 0 ELSE (Len(bytes) % 3) + 1)
        BY DEF n, Size
      <4> DEFINE l == Len(bytes)
      <4>2. l \in Nat /\ n = 4 * (l \div 3) + (IF l % 3 = 0 THEN 0 ELSE (l % 3) + 1)
        BY <1>1, <4>1
      <4> HIDE DEF l
      <4>3. n <= 4 * (l \div 3) + 3
        BY <4>2
      <4>4. q + 1 <= l \div 3
        BY <2>4, <3>2, <4>2, <4>3
      <4>5. 3 * q + 3 <= l
        BY <2>4, <4>2, <4>4
      <4> QED
        BY <4>5 DEF l
    <3>4. \A r \in 1 .. 4 : group[r] = Four(a)[r]
      <4> TAKE r \in 1 .. 4
      <4>1. r \in 1 .. d.i + 1
        BY <2>9
      <4>2. Sextet(bytes, 4 * q + r) = Four(a)[r]
        BY <2>4, SextetIsTyped
      <4> HIDE DEF group, a
      <4> QED
        BY <2>7, <4>1, <4>2
    <3>5. \A r \in 1 .. 3 : a[r] = bytes[3 * q + r]
      <4> TAKE r \in 1 .. 3
      <4>1. 3 * q + r \in 1 .. Len(bytes)
        BY <1>1, <2>4, <3>3
      <4> QED
        BY <4>1 DEF GroupAt, ByteAt
    <3>6. a \in [1 .. 3 -> Byte]
      BY <2>4, SextetIsTyped
    <3> HIDE DEF group, a
    <3>7. three[1] = a[1] /\ three[2] = a[2] /\ three[3] = a[3]
      BY <2>6, <3>4, <3>6, ThreeUndoesFour
    <3>8. three \in Seq(Byte) /\ Len(three) = 3
      BY <2>6, ThreeIsTyped
    <3>9. old \in Seq(Byte) /\ Len(old) = 3 * q
      BY <2>3
    <3>14. \A k \in 1 .. 3 * q : old[k] = bytes[k]
      BY <2>11
    <3> HIDE DEF three, old
    <3>10. Len(old \o three) = 3 * (q + 1)
      <4>1. Len(old \o three) = Len(old) + Len(three)
        BY <3>8, <3>9, Joined
      <4> QED
        BY <2>4, <3>8, <3>9, <4>1
    <3>11. \A k \in 1 .. 3 * (q + 1) : (old \o three)[k] = bytes[k]
      <4> TAKE k \in 1 .. 3 * (q + 1)
      <4>1. CASE k \in 1 .. 3 * q
        <5>1. \A j \in 1 .. Len(old) : (old \o three)[j] = old[j]
          BY <3>8, <3>9, Joined
        <5> QED
          BY <3>9, <3>14, <4>1, <5>1
      <4>2. ASSUME NEW r \in 1 .. 3, k = 3 * q + r PROVE (old \o three)[k] = bytes[k]
        <5>1. \A j \in 1 .. Len(three) : (old \o three)[Len(old) + j] = three[j]
          <6>1. old \in Seq(Byte) /\ three \in Seq(Byte)
            BY <3>8, <3>9
          <6> QED
            BY <6>1, Joined
        <5>2. (old \o three)[3 * q + r] = three[r]
          <6>1. r \in 1 .. Len(three)
            BY <3>8
          <6> QED
            BY <3>9, <5>1, <6>1
        <5>3. three[r] = a[r]
          BY <3>7
        <5> QED
          BY <3>5, <4>2, <5>2, <5>3
      <4>3. k \in 1 .. 3 * q \/ \E r \in 1 .. 3 : k = 3 * q + r
        <5>1. k <= 3 * q \/ (k - 3 * q \in 1 .. 3 /\ k = 3 * q + (k - 3 * q))
          BY <2>4
        <5> QED
          BY <2>4, <5>1
      <4> QED
        BY <4>1, <4>2, <4>3
    <3>12. DecodedTo(bytes, m + 1, after[m + 1])
      <4>1. 1 .. 0 = {}
        OBVIOUS
      <4> QED
        BY <3>1, <3>2, <3>10, <3>11, <4>1 DEF DecodedTo
    <3> QED
      BY <2>4, <3>12
  <2> QED
    BY <2>3, <2>8, <2>9
<1>14. n \in S
  <2> HIDE DEF S
  <2>1. \A m \in 0 .. n : m < n /\ m \in S => m + 1 \in S
    BY <1>13
  <2>2. \A m \in 0 .. n : m \in S
    BY <1>1, <1>12, <2>1, UpTo
  <2> QED
    BY <1>1, <2>2
<1> QED
  BY <1>4, <1>14 DEF n

\* The indices of an encoded text are read up to its "=" or what is behind it.
LEMMA EncodedDigits ==
    ASSUME NEW bytes \in Seq(Byte), NEW e, Encoded(bytes, e),
           NEW tail \in Seq(Byte), tail # << >> => ~is_base64(tail[1])
    PROVE  /\ Digits(e \o tail) \in Seq(Byte) /\ Len(Digits(e \o tail)) = Size(Len(bytes))
           /\ \A k \in 1 .. Size(Len(bytes)) : Digits(e \o tail)[k] = base64_chars[Sextet(bytes, k)]
<1> DEFINE n == Size(Len(bytes))
           t == e \o tail
<1>1. /\ e \in Seq(Byte) /\ n \in 0 .. Len(e)
      /\ \A k \in 1 .. n : e[k] = base64_chars[Sextet(bytes, k)]
      /\ \A k \in n + 1 .. Len(e) : e[k] = Equals
  BY DEF Encoded
<1> HIDE DEF n
<1>2. Len(e) \in Nat /\ Len(tail) \in Nat
  BY <1>1
<1>3. /\ t \in Seq(Byte) /\ Len(t) = Len(e) + Len(tail)
      /\ \A k \in 1 .. Len(e) : t[k] = e[k]
      /\ \A k \in 1 .. Len(tail) : t[Len(e) + k] = tail[k]
  <2>1. e \in Seq(Byte)
    BY <1>1
  <2>2. t \in Seq(Byte) /\ Len(t) = Len(e) + Len(tail)
    BY <2>1, Joined
  <2>3. \A k \in 1 .. Len(e) : t[k] = e[k]
    BY <2>1, Joined
  <2>4. \A k \in 1 .. Len(tail) : (e \o tail)[Len(e) + k] = tail[k]
    BY <2>1, Joined
  <2> QED
    BY <2>2, <2>3, <2>4
<1> HIDE DEF t
<1>4. ASSUME NEW k \in 1 .. n PROVE t[k] = base64_chars[Sextet(bytes, k)] /\ is_base64(t[k])
  <2>1. k \in 1 .. Len(e) /\ k \in Nat \ {0}
    BY <1>1, <1>2
  <2>2. Sextet(bytes, k) \in 0 .. 63
    BY <2>1, SextetIsTyped
  <2>3. t[k] = base64_chars[Sextet(bytes, k)]
    BY <1>1, <1>3, <2>1
  <2> QED
    BY <2>2, <2>3, CharsAreBase64
<1>5. ASSUME n < Len(t) PROVE ~is_base64(t[n + 1])
  <2>1. CASE n < Len(e)
    <3>1. n + 1 \in n + 1 .. Len(e) /\ n + 1 \in 1 .. Len(e)
      BY <1>1, <1>2, <2>1
    <3>2. t[n + 1] = Equals
      BY <1>1, <1>3, <3>1
    <3> QED
      BY <3>2 DEF Equals, is_base64
  <2>2. CASE n = Len(e)
    <3>1. Len(tail) >= 1
      BY <1>2, <1>3, <1>5, <2>2
    <3>2. 1 \in 1 .. Len(tail) /\ tail # << >>
      BY <1>2, <3>1
    <3>3. t[n + 1] = tail[1]
      BY <1>3, <2>2, <3>2
    <3> QED
      BY <3>2, <3>3
  <2> QED
    BY <1>1, <1>2, <2>1, <2>2
<1>6. n \in 0 .. Len(t)
  BY <1>1, <1>2, <1>3
<1>7. Digits(t) \in Seq(Byte) /\ Len(Digits(t)) = n /\ \A k \in 1 .. n : Digits(t)[k] = t[k]
  BY <1>3, <1>4, <1>5, <1>6, DigitsAre
<1> QED
  BY <1>4, <1>7 DEF n, t

\* What was encoded is decoded, whatever the arrays held, up to where it ends.
LEMMA DecodeUndoesEncode ==
    ASSUME NEW bytes \in Seq(Byte), NEW e, Encoded(bytes, e), NEW left \in Byte,
           NEW tail \in Seq(Byte), tail # << >> => ~is_base64(tail[1])
    PROVE  base64_decode(e \o tail, left) = bytes
<1> DEFINE t == e \o tail
           n == Len(bytes)
           q == n \div 3
           i == n % 3
           d == Ungrouped(t, left)
           a == GroupAt(bytes, q)
           three == Three(d.group)
           old == d.ret
           result == base64_decode(t, left)
<1>1. DecodedTo(bytes, Size(n), d)
  BY EncodedDigits, UngroupedIsDecoded
<1>2. n \in Nat /\ bytes \in [1 .. n -> Byte]
  OBVIOUS
<1>3. result = IF d.i = 0 THEN d.ret ELSE d.ret \o SubSeq(Three(d.group), 1, d.i - 1)
  BY DEF base64_decode
<1>4. base64_decode(e \o tail, left) = result
  OBVIOUS
<1>5. GroupAt(bytes, q) \in [1 .. 3 -> Byte] /\ \A r \in 1 .. i : GroupAt(bytes, q)[r] = bytes[3 * q + r]
  <2>1. q \in Nat
    BY <1>2
  <2>2. ASSUME NEW r \in 1 .. i PROVE GroupAt(bytes, q)[r] = bytes[3 * q + r]
    <3>1. n % 3 \in 0 .. 2 /\ n = 3 * (n \div 3) + (n % 3)
      <4> HIDE DEF n
      <4> QED
        BY <1>2, InThrees
    <3>2. r \in 1 .. 3 /\ 3 * q + r \in 1 .. n
      BY <1>2, <3>1
    <3> QED
      BY <3>2 DEF GroupAt, ByteAt
  <2> QED
    BY <2>1, <2>2, SextetIsTyped
<1> HIDE DEF t, d, result, n, a
<1>6. /\ q \in Nat /\ i \in 0 .. 2 /\ n = 3 * q + i
      /\ Size(n) = 4 * q + (IF i = 0 THEN 0 ELSE i + 1)
  BY <1>2 DEF Size
<1>7. Size(n) \div 4 = q /\ Size(n) % 4 = IF i = 0 THEN 0 ELSE i + 1
  <2> HIDE DEF q, i
  <2> QED
    BY <1>6
<1>8. /\ d \in Decoders /\ d.i = (IF i = 0 THEN 0 ELSE i + 1)
      /\ \A j \in 1 .. d.i : d.group[j] = Sextet(bytes, 4 * q + j)
      /\ Len(d.ret) = 3 * q /\ \A k \in 1 .. 3 * q : d.ret[k] = bytes[k]
  <2> HIDE DEF q, i
  <2> QED
    BY <1>1, <1>7 DEF DecodedTo
<1>9. old \in Seq(Byte) /\ d.group \in [1 .. 4 -> Byte] /\ Len(old) = 3 * q
      /\ \A k \in 1 .. 3 * q : old[k] = bytes[k]
  BY <1>8 DEF Decoders
<1>10. a \in [1 .. 3 -> Byte] /\ \A r \in 1 .. i : a[r] = bytes[3 * q + r]
  BY <1>5 DEF a
<1>11. \A r \in 1 .. 4 : Sextet(bytes, 4 * q + r) = Four(a)[r]
  BY <1>6, SextetIsTyped DEF a
<1> HIDE DEF q, i
<1>12. CASE i = 0
  <2>1. result = old
    BY <1>3, <1>8, <1>12
  <2>2. n = 3 * q
    BY <1>6, <1>12
  <2> HIDE DEF old
  <2>3. old \in [1 .. n -> Byte]
    BY <1>9, <2>2
  <2> QED
    BY <1>2, <1>4, <1>9, <2>1, <2>2, <2>3
<1>13. CASE i # 0
  <2> DEFINE front == SubSeq(three, 1, i)
  <2>1. i \in 1 .. 2 /\ d.i = i + 1 /\ d.i - 1 = i
    BY <1>6, <1>8, <1>13
  <2>2. result = old \o front
    <3>1. d.i # 0
      BY <2>1
    <3>2. SubSeq(Three(d.group), 1, d.i - 1) = front
      BY <2>1
    <3> HIDE DEF front
    <3>3. result = d.ret \o front
      BY <1>3, <3>1, <3>2
    <3> QED
      BY <3>3
  <2>3. \A r \in 1 .. i + 1 : d.group[r] = Four(a)[r]
    <3> TAKE r \in 1 .. i + 1
    <3>1. r \in 1 .. 4 /\ r \in 1 .. d.i
      BY <2>1
    <3> QED
      BY <1>8, <1>11, <3>1
  <2>4. \A r \in 1 .. i : three[r] = a[r]
    <3> DEFINE g == d.group
    <3>1. g \in [1 .. 4 -> Byte] /\ \A r \in 1 .. i + 1 : g[r] = Four(a)[r]
      BY <1>9, <2>3
    <3>2. three = Three(g)
      OBVIOUS
    <3> HIDE DEF g, three
    <3>3. g[1] = Four(a)[1] /\ g[2] = Four(a)[2] /\ (i = 2 => g[3] = Four(a)[3])
      BY <2>1, <3>1
    <3>4. three[1] = a[1] /\ (i = 2 => three[2] = a[2])
      BY <1>10, <3>1, <3>2, <3>3, ThreeUndoesFour
    <3> QED
      BY <2>1, <3>4
  <2>5. three \in Seq(Byte) /\ Len(three) = 3
    BY <1>9, ThreeIsTyped
  <2> HIDE DEF three, old
  <2>6. /\ front \in Seq(Byte) /\ Len(front) = i
        /\ \A r \in 1 .. i : front[r] = three[r]
    <3>1. \A r \in 1 .. i : r \in 1 .. Len(three)
      BY <2>1, <2>5
    <3>2. \A r \in 1 .. i : three[r] \in Byte
      BY <2>5, <3>1, ElementOfSeq
    <3>3. 1 \in Int /\ i \in Int /\ 1 <= i /\ i - 1 + 1 = i /\ \A r \in 1 .. i : 1 + r - 1 = r
      BY <2>1
    <3>4. /\ front \in Seq(Byte)
          /\ Len(front) = IF 1 <= i THEN i - 1 + 1 ELSE 0
          /\ \A r \in 1 .. i - 1 + 1 : front[r] = three[1 + r - 1]
      BY <3>2, <3>3, SubSeqProperties
    <3> QED
      BY <3>3, <3>4
  <2> HIDE DEF front
  <2>7. old \o front \in Seq(Byte) /\ Len(old \o front) = n
    <3>1. old \o front \in Seq(Byte) /\ Len(old \o front) = Len(old) + Len(front)
      BY <1>9, <2>6, Joined
    <3> QED
      BY <1>6, <1>9, <2>6, <3>1
  <2>8. ASSUME NEW k \in 1 .. n PROVE (old \o front)[k] = bytes[k]
    <3>0. old \in Seq(Byte) /\ front \in Seq(Byte)
      BY <1>9, <2>6
    <3>1. CASE k \in 1 .. 3 * q
      <4>1. \A j \in 1 .. Len(old) : (old \o front)[j] = old[j]
        BY <3>0, Joined
      <4> QED
        BY <1>9, <3>1, <4>1
    <3>2. ASSUME NEW r \in 1 .. i, k = 3 * q + r PROVE (old \o front)[k] = bytes[k]
      <4>1. \A j \in 1 .. Len(front) : (old \o front)[Len(old) + j] = front[j]
        BY <3>0, Joined
      <4>2. (old \o front)[3 * q + r] = front[r]
        <5>1. r \in 1 .. Len(front)
          BY <2>6
        <5> QED
          BY <1>9, <4>1, <5>1
      <4>3. front[r] = a[r]
        BY <2>4, <2>6
      <4> QED
        BY <1>10, <3>2, <4>2, <4>3
    <3>3. k \in 1 .. 3 * q \/ \E r \in 1 .. i : k = 3 * q + r
      <4>1. k <= 3 * q \/ (k - 3 * q \in 1 .. i /\ k = 3 * q + (k - 3 * q))
        BY <1>6
      <4> QED
        BY <1>6, <4>1
    <3> QED
      BY <3>1, <3>2, <3>3
  <2>9. old \o front \in [1 .. n -> Byte]
    <3> DEFINE both == old \o front
    <3>1. both \in Seq(Byte) /\ Len(both) = n
      BY <2>7
    <3> HIDE DEF both
    <3>2. both \in [1 .. n -> Byte]
      BY <3>1
    <3> QED
      BY <3>2 DEF both
  <2> DEFINE both == old \o front
  <2>10. both \in [1 .. n -> Byte] /\ \A k \in 1 .. n : both[k] = bytes[k]
    BY <2>8, <2>9
  <2>11. result = both
    BY <2>2
  <2> HIDE DEF both
  <2>12. both = bytes
    BY <1>2, <2>10
  <2> QED
    BY <1>4, <2>11, <2>12
<1> QED
  BY <1>12, <1>13

----------------------------------------------------------------------------
\* A text of bytes grows by bytes.
LEMMA InputCorrect == InputSpec => [](input \in Seq(Byte))
<1>1. InputInit => input \in Seq(Byte)
  BY DEF InputInit
<1>2. input \in Seq(Byte) /\ [InputNext]_input => (input \in Seq(Byte))'
  <2> SUFFICES ASSUME input \in Seq(Byte), [InputNext]_input PROVE input' \in Seq(Byte)
    OBVIOUS
  <2>1. ASSUME NEW byte \in Samples, ReceiveByte(byte) PROVE input' \in Seq(Byte)
    BY <2>1, Base64Assumption, AppendProperties DEF ReceiveByte
  <2>2. CASE UNCHANGED input
    BY <2>2
  <2> QED
    BY <2>1, <2>2 DEF InputNext
<1> QED
  BY <1>1, <1>2, PTL DEF InputSpec

\* What a client encodes comes back as it was, with any of the line ends behind it
\* and whatever the arrays of both loops held (Base64Encode and Base64Decode).
THEOREM RoundTripHolds == InputSpec => []RoundTrip
<1>1. input \in Seq(Byte) => RoundTrip
  <2> SUFFICES ASSUME input \in Seq(Byte),
                      NEW tail \in {<< >>, << 13, 10 >>, << 32, 13, 10 >>},
                      NEW stale \in Stale, NEW left \in Stale
               PROVE  base64_decode(base64_encode(input, stale) \o tail, left) = input
    BY DEF RoundTrip
  <2>1. stale \in Byte /\ left \in Byte
    BY Base64Assumption
  <2>2. tail \in Seq(Byte)
    <3>1. 13 \in Byte /\ 10 \in Byte /\ 32 \in Byte
      BY DEF Byte
    <3>2. << >> \in Seq(Byte) /\ << 13, 10 >> \in Seq(Byte) /\ << 32, 13, 10 >> \in Seq(Byte)
      BY <3>1
    <3> QED
      BY <3>2
  <2>3. tail # << >> => ~is_base64(tail[1])
    <3>1. ~is_base64(13) /\ ~is_base64(32)
      BY DEF is_base64
    <3>2. << 13, 10 >>[1] = 13 /\ << 32, 13, 10 >>[1] = 32
      OBVIOUS
    <3> QED
      BY <3>1, <3>2, Zenon
  <2> QED
    BY <2>1, <2>2, <2>3, EncodeIsEncoded, DecodeUndoesEncode
<1> QED
  BY <1>1, InputCorrect, PTL

\* A bit of a byte, and of none.
LEMMA BitIsBit ==
    ASSUME NEW b \in Byte, NEW k \in 0 .. 7
    PROVE  (b \div 2 ^ k) % 2 \in 0 .. 1 /\ (0 \div 2 ^ k) % 2 = 0
<1>1. CASE k = 0
  BY <1>1 DEF Byte
<1>2. CASE k = 1
  BY <1>2 DEF Byte
<1>3. CASE k = 2
  BY <1>3 DEF Byte
<1>4. CASE k = 3
  BY <1>4 DEF Byte
<1>5. CASE k = 4
  BY <1>5 DEF Byte
<1>6. CASE k = 5
  BY <1>6 DEF Byte
<1>7. CASE k = 6
  BY <1>7 DEF Byte
<1>8. CASE k = 7
  BY <1>8 DEF Byte
<1> QED
  BY <1>1, <1>2, <1>3, <1>4, <1>5, <1>6, <1>7, <1>8

\* The bit of the bytes of a text at a place, counted from 0.
BitAt(bytes, p) == (ByteAt(bytes, p \div 8 + 1) \div 2 ^ (7 - (p % 8))) % 2

\* The bit of the indices of a text at a place is the one of its bytes.
LEMMA SextetsHaveBits ==
    ASSUME NEW bytes \in Seq(Byte), NEW p \in Nat
    PROVE  (Sextet(bytes, p \div 6 + 1) \div 2 ^ (5 - (p % 6))) % 2 = BitAt(bytes, p)
<1> DEFINE q == p \div 24
           t == p % 24
           a == GroupAt(bytes, q)
<1>1. q \in Nat /\ t \in 0 .. 23 /\ p = 24 * q + t
  OBVIOUS
<1>2. /\ p \div 6 + 1 = 4 * q + (t \div 6 + 1) /\ p % 6 = t % 6
      /\ p \div 8 + 1 = 3 * q + (t \div 8 + 1) /\ p % 8 = t % 8
      /\ t \div 6 + 1 \in 1 .. 4 /\ t \div 8 + 1 \in 1 .. 3
  <2> HIDE DEF q, t
  <2> QED
    BY <1>1
<1> HIDE DEF q, t
<1>3. a \in [1 .. 3 -> Byte]
  BY <1>1, SextetIsTyped
<1>4. Sextet(bytes, 4 * q + (t \div 6 + 1)) = Four(a)[t \div 6 + 1]
  BY <1>1, <1>2, SextetIsTyped
<1>5. ByteAt(bytes, 3 * q + (t \div 8 + 1)) = a[t \div 8 + 1]
  BY <1>2 DEF GroupAt
<1> HIDE DEF a
<1>6. (Four(a)[t \div 6 + 1] \div 2 ^ (5 - (t % 6))) % 2
        = (a[t \div 8 + 1] \div 2 ^ (7 - (t % 8))) % 2
  BY <1>1, <1>3, FourHasBits
<1> QED
  BY <1>2, <1>4, <1>5, <1>6, Zenon DEF BitAt

\* The bits of some indices that are those of a text.
LEMMA BitsOfIndices ==
    ASSUME NEW bytes \in Seq(Byte), NEW m \in Nat, NEW indices, Len(indices) = m,
           \A k \in 1 .. m : indices[k] = Sextet(bytes, k)
    PROVE  Bits(indices, 6) = [p \in 1 .. m * 6 |-> BitAt(bytes, p - 1)]
<1>1. \A p \in 1 .. m * 6 : (p - 1) \div 6 + 1 \in 1 .. m /\ p - 1 \in Nat
  OBVIOUS
<1>2. \A p \in 1 .. m * 6 : 6 - 1 - ((p - 1) % 6) = 5 - ((p - 1) % 6)
  OBVIOUS
<1>3. ASSUME NEW p \in 1 .. m * 6
      PROVE  (indices[((p - 1) \div 6) + 1] \div 2 ^ (6 - 1 - ((p - 1) % 6))) % 2 = BitAt(bytes, p - 1)
  <2>1. indices[((p - 1) \div 6) + 1] = Sextet(bytes, ((p - 1) \div 6) + 1)
    BY <1>1
  <2>2. (Sextet(bytes, (p - 1) \div 6 + 1) \div 2 ^ (5 - ((p - 1) % 6))) % 2 = BitAt(bytes, p - 1)
    BY <1>1, SextetsHaveBits
  <2>3. 6 - 1 - ((p - 1) % 6) = 5 - ((p - 1) % 6)
    BY <1>2
  <2> QED
    BY <2>1, <2>2, <2>3, Zenon
<1> QED
  BY <1>3, Zenon DEF Bits

\* The bits of the bytes themselves.
LEMMA BitsOfBytes ==
    ASSUME NEW bytes \in Seq(Byte)
    PROVE  Bits(bytes, 8) = [p \in 1 .. Len(bytes) * 8 |-> BitAt(bytes, p - 1)]
<1>1. Len(bytes) \in Nat
  OBVIOUS
<1>2. ASSUME NEW p \in 1 .. Len(bytes) * 8
      PROVE  (bytes[((p - 1) \div 8) + 1] \div 2 ^ (8 - 1 - ((p - 1) % 8))) % 2 = BitAt(bytes, p - 1)
  <2>1. (p - 1) \div 8 + 1 \in 1 .. Len(bytes)
    BY <1>1
  <2>2. ByteAt(bytes, (p - 1) \div 8 + 1) = bytes[((p - 1) \div 8) + 1]
    BY <2>1 DEF ByteAt
  <2>3. 8 - 1 - ((p - 1) % 8) = 7 - ((p - 1) % 8)
    BY <1>1
  <2> QED
    BY <2>2, <2>3, Zenon DEF BitAt
<1> QED
  BY <1>2, Zenon DEF Bits

\* A place of a text holds a bit, and a place behind its end none.
LEMMA BitAtIsBit ==
    ASSUME NEW bytes \in Seq(Byte), NEW p \in Nat
    PROVE  BitAt(bytes, p) \in 0 .. 1 /\ (Len(bytes) * 8 <= p => BitAt(bytes, p) = 0)
<1>1. Len(bytes) \in Nat /\ p \div 8 + 1 \in Nat /\ 7 - (p % 8) \in 0 .. 7
  OBVIOUS
<1>2. ByteAt(bytes, p \div 8 + 1) \in Byte
  <2>1. 0 \in Byte
    BY DEF Byte
  <2> QED
    BY <2>1, ElementOfSeq DEF ByteAt
<1>3. BitAt(bytes, p) \in 0 .. 1
  BY <1>1, <1>2, BitIsBit DEF BitAt
<1>4. ASSUME Len(bytes) * 8 <= p PROVE BitAt(bytes, p) = 0
  <2>1. p \div 8 + 1 \notin 1 .. Len(bytes)
    BY <1>1, <1>4
  <2>2. ByteAt(bytes, p \div 8 + 1) = 0
    BY <2>1 DEF ByteAt
  <2>3. 0 \in Byte
    BY DEF Byte
  <2> QED
    BY <1>1, <2>2, <2>3, BitIsBit DEF BitAt
<1> QED
  BY <1>3, <1>4

\* The bits of an encoded text are those of its bytes and zeros, fewer than make a
\* byte, and never what the array of the loop held (Base64Encode).
THEOREM BitsEncoded == InputSpec => []EncodesBits
<1>1. input \in Seq(Byte) => EncodesBits
  <2> SUFFICES ASSUME input \in Seq(Byte), NEW stale \in Stale
               PROVE  LET digits == Digits(base64_encode(input, stale))
                          bits   == Bits([k \in DOMAIN digits |-> PositionOf(digits[k])], 6)
                          size   == Len(input) * 8
                      IN  /\ Len(bits) \in size .. size + 7
                          /\ SubSeq(bits, 1, size) = Bits(input, 8)
                          /\ \A n \in size + 1 .. Len(bits) : bits[n] = 0
    BY DEF EncodesBits
  <2> DEFINE e == base64_encode(input, stale)
             digits == Digits(e)
             l == Len(input)
             m == Size(l)
             indices == [k \in DOMAIN digits |-> PositionOf(digits[k])]
             bits == Bits(indices, 6)
             size == l * 8
             plain == Bits(input, 8)
  <2>1. stale \in Byte /\ l \in Nat
    BY Base64Assumption
  <2>2. Encoded(input, e)
    BY <2>1, EncodeIsEncoded
  <2>3. digits \in Seq(Byte) /\ Len(digits) = m /\ \A k \in 1 .. m : digits[k] = base64_chars[Sextet(input, k)]
    <3>1. << >> \in Seq(Byte) /\ (<< >> # << >> => ~is_base64(<< >>[1]))
      OBVIOUS
    <3>2. Digits(e \o << >>) \in Seq(Byte) /\ Len(Digits(e \o << >>)) = m
          /\ \A k \in 1 .. m : Digits(e \o << >>)[k] = base64_chars[Sextet(input, k)]
      BY <2>2, <3>1, EncodedDigits
    <3>3. e \o << >> = e
      BY <2>2, ConcatEmptySeq DEF Encoded
    <3> QED
      BY <3>2, <3>3
  <2>4. m \in Nat /\ m * 6 \in l * 8 .. l * 8 + 7
    <3> HIDE DEF l
    <3> QED
      BY <2>1, SizeInBits
  <2> HIDE DEF e, m
  <2>5. Len(indices) = m /\ \A k \in 1 .. m : indices[k] = Sextet(input, k)
    <3>1. DOMAIN digits = 1 .. m
      BY <2>3
    <3>2. \A k \in 1 .. m : indices[k] = Sextet(input, k)
      <4> TAKE k \in 1 .. m
      <4>1. Sextet(input, k) \in 0 .. 63
        <5>1. k \in Nat \ {0}
          BY <2>4
        <5> QED
          BY <5>1, SextetIsTyped
      <4> QED
        BY <2>3, <3>1, <4>1, CharsAreBase64
    <3>3. indices \in [1 .. m -> 0 .. 63]
      <4>1. \A k \in 1 .. m : Sextet(input, k) \in 0 .. 63
        <5>1. \A k \in 1 .. m : k \in Nat \ {0}
          BY <2>4
        <5> QED
          BY <5>1, SextetIsTyped
      <4>2. \A k \in 1 .. m : PositionOf(digits[k]) \in 0 .. 63
        BY <3>1, <3>2, <4>1
      <4> HIDE DEF digits
      <4> QED
        BY <3>1, <4>2
    <3>4. indices \in Seq(0 .. 63) /\ Len(indices) = m
      <4> HIDE DEF indices
      <4> QED
        BY <2>4, <3>3
    <3> QED
      BY <3>2, <3>4
  <2> HIDE DEF digits, indices
  <2>6. bits = [p \in 1 .. m * 6 |-> BitAt(input, p - 1)]
    BY <2>4, <2>5, BitsOfIndices
  <2>7. plain = [p \in 1 .. size |-> BitAt(input, p - 1)]
    BY BitsOfBytes
  <2> HIDE DEF bits, plain
  <2>8. m * 6 \in Nat /\ size \in Nat /\ m * 6 \in size .. size + 7
    BY <2>1, <2>4
  <2>9. \A p \in 1 .. m * 6 : bits[p] \in 0 .. 1 /\ (size < p => bits[p] = 0)
    <3> TAKE p \in 1 .. m * 6
    <3>1. p - 1 \in Nat /\ (size < p => size <= p - 1)
      BY <2>8
    <3>2. BitAt(input, p - 1) \in 0 .. 1 /\ (size <= p - 1 => BitAt(input, p - 1) = 0)
      BY <3>1, BitAtIsBit
    <3> QED
      BY <2>6, <3>1, <3>2
  <2>10. bits \in Seq(0 .. 1) /\ Len(bits) = m * 6
    <3> DEFINE b == m * 6
    <3>1. bits \in [1 .. b -> 0 .. 1] /\ b \in Nat
      BY <2>6, <2>8, <2>9
    <3> HIDE DEF b
    <3>2. bits \in Seq(0 .. 1) /\ Len(bits) = b
      BY <3>1
    <3> QED
      BY <3>2 DEF b
  <2>11. SubSeq(bits, 1, size) = plain
    <3> DEFINE b == m * 6
               z == size
               part == SubSeq(bits, 1, z)
    <3>1. z \in Nat /\ b \in Nat /\ z <= b
      BY <2>8
    <3>2. plain = [p \in 1 .. z |-> BitAt(input, p - 1)]
      BY <2>7
    <3>3. bits = [p \in 1 .. b |-> BitAt(input, p - 1)]
      BY <2>6
    <3>4. \A p \in 1 .. z : bits[p] \in 0 .. 1
      BY <2>8, <2>9
    <3> HIDE DEF b, z
    <3>5. part \in Seq(0 .. 1)
      BY <3>1, <3>4, SubSeqProperties
    <3>6. Len(part) = IF 1 <= z THEN z - 1 + 1 ELSE 0
      BY <3>1, <3>4, SubSeqProperties
    <3>7. \A p \in 1 .. z - 1 + 1 : part[p] = bits[1 + p - 1]
      BY <3>1, <3>4, SubSeqProperties
    <3>8. Len(part) = z
      BY <3>1, <3>6
    <3>9. \A p \in 1 .. z : part[p] = plain[p]
      <4> TAKE p \in 1 .. z
      <4>1. p \in 1 .. z - 1 + 1 /\ 1 + p - 1 = p /\ p \in 1 .. b
        BY <3>1
      <4>2. part[p] = bits[p]
        BY <3>7, <4>1
      <4> HIDE DEF part
      <4> QED
        BY <3>2, <3>3, <4>1, <4>2
    <3> HIDE DEF part
    <3>10. part \in [1 .. z -> 0 .. 1]
      BY <3>5, <3>8
    <3>11. plain \in [1 .. z -> 0 .. 1]
      <4>1. \A p \in 1 .. z : plain[p] \in 0 .. 1
        BY <3>9, <3>10
      <4> QED
        BY <3>2, <4>1
    <3>12. part = plain
      <4> DEFINE Places == 1 .. z
      <4>1. /\ part \in [Places -> 0 .. 1] /\ plain \in [Places -> 0 .. 1]
            /\ \A p \in Places : part[p] = plain[p]
        BY <3>9, <3>10, <3>11
      <4> HIDE DEF Places
      <4> QED
        BY <4>1, SameFunction
    <3> QED
      BY <3>12 DEF part, z
  <2>12. Len(bits) \in size .. size + 7 /\ \A n \in size + 1 .. Len(bits) : bits[n] = 0
    BY <2>8, <2>9, <2>10
  <2>13. bits = Bits([k \in DOMAIN Digits(e) |-> PositionOf(Digits(e)[k])], 6)
    BY DEF bits, indices, digits
  <2>14. plain = Bits(input, 8)
    BY DEF plain
  <2> QED
    BY <2>11, <2>12, <2>13, <2>14, Zenon DEF e
<1> QED
  BY <1>1, InputCorrect, PTL

=============================================================================
