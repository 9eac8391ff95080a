----------------------------- MODULE TcpClient -----------------------------
(***************************************************************************)
(* What one CTcpClient writes: the answers its handler gives it, the one   *)
(* buffer they are copied to, and the writes asio still has to finish.     *)
(* Send returns at once; asio takes the bytes later, in parts, out of the  *)
(* buffer as it is by then.  Reads are handled while writes are            *)
(* outstanding, and every one of them is followed by a Send, with an empty *)
(* answer as well.                                                         *)
(*                                                                         *)
(* The bytes of answer n are << n, 1 >>, << n, 2 >>, ...; its length is    *)
(* what counts.  Answers longer than the buffer are left out.              *)
(***************************************************************************)
EXTENDS Integers, SequencesExt, FiniteSetsExt

CONSTANTS
    BufSize,      \* the size of m_sendBuf
    Lengths,      \* the lengths of answers
    MaxAnswers    \* bound: answers of one connection

ASSUME TcpClientAssumption ==
    /\ BufSize \in Nat
    /\ Lengths \subseteq 0 .. BufSize
    /\ 0 \in Lengths
    /\ MaxAnswers \in Nat \ {0}

VARIABLES
    m_bConnected,
    m_bFinished,   \* IsFinished() of the handler
    m_sendBuf,
    writes,        \* the outstanding async_writes: their length and the bytes sent
    given,         \* history: the lengths of the answers Send was given
    delivered,     \* history: the bytes the peer was sent
    early          \* history: a request was handled before all answers were sent

handler == << m_bFinished, given, early >>
vars    == << m_bConnected, m_sendBuf, writes, delivered, handler >>

----------------------------------------------------------------------------
NUL == << 0, 0 >>

Answer(n, length) == [k \in 1 .. length |-> << n, k >>]

\* The answers Send was given, one after the other.
Said == FlattenSeq([n \in DOMAIN given |-> Answer(n, given[n])])

\* Deviation: the first byte of an answer is given to a write of its own.
SendTwice(length) ==
    LET n == Len(given) + 1
        write(bytes) == IF bytes > 0 THEN << [length |-> bytes, sent |-> 0] >> ELSE << >>
    IN  /\ m_sendBuf' = [k \in 1 .. BufSize |-> IF k < length THEN << n, 1 + k >> ELSE NUL]
        /\ writes' = writes \o write(IF length > 0 THEN 1 ELSE 0) \o write(length - 1)
        /\ given' = Append(given, length)

\* The buffer is cleared and filled, whoever still reads it, and a write of
\* the answer is started.  A write of nothing is over at once.
Send(length) ==
    /\ m_sendBuf' = [k \in 1 .. BufSize |->
                        IF k <= length THEN << Len(given) + 1, k >> ELSE NUL]
    /\ writes' = IF length = 0 THEN writes ELSE Append(writes, [length |-> length, sent |-> 0])
    /\ given' = Append(given, length)

\* The writes that are outstanding end with an error, and their callbacks find
\* the connection closed.
Close ==
    /\ m_bConnected' = FALSE
    /\ writes' = << >>

\* A read is handed to the handler, which answers.
OnRecive(length) ==
    /\ m_bConnected
    /\ Len(given) < MaxAnswers
    /\ Send(length)
    /\ early' = (early \/ writes # << >>)
    /\ UNCHANGED << m_bConnected, m_bFinished, delivered >>

\* Deviation: the request that finishes the session is answered.
OnFinishAnswers ==
    /\ m_bConnected
    /\ Len(given) < MaxAnswers
    /\ \E length \in Lengths : given' = Append(given, length)
    /\ early' = (early \/ writes # << >>)
    /\ m_bFinished' = TRUE
    /\ Close
    /\ UNCHANGED << m_sendBuf, delivered >>

\* The read that finishes the session: its answer is empty, and the handler
\* closes the connection.
OnFinish ==
    /\ m_bConnected
    /\ Len(given) < MaxAnswers
    /\ m_sendBuf' = [k \in 1 .. BufSize |-> NUL]
    /\ given' = Append(given, 0)
    /\ early' = (early \/ writes # << >>)
    /\ m_bFinished' = TRUE
    /\ Close
    /\ UNCHANGED delivered

\* Deviation: async_write_some, which is over with the first part.
WriteFirstPart(i, count) ==
    /\ writes[i].sent + count <= writes[i].length
    /\ delivered' = delivered \o SubSeq(m_sendBuf, 1, count)
    /\ writes' = RemoveAt(writes, i)
    /\ UNCHANGED << m_bConnected, m_sendBuf, handler >>

\* The system takes the next bytes of an outstanding write; writes that are
\* outstanding together may take turns.  A write that took them all is over.
Write(i, count) ==
    LET w == writes[i] IN
    /\ w.sent + count <= w.length
    /\ delivered' = delivered \o SubSeq(m_sendBuf, w.sent + 1, w.sent + count)
    /\ writes' = IF w.sent + count = w.length THEN RemoveAt(writes, i)
                 ELSE [writes EXCEPT ![i].sent = @ + count]
    /\ UNCHANGED << m_bConnected, m_sendBuf, handler >>

\* A read or a write ends with an error.
Fail ==
    /\ m_bConnected
    /\ Close
    /\ UNCHANGED << m_sendBuf, delivered, handler >>

\* A connection was accepted and SetTcpSocket sends the greeting.
Init ==
    /\ m_bConnected = TRUE
    /\ m_bFinished = FALSE
    /\ \E length \in Lengths \ {0} :
          /\ m_sendBuf = [k \in 1 .. BufSize |-> IF k <= length THEN << 1, k >> ELSE NUL]
          /\ writes = << [length |-> length, sent |-> 0] >>
          /\ given = << length >>
    /\ delivered = << >>
    /\ early = FALSE

Next ==
    \/ \E length \in Lengths : OnRecive(length)
    \/ OnFinish
    \/ \E i \in DOMAIN writes, count \in 1 .. BufSize : Write(i, count)
    \/ Fail

Spec == Init /\ [][Next]_vars

\* The system goes on taking bytes as long as the connection is open.
WritesAreFair == WF_vars(\E i \in DOMAIN writes, count \in 1 .. BufSize : Write(i, count))

FairSpec == Spec /\ WritesAreFair

----------------------------------------------------------------------------
\* A peer that waits for each answer before its next request gets the answers
\* as they were given, in order, although all of them go through one buffer
\* and in parts (Send's memcpy against asio's later reads of m_sendBuf).
AnswersArriveWhole == ~early => IsPrefix(delivered, Said)

\* To such a peer nothing is lost when the finished handler closes the
\* connection in the same callback in which it answered (OnRecive, Close).
FinishedWasToldAll == m_bFinished /\ ~early => delivered = Said

\* What outstanding writes still have to send.
Owing(ws) ==
    LET owed[n \in 0 .. Len(ws)] ==
            IF n = 0 THEN 0 ELSE owed[n - 1] + ws[n].length - ws[n].sent
    IN  owed[Len(ws)]

\* To any peer, one that does not wait included, an open connection owes
\* exactly the bytes its outstanding writes still have to send: overlapping
\* writes spoil each other's bytes, never their number.
BytesAreCounted ==
    m_bConnected => Len(Said) - Len(delivered) = Owing(writes)

\* Each answer is sent in the end, unless the connection is closed before.
AnswersAreSent ==
    \A n \in 1 .. MaxAnswers :
        (n \in DOMAIN given)
            ~> (~m_bConnected \/ Len(delivered) >= MapThenSumSet(LAMBDA i : given[i], {i \in DOMAIN given : i <= n}))

=============================================================================
