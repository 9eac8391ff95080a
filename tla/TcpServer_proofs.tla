-------------------------- MODULE TcpServer_proofs --------------------------
(***************************************************************************)
(* The two safety invariants of TcpServer for any number of connections.   *)
(* Neither is inductive alone: CheckClients keeps the handler of an open   *)
(* connection because that handler is not finished, and a connection that  *)
(* waits has no finished handler because none was made for it yet.         *)
(***************************************************************************)
EXTENDS TcpServer, TLAPS

\* The handler of a connection exists only once the connection was accepted.
UnacceptedIsUnread ==
    \A c \in Clients :
        sock[c] \in {"none", "waiting"} =>
            ~m_bConnected[c] /\ ~m_bFinished[c] /\ read[c] = "none"

IInv == TypeOK /\ OpenHasHandler /\ FinishedReadsNoMore /\ UnacceptedIsUnread

\* The server starts without connections.
LEMMA InitIInv == Init => IInv
BY DEF Init, IInv, TypeOK, OpenHasHandler, FinishedReadsNoMore, UnacceptedIsUnread

\* Every step of the loop, of a peer and of the system is typed.
LEMMA NextTypeOK == TypeOK /\ [Next]_vars => TypeOK'
<1> SUFFICES ASSUME TypeOK, [Next]_vars PROVE TypeOK'
    OBVIOUS
<1> USE DEF TypeOK, peers, server, client
<1>1. CASE AcceptFails
    BY <1>1 DEF AcceptFails
<1>2. CASE OnTimer
    BY <1>2 DEF OnTimer, CheckClients
<1>3. ASSUME NEW c \in Clients, Arrive(c) \/ Leave(c) \/ Deliver(c)
      PROVE  TypeOK'
    BY <1>3 DEF Arrive, Leave, Deliver
<1>4. ASSUME NEW c \in Clients, AcceptSucceeds(c) \/ AcceptThrows(c)
      PROVE  TypeOK'
    BY <1>4 DEF AcceptSucceeds, AcceptThrows
<1>5. ASSUME NEW c \in Clients, ReadSucceeds(c)
      PROVE  TypeOK'
    BY <1>5 DEF ReadSucceeds, Close, DoRead
<1>6. ASSUME NEW c \in Clients, ReadFails(c) \/ WriteFails(c)
      PROVE  TypeOK'
    BY <1>6 DEF ReadFails, WriteFails, Close
<1>7. CASE UNCHANGED vars
    BY <1>7 DEF vars
<1> QED
    BY <1>1, <1>2, <1>3, <1>4, <1>5, <1>6, <1>7 DEF Next

\* One step per action: each changes the connection it is about only, except
\* the timer, which changes m_clients only.
LEMMA NextIInv == IInv /\ [Next]_vars => IInv'
<1> SUFFICES ASSUME IInv, [Next]_vars PROVE IInv'
    OBVIOUS
<1> USE DEF IInv, OpenHasHandler, FinishedReadsNoMore, UnacceptedIsUnread
<1>0. TypeOK /\ TypeOK'
    BY NextTypeOK
<1>1. CASE AcceptFails
    BY <1>0, <1>1 DEF AcceptFails, peers, client
<1>2. CASE OnTimer
    BY <1>0, <1>2 DEF OnTimer, CheckClients, peers, client
<1>3. ASSUME NEW c \in Clients, Arrive(c)
      PROVE  IInv'
    BY <1>0, <1>3 DEF Arrive, server, client, TypeOK
<1>4. ASSUME NEW c \in Clients, Leave(c)
      PROVE  IInv'
    BY <1>0, <1>4 DEF Leave, server, client, TypeOK
<1>5. ASSUME NEW c \in Clients, Deliver(c)
      PROVE  IInv'
    BY <1>0, <1>5 DEF Deliver, peers, server, TypeOK
<1>6. ASSUME NEW c \in Clients, AcceptSucceeds(c)
      PROVE  IInv'
    BY <1>0, <1>6 DEF AcceptSucceeds, TypeOK
<1>7. ASSUME NEW c \in Clients, AcceptThrows(c)
      PROVE  IInv'
    BY <1>0, <1>7 DEF AcceptThrows, peers, client
<1>8. ASSUME NEW c \in Clients, ReadSucceeds(c)
      PROVE  IInv'
  <2>1. ~m_bFinished[c]
      BY <1>0, <1>8 DEF ReadSucceeds
  <2>2. sock[c] \notin {"none", "waiting"}
      BY <1>0, <1>8 DEF ReadSucceeds
  <2>3. CASE Close(c) /\ m_bFinished' = [m_bFinished EXCEPT ![c] = TRUE]
      BY <1>0, <1>8, <2>2, <2>3 DEF ReadSucceeds, Close, DoRead, server, TypeOK
  <2>4. CASE UNCHANGED << m_bFinished, m_bConnected, sock >>
      BY <1>0, <1>8, <2>1, <2>2, <2>4 DEF ReadSucceeds, DoRead, server, TypeOK
  <2> QED
      BY <1>8, <2>3, <2>4 DEF ReadSucceeds
<1>9. ASSUME NEW c \in Clients, ReadFails(c)
      PROVE  IInv'
    BY <1>0, <1>9 DEF ReadFails, Close, server, TypeOK
<1>10. ASSUME NEW c \in Clients, WriteFails(c)
       PROVE  IInv'
    BY <1>0, <1>10 DEF WriteFails, Close, server, TypeOK
<1>11. CASE UNCHANGED vars
    BY <1>11 DEF vars, peers, server, client, TypeOK
<1> QED
    BY <1>1, <1>2, <1>3, <1>4, <1>5, <1>6, <1>7, <1>8, <1>9, <1>10, <1>11 DEF Next

\* The inductive invariant holds in every state of every behaviour.
LEMMA IInvHolds == Spec => []IInv
<1>1. Init => IInv
    BY InitIInv
<1>2. IInv /\ [Next]_vars => IInv'
    BY NextIInv
<1> QED
    BY <1>1, <1>2, PTL DEF Spec

\* The state of the server is typed, for any connections (CTcpServer, CTcpClient).
THEOREM TypeCorrect == Spec => []TypeOK
<1>1. IInv => TypeOK
    BY DEF IInv
<1> QED
    BY <1>1, IInvHolds, PTL

\* An open connection keeps its handler and is read from (CheckClients, DoRead).
THEOREM HandlersKept == Spec => []OpenHasHandler
<1>1. IInv => OpenHasHandler
    BY DEF IInv
<1> QED
    BY <1>1, IInvHolds, PTL

\* A finished handler is given nothing more (OnRecive, Close, DoRead).
THEOREM FinishedCorrect == Spec => []FinishedReadsNoMore
<1>1. IInv => FinishedReadsNoMore
    BY DEF IInv
<1> QED
    BY <1>1, IInvHolds, PTL

=============================================================================
