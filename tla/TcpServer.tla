------------------------------ MODULE TcpServer ------------------------------
(***************************************************************************)
(* CTcpServer<T> and the connections it accepts: the acceptor, the timer   *)
(* that throws away handlers, and for each connection the handler (a T),   *)
(* its CTcpClient and the read that is outstanding.  A step is one         *)
(* callback of the io_context, or something a peer or the system does.     *)
(*                                                                         *)
(* Handlers are held by m_clients; a client holds its handler by a weak    *)
(* pointer only, so a handler that leaves m_clients is destroyed.  A       *)
(* client lives on while a read or a write of it is outstanding.           *)
(* What a handler answers is left out; it may finish at any request.       *)
(***************************************************************************)
CONSTANT Clients   \* the connections peers may open

VARIABLES
    running,        \* the io_context runs
    accepting,      \* an async_accept is outstanding
    acceptFailed,   \* history: an accept ended with an error
    timing,         \* an async_wait is outstanding
    sock,           \* a connection: "none", "waiting" to be accepted, "open", "closed"
    peerGone,       \* the peer has left, and all it sent was read
    m_clients,      \* the handlers the server holds
    m_bConnected,
    m_bFinished,    \* IsFinished() of the handler
    read            \* an async_read_some: "none", "pending", or "ready" to call back

peers  == << sock, peerGone >>
server == << running, accepting, acceptFailed, timing, m_clients >>
client == << m_bConnected, m_bFinished, read >>
vars   == << peers, server, client >>

----------------------------------------------------------------------------
\* A peer connects.
Arrive(c) ==
    /\ sock[c] = "none"
    /\ sock' = [sock EXCEPT ![c] = "waiting"]
    /\ UNCHANGED << peerGone, server, client >>

\* The peer leaves, with or without a word.
Leave(c) ==
    /\ sock[c] \in {"waiting", "open"}
    /\ ~peerGone[c]
    /\ peerGone' = [peerGone EXCEPT ![c] = TRUE]
    /\ UNCHANGED << sock, server, client >>

\* The system completes a read, whose callback is then ready.
Deliver(c) ==
    /\ sock[c] = "open" /\ ~peerGone[c]
    /\ read[c] = "pending"
    /\ read' = [read EXCEPT ![c] = "ready"]
    /\ UNCHANGED << peers, server, m_bConnected, m_bFinished >>

----------------------------------------------------------------------------
\* Deviation: nobody keeps the handler of an accepted connection.
AcceptKeepsNothing(c) ==
    /\ running /\ accepting
    /\ sock[c] = "waiting"
    /\ sock' = [sock EXCEPT ![c] = "open"]
    /\ m_bConnected' = [m_bConnected EXCEPT ![c] = TRUE]
    /\ read' = [read EXCEPT ![c] = "pending"]
    /\ UNCHANGED << server, peerGone, m_bFinished >>

\* Deviation: DoAccept is not called again.
AcceptOnce(c) ==
    /\ running /\ accepting
    /\ sock[c] = "waiting"
    /\ sock' = [sock EXCEPT ![c] = "open"]
    /\ m_bConnected' = [m_bConnected EXCEPT ![c] = TRUE]
    /\ m_clients' = m_clients \cup {c}
    /\ read' = [read EXCEPT ![c] = "pending"]
    /\ accepting' = FALSE
    /\ UNCHANGED << running, acceptFailed, timing, peerGone, m_bFinished >>

\* A handler and a client are made, the handler is kept, the first read is
\* started and so is the next accept.
AcceptSucceeds(c) ==
    /\ running /\ accepting
    /\ sock[c] = "waiting"
    /\ sock' = [sock EXCEPT ![c] = "open"]
    /\ m_bConnected' = [m_bConnected EXCEPT ![c] = TRUE]
    /\ m_clients' = m_clients \cup {c}
    /\ read' = [read EXCEPT ![c] = "pending"]
    /\ UNCHANGED << running, accepting, acceptFailed, timing, peerGone, m_bFinished >>

\* The accept ends with an error, and no other is started.
AcceptFails ==
    /\ running /\ accepting
    /\ accepting' = FALSE
    /\ acceptFailed' = TRUE
    /\ UNCHANGED << running, timing, m_clients, peers, client >>

\* The constructor of CTcpClient asks for the address of a peer that is gone:
\* the exception leaves the loop and the process ends.
AcceptThrows(c) ==
    /\ running /\ accepting
    /\ sock[c] = "waiting" /\ peerGone[c]
    /\ running' = FALSE
    /\ UNCHANGED << accepting, acceptFailed, timing, m_clients, peers, client >>

\* Deviation: only a handler that is finished as well as disconnected goes.
KeepsEither ==
    m_clients' = {c \in m_clients : ~m_bFinished[c] \/ m_bConnected[c]}

CheckClients ==
    m_clients' = {c \in m_clients : ~m_bFinished[c] /\ m_bConnected[c]}

\* Deviation: the timer is not armed again.
OnTimerOnce ==
    /\ running /\ timing
    /\ CheckClients
    /\ timing' = FALSE
    /\ UNCHANGED << running, accepting, acceptFailed, peers, client >>

\* The timer is armed again by its own callback only.
OnTimer ==
    /\ running /\ timing
    /\ CheckClients
    /\ timing' = TRUE
    /\ UNCHANGED << running, accepting, acceptFailed, peers, client >>

----------------------------------------------------------------------------
\* Deviation: the socket is shut down and not closed.
CloseShutsDown(c) ==
    /\ m_bConnected' = [m_bConnected EXCEPT ![c] = FALSE]
    /\ sock' = [sock EXCEPT ![c] = "shutdown"]

\* CTcpClient::Close: a read that is pending will end with an error.
Close(c) ==
    /\ m_bConnected' = [m_bConnected EXCEPT ![c] = FALSE]
    /\ sock' = [sock EXCEPT ![c] = "closed"]

\* Deviation: the next read is started whatever the handler did.
DoReadAlways(c) == read' = [read EXCEPT ![c] = "pending"]

\* The next read is started if the connection is still open.
DoRead(c) ==
    read' = [read EXCEPT ![c] = IF m_bConnected'[c] THEN "pending" ELSE "none"]

\* A read ended well, on a connection that may have been closed since.  If its
\* handler is still there, it is given what was read, and may finish.
ReadSucceeds(c) ==
    /\ running
    /\ read[c] = "ready"
    /\ \/ /\ c \in m_clients
          /\ m_bFinished' = [m_bFinished EXCEPT ![c] = TRUE]
          /\ Close(c)
       \/ UNCHANGED << m_bFinished, m_bConnected, sock >>
    /\ DoRead(c)
    /\ UNCHANGED << peerGone, server >>

\* A read ends with an error: the peer is gone, or the socket was closed.
ReadFails(c) ==
    /\ running
    /\ read[c] = "pending"
    /\ peerGone[c] \/ sock[c] = "closed"
    /\ Close(c)
    /\ read' = [read EXCEPT ![c] = "none"]
    /\ UNCHANGED << peerGone, server, m_bFinished >>

\* A write of an open connection ends with an error.
WriteFails(c) ==
    /\ running
    /\ sock[c] = "open"
    /\ Close(c)
    /\ UNCHANGED << peerGone, server, m_bFinished, read >>

----------------------------------------------------------------------------
\* Start: the timer is armed and the first accept is outstanding.
Init ==
    /\ running = TRUE
    /\ accepting = TRUE
    /\ acceptFailed = FALSE
    /\ timing = TRUE
    /\ sock = [c \in Clients |-> "none"]
    /\ peerGone = [c \in Clients |-> FALSE]
    /\ m_clients = {}
    /\ m_bConnected = [c \in Clients |-> FALSE]
    /\ m_bFinished = [c \in Clients |-> FALSE]
    /\ read = [c \in Clients |-> "none"]

Next ==
    \/ AcceptFails
    \/ OnTimer
    \/ \E c \in Clients :
          \/ Arrive(c) \/ Leave(c) \/ Deliver(c)
          \/ AcceptSucceeds(c) \/ AcceptThrows(c)
          \/ ReadSucceeds(c) \/ ReadFails(c) \/ WriteFails(c)

Spec == Init /\ [][Next]_vars

\* The loop calls back what is ready: the timer, a connection that can be
\* accepted, a read that has ended.  Nothing makes a peer come, speak or leave.
LoopIsFair ==
    /\ WF_vars(OnTimer)
    /\ \A c \in Clients :
          WF_vars(AcceptSucceeds(c)) /\ WF_vars(ReadSucceeds(c)) /\ WF_vars(ReadFails(c))

FairSpec == Spec /\ LoopIsFair

----------------------------------------------------------------------------
TypeOK ==
    /\ running \in BOOLEAN
    /\ accepting \in BOOLEAN
    /\ acceptFailed \in BOOLEAN
    /\ timing \in BOOLEAN
    /\ sock \in [Clients -> {"none", "waiting", "open", "closed"}]
    /\ peerGone \in [Clients -> BOOLEAN]
    /\ m_clients \subseteq Clients
    /\ m_bConnected \in [Clients -> BOOLEAN]
    /\ m_bFinished \in [Clients -> BOOLEAN]
    /\ read \in [Clients -> {"none", "pending", "ready"}]

\* However reads, failed writes and the timer interleave, an open connection
\* has its handler and a read outstanding: what its peer sends reaches the
\* handler and is not thrown away (DoRead's weak pointer, CheckClients).
OpenHasHandler ==
    \A c \in Clients : m_bConnected[c] => c \in m_clients /\ read[c] # "none"

\* A finished handler is never given another read, not even one that had ended
\* before it finished: what keeps the SMTP handler from saving a mail twice
\* (the order of OnRecive, Close and DoRead).
FinishedReadsNoMore ==
    \A c \in Clients : m_bFinished[c] => ~m_bConnected[c] /\ read[c] = "none"

\* The handler of a closed connection is thrown away in the end (OnTimer).
ClosedIsForgotten ==
    \A c \in Clients : (sock[c] = "closed") ~> (c \notin m_clients \/ ~running)

\* So is the one of an accepted connection whose peer leaves (DoRead, OnTimer).
LeftIsForgotten ==
    \A c \in Clients :
        (sock[c] = "open" /\ peerGone[c])
            ~> ((sock[c] = "closed" /\ c \notin m_clients) \/ ~running)

\* A connection that waits is accepted, unless an accept has failed before it
\* (DoAccept, which goes on after an accept that succeeded only).
WaitingIsAccepted ==
    \A c \in Clients : (sock[c] = "waiting") ~> (sock[c] # "waiting" \/ acceptFailed \/ ~running)

=============================================================================
