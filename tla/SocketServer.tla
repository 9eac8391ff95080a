---------------------------- MODULE SocketServer ----------------------------
(***************************************************************************)
(* A process of socket_cpp_email_server: StartSmtpServer, or               *)
(* StartPop3Server, over the blocking CTCPServer of socket-cpp.  One       *)
(* thread serves one client at a time: it accepts, makes a handler, then   *)
(* sends the handler's response and receives a request in turn until the   *)
(* client is gone, a response cannot be sent or the handler is finished.   *)
(*                                                                         *)
(* A response is the number of the request it answers, 0 for the greeting. *)
(* The buffer that requests are received into is made once, outside the    *)
(* loops, and is never cleared: memset is given its size and value in the  *)
(* wrong order.  A place of it is the client whose bytes are there.        *)
(* A Listen that times out, or whose listen, select or accept fails,       *)
(* changes nothing and is tried again: a stuttering step.  A request that  *)
(* ends the process from inside its handler is in SmtpServerHandler.       *)
(***************************************************************************)
EXTENDS Integers, Sequences

CONSTANTS
    Clients,       \* the connections clients may open
    MaxRequests,   \* bound: requests of one client
    BuffSize,      \* the places of the buffer
    Finishes       \* the loop looks at IsFinished(): SMTP does, POP3 does not

ASSUME SocketServerAssumption ==
    MaxRequests \in Nat /\ BuffSize \in Nat \ {0} /\ Finishes \in BOOLEAN

None == -1    \* no response, no client, no bytes

VARIABLES
    place,            \* of the thread: "listen", "respond", "receive" or "ended"
    m_ListenSocket,   \* "INVALID", "bound" to the port, or "unbound"
    backlog,          \* the connections that wait, in the order they came
    sock,             \* a connection: "none", "waiting", "open" or "closed"
    peerGone,         \* the client has left
    asked,            \* the requests a client has sent
    client,           \* the connection that is served, or was served last
    buff,
    m_strResponse,
    handled,          \* the requests the handler was given
    heard,            \* history: the clients whose bytes the handler was given
    told              \* history: the responses a client was sent

listener == << m_ListenSocket, backlog >>
peers    == << peerGone, asked >>
handler  == << m_strResponse, handled, heard >>
vars     == << place, listener, sock, peers, client, buff, handler, told >>

----------------------------------------------------------------------------
\* A client connects: the system takes the connection while the server is busy.
Arrive(c) ==
    /\ m_ListenSocket = "bound" /\ place # "ended"
    /\ sock[c] = "none"
    /\ sock' = [sock EXCEPT ![c] = "waiting"]
    /\ backlog' = Append(backlog, c)
    /\ UNCHANGED << place, m_ListenSocket, peers, client, buff, handler, told >>

Request(c) ==
    /\ sock[c] \in {"waiting", "open"} /\ ~peerGone[c]
    /\ asked[c] < MaxRequests
    /\ asked' = [asked EXCEPT ![c] = @ + 1]
    /\ UNCHANGED << place, listener, sock, peerGone, client, buff, handler, told >>

Leave(c) ==
    /\ sock[c] \in {"waiting", "open"} /\ ~peerGone[c]
    /\ peerGone' = [peerGone EXCEPT ![c] = TRUE]
    /\ UNCHANGED << place, listener, sock, asked, client, buff, handler, told >>

----------------------------------------------------------------------------
\* The first Listen makes the socket.  When bind fails the socket is kept, and
\* later calls listen on it, at a port nobody asked for.
OpenListenSocket ==
    /\ place = "listen"
    /\ m_ListenSocket = "INVALID"
    /\ m_ListenSocket' \in {"bound", "unbound"}
    /\ UNCHANGED << place, backlog, sock, peers, client, buff, handler, told >>

\* Listen returns the connection that waited longest, gone or not, and a new
\* handler has its greeting ready.
Accept ==
    /\ place = "listen"
    /\ backlog # << >>
    /\ client' = Head(backlog)
    /\ backlog' = Tail(backlog)
    /\ sock' = [sock EXCEPT ![Head(backlog)] = "open"]
    /\ m_strResponse' = 0
    /\ handled' = 0
    /\ heard' = {}
    /\ place' = "respond"
    /\ UNCHANGED << m_ListenSocket, peers, buff, told >>

\* Deviation: a loop that is left does not close the connection.
BreakOnly ==
    /\ place' = "listen"
    /\ UNCHANGED sock

\* break, then Disconnect, which closes the socket; the handler goes with it.
Disconnect ==
    /\ sock' = [sock EXCEPT ![client] = "closed"]
    /\ place' = "listen"

\* GetResponse empties the response, and Send returns once the system has all
\* of it, which it may even after the client has left.
Respond ==
    /\ place = "respond"
    /\ IF m_strResponse = None THEN UNCHANGED told
       ELSE told' = [told EXCEPT ![client] = Append(@, m_strResponse)]
    /\ m_strResponse' = None
    /\ place' = "receive"
    /\ UNCHANGED << listener, sock, peers, client, buff, handled, heard >>

\* Send fails, and the loop is left.
SendFails ==
    /\ place = "respond" /\ m_strResponse # None
    /\ peerGone[client]
    /\ m_strResponse' = None
    /\ Disconnect
    /\ UNCHANGED << listener, peers, client, buff, handled, heard, told >>

\* Sending to a client that has reset the connection raises SIGPIPE, which
\* nothing handles: the process ends, and the system closes its connections.
SendKills ==
    /\ place = "respond" /\ m_strResponse # None
    /\ peerGone[client]
    /\ place' = "ended"
    /\ sock' = [c \in Clients |-> IF sock[c] = "none" THEN "none" ELSE "closed"]
    /\ UNCHANGED << listener, peers, client, buff, handler, told >>

\* recv writes over the first places of the buffer.
Received(recvLen) == [i \in 1 .. BuffSize |-> IF i <= recvLen THEN client ELSE buff[i]]

\* Deviation: a request is what is in the buffer, recvLen or not.
ReceiveWholeBuffer ==
    /\ place = "receive"
    /\ handled < asked[client]
    /\ \E recvLen \in 1 .. BuffSize :
          /\ buff' = Received(recvLen)
          /\ heard' = heard \cup {buff'[i] : i \in 1 .. BuffSize}
    /\ handled' = handled + 1
    /\ m_strResponse' \in {m_strResponse, None, handled'}
    /\ \/ place' = "respond" /\ UNCHANGED sock
       \/ Finishes /\ Disconnect
    /\ UNCHANGED << listener, peers, client, told >>

\* A request is received and handled: the handler is given the first recvLen places
\* and sets an answer, or an empty one, or leaves the response alone.  Once it is
\* finished the loop is left, before the response is looked at.
Receive ==
    /\ place = "receive"
    /\ handled < asked[client]
    /\ \E recvLen \in 1 .. BuffSize :
          /\ buff' = Received(recvLen)
          /\ heard' = heard \cup {buff'[i] : i \in 1 .. recvLen}
    /\ handled' = handled + 1
    /\ m_strResponse' \in {m_strResponse, None, handled'}
    /\ \/ place' = "respond" /\ UNCHANGED sock
       \/ Finishes /\ Disconnect
    /\ UNCHANGED << listener, peers, client, told >>

\* Deviation: a client that is gone is waited for.
ReceiveRetries ==
    /\ place = "receive"
    /\ peerGone[client]
    /\ place' = "respond"
    /\ UNCHANGED << listener, sock, peers, client, buff, handler, told >>

\* recv returns 0, or fails and loses what it had not returned yet.
ReceiveEnds ==
    /\ place = "receive"
    /\ peerGone[client]
    /\ Disconnect
    /\ UNCHANGED << listener, peers, client, buff, handler, told >>

Init ==
    /\ place = "listen"
    /\ m_ListenSocket = "INVALID"
    /\ backlog = << >>
    /\ sock = [c \in Clients |-> "none"]
    /\ peerGone = [c \in Clients |-> FALSE]
    /\ asked = [c \in Clients |-> 0]
    /\ client = None
    /\ buff = [i \in 1 .. BuffSize |-> None]
    /\ m_strResponse = None
    /\ handled = 0
    /\ heard = {}
    /\ told = [c \in Clients |-> << >>]

Next ==
    \/ OpenListenSocket
    \/ Accept
    \/ Respond \/ SendFails \/ SendKills
    \/ Receive \/ ReceiveEnds
    \/ \E c \in Clients : Arrive(c) \/ Request(c) \/ Leave(c)

Spec == Init /\ [][Next]_vars

\* The thread goes on whenever its call can return.
ThreadIsFair ==
    WF_vars(\/ OpenListenSocket \/ Accept \/ Respond \/ SendFails \/ SendKills
            \/ Receive \/ ReceiveEnds)

\* No client stays for ever; the server does not see to it.
ClientsLeave == \A c \in Clients : WF_vars(Leave(c))

FairSpec == Spec /\ ThreadIsFair /\ ClientsLeave

----------------------------------------------------------------------------
TypeOK ==
    /\ place \in {"listen", "respond", "receive", "ended"}
    /\ m_ListenSocket \in {"INVALID", "bound", "unbound"}
    /\ backlog \in Seq(Clients)
    /\ sock \in [Clients -> {"none", "waiting", "open", "closed"}]
    /\ peerGone \in [Clients -> BOOLEAN]
    /\ asked \in [Clients -> 0 .. MaxRequests]
    /\ client \in Clients \cup {None}
    /\ buff \in [1 .. BuffSize -> Clients \cup {None}]
    /\ m_strResponse \in {None} \cup Nat
    /\ handled \in Nat
    /\ heard \subseteq Clients \cup {None}
    /\ told \in [Clients -> Seq(Nat)]

\* Whoever was served before, failed or left, a client is greeted first and is
\* then told answers to requests of its own session only, each once and in
\* their order; and what its handler was given are its own bytes, although
\* those of earlier clients are still in the buffer (the handler inside the
\* accept loop, GetResponse, recvLen).
ToldOwnAnswers ==
    /\ \A c \in Clients : \A i \in DOMAIN told[c] :
          /\ i = 1 => told[c][i] = 0
          /\ i > 1 => told[c][i - 1] < told[c][i]
          /\ c = client /\ place # "listen" => told[c][i] <= handled
    /\ place \in {"respond", "receive"} => heard \subseteq {client}

\* Of the connections that were accepted only the served one is open, on every
\* way out of the loop: a socket nobody serves would stay open for ever.
OnlyServedIsOpen ==
    \A c \in Clients :
        /\ sock[c] = "open" => c = client /\ place \in {"respond", "receive"}
        /\ sock[c] = "waiting" <=> place # "ended" /\ c \in {backlog[i] : i \in DOMAIN backlog}

\* If clients leave in the end, each one that waits for the one thread has its
\* turn, unless a client that was gone has ended the process.
WaitingIsServed ==
    \A c \in Clients : (sock[c] = "waiting") ~> (sock[c] # "waiting" \/ place = "ended")

=============================================================================
