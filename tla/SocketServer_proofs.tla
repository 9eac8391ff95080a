------------------------ MODULE SocketServer_proofs ------------------------
(* Proofs about the servers over one blocking listener.                    *)
EXTENDS SocketServer, SequenceTheorems, TLAPS

\* The clients that wait are distinct.
NobodyWaitsTwice == \A i, j \in DOMAIN backlog : backlog[i] = backlog[j] => i = j

\* A client that was not accepted yet was told nothing, so what the session
\* before it left in its handler cannot reach it.
UntilAcceptedUntold ==
    \A c \in Clients : sock[c] \in {"none", "waiting"} => told[c] = << >>

\* The thread serves an open connection; the response it holds answers a later
\* request than all it has sent, or is the greeting.
ServesWithNewResponse ==
    place \in {"respond", "receive"} =>
        /\ client \in Clients
        /\ sock[client] = "open"
        /\ m_strResponse = None => told[client] # << >>
        /\ place = "receive" => m_strResponse = None
        /\ m_strResponse # None =>
              /\ m_strResponse <= handled
              /\ \A i \in DOMAIN told[client] : told[client][i] < m_strResponse
              /\ told[client] = << >> => m_strResponse = 0

IInv ==
    /\ TypeOK
    /\ OnlyServedIsOpen
    /\ ToldOwnAnswers
    /\ NobodyWaitsTwice
    /\ UntilAcceptedUntold
    /\ ServesWithNewResponse

----------------------------------------------------------------------------
\* The one that leaves the queue is its first, and the others stay.
LEMMA HeadLeaves ==
    ASSUME backlog \in Seq(Clients), backlog # << >>, NobodyWaitsTwice
    PROVE  /\ Head(backlog) \in Clients
           /\ Tail(backlog) \in Seq(Clients)
           /\ \A i, j \in DOMAIN Tail(backlog) :
                 Tail(backlog)[i] = Tail(backlog)[j] => i = j
           /\ {Tail(backlog)[i] : i \in DOMAIN Tail(backlog)} =
                 {backlog[i] : i \in DOMAIN backlog} \ {Head(backlog)}
<1>1. /\ Head(backlog) = backlog[1] /\ Head(backlog) \in Clients
      /\ Tail(backlog) \in Seq(Clients)
      /\ Len(backlog) \in Nat \ {0} /\ Len(Tail(backlog)) = Len(backlog) - 1
      /\ \A i \in 1 .. Len(Tail(backlog)) : Tail(backlog)[i] = backlog[i + 1]
      /\ DOMAIN backlog = 1 .. Len(backlog)
      /\ DOMAIN Tail(backlog) = 1 .. Len(Tail(backlog))
  OBVIOUS
<1>2. \A i, j \in DOMAIN Tail(backlog) : Tail(backlog)[i] = Tail(backlog)[j] => i = j
  BY <1>1 DEF NobodyWaitsTwice
<1>3. ASSUME NEW i \in DOMAIN Tail(backlog)
      PROVE  Tail(backlog)[i] \in {backlog[k] : k \in DOMAIN backlog} \ {Head(backlog)}
  <2>1. i + 1 \in DOMAIN backlog /\ Tail(backlog)[i] = backlog[i + 1] /\ i + 1 # 1
    BY <1>1, <1>3
  <2>2. 1 \in DOMAIN backlog
    BY <1>1
  <2> QED
    BY <1>1, <2>1, <2>2 DEF NobodyWaitsTwice
<1>4. ASSUME NEW i \in DOMAIN backlog, backlog[i] # Head(backlog)
      PROVE  backlog[i] \in {Tail(backlog)[k] : k \in DOMAIN Tail(backlog)}
  <2>1. i # 1 /\ i \in 1 .. Len(backlog)
    BY <1>1, <1>4
  <2>2. i - 1 \in DOMAIN Tail(backlog) /\ Tail(backlog)[i - 1] = backlog[i]
    BY <1>1, <2>1
  <2> QED
    BY <2>2
<1> QED
  BY <1>1, <1>2, <1>3, <1>4

\* The one that comes waits behind all others.
LEMMA LastArrives ==
    ASSUME backlog \in Seq(Clients), NobodyWaitsTwice, NEW c \in Clients,
           c \notin {backlog[i] : i \in DOMAIN backlog}
    PROVE  /\ Append(backlog, c) \in Seq(Clients)
           /\ \A i, j \in DOMAIN Append(backlog, c) :
                 Append(backlog, c)[i] = Append(backlog, c)[j] => i = j
           /\ {Append(backlog, c)[i] : i \in DOMAIN Append(backlog, c)} =
                 {backlog[i] : i \in DOMAIN backlog} \cup {c}
<1> DEFINE more == Append(backlog, c)
<1>1. /\ more \in Seq(Clients) /\ Len(backlog) \in Nat
      /\ DOMAIN backlog = 1 .. Len(backlog) /\ DOMAIN more = 1 .. (Len(backlog) + 1)
      /\ \A i \in 1 .. Len(backlog) : more[i] = backlog[i]
      /\ more[Len(backlog) + 1] = c
  OBVIOUS
<1> HIDE DEF more
<1>2. \A i, j \in DOMAIN more : more[i] = more[j] => i = j
  BY <1>1 DEF NobodyWaitsTwice
<1>3. {more[i] : i \in DOMAIN more} = {backlog[i] : i \in DOMAIN backlog} \cup {c}
  <2>1. \A i \in DOMAIN more : more[i] \in {backlog[k] : k \in DOMAIN backlog} \cup {c}
    BY <1>1
  <2>2. \A i \in DOMAIN backlog : i \in DOMAIN more /\ more[i] = backlog[i]
    BY <1>1
  <2>3. Len(backlog) + 1 \in DOMAIN more
    BY <1>1
  <2> QED
    BY <1>1, <2>1, <2>2, <2>3
<1> QED
  BY <1>1, <1>2, <1>3 DEF more

\* Whichever way the loop is left, the invariant holds of the thread that listens
\* again.
LEMMA DisconnectKeeps ==
    ASSUME IInv, place \in {"respond", "receive"}, Disconnect,
           UNCHANGED << listener, peers, client, told >>,
           m_strResponse' \in {None} \cup Nat, handled' \in Nat,
           buff' \in [1 .. BuffSize -> Clients \cup {None}], heard' \subseteq Clients \cup {None}
    PROVE  IInv'
<1>0. /\ client \in Clients /\ sock[client] = "open" /\ place' = "listen"
      /\ sock' = [sock EXCEPT ![client] = "closed"]
      /\ sock \in [Clients -> {"none", "waiting", "open", "closed"}]
  BY DEF IInv, TypeOK, ServesWithNewResponse, Disconnect
<1>1. TypeOK'
  BY <1>0 DEF IInv, TypeOK, listener, peers
<1>2. OnlyServedIsOpen'
  BY <1>0 DEF IInv, OnlyServedIsOpen, listener
<1>3. ToldOwnAnswers'
  BY <1>0 DEF IInv, ToldOwnAnswers
<1>4. NobodyWaitsTwice' /\ UntilAcceptedUntold'
  BY <1>0 DEF IInv, NobodyWaitsTwice, UntilAcceptedUntold, listener
<1>5. ServesWithNewResponse'
  BY <1>0 DEF ServesWithNewResponse
<1> QED
  BY <1>1, <1>2, <1>3, <1>4, <1>5 DEF IInv

\* A process that starts serves nobody.
LEMMA InitHolds == Init => IInv
<1> SUFFICES ASSUME Init PROVE IInv
  OBVIOUS
<1>1. 0 \in 0 .. MaxRequests
  BY SocketServerAssumption
<1>2. TypeOK
  BY <1>1 DEF Init, TypeOK
<1>3. OnlyServedIsOpen /\ ToldOwnAnswers
  BY DEF Init, OnlyServedIsOpen, ToldOwnAnswers
<1>4. NobodyWaitsTwice /\ UntilAcceptedUntold /\ ServesWithNewResponse
  BY DEF Init, NobodyWaitsTwice, UntilAcceptedUntold, ServesWithNewResponse
<1> QED
  BY <1>2, <1>3, <1>4 DEF IInv

\* The client accepted was told nothing and its handler has the greeting.
LEMMA AcceptKeeps ==
    ASSUME IInv, Accept
    PROVE  IInv'
<1> DEFINE c == Head(backlog)
<1>0. /\ backlog \in Seq(Clients) /\ backlog # << >> /\ NobodyWaitsTwice
      /\ sock \in [Clients -> {"none", "waiting", "open", "closed"}]
      /\ place = "listen" /\ place' = "respond" /\ client' = c /\ told' = told
      /\ sock' = [sock EXCEPT ![c] = "open"] /\ backlog' = Tail(backlog)
      /\ m_strResponse' = 0 /\ handled' = 0
  BY DEF IInv, TypeOK, Accept
<1>1. /\ c \in Clients /\ Tail(backlog) \in Seq(Clients)
      /\ {Tail(backlog)[i] : i \in DOMAIN Tail(backlog)} =
            {backlog[i] : i \in DOMAIN backlog} \ {c}
      /\ NobodyWaitsTwice'
  BY <1>0, HeadLeaves DEF NobodyWaitsTwice
<1>2. c \in {backlog[i] : i \in DOMAIN backlog}
  <2>1. 1 \in DOMAIN backlog /\ c = backlog[1]
    BY <1>0
  <2> QED
    BY <2>1
<1> HIDE DEF c
<1>3. TypeOK'
  BY <1>0, <1>1 DEF Accept, IInv, TypeOK, peers
<1>4. OnlyServedIsOpen'
  <2> SUFFICES ASSUME NEW d \in Clients
               PROVE  /\ sock'[d] = "open" => d = client'
                      /\ sock'[d] = "waiting" <=> d \in {backlog'[i] : i \in DOMAIN backlog'}
    BY <1>0 DEF OnlyServedIsOpen
  <2>1. sock[d] # "open"
    BY <1>0 DEF IInv, OnlyServedIsOpen
  <2>2. sock[d] = "waiting" <=> d \in {backlog[i] : i \in DOMAIN backlog}
    BY <1>0 DEF IInv, OnlyServedIsOpen
  <2>3. CASE d = c
    BY <1>0, <1>1, <2>3
  <2>4. CASE d # c
    BY <1>0, <1>1, <2>1, <2>2, <2>4
  <2> QED
    BY <2>3, <2>4
<1>5. told[c] = << >>
  BY <1>0, <1>1, <1>2 DEF IInv, OnlyServedIsOpen, UntilAcceptedUntold
<1>6. ToldOwnAnswers'
  BY <1>0, <1>5 DEF Accept, IInv, ToldOwnAnswers
<1>7. UntilAcceptedUntold'
  BY <1>0, <1>5 DEF IInv, UntilAcceptedUntold
<1>8. ServesWithNewResponse'
  BY <1>0, <1>1, <1>5 DEF ServesWithNewResponse, None
<1> QED
  BY <1>1, <1>3, <1>4, <1>6, <1>7, <1>8 DEF IInv

\* What is sent answers a later request than all that was sent before.
LEMMA RespondKeeps ==
    ASSUME IInv, Respond
    PROVE  IInv'
<1>0. /\ place = "respond" /\ place' = "receive" /\ m_strResponse' = None
      /\ UNCHANGED << listener, sock, peers, client, buff, handled, heard >>
      /\ heard \subseteq {client}
      /\ client \in Clients /\ sock[client] = "open"
      /\ told \in [Clients -> Seq(Nat)] /\ m_strResponse \in {None} \cup Nat /\ handled \in Nat
  BY DEF IInv, TypeOK, ServesWithNewResponse, ToldOwnAnswers, Respond
<1>1. /\ NobodyWaitsTwice' /\ OnlyServedIsOpen'
  BY <1>0 DEF IInv, NobodyWaitsTwice, OnlyServedIsOpen, listener
<1>2. CASE m_strResponse = None
  <2>1. told' = told /\ told[client] # << >>
    BY <1>0, <1>2 DEF Respond, IInv, ServesWithNewResponse
  <2>2. TypeOK' /\ UntilAcceptedUntold'
    BY <1>0, <2>1 DEF IInv, TypeOK, UntilAcceptedUntold, listener, peers
  <2>3. ToldOwnAnswers' /\ ServesWithNewResponse'
    BY <1>0, <2>1 DEF IInv, ToldOwnAnswers, ServesWithNewResponse
  <2> QED
    BY <1>1, <2>2, <2>3 DEF IInv
<1>3. CASE m_strResponse # None
  <2> DEFINE old == told[client]
             new == Append(old, m_strResponse)
  <2>1. told' = [told EXCEPT ![client] = new] /\ m_strResponse \in Nat
    BY <1>0, <1>3 DEF Respond
  <2>2. /\ old \in Seq(Nat) /\ new \in Seq(Nat)
        /\ Len(old) \in Nat /\ DOMAIN old = 1 .. Len(old)
        /\ DOMAIN new = 1 .. (Len(old) + 1) /\ new # << >>
        /\ \A i \in 1 .. Len(old) : new[i] = old[i]
        /\ new[Len(old) + 1] = m_strResponse
    BY <1>0, <2>1
  <2>3. /\ m_strResponse <= handled
        /\ \A i \in DOMAIN old : old[i] < m_strResponse
        /\ old = << >> => m_strResponse = 0
    BY <1>0, <1>3 DEF IInv, ServesWithNewResponse
  <2>4. \A i \in DOMAIN old : (i = 1 => old[i] = 0) /\ (i > 1 => old[i - 1] < old[i])
                              /\ old[i] <= handled
    BY <1>0 DEF IInv, ToldOwnAnswers
  <2>5. old = << >> <=> Len(old) = 0
    BY <2>2
  <2> HIDE DEF old, new
  <2>6. \A i \in DOMAIN new : (i = 1 => new[i] = 0) /\ (i > 1 => new[i - 1] < new[i])
                              /\ new[i] <= handled
    <3> SUFFICES ASSUME NEW i \in DOMAIN new
                 PROVE  /\ i = 1 => new[i] = 0
                        /\ i > 1 => new[i - 1] < new[i]
                        /\ new[i] <= handled
      OBVIOUS
    <3>1. CASE i \in 1 .. Len(old)
      <4>1. new[i] = old[i] /\ i \in DOMAIN old
        BY <2>2, <3>1
      <4>2. i > 1 => i - 1 \in 1 .. Len(old) /\ new[i - 1] = old[i - 1]
        BY <2>2, <3>1
      <4> QED
        BY <2>4, <4>1, <4>2
    <3>2. CASE i = Len(old) + 1
      <4>1. new[i] = m_strResponse
        BY <2>2, <3>2
      <4>2. i = 1 => new[i] = 0
        BY <2>2, <2>3, <2>5, <3>2, <4>1
      <4>3. i > 1 => i - 1 \in DOMAIN old /\ new[i - 1] = old[i - 1]
        BY <2>2, <3>2
      <4> QED
        BY <2>3, <4>1, <4>2, <4>3
    <3> QED
      BY <2>2, <3>1, <3>2
  <2>7. told'[client] = new /\ \A c \in Clients \ {client} : told'[c] = told[c]
    BY <1>0, <2>1
  <2>8. TypeOK'
    BY <1>0, <2>1, <2>2 DEF IInv, TypeOK, listener, peers
  <2>9. ToldOwnAnswers'
    <3> SUFFICES ASSUME NEW c \in Clients, NEW i \in DOMAIN told'[c]
                 PROVE  /\ i = 1 => told'[c][i] = 0
                        /\ i > 1 => told'[c][i - 1] < told'[c][i]
                        /\ c = client' /\ place' # "listen" => told'[c][i] <= handled'
      BY <1>0 DEF ToldOwnAnswers
    <3>1. CASE c = client
      BY <1>0, <2>6, <2>7, <3>1
    <3>2. CASE c # client
      BY <1>0, <2>7, <3>2 DEF IInv, ToldOwnAnswers
    <3> QED
      BY <3>1, <3>2
  <2>10. UntilAcceptedUntold'
    BY <1>0, <2>7 DEF IInv, UntilAcceptedUntold
  <2>11. ServesWithNewResponse'
    BY <1>0, <2>2, <2>7 DEF ServesWithNewResponse
  <2> QED
    BY <1>1, <2>8, <2>9, <2>10, <2>11 DEF IInv
<1> QED
  BY <1>2, <1>3

\* A response that is set answers the request just received, the newest.
LEMMA ReceiveKeeps ==
    ASSUME IInv, Receive
    PROVE  IInv'
<1>0. /\ place = "receive" /\ m_strResponse = None /\ handled' = handled + 1
      /\ m_strResponse' \in {None, handled'}
      /\ UNCHANGED << listener, peers, client, told >>
      /\ client \in Clients /\ sock[client] = "open" /\ told[client] # << >>
      /\ told \in [Clients -> Seq(Nat)] /\ handled \in Nat
  BY DEF IInv, TypeOK, ServesWithNewResponse, Receive
<1>1. handled' \in Nat /\ m_strResponse' \in {None} \cup Nat
  BY <1>0
<1>a. /\ buff' \in [1 .. BuffSize -> Clients \cup {None}]
      /\ heard' \subseteq {client}
  <2>1. PICK recvLen \in 1 .. BuffSize :
           /\ buff' = Received(recvLen)
           /\ heard' = heard \cup {buff'[i] : i \in 1 .. recvLen}
    BY DEF Receive
  <2>2. /\ buff \in [1 .. BuffSize -> Clients \cup {None}]
        /\ heard \subseteq {client}
    BY <1>0 DEF IInv, TypeOK, ToldOwnAnswers
  <2>3. \A i \in 1 .. recvLen : i \in 1 .. BuffSize /\ i <= recvLen
    BY SocketServerAssumption
  <2>4. \A i \in 1 .. recvLen : buff'[i] = client
    BY <2>1, <2>3 DEF Received
  <2> QED
    BY <1>0, <2>1, <2>2, <2>4 DEF Received
<1>2. CASE place' = "respond" /\ UNCHANGED sock
  <2>1. TypeOK'
    BY <1>0, <1>1, <1>2, <1>a DEF IInv, TypeOK, listener, peers
  <2>2. OnlyServedIsOpen' /\ NobodyWaitsTwice' /\ UntilAcceptedUntold'
    BY <1>0, <1>2 DEF IInv, OnlyServedIsOpen, NobodyWaitsTwice, UntilAcceptedUntold, listener
  <2>3. \A i \in DOMAIN told[client] : told[client][i] \in Nat /\ told[client][i] <= handled
    BY <1>0 DEF IInv, ToldOwnAnswers
  <2>4. \A i \in DOMAIN told[client] : told[client][i] < handled'
    BY <1>0, <2>3
  <2>5. ToldOwnAnswers'
    BY <1>0, <1>2, <1>a, <2>3, <2>4 DEF IInv, ToldOwnAnswers
  <2>6. ServesWithNewResponse'
    BY <1>0, <1>1, <1>2, <2>4 DEF ServesWithNewResponse
  <2> QED
    BY <2>1, <2>2, <2>5, <2>6 DEF IInv
<1>3. CASE Disconnect
  BY <1>0, <1>1, <1>3, <1>a, DisconnectKeeps
<1> QED
  BY <1>2, <1>3 DEF Receive

\* A process that ends leaves nothing open.
LEMMA SendKillsKeeps ==
    ASSUME IInv, SendKills
    PROVE  IInv'
<1>0. /\ place = "respond" /\ place' = "ended" /\ client \in Clients
      /\ UNCHANGED << listener, peers, client, buff, handler, told >>
      /\ sock' = [c \in Clients |-> IF sock[c] = "none" THEN "none" ELSE "closed"]
  BY DEF IInv, ServesWithNewResponse, SendKills
<1>1. TypeOK'
  BY <1>0 DEF IInv, TypeOK, listener, peers, handler
<1>2. OnlyServedIsOpen' /\ NobodyWaitsTwice' /\ ServesWithNewResponse'
  BY <1>0 DEF IInv, OnlyServedIsOpen, NobodyWaitsTwice, ServesWithNewResponse, listener
<1>3. UntilAcceptedUntold'
  BY <1>0 DEF IInv, UntilAcceptedUntold
<1>4. ToldOwnAnswers'
  BY <1>0 DEF IInv, ToldOwnAnswers, handler
<1> QED
  BY <1>1, <1>2, <1>3, <1>4 DEF IInv

\* A client that connects waits behind others, and was not there before.
LEMMA ArriveKeeps ==
    ASSUME IInv, NEW c \in Clients, Arrive(c)
    PROVE  IInv'
<1>0. /\ place # "ended" /\ sock[c] = "none"
      /\ sock' = [sock EXCEPT ![c] = "waiting"] /\ backlog' = Append(backlog, c)
      /\ UNCHANGED << place, m_ListenSocket, peers, client, buff, handler, told >>
      /\ sock \in [Clients -> {"none", "waiting", "open", "closed"}]
      /\ backlog \in Seq(Clients) /\ NobodyWaitsTwice
  BY DEF IInv, TypeOK, Arrive
<1>1. c \notin {backlog[i] : i \in DOMAIN backlog}
  BY <1>0 DEF IInv, OnlyServedIsOpen
<1>2. /\ backlog' \in Seq(Clients) /\ NobodyWaitsTwice'
      /\ {backlog'[i] : i \in DOMAIN backlog'} = {backlog[i] : i \in DOMAIN backlog} \cup {c}
  BY <1>0, <1>1, LastArrives DEF NobodyWaitsTwice
<1>3. TypeOK'
  BY <1>0, <1>2 DEF IInv, TypeOK, peers, handler
<1>4. OnlyServedIsOpen'
  <2> SUFFICES ASSUME NEW d \in Clients
               PROVE  /\ sock'[d] = "open" => d = client /\ place \in {"respond", "receive"}
                      /\ sock'[d] = "waiting" <=> d \in {backlog'[i] : i \in DOMAIN backlog'}
    BY <1>0 DEF OnlyServedIsOpen
  <2>1. CASE d = c
    BY <1>0, <1>2, <2>1
  <2>2. CASE d # c
    BY <1>0, <1>2, <2>2 DEF IInv, OnlyServedIsOpen
  <2> QED
    BY <2>1, <2>2
<1>5. ToldOwnAnswers'
  BY <1>0 DEF IInv, ToldOwnAnswers, handler
<1>6. UntilAcceptedUntold'
  BY <1>0 DEF IInv, UntilAcceptedUntold
<1>7. ServesWithNewResponse'
  BY <1>0 DEF IInv, ServesWithNewResponse, handler
<1> QED
  BY <1>2, <1>3, <1>4, <1>5, <1>6, <1>7 DEF IInv

\* What none of the parts but the types looks at may change.
LEMMA FrameKeeps ==
    ASSUME IInv, TypeOK', UNCHANGED << place, backlog, sock, client, handler, told >>
    PROVE  IInv'
<1>1. OnlyServedIsOpen' /\ NobodyWaitsTwice' /\ UntilAcceptedUntold'
  BY DEF IInv, OnlyServedIsOpen, NobodyWaitsTwice, UntilAcceptedUntold
<1>2. ToldOwnAnswers' /\ ServesWithNewResponse'
  BY DEF IInv, ToldOwnAnswers, ServesWithNewResponse, handler
<1> QED
  BY <1>1, <1>2 DEF IInv

\* The invariant is inductive.
LEMMA NextKeeps == IInv /\ [Next]_vars => IInv'
<1> SUFFICES ASSUME IInv, [Next]_vars PROVE IInv'
  OBVIOUS
<1>1. CASE OpenListenSocket
  BY <1>1, FrameKeeps DEF OpenListenSocket, IInv, TypeOK, peers, handler
<1>2. CASE Accept
  BY <1>2, AcceptKeeps
<1>3. CASE Respond
  BY <1>3, RespondKeeps
<1>4. CASE SendFails
  BY <1>4, DisconnectKeeps DEF SendFails, IInv, TypeOK
<1>5. CASE SendKills
  BY <1>5, SendKillsKeeps
<1>6. CASE Receive
  BY <1>6, ReceiveKeeps
<1>7. CASE ReceiveEnds
  BY <1>7, DisconnectKeeps DEF ReceiveEnds, IInv, TypeOK, handler
<1>8. ASSUME NEW c \in Clients, Arrive(c) PROVE IInv'
  BY <1>8, ArriveKeeps
<1>9. ASSUME NEW c \in Clients, Request(c) PROVE IInv'
  <2>1. TypeOK'
    <3>1. asked[c] \in 0 .. MaxRequests /\ asked[c] < MaxRequests
      BY <1>9 DEF Request, IInv, TypeOK
    <3>2. asked[c] + 1 \in 0 .. MaxRequests
      BY <3>1, SocketServerAssumption
    <3>3. asked' \in [Clients -> 0 .. MaxRequests]
      BY <1>9, <3>2 DEF Request, IInv, TypeOK
    <3> QED
      BY <1>9, <3>3 DEF Request, IInv, TypeOK, listener, handler
  <2> QED
    BY <1>9, <2>1, FrameKeeps DEF Request, listener
<1>10. ASSUME NEW c \in Clients, Leave(c) PROVE IInv'
  <2>1. TypeOK'
    BY <1>10 DEF Leave, IInv, TypeOK, listener, handler
  <2> QED
    BY <1>10, <2>1, FrameKeeps DEF Leave, listener
<1>11. CASE UNCHANGED vars
  <2>1. TypeOK'
    BY <1>11 DEF vars, IInv, TypeOK, listener, handler, peers
  <2> QED
    BY <1>11, <2>1, FrameKeeps DEF vars, listener
<1> QED
  BY <1>1, <1>2, <1>3, <1>4, <1>5, <1>6, <1>7, <1>8, <1>9, <1>10, <1>11 DEF Next

\* It holds in every state.
LEMMA IInvHolds == Spec => []IInv
BY InitHolds, NextKeeps, PTL DEF Spec

\* The state of the thread and of its clients is typed in every reachable state.
THEOREM TypeCorrect == Spec => []TypeOK
<1>1. IInv => TypeOK
  BY DEF IInv
<1> QED
  BY <1>1, IInvHolds, PTL

\* No client of any number is told an answer of another session.
THEOREM AnswersCorrect == Spec => []ToldOwnAnswers
<1>1. IInv => ToldOwnAnswers
  BY DEF IInv
<1> QED
  BY <1>1, IInvHolds, PTL

\* Whichever way a session ends, its connection is closed.
THEOREM OpenCorrect == Spec => []OnlyServedIsOpen
<1>1. IInv => OnlyServedIsOpen
  BY DEF IInv
<1> QED
  BY <1>1, IInvHolds, PTL

=============================================================================
