----------------------------- MODULE UdpSockets -----------------------------
(***************************************************************************)
(* UdpSocket (net/udp_socket.rs) over BridgedFd and UdpSocketBridge: tasks   *)
(* share sockets and send datagrams to each other.  async_call makes the     *)
(* system call again after every WouldBlock, so a call stays with its task   *)
(* between its begin and the poll that answers it; meanwhile others connect  *)
(* the socket or take from it.  The waiting is IoReadiness's: a call that    *)
(* would block is no step here.  The system's queues are external.           *)
(***************************************************************************)
EXTENDS Naturals, Sequences, FiniteSets

CONSTANTS
    Socks,      \* sockets, and the addresses they are bound to
    Tasks,
    Garbage,    \* a text that is no address
    MaxSend,    \* bound: datagrams, numbered from 1
    QueueSize,  \* what the system keeps for a socket
    None

VARIABLES
    sock,       \* "none", "open" or "closed"
    peer,       \* the address a socket is connected to, or None
    queue,      \* the datagrams the system has for it: [id, from]
    call,       \* the call a task is in: None or [op, sock, to, id]
    named,      \* how many datagrams calls were begun for
    wanted,     \* by datagram: [to, from], to None for send
    answered,   \* datagrams whose call answered Ok
    lost,       \* datagrams the system dropped
    received    \* by task: what its receives answered: [id, from, at]

vars == <<sock, peer, queue, call, named, wanted, answered, lost, received>>
sysVars == <<sock, peer, queue>>

Init ==
    /\ sock = [s \in Socks |-> "none"] /\ peer = [s \in Socks |-> None] /\ queue = [s \in Socks |-> <<>>]
    /\ call = [t \in Tasks |-> None] /\ named = 0 /\ wanted = <<>> /\ answered = {} /\ lost = {}
    /\ received = [t \in Tasks |-> <<>>]

\* resolve_as_single_address and to_socket_addrs: a text is parsed, and one that
\* is no address makes the call answer an error before it does anything.
Resolves(addr) == addr # Garbage

\* bind: the socket is made non-blocking (UdpSocketBridge::bind) and registered
\* (BridgedFd::new); when either fails it is dropped.
BridgeBind(registered) == IF registered THEN "open" ELSE "closed"
Bind(s, registered) ==
    /\ sock[s] = "none" /\ sock' = [sock EXCEPT ![s] = BridgeBind(registered)]
    /\ UNCHANGED <<peer, queue, call, named, wanted, answered, lost, received>>
\* connect does not wait: the system records the address.
Connect(s, addr) ==
    /\ sock[s] = "open" /\ Resolves(addr) /\ peer' = [peer EXCEPT ![s] = addr]
    /\ UNCHANGED <<sock, queue, call, named, wanted, answered, lost, received>>
\* The last Arc is dropped: nobody is in a call.
DropSocket(s) ==
    /\ sock[s] = "open" /\ \A t \in Tasks : call[t] # None => call[t].sock # s
    /\ sock' = [sock EXCEPT ![s] = "closed"] /\ queue' = [queue EXCEPT ![s] = <<>>]
    /\ lost' = lost \cup {d.id : d \in {queue[s][i] : i \in DOMAIN queue[s]}}
    /\ UNCHANGED <<peer, call, named, wanted, answered, received>>

BeginCall(t, s, c) == call[t] = None /\ sock[s] = "open" /\ call' = [call EXCEPT ![t] = c]
\* send_to resolves the address before it first tries.
SendTo(t, s, addr) ==
    /\ named < MaxSend /\ Resolves(addr) /\ named' = named + 1 /\ wanted' = Append(wanted, [to |-> addr, from |-> s])
    /\ BeginCall(t, s, [op |-> "send_to", sock |-> s, to |-> addr, id |-> named + 1])
    /\ UNCHANGED <<sysVars, answered, lost, received>>
Send(t, s) ==
    /\ named < MaxSend /\ named' = named + 1 /\ wanted' = Append(wanted, [to |-> None, from |-> s])
    /\ BeginCall(t, s, [op |-> "send", sock |-> s, to |-> None, id |-> named + 1])
    /\ UNCHANGED <<sysVars, answered, lost, received>>
\* recv_from; recv is the same and does not tell the sender.
Recv(t, s) ==
    /\ BeginCall(t, s, [op |-> "recv", sock |-> s, to |-> None, id |-> 0])
    /\ UNCHANGED <<sysVars, named, wanted, answered, lost, received>>

\* The system delivers a datagram, unless there is nobody, no room, or the
\* receiver is connected to somebody else; the network may lose it as well.
Accepts(to, from) ==
    sock[to] = "open" /\ Len(queue[to]) < QueueSize /\ peer[to] \in {None, from}
Deliver(c, to, arrives) ==
    /\ arrives => Accepts(to, c.sock)
    /\ queue' = IF arrives THEN [queue EXCEPT ![to] = Append(@, [id |-> c.id, from |-> c.sock])]
                ELSE queue
    /\ lost' = IF arrives THEN lost ELSE lost \cup {c.id}

EndCall(t) == call' = [call EXCEPT ![t] = None]

\* A poll in which UdpSocketBridge::send_to or send goes through.  Where send
\* sends to is looked up by the system, now.
TrySend(t, arrives) ==
    LET c == call[t]
        to == IF c.op = "send_to" THEN c.to ELSE peer[c.sock]
    IN  /\ c # None /\ c.op \in {"send", "send_to"} /\ to # None /\ Deliver(c, to, arrives)
        /\ answered' = answered \cup {c.id} /\ EndCall(t)
        /\ UNCHANGED <<sock, peer, named, wanted, received>>
\* One in which UdpSocketBridge::recv or recv_from does.
TryRecv(t) ==
    LET c == call[t]
        d == Head(queue[c.sock])
    IN  /\ c # None /\ c.op = "recv" /\ queue[c.sock] # <<>>
        /\ queue' = [queue EXCEPT ![c.sock] = Tail(@)]
        /\ received' = [received EXCEPT ![t] = Append(@, [id |-> d.id, from |-> d.from, at |-> c.sock])]
        /\ EndCall(t) /\ UNCHANGED <<sock, peer, named, wanted, answered, lost>>
\* A poll that answers an error other than WouldBlock, send without a peer among
\* them, or the drop of the future: the call ends and has done nothing.
Abandon(t) == call[t] # None /\ EndCall(t) /\ UNCHANGED <<sysVars, named, wanted, answered, lost, received>>

Next ==
    \/ \E s \in Socks : DropSocket(s) \/ \E registered \in BOOLEAN : Bind(s, registered)
    \/ \E s \in Socks, addr \in Socks \cup {Garbage} : Connect(s, addr) \/ \E t \in Tasks : SendTo(t, s, addr)
    \/ \E t \in Tasks :
         \/ \E s \in Socks : Send(t, s) \/ Recv(t, s)
         \/ (\E arrives \in BOOLEAN : TrySend(t, arrives)) \/ TryRecv(t) \/ Abandon(t)

Spec == Init /\ [][Next]_vars

-----------------------------------------------------------------------------
TypeOK ==
    /\ sock \in [Socks -> {"none", "open", "closed"}] /\ peer \in [Socks -> Socks \cup {None}]
    /\ named = Len(wanted) /\ answered \cup lost \subseteq 1..named

\* The datagrams that tasks received, and those that wait.
Arrived == {[id |-> received[t][i].id, from |-> received[t][i].from, at |-> received[t][i].at, slot |-> <<t, i>>] :
              <<t, i>> \in {ti \in Tasks \X (1..MaxSend) : ti[2] \in DOMAIN received[ti[1]]}}
Waiting == {[id |-> queue[s][i].id, from |-> queue[s][i].from, at |-> s, slot |-> <<s, i>>] :
              <<s, i>> \in {si \in Socks \X (1..QueueSize) : si[2] \in DOMAIN queue[si[1]]}}

\* However calls on a shared socket interleave and are tried again, a datagram
\* exists iff its send answered Ok, in one place, and it is received at most
\* once; one that send_to sent went where that call was asked to, whatever the
\* socket was connected to meanwhile; its sender is the socket of the call; and a
\* call still pending has sent nothing.
DatagramsOnce ==
    LET all == Arrived \cup Waiting
    IN  /\ {d.id : d \in all} \cup lost = answered /\ {d.id : d \in all} \cap lost = {}
        /\ \A d, e \in all : d.id = e.id => d = e
        /\ \A d \in all : wanted[d.id].to \in {None, d.at} /\ wanted[d.id].from = d.from
        /\ \A t \in Tasks : call[t] # None => call[t].id \notin answered
=============================================================================
