----------------------------- MODULE TcpStreams -----------------------------
(***************************************************************************)
(* TcpListener and TcpStream (net/), over BridgedFd and the sockets of the  *)
(* system: a program connects to itself and sends bytes from the connecting *)
(* to the accepting side.  A call of the socket that would block leaves the  *)
(* future pending: it is no step here, IoReadiness has the waking.           *)
(* The sockets and their queues are external.                                *)
(***************************************************************************)
EXTENDS ReadBuf

CONSTANTS
    Conns,      \* connections
    MaxBytes,   \* bound: bytes sent over a connection, numbered from 1
    PipeSize,   \* what the system buffers of a connection
    BufSize     \* the reader's buffer

VARIABLES
    backlog,    \* connections the listener has not accepted yet
    client,     \* "none", "open", "shut" (for writing) or "closed"
    server,     \* "none", "open" or "closed"
    pipe,       \* bytes in the system's buffers
    sent,       \* bytes the writes have accepted
    broken,     \* connections that failed: every call answers an error
    rbuf,       \* the ReadBuf the accepting side reads into
    taken,      \* bytes the program has taken out of it
    told        \* what the program was told: "poll" or "future" if a read of that kind answered
                \* that there is no more data; "error" if one answered an error

vars == <<backlog, client, server, pipe, sent, broken, rbuf, taken, told>>

Init ==
    /\ backlog = <<>> /\ client = [c \in Conns |-> "none"] /\ server = [c \in Conns |-> "none"]
    /\ pipe = [c \in Conns |-> <<>>] /\ sent = [c \in Conns |-> 0] /\ broken = {}
    /\ rbuf \in [Conns -> {NewBuf(BufSize), UninitBuf(BufSize)}]
    /\ taken = [c \in Conns |-> 0] /\ told = [c \in Conns |-> {}]

dataVars == <<pipe, sent, broken, rbuf, taken, told>>

\* BridgedFd::new: if the registration fails the socket is dropped.
Bridged(registered) == IF registered THEN "open" ELSE "closed"
\* TcpStream::connect: the system completes the connection.
Connect(c, registered) ==
    /\ client[c] = "none" /\ backlog' = Append(backlog, c)
    /\ client' = [client EXCEPT ![c] = Bridged(registered)]
    /\ UNCHANGED <<server, dataVars>>
\* TcpListener::accept, which drops the accepted connection when its
\* registration fails.
Accept(registered) ==
    /\ backlog # <<>> /\ backlog' = Tail(backlog)
    /\ server' = [server EXCEPT ![Head(backlog)] = Bridged(registered)]
    /\ UNCHANGED <<client, dataVars>>

\* WriteFuture over poll_write: the socket takes a part of the k bytes.
Write(c, k) ==
    /\ client[c] = "open" /\ c \notin broken /\ server[c] # "closed"
    /\ \E n \in 1..k :
         /\ Len(pipe[c]) + n <= PipeSize /\ sent[c] + n <= MaxBytes
         /\ pipe' = [pipe EXCEPT ![c] = @ \o [i \in 1..n |-> sent[c] + i]]
         /\ sent' = [sent EXCEPT ![c] = @ + n]
    /\ UNCHANGED <<backlog, client, server, broken, rbuf, taken, told>>
\* poll_shutdown, and the drop of the stream.
ShutdownWrite(c) ==
    /\ client[c] = "open" /\ client' = [client EXCEPT ![c] = "shut"]
    /\ UNCHANGED <<backlog, server, dataVars>>
Drop(c) ==
    /\ server[c] = "open" /\ server' = [server EXCEPT ![c] = "closed"]
    /\ UNCHANGED <<backlog, client, dataVars>>
\* The peer or the network resets the connection: what is buffered is lost.
Break(c) ==
    /\ client[c] # "none" /\ c \notin broken
    /\ broken' = broken \cup {c} /\ pipe' = [pipe EXCEPT ![c] = <<>>]
    /\ UNCHANGED <<backlog, client, server, sent, rbuf, taken, told>>

AtEnd(c) == client[c] \in {"shut", "closed"} /\ pipe[c] = <<>>

\* The read(2) of the socket into room bytes: it answers an error, or what
\* there is; with nothing to answer it blocks.
Answers(c, room) == c \in broken \/ pipe[c] # <<>> \/ AtEnd(c)

\* The loop of BridgedFd::poll_read around read(2): WouldBlock waits for the
\* readiness and tries again, any other answer ends it.
LoopEnds(c, room) == Answers(c, room)
Got(c, room) == SubSeq(pipe[c], 1, IF Len(pipe[c]) < room THEN Len(pipe[c]) ELSE room)

Tell(c, what) == told' = [told EXCEPT ![c] = @ \cup what]

\* BridgedFd::poll_read with the program's ReadBuf: the bytes go to the part
\* that is initialized and not filled.  Where there is none, read(2) is called all
\* the same, with no room.
PollRead(c) ==
    LET room == InitializedUnfilled(rbuf[c])
        got == IF c \in broken THEN <<>> ELSE Got(c, room)
    IN  /\ server[c] = "open" /\ LoopEnds(c, room)
        /\ rbuf' = [rbuf EXCEPT ![c] = AdvanceFilled([@ EXCEPT !.buf = Overwritten(rbuf[c], got)], Len(got))]
        /\ pipe' = [pipe EXCEPT ![c] = SubSeq(@, Len(got) + 1, Len(@))]
        /\ Tell(c, IF c \in broken THEN {"error"} ELSE IF got # <<>> THEN {}
                   ELSE IF room > 0 THEN {"poll"} ELSE {"no room"})
        /\ UNCHANGED <<backlog, client, server, sent, broken, taken>>

\* ReadFuture into a slice of n bytes, which makes a ReadBuf of it: the error
\* of poll_read is not passed on.  The program takes the bytes at once, when
\* its own buffer is empty.
ReadFuture(c, n) ==
    LET got == IF c \in broken THEN <<>> ELSE Got(c, InitializedUnfilled(NewBuf(n)))
    IN  /\ server[c] = "open" /\ rbuf[c].filled = 0 /\ LoopEnds(c, n)
        /\ pipe' = [pipe EXCEPT ![c] = SubSeq(@, Len(got) + 1, Len(@))]
        /\ taken' = [taken EXCEPT ![c] = @ + Len(got)]
        /\ Tell(c, IF got = <<>> THEN {"future"} ELSE {})
        /\ UNCHANGED <<backlog, client, server, sent, broken, rbuf>>

\* The program uses its buffer: takes what is filled, has the rest initialized,
\* or moves the filled bytes to another buffer with put_slice.
Use(c) ==
    /\ server[c] = "open"
    /\ \/ /\ taken' = [taken EXCEPT ![c] = @ + rbuf[c].filled]
          /\ rbuf' = [rbuf EXCEPT ![c] = ClearBuf(@)]
       \/ rbuf' = [rbuf EXCEPT ![c] = InitializeUnfilled(@)] /\ UNCHANGED taken
       \/ rbuf' = [rbuf EXCEPT ![c] = PutSlice(UninitBuf(BufSize), Filled(@))] /\ UNCHANGED taken
    /\ UNCHANGED <<backlog, client, server, pipe, sent, broken, told>>

Next ==
    \/ \E c \in Conns, registered \in BOOLEAN : Connect(c, registered)
    \/ \E registered \in BOOLEAN : Accept(registered)
    \/ \E c \in Conns :
         \/ ShutdownWrite(c) \/ Drop(c) \/ Break(c) \/ PollRead(c) \/ Use(c)
         \/ \E k \in 1..MaxBytes : Write(c, k)
         \/ \E n \in 1..BufSize : ReadFuture(c, n)

Spec == Init /\ [][Next]_vars

-----------------------------------------------------------------------------
TypeOK ==
    /\ client \in [Conns -> {"none", "open", "shut", "closed"}]
    /\ server \in [Conns -> {"none", "open", "closed"}]
    /\ \A c \in Conns : told[c] \subseteq {"poll", "no room", "future", "error"}

\* The layout that read_buf.rs draws: the filled part is initialized, and no
\* byte that filled() or initialized() hands out is one that was never written.
LayoutHolds ==
    \A c \in Conns :
        LET b == rbuf[c]
        IN  /\ b.filled <= b.initialized /\ b.initialized <= BufCapacity(b)
            /\ \A i \in 1..b.initialized : b.buf[i] # Uninit

\* The bytes of a connection reach the program in order, each once: those taken,
\* those in the filled part of the buffer and those in the system's buffer are
\* together what was sent, however reads are split and the buffer is reused.
BytesInOrder ==
    \A c \in Conns :
        LET all == Filled(rbuf[c]) \o pipe[c]
        IN  /\ \A i \in DOMAIN all : all[i] = taken[c] + i
            /\ c \notin broken => taken[c] + Len(all) = sent[c]

\* poll_read that reads nothing into a buffer with room means the end of the
\* stream ("If no data was read ... it implies that EOF has been reached").
PollEndIsEnd == \A c \in Conns : "poll" \in told[c] => client[c] \in {"shut", "closed"}

\* The same whatever the buffer, as the sentence has it.
NothingIsEnd == PollEndIsEnd /\ \A c \in Conns : "no room" \in told[c] => client[c] \in {"shut", "closed"}

\* The same of the read of AsyncReadExt.
ReadEndIsEnd == \A c \in Conns : "future" \in told[c] => client[c] \in {"shut", "closed"}
=============================================================================
