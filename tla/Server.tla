------------------------------ MODULE Server -------------------------------
(***************************************************************************)
(* server.c over sock.c: one thread that waits in epoll_wait, accepts      *)
(* connections, reads command lines, queues the responses and writes them  *)
(* to non-blocking sockets.  The buffers are those of ByteQueue.  A step is *)
(* one system call with the code up to the next one, or one command line.  *)
(*                                                                         *)
(* A byte that a peer sends is a letter of a command, QuitChar (a line that *)
(* is just this letter is QUIT) or LF.  The response to a line is one item  *)
(* of the send buffer, the line itself; so is the prompt.                  *)
(***************************************************************************)
EXTENDS ByteQueue, FiniteSets, SequencesExt

CONSTANTS
  Clients,      \* the connections peers may open
  Chars, QuitChar, LF,
  MaxLine, InitSize, MinSize, MaxSize,   \* config.h
  MaxAccept,    \* connections accepted for one event
  SndBuf,       \* room in the kernel's send queue of a connection
  MaxSent,      \* bound: bytes the peers send in all
  Faults        \* the system calls that may fail

ASSUME ServerConstants ==
  /\ MaxLine + MinSize <= InitSize /\ InitSize <= MaxSize
  /\ Faults \subseteq {"accept", "malloc", "epoll", "listener", "reset"}

Byte == Chars \cup {QuitChar, LF}
Prompt == <<<<">">>>>
Listener == "listener"

VARIABLES
  net,      \* the kernel's side of each connection
  client,   \* struct simple_client of each connection
  lsock,    \* the listener: fd open, an error reported by epoll, sys_err
  run,      \* sig.run
  pc,       \* where the thread is
  batch,    \* events of the last epoll_wait not yet handled
  cur,      \* the client being handled
  after,    \* where to go when do_client_send returns
  moved,    \* bytes were read or written by the current sock_recv or sock_send
  accepts   \* connections accepted for the current event

vars == <<net, client, lsock, run, pc, batch, cur, after, moved, accepts>>
locals == <<batch, cur, after, moved, accepts>>

\* a handler returns: its locals are gone
HandlerEnds ==
  /\ pc' = "next"
  /\ cur' = Listener /\ after' = "next" /\ moved' = FALSE /\ accepts' = 0
  /\ UNCHANGED batch

NoClient ==
  [live |-> FALSE, recv_buf |-> Queue(<<>>, 0, 0, FALSE), send_buf |-> Queue(<<>>, 0, 0, FALSE),
   recv_fin |-> FALSE, send_fin |-> FALSE, close_now |-> FALSE, sys_err |-> FALSE,
   wait_write |-> FALSE, snd_prompt |-> FALSE]

\* state: where the connection is; sent, out: all bytes sent by the peer and written
\* to it; rd, got: how many of them the other side has read
NoNet == [state |-> "idle", sent |-> <<>>, rd |-> 0, fin |-> FALSE, reset |-> FALSE,
          out |-> <<>>, got |-> 0]

Init ==
  /\ net = [c \in Clients |-> NoNet]
  /\ client = [c \in Clients |-> NoClient]
  /\ lsock = [open |-> TRUE, hup |-> FALSE, sys_err |-> FALSE]
  /\ run = TRUE /\ pc = "run" /\ batch = <<>> /\ cur = Listener /\ after = "next"
  /\ moved = FALSE /\ accepts = 0

Unread(c) == Len(net[c].sent) - net[c].rd
SendRoom(c) == SndBuf - (Len(net[c].out) - net[c].got)

Update(c, k) == client' = [client EXCEPT ![c] = k]
-----------------------------------------------------------------------------
(***************************************************************************)
(* Peers, the kernel and signals                                           *)
(***************************************************************************)
peer_connect(c) ==
  /\ net[c].state = "idle" /\ lsock.open
  /\ net' = [net EXCEPT ![c].state = "pending"]

peer_send(c) ==
  /\ net[c].state \in {"pending", "open"} /\ ~net[c].fin /\ ~net[c].reset
  /\ MapThenSumSet(LAMBDA d : Len(net[d].sent), Clients) < MaxSent
  /\ \E b \in Byte : net' = [net EXCEPT ![c].sent = Append(@, b)]

peer_shutdown(c) ==
  /\ net[c].state \in {"pending", "open"} /\ ~net[c].fin /\ ~net[c].reset
  /\ net' = [net EXCEPT ![c].fin = TRUE]

\* what a peer reads after the server has closed is of no concern here
peer_read(c) ==
  /\ net[c].state = "open" /\ net[c].got < Len(net[c].out) /\ ~net[c].reset
  /\ net' = [net EXCEPT ![c].got = @ + 1]

\* the connection is reset: what was sent and not read is lost
peer_reset(c) ==
  /\ "reset" \in Faults /\ net[c].state = "open" /\ ~net[c].reset
  /\ net' = [net EXCEPT ![c].reset = TRUE]

listener_error ==
  /\ "listener" \in Faults /\ lsock.open /\ ~lsock.hup
  /\ lsock' = [lsock EXCEPT !.hup = TRUE]

peer(c) ==
  /\ \/ peer_connect(c) \/ peer_send(c) \/ peer_shutdown(c) \/ peer_read(c) \/ peer_reset(c)
  /\ UNCHANGED <<client, lsock, run, pc, locals>>

\* SIGINT or SIGTERM: it also ends an epoll_wait that has begun to wait
handle_signal ==
  /\ run
  /\ run' = FALSE
  /\ UNCHANGED <<net, client, lsock, pc, locals>>
-----------------------------------------------------------------------------
(***************************************************************************)
(* epoll: level triggered                                                  *)
(***************************************************************************)
\* mutant: the end of the peer's stream is no event
ReadReady_data(c) == Unread(c) > 0 \/ net[c].reset

ReadReady(c) == Unread(c) > 0 \/ net[c].fin \/ net[c].reset
WriteReady(c) == client[c].wait_write /\ SendRoom(c) > 0

Ready ==
  {c \in Clients : client[c].live /\ (ReadReady(c) \/ WriteReady(c))}
    \cup (IF lsock.open /\ (lsock.hup \/ \E c \in Clients : net[c].state = "pending")
            THEN {Listener} ELSE {})

\* EPOLLERR and EPOLLHUP call do_client_send first, EPOLLOUT alone calls only it
EventOf(x) ==
  IF x = Listener
    THEN [who |-> x, hup |-> lsock.hup, in |-> \E c \in Clients : net[c].state = "pending"]
    ELSE [who |-> x, hup |-> net[x].reset \/ WriteReady(x), in |-> ReadReady(x)]

\* mutant: the loop goes on whatever sig.run says
test_run_always ==
  /\ pc = "run"
  /\ pc' = "poll"
  /\ UNCHANGED <<net, client, lsock, run, locals>>

\* server_run
test_run ==
  /\ pc = "run" /\ run
  /\ pc' = "poll"
  /\ UNCHANGED <<net, client, lsock, run, locals>>

\* epoll_wait finds nothing and blocks
epoll_block ==
  /\ pc = "poll" /\ Ready = {}
  /\ pc' = "blocked"
  /\ UNCHANGED <<net, client, lsock, run, locals>>

epoll_events ==
  /\ pc \in {"poll", "blocked"} /\ Ready # {}
  /\ \E order \in SetToSeqs(Ready) : batch' = [i \in 1 .. Len(order) |-> EventOf(order[i])]
  /\ pc' = "next"
  /\ UNCHANGED <<net, client, lsock, run, cur, after, moved, accepts>>

epoll_eintr ==
  /\ pc = "blocked" /\ ~run
  /\ pc' = "run"
  /\ UNCHANGED <<net, client, lsock, run, locals>>

\* the for loop of server_poll
next_event ==
  /\ pc = "next" /\ batch # <<>>
  /\ LET e == Head(batch)
     IN  /\ cur' = e.who
         /\ lsock' = IF e.who = Listener /\ e.hup THEN [lsock EXCEPT !.sys_err = TRUE] ELSE lsock
         /\ pc' = IF e.who = Listener THEN IF e.in THEN "accept" ELSE "check"
                    ELSE IF e.hup THEN "write" ELSE "recv"
         /\ after' = IF e.in THEN "recv" ELSE "close"
  /\ batch' = Tail(batch)
  /\ accepts' = 0 /\ moved' = FALSE
  /\ UNCHANGED <<net, client, run>>

last_event ==
  /\ pc = "next" /\ batch = <<>>
  /\ pc' = "run"
  /\ UNCHANGED <<net, client, lsock, run, locals>>
-----------------------------------------------------------------------------
(***************************************************************************)
(* The listener                                                            *)
(***************************************************************************)
\* client_create and sock_init, whose result is ignored: a failing malloc leaves
\* the buffers without a block, and send_buf not even initialised if it is the first
NewBuffers ==
  LET full == Queue(<<>>, InitSize, MaxSize, TRUE)
      none == Queue(<<>>, 0, MaxSize, TRUE)
      zero == Queue(<<>>, 0, 0, FALSE)
  IN  {<<full, full>>} \cup (IF "malloc" \in Faults THEN {<<full, none>>, <<none, zero>>} ELSE {})

\* mutant: the item is stored without making space for it
sock_write_unreserved(k, item) ==
  {[ok |-> TRUE, k |-> [k EXCEPT !.send_buf = Put(@, item)]]}

\* the outcomes of sock_write_mem and sock_write_line: the client and the result
sock_write(k, item) ==
  {[ok |-> r.ok, k |-> [k EXCEPT !.send_buf = r.buf, !.sys_err = @ \/ ~r.ok]]
     : r \in AppendTo(k.send_buf, item)}

\* server_accept: registered, the prompt queued and then sent
accept_client ==
  /\ pc = "accept"
  /\ \E c \in Clients : \E q \in NewBuffers :
       /\ net[c].state = "pending"
       /\ net' = [net EXCEPT ![c].state = "open"]
       /\ \E r \in sock_write([NoClient EXCEPT !.live = TRUE, !.recv_buf = q[1],
                                !.send_buf = q[2], !.snd_prompt = TRUE], Prompt) : Update(c, r.k)
       /\ cur' = c
  /\ accepts' = accepts + 1
  /\ after' = IF accepts' = MaxAccept THEN "check" ELSE "accept"
  /\ pc' = "write" /\ moved' = FALSE
  /\ UNCHANGED <<lsock, run, batch>>

\* nobody waits, or accept4 fails
accept_none ==
  /\ pc = "accept"
  /\ (\A c \in Clients : net[c].state # "pending") \/ "accept" \in Faults
  /\ pc' = "check"
  /\ UNCHANGED <<net, client, lsock, run, locals>>

\* accepted, but the client cannot be allocated or registered
accept_undone ==
  /\ pc = "accept" /\ Faults \cap {"malloc", "epoll"} # {}
  /\ \E c \in Clients : net[c].state = "pending" /\ net' = [net EXCEPT ![c].state = "closed"]
  /\ pc' = "check"
  /\ UNCHANGED <<client, lsock, run, locals>>

do_server_check ==
  /\ pc = "check"
  /\ lsock' = [lsock EXCEPT !.open = @ /\ ~lsock.sys_err]
  /\ run' = (run /\ ~lsock.sys_err)
  /\ HandlerEnds
  /\ UNCHANGED <<net, client>>
-----------------------------------------------------------------------------
(***************************************************************************)
(* do_client_recv                                                          *)
(***************************************************************************)
\* mutant: every close drops what is still to be written
Closing_forced(k, force) == [k EXCEPT !.send_fin = TRUE, !.close_now = TRUE]

\* client_close
Closing(k, force) == [k EXCEPT !.send_fin = TRUE, !.close_now = @ \/ force]

\* do_client_recv ends with this state of the client, do_client_send follows
RecvEnds(k) ==
  /\ Update(cur, k)
  /\ pc' = "write" /\ after' = "close" /\ moved' = FALSE

\* sock_recv: space - min_size is computed in size_t
MakeRoom(k) ==
  IF Room(k.recv_buf) < MinSize
    THEN Reserve(k.recv_buf, (Room(k.recv_buf) - MinSize) % Word)
    ELSE {[ok |-> TRUE, buf |-> k.recv_buf]}

sock_recv ==
  /\ pc = "recv"
  /\ \E r \in MakeRoom(client[cur]) :
       LET k == [client[cur] EXCEPT !.recv_buf = r.buf, !.sys_err = @ \/ ~r.ok]
       IN  IF k.sys_err THEN RecvEnds(Closing(k, TRUE))
           ELSE IF k.recv_fin THEN RecvEnds(Closing(k, FALSE))
           ELSE Update(cur, k) /\ pc' = "read" /\ moved' = FALSE /\ UNCHANGED after
  /\ UNCHANGED <<net, lsock, run, batch, cur, accepts>>

\* sock_read_data: read(2) returns some bytes; it is called again until they fill
\* the buffer
read_bytes ==
  /\ pc = "read" /\ ~net[cur].reset
  /\ LET k == client[cur]
         n == net[cur]
     IN  \E len \in 1 .. Min({Unread(cur), Room(k.recv_buf)}) :
           /\ Update(cur, [k EXCEPT !.recv_buf = Put(@, SubSeq(n.sent, n.rd + 1, n.rd + len))])
           /\ net' = [net EXCEPT ![cur].rd = @ + len]
           /\ pc' = IF len = Room(k.recv_buf) THEN "line" ELSE "read"
  /\ moved' = TRUE
  /\ UNCHANGED <<lsock, run, batch, cur, after, accepts>>

\* read(2) returns no bytes: the peer has closed, the connection is broken, or EAGAIN
read_ends ==
  /\ pc = "read"
  /\ net[cur].reset \/ Unread(cur) = 0
  /\ LET broken == net[cur].reset
         closed == ~broken /\ net[cur].fin
         k == [client[cur] EXCEPT !.recv_fin = @ \/ closed, !.sys_err = @ \/ broken]
     IN  IF moved THEN Update(cur, k) /\ pc' = "line" /\ UNCHANGED <<after, moved>>
         ELSE RecvEnds(IF closed \/ broken THEN Closing(k, broken) ELSE k)
  /\ UNCHANGED <<net, lsock, run, batch, cur, accepts>>

\* the response, then the prompt
send_rsp(k, line) ==
  UNION {IF r.ok /\ k.snd_prompt THEN sock_write(r.k, Prompt) ELSE {r}
           : r \in sock_write(k, <<line>>)}

\* QUIT closes after its response; every other line just gets its response
process_line(k, line) ==
  IF line = <<QuitChar>>
    THEN {[r EXCEPT !.k = Closing(@, r.ok)] : r \in send_rsp([k EXCEPT !.snd_prompt = FALSE], line)}
    ELSE send_rsp(k, line)

\* mutant: no limit on the length of a line
TooLong_never(line) == FALSE

\* rwbuf_readline refuses the line, finished or not
TooLong(line) == Len(line) > MaxLine

\* the next command line, the end of the lines, or a line that is too long
recv_line ==
  /\ pc = "line"
  /\ LET k == client[cur]
         data == k.recv_buf.data
         eol == SelectInSeq(data, LAMBDA b : b = LF)
         len == IF eol # 0 THEN eol ELSE IF k.recv_fin /\ ~TooLong(data) THEN Len(data) ELSE 0
         line == IF eol # 0 THEN SubSeq(data, 1, eol - 1) ELSE data
         rest == [k EXCEPT !.recv_buf = Drop(@, len)]
     IN  IF TooLong(line) THEN RecvEnds(Closing([rest EXCEPT !.sys_err = TRUE], TRUE))
         ELSE IF len = 0 THEN pc' = "recv" /\ UNCHANGED <<client, after, moved>>
         ELSE \E r \in process_line(rest, line) :
                IF r.ok THEN Update(cur, r.k) /\ UNCHANGED <<pc, after, moved>>
                  ELSE RecvEnds(Closing(r.k, TRUE))
  /\ UNCHANGED <<net, lsock, run, batch, cur, accepts>>
-----------------------------------------------------------------------------
(***************************************************************************)
(* do_client_send and the end of a connection                              *)
(***************************************************************************)
\* do_client_send returns
SendEnds(k) ==
  /\ Update(cur, k)
  /\ pc' = after
  /\ UNCHANGED <<after, moved>>

\* the epoll update of do_client_send; wait_write says whether EPOLLOUT is asked for
poll_update(k) ==
  IF k.wait_write THEN [k EXCEPT !.wait_write = k.send_buf.data # <<>>] ELSE k

\* mutant: the read index is advanced by what was not written
write_bytes_again ==
  /\ pc = "write" /\ ~client[cur].sys_err /\ ~net[cur].reset
  /\ LET data == client[cur].send_buf.data
     IN  \E len \in 1 .. Min({Len(data), SendRoom(cur)}) :
           /\ Update(cur, [client[cur] EXCEPT !.send_buf = Drop(@, Len(data) - len)])
           /\ net' = [net EXCEPT ![cur].out = @ \o SubSeq(data, 1, len)]
  /\ moved' = TRUE
  /\ UNCHANGED <<lsock, run, pc, batch, cur, after, accepts>>

\* sock_write_data: write(2) takes some bytes; it is called again until all are taken
write_bytes ==
  /\ pc = "write" /\ ~client[cur].sys_err /\ ~net[cur].reset
  /\ LET data == client[cur].send_buf.data
     IN  \E len \in 1 .. Min({Len(data), SendRoom(cur)}) :
           /\ Update(cur, [client[cur] EXCEPT !.send_buf = Drop(@, len)])
           /\ net' = [net EXCEPT ![cur].out = @ \o SubSeq(data, 1, len)]
  /\ moved' = TRUE
  /\ UNCHANGED <<lsock, run, pc, batch, cur, after, accepts>>

\* all is written
write_done ==
  /\ pc = "write" /\ ~client[cur].sys_err /\ client[cur].send_buf.data = <<>>
  /\ SendEnds(poll_update(client[cur]))
  /\ UNCHANGED <<net, lsock, run, batch, cur, accepts>>

\* mutant: a connection that takes no byte is closed and freed on the spot
write_again_frees ==
  /\ pc = "write" /\ ~client[cur].sys_err /\ ~net[cur].reset
  /\ client[cur].send_buf.data # <<>> /\ SendRoom(cur) = 0
  /\ SendEnds(IF moved THEN poll_update(client[cur]) ELSE NoClient)
  /\ UNCHANGED <<net, lsock, run, batch, cur, accepts>>

\* EAGAIN: an error only if nothing was written before
write_again ==
  /\ pc = "write" /\ ~client[cur].sys_err /\ ~net[cur].reset
  /\ client[cur].send_buf.data # <<>> /\ SendRoom(cur) = 0
  /\ SendEnds(IF moved THEN poll_update(client[cur]) ELSE client[cur])
  /\ UNCHANGED <<net, lsock, run, batch, cur, accepts>>

\* sys_err was set, or write(2) fails on a broken connection
write_fails ==
  /\ pc = "write"
  /\ client[cur].sys_err \/ (net[cur].reset /\ client[cur].send_buf.data # <<>>)
  /\ SendEnds([client[cur] EXCEPT !.sys_err = TRUE])
  /\ UNCHANGED <<net, lsock, run, batch, cur, accepts>>

sock_canclose(k) == k.sys_err \/ k.close_now \/ (k.send_fin /\ k.send_buf.data = <<>>)

\* client_must_close, client_destroy
client_close ==
  /\ pc = "close"
  /\ IF sock_canclose(client[cur])
       THEN Update(cur, NoClient) /\ net' = [net EXCEPT ![cur].state = "closed"]
       ELSE UNCHANGED <<client, net>>
  /\ HandlerEnds
  /\ UNCHANGED <<lsock, run>>

\* server_run returns and server_destroy closes everything
server_destroy ==
  /\ pc = "run" /\ ~run
  /\ client' = [c \in Clients |-> NoClient]
  /\ net' = [c \in Clients |->
               [net[c] EXCEPT !.state = IF @ = "idle" THEN "idle" ELSE "closed"]]
  /\ lsock' = [lsock EXCEPT !.open = FALSE]
  /\ pc' = "stopped"
  /\ UNCHANGED <<run, locals>>

server_poll == test_run \/ epoll_block \/ epoll_events \/ epoll_eintr \/ next_event \/ last_event
server_recv_event == accept_client \/ accept_none \/ accept_undone \/ do_server_check
do_client_recv == sock_recv \/ read_bytes \/ read_ends \/ recv_line
do_client_send == write_bytes \/ write_done \/ write_again \/ write_fails
server ==
  server_poll \/ server_recv_event \/ do_client_recv \/ do_client_send \/ client_close
    \/ server_destroy

listener_breaks == listener_error /\ UNCHANGED <<net, client, run, pc, locals>>

Next == server \/ (\E c \in Clients : peer(c)) \/ listener_breaks \/ handle_signal
Spec == Init /\ [][Next]_vars

\* the thread runs, accept4 does not fail for ever, and peers read what reaches them
FairSpec ==
  /\ Spec /\ WF_vars(server) /\ SF_vars(accept_client)
  /\ \A c \in Clients : WF_vars(peer_read(c) /\ UNCHANGED <<client, lsock, run, pc, locals>>)
-----------------------------------------------------------------------------
TypeOK ==
  /\ pc \in {"run", "poll", "blocked", "next", "accept", "check", "recv", "read", "line",
             "write", "close", "stopped"}
  /\ \A c \in Clients :
       /\ net[c].rd \in 0 .. Len(net[c].sent) /\ net[c].got \in 0 .. Len(net[c].out)
       /\ client[c].send_buf.size >= Len(client[c].send_buf.data)
       /\ client[c].recv_buf.size >= Len(client[c].recv_buf.data)
  /\ cur \in Clients \cup {Listener} /\ run \in BOOLEAN /\ accepts \in 0 .. MaxAccept

\* the complete lines of what a peer sent
Lines(s) ==
  LET ends == {0} \cup {i \in 1 .. Len(s) : s[i] = LF}
      at(i) == CHOOSE e \in ends : Cardinality({f \in ends : f < e}) = i
  IN  [i \in 1 .. Cardinality(ends) - 1 |-> SubSeq(s, at(i - 1) + 1, at(i) - 1)]

\* what a peer sent after its last complete line
Rest(s) == SubSeq(s, Max({0} \cup {i \in 1 .. Len(s) : s[i] = LF}) + 1, Len(s))

\* the responses a connection was given so far, without the prompts
Responses(c) == SelectSeq(net[c].out \o client[c].send_buf.data, LAMBDA x : x # Prompt[1])

(***************************************************************************)
(* The responses written and queued for a peer are those to the lines it   *)
(* sent, each once and in order, whatever pieces read(2) and write(2)      *)
(* moved and whatever the other connections do; an unfinished line is      *)
(* answered only after the peer has closed.                                *)
(***************************************************************************)
ResponsesInOrder ==
  \A c \in Clients :
    \/ IsPrefix(Responses(c), Lines(net[c].sent))
    \/ net[c].fin /\ Responses(c) = Append(Lines(net[c].sent), Rest(net[c].sent))

\* neither QUIT nor too long, and the responses fit the send buffer's first block
Proper(s) ==
  /\ \A i \in 1 .. Len(Lines(s)) : Lines(s)[i] # <<QuitChar>> /\ Len(Lines(s)[i]) <= MaxLine
  /\ Rest(s) # <<QuitChar>> /\ Len(Rest(s)) <= MaxLine
  /\ 2 * Len(Lines(s)) + 3 <= InitSize

(***************************************************************************)
(* A peer that sends proper lines is not dropped: its connection is marked *)
(* for closing only after the peer has closed, with every complete line    *)
(* answered, and without discarding what is still to be written.           *)
(***************************************************************************)
AnsweredBeforeClose ==
  \A c \in Clients :
    LET k == client[c] IN
    /\ k.live /\ k.recv_buf.size = InitSize /\ k.send_buf.size >= InitSize
    /\ ~net[c].reset /\ Proper(net[c].sent)
    => /\ ~k.sys_err /\ ~k.close_now
       /\ k.send_fin => net[c].fin /\ Len(Responses(c)) >= Len(Lines(net[c].sent))

(***************************************************************************)
(* No event of a batch names a client that an earlier event of the batch   *)
(* has freed, and no handler goes on with a client it has freed.           *)
(***************************************************************************)
NoFreedClient ==
  /\ \A i \in 1 .. Len(batch) : batch[i].who \in Clients => client[batch[i].who].live
  /\ pc \in {"recv", "read", "line", "write", "close"} => client[cur].live

(***************************************************************************)
(* The recv buffer keeps its first block: a line is taken out or refused   *)
(* before less than min_size is free, so that the negative size that       *)
(* sock_recv would reserve is never asked for.                             *)
(***************************************************************************)
RecvBlockKept == \A c \in Clients : client[c].recv_buf.size \in {0, InitSize}

(***************************************************************************)
(* A connection whose peer has closed its side is closed in the end, even  *)
(* if the responses do not fit the kernel's queue: end of file stays       *)
(* readable, and each event tries to write again.                          *)
(***************************************************************************)
ClosedPeersEnd ==
  \A c \in Clients :
    (net[c].fin /\ net[c].state \in {"pending", "open"}) ~> (net[c].state = "closed")

(***************************************************************************)
(* After SIGINT or SIGTERM the next event, at the latest, stops the        *)
(* server.                                                                 *)
(***************************************************************************)
SignalStops == (~run /\ Ready # {}) ~> (pc = "stopped")

(***************************************************************************)
(* sock.h calls wait_write "waiting for writeable event": a response that  *)
(* did not fit the kernel's queue is written when the queue has room.      *)
(***************************************************************************)
ResponsesWritten ==
  \A c \in Clients : (client[c].send_buf.data # <<>>) ~> (client[c].send_buf.data = <<>>)
=============================================================================
