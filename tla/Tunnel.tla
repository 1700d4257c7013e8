------------------------------- MODULE Tunnel -------------------------------
(***************************************************************************)
(* One CONNECT or SOCKS5 tunnel: connect_and_splice of src/src/proxy.rs,     *)
(* its Counting and Rewind adapters, and tokio's copy_bidirectional, which   *)
(* is external and modelled from its contract: per direction, read into a    *)
(* buffer when there is room, write out what is buffered, and after the end  *)
(* of the input has been read and the buffer has been written, shut the      *)
(* output down; an error of either direction ends both at once.              *)
(*                                                                         *)
(* Direction "up" runs from the client (the child process) to the origin,    *)
(* "down" the other way.  The counters sit on the client's socket: "up" is   *)
(* counted when it is read, "down" when it is written.                       *)
(*                                                                         *)
(* A byte is identified by its position in its stream.  The two peers write, *)
(* close, reset their connection and stop reading whenever they like.        *)
(***************************************************************************)
EXTENDS Io

CONSTANTS MaxSent,  \* bound on the bytes a peer writes, per direction
          BufSize   \* capacity of each of copy_bidirectional's two buffers

Dirs  == {"up", "down"}
Peers == {"client", "origin"}

ASSUME BoundsAssumption == /\ MaxSent \in [Dirs -> Nat]
                           /\ BufSize \in Nat \ {0}

Source(d) == IF d = "up" THEN "client" ELSE "origin"
Sink(d)   == IF d = "up" THEN "origin" ELSE "client"

VARIABLES
    pc,         \* where connect_and_splice is
    handshake,  \* which Handshake it was called with
    reply,      \* the handshake reply the client was sent
    stats,      \* the EndpointStats of the host
    rewind,     \* the Rewind around the client's socket
    sent,       \* per direction, every byte its source wrote
    eof,        \* per direction, whether its source closed its side
    sock,       \* per direction, the received bytes the proxy has not read
    buf,        \* per direction, the bytes in the copy buffer
    read_done,  \* per direction, whether the end of the input was read
    out,        \* per direction, every byte written to its sink
    shut,       \* per direction, whether its sink's socket was shut down
    reset,      \* the peers that reset their connection
    stalled     \* the peers that stopped reading for good

proxyVars == <<pc, handshake, reply, stats, rewind>>
copyVars  == <<buf, read_done, out, shut>>
peerVars  == <<sent, eof, reset, stalled>>
vars      == <<proxyVars, copyVars, peerVars, sock>>

Running == {"head", "dialing", "accepting", "splice"}
Ended   == {"ok", "err"}

\* Type invariant; a copy buffer never holds more than its capacity.
TypeOK ==
    /\ pc \in Running \cup Ended
    /\ handshake \in {"Http", "Socks"}
    /\ reply \in {"none", "accepted", "refused"}
    /\ stats \in EndpointStats
    /\ rewind \in [some : BOOLEAN, bytes : Seq(Nat)]
    /\ sent \in [Dirs -> Seq(Nat)]
    /\ eof \in [Dirs -> BOOLEAN]
    /\ sock \in [Dirs -> Seq(Nat)]
    /\ buf \in [Dirs -> Seq(Nat)]
    /\ \A d \in Dirs : Len(buf[d]) <= BufSize
    /\ read_done \in [Dirs -> BOOLEAN]
    /\ out \in [Dirs -> Seq(Nat)]
    /\ shut \in [Dirs -> BOOLEAN]
    /\ reset \in SUBSET Peers
    /\ stalled \in SUBSET Peers

Init ==
    /\ pc = "head"
    /\ handshake \in {"Http", "Socks"}
    /\ reply = "none"
    /\ stats = NewStats
    /\ rewind = Rewind_new(<<>>)
    /\ sent = [d \in Dirs |-> <<>>]
    /\ eof = [d \in Dirs |-> FALSE]
    /\ sock = [d \in Dirs |-> <<>>]
    /\ buf = [d \in Dirs |-> <<>>]
    /\ read_done = [d \in Dirs |-> FALSE]
    /\ out = [d \in Dirs |-> <<>>]
    /\ shut = [d \in Dirs |-> FALSE]
    /\ reset = {}
    /\ stalled = {}

-----------------------------------------------------------------------------
(* The two peers.  The origin takes part once it is connected.              *)

Connected(p) == /\ p \notin reset
                /\ \/ p = "client" /\ pc \in Running
                   \/ p = "origin" /\ pc \in {"accepting", "splice"}

PeerWrites(d) ==
    /\ Connected(Source(d))
    /\ ~eof[d]
    /\ Len(sent[d]) < MaxSent[d]
    /\ sent' = [sent EXCEPT ![d] = Append(@, Len(@) + 1)]
    /\ sock' = [sock EXCEPT ![d] = Append(@, Len(sent[d]) + 1)]
    /\ UNCHANGED <<proxyVars, copyVars, eof, reset, stalled>>

PeerCloses(d) ==
    /\ Connected(Source(d))
    /\ ~eof[d]
    /\ eof' = [eof EXCEPT ![d] = TRUE]
    /\ UNCHANGED <<proxyVars, copyVars, sent, reset, stalled, sock>>

PeerResets(p) ==
    /\ Connected(p)
    /\ reset' = reset \cup {p}
    /\ UNCHANGED <<proxyVars, copyVars, sent, eof, stalled, sock>>

PeerStalls(p) ==
    /\ Connected(p)
    /\ p \notin stalled
    /\ stalled' = stalled \cup {p}
    /\ UNCHANGED <<proxyVars, copyVars, sent, eof, reset, sock>>

-----------------------------------------------------------------------------
(* connect_and_splice, one action between two of its awaits.                *)

\* The call.  read_head reads in chunks, so an HTTP client that does not wait
\* for the reply may have payload in the chunk that completes the head: that
\* payload is `leftover`.  The SOCKS5 handshake reads exactly its own bytes.
Call(n) ==
    /\ pc = "head"
    /\ n <= Len(sock["up"])
    /\ handshake = "Socks" => n = 0
    /\ pc' = "dialing"
    /\ rewind' = Rewind_new(SubSeq(sock["up"], 1, n))
    /\ sock' = [sock EXCEPT !["up"] = SubSeq(@, n + 1, Len(@))]
    /\ UNCHANGED <<handshake, reply, stats, copyVars, peerVars>>

\* TcpStream::connect failed: refuse, whether or not the reply can be written.
DialFail ==
    /\ pc = "dialing"
    /\ reply' = IF "client" \in reset THEN reply ELSE "refused"
    /\ pc' = "err"
    /\ UNCHANGED <<handshake, stats, rewind, copyVars, peerVars, sock>>

\* Connected, but set_nodelay failed: the early return tells the client nothing.
NodelayFail ==
    /\ pc = "dialing"
    /\ pc' = "err"
    /\ UNCHANGED <<handshake, reply, stats, rewind, copyVars, peerVars, sock>>

\* Connected; peer_addr may fail (addr = NoIp), and then no address is recorded.
DialOk(addr) ==
    /\ pc = "dialing"
    /\ stats' = add_connection(observe_ip(stats, addr))
    /\ pc' = "accepting"
    /\ UNCHANGED <<handshake, reply, rewind, copyVars, peerVars, sock>>

Accept ==
    /\ pc = "accepting"
    /\ "client" \notin reset
    /\ reply' = "accepted"
    /\ pc' = "splice"
    /\ UNCHANGED <<handshake, stats, rewind, copyVars, peerVars, sock>>

AcceptFail ==
    /\ pc = "accepting"
    /\ "client" \in reset
    /\ pc' = "err"
    /\ UNCHANGED <<handshake, reply, stats, rewind, copyVars, peerVars, sock>>

-----------------------------------------------------------------------------
(* copy_bidirectional(Counting(Rewind(client)), upstream).                  *)

\* Mutant: the bytes already buffered are forgotten.
Space_forgetful(d) == BufSize

Space(d) == BufSize - Len(buf[d])

\* CopyBuffer::poll_fill_buf wants to read.
Reading(d) == pc = "splice" /\ ~read_done[d] /\ Space(d) > 0

\* A read of the client's socket while Rewind still holds leftover bytes.
\* A read that fills nothing is the end of the stream to its reader.
FillFromPrefix ==
    LET chunk == Taken(rewind.bytes, Space("up")) IN
    /\ Reading("up")
    /\ rewind.some
    /\ rewind' = Rewind_advance(rewind, Space("up"))
    /\ buf' = [buf EXCEPT !["up"] = @ \o chunk]
    /\ read_done' = [read_done EXCEPT !["up"] = (chunk = <<>>)]
    /\ stats' = on_read(stats, "Client", Len(chunk))
    /\ UNCHANGED <<pc, handshake, reply, out, shut, peerVars, sock>>

\* A read of received bytes.  Only the client's socket is counted on a read.
Fill(d) ==
    LET chunk == Taken(sock[d], Space(d)) IN
    /\ Reading(d)
    /\ d = "up" => ~rewind.some
    /\ sock[d] # <<>>
    /\ sock' = [sock EXCEPT ![d] = Rest(@, Space(d))]
    /\ buf' = [buf EXCEPT ![d] = @ \o chunk]
    /\ stats' = IF d = "up" THEN on_read(stats, "Client", Len(chunk)) ELSE stats
    /\ UNCHANGED <<pc, handshake, reply, rewind, read_done, out, shut, peerVars>>

\* The read that finds the end of the stream, after all received bytes.
ReadEof(d) ==
    /\ Reading(d)
    /\ d = "up" => ~rewind.some
    /\ sock[d] = <<>>
    /\ eof[d]
    /\ read_done' = [read_done EXCEPT ![d] = TRUE]
    /\ UNCHANGED <<proxyVars, buf, out, shut, peerVars, sock>>

\* The sink's socket takes some of the buffered bytes.  Only the client's
\* socket is counted on a write.
Write(d) ==
    /\ pc = "splice"
    /\ Sink(d) \notin reset \cup stalled
    /\ \E n \in 1 .. Len(buf[d]) :
         /\ out' = [out EXCEPT ![d] = @ \o SubSeq(buf[d], 1, n)]
         /\ buf' = [buf EXCEPT ![d] = SubSeq(@, n + 1, Len(@))]
         /\ stats' = IF d = "down" THEN on_write(stats, "Client", n) ELSE stats
    /\ UNCHANGED <<pc, handshake, reply, rewind, read_done, shut, peerVars, sock>>

\* Mutant: the shutdown does not wait for the buffer to be written.
Copied_unflushed(d) == read_done[d]

\* Mutant: a direction is done only together with the other one.
Copied_together(d) == \A e \in Dirs : read_done[e] /\ buf[e] = <<>>

\* Mutant: once one direction is shut down the other one is forgotten.
Copied_first_only(d) ==
    read_done[d] /\ buf[d] = <<>> /\ \A e \in Dirs : ~shut[e]

\* poll_copy is ready: the input ended and the buffer is written.
Copied(d) == read_done[d] /\ buf[d] = <<>>

\* poll_shutdown of the sink.
Shutdown(d) ==
    /\ pc = "splice"
    /\ Copied(d)
    /\ ~shut[d]
    /\ Sink(d) \notin reset
    /\ shut' = [shut EXCEPT ![d] = TRUE]
    /\ UNCHANGED <<proxyVars, buf, read_done, out, peerVars, sock>>

\* Mutant: the tunnel ends when one direction is done.
BothDone_either == \E d \in Dirs : shut[d]

BothDone == \A d \in Dirs : shut[d]

\* Both directions are done: the tunnel ends well.
Finish ==
    /\ pc = "splice"
    /\ BothDone
    /\ pc' = "ok"
    /\ UNCHANGED <<handshake, reply, stats, rewind, copyVars, peerVars, sock>>

\* A read, write or shutdown meets a reset connection: both directions end,
\* and what is still buffered is dropped.
CopyFail(d) ==
    /\ pc = "splice"
    /\ \/ Source(d) \in reset /\ Reading(d) /\ (d = "up" => ~rewind.some)
       \/ Sink(d) \in reset /\ buf[d] # <<>>
       \/ Sink(d) \in reset /\ Copied(d) /\ ~shut[d]
    /\ pc' = "err"
    /\ UNCHANGED <<handshake, reply, stats, rewind, copyVars, peerVars, sock>>

\* The task has ended and its sockets are closed; nothing more happens.
Terminated == pc \in Ended /\ UNCHANGED vars

Dial == DialFail \/ NodelayFail \/ \E addr \in Ips \cup {NoIp} : DialOk(addr)

Copy(d) == Fill(d) \/ ReadEof(d) \/ Write(d) \/ Shutdown(d) \/ CopyFail(d)

Next ==
    \/ \E d \in Dirs : PeerWrites(d) \/ PeerCloses(d)
    \/ \E p \in Peers : PeerResets(p) \/ PeerStalls(p)
    \/ \E n \in 0 .. Len(sock["up"]) : Call(n)
    \/ Dial \/ Accept \/ AcceptFail
    \/ FillFromPrefix
    \/ \E d \in Dirs : Copy(d)
    \/ Finish
    \/ Terminated

\* tokio polls a task whose socket is ready, and every poll of the copy makes
\* the progress that is possible: each direction's steps, and the end, are
\* weakly fair.  Nothing is assumed of the peers.
Fairness == /\ \A d \in Dirs : /\ WF_vars(Fill(d))
                               /\ WF_vars(ReadEof(d))
                               /\ WF_vars(Write(d))
                               /\ WF_vars(Shutdown(d))
                               /\ WF_vars(CopyFail(d))
            /\ WF_vars(FillFromPrefix)
            /\ WF_vars(Finish)

Spec == Init /\ [][Next]_vars /\ Fairness

-----------------------------------------------------------------------------
(* Properties.                                                              *)

Leftover(d) == IF d = "up" THEN rewind.bytes ELSE <<>>

\* Every byte a peer wrote is in exactly one place, in the order it was written:
\* already written to the other peer, in the copy buffer, in the Rewind prefix
\* (the bytes read_head took too early), or still in the socket.  So neither
\* the replay of the prefix nor the two copies lose, repeat or reorder a byte.
InOrder ==
    \A d \in Dirs : out[d] \o buf[d] \o Leftover(d) \o sock[d] = sent[d]

\* The counters at any moment, the error endings included: egress is what was
\* read from the client, so it may exceed what the origin was sent by no more
\* than what sits in the copy buffer; ingress is exactly what was written to
\* the client.
MeterBounds ==
    /\ stats.egress = Len(out["up"]) + Len(buf["up"])
    /\ stats.ingress = Len(out["down"])

\* copy_bidirectional takes a read that fills nothing for the end of its input.
\* It never meets one before the source really closed its side and everything
\* the source sent, the Rewind prefix included, has been read.
EndOfInput ==
    \A d \in Dirs : read_done[d] => eof[d] /\ Leftover(d) \o sock[d] = <<>>

\* Half-close: a peer is shown the end of the stream only after the other peer
\* really closed its side and after every byte it sent has been written.
HalfClose == \A d \in Dirs : shut[d] => eof[d] /\ out[d] = sent[d]

\* When copy_bidirectional returns Ok the counters equal what each peer sent,
\* bytes pipelined behind the handshake included, and all of it was delivered.
ExactOnCleanClose ==
    pc = "ok" => /\ stats.egress = Len(sent["up"])
                 /\ stats.ingress = Len(sent["down"])
                 /\ out = sent

\* The end of one direction is passed on while the other one is still open and
\* silent, unless the peer to be told has stopped reading.
EofForwarded ==
    \A d \in Dirs :
       (pc = "splice" /\ eof[d]) ~> (shut[d] \/ pc \in Ended \/ Sink(d) \in stalled)

\* A tunnel that both peers closed ends, and with it the drain guard its task
\* holds, unless a peer has stopped reading.
EndsWhenClosed ==
    (pc = "splice" /\ \A d \in Dirs : eof[d]) ~> (pc \in Ended \/ stalled # {})

\* proxy.rs:14-16: "the counters see exactly the ciphertext that crosses the
\* wire", read for the wire to the origin and for every way a tunnel ends.
WireExact ==
    pc \in Ended => /\ stats.egress = Len(out["up"])
                    /\ stats.ingress = Len(out["down"]) + Len(buf["down"])

\* Each direction implements the abstract metered stream.
Up == INSTANCE ByteStream WITH
    sent <- sent["up"], closed <- eof["up"], got <- out["up"],
    meter <- stats.egress, ended <- shut["up"]

Down == INSTANCE ByteStream WITH
    sent <- sent["down"], closed <- eof["down"], got <- out["down"],
    meter <- stats.ingress, ended <- shut["down"]

\* Client to origin, counted as egress when the proxy reads it.
UpImplementsByteStream == Up!Spec

\* Origin to client, counted as ingress when the proxy writes it.
DownImplementsByteStream == Down!Spec
=============================================================================
