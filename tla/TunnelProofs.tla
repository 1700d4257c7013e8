---------------------------- MODULE TunnelProofs ----------------------------
(***************************************************************************)
(* Proofs about Tunnel, for every bound on what the peers send and every    *)
(* buffer size.                                                             *)
(***************************************************************************)
EXTENDS Tunnel, SequenceTheorems, TLAPS

-----------------------------------------------------------------------------
(* What a partial read takes and what it leaves.                            *)

\* A sequence cut after its n-th element.
LEMMA Cut ==
    ASSUME NEW q \in Seq(Nat), NEW n \in 0 .. Len(q)
    PROVE  /\ SubSeq(q, 1, n) \in Seq(Nat)
           /\ SubSeq(q, n + 1, Len(q)) \in Seq(Nat)
           /\ Len(SubSeq(q, 1, n)) = n
           /\ Len(SubSeq(q, n + 1, Len(q))) = Len(q) - n
           /\ SubSeq(q, 1, n) \o SubSeq(q, n + 1, Len(q)) = q
<1>1. SubSeq(q, 1, n) \o SubSeq(q, n + 1, Len(q)) = SubSeq(q, 1, Len(q))
  BY ConcatAdjacentSubSeq, 1 \in 1 .. Len(q) + 1, n \in (1 - 1) .. Len(q),
     Len(q) \in n .. Len(q)
<1>2. SubSeq(q, 1, Len(q)) = q
  BY SubSeqFull
<1>3. \A i \in 1 .. Len(q) : q[i] \in Nat
  OBVIOUS
<1>4. /\ SubSeq(q, 1, n) \in Seq(Nat)
      /\ Len(SubSeq(q, 1, n)) = n
  BY <1>3, SubSeqProperties
<1>5. /\ SubSeq(q, n + 1, Len(q)) \in Seq(Nat)
      /\ Len(SubSeq(q, n + 1, Len(q))) = Len(q) - n
  BY <1>3, SubSeqProperties
<1>6. QED
  BY <1>1, <1>2, <1>4, <1>5

\* Taken and Rest cut the queue where the reader's space ends.
LEMMA TakenRest ==
    ASSUME NEW q \in Seq(Nat), NEW space \in Nat
    PROVE  /\ Taken(q, space) \in Seq(Nat)
           /\ Rest(q, space) \in Seq(Nat)
           /\ Taken(q, space) \o Rest(q, space) = q
           /\ Len(Taken(q, space)) = Least(Len(q), space)
           /\ Len(Taken(q, space)) <= space
           /\ (q # <<>> /\ space > 0) => Len(Taken(q, space)) > 0
<1> DEFINE n == Least(Len(q), space)
<1>1. /\ n \in 0 .. Len(q)
      /\ n <= space
      /\ (q # <<>> /\ space > 0) => n > 0
  BY DEF Least
<1> HIDE DEF n
<1>2. /\ Taken(q, space) = SubSeq(q, 1, n)
      /\ Rest(q, space) = SubSeq(q, n + 1, Len(q))
  BY DEF n, Taken, Rest
<1>3. QED
  BY <1>1, <1>2, Cut DEF n

\* The stages a direction's bytes go through: written out (o), buffered (b),
\* left over from the head (l), still in the socket (k), make up what was sent.
Pipe(o, b, l, k, s) == o \o b \o l \o k = s

LEMMA Joined ==
    ASSUME NEW s \in Seq(Nat), NEW t \in Seq(Nat)
    PROVE  s \o t \in Seq(Nat)
  BY ConcatProperties

LEMMA Regrouped ==
    ASSUME NEW s \in Seq(Nat), NEW t \in Seq(Nat), NEW u \in Seq(Nat)
    PROVE  (s \o t) \o u = s \o (t \o u)
  BY ConcatAssociative

\* Moving bytes from one stage to the next leaves the stream as it was.
LEMMA PipeArrive ==
    ASSUME NEW o \in Seq(Nat), NEW b \in Seq(Nat), NEW l \in Seq(Nat),
           NEW k \in Seq(Nat), NEW s, Pipe(o, b, l, k, s), NEW x \in Nat
    PROVE  Pipe(o, b, l, Append(k, x), Append(s, x))
<1> DEFINE front == o \o b \o l
<1>1. front \in Seq(Nat)
  <2>1. o \o b \in Seq(Nat)
    BY Joined
  <2>2. QED
    BY <2>1, Joined
<1> HIDE DEF front
<1>2. front \o Append(k, x) = Append(front \o k, x)
  BY <1>1
<1>3. QED
  BY <1>2 DEF Pipe, front

LEMMA PipeCall ==
    ASSUME NEW o \in Seq(Nat), NEW b \in Seq(Nat),
           NEW c \in Seq(Nat), NEW r \in Seq(Nat), NEW s, Pipe(o, b, <<>>, c \o r, s)
    PROVE  Pipe(o, b, c, r, s)
<1> DEFINE front == o \o b
<1>1. front \in Seq(Nat)
  BY Joined
<1> HIDE DEF front
<1>2. (front \o <<>>) \o (c \o r) = (front \o c) \o r
  <2>1. front \o <<>> = front
    BY <1>1, ConcatEmptySeq
  <2>2. (front \o c) \o r = front \o (c \o r)
    BY <1>1, Regrouped
  <2>3. QED
    BY <2>1, <2>2
<1>3. QED
  BY <1>2 DEF Pipe, front

LEMMA PipeFromPrefix ==
    ASSUME NEW o \in Seq(Nat), NEW b \in Seq(Nat), NEW k \in Seq(Nat),
           NEW c \in Seq(Nat), NEW r \in Seq(Nat), NEW s, Pipe(o, b, c \o r, k, s)
    PROVE  Pipe(o, b \o c, r, k, s)
<1> DEFINE front == o \o b
<1>1. front \in Seq(Nat)
  BY Joined
<1>2. o \o (b \o c) = front \o c
  BY Regrouped
<1> HIDE DEF front
<1>3. (front \o c) \o r = front \o (c \o r)
  BY <1>1, Regrouped
<1>4. QED
  BY <1>2, <1>3 DEF Pipe, front

LEMMA PipeFill ==
    ASSUME NEW o \in Seq(Nat), NEW b \in Seq(Nat),
           NEW c \in Seq(Nat), NEW r \in Seq(Nat), NEW s, Pipe(o, b, <<>>, c \o r, s)
    PROVE  Pipe(o, b \o c, <<>>, r, s)
<1> DEFINE front == o \o b
<1>1. front \in Seq(Nat)
  BY Joined
<1>2. o \o (b \o c) = front \o c
  BY Regrouped
<1> HIDE DEF front
<1>3. ((front \o c) \o <<>>) \o r = (front \o <<>>) \o (c \o r)
  <2>1. front \o c \in Seq(Nat)
    BY <1>1, Joined
  <2>2. (front \o c) \o <<>> = front \o c /\ front \o <<>> = front
    BY <1>1, <2>1, ConcatEmptySeq
  <2>3. (front \o c) \o r = front \o (c \o r)
    BY <1>1, Regrouped
  <2>4. QED
    BY <2>2, <2>3
<1>4. QED
  BY <1>2, <1>3 DEF Pipe, front

LEMMA PipeWrite ==
    ASSUME NEW o \in Seq(Nat), NEW l \in Seq(Nat), NEW k \in Seq(Nat),
           NEW c \in Seq(Nat), NEW r \in Seq(Nat), NEW s, Pipe(o, c \o r, l, k, s)
    PROVE  Pipe(o \o c, r, l, k, s)
<1>1. (o \o c) \o r = o \o (c \o r)
  BY Regrouped
<1>2. QED
  BY <1>1 DEF Pipe

-----------------------------------------------------------------------------
(* Type correctness.                                                        *)

LEMMA InitTypeOK == Init => TypeOK
  BY NoIpAssumption, BoundsAssumption
     DEF Init, TypeOK, Running, Ended, EndpointStats, NewStats, Rewind_new, Dirs, Peers

\* The counters stay counters.
LEMMA StatsType ==
    ASSUME NEW s \in EndpointStats, NEW n \in Nat
    PROVE  /\ add_ingress(s, n) \in EndpointStats
           /\ add_egress(s, n) \in EndpointStats
  BY DEF EndpointStats, add_ingress, add_egress

LEMMA ConnectionType ==
    ASSUME NEW s \in EndpointStats
    PROVE  add_connection(s) \in EndpointStats
  BY DEF EndpointStats, add_connection

LEMMA IpType ==
    ASSUME NEW s \in EndpointStats, NEW addr \in Ips \cup {NoIp}
    PROVE  observe_ip(s, addr) \in EndpointStats
<1>1. CASE s.ip = NoIp
  BY <1>1 DEF EndpointStats, observe_ip
<1>2. CASE s.ip # NoIp
  BY <1>2 DEF EndpointStats, observe_ip
<1>3. QED
  BY <1>1, <1>2

LEMMA NextTypeOK == TypeOK /\ [Next]_vars => TypeOK'
<1> SUFFICES ASSUME TypeOK, [Next]_vars PROVE TypeOK'
  OBVIOUS
<1> USE DEF TypeOK, proxyVars, copyVars, peerVars
<1>1. ASSUME NEW d \in Dirs, PeerWrites(d) PROVE TypeOK'
  BY <1>1 DEF PeerWrites
<1>2. ASSUME NEW d \in Dirs, PeerCloses(d) PROVE TypeOK'
  BY <1>2 DEF PeerCloses
<1>3. ASSUME NEW p \in Peers, PeerResets(p) PROVE TypeOK'
  BY <1>3 DEF PeerResets
<1>4. ASSUME NEW p \in Peers, PeerStalls(p) PROVE TypeOK'
  BY <1>4 DEF PeerStalls
<1>5. ASSUME NEW n \in 0 .. Len(sock["up"]), Call(n) PROVE TypeOK'
  <2>1. sock["up"] \in Seq(Nat)
    BY DEF Dirs
  <2>2. /\ SubSeq(sock["up"], 1, n) \in Seq(Nat)
        /\ SubSeq(sock["up"], n + 1, Len(sock["up"])) \in Seq(Nat)
    BY <2>1, Cut
  <2>3. rewind' \in [some : BOOLEAN, bytes : Seq(Nat)]
    BY <1>5, <2>2 DEF Call, Rewind_new
  <2>4. sock' \in [Dirs -> Seq(Nat)]
    BY <1>5, <2>2 DEF Call
  <2>5. QED
    BY <1>5, <2>3, <2>4 DEF Call, Running
<1>6. CASE DialFail
  BY <1>6 DEF DialFail, Ended
<1>7. CASE NodelayFail
  BY <1>7 DEF NodelayFail, Ended
<1>8. ASSUME NEW addr \in Ips \cup {NoIp}, DialOk(addr) PROVE TypeOK'
  <2>1. stats' \in EndpointStats
    <3>1. observe_ip(stats, addr) \in EndpointStats
      BY IpType
    <3>2. QED
      BY <1>8, <3>1, ConnectionType DEF DialOk
  <2>2. QED
    BY <1>8, <2>1 DEF DialOk, Running
<1>9. CASE Accept
  BY <1>9 DEF Accept, Running
<1>10. CASE AcceptFail
  BY <1>10 DEF AcceptFail, Ended
<1>11. CASE FillFromPrefix
  <2> DEFINE chunk == Taken(rewind.bytes, Space("up"))
  <2>1. rewind.bytes \in Seq(Nat) /\ buf["up"] \in Seq(Nat) /\ Space("up") \in Nat
    BY <1>11, BoundsAssumption DEF FillFromPrefix, Reading, Space, Dirs
  <2>2. /\ chunk \in Seq(Nat)
        /\ Rest(rewind.bytes, Space("up")) \in Seq(Nat)
        /\ Len(chunk) <= Space("up")
    BY <2>1, TakenRest
  <2>3. rewind' \in [some : BOOLEAN, bytes : Seq(Nat)]
    BY <1>11, <2>2 DEF FillFromPrefix, Rewind_advance
  <2>4. /\ buf' \in [Dirs -> Seq(Nat)]
        /\ \A d \in Dirs : Len(buf'[d]) <= BufSize
    BY <1>11, <2>1, <2>2, BoundsAssumption DEF FillFromPrefix, Space, Dirs
  <2>5. stats' \in EndpointStats
    BY <1>11, <2>2, StatsType DEF FillFromPrefix, on_read
  <2>6. read_done' \in [Dirs -> BOOLEAN]
    BY <1>11 DEF FillFromPrefix
  <2>7. QED
    BY <1>11, <2>3, <2>4, <2>5, <2>6 DEF FillFromPrefix
<1>12. ASSUME NEW d \in Dirs, Fill(d) PROVE TypeOK'
  <2> DEFINE chunk == Taken(sock[d], Space(d))
  <2>1. Space(d) \in Nat
    BY <1>12, BoundsAssumption DEF Fill, Reading, Space
  <2>2. /\ chunk \in Seq(Nat)
        /\ Rest(sock[d], Space(d)) \in Seq(Nat)
        /\ Len(chunk) <= Space(d)
    BY <2>1, TakenRest
  <2>3. sock' \in [Dirs -> Seq(Nat)]
    BY <1>12, <2>2 DEF Fill
  <2>4. /\ buf' \in [Dirs -> Seq(Nat)]
        /\ \A e \in Dirs : Len(buf'[e]) <= BufSize
    BY <1>12, <2>2, BoundsAssumption DEF Fill, Space
  <2>5. stats' \in EndpointStats
    BY <1>12, <2>2, StatsType DEF Fill, on_read
  <2>6. QED
    BY <1>12, <2>3, <2>4, <2>5 DEF Fill
<1>13. ASSUME NEW d \in Dirs, ReadEof(d) PROVE TypeOK'
  BY <1>13 DEF ReadEof
<1>14. ASSUME NEW d \in Dirs, Write(d) PROVE TypeOK'
  <2>1. PICK n \in 1 .. Len(buf[d]) :
          /\ out' = [out EXCEPT ![d] = @ \o SubSeq(buf[d], 1, n)]
          /\ buf' = [buf EXCEPT ![d] = SubSeq(@, n + 1, Len(@))]
          /\ stats' = IF d = "down" THEN on_write(stats, "Client", n) ELSE stats
    BY <1>14 DEF Write
  <2>2. /\ SubSeq(buf[d], 1, n) \in Seq(Nat)
        /\ SubSeq(buf[d], n + 1, Len(buf[d])) \in Seq(Nat)
        /\ Len(SubSeq(buf[d], n + 1, Len(buf[d]))) = Len(buf[d]) - n
    BY Cut
  <2>3. out' \in [Dirs -> Seq(Nat)]
    <3>1. out[d] \o SubSeq(buf[d], 1, n) \in Seq(Nat)
      BY <2>2, Joined
    <3>2. QED
      BY <2>1, <3>1
  <2>4. /\ buf' \in [Dirs -> Seq(Nat)]
        /\ \A e \in Dirs : Len(buf'[e]) <= BufSize
    <3> DEFINE tail == SubSeq(buf[d], n + 1, Len(buf[d]))
    <3>1. tail \in Seq(Nat)
      BY <2>2
    <3>2. Len(tail) <= BufSize
      BY <2>2, BoundsAssumption
    <3>3. buf' = [buf EXCEPT ![d] = tail]
      BY <2>1
    <3> HIDE DEF tail
    <3>4. QED
      BY <3>1, <3>2, <3>3
  <2>5. stats' \in EndpointStats
    BY <2>1, StatsType DEF on_write
  <2>6. QED
    BY <1>14, <2>3, <2>4, <2>5 DEF Write
<1>15. ASSUME NEW d \in Dirs, Shutdown(d) PROVE TypeOK'
  BY <1>15 DEF Shutdown
<1>16. ASSUME NEW d \in Dirs, CopyFail(d) PROVE TypeOK'
  BY <1>16 DEF CopyFail, Ended
<1>17. CASE Finish
  BY <1>17 DEF Finish, Ended
<1>18. CASE UNCHANGED vars
  BY <1>18 DEF vars
<1>19. QED
  BY <1>1, <1>2, <1>3, <1>4, <1>5, <1>6, <1>7, <1>8, <1>9, <1>10, <1>11,
     <1>12, <1>13, <1>14, <1>15, <1>16, <1>17, <1>18
     DEF Next, Dial, Copy, Terminated

\* Every reachable state is well typed, and no copy buffer overflows.
THEOREM TypeCorrect == Spec => []TypeOK
<1>1. Init => TypeOK
  BY InitTypeOK
<1>2. TypeOK /\ [Next]_vars => TypeOK'
  BY NextTypeOK
<1>3. QED
  BY <1>1, <1>2, PTL DEF Spec

-----------------------------------------------------------------------------
(* The inductive invariant.  InOrder and MeterBounds are inductive as they   *)
(* stand, given the types; HalfClose and ExactOnCleanClose need to know why  *)
(* a shutdown was reached: the input was at its end, hence nothing was left  *)
(* in the socket or in the Rewind prefix, and Rewind forgot its prefix when  *)
(* it was used up, so that an empty prefix never looks like an end of input. *)

RewindForgets == /\ rewind.some <=> rewind.bytes # <<>>
                 /\ pc = "head" => rewind.bytes = <<>>

ShutIsCopied == /\ \A d \in Dirs : shut[d] => Copied(d)
                /\ pc = "ok" => BothDone

IndInv == /\ TypeOK
          /\ InOrder
          /\ MeterBounds
          /\ RewindForgets
          /\ EndOfInput
          /\ ShutIsCopied

LEMMA InitIndInv == Init => IndInv
<1> SUFFICES ASSUME Init PROVE IndInv
  OBVIOUS
<1>1. TypeOK
  BY InitTypeOK
<1>2. InOrder
  BY DEF Init, InOrder, Leftover, Rewind_new, Dirs
<1>3. MeterBounds
  BY DEF Init, MeterBounds, NewStats, Dirs
<1>4. RewindForgets /\ EndOfInput /\ ShutIsCopied
  BY DEF Init, RewindForgets, Rewind_new, EndOfInput, ShutIsCopied
<1>5. QED
  BY <1>1, <1>2, <1>3, <1>4 DEF IndInv

LEMMA InOrderIsPipe ==
    /\ InOrder <=> \A d \in Dirs :
                      Pipe(out[d], buf[d], Leftover(d), sock[d], sent[d])
    /\ InOrder' <=> \A d \in Dirs :
                      Pipe(out'[d], buf'[d], Leftover(d)', sock'[d], sent'[d])
  BY DEF InOrder, Pipe

\* A step that moves the bytes of one direction only.
LEMMA OneDirection ==
    ASSUME InOrder, NEW d \in Dirs,
           Pipe(out'[d], buf'[d], Leftover(d)', sock'[d], sent'[d]),
           \A e \in Dirs \ {d} :
              /\ out'[e] = out[e] /\ buf'[e] = buf[e] /\ sock'[e] = sock[e]
              /\ sent'[e] = sent[e] /\ Leftover(e)' = Leftover(e)
    PROVE  InOrder'
<1>1. SUFFICES ASSUME NEW e \in Dirs
               PROVE  Pipe(out'[e], buf'[e], Leftover(e)', sock'[e], sent'[e])
  BY InOrderIsPipe
<1>2. CASE e = d
  BY <1>2
<1>3. CASE e # d
  BY <1>3, InOrderIsPipe
<1>4. QED
  BY <1>2, <1>3

LEMMA StageTypes ==
    ASSUME TypeOK, NEW d \in Dirs
    PROVE  /\ out[d] \in Seq(Nat) /\ buf[d] \in Seq(Nat)
           /\ Leftover(d) \in Seq(Nat) /\ sock[d] \in Seq(Nat)
  BY DEF TypeOK, Leftover

\* What the invariant says besides the types is about these variables only.
flowVars == <<stats, rewind, sent, eof, sock, buf, read_done, out, shut, pc>>

LEMMA FlowUnchanged ==
    ASSUME IndInv, TypeOK', UNCHANGED flowVars
    PROVE  IndInv'
  BY DEF IndInv, flowVars, InOrder, MeterBounds, RewindForgets, EndOfInput,
         ShutIsCopied, Leftover, Copied, BothDone

\* Steps that change pc and neither the streams nor how far they were copied.
LEMMA PcStep ==
    ASSUME IndInv, TypeOK', pc' \notin {"ok", "head"},
           UNCHANGED <<rewind, sent, eof, sock, buf, read_done, out, shut>>,
           stats'.ingress = stats.ingress, stats'.egress = stats.egress
    PROVE  IndInv'
  BY DEF IndInv, InOrder, MeterBounds, RewindForgets, EndOfInput,
         ShutIsCopied, Leftover, Copied

LEMMA NextIndInv == IndInv /\ [Next]_vars => IndInv'
<1> SUFFICES ASSUME IndInv, [Next]_vars PROVE IndInv'
  OBVIOUS
<1>a. TypeOK /\ TypeOK'
  BY NextTypeOK DEF IndInv
<1> USE <1>a DEF proxyVars, copyVars, peerVars
<1>1. ASSUME NEW d \in Dirs, PeerWrites(d) PROVE IndInv'
  <2>1. InOrder'
    <3> DEFINE b == Len(sent[d]) + 1
    <3>1. /\ sent' = [sent EXCEPT ![d] = Append(@, b)]
          /\ sock' = [sock EXCEPT ![d] = Append(@, b)]
          /\ UNCHANGED <<out, buf, rewind>>
          /\ b \in Nat
      BY <1>1 DEF PeerWrites, TypeOK
    <3> HIDE DEF b
    <3>2. Pipe(out[d], buf[d], Leftover(d), sock[d], sent[d])
      BY InOrderIsPipe DEF IndInv
    <3>3. Pipe(out[d], buf[d], Leftover(d), Append(sock[d], b), Append(sent[d], b))
      BY <3>1, <3>2, StageTypes, PipeArrive
    <3>4. Pipe(out'[d], buf'[d], Leftover(d)', sock'[d], sent'[d])
      BY <3>1, <3>3 DEF Leftover, TypeOK
    <3>5. QED
      BY <3>1, <3>4, OneDirection DEF IndInv, Leftover, TypeOK
  <2>2. EndOfInput'
    BY <1>1 DEF IndInv, EndOfInput, PeerWrites, Leftover, TypeOK
  <2>3. MeterBounds' /\ RewindForgets' /\ ShutIsCopied'
    BY <1>1 DEF IndInv, PeerWrites, MeterBounds, RewindForgets, ShutIsCopied,
                Copied, BothDone
  <2>4. QED
    BY <2>1, <2>2, <2>3 DEF IndInv
<1>2. ASSUME NEW d \in Dirs, PeerCloses(d) PROVE IndInv'
  <2>1. InOrder' /\ MeterBounds' /\ RewindForgets' /\ ShutIsCopied'
    BY <1>2 DEF IndInv, PeerCloses, InOrder, MeterBounds, RewindForgets,
                ShutIsCopied, Leftover, Copied, BothDone
  <2>2. EndOfInput'
    BY <1>2 DEF IndInv, EndOfInput, PeerCloses, Leftover, TypeOK
  <2>3. QED
    BY <2>1, <2>2 DEF IndInv
<1>3. ASSUME NEW p \in Peers, PeerResets(p) \/ PeerStalls(p) PROVE IndInv'
  BY <1>3, FlowUnchanged DEF PeerResets, PeerStalls, flowVars
<1>5. ASSUME NEW n \in 0 .. Len(sock["up"]), Call(n) PROVE IndInv'
  <2> DEFINE leftover == SubSeq(sock["up"], 1, n)
             rest == SubSeq(sock["up"], n + 1, Len(sock["up"]))
  <2>1. sock["up"] \in Seq(Nat) /\ "up" \in Dirs
    BY DEF TypeOK, Dirs
  <2>2. /\ leftover \in Seq(Nat) /\ rest \in Seq(Nat)
        /\ leftover \o rest = sock["up"]
    BY <2>1, Cut
  <2>3. /\ rewind' = [some |-> leftover # <<>>, bytes |-> leftover]
        /\ sock' = [sock EXCEPT !["up"] = rest]
        /\ UNCHANGED <<stats, sent, eof, buf, read_done, out, shut>>
        /\ pc' = "dialing"
    BY <1>5 DEF Call, Rewind_new
  <2>4. rewind.bytes = <<>>
    BY <1>5 DEF IndInv, RewindForgets, Call
  <2> HIDE DEF leftover, rest
  <2>5. InOrder'
    <3>1. Pipe(out["up"], buf["up"], <<>>, leftover \o rest, sent["up"])
      BY <2>1, <2>2, <2>4, InOrderIsPipe DEF IndInv, Leftover
    <3>2. Pipe(out["up"], buf["up"], leftover, rest, sent["up"])
      BY <2>1, <2>2, <3>1, StageTypes, PipeCall
    <3>3. Pipe(out'["up"], buf'["up"], Leftover("up")', sock'["up"], sent'["up"])
      BY <2>1, <2>3, <3>2 DEF Leftover, TypeOK
    <3>4. QED
      BY <2>1, <2>3, <3>3, OneDirection DEF IndInv, Leftover, TypeOK
  <2>6. EndOfInput'
    BY <2>2, <2>3, <2>4 DEF IndInv, EndOfInput, Leftover, TypeOK, Dirs
  <2>7. MeterBounds' /\ RewindForgets' /\ ShutIsCopied'
    BY <2>3 DEF IndInv, MeterBounds, RewindForgets, ShutIsCopied, Copied
  <2>8. QED
    BY <2>5, <2>6, <2>7 DEF IndInv
<1>6. CASE DialFail
  BY <1>6, PcStep DEF DialFail
<1>7. CASE NodelayFail
  BY <1>7, PcStep DEF NodelayFail
<1>8. ASSUME NEW addr \in Ips \cup {NoIp}, DialOk(addr) PROVE IndInv'
  <2>1. stats'.ingress = stats.ingress /\ stats'.egress = stats.egress
    BY <1>8 DEF DialOk, add_connection, observe_ip, TypeOK, EndpointStats
  <2>2. QED
    BY <1>8, <2>1, PcStep DEF DialOk
<1>9. CASE Accept
  BY <1>9, PcStep DEF Accept
<1>10. CASE AcceptFail
  BY <1>10, PcStep DEF AcceptFail
<1>11. CASE FillFromPrefix
  <2> DEFINE chunk == Taken(rewind.bytes, Space("up"))
             rest == Rest(rewind.bytes, Space("up"))
  <2>1. /\ "up" \in Dirs
        /\ rewind.bytes \in Seq(Nat) /\ rewind.bytes # <<>>
        /\ Space("up") \in Nat /\ Space("up") > 0
    BY <1>11, BoundsAssumption
       DEF FillFromPrefix, Reading, Space, Dirs, TypeOK, IndInv, RewindForgets
  <2>2. /\ chunk \in Seq(Nat) /\ rest \in Seq(Nat)
        /\ chunk \o rest = rewind.bytes
        /\ Len(chunk) > 0
    BY <2>1, TakenRest
  <2>3. /\ rewind' = [some |-> rest # <<>>, bytes |-> rest]
        /\ buf' = [buf EXCEPT !["up"] = @ \o chunk]
        /\ read_done' = [read_done EXCEPT !["up"] = (chunk = <<>>)]
        /\ stats' = [stats EXCEPT !.egress = @ + Len(chunk)]
        /\ UNCHANGED <<pc, out, shut, sent, eof, sock>>
        /\ ~read_done["up"] /\ pc = "splice"
    BY <1>11 DEF FillFromPrefix, Reading, Rewind_advance, on_read, add_egress
  <2> HIDE DEF chunk, rest
  <2>4. read_done' = read_done
    BY <2>2, <2>3 DEF TypeOK, Dirs
  <2>5. InOrder'
    <3>1. Pipe(out["up"], buf["up"], chunk \o rest, sock["up"], sent["up"])
      BY <2>1, <2>2, InOrderIsPipe DEF IndInv, Leftover
    <3>2. Pipe(out["up"], buf["up"] \o chunk, rest, sock["up"], sent["up"])
      BY <2>1, <2>2, <3>1, StageTypes, PipeFromPrefix
    <3>3. Pipe(out'["up"], buf'["up"], Leftover("up")', sock'["up"], sent'["up"])
      BY <2>1, <2>3, <3>2 DEF Leftover, TypeOK
    <3>4. QED
      BY <2>1, <2>3, <3>3, OneDirection DEF IndInv, Leftover, TypeOK
  <2>6. MeterBounds'
    BY <2>2, <2>3 DEF IndInv, MeterBounds, TypeOK, Dirs, EndpointStats
  <2>7. EndOfInput'
    BY <2>3, <2>4 DEF IndInv, EndOfInput, Leftover, TypeOK, Dirs
  <2>8. ShutIsCopied' /\ RewindForgets'
    BY <2>3, <2>4 DEF IndInv, ShutIsCopied, RewindForgets, Copied, BothDone, TypeOK, Dirs
  <2>9. QED
    BY <2>5, <2>6, <2>7, <2>8 DEF IndInv
<1>12. ASSUME NEW d \in Dirs, Fill(d) PROVE IndInv'
  <2> DEFINE chunk == Taken(sock[d], Space(d))
             rest == Rest(sock[d], Space(d))
  <2>1. /\ sock[d] \in Seq(Nat) /\ sock[d] # <<>> /\ Leftover(d) = <<>>
        /\ Space(d) \in Nat /\ Space(d) > 0
    BY <1>12, BoundsAssumption
       DEF Fill, Reading, Space, TypeOK, IndInv, RewindForgets, Leftover
  <2>2. /\ chunk \in Seq(Nat) /\ rest \in Seq(Nat)
        /\ chunk \o rest = sock[d]
    BY <2>1, TakenRest
  <2>3. /\ sock' = [sock EXCEPT ![d] = rest]
        /\ buf' = [buf EXCEPT ![d] = @ \o chunk]
        /\ stats' = IF d = "up" THEN [stats EXCEPT !.egress = @ + Len(chunk)]
                                ELSE stats
        /\ UNCHANGED <<pc, rewind, read_done, out, shut, sent, eof>>
        /\ ~read_done[d]
    BY <1>12 DEF Fill, Reading, on_read, add_egress
  <2> HIDE DEF chunk, rest
  <2>4. InOrder'
    <3>1. Pipe(out[d], buf[d], <<>>, chunk \o rest, sent[d])
      BY <2>1, <2>2, InOrderIsPipe DEF IndInv
    <3>2. Pipe(out[d], buf[d] \o chunk, <<>>, rest, sent[d])
      BY <2>2, <3>1, StageTypes, PipeFill
    <3>3. Pipe(out'[d], buf'[d], Leftover(d)', sock'[d], sent'[d])
      BY <2>1, <2>3, <3>2 DEF Leftover, TypeOK
    <3>4. QED
      BY <2>3, <3>3, OneDirection DEF IndInv, Leftover, TypeOK
  <2>5. MeterBounds'
    <3>1. CASE d = "up"
      BY <2>2, <2>3, <3>1 DEF IndInv, MeterBounds, TypeOK, Dirs, EndpointStats
    <3>2. CASE d = "down"
      BY <2>2, <2>3, <3>2 DEF IndInv, MeterBounds, TypeOK, Dirs, EndpointStats
    <3>3. QED
      BY <3>1, <3>2 DEF Dirs
  <2>6. EndOfInput'
    BY <2>3 DEF IndInv, EndOfInput, Leftover, TypeOK
  <2>7. ShutIsCopied' /\ RewindForgets'
    BY <2>3 DEF IndInv, ShutIsCopied, RewindForgets, Copied, BothDone, TypeOK
  <2>8. QED
    BY <2>4, <2>5, <2>6, <2>7 DEF IndInv
<1>13. ASSUME NEW d \in Dirs, ReadEof(d) PROVE IndInv'
  <2>1. Leftover(d) = <<>> /\ sock[d] = <<>> /\ eof[d] /\ pc = "splice"
    BY <1>13 DEF ReadEof, Reading, IndInv, RewindForgets, Leftover
  <2>2. EndOfInput'
    BY <1>13, <2>1 DEF ReadEof, IndInv, EndOfInput, Leftover, TypeOK
  <2>3. ShutIsCopied'
    BY <1>13, <2>1 DEF ReadEof, IndInv, ShutIsCopied, Copied, TypeOK
  <2>4. InOrder' /\ MeterBounds' /\ RewindForgets'
    BY <1>13 DEF ReadEof, IndInv, InOrder, MeterBounds, RewindForgets, Leftover
  <2>5. QED
    BY <2>2, <2>3, <2>4 DEF IndInv
<1>14. ASSUME NEW d \in Dirs, Write(d) PROVE IndInv'
  <2>1. PICK n \in 1 .. Len(buf[d]) :
          /\ out' = [out EXCEPT ![d] = @ \o SubSeq(buf[d], 1, n)]
          /\ buf' = [buf EXCEPT ![d] = SubSeq(@, n + 1, Len(@))]
          /\ stats' = IF d = "down" THEN on_write(stats, "Client", n) ELSE stats
    BY <1>14 DEF Write
  <2> DEFINE chunk == SubSeq(buf[d], 1, n)
             rest == SubSeq(buf[d], n + 1, Len(buf[d]))
  <2>2. /\ chunk \in Seq(Nat) /\ rest \in Seq(Nat)
        /\ chunk \o rest = buf[d]
        /\ Len(chunk) = n /\ Len(rest) = Len(buf[d]) - n
        /\ buf[d] # <<>>
    <3>1. buf[d] \in Seq(Nat) /\ n \in 0 .. Len(buf[d]) /\ buf[d] # <<>>
      BY DEF TypeOK
    <3>2. QED
      BY <3>1, Cut
  <2>3. /\ out' = [out EXCEPT ![d] = @ \o chunk]
        /\ buf' = [buf EXCEPT ![d] = rest]
        /\ stats' = IF d = "down" THEN [stats EXCEPT !.ingress = @ + n] ELSE stats
        /\ UNCHANGED <<pc, rewind, read_done, sock, shut, sent, eof>>
        /\ pc = "splice"
    BY <1>14, <2>1 DEF Write, on_write, add_ingress
  <2> HIDE DEF chunk, rest
  <2>4. InOrder'
    <3>1. Pipe(out[d], chunk \o rest, Leftover(d), sock[d], sent[d])
      BY <2>2, InOrderIsPipe DEF IndInv
    <3>2. Pipe(out[d] \o chunk, rest, Leftover(d), sock[d], sent[d])
      BY <2>2, <3>1, StageTypes, PipeWrite
    <3>3. Pipe(out'[d], buf'[d], Leftover(d)', sock'[d], sent'[d])
      BY <2>3, <3>2 DEF Leftover, TypeOK
    <3>4. QED
      BY <2>3, <3>3, OneDirection DEF IndInv, Leftover, TypeOK
  <2>5. MeterBounds'
    <3>1. out[d] \in Seq(Nat) /\ buf[d] \in Seq(Nat)
      BY DEF TypeOK
    <3>2. Len(out[d]) \in Nat /\ Len(buf[d]) \in Nat /\ n \in Nat
      BY <3>1
    <3>3. Len(out[d] \o chunk) = Len(out[d]) + n
      BY <2>2, <3>1, ConcatProperties
    <3>4. Len(out'[d]) = Len(out[d]) + n /\ Len(buf'[d]) = Len(buf[d]) - n
      BY <2>2, <2>3, <3>3 DEF TypeOK
    <3>5. Len(out'[d]) + Len(buf'[d]) = Len(out[d]) + Len(buf[d])
      <4> DEFINE written == Len(out[d])
                 buffered == Len(buf[d])
      <4>1. /\ written \in Nat /\ buffered \in Nat /\ n \in Nat
            /\ Len(out'[d]) = written + n /\ Len(buf'[d]) = buffered - n
        BY <3>2, <3>4
      <4> HIDE DEF written, buffered
      <4>2. Len(out'[d]) + Len(buf'[d]) = written + buffered
        BY <4>1
      <4>3. QED
        BY <4>2 DEF written, buffered
    <3>6. /\ stats.egress = Len(out["up"]) + Len(buf["up"])
          /\ stats.ingress = Len(out["down"])
      BY DEF IndInv, MeterBounds
    <3>7. CASE d = "up"
      <4>1. stats' = stats /\ out'["down"] = out["down"]
        BY <2>3, <3>7 DEF TypeOK, Dirs
      <4>2. QED
        BY <3>5, <3>6, <3>7, <4>1 DEF MeterBounds
    <3>8. CASE d = "down"
      <4>1. /\ stats'.ingress = stats.ingress + n /\ stats'.egress = stats.egress
            /\ out'["up"] = out["up"] /\ buf'["up"] = buf["up"]
        BY <2>3, <3>8 DEF TypeOK, Dirs, EndpointStats
      <4>2. QED
        BY <3>4, <3>6, <3>8, <4>1 DEF MeterBounds
    <3>9. QED
      BY <3>7, <3>8 DEF Dirs
  <2>6. ShutIsCopied'
    BY <2>2, <2>3 DEF IndInv, ShutIsCopied, Copied, TypeOK
  <2>7. EndOfInput' /\ RewindForgets'
    BY <2>3 DEF IndInv, EndOfInput, RewindForgets, Leftover
  <2>8. QED
    BY <2>4, <2>5, <2>6, <2>7 DEF IndInv
<1>15. ASSUME NEW d \in Dirs, Shutdown(d) PROVE IndInv'
  <2>1. ShutIsCopied'
    BY <1>15 DEF Shutdown, IndInv, ShutIsCopied, Copied, TypeOK
  <2>2. InOrder' /\ MeterBounds' /\ RewindForgets' /\ EndOfInput'
    BY <1>15 DEF Shutdown, IndInv, InOrder, MeterBounds, RewindForgets,
                 EndOfInput, Leftover
  <2>3. QED
    BY <2>1, <2>2 DEF IndInv
<1>16. ASSUME NEW d \in Dirs, CopyFail(d) PROVE IndInv'
  BY <1>16, PcStep DEF CopyFail
<1>17. CASE Finish
  <2>1. ShutIsCopied'
    BY <1>17 DEF Finish, IndInv, ShutIsCopied, Copied, BothDone
  <2>2. InOrder' /\ MeterBounds' /\ RewindForgets' /\ EndOfInput'
    BY <1>17 DEF Finish, IndInv, InOrder, MeterBounds, RewindForgets,
                 EndOfInput, Leftover
  <2>3. QED
    BY <2>1, <2>2 DEF IndInv
<1>18. CASE UNCHANGED vars
  BY <1>18, FlowUnchanged DEF vars, flowVars
<1>19. QED
  BY <1>1, <1>2, <1>3, <1>5, <1>6, <1>7, <1>8, <1>9, <1>10, <1>11, <1>12,
     <1>13, <1>14, <1>15, <1>16, <1>17, <1>18
     DEF Next, Dial, Copy, Terminated

LEMMA IndInvCorrect == Spec => []IndInv
<1>1. Init => IndInv
  BY InitIndInv
<1>2. IndInv /\ [Next]_vars => IndInv'
  BY NextIndInv
<1>3. QED
  BY <1>1, <1>2, PTL DEF Spec

-----------------------------------------------------------------------------
(* The safety properties of Tunnel.                                         *)

\* A direction whose copy is done has passed on everything it was sent.
LEMMA CopiedAll ==
    ASSUME IndInv, NEW d \in Dirs, Copied(d)
    PROVE  eof[d] /\ out[d] = sent[d]
<1>1. read_done[d] /\ buf[d] = <<>>
  BY DEF Copied
<1>2. eof[d] /\ Leftover(d) \o sock[d] = <<>>
  BY <1>1 DEF IndInv, EndOfInput
<1>3. /\ out[d] \in Seq(Nat) /\ Leftover(d) \in Seq(Nat) /\ sock[d] \in Seq(Nat)
  BY StageTypes DEF IndInv
<1>4. Leftover(d) = <<>> /\ sock[d] = <<>>
  BY <1>2, <1>3, ConcatEqualIffEmpty
<1>5. out[d] \o <<>> \o <<>> \o <<>> = sent[d]
  BY <1>1, <1>4 DEF IndInv, InOrder
<1>6. out[d] \o <<>> = out[d]
  BY <1>3, ConcatEmptySeq
<1>7. QED
  BY <1>2, <1>5, <1>6

LEMMA IndInvHalfClose == IndInv => HalfClose
  BY CopiedAll DEF IndInv, ShutIsCopied, HalfClose

LEMMA IndInvExact == IndInv => ExactOnCleanClose
<1> SUFFICES ASSUME IndInv, pc = "ok"
             PROVE  /\ stats.egress = Len(sent["up"])
                    /\ stats.ingress = Len(sent["down"])
                    /\ out = sent
  BY DEF ExactOnCleanClose
<1>1. \A d \in Dirs : shut[d]
  BY DEF IndInv, ShutIsCopied, BothDone
<1>2. \A d \in Dirs : out[d] = sent[d]
  BY <1>1, IndInvHalfClose DEF HalfClose
<1>3. out = sent
  BY <1>2 DEF IndInv, TypeOK
<1>4. buf["up"] = <<>>
  BY <1>1 DEF IndInv, ShutIsCopied, Copied, Dirs
<1>5. stats.egress = Len(out["up"]) /\ stats.ingress = Len(out["down"])
  <2> DEFINE written == Len(out["up"])
  <2>1. stats.egress = written + 0
    BY <1>4 DEF IndInv, MeterBounds
  <2>2. written \in Nat
    BY DEF IndInv, TypeOK, Dirs
  <2> HIDE DEF written
  <2>3. stats.egress = written
    BY <2>1, <2>2
  <2>4. QED
    BY <2>3 DEF written, IndInv, MeterBounds
<1>6. QED
  BY <1>3, <1>5

\* No byte is lost, repeated or reordered on its way through the prefix, the
\* copy buffer and the socket, for any traffic and any buffer size.
THEOREM TunnelInOrder == Spec => []InOrder
<1>1. IndInv => InOrder
  BY DEF IndInv
<1>2. QED
  BY <1>1, IndInvCorrect, PTL

\* A direction that has seen its end of stream has read everything its peer sent
\* and the leftover too: an empty prefix is never mistaken for an end (io.rs:210).
THEOREM TunnelEndOfInput == Spec => []EndOfInput
<1>1. IndInv => EndOfInput
  BY DEF IndInv
<1>2. QED
  BY <1>1, IndInvCorrect, PTL

\* The counters are off from what was delivered by at most what is buffered.
THEOREM TunnelMeterBounds == Spec => []MeterBounds
<1>1. IndInv => MeterBounds
  BY DEF IndInv
<1>2. QED
  BY <1>1, IndInvCorrect, PTL

\* An end of stream is passed on only after the last byte.
THEOREM TunnelHalfClose == Spec => []HalfClose
<1>1. IndInv => HalfClose
  BY IndInvHalfClose
<1>2. QED
  BY <1>1, IndInvCorrect, PTL

\* A tunnel that ends well has counted exactly what each peer sent.
THEOREM TunnelExactOnCleanClose == Spec => []ExactOnCleanClose
<1>1. IndInv => ExactOnCleanClose
  BY IndInvExact
<1>2. QED
  BY <1>1, IndInvCorrect, PTL

-----------------------------------------------------------------------------
(* Each direction implements ByteStream.  A step of the tunnel does one of   *)
(* five things to a direction; the counters follow from MeterBounds before   *)
(* and after the step.                                                       *)

Sends(d) == /\ ~eof[d]
            /\ sent'[d] = Append(sent[d], Len(sent[d]) + 1)
            /\ eof'[d] = eof[d] /\ out'[d] = out[d] /\ shut'[d] = shut[d]
            /\ Len(buf'[d]) = Len(buf[d])

Closes(d) == /\ eof'[d] = TRUE
             /\ sent'[d] = sent[d] /\ out'[d] = out[d] /\ shut'[d] = shut[d]
             /\ Len(buf'[d]) = Len(buf[d])

TakesIn(d) == /\ sent'[d] = sent[d] /\ eof'[d] = eof[d]
              /\ out'[d] = out[d] /\ shut'[d] = shut[d]
              /\ Len(buf'[d]) >= Len(buf[d])

HandsOn(d) == /\ sent'[d] = sent[d] /\ eof'[d] = eof[d] /\ shut'[d] = shut[d]
              /\ Len(out'[d]) > Len(out[d])
              /\ Len(out'[d]) + Len(buf'[d]) = Len(out[d]) + Len(buf[d])

Ends(d) == /\ eof[d] /\ out[d] = sent[d] /\ Len(buf[d]) = 0
           /\ shut'[d] = TRUE
           /\ sent'[d] = sent[d] /\ eof'[d] = eof[d] /\ out'[d] = out[d]
           /\ Len(buf'[d]) = Len(buf[d])

DirStep(d) == Sends(d) \/ Closes(d) \/ TakesIn(d) \/ HandsOn(d) \/ Ends(d)

LEMMA Longer ==
    ASSUME NEW s \in Seq(Nat), NEW t \in Seq(Nat)
    PROVE  Len(s \o t) >= Len(s)
<1>1. Len(s \o t) = Len(s) + Len(t) /\ Len(s) \in Nat /\ Len(t) \in Nat
  BY ConcatProperties
<1>2. QED
  BY <1>1

\* A step that leaves the streams alone.
LEMMA DirStays ==
    ASSUME TypeOK, NEW d \in Dirs, sent'[d] = sent[d], eof'[d] = eof[d],
           out'[d] = out[d], shut'[d] = shut[d], buf'[d] = buf[d]
    PROVE  DirStep(d)
<1>1. Len(buf[d]) \in Nat
  BY DEF TypeOK
<1>2. QED
  BY <1>1 DEF DirStep, TakesIn

LEMMA NextDirStep ==
    ASSUME IndInv, [Next]_vars, NEW d \in Dirs
    PROVE  DirStep(d)
<1>0. TypeOK
  BY DEF IndInv
<1>1. ASSUME NEW e \in Dirs, PeerWrites(e) PROVE DirStep(d)
  <2>1. CASE e = d
    BY <1>0, <1>1, <2>1 DEF PeerWrites, copyVars, TypeOK, DirStep, Sends
  <2>2. CASE e # d
    BY <1>0, <1>1, <2>2, DirStays DEF PeerWrites, copyVars, TypeOK
  <2>3. QED
    BY <2>1, <2>2
<1>2. ASSUME NEW e \in Dirs, PeerCloses(e) PROVE DirStep(d)
  <2>1. CASE e = d
    BY <1>0, <1>2, <2>1 DEF PeerCloses, copyVars, TypeOK, DirStep, Closes
  <2>2. CASE e # d
    BY <1>0, <1>2, <2>2, DirStays DEF PeerCloses, copyVars, TypeOK
  <2>3. QED
    BY <2>1, <2>2
<1>3. CASE \/ \E p \in Peers : PeerResets(p) \/ PeerStalls(p)
           \/ \E n \in 0 .. Len(sock["up"]) : Call(n)
           \/ Dial \/ Accept \/ AcceptFail \/ Finish \/ Terminated
           \/ \E e \in Dirs : ReadEof(e) \/ CopyFail(e)
           \/ UNCHANGED vars
  <2>1. UNCHANGED <<sent, eof, out, shut, buf>>
    BY <1>3
       DEF PeerResets, PeerStalls, Call, Dial, DialFail, NodelayFail, DialOk, Accept,
           AcceptFail, Finish, Terminated, ReadEof, CopyFail, vars, copyVars, peerVars
  <2>2. QED
    BY <1>0, <2>1, DirStays
<1>4. CASE FillFromPrefix
  <2>1. /\ UNCHANGED <<sent, eof, out, shut>>
        /\ buf' = [buf EXCEPT !["up"] = @ \o Taken(rewind.bytes, Space("up"))]
    BY <1>4 DEF FillFromPrefix, peerVars
  <2>2. CASE d = "up"
    <3>1. Taken(rewind.bytes, Space("up")) \in Seq(Nat)
      <4>1. rewind.bytes \in Seq(Nat) /\ Space("up") \in Nat
        BY <1>0, BoundsAssumption DEF TypeOK, Space, Dirs
      <4>2. QED
        BY <4>1, TakenRest
    <3>2. buf[d] \in Seq(Nat) /\ buf'[d] = buf[d] \o Taken(rewind.bytes, Space("up"))
      BY <1>0, <2>1, <2>2 DEF TypeOK
    <3>3. Len(buf'[d]) >= Len(buf[d])
      BY <3>1, <3>2, Longer
    <3>4. QED
      BY <2>1, <3>3 DEF DirStep, TakesIn
  <2>3. CASE d # "up"
    BY <1>0, <2>1, <2>3, DirStays DEF TypeOK
  <2>4. QED
    BY <2>2, <2>3
<1>5. ASSUME NEW e \in Dirs, Fill(e) PROVE DirStep(d)
  <2>1. /\ UNCHANGED <<sent, eof, out, shut>>
        /\ buf' = [buf EXCEPT ![e] = @ \o Taken(sock[e], Space(e))]
    BY <1>5 DEF Fill, peerVars
  <2>2. CASE d = e
    <3>1. Taken(sock[e], Space(e)) \in Seq(Nat)
      <4>1. sock[e] \in Seq(Nat) /\ Space(e) \in Nat
        BY <1>0, BoundsAssumption DEF TypeOK, Space
      <4>2. QED
        BY <4>1, TakenRest
    <3>2. buf[d] \in Seq(Nat) /\ buf'[d] = buf[d] \o Taken(sock[e], Space(e))
      BY <1>0, <2>1, <2>2 DEF TypeOK
    <3>3. Len(buf'[d]) >= Len(buf[d])
      BY <3>1, <3>2, Longer
    <3>4. QED
      BY <2>1, <3>3 DEF DirStep, TakesIn
  <2>3. CASE d # e
    BY <1>0, <2>1, <2>3, DirStays DEF TypeOK
  <2>4. QED
    BY <2>2, <2>3
<1>6. ASSUME NEW e \in Dirs, Write(e) PROVE DirStep(d)
  <2>1. UNCHANGED <<sent, eof, shut>>
    BY <1>6 DEF Write, peerVars
  <2>2. PICK n \in 1 .. Len(buf[e]) :
          /\ out' = [out EXCEPT ![e] = @ \o SubSeq(buf[e], 1, n)]
          /\ buf' = [buf EXCEPT ![e] = SubSeq(@, n + 1, Len(@))]
    BY <1>6 DEF Write
  <2>3. CASE d = e
    <3>1. buf[d] \in Seq(Nat) /\ out[d] \in Seq(Nat) /\ n \in 0 .. Len(buf[d])
      BY <1>0, <2>3 DEF TypeOK
    <3>2. /\ out'[d] = out[d] \o SubSeq(buf[d], 1, n)
          /\ buf'[d] = SubSeq(buf[d], n + 1, Len(buf[d]))
      BY <1>0, <2>2, <2>3 DEF TypeOK
    <3>3. /\ SubSeq(buf[d], 1, n) \in Seq(Nat) /\ Len(SubSeq(buf[d], 1, n)) = n
          /\ Len(SubSeq(buf[d], n + 1, Len(buf[d]))) = Len(buf[d]) - n
      BY <3>1, Cut
    <3>4. Len(out'[d]) = Len(out[d]) + n
      BY <3>1, <3>2, <3>3, ConcatProperties
    <3>5. Len(out[d]) \in Nat /\ Len(buf[d]) \in Nat
      BY <3>1
    <3>6. Len(out'[d]) > Len(out[d]) /\ Len(out'[d]) + Len(buf'[d]) = Len(out[d]) + Len(buf[d])
      <4>1. PICK x \in Nat, y \in Nat : x = Len(out[d]) /\ y = Len(buf[d])
        BY <3>5
      <4>2. Len(out'[d]) = x + n /\ Len(buf'[d]) = y - n /\ n \in 1 .. y
        BY <2>3, <3>2, <3>3, <3>4, <4>1
      <4>3. x + n > x /\ (x + n) + (y - n) = x + y
        BY <4>2
      <4>4. QED
        BY <4>1, <4>2, <4>3
    <3>7. QED
      BY <2>1, <3>6 DEF DirStep, HandsOn
  <2>4. CASE d # e
    BY <1>0, <2>1, <2>2, <2>4, DirStays DEF TypeOK
  <2>5. QED
    BY <2>3, <2>4
<1>7. ASSUME NEW e \in Dirs, Shutdown(e) PROVE DirStep(d)
  <2>1. /\ UNCHANGED <<sent, eof, out, buf>> /\ Copied(e)
        /\ shut' = [shut EXCEPT ![e] = TRUE]
    BY <1>7 DEF Shutdown, peerVars
  <2>2. CASE d = e
    <3>1. eof[d] /\ out[d] = sent[d]
      BY <2>1, <2>2, CopiedAll
    <3>2. Len(buf[d]) = 0
      BY <2>1, <2>2 DEF Copied
    <3>3. shut'[d] = TRUE
      BY <1>0, <2>1, <2>2 DEF TypeOK
    <3>4. QED
      BY <2>1, <3>1, <3>2, <3>3 DEF DirStep, Ends
  <2>3. CASE d # e
    BY <1>0, <2>1, <2>3, DirStays DEF TypeOK
  <2>4. QED
    BY <2>2, <2>3
<1>8. QED
  BY <1>1, <1>2, <1>3, <1>4, <1>5, <1>6, <1>7 DEF Next, Copy

\* What was written out is a prefix of what was sent, and there is room in it
\* for what is buffered.
LEMMA PipePrefix ==
    ASSUME NEW o \in Seq(Nat), NEW b \in Seq(Nat), NEW l \in Seq(Nat),
           NEW k \in Seq(Nat), NEW s, Pipe(o, b, l, k, s)
    PROVE  /\ o = SubSeq(s, 1, Len(o))
           /\ Len(o) + Len(b) <= Len(s)
           /\ Len(s) \in Nat /\ Len(o) \in Nat /\ Len(b) \in Nat
<1>0. o \o b \o l \o k = o \o (b \o (l \o k))
  <2>1. ASSUME NEW x \in Seq(Nat) PROVE (o \o b) \o x = o \o (b \o x)
    BY Regrouped
  <2>2. ASSUME NEW x \in Seq(Nat) PROVE (x \o l) \o k = x \o (l \o k)
    BY Regrouped
  <2>3. o \o b \in Seq(Nat) /\ l \o k \in Seq(Nat)
    BY Joined
  <2>4. ((o \o b) \o l) \o k = (o \o b) \o (l \o k)
    BY <2>2, <2>3
  <2>5. (o \o b) \o (l \o k) = o \o (b \o (l \o k))
    BY <2>1, <2>3
  <2>6. QED
    BY <2>4, <2>5
<1>1. PICK back \in Seq(Nat) : back = l \o k
  BY Joined
<1>2. PICK r \in Seq(Nat) : r = b \o back
  BY Joined
<1>3. s = o \o r
  BY <1>0, <1>1, <1>2 DEF Pipe
<1>4. Len(s) = Len(o) + Len(r) /\ Len(r) = Len(b) + Len(back)
  BY <1>2, <1>3, ConcatProperties
<1>5. Len(o) \in Nat /\ Len(b) \in Nat /\ Len(back) \in Nat
  OBVIOUS
<1>6. Len(o) + Len(b) <= Len(s) /\ Len(s) \in Nat
  BY <1>4, <1>5
<1>7. o = SubSeq(s, 1, Len(o))
  <2>1. CASE o = <<>>
    BY <2>1, SubSeqEmpty
  <2>2. CASE o # <<>>
    <3>1. 1 \in 1 .. Len(o) /\ Len(o) \in 1 .. Len(o)
      BY <2>2
    <3>2. SubSeq(o \o r, 1, Len(o)) = SubSeq(o, 1, Len(o))
      BY <3>1, SubSeqOfConcat1
    <3>3. SubSeq(o, 1, Len(o)) = o
      BY SubSeqFull
    <3>4. QED
      BY <1>3, <3>2, <3>3
  <2>3. QED
    BY <2>1, <2>2
<1>8. QED
  BY <1>5, <1>6, <1>7

LEMMA Lengths ==
    ASSUME IndInv, IndInv', NEW d \in Dirs
    PROVE  /\ Len(out[d]) \in Nat /\ Len(buf[d]) \in Nat /\ Len(sent[d]) \in Nat
           /\ Len(out[d]) + Len(buf[d]) <= Len(sent[d])
           /\ out'[d] = SubSeq(sent'[d], 1, Len(out'[d]))
           /\ Len(out'[d]) \in Nat /\ Len(buf'[d]) \in Nat /\ Len(sent'[d]) \in Nat
           /\ Len(out'[d]) + Len(buf'[d]) <= Len(sent'[d])
<1>1. /\ Pipe(out[d], buf[d], Leftover(d), sock[d], sent[d])
      /\ Pipe(out'[d], buf'[d], Leftover(d)', sock'[d], sent'[d])
  BY InOrderIsPipe DEF IndInv
<1>2. /\ out[d] \in Seq(Nat) /\ buf[d] \in Seq(Nat)
      /\ Leftover(d) \in Seq(Nat) /\ sock[d] \in Seq(Nat)
      /\ out'[d] \in Seq(Nat) /\ buf'[d] \in Seq(Nat)
      /\ Leftover(d)' \in Seq(Nat) /\ sock'[d] \in Seq(Nat)
  BY DEF IndInv, TypeOK, Leftover
<1>3. QED
  BY <1>1, <1>2, PipePrefix

LEMMA UpStep ==
    ASSUME IndInv, IndInv', [Next]_vars
    PROVE  [Up!Next]_(Up!vars)
<1>1. "up" \in Dirs /\ DirStep("up")
  BY NextDirStep DEF Dirs
<1>2. /\ Len(out["up"]) \in Nat /\ Len(buf["up"]) \in Nat /\ Len(sent["up"]) \in Nat
      /\ Len(out["up"]) + Len(buf["up"]) <= Len(sent["up"])
      /\ out'["up"] = SubSeq(sent'["up"], 1, Len(out'["up"]))
      /\ Len(out'["up"]) \in Nat /\ Len(buf'["up"]) \in Nat /\ Len(sent'["up"]) \in Nat
      /\ Len(out'["up"]) + Len(buf'["up"]) <= Len(sent'["up"])
  BY <1>1, Lengths
<1>3. /\ stats.egress = Len(out["up"]) + Len(buf["up"])
      /\ stats'.egress = Len(out'["up"]) + Len(buf'["up"])
  BY DEF IndInv, MeterBounds
<1>4. CASE Sends("up")
  BY <1>2, <1>3, <1>4 DEF Sends, Up!Next, Up!Send
<1>5. CASE Closes("up")
  BY <1>2, <1>3, <1>5 DEF Closes, Up!Next, Up!Close
<1>6. CASE TakesIn("up")
  <2>1. CASE Len(buf'["up"]) = Len(buf["up"])
    BY <1>2, <1>3, <1>6, <2>1 DEF TakesIn, Up!vars
  <2>2. CASE Len(buf'["up"]) # Len(buf["up"])
    <3>1. PICK x \in Nat, y \in Nat, z \in Nat :
            x = Len(out["up"]) /\ y = Len(buf["up"]) /\ z = Len(buf'["up"])
      BY <1>2
    <3>2. z > y /\ stats.egress = x + y /\ stats'.egress = x + z
      BY <1>3, <1>6, <2>2, <3>1 DEF TakesIn
    <3>3. x + z <= Len(sent["up"])
      BY <1>2, <1>6, <3>1 DEF TakesIn
    <3>4. stats'.egress \in (stats.egress + 1) .. Len(sent["up"])
      BY <1>2, <3>2, <3>3
    <3>5. QED
      BY <1>6, <3>4 DEF TakesIn, Up!Next, Up!Count
  <2>3. QED
    BY <2>1, <2>2
<1>7. CASE HandsOn("up")
  <2>1. PICK n \in (Len(out["up"]) + 1) .. Len(sent["up"]) : n = Len(out'["up"])
    <3>1. PICK x \in Nat, m \in Nat, z \in Nat, w \in Nat :
            /\ x = Len(out["up"]) /\ m = Len(out'["up"])
            /\ z = Len(buf'["up"]) /\ w = Len(sent["up"])
      BY <1>2
    <3>2. m > x /\ m + z <= w
      BY <1>2, <1>7, <3>1 DEF HandsOn
    <3>3. m \in (x + 1) .. w
      BY <3>2
    <3>4. QED
      BY <3>1, <3>3
  <2>2. out'["up"] = SubSeq(sent["up"], 1, n)
    BY <1>2, <1>7, <2>1 DEF HandsOn
  <2>3. stats'.egress = IF stats.egress < n THEN n ELSE stats.egress
    <3>1. PICK x \in Nat, y \in Nat : x = Len(out["up"]) /\ y = Len(buf["up"])
      BY <1>2
    <3>2. PICK z \in Nat : z = Len(buf'["up"])
      BY <1>2
    <3>3. n + z = x + y /\ stats.egress = x + y /\ stats'.egress = n + z
      BY <1>3, <1>7, <2>1, <3>1, <3>2 DEF HandsOn
    <3>4. n \in Nat
      BY <1>2, <2>1
    <3>5. ~(x + y < n)
      BY <3>3, <3>4
    <3>6. QED
      BY <3>3, <3>5
  <2>4. Up!Deliver
    BY <1>7, <2>2, <2>3 DEF HandsOn, Up!Deliver
  <2>5. QED
    BY <2>4 DEF Up!Next
<1>8. CASE Ends("up")
  BY <1>2, <1>3, <1>8 DEF Ends, Up!Next, Up!End
<1>9. QED
  BY <1>1, <1>4, <1>5, <1>6, <1>7, <1>8 DEF DirStep

LEMMA DownStep ==
    ASSUME IndInv, IndInv', [Next]_vars
    PROVE  [Down!Next]_(Down!vars)
<1>1. "down" \in Dirs /\ DirStep("down")
  BY NextDirStep DEF Dirs
<1>2. /\ Len(out["down"]) \in Nat /\ Len(buf["down"]) \in Nat /\ Len(sent["down"]) \in Nat
      /\ Len(out["down"]) + Len(buf["down"]) <= Len(sent["down"])
      /\ out'["down"] = SubSeq(sent'["down"], 1, Len(out'["down"]))
      /\ Len(out'["down"]) \in Nat /\ Len(buf'["down"]) \in Nat /\ Len(sent'["down"]) \in Nat
      /\ Len(out'["down"]) + Len(buf'["down"]) <= Len(sent'["down"])
  BY <1>1, Lengths
<1>3. /\ stats.ingress = Len(out["down"])
      /\ stats'.ingress = Len(out'["down"])
  BY DEF IndInv, MeterBounds
<1>4. CASE Sends("down")
  BY <1>3, <1>4 DEF Sends, Down!Next, Down!Send
<1>5. CASE Closes("down")
  BY <1>3, <1>5 DEF Closes, Down!Next, Down!Close
<1>6. CASE TakesIn("down")
  BY <1>3, <1>6 DEF TakesIn, Down!vars
<1>7. CASE HandsOn("down")
  <2>1. PICK n \in (Len(out["down"]) + 1) .. Len(sent["down"]) : n = Len(out'["down"])
    <3>1. PICK x \in Nat, m \in Nat, z \in Nat, w \in Nat :
            /\ x = Len(out["down"]) /\ m = Len(out'["down"])
            /\ z = Len(buf'["down"]) /\ w = Len(sent["down"])
      BY <1>2
    <3>2. m > x /\ m + z <= w
      BY <1>2, <1>7, <3>1 DEF HandsOn
    <3>3. m \in (x + 1) .. w
      BY <3>2
    <3>4. QED
      BY <3>1, <3>3
  <2>2. out'["down"] = SubSeq(sent["down"], 1, n)
    BY <1>2, <1>7, <2>1 DEF HandsOn
  <2>3. stats'.ingress = IF stats.ingress < n THEN n ELSE stats.ingress
    BY <1>2, <1>3, <2>1
  <2>4. Down!Deliver
    BY <1>7, <2>2, <2>3 DEF HandsOn, Down!Deliver
  <2>5. QED
    BY <2>4 DEF Down!Next
<1>8. CASE Ends("down")
  BY <1>2, <1>3, <1>8 DEF Ends, Down!Next, Down!End
<1>9. QED
  BY <1>1, <1>4, <1>5, <1>6, <1>7, <1>8 DEF DirStep

\* From the client to the origin the tunnel is a metered byte stream, counted as
\* egress: everything Tunnel does is a step of ByteStream or invisible to it.
THEOREM TunnelUpIsByteStream == Spec => UpImplementsByteStream
<1>1. Init => Up!Init
  BY DEF Init, Up!Init, NewStats, Dirs
<1>2. IndInv /\ IndInv' /\ [Next]_vars => [Up!Next]_(Up!vars)
  BY UpStep
<1>3. QED
  BY <1>1, <1>2, IndInvCorrect, PTL DEF Spec, UpImplementsByteStream, Up!Spec

\* From the origin to the client likewise, counted as ingress.
THEOREM TunnelDownIsByteStream == Spec => DownImplementsByteStream
<1>1. Init => Down!Init
  BY DEF Init, Down!Init, NewStats, Dirs
<1>2. IndInv /\ IndInv' /\ [Next]_vars => [Down!Next]_(Down!vars)
  BY DownStep
<1>3. QED
  BY <1>1, <1>2, IndInvCorrect, PTL DEF Spec, DownImplementsByteStream, Down!Spec
=============================================================================
