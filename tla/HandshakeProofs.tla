--------------------------- MODULE HandshakeProofs --------------------------
(***************************************************************************)
(* Proofs about Handshake, for any requests, any payload behind them, any    *)
(* chunk and any limit: what a client is told, how much of its bytes is      *)
(* read, and what its connection comes to.                                   *)
(***************************************************************************)
EXTENDS Handshake, SequenceTheorems, WellFoundedInduction, TLAPS

-----------------------------------------------------------------------------
(* The inductive invariant.                                                 *)

IsSocks == request.proto = "socks"

Method(code) == [to |-> "method", code |-> code]
Reply(code)  == [to |-> "request", code |-> code]
Status(code) == [to |-> "http", code |-> code]

Typed ==
    /\ request \in Requests
    /\ arrived \in Nat /\ arrived <= Len(Stream)
    /\ taken \in Nat /\ taken <= arrived
    /\ closed \in {"no", "eof", "reset"}
    /\ pc \in Exact \cup Done \cup {"peek", "head", "dial", "bind", "open"}
    /\ want \in Bytes

\* The reads of socks::accept whose size is fixed.
Wants ==
    /\ pc = "greeting" => want = 2
    /\ pc = "header" => want = 4
    /\ pc = "domain_len" => want = 1
    /\ pc = "port" => want = 2

\* The first byte decides which of the two protocols is spoken.
Path ==
    /\ pc \in Exact \cup {"bind"} => IsSocks
    /\ pc = "head" => ~IsSocks
    /\ pc \in {"dial", "bind", "open"} =>
         outcome.kind \in {"tunnel", "relay"} /\ outcome.error = "none"

\* What a client has been told when its task is over: nothing, the method only, or
\* a refusal, behind the method if it got that far.
ToldAtEnd ==
    \/ /\ replies \in {<<>>, <<Method(METHOD_NONE)>>}
       /\ IsSocks /\ closed # "reset" => outcome.error \in {"Closed", "Socket"}
    \/ /\ IsSocks
       /\ \E code \in {REP_GENERAL_FAILURE, REP_CONNECTION_REFUSED,
                       REP_COMMAND_NOT_SUPPORTED, REP_ADDRESS_NOT_SUPPORTED} :
            /\ \/ replies = <<Reply(code)>>
               \/ \E m \in {METHOD_NONE, METHOD_UNACCEPTABLE} :
                    replies = <<Method(m), Reply(code)>>
            /\ outcome.kind = "error" => code = reply_code(outcome.error)
    \/ ~IsSocks /\ replies = <<Status(502)>>

\* What a client has been told, by where its task is.
Told ==
    /\ pc \in {"peek", "head", "greeting", "methods"} => replies = <<>>
    /\ pc \in {"header", "domain_len", "address", "port"} =>
         replies = <<Method(METHOD_NONE)>>
    /\ pc \in {"dial", "bind", "open"} =>
         replies = IF IsSocks THEN <<Method(METHOD_NONE)>> ELSE <<>>
    /\ pc = "serving" =>
         \/ ~IsSocks /\ replies = <<>>
         \/ /\ outcome.kind \in {"tunnel", "relay"}
            /\ replies = IF IsSocks THEN <<Method(METHOD_NONE), Reply(REP_SUCCESS)>>
                                    ELSE <<Status(200)>>
    /\ pc = "ended" => ToldAtEnd

\* A head that is still being read has not passed the limit.
Limit ==
    /\ pc = "peek" => taken = 0
    /\ pc = "head" => taken <= MAX_HEAD_BYTES
    /\ ~IsSocks => taken <= MAX_HEAD_BYTES + Chunk

IndInv == Typed /\ Wants /\ Path /\ Told /\ Limit

-----------------------------------------------------------------------------
(* The bytes of the client.                                                 *)

LEMMA StreamFacts ==
    ASSUME request \in Requests
    PROVE  /\ Stream \in Seq(Bytes)
           /\ Len(Stream) \in Nat /\ Len(Stream) >= 1
           /\ Stream[1] = VERSION <=> IsSocks
<1>1. PICK s \in Seq(Bytes) : s = Serialized(request) /\ s # <<>>
  BY RequestsAssumption
<1>2. IsSocks <=> s[1] = VERSION
  BY <1>1, RequestsAssumption DEF IsSocks
<1>3. Len(s) \in Nat /\ Len(s) >= 1
  BY <1>1, EmptySeq, LenProperties
<1>4. PICK p \in Seq(Bytes) : p = Payload
  BY RequestsAssumption
<1>5. /\ s \o p \in Seq(Bytes)
      /\ Len(s \o p) = Len(s) + Len(p)
      /\ (s \o p)[1] = s[1]
  BY <1>3, ConcatProperties
<1>6. Stream = s \o p
  BY <1>1, <1>4 DEF Stream
<1>7. Len(p) \in Nat
  BY LenProperties
<1>8. QED
  BY <1>2, <1>3, <1>5, <1>6, <1>7

\* What a complete read_exact reads.
LEMMA DataFacts ==
    ASSUME Typed, arrived - taken >= want
    PROVE  /\ Len(data) = want
           /\ \A k \in 1 .. want : data[k] = Stream[taken + k] /\ data[k] \in Bytes
<1>1. Stream \in Seq(Bytes) /\ Len(Stream) \in Nat
  BY StreamFacts DEF Typed
<1>2. PICK t \in Nat : t = taken
  BY DEF Typed
<1>3. PICK w \in Nat : w = want
  BY DEF Typed, Bytes
<1>4. t + w <= Len(Stream)
  BY <1>1, <1>2, <1>3 DEF Typed
<1>5. \A k \in t + 1 .. t + w : Stream[k] \in Bytes
  BY <1>1, <1>4
<1>6. /\ Len(SubSeq(Stream, t + 1, t + w)) = IF t + 1 <= t + w THEN t + w - (t + 1) + 1 ELSE 0
      /\ \A k \in 1 .. t + w - (t + 1) + 1 :
           SubSeq(Stream, t + 1, t + w)[k] = Stream[t + 1 + k - 1]
  BY <1>5, SubSeqProperties, t + 1 \in Int, t + w \in Int
<1>7. t + w - (t + 1) + 1 = w /\ \A k \in 1 .. w : t + 1 + k - 1 = t + k
  OBVIOUS
<1>8. Len(SubSeq(Stream, t + 1, t + w)) = w
  BY <1>6
<1>9. \A k \in 1 .. w : SubSeq(Stream, t + 1, t + w)[k] = Stream[t + k]
  BY <1>6, <1>7
<1>10. \A k \in 1 .. w : Stream[t + k] \in Bytes
  BY <1>5
<1>11. data = SubSeq(Stream, t + 1, t + w)
  BY <1>2, <1>3 DEF data
<1>12. QED
  BY <1>2, <1>3, <1>8, <1>9, <1>10, <1>11

\* The start of the stream that has been read.
LEMMA HeadLength ==
    ASSUME request \in Requests, NEW n \in Nat, n <= Len(Stream)
    PROVE  Len(SubSeq(Stream, 1, n)) = n
<1>1. Stream \in Seq(Bytes)
  BY StreamFacts
<1>2. \A k \in 1 .. n : Stream[k] \in Bytes
  BY <1>1
<1>3. Len(SubSeq(Stream, 1, n)) = IF 1 <= n THEN n - 1 + 1 ELSE 0
  BY <1>2, SubSeqProperties, 1 \in Int, n \in Int
<1>4. QED
  BY <1>3

\* The smaller of two.
LEMMA MinOfTwo ==
    ASSUME NEW m \in Nat, NEW n \in Nat
    PROVE  /\ Min({m, n}) \in {m, n}
           /\ Min({m, n}) <= m
           /\ Min({m, n}) <= n
<1>1. \E x \in {m, n} : \A y \in {m, n} : x <= y
  <2>1. CASE m <= n
    BY <2>1
  <2>2. CASE ~(m <= n)
    BY <2>2
  <2>3. QED
    BY <2>1, <2>2
<1>2. QED
  BY <1>1 DEF Min

\* What handle_connection makes of a head.
LEMMA DispatchCases ==
    ASSUME NEW head, Dispatch(head)
    PROVE  /\ want' = want
           /\ \/ pc' = "ended" /\ outcome' = Error("Malformed") /\ prefix' = prefix
              \/ /\ pc' = "dial"
                 /\ outcome'.kind = "tunnel" /\ outcome'.error = "none"
                 /\ prefix' = head_body(head)
              \/ pc' = "serving" /\ outcome' = To("http", Nowhere, 0) /\ prefix' = head
<1>1. PICK line \in {request_line(head)} :
        \/ ~line.ok /\ Ends("Malformed")
        \/ /\ line.ok /\ line.method \in CONNECT
           /\ \E dest \in {split_authority(line.target, 443)} :
                outcome' = To("tunnel", [Nowhere EXCEPT !.text = dest.host], dest.port)
           /\ pc' = "dial"
           /\ prefix' = head_body(head)
           /\ UNCHANGED want
        \/ /\ line.ok /\ line.method \notin CONNECT
           /\ outcome' = To("http", Nowhere, 0)
           /\ pc' = "serving"
           /\ prefix' = head
           /\ UNCHANGED want
  BY DEF Dispatch
<1>2. CASE Ends("Malformed")
  BY <1>2 DEF Ends
<1>3. CASE /\ \E dest \in {split_authority(line.target, 443)} :
                outcome' = To("tunnel", [Nowhere EXCEPT !.text = dest.host], dest.port)
           /\ pc' = "dial"
           /\ prefix' = head_body(head)
           /\ UNCHANGED want
  BY <1>3 DEF To
<1>4. CASE outcome' = To("http", Nowhere, 0) /\ pc' = "serving" /\ prefix' = head /\ UNCHANGED want
  BY <1>4
<1>5. QED
  BY <1>1, <1>2, <1>3, <1>4

-----------------------------------------------------------------------------
(* The invariant holds at first, and every step keeps it.                   *)

LEMMA InitInv == Init => IndInv
<1> SUFFICES ASSUME Init PROVE IndInv
  OBVIOUS
<1>1. Typed
  BY StreamFacts DEF Init, Typed, Bytes
<1>2. Wants /\ Path /\ Told
  BY DEF Init, Wants, Path, Told, Exact
<1>3. Limit
  BY HandshakeAssumption DEF Init, Limit
<1>4. QED
  BY <1>1, <1>2, <1>3 DEF IndInv

LEMMA ClientInv ==
    ASSUME IndInv, \/ ByteArrives
                   \/ \E how \in {"eof", "reset"} : ClientLeaves(how)
                   \/ UNCHANGED vars
    PROVE  IndInv'
<1>1. /\ UNCHANGED <<request, acceptVars, taken, pc, replies, outcome, prefix>>
      /\ \/ arrived' = arrived + 1 /\ arrived < Len(Stream) /\ closed' = closed
         \/ arrived' = arrived /\ closed' \in {"no", "eof", "reset"} /\ closed = "no"
         \/ arrived' = arrived /\ closed' = closed
  BY DEF ByteArrives, ClientLeaves, vars, clientVars
<1>2. Stream' = Stream
  BY <1>1 DEF Stream
<1>3. Typed'
  <2>1. Len(Stream) \in Nat
    BY StreamFacts DEF IndInv, Typed
  <2>2. QED
    BY <1>1, <1>2, <2>1 DEF IndInv, Typed, acceptVars, Exact, Done
<1>4. Wants' /\ Path' /\ Limit'
  BY <1>1 DEF IndInv, Wants, Path, Limit, IsSocks, acceptVars, Exact
<1>5. Told'
  <2>1. ToldAtEnd => ToldAtEnd'
    BY <1>1 DEF ToldAtEnd, IsSocks
  <2>2. QED
    BY <1>1, <2>1 DEF IndInv, Told, IsSocks
<1>6. QED
  BY <1>3, <1>4, <1>5 DEF IndInv

LEMMA PeekInv ==
    ASSUME IndInv, Peek
    PROVE  IndInv'
<1>1. /\ pc = "peek"
      /\ UNCHANGED <<request, arrived, closed, header, host, taken, replies, outcome, prefix>>
      /\ IF Stream[1] = VERSION THEN pc' = "greeting" /\ want' = 2
                                ELSE pc' = "head" /\ want' = 0
  BY DEF Peek, Awaits, clientVars
<1>2. Stream' = Stream /\ IsSocks' = IsSocks
  BY <1>1 DEF Stream, IsSocks
<1>3. Stream[1] = VERSION <=> IsSocks
  BY StreamFacts DEF IndInv, Typed
<1>4. Typed'
  BY <1>1, <1>2 DEF IndInv, Typed, Exact, Done, Bytes
<1>5. Wants' /\ Path' /\ Told'
  BY <1>1, <1>2, <1>3 DEF IndInv, Wants, Path, Told, Exact
<1>6. Limit'
  BY <1>1, <1>2, HandshakeAssumption DEF IndInv, Limit
<1>7. QED
  BY <1>4, <1>5, <1>6 DEF IndInv

\* A task that ends without a reply, none having been asked for by then.
LEMMA SilentEndInv ==
    ASSUME IndInv, \/ PeekEnds
                   \/ SocketFails
    PROVE  IndInv'
<1>1. /\ pc \in {"peek", "open"}
      /\ pc' = "ended"
      /\ \E error \in {"Closed", "Socket"} : outcome' = Error(error)
      /\ UNCHANGED <<request, arrived, closed, want, header, host, taken, replies, prefix>>
  BY DEF PeekEnds, SocketFails, Ends, clientVars
<1>2. Stream' = Stream /\ IsSocks' = IsSocks
  BY <1>1 DEF Stream, IsSocks
<1>3. Typed'
  BY <1>1, <1>2 DEF IndInv, Typed, Exact, Done
<1>4. Wants' /\ Path' /\ Limit'
  BY <1>1, <1>2 DEF IndInv, Wants, Path, Limit, Exact
<1>5. Told'
  <2>1. outcome'.error \in {"Closed", "Socket"}
    BY <1>1 DEF Error, To
  <2>2. replies' \in {<<>>, <<Method(METHOD_NONE)>>}
    BY <1>1 DEF IndInv, Told
  <2>3. ToldAtEnd'
    BY <2>1, <2>2 DEF ToldAtEnd
  <2>4. QED
    BY <1>1, <2>3 DEF Told
<1>6. QED
  BY <1>3, <1>4, <1>5 DEF IndInv

LEMMA ReadHeadInv ==
    ASSUME IndInv, ReadHead
    PROVE  IndInv'
<1>1. /\ pc = "head"
      /\ arrived > taken
      /\ taken' = Min({taken + Chunk, arrived})
      /\ UNCHANGED <<request, arrived, closed, header, host, replies>>
  BY DEF ReadHead, clientVars
<1>2. Stream' = Stream /\ IsSocks' = IsSocks /\ ~IsSocks
  BY <1>1 DEF Stream, IsSocks, IndInv, Path
<1>3. /\ taken' \in Nat
      /\ taken' <= arrived
      /\ taken' <= taken + Chunk
  <2>1. taken + Chunk \in Nat /\ arrived \in Nat
    BY HandshakeAssumption DEF IndInv, Typed
  <2>2. QED
    BY <1>1, <2>1, MinOfTwo
<1>4. Len(SubSeq(Stream, 1, taken')) = taken'
  <2>1. taken' <= Len(Stream)
    BY <1>3, StreamFacts DEF IndInv, Typed
  <2>2. QED
    BY <1>3, <2>1, HeadLength DEF IndInv, Typed
<1>5. /\ want' = want
      /\ \/ pc' = "ended" /\ outcome' \in {Error("Malformed"), Error("TooLarge")}
         \/ pc' = "dial" /\ outcome'.kind = "tunnel" /\ outcome'.error = "none"
         \/ pc' = "serving"
         \/ /\ pc' = "head" /\ outcome' = outcome
            /\ taken' <= MAX_HEAD_BYTES
  <2>1. PICK head \in {SubSeq(Stream, 1, taken')} :
            IF HeadEnds(head, taken' - taken) THEN Dispatch(head)
            ELSE IF OverLimit(head) THEN Ends("TooLarge")
            ELSE UNCHANGED <<pc, want, outcome, prefix>>
    BY DEF ReadHead
  <2>2. CASE Dispatch(head)
    BY <2>2, DispatchCases
  <2>3. CASE Ends("TooLarge")
    BY <2>3 DEF Ends
  <2>4. CASE ~OverLimit(head) /\ UNCHANGED <<pc, want, outcome, prefix>>
    <3>1. taken' <= MAX_HEAD_BYTES
      BY <1>3, <1>4, <2>1, <2>4, HandshakeAssumption DEF OverLimit
    <3>2. QED
      BY <1>1, <2>4, <3>1
  <2>5. QED
    BY <2>1, <2>2, <2>3, <2>4
<1>6. Typed'
  BY <1>1, <1>2, <1>3, <1>5 DEF IndInv, Typed, Exact, Done
<1>7. Wants' /\ Path'
  BY <1>2, <1>5 DEF Wants, Path, Exact
<1>8. Told'
  <2>1. replies' = <<>>
    BY <1>1 DEF IndInv, Told
  <2>2. ToldAtEnd'
    BY <1>2, <2>1 DEF ToldAtEnd
  <2>3. QED
    BY <1>2, <1>5, <2>1, <2>2 DEF Told
<1>9. Limit'
  <2>1. taken <= MAX_HEAD_BYTES /\ taken \in Nat
    BY <1>1 DEF IndInv, Limit, Typed
  <2>2. taken' <= MAX_HEAD_BYTES + Chunk
    BY <1>3, <2>1, HandshakeAssumption
  <2>3. QED
    BY <1>5, <2>2 DEF Limit
<1>10. QED
  BY <1>6, <1>7, <1>8, <1>9 DEF IndInv

LEMMA HeadCutInv ==
    ASSUME IndInv, HeadCut
    PROVE  IndInv'
<1>1. /\ pc = "head"
      /\ UNCHANGED <<request, arrived, closed, header, host, taken, replies>>
  BY DEF HeadCut, clientVars
<1>2. Stream' = Stream /\ IsSocks' = IsSocks /\ ~IsSocks
  BY <1>1 DEF Stream, IsSocks, IndInv, Path
<1>3. /\ want' = want
      /\ \/ pc' = "ended"
         \/ pc' = "dial" /\ outcome'.kind = "tunnel" /\ outcome'.error = "none"
         \/ pc' = "serving"
  <2>1. CASE HeadAtEof
    <3>1. PICK head \in {SubSeq(Stream, 1, taken)} : Dispatch(head)
      BY <2>1 DEF HeadAtEof
    <3>2. QED
      BY <3>1, DispatchCases
  <2>2. CASE Ends("Io")
    BY <2>2 DEF Ends
  <2>3. QED
    BY <2>1, <2>2 DEF HeadCut
<1>4. Typed'
  BY <1>1, <1>2, <1>3 DEF IndInv, Typed, Exact, Done
<1>5. Wants' /\ Path'
  BY <1>2, <1>3 DEF Wants, Path, Exact
<1>6. Told'
  <2>1. replies' = <<>>
    BY <1>1 DEF IndInv, Told
  <2>2. ToldAtEnd'
    BY <1>2, <2>1 DEF ToldAtEnd
  <2>3. QED
    BY <1>2, <1>3, <2>1, <2>2 DEF Told
<1>7. Limit'
  BY <1>1, <1>2, <1>3 DEF IndInv, Limit
<1>8. QED
  BY <1>4, <1>5, <1>6, <1>7 DEF IndInv

\* One more reply.
LEMMA TwoReplies ==
    ASSUME NEW x, NEW y
    PROVE  /\ Append(<<x>>, y) = <<x, y>>
           /\ <<x>> \o <<y>> = <<x, y>>
           /\ Append(<<>>, y) = <<y>>
<1> DEFINE S == {x, y}
<1>1. <<x>> \in Seq(S) /\ <<y>> \in Seq(S) /\ <<x, y>> \in Seq(S) /\ <<>> \in Seq(S)
  OBVIOUS
<1>2. Len(<<x>>) = 1 /\ Len(<<y>>) = 1 /\ Len(<<x, y>>) = 2 /\ Len(<<>>) = 0
  OBVIOUS
<1>3. <<x>>[1] = x /\ <<y>>[1] = y /\ <<x, y>>[1] = x /\ <<x, y>>[2] = y
  OBVIOUS
<1>4. Append(<<x>>, y) = <<x, y>>
  <2>1. /\ Append(<<x>>, y) \in Seq(S)
        /\ Len(Append(<<x>>, y)) = 2
        /\ Append(<<x>>, y)[1] = x
        /\ Append(<<x>>, y)[2] = y
    BY <1>1, <1>2, <1>3, AppendProperties
  <2>2. \A i \in 1 .. 2 : Append(<<x>>, y)[i] = <<x, y>>[i]
    BY <1>3, <2>1
  <2>3. QED
    BY <1>1, <1>2, <2>1, <2>2, SeqEqual
<1>5. Append(<<>>, y) = <<y>>
  OBVIOUS
<1>6. <<x>> \o <<y>> = <<x, y>>
  <2>1. /\ <<x>> \o <<y>> \in Seq(S)
        /\ Len(<<x>> \o <<y>>) = 2
        /\ \A i \in 1 .. 1 : (<<x>> \o <<y>>)[i] = <<x>>[i]
        /\ \A i \in 2 .. 2 : (<<x>> \o <<y>>)[i] = <<y>>[i - 1]
    BY <1>1, <1>2, ConcatProperties
  <2>2. \A i \in 1 .. 2 : (<<x>> \o <<y>>)[i] = <<x, y>>[i]
    <3>1. (<<x>> \o <<y>>)[1] = x /\ (<<x>> \o <<y>>)[2] = y
      BY <1>3, <2>1
    <3>2. QED
      BY <1>3, <3>1
  <2>3. QED
    BY <1>1, <1>2, <2>1, <2>2, SeqEqual
<1>7. QED
  BY <1>4, <1>5, <1>6

\* A read of socks::accept, complete or not, leaves the types and the limit.
LEMMA ReadsOn ==
    ASSUME IndInv, pc \in Exact, UNCHANGED <<request, arrived, closed>>,
           taken' \in Nat, taken' <= arrived, want' \in Bytes,
           pc' \in Exact \cup Done \cup {"dial", "bind"}
    PROVE  Typed' /\ Limit' /\ IsSocks /\ IsSocks'
<1>1. Stream' = Stream /\ IsSocks' = IsSocks
  BY DEF Stream, IsSocks
<1>2. IsSocks
  BY DEF IndInv, Path
<1>3. Typed'
  BY <1>1 DEF IndInv, Typed, Exact, Done
<1>4. Limit'
  BY <1>1, <1>2 DEF Limit, Exact, Done
<1>5. QED
  BY <1>1, <1>2, <1>3, <1>4

LEMMA ReadsFacts ==
    ASSUME IndInv, NEW at, Reads(at)
    PROVE  /\ pc = at
           /\ closed # "reset"
           /\ taken' \in Nat /\ taken' <= arrived
           /\ Len(data) = want
           /\ \A k \in 1 .. want : data[k] \in Bytes
<1>1. /\ pc = at
      /\ closed # "reset"
      /\ arrived - taken >= want
      /\ taken' = taken + want
  BY DEF Reads
<1>2. Len(data) = want /\ \A k \in 1 .. want : data[k] \in Bytes
  BY <1>1, DataFacts DEF IndInv
<1>3. taken' \in Nat /\ taken' <= arrived
  BY <1>1 DEF IndInv, Typed, Bytes
<1>4. QED
  BY <1>1, <1>2, <1>3

\* serve_socks turns a client away: it is told why, unless it is gone.
LEMMA RejectsInv ==
    ASSUME IndInv, pc \in Exact, UNCHANGED <<request, arrived, closed>>,
           taken' \in Nat, taken' <= arrived,
           NEW error \in {"Io", "UnsupportedVersion", "UnsupportedAddressType",
                          "UnsupportedCommand"},
           Rejects(error)
    PROVE  IndInv'
<1>1. /\ pc' = "ended"
      /\ outcome' = Error(error)
      /\ want' = want
      /\ replies' = Sent("request", reply_code(error))
  BY DEF Rejects, Ends
<1>2. Typed' /\ Limit' /\ IsSocks /\ IsSocks'
  BY <1>1, ReadsOn DEF IndInv, Typed, Done
<1>3. Wants' /\ Path'
  BY <1>1 DEF Wants, Path, Exact
<1>4. outcome'.kind = "error" /\ outcome'.error = error
  BY <1>1 DEF Error, To
<1>5. replies \in {<<>>, <<Method(METHOD_NONE)>>}
  BY DEF IndInv, Told, Exact
<1>6. CASE closed = "reset"
  <2>1. replies' = replies /\ closed' = "reset"
    BY <1>1, <1>6 DEF Sent
  <2>2. ToldAtEnd'
    BY <1>5, <2>1 DEF ToldAtEnd
  <2>3. QED
    BY <1>1, <1>2, <1>3, <2>2 DEF IndInv, Told
<1>7. CASE closed # "reset"
  <2>1. PICK code \in {REP_GENERAL_FAILURE, REP_COMMAND_NOT_SUPPORTED,
                       REP_ADDRESS_NOT_SUPPORTED} : code = reply_code(error)
    BY DEF reply_code
  <2>2. replies' = Append(replies, Reply(code))
    BY <1>1, <1>7, <2>1 DEF Sent, Reply
  <2>3. \/ replies' = <<Reply(code)>>
        \/ replies' = <<Method(METHOD_NONE), Reply(code)>>
    <3>1. CASE replies = <<>>
      BY <2>2, <3>1, TwoReplies
    <3>2. CASE replies = <<Method(METHOD_NONE)>>
      BY <2>2, <3>2, TwoReplies
    <3>3. QED
      BY <1>5, <3>1, <3>2
  <2>4. ToldAtEnd'
    BY <1>2, <1>4, <2>1, <2>3 DEF ToldAtEnd
  <2>5. QED
    BY <1>1, <1>2, <1>3, <2>4 DEF IndInv, Told
<1>8. QED
  BY <1>6, <1>7

LEMMA GreetingInv ==
    ASSUME IndInv, Greeting
    PROVE  IndInv'
<1>1. /\ Reads("greeting")
      /\ pc' = "methods" /\ want' = data[2] /\ outcome' = outcome
      /\ UNCHANGED <<request, arrived, closed, replies>>
  BY DEF Greeting, Awaits, clientVars
<1>2. /\ pc = "greeting"
      /\ taken' \in Nat /\ taken' <= arrived
      /\ \A k \in 1 .. want : data[k] \in Bytes
  BY <1>1, ReadsFacts
<1>3. data[2] \in Bytes
  <2>1. want = 2
    BY <1>2 DEF IndInv, Wants
  <2>2. QED
    BY <1>2, <2>1
<1>4. Typed' /\ Limit' /\ IsSocks /\ IsSocks'
  BY <1>1, <1>2, <1>3, ReadsOn DEF Exact
<1>5. Wants' /\ Path' /\ Told'
  BY <1>1, <1>2, <1>4 DEF IndInv, Wants, Path, Told
<1>6. QED
  BY <1>4, <1>5 DEF IndInv

LEMMA MethodsInv ==
    ASSUME IndInv, Methods
    PROVE  IndInv'
<1>1. /\ Reads("methods")
      /\ UNCHANGED <<request, arrived, closed>>
      /\ \/ /\ pc' = "header" /\ want' = 4 /\ outcome' = outcome
            /\ replies' = Sent("method", METHOD_NONE)
         \/ /\ pc' = "ended" /\ want' = want /\ outcome' = Error("NoAcceptableMethod")
            /\ replies' = Sent("method", METHOD_UNACCEPTABLE)
                            \o <<[to |-> "request", code |-> REP_GENERAL_FAILURE]>>
  BY DEF Methods, Awaits, Ends, clientVars
<1>2. /\ pc = "methods" /\ closed # "reset"
      /\ taken' \in Nat /\ taken' <= arrived
  BY <1>1, ReadsFacts
<1>3. replies = <<>>
  BY <1>2 DEF IndInv, Told
<1>4. Typed' /\ Limit' /\ IsSocks /\ IsSocks'
  <2>1. want' \in Bytes
    <3>1. want' = 4 \/ want' = want
      BY <1>1
    <3>2. 4 \in Bytes /\ want \in Bytes
      BY DEF IndInv, Typed, Bytes
    <3>3. QED
      BY <3>1, <3>2
  <2>2. QED
    BY <1>1, <1>2, <2>1, ReadsOn DEF Exact, Done
<1>5. CASE pc' = "header"
  <2>1. replies' = <<Method(METHOD_NONE)>>
    BY <1>1, <1>2, <1>3, <1>5 DEF Sent, Method
  <2>2. Wants' /\ Path' /\ Told'
    BY <1>1, <1>4, <1>5, <2>1 DEF Wants, Path, Told
  <2>3. QED
    BY <1>4, <2>2 DEF IndInv
<1>6. CASE pc' = "ended"
  <2>1. Sent("method", METHOD_UNACCEPTABLE) = <<Method(METHOD_UNACCEPTABLE)>>
    BY <1>2, <1>3 DEF Sent, Method
  <2>2. replies' = <<Method(METHOD_UNACCEPTABLE)>> \o <<Reply(REP_GENERAL_FAILURE)>>
    BY <1>1, <1>6, <2>1 DEF Reply
  <2>3. replies' = <<Method(METHOD_UNACCEPTABLE), Reply(REP_GENERAL_FAILURE)>>
    BY <2>2, TwoReplies
  <2>4. outcome'.error = "NoAcceptableMethod"
    BY <1>1, <1>6 DEF Error, To
  <2>5. reply_code("NoAcceptableMethod") = REP_GENERAL_FAILURE
    BY DEF reply_code
  <2>6. ToldAtEnd'
    BY <1>4, <2>3, <2>4, <2>5 DEF ToldAtEnd
  <2>7. Wants' /\ Path' /\ Told'
    BY <1>6, <2>6 DEF Wants, Path, Told, Exact
  <2>8. QED
    BY <1>4, <2>7 DEF IndInv
<1>7. QED
  BY <1>1, <1>5, <1>6

LEMMA HeaderInv ==
    ASSUME IndInv, Header
    PROVE  IndInv'
<1>1. /\ Reads("header")
      /\ UNCHANGED <<request, arrived, closed>>
      /\ \/ Rejects("UnsupportedVersion")
         \/ Rejects("UnsupportedAddressType")
         \/ /\ \/ Awaits("address", Ipv4Len)
               \/ Awaits("address", Ipv6Len)
               \/ Awaits("domain_len", 1)
            /\ UNCHANGED replies
  BY DEF Header, clientVars, ATYP_IPV4, ATYP_IPV6, ATYP_DOMAIN
<1>2. pc = "header" /\ taken' \in Nat /\ taken' <= arrived
  BY <1>1, ReadsFacts
<1>3. CASE Rejects("UnsupportedVersion") \/ Rejects("UnsupportedAddressType")
  BY <1>1, <1>2, <1>3, RejectsInv DEF Exact
<1>4. CASE /\ \/ Awaits("address", Ipv4Len)
              \/ Awaits("address", Ipv6Len)
              \/ Awaits("domain_len", 1)
           /\ UNCHANGED replies
  <2>1. /\ \/ pc' = "address" /\ want' \in {Ipv4Len, Ipv6Len}
           \/ pc' = "domain_len" /\ want' = 1
        /\ outcome' = outcome
    BY <1>4 DEF Awaits
  <2>2. want' \in Bytes
    BY <2>1, HandshakeAssumption, 1 \in Bytes DEF Bytes
  <2>3. Typed' /\ Limit' /\ IsSocks /\ IsSocks'
    BY <1>1, <1>2, <2>1, <2>2, ReadsOn DEF Exact
  <2>4. Wants' /\ Path' /\ Told'
    BY <1>2, <1>4, <2>1, <2>3 DEF IndInv, Wants, Path, Told
  <2>5. QED
    BY <2>3, <2>4 DEF IndInv
<1>5. QED
  BY <1>1, <1>3, <1>4

LEMMA AddressInv ==
    ASSUME IndInv, \/ DomainLength
                   \/ AddressRead
    PROVE  IndInv'
<1>1. /\ \/ Reads("domain_len") /\ pc' = "address" /\ want' = data[1]
         \/ Reads("address") /\ pc' = "port" /\ want' = 2
      /\ outcome' = outcome
      /\ UNCHANGED <<request, arrived, closed, replies>>
  BY DEF DomainLength, AddressRead, Awaits, clientVars
<1>2. /\ pc \in {"domain_len", "address"}
      /\ taken' \in Nat /\ taken' <= arrived
      /\ \A k \in 1 .. want : data[k] \in Bytes
  BY <1>1, ReadsFacts
<1>3. want' \in Bytes
  <2>1. CASE pc = "domain_len"
    <3>1. want = 1
      BY <2>1 DEF IndInv, Wants
    <3>2. data[1] \in Bytes
      BY <1>2, <3>1
    <3>3. QED
      BY <1>1, <3>2 DEF Bytes
  <2>2. CASE pc = "address"
    BY <1>1, <2>2 DEF Reads, Bytes
  <2>3. QED
    BY <1>2, <2>1, <2>2
<1>4. Typed' /\ Limit' /\ IsSocks /\ IsSocks'
  BY <1>1, <1>2, <1>3, ReadsOn DEF Exact
<1>5. Wants' /\ Path' /\ Told'
  BY <1>1, <1>2, <1>4 DEF IndInv, Wants, Path, Told
<1>6. QED
  BY <1>4, <1>5 DEF IndInv

LEMMA PortInv ==
    ASSUME IndInv, Port
    PROVE  IndInv'
<1>1. /\ Reads("port")
      /\ UNCHANGED <<request, arrived, closed>>
      /\ \/ /\ pc' = "dial" /\ outcome' = To("tunnel", host, from_be(data))
            /\ want' = want /\ replies' = replies
         \/ /\ pc' = "bind" /\ outcome' = To("relay", Nowhere, 0)
            /\ want' = want /\ replies' = replies
         \/ Rejects("UnsupportedCommand")
  BY DEF Port, clientVars
<1>2. pc = "port" /\ taken' \in Nat /\ taken' <= arrived
  BY <1>1, ReadsFacts
<1>3. CASE Rejects("UnsupportedCommand")
  BY <1>1, <1>2, <1>3, RejectsInv DEF Exact
<1>4. CASE /\ \/ pc' = "dial" /\ outcome' = To("tunnel", host, from_be(data))
              \/ pc' = "bind" /\ outcome' = To("relay", Nowhere, 0)
           /\ want' = want /\ replies' = replies
  <2>1. Typed' /\ Limit' /\ IsSocks /\ IsSocks'
    BY <1>1, <1>2, <1>4, ReadsOn DEF IndInv, Typed, Exact
  <2>2. outcome'.kind \in {"tunnel", "relay"} /\ outcome'.error = "none"
    BY <1>4 DEF To
  <2>3. Wants' /\ Path' /\ Told'
    BY <1>2, <1>4, <2>1, <2>2 DEF IndInv, Wants, Path, Told
  <2>4. QED
    BY <2>1, <2>3 DEF IndInv
<1>5. QED
  BY <1>1, <1>3, <1>4

LEMMA ShortReadInv ==
    ASSUME IndInv, ShortRead
    PROVE  IndInv'
<1>1. /\ pc \in Exact
      /\ UNCHANGED <<request, arrived, closed>>
      /\ taken' = arrived
      /\ Rejects("Io")
  BY DEF ShortRead, clientVars
<1>2. taken' \in Nat /\ taken' <= arrived
  BY <1>1 DEF IndInv, Typed
<1>3. QED
  BY <1>1, <1>2, RejectsInv

LEMMA OpensInv ==
    ASSUME IndInv, Opens
    PROVE  IndInv'
<1>1. /\ pc \in {"dial", "bind"}
      /\ pc' = "open"
      /\ UNCHANGED <<request, arrived, closed, want, taken, replies, outcome>>
  BY DEF Opens, clientVars, acceptVars
<1>2. Stream' = Stream /\ IsSocks' = IsSocks
  BY <1>1 DEF Stream, IsSocks
<1>3. Typed'
  BY <1>1, <1>2 DEF IndInv, Typed, Exact, Done
<1>4. Wants' /\ Path' /\ Told' /\ Limit'
  BY <1>1, <1>2 DEF IndInv, Wants, Path, Told, Limit, Exact
<1>5. QED
  BY <1>3, <1>4 DEF IndInv

LEMMA RefusesInv ==
    ASSUME IndInv, Refuses
    PROVE  IndInv'
<1>1. /\ pc \in {"dial", "bind"}
      /\ pc' = "ended"
      /\ replies' = Sent(Protocol, Refused)
      /\ UNCHANGED <<request, arrived, closed, want, taken, outcome>>
  BY DEF Refuses, clientVars, acceptVars
<1>2. Stream' = Stream /\ IsSocks' = IsSocks
  BY <1>1 DEF Stream, IsSocks
<1>3. Typed'
  BY <1>1, <1>2 DEF IndInv, Typed, Exact, Done
<1>4. Wants' /\ Path' /\ Limit'
  BY <1>1, <1>2 DEF IndInv, Wants, Path, Limit, Exact
<1>5. ToldAtEnd'
  <2>1. /\ replies = IF IsSocks THEN <<Method(METHOD_NONE)>> ELSE <<>>
        /\ outcome.kind # "error"
    BY <1>1 DEF IndInv, Told, Path
  <2>2. CASE closed = "reset"
    <3>1. replies' = replies /\ closed' = "reset"
      BY <1>1, <2>2 DEF Sent
    <3>2. QED
      BY <2>1, <3>1 DEF ToldAtEnd
  <2>3. CASE closed # "reset" /\ IsSocks
    <3>1. PICK code \in {REP_GENERAL_FAILURE, REP_CONNECTION_REFUSED} : code = Refused
      BY <2>3 DEF Refused, IsSocks
    <3>2. Protocol = "request"
      BY <2>3 DEF Protocol, IsSocks
    <3>3. replies' = Append(<<Method(METHOD_NONE)>>, Reply(code))
      BY <1>1, <2>1, <2>3, <3>1, <3>2 DEF Sent, Reply
    <3>4. replies' = <<Method(METHOD_NONE), Reply(code)>>
      BY <3>3, TwoReplies
    <3>5. QED
      BY <1>1, <1>2, <2>1, <2>3, <3>4 DEF ToldAtEnd
  <2>4. CASE closed # "reset" /\ ~IsSocks
    <3>1. pc = "dial"
      BY <1>1, <2>4 DEF IndInv, Path
    <3>2. Protocol = "http" /\ Refused = 502
      BY <2>4, <3>1 DEF Protocol, Refused, IsSocks
    <3>3. replies' = <<Status(502)>>
      BY <1>1, <2>1, <2>4, <3>2 DEF Sent, Status
    <3>4. QED
      BY <1>2, <2>4, <3>3 DEF ToldAtEnd
  <2>5. QED
    BY <2>2, <2>3, <2>4
<1>6. QED
  BY <1>1, <1>3, <1>4, <1>5 DEF IndInv, Told

LEMMA AcceptsInv ==
    ASSUME IndInv, Accepts
    PROVE  IndInv'
<1>1. /\ pc = "open"
      /\ pc' = IF closed = "reset" THEN "ended" ELSE "serving"
      /\ replies' = Sent(Protocol, Accepted)
      /\ UNCHANGED <<request, arrived, closed, want, taken, outcome>>
  BY DEF Accepts, clientVars, acceptVars
<1>2. Stream' = Stream /\ IsSocks' = IsSocks
  BY <1>1 DEF Stream, IsSocks
<1>3. Typed'
  BY <1>1, <1>2 DEF IndInv, Typed, Exact, Done
<1>4. Wants' /\ Path' /\ Limit'
  BY <1>1, <1>2 DEF IndInv, Wants, Path, Limit, Exact
<1>5. Told'
  <2>1. /\ replies = IF IsSocks THEN <<Method(METHOD_NONE)>> ELSE <<>>
        /\ outcome.kind \in {"tunnel", "relay"}
    BY <1>1 DEF IndInv, Told, Path
  <2>2. CASE closed = "reset"
    <3>1. replies' = replies /\ closed' = "reset" /\ pc' = "ended"
      BY <1>1, <2>2 DEF Sent
    <3>2. ToldAtEnd'
      BY <2>1, <3>1 DEF ToldAtEnd
    <3>3. QED
      BY <3>1, <3>2 DEF Told
  <2>3. CASE closed # "reset" /\ IsSocks
    <3>1. Protocol = "request" /\ Accepted = REP_SUCCESS
      BY <2>3 DEF Protocol, Accepted, IsSocks
    <3>2. replies' = Append(<<Method(METHOD_NONE)>>, Reply(REP_SUCCESS))
      BY <1>1, <2>1, <2>3, <3>1 DEF Sent, Reply
    <3>3. replies' = <<Method(METHOD_NONE), Reply(REP_SUCCESS)>>
      BY <3>2, TwoReplies
    <3>4. QED
      BY <1>1, <1>2, <2>1, <2>3, <3>3 DEF Told
  <2>4. CASE closed # "reset" /\ ~IsSocks
    <3>1. Protocol = "http" /\ Accepted = 200
      BY <2>4 DEF Protocol, Accepted, IsSocks
    <3>2. replies' = <<Status(200)>>
      BY <1>1, <2>1, <2>4, <3>1 DEF Sent, Status
    <3>3. QED
      BY <1>1, <1>2, <2>1, <2>4, <3>2 DEF Told
  <2>5. QED
    BY <2>2, <2>3, <2>4
<1>6. QED
  BY <1>3, <1>4, <1>5 DEF IndInv

LEMMA NextInv == IndInv /\ [Next]_vars => IndInv'
<1> SUFFICES ASSUME IndInv, [Next]_vars PROVE IndInv'
  OBVIOUS
<1>1. CASE ByteArrives \/ (\E how \in {"eof", "reset"} : ClientLeaves(how))
  BY <1>1, ClientInv
<1>2. CASE Peek
  BY <1>2, PeekInv
<1>3. CASE PeekEnds \/ SocketFails
  BY <1>3, SilentEndInv
<1>4. CASE ReadHead
  BY <1>4, ReadHeadInv
<1>5. CASE HeadCut
  BY <1>5, HeadCutInv
<1>6. CASE Greeting
  BY <1>6, GreetingInv
<1>7. CASE Methods
  BY <1>7, MethodsInv
<1>8. CASE Header
  BY <1>8, HeaderInv
<1>9. CASE DomainLength \/ AddressRead
  BY <1>9, AddressInv
<1>10. CASE Port
  BY <1>10, PortInv
<1>11. CASE ShortRead
  BY <1>11, ShortReadInv
<1>12. CASE Opens
  BY <1>12, OpensInv
<1>13. CASE Refuses
  BY <1>13, RefusesInv
<1>14. CASE Accepts
  BY <1>14, AcceptsInv
<1>15. CASE UNCHANGED vars
  BY <1>15, ClientInv
<1>16. QED
  BY <1>1, <1>2, <1>3, <1>4, <1>5, <1>6, <1>7, <1>8, <1>9, <1>10, <1>11, <1>12,
     <1>13, <1>14, <1>15 DEF Next, Step, Over

LEMMA InvHolds == Spec => []IndInv
<1>1. QED
  BY InitInv, NextInv, PTL DEF Spec

-----------------------------------------------------------------------------
(* What the invariant says of the replies.                                  *)

\* A lone reply.
LEMMA One ==
    ASSUME NEW x, replies = <<x>>
    PROVE  Len(replies) = 1 /\ DOMAIN replies = {1} /\ replies[1] = x /\ Last(replies) = x
<1>1. Len(<<x>>) = 1 /\ DOMAIN <<x>> = {1} /\ <<x>>[1] = x
  OBVIOUS
<1>2. QED
  BY <1>1 DEF Last

\* The method, and a reply.
LEMMA Two ==
    ASSUME NEW x, NEW y, replies = <<x, y>>
    PROVE  /\ Len(replies) = 2 /\ DOMAIN replies = {1, 2}
           /\ replies[1] = x /\ replies[2] = y
           /\ Head(replies) = x /\ Last(replies) = y
<1>1. Len(<<x, y>>) = 2 /\ DOMAIN <<x, y>> = {1, 2} /\ <<x, y>>[1] = x /\ <<x, y>>[2] = y
  OBVIOUS
<1>2. Head(<<x, y>>) = x
  OBVIOUS
<1>3. QED
  BY <1>1, <1>2 DEF Last

LEMMA None ==
    ASSUME replies = <<>>
    PROVE  Len(replies) = 0 /\ DOMAIN replies = {}
  OBVIOUS

Refusals == {REP_GENERAL_FAILURE, REP_CONNECTION_REFUSED,
             REP_COMMAND_NOT_SUPPORTED, REP_ADDRESS_NOT_SUPPORTED}

\* All a client can have been told.
LEMMA Shapes ==
    ASSUME IndInv
    PROVE  \/ replies = <<>>
           \/ replies = <<Method(METHOD_NONE)>>
           \/ \E code \in Refusals : replies = <<Reply(code)>>
           \/ \E code \in Refusals, m \in {METHOD_NONE, METHOD_UNACCEPTABLE} :
                replies = <<Method(m), Reply(code)>>
           \/ replies = <<Status(502)>>
           \/ /\ pc = "serving" /\ outcome.kind \in {"tunnel", "relay"}
              /\ \/ IsSocks /\ replies = <<Method(METHOD_NONE), Reply(REP_SUCCESS)>>
                 \/ ~IsSocks /\ replies = <<Status(200)>>
<1>1. CASE pc = "ended"
  BY <1>1 DEF IndInv, Told, ToldAtEnd, Refusals
<1>2. CASE pc = "serving"
  BY <1>2 DEF IndInv, Told
<1>3. CASE pc \notin {"ended", "serving"}
  BY <1>3 DEF IndInv, Typed, Told, Exact, Done
<1>4. QED
  BY <1>1, <1>2, <1>3

LEMMA ToldSo == IndInv => ToldOnce
<1> SUFFICES ASSUME IndInv PROVE ToldOnce
  OBVIOUS
<1> DEFINE A == \A i, j \in DOMAIN replies :
                  replies[i].to # "method" /\ replies[j].to # "method" => i = j
           B == \A i \in DOMAIN replies :
                  Success(replies[i]) =>
                    /\ i = Len(replies)
                    /\ pc = "serving"
                    /\ outcome.kind \in {"tunnel", "relay"}
                    /\ request.proto = "socks" =>
                         Head(replies) = [to |-> "method", code |-> METHOD_NONE]
           C == request.proto = "socks" /\ pc = "ended" /\ closed # "reset" =>
                  \/ outcome.error \in {"Closed", "Socket"}
                  \/ /\ replies # <<>> /\ Last(replies).to = "request"
                     /\ outcome.kind = "error" => Last(replies).code = reply_code(outcome.error)
<1>1. \A m : Method(m).to = "method" /\ ~Success(Method(m))
  BY DEF Method, Success
<1>2. \A code : Reply(code).to = "request" /\ Reply(code).code = code
  BY DEF Reply
<1>3. \A code \in Refusals : ~Success(Reply(code))
  BY <1>2 DEF Success, Refusals, REP_SUCCESS, REP_GENERAL_FAILURE, REP_CONNECTION_REFUSED,
              REP_COMMAND_NOT_SUPPORTED, REP_ADDRESS_NOT_SUPPORTED
<1>4. ~Success(Status(502))
  BY DEF Success, Status, REP_SUCCESS
<1>5. A /\ B
  <2>1. CASE replies = <<>>
    BY <2>1, None
  <2>2. CASE replies = <<Method(METHOD_NONE)>>
    BY <1>1, <2>2, One
  <2>3. CASE \E code \in Refusals : replies = <<Reply(code)>>
    BY <1>3, <2>3, One
  <2>4. ASSUME NEW code \in Refusals, NEW m, replies = <<Method(m), Reply(code)>>
        PROVE  A /\ B
    <3>1. /\ DOMAIN replies = {1, 2}
          /\ replies[1] = Method(m) /\ replies[2] = Reply(code)
      BY <2>4, Two
    <3>2. QED
      BY <1>1, <1>3, <3>1
  <2>5. CASE replies = <<Status(502)>>
    BY <1>4, <2>5, One
  <2>6. CASE pc = "serving" /\ outcome.kind \in {"tunnel", "relay"}
             /\ IsSocks /\ replies = <<Method(METHOD_NONE), Reply(REP_SUCCESS)>>
    <3>1. /\ DOMAIN replies = {1, 2} /\ Len(replies) = 2
          /\ replies[1] = Method(METHOD_NONE) /\ replies[2] = Reply(REP_SUCCESS)
          /\ Head(replies) = Method(METHOD_NONE)
      BY <2>6, Two
    <3>2. Head(replies) = [to |-> "method", code |-> METHOD_NONE]
      BY <3>1 DEF Method
    <3>3. QED
      BY <1>1, <2>6, <3>1, <3>2
  <2>7. CASE pc = "serving" /\ outcome.kind \in {"tunnel", "relay"}
             /\ ~IsSocks /\ replies = <<Status(200)>>
    <3>1. DOMAIN replies = {1} /\ Len(replies) = 1
      BY <2>7, One
    <3>2. QED
      BY <2>7, <3>1 DEF IsSocks
  <2>8. QED
    BY <2>1, <2>2, <2>3, <2>4, <2>5, <2>6, <2>7, Shapes
<1>6. C
  <2> SUFFICES ASSUME IsSocks, pc = "ended", closed # "reset",
                      outcome.error \notin {"Closed", "Socket"}
               PROVE  /\ replies # <<>> /\ Last(replies).to = "request"
                      /\ outcome.kind = "error" => Last(replies).code = reply_code(outcome.error)
    BY DEF IsSocks
  <2>1. PICK code \in Refusals :
            /\ \/ replies = <<Reply(code)>>
               \/ \E m \in {METHOD_NONE, METHOD_UNACCEPTABLE} :
                    replies = <<Method(m), Reply(code)>>
            /\ outcome.kind = "error" => code = reply_code(outcome.error)
    BY DEF IndInv, Told, ToldAtEnd, Refusals
  <2>2. Last(replies) = Reply(code) /\ Len(replies) # 0
    <3>1. CASE replies = <<Reply(code)>>
      BY <3>1, One
    <3>2. ASSUME NEW m, replies = <<Method(m), Reply(code)>>
          PROVE  Last(replies) = Reply(code) /\ Len(replies) # 0
      BY <3>2, Two
    <3>3. QED
      BY <2>1, <3>1, <3>2
  <2>3. replies # <<>>
    BY <2>2, None
  <2>4. QED
    BY <1>2, <2>1, <2>2, <2>3
<1>7. QED
  BY <1>5, <1>6 DEF ToldOnce

-----------------------------------------------------------------------------
(* The theorems.                                                            *)

\* handle_connection and socks::accept: types, no read past what has arrived, and
\* at most two replies, for any request.
THEOREM HandshakeTypeCorrect == Spec => []TypeOK
<1>1. IndInv => TypeOK
  <2> SUFFICES ASSUME IndInv PROVE TypeOK
    OBVIOUS
  <2>1. Len(Stream) \in Nat
    BY StreamFacts DEF IndInv, Typed
  <2>2. Len(replies) \in {0, 1, 2}
    <3>1. \A x, y : replies = <<x, y>> => Len(replies) = 2
      BY Two
    <3>2. \A x : replies = <<x>> => Len(replies) = 1
      BY One
    <3>3. QED
      BY <3>1, <3>2, None, Shapes
  <2>3. Len(replies) <= 2
    <3>1. \A l \in {0, 1, 2} : l <= 2
      OBVIOUS
    <3>2. QED
      BY <2>2, <3>1, Zenon
  <2>4. arrived \in 0 .. Len(Stream) /\ taken \in 0 .. arrived /\ want \in 0 .. 255
    BY <2>1 DEF IndInv, Typed, Bytes
  <2>5. QED
    BY <2>3, <2>4 DEF TypeOK, IndInv, Typed
<1>2. QED
  BY <1>1, InvHolds, PTL

\* read_head (proxy.rs): whatever a client sends and however it is cut into reads,
\* at most one read beyond the limit is taken from a connection that does not
\* speak SOCKS5.
THEOREM HeadAlwaysLimited == Spec => []HeadLimit
<1>1. IndInv => HeadLimit
  BY DEF IndInv, Limit, HeadLimit, IsSocks
<1>2. QED
  BY <1>1, InvHolds, PTL

\* serve_socks, Handshake::accept and refuse (proxy.rs): on every path a client is
\* told success at most once, last and only when it is served, and a SOCKS5 client
\* that is turned away is told why, once.
THEOREM AlwaysToldOnce == Spec => []ToldOnce
<1>1. QED
  BY ToldSo, InvHolds, PTL

-----------------------------------------------------------------------------
(* What a connection comes to: a second invariant, on top of the first.     *)

\* Where the parts of a SOCKS5 request end.
AtHeader(r)  == 2 + Len(r.methods)
AtAddress(r) == AtHeader(r) + IF r.atyp = ATYP_DOMAIN THEN 5 ELSE 4
AtPort(r)    == AtAddress(r) + Len(r.address)

Offers(r) == METHOD_NONE \in ToSet(r.methods)
Known(r)  == r.version = VERSION /\ r.atyp \in {ATYP_IPV4, ATYP_DOMAIN, ATYP_IPV6}

\* socks::accept has read the parts of the request that come before the one it is
\* at, and knows what they said.
Follows ==
    /\ pc \in {"peek", "greeting"} => taken = 0
    /\ pc = "methods" => taken = 2 /\ want = Len(request.methods)
    /\ pc = "header" => taken = AtHeader(request)
    /\ pc = "domain_len" => taken = AtAddress(request) - 1 /\ request.atyp = ATYP_DOMAIN
    /\ pc = "address" => taken = AtAddress(request) /\ want = Len(request.address)
    /\ pc = "port" => /\ taken = AtPort(request)
                      /\ host = HostOf(request.atyp, request.address)
    /\ pc \in {"header", "domain_len", "address", "port"} => Offers(request)
    /\ pc \in {"domain_len", "address", "port"} =>
         Known(request) /\ header[2] = request.command /\ header[4] = request.atyp

\* Until the request is read nothing is decided and nothing was read too early.
NotYet ==
    pc \in Exact \cup {"peek", "head"} => outcome = Undecided /\ prefix = <<>>

\* What was read too early is what was read behind the request.
HandedOn ==
    /\ outcome.kind = "tunnel" =>
         /\ prefix = SubSeq(Stream, Whole + 1, taken)
         /\ taken >= Whole \/ (taken = arrived /\ closed # "no")
    /\ outcome.kind = "http" => prefix = SubSeq(Stream, 1, taken)
    /\ outcome.kind = "relay" => taken = Whole

AskedInv == Follows /\ NotYet /\ HandedOn /\ AsAsked /\ PlainNameOneRow

-----------------------------------------------------------------------------
(* The parts of a request.                                                  *)

LEMMA Joint ==
    ASSUME NEW s \in Seq(Bytes), NEW t \in Seq(Bytes)
    PROVE  /\ s \o t \in Seq(Bytes)
           /\ Len(s) \in Nat /\ Len(t) \in Nat
           /\ Len(s \o t) = Len(s) + Len(t)
           /\ \A k \in 1 .. Len(s) : k \in 1 .. Len(s \o t) /\ (s \o t)[k] = s[k]
           /\ \A k \in 1 .. Len(t) :
                Len(s) + k \in 1 .. Len(s \o t) /\ (s \o t)[Len(s) + k] = t[k]
<1>1. Len(s) \in Nat /\ Len(t) \in Nat
  BY LenProperties
<1>2. /\ s \o t \in Seq(Bytes)
      /\ Len(s \o t) = Len(s) + Len(t)
      /\ \A k \in 1 .. Len(s) : (s \o t)[k] = s[k]
      /\ \A k \in Len(s) + 1 .. Len(s) + Len(t) : (s \o t)[k] = t[k - Len(s)]
  BY ConcatProperties
<1>3. ASSUME NEW k \in 1 .. Len(t) PROVE (s \o t)[Len(s) + k] = t[k]
  <2>1. Len(s) + k \in Len(s) + 1 .. Len(s) + Len(t) /\ (Len(s) + k) - Len(s) = k
    BY <1>1
  <2>2. QED
    BY <1>2, <2>1
<1>4. /\ \A k \in 1 .. Len(s) : k \in 1 .. Len(s \o t)
      /\ \A k \in 1 .. Len(t) : Len(s) + k \in 1 .. Len(s \o t)
  BY <1>1, <1>2
<1>5. QED
  BY <1>1, <1>2, <1>3, <1>4

\* The request is the start of the stream.
LEMMA WholeFacts ==
    ASSUME request \in Requests
    PROVE  /\ Whole \in Nat /\ Whole >= 1
           /\ Len(Stream) \in Nat /\ Whole <= Len(Stream)
           /\ Serialized(request) \in Seq(Bytes)
           /\ \A k \in 1 .. Whole : Stream[k] = Serialized(request)[k]
<1>1. PICK s \in Seq(Bytes) : s = Serialized(request) /\ s # <<>>
  BY RequestsAssumption
<1>2. PICK p \in Seq(Bytes) : p = Payload
  BY RequestsAssumption
<1>3. /\ Len(s) \in Nat /\ Len(p) \in Nat
      /\ Len(s \o p) = Len(s) + Len(p)
      /\ \A k \in 1 .. Len(s) : (s \o p)[k] = s[k]
  BY Joint
<1>4. Len(s) >= 1
  BY <1>1, <1>3, EmptySeq
<1>5. Stream = s \o p /\ Whole = Len(s)
  BY <1>1, <1>2 DEF Stream, Whole
<1>6. QED
  BY <1>1, <1>3, <1>4, <1>5

LEMMA PortBytes ==
    ASSUME NEW port \in Nat, port <= 65535
    PROVE  /\ to_be(port) \in Seq(Bytes)
           /\ Len(to_be(port)) = 2
           /\ \A q : q[1] = to_be(port)[1] /\ q[2] = to_be(port)[2] => from_be(q) = port
<1>1. /\ port \div 256 \in 0 .. 255 /\ port % 256 \in 0 .. 255
      /\ port = 256 * (port \div 256) + (port % 256)
  OBVIOUS
<1>2. to_be(port)[1] = port \div 256 /\ to_be(port)[2] = port % 256
  BY DEF to_be
<1>3. to_be(port) \in Seq(Bytes) /\ Len(to_be(port)) = 2
  BY <1>1 DEF to_be, Bytes
<1>4. ASSUME NEW q, q[1] = to_be(port)[1], q[2] = to_be(port)[2]
      PROVE  from_be(q) = port
  <2>1. from_be(q) = 256 * (port \div 256) + (port % 256)
    BY <1>2, <1>4 DEF from_be
  <2>2. QED
    BY <1>1, <2>1
<1>5. QED
  BY <1>3, <1>4

\* Tuples of bytes.
LEMMA Single ==
    ASSUME NEW x \in Bytes
    PROVE  <<x>> \in Seq(Bytes) /\ Len(<<x>>) = 1 /\ <<x>>[1] = x
  OBVIOUS

LEMMA Pair ==
    ASSUME NEW x \in Bytes, NEW y \in Bytes
    PROVE  /\ <<x, y>> \in Seq(Bytes) /\ Len(<<x, y>>) = 2
           /\ <<x, y>>[1] = x /\ <<x, y>>[2] = y
  OBVIOUS

LEMMA Quadruple ==
    ASSUME NEW x \in Bytes, NEW y \in Bytes, NEW z \in Bytes, NEW w \in Bytes
    PROVE  /\ <<x, y, z, w>> \in Seq(Bytes) /\ Len(<<x, y, z, w>>) = 4
           /\ <<x, y, z, w>>[1] = x /\ <<x, y, z, w>>[2] = y /\ <<x, y, z, w>>[4] = w
  OBVIOUS

\* Six sequences, one behind the other.
Laid(s, g, m, h, d, a, q) ==
    /\ s \in Seq(Bytes)
    /\ Len(s) = Len(g) + Len(m) + Len(h) + Len(d) + Len(a) + Len(q)
    /\ \A k \in 1 .. Len(g) : s[k] = g[k]
    /\ \A k \in 1 .. Len(m) : s[Len(g) + k] = m[k]
    /\ \A k \in 1 .. Len(h) : s[Len(g) + Len(m) + k] = h[k]
    /\ \A k \in 1 .. Len(d) : s[Len(g) + Len(m) + Len(h) + k] = d[k]
    /\ \A k \in 1 .. Len(a) : s[Len(g) + Len(m) + Len(h) + Len(d) + k] = a[k]
    /\ \A k \in 1 .. Len(q) : s[Len(g) + Len(m) + Len(h) + Len(d) + Len(a) + k] = q[k]

LEMMA SixParts ==
    ASSUME NEW g \in Seq(Bytes), NEW m \in Seq(Bytes), NEW h \in Seq(Bytes),
           NEW d \in Seq(Bytes), NEW a \in Seq(Bytes), NEW q \in Seq(Bytes),
           NEW s, s = g \o m \o h \o d \o a \o q
    PROVE  Laid(s, g, m, h, d, a, q)
<1>1. PICK s1 \in Seq(Bytes) : s1 = g \o m
  BY Joint
<1>2. PICK s2 \in Seq(Bytes) : s2 = s1 \o h
  BY Joint
<1>3. PICK s3 \in Seq(Bytes) : s3 = s2 \o d
  BY Joint
<1>4. PICK s4 \in Seq(Bytes) : s4 = s3 \o a
  BY Joint
<1>5. s = s4 \o q
  BY <1>1, <1>2, <1>3, <1>4
<1>6. /\ Len(g) \in Nat /\ Len(m) \in Nat /\ Len(h) \in Nat /\ Len(d) \in Nat
      /\ Len(a) \in Nat /\ Len(q) \in Nat
  BY LenProperties
<1>7. /\ Len(s1) = Len(g) + Len(m)
      /\ Len(s2) = Len(s1) + Len(h)
      /\ Len(s3) = Len(s2) + Len(d)
      /\ Len(s4) = Len(s3) + Len(a)
      /\ Len(s) = Len(s4) + Len(q)
      /\ s \in Seq(Bytes)
  BY <1>1, <1>2, <1>3, <1>4, <1>5, Joint
<1>8. \A k \in 1 .. Len(s4) : s[k] = s4[k]
  BY <1>5, Joint
<1>9. \A k \in 1 .. Len(s3) : s[k] = s3[k]
  <2>1. \A k \in 1 .. Len(s3) : k \in 1 .. Len(s4) /\ s4[k] = s3[k]
    BY <1>4, Joint
  <2>2. QED
    BY <1>8, <2>1
<1>10. \A k \in 1 .. Len(s2) : s[k] = s2[k]
  <2>1. \A k \in 1 .. Len(s2) : k \in 1 .. Len(s3) /\ s3[k] = s2[k]
    BY <1>3, Joint
  <2>2. QED
    BY <1>9, <2>1
<1>11. \A k \in 1 .. Len(s1) : s[k] = s1[k]
  <2>1. \A k \in 1 .. Len(s1) : k \in 1 .. Len(s2) /\ s2[k] = s1[k]
    BY <1>2, Joint
  <2>2. QED
    BY <1>10, <2>1
<1>12. \A k \in 1 .. Len(g) : s[k] = g[k]
  <2>1. \A k \in 1 .. Len(g) : k \in 1 .. Len(s1) /\ s1[k] = g[k]
    BY <1>1, Joint
  <2>2. QED
    BY <1>11, <2>1
<1>13. \A k \in 1 .. Len(m) : s[Len(g) + k] = m[k]
  <2>1. \A k \in 1 .. Len(m) : Len(g) + k \in 1 .. Len(s1) /\ s1[Len(g) + k] = m[k]
    BY <1>1, Joint
  <2>2. QED
    BY <1>11, <2>1
<1>14. \A k \in 1 .. Len(h) : s[Len(s1) + k] = h[k]
  <2>1. \A k \in 1 .. Len(h) : Len(s1) + k \in 1 .. Len(s2) /\ s2[Len(s1) + k] = h[k]
    BY <1>2, Joint
  <2>2. QED
    BY <1>10, <2>1
<1>15. \A k \in 1 .. Len(d) : s[Len(s2) + k] = d[k]
  <2>1. \A k \in 1 .. Len(d) : Len(s2) + k \in 1 .. Len(s3) /\ s3[Len(s2) + k] = d[k]
    BY <1>3, Joint
  <2>2. QED
    BY <1>9, <2>1
<1>16. \A k \in 1 .. Len(a) : s[Len(s3) + k] = a[k]
  <2>1. \A k \in 1 .. Len(a) : Len(s3) + k \in 1 .. Len(s4) /\ s4[Len(s3) + k] = a[k]
    BY <1>4, Joint
  <2>2. QED
    BY <1>8, <2>1
<1>17. \A k \in 1 .. Len(q) : s[Len(s4) + k] = q[k]
  BY <1>5, Joint
<1>18. /\ Len(s1) = Len(g) + Len(m)
       /\ Len(s2) = Len(g) + Len(m) + Len(h)
       /\ Len(s3) = Len(g) + Len(m) + Len(h) + Len(d)
       /\ Len(s4) = Len(g) + Len(m) + Len(h) + Len(d) + Len(a)
       /\ Len(s) = Len(g) + Len(m) + Len(h) + Len(d) + Len(a) + Len(q)
  BY <1>6, <1>7
<1>19. QED
  BY <1>7, <1>12, <1>13, <1>14, <1>15, <1>16, <1>17, <1>18, Zenon DEF Laid

LEMMA SocksShape ==
    ASSUME NEW r \in Requests, r.proto = "socks"
    PROVE  /\ r.methods \in Seq(Bytes) /\ Len(r.methods) \in Bytes
           /\ r.version \in Bytes /\ r.command \in Bytes /\ r.atyp \in Bytes
           /\ r.address \in Seq(Bytes) /\ r.port \in Nat /\ r.port <= 65535
           /\ r.atyp = ATYP_IPV4 => Len(r.address) = Ipv4Len
           /\ r.atyp = ATYP_IPV6 => Len(r.address) = Ipv6Len
           /\ r.atyp = ATYP_DOMAIN => Len(r.address) \in Bytes
  BY SocksRequestsAssumption

\* The length byte that only a domain has.
LEMMA LengthByte ==
    ASSUME NEW atyp, NEW l, atyp = ATYP_DOMAIN => l \in Bytes
    PROVE  \E d \in Seq(Bytes) :
              /\ d = IF atyp = ATYP_DOMAIN THEN <<l>> ELSE <<>>
              /\ Len(d) = IF atyp = ATYP_DOMAIN THEN 1 ELSE 0
              /\ atyp = ATYP_DOMAIN => d[1] = l
<1>1. PICK d : d = IF atyp = ATYP_DOMAIN THEN <<l>> ELSE <<>>
  OBVIOUS
<1>2. CASE atyp = ATYP_DOMAIN
  <2>1. d \in Seq(Bytes) /\ Len(d) = 1 /\ d[1] = l
    BY <1>1, <1>2, Single, Zenon
  <2>2. QED
    BY <1>1, <1>2, <2>1
<1>3. CASE atyp # ATYP_DOMAIN
  <2>1. d \in Seq(Bytes) /\ Len(d) = 0
    BY <1>1, <1>3
  <2>2. Len(d) = IF atyp = ATYP_DOMAIN THEN 1 ELSE 0
    BY <1>3, <2>1
  <2>3. QED
    BY <1>1, <1>3, <2>1, <2>2, Zenon
<1>4. QED
  BY <1>2, <1>3

\* The bytes of a SOCKS5 request.
LEMMA SocksBytes ==
    ASSUME NEW r \in Requests, r.proto = "socks", NEW s, s = Serialized(r)
    PROVE  /\ AtHeader(r) \in Nat /\ AtAddress(r) \in Nat /\ AtPort(r) \in Nat
           /\ AtHeader(r) + 4 <= AtAddress(r)
           /\ Len(s) = AtPort(r) + 2
           /\ s[2] = Len(r.methods)
           /\ \A k \in 1 .. Len(r.methods) : s[2 + k] = r.methods[k]
           /\ s[AtHeader(r) + 1] = r.version
           /\ s[AtHeader(r) + 2] = r.command
           /\ s[AtHeader(r) + 4] = r.atyp
           /\ r.atyp = ATYP_DOMAIN => s[AtAddress(r)] = Len(r.address)
           /\ \A k \in 1 .. Len(r.address) : s[AtAddress(r) + k] = r.address[k]
           /\ s[AtPort(r) + 1] = to_be(r.port)[1]
           /\ s[AtPort(r) + 2] = to_be(r.port)[2]
<1>1. /\ Len(r.methods) \in Bytes
      /\ r.version \in Bytes /\ r.command \in Bytes /\ r.atyp \in Bytes
      /\ r.port \in Nat /\ r.port <= 65535
      /\ r.atyp = ATYP_DOMAIN => Len(r.address) \in Bytes
  BY SocksShape
<1>2. VERSION \in Bytes /\ 0 \in Bytes
  BY DEF VERSION, Bytes
<1>3. PICK m \in Seq(Bytes) : m = r.methods
  BY SocksShape
<1>4. PICK a \in Seq(Bytes) : a = r.address
  BY SocksShape
<1>5. PICK q \in Seq(Bytes) : q = to_be(r.port) /\ Len(q) = 2
  BY <1>1, PortBytes
<1>6. PICK g \in Seq(Bytes) : g = <<VERSION, Len(m)>> /\ Len(g) = 2 /\ g[2] = Len(m)
  <2>1. PICK v \in Bytes, l \in Bytes : v = VERSION /\ l = Len(m)
    BY <1>1, <1>2, <1>3
  <2>2. <<v, l>> \in Seq(Bytes) /\ Len(<<v, l>>) = 2 /\ <<v, l>>[2] = l
    BY Pair
  <2>3. QED
    BY <2>1, <2>2, Zenon
<1>7. PICK h \in Seq(Bytes) : /\ h = <<r.version, r.command, 0, r.atyp>> /\ Len(h) = 4
                              /\ h[1] = r.version /\ h[2] = r.command /\ h[4] = r.atyp
  <2>1. PICK v \in Bytes, c \in Bytes, z \in Bytes, t \in Bytes :
            v = r.version /\ c = r.command /\ z = 0 /\ t = r.atyp
    BY <1>1, <1>2
  <2>2. /\ <<v, c, z, t>> \in Seq(Bytes) /\ Len(<<v, c, z, t>>) = 4
        /\ <<v, c, z, t>>[1] = v /\ <<v, c, z, t>>[2] = c /\ <<v, c, z, t>>[4] = t
    BY Quadruple
  <2>3. QED
    BY <2>1, <2>2, Zenon
<1>8. PICK d \in Seq(Bytes) :
          /\ d = IF r.atyp = ATYP_DOMAIN THEN <<Len(a)>> ELSE <<>>
          /\ Len(d) = IF r.atyp = ATYP_DOMAIN THEN 1 ELSE 0
          /\ r.atyp = ATYP_DOMAIN => d[1] = Len(a)
  <2>1. r.atyp = ATYP_DOMAIN => Len(a) \in Bytes
    BY <1>1, <1>4
  <2>2. QED
    BY <2>1, LengthByte, Zenon
<1>9. s = g \o m \o h \o d \o a \o q
  BY <1>3, <1>4, <1>5, <1>6, <1>7, <1>8 DEF Serialized
<1>10. Laid(s, g, m, h, d, a, q)
  BY <1>9, SixParts, Zenon
<1>11. Len(m) \in Nat /\ Len(a) \in Nat /\ Len(d) \in Nat
  BY LenProperties
<1>12. /\ AtHeader(r) = Len(g) + Len(m)
       /\ AtAddress(r) = Len(g) + Len(m) + Len(h) + Len(d)
       /\ AtPort(r) = Len(g) + Len(m) + Len(h) + Len(d) + Len(a)
  <2>1. AtHeader(r) = Len(g) + Len(m)
    BY <1>3, <1>6 DEF AtHeader
  <2>2. AtAddress(r) = Len(g) + Len(m) + (4 + Len(d))
    <3>1. AtAddress(r) = AtHeader(r) + IF r.atyp = ATYP_DOMAIN THEN 5 ELSE 4
      BY DEF AtAddress
    <3>2. (IF r.atyp = ATYP_DOMAIN THEN 5 ELSE 4) = 4 + Len(d)
      BY <1>8
    <3>3. QED
      BY <2>1, <3>1, <3>2
  <2>3. AtPort(r) = AtAddress(r) + Len(a)
    BY <1>4 DEF AtPort
  <2>4. Len(g) \in Nat /\ Len(h) = 4
    BY <1>6, <1>7
  <2>5. AtAddress(r) = Len(g) + Len(m) + Len(h) + Len(d)
    BY <1>11, <2>2, <2>4
  <2>6. QED
    BY <2>1, <2>3, <2>5
<1>13. /\ AtHeader(r) \in Nat /\ AtAddress(r) \in Nat /\ AtPort(r) \in Nat
       /\ AtHeader(r) + 4 <= AtAddress(r)
       /\ Len(s) = AtPort(r) + 2
  BY <1>5, <1>6, <1>7, <1>10, <1>11, <1>12 DEF Laid
<1>14. /\ s[2] = Len(r.methods)
       /\ \A k \in 1 .. Len(r.methods) : s[2 + k] = r.methods[k]
  <2>1. 2 \in 1 .. Len(g)
    BY <1>6
  <2>2. s[2] = g[2]
    BY <1>10, <2>1 DEF Laid
  <2>3. \A k \in 1 .. Len(m) : s[2 + k] = m[k]
    BY <1>6, <1>10 DEF Laid
  <2>4. QED
    BY <1>3, <1>6, <2>2, <2>3
<1>15. /\ s[AtHeader(r) + 1] = r.version
       /\ s[AtHeader(r) + 2] = r.command
       /\ s[AtHeader(r) + 4] = r.atyp
  <2>1. 1 \in 1 .. Len(h) /\ 2 \in 1 .. Len(h) /\ 4 \in 1 .. Len(h)
    BY <1>7
  <2>2. \A k \in 1 .. Len(h) : s[AtHeader(r) + k] = h[k]
    BY <1>10, <1>12 DEF Laid
  <2>3. s[AtHeader(r) + 1] = h[1] /\ s[AtHeader(r) + 2] = h[2] /\ s[AtHeader(r) + 4] = h[4]
    BY <2>1, <2>2, Zenon
  <2>4. QED
    BY <1>7, <2>3, Zenon
<1>16. r.atyp = ATYP_DOMAIN => s[AtAddress(r)] = Len(r.address)
  <2> SUFFICES ASSUME r.atyp = ATYP_DOMAIN PROVE s[AtAddress(r)] = Len(r.address)
    OBVIOUS
  <2>1. Len(d) = 1 /\ d[1] = Len(a)
    BY <1>8
  <2>2. s[Len(g) + Len(m) + Len(h) + 1] = d[1]
    BY <1>10, <2>1 DEF Laid
  <2>3. QED
    BY <1>4, <1>12, <2>1, <2>2
<1>17. \A k \in 1 .. Len(r.address) : s[AtAddress(r) + k] = r.address[k]
  BY <1>4, <1>10, <1>12 DEF Laid
<1>18. s[AtPort(r) + 1] = q[1] /\ s[AtPort(r) + 2] = q[2]
  <2>1. 1 \in 1 .. Len(q) /\ 2 \in 1 .. Len(q)
    BY <1>5
  <2>2. \A k \in 1 .. Len(q) : s[AtPort(r) + k] = q[k]
    BY <1>10, <1>12 DEF Laid
  <2>3. QED
    BY <2>1, <2>2, Zenon
<1>19. QED
  BY <1>5, <1>13, <1>14, <1>15, <1>16, <1>17, <1>18

LEMMA SocksStream ==
    ASSUME request \in Requests, IsSocks
    PROVE  /\ AtHeader(request) \in Nat /\ AtAddress(request) \in Nat /\ AtPort(request) \in Nat
           /\ Len(request.methods) \in Nat /\ Len(request.address) \in Nat
           /\ AtHeader(request) = 2 + Len(request.methods)
           /\ AtHeader(request) + 4 <= AtAddress(request)
           /\ AtPort(request) = AtAddress(request) + Len(request.address)
           /\ Whole = AtPort(request) + 2
           /\ Stream[2] = Len(request.methods)
           /\ \A k \in 1 .. Len(request.methods) : Stream[2 + k] = request.methods[k]
           /\ Stream[AtHeader(request) + 1] = request.version
           /\ Stream[AtHeader(request) + 2] = request.command
           /\ Stream[AtHeader(request) + 4] = request.atyp
           /\ request.atyp = ATYP_DOMAIN => Stream[AtAddress(request)] = Len(request.address)
           /\ \A k \in 1 .. Len(request.address) :
                Stream[AtAddress(request) + k] = request.address[k]
           /\ Stream[AtPort(request) + 1] = to_be(request.port)[1]
           /\ Stream[AtPort(request) + 2] = to_be(request.port)[2]
<1>1. PICK r \in Requests : r = request /\ r.proto = "socks"
  BY DEF IsSocks
<1>2. PICK s : s = Serialized(r)
  OBVIOUS
<1>3. PICK m \in Nat : m = Len(r.methods)
  BY <1>1, SocksShape, LenProperties
<1>4. PICK a \in Nat : a = Len(r.address)
  BY <1>1, SocksShape, LenProperties
<1>5. AtHeader(r) = 2 + m /\ AtPort(r) = AtAddress(r) + a
  BY <1>3, <1>4 DEF AtHeader, AtPort
<1>6. /\ AtHeader(r) \in Nat /\ AtAddress(r) \in Nat /\ AtPort(r) \in Nat
      /\ AtHeader(r) + 4 <= AtAddress(r)
      /\ Len(s) = AtPort(r) + 2
  BY <1>1, <1>2, SocksBytes
<1>7. \A k \in 1 .. Len(s) : Stream[k] = s[k]
  BY <1>1, <1>2, WholeFacts DEF Whole
<1>8. Whole = AtPort(r) + 2
  BY <1>1, <1>2, <1>6 DEF Whole
<1>9. Stream[2] = m
  <2>1. s[2] = m
    BY <1>1, <1>2, <1>3, SocksBytes
  <2>2. 2 \in 1 .. Len(s)
    BY <1>5, <1>6
  <2>3. QED
    BY <1>7, <2>1, <2>2
<1>10. \A k \in 1 .. m : Stream[2 + k] = r.methods[k]
  <2>1. \A k \in 1 .. m : s[2 + k] = r.methods[k]
    BY <1>1, <1>2, <1>3, SocksBytes
  <2>2. \A k \in 1 .. m : 2 + k \in 1 .. Len(s)
    BY <1>5, <1>6
  <2>3. QED
    BY <1>7, <2>1, <2>2
<1>11. /\ Stream[AtHeader(r) + 1] = r.version
       /\ Stream[AtHeader(r) + 2] = r.command
       /\ Stream[AtHeader(r) + 4] = r.atyp
  <2>1. /\ s[AtHeader(r) + 1] = r.version
        /\ s[AtHeader(r) + 2] = r.command
        /\ s[AtHeader(r) + 4] = r.atyp
    BY <1>1, <1>2, SocksBytes
  <2>2. /\ AtHeader(r) + 1 \in 1 .. Len(s) /\ AtHeader(r) + 2 \in 1 .. Len(s)
        /\ AtHeader(r) + 4 \in 1 .. Len(s)
    BY <1>5, <1>6
  <2>3. QED
    BY <1>7, <2>1, <2>2
<1>12. r.atyp = ATYP_DOMAIN => Stream[AtAddress(r)] = a
  <2>1. r.atyp = ATYP_DOMAIN => s[AtAddress(r)] = a
    BY <1>1, <1>2, <1>4, SocksBytes
  <2>2. AtAddress(r) \in 1 .. Len(s)
    BY <1>5, <1>6
  <2>3. QED
    BY <1>7, <2>1, <2>2
<1>13. \A k \in 1 .. a : Stream[AtAddress(r) + k] = r.address[k]
  <2>1. \A k \in 1 .. a : s[AtAddress(r) + k] = r.address[k]
    BY <1>1, <1>2, <1>4, SocksBytes
  <2>2. \A k \in 1 .. a : AtAddress(r) + k \in 1 .. Len(s)
    BY <1>5, <1>6
  <2>3. QED
    BY <1>7, <2>1, <2>2
<1>14. Stream[AtPort(r) + 1] = to_be(r.port)[1] /\ Stream[AtPort(r) + 2] = to_be(r.port)[2]
  <2>1. s[AtPort(r) + 1] = to_be(r.port)[1] /\ s[AtPort(r) + 2] = to_be(r.port)[2]
    BY <1>1, <1>2, SocksBytes
  <2>2. AtPort(r) + 1 \in 1 .. Len(s) /\ AtPort(r) + 2 \in 1 .. Len(s)
    BY <1>6
  <2>3. QED
    BY <1>7, <2>1, <2>2
<1>15. QED
  BY <1>1, <1>3, <1>4, <1>5, <1>6, <1>8, <1>9, <1>10, <1>11, <1>12, <1>13, <1>14, Zenon

\* A read_exact that starts and ends with a part of the request reads that part.
LEMMA ReadsPart ==
    ASSUME Typed, arrived - taken >= want, NEW part \in Seq(Bytes), Len(part) = want,
           \A k \in 1 .. want : Stream[taken + k] = part[k]
    PROVE  data = part
<1>1. PICK t \in Nat, w \in Nat : t = taken /\ w = want
  BY DEF Typed, Bytes
<1>2. Stream \in Seq(Bytes) /\ Len(Stream) \in Nat
  BY StreamFacts DEF Typed
<1>3. t + w <= Len(Stream)
  BY <1>1, <1>2 DEF Typed
<1>4. \A k \in t + 1 .. t + w : Stream[k] \in Bytes
  BY <1>2, <1>3
<1>5. SubSeq(Stream, t + 1, t + w) \in Seq(Bytes)
  BY <1>4, SubSeqProperties, t + 1 \in Int, t + w \in Int
<1>6. data \in Seq(Bytes)
  BY <1>1, <1>5 DEF data
<1>7. Len(data) = w /\ \A k \in 1 .. w : data[k] = part[k]
  BY <1>1, DataFacts
<1>8. QED
  BY <1>1, <1>6, <1>7, SeqEqual

\* trim_end_matches cuts a text behind the last character that is not c.
LEMMA TrimEnd ==
    ASSUME NEW s \in Seq(Nat), NEW c, NEW n \in 0 .. Len(s),
           \A i \in n + 1 .. Len(s) : s[i] = c,
           n > 0 => s[n] # c
    PROVE  trim_end_matches(s, c) = SubSeq(s, 1, n)
<1> DEFINE I == {i \in 1 .. Len(s) : s[i] # c}
<1>1. Len(s) \in Nat
  BY LenProperties
<1>2. \A i \in I : i <= n
  BY <1>1
<1>3. CASE n = 0
  <2>1. I = {}
    BY <1>2, <1>3
  <2>2. QED
    BY <1>3, <2>1 DEF trim_end_matches, SelectLastInSeq
<1>4. CASE n > 0
  <2>1. n \in I
    BY <1>1, <1>4
  <2>2. \A x \in I : (\A y \in I : x >= y) <=> x = n
    BY <1>1, <1>2, <2>1
  <2>3. Max(I) = n
    <3> HIDE DEF I
    <3>1. QED
      BY <2>1, <2>2 DEF Max
  <2>4. I # {}
    BY <2>1
  <2>5. QED
    BY <2>3, <2>4 DEF trim_end_matches, SelectLastInSeq
<1>5. QED
  BY <1>1, <1>3, <1>4

\* The start of a sequence.
LEMMA Start ==
    ASSUME NEW S, NEW s \in Seq(S), NEW n \in 0 .. Len(s)
    PROVE  /\ SubSeq(s, 1, n) \in Seq(S)
           /\ Len(SubSeq(s, 1, n)) = n
           /\ \A i \in 1 .. n : SubSeq(s, 1, n)[i] = s[i]
<1>1. Len(s) \in Nat /\ n \in Int /\ n >= 0
  BY LenProperties
<1>2. \A i \in 1 .. n : s[i] \in S
  BY <1>1, ElementOfSeq
<1>3. /\ SubSeq(s, 1, n) \in Seq(S)
      /\ Len(SubSeq(s, 1, n)) = IF 1 <= n THEN n - 1 + 1 ELSE 0
      /\ \A i \in 1 .. n - 1 + 1 : SubSeq(s, 1, n)[i] = s[1 + i - 1]
  BY <1>1, <1>2, SubSeqProperties, 1 \in Int
<1>4. QED
  BY <1>1, <1>3

\* The bytes of a domain that are no UTF-8 are replaced one by one, before the
\* dots are cut off.
LEMMA LossyStart ==
    ASSUME NEW s \in Seq(Bytes), NEW n \in 0 .. Len(s)
    PROVE  /\ from_utf8_lossy(s) \in Seq(Nat)
           /\ Len(from_utf8_lossy(s)) = Len(s)
           /\ \A i \in 1 .. Len(s) : from_utf8_lossy(s)[i] = Dot <=> s[i] = Dot
           /\ SubSeq(from_utf8_lossy(s), 1, n) = from_utf8_lossy(SubSeq(s, 1, n))
<1>1. Len(s) \in Nat /\ DOMAIN s = 1 .. Len(s)
  BY LenProperties
<1>2. \A i \in 1 .. Len(s) : s[i] \in Nat
  <2>1. \A b \in Bytes : b \in Nat
    BY DEF Bytes
  <2>2. QED
    BY <2>1, ElementOfSeq
<1>3. from_utf8_lossy(s) = [i \in 1 .. Len(s) |-> IF s[i] > 127 THEN Replacement ELSE s[i]]
  BY <1>1 DEF from_utf8_lossy
<1>4. from_utf8_lossy(s) \in Seq(Nat) /\ Len(from_utf8_lossy(s)) = Len(s)
  BY <1>1, <1>2, <1>3 DEF Replacement
<1>5. \A i \in 1 .. Len(s) : from_utf8_lossy(s)[i] = Dot <=> s[i] = Dot
  BY <1>2, <1>3 DEF Replacement, Dot
<1>6. PICK t \in Seq(Bytes) : /\ t = SubSeq(s, 1, n) /\ Len(t) = n
                              /\ \A i \in 1 .. n : t[i] = s[i]
  BY Start
<1>7. DOMAIN t = 1 .. n
  BY <1>6, LenProperties
<1>8. from_utf8_lossy(t) = [i \in 1 .. n |-> IF s[i] > 127 THEN Replacement ELSE s[i]]
  BY <1>6, <1>7 DEF from_utf8_lossy
<1>9. n \in Nat /\ n <= Len(s)
  BY <1>1
<1>10. from_utf8_lossy(t) \in Seq(Nat) /\ Len(from_utf8_lossy(t)) = n
  BY <1>2, <1>8, <1>9 DEF Replacement
<1>11. /\ SubSeq(from_utf8_lossy(s), 1, n) \in Seq(Nat)
       /\ Len(SubSeq(from_utf8_lossy(s), 1, n)) = n
       /\ \A i \in 1 .. n : SubSeq(from_utf8_lossy(s), 1, n)[i] = from_utf8_lossy(s)[i]
  BY <1>4, Start
<1>12. \A i \in 1 .. n : SubSeq(from_utf8_lossy(s), 1, n)[i] = from_utf8_lossy(t)[i]
  BY <1>3, <1>8, <1>9, <1>11
<1>13. SubSeq(from_utf8_lossy(s), 1, n) = from_utf8_lossy(t)
  BY <1>9, <1>10, <1>11, <1>12, SeqEqual
<1>14. QED
  BY <1>4, <1>5, <1>6, <1>13

\* socks::accept makes the name of the host from the address as it was sent.
LEMMA SocksName ==
    ASSUME NEW r \in Requests, r.proto = "socks"
    PROVE  HostOf(r.atyp, r.address) = r.name
<1>1. r.address \in Seq(Bytes)
  BY SocksShape
<1>2. CASE r.atyp # ATYP_DOMAIN
  <2>1. r.name = [atyp |-> r.atyp, text |-> r.address]
    BY <1>2, SocksNamesAssumption
  <2>2. QED
    BY <1>2, <2>1 DEF HostOf
<1>3. CASE r.atyp = ATYP_DOMAIN
  <2>1. PICK n \in 0 .. Len(r.address) :
          /\ n > 0 => r.address[n] # Dot
          /\ \A i \in n + 1 .. Len(r.address) : r.address[i] = Dot
          /\ r.name = [atyp |-> ATYP_DOMAIN,
                       text |-> to_ascii_lowercase(from_utf8_lossy(SubSeq(r.address, 1, n)))]
    BY <1>3, SocksNamesAssumption
  <2>2. PICK a \in Seq(Bytes) : a = r.address
    BY <1>1
  <2>3. n \in 0 .. Len(a) /\ Len(a) \in Nat
    BY <2>1, <2>2, LenProperties
  <2>4. PICK t : t = from_utf8_lossy(a)
    OBVIOUS
  <2>5. /\ t \in Seq(Nat) /\ Len(t) = Len(a)
        /\ \A i \in 1 .. Len(a) : t[i] = Dot <=> a[i] = Dot
        /\ SubSeq(t, 1, n) = from_utf8_lossy(SubSeq(a, 1, n))
    BY <2>3, <2>4, LossyStart
  <2>6. \A i \in n + 1 .. Len(t) : t[i] = Dot
    <3>1. \A i \in n + 1 .. Len(a) : i \in 1 .. Len(a)
      BY <2>3
    <3>2. QED
      BY <2>1, <2>2, <2>5, <3>1
  <2>7. n > 0 => t[n] # Dot
    <3>1. n > 0 => n \in 1 .. Len(a)
      BY <2>3
    <3>2. QED
      BY <2>1, <2>2, <2>5, <3>1
  <2>8. trim_end_matches(t, Dot) = SubSeq(t, 1, n)
    BY <2>3, <2>5, <2>6, <2>7, TrimEnd
  <2>9. DomainHost(a) = to_ascii_lowercase(from_utf8_lossy(SubSeq(a, 1, n)))
    BY <2>4, <2>5, <2>8 DEF DomainHost
  <2>10. HostOf(r.atyp, r.address) = [atyp |-> ATYP_DOMAIN, text |-> DomainHost(a)]
    BY <1>3, <2>2 DEF HostOf
  <2>11. QED
    BY <2>1, <2>2, <2>9, <2>10
<1>4. QED
  BY <1>2, <1>3

-----------------------------------------------------------------------------
(* SOCKS5: every step keeps the second invariant.                           *)

LEMMA SocksMeaning ==
    ASSUME NEW r, r.proto = "socks"
    PROVE  /\ ~Offers(r) => Meaning(r) = Error("NoAcceptableMethod")
           /\ Offers(r) /\ r.version # VERSION => Meaning(r) = Error("UnsupportedVersion")
           /\ /\ Offers(r) /\ r.version = VERSION
              /\ r.atyp \notin {ATYP_IPV4, ATYP_DOMAIN, ATYP_IPV6}
              => Meaning(r) = Error("UnsupportedAddressType")
           /\ Offers(r) /\ Known(r) =>
                /\ r.command = CMD_CONNECT => Meaning(r) = To("tunnel", r.name, r.port)
                /\ r.command = CMD_UDP_ASSOCIATE => Meaning(r) = To("relay", Nowhere, 0)
                /\ r.command \notin {CMD_CONNECT, CMD_UDP_ASSOCIATE} =>
                     Meaning(r) = Error("UnsupportedCommand")
  BY DEF Meaning, Offers, Known, CMD_CONNECT, CMD_UDP_ASSOCIATE

\* What is made of an outcome, field by field.
LEMMA OutcomeFields ==
    ASSUME NEW kind, NEW h, NEW p
    PROVE  /\ To(kind, h, p).kind = kind /\ To(kind, h, p).host = h
           /\ To(kind, h, p).port = p /\ To(kind, h, p).error = "none"
           /\ \A g : Agree(To(kind, h, p), To(kind, g, p))
           /\ \A e : /\ Error(e).kind = "error" /\ Error(e).error = e
                     /\ Agree(Error(e), Error(e))
           /\ Undecided.kind = "undecided"
  BY DEF To, Error, Agree, Undecided

\* A task that goes on to its next read.
LEMMA GoesOn ==
    ASSUME outcome = Undecided, prefix = <<>>, UNCHANGED <<outcome, prefix>>
    PROVE  NotYet' /\ HandedOn' /\ AsAsked' /\ PlainNameOneRow'
<1>1. outcome'.kind = "undecided"
  BY OutcomeFields
<1>2. QED
  BY <1>1 DEF NotYet, HandedOn, AsAsked, PlainNameOneRow

\* A task that ends with an error.
LEMMA Fails ==
    ASSUME NEW e, pc' = "ended", outcome' = Error(e)
    PROVE  Follows' /\ NotYet' /\ HandedOn' /\ PlainNameOneRow'
<1>1. outcome'.kind = "error"
  BY OutcomeFields
<1>2. QED
  BY <1>1 DEF Follows, NotYet, HandedOn, PlainNameOneRow, Exact

\* A task that ends with the error that its request deserves.
LEMMA Deserves ==
    ASSUME NEW e, pc' = "ended", outcome' = Error(e), Meaning(request) = Error(e),
           request' = request
    PROVE  AskedInv'
<1>1. Agree(outcome', Meaning(request'))
  BY OutcomeFields
<1>2. AsAsked'
  BY <1>1 DEF AsAsked
<1>3. QED
  BY <1>2, Fails DEF AskedInv

\* Nothing that the invariant is about.
LEMMA AsBefore ==
    ASSUME AskedInv, UNCHANGED <<request, arrived, closed, taken, outcome, prefix>>,
           pc' \in {"open", "ended", "serving"}
    PROVE  AskedInv'
<1>1. Stream' = Stream /\ Whole' = Whole
  BY DEF Stream, Whole
<1>2. Follows' /\ NotYet'
  BY DEF Follows, NotYet, Exact
<1>3. HandedOn'
  BY <1>1 DEF AskedInv, HandedOn
<1>4. AsAsked'
  BY <1>1 DEF AskedInv, AsAsked
<1>5. PlainNameOneRow'
  BY DEF AskedInv, PlainNameOneRow
<1>6. QED
  BY <1>2, <1>3, <1>4, <1>5 DEF AskedInv

LEMMA InitAsked ==
    ASSUME Init
    PROVE  AskedInv
<1>1. outcome = Undecided /\ outcome.kind = "undecided" /\ prefix = <<>>
  BY OutcomeFields DEF Init
<1>2. pc = "peek" /\ taken = 0
  BY DEF Init
<1>3. QED
  BY <1>1, <1>2 DEF AskedInv, Follows, NotYet, HandedOn, AsAsked, PlainNameOneRow

LEMMA ClientAsked ==
    ASSUME IndInv, AskedInv,
           \/ ByteArrives
           \/ \E how \in {"eof", "reset"} : ClientLeaves(how)
    PROVE  AskedInv'
<1>1. /\ UNCHANGED <<request, want, header, host, taken, pc, outcome, prefix>>
      /\ closed = "no"
      /\ \/ arrived' = arrived + 1
         \/ arrived' = arrived
  BY DEF ByteArrives, ClientLeaves, acceptVars
<1>2. Stream' = Stream /\ Whole' = Whole
  BY <1>1 DEF Stream, Whole
<1>3. Follows'
  BY <1>1 DEF AskedInv, Follows
<1>4. NotYet'
  BY <1>1 DEF AskedInv, NotYet
<1>5. HandedOn'
  BY <1>1, <1>2 DEF AskedInv, HandedOn
<1>6. AsAsked'
  <2>1. \/ outcome = Undecided
        \/ Agree(outcome, Meaning(request))
        \/ outcome.error = "Socket"
        \/ /\ outcome.error = "TooLarge" /\ arrived > MAX_HEAD_BYTES
           /\ request.proto = "http" => Whole > MAX_HEAD_BYTES
    BY <1>1 DEF AskedInv, AsAsked
  <2>2. arrived > MAX_HEAD_BYTES => arrived' > MAX_HEAD_BYTES
    BY <1>1, HandshakeAssumption DEF IndInv, Typed
  <2>3. QED
    BY <1>1, <1>2, <2>1, <2>2 DEF AsAsked
<1>7. PlainNameOneRow'
  BY <1>1 DEF AskedInv, PlainNameOneRow
<1>8. QED
  BY <1>3, <1>4, <1>5, <1>6, <1>7 DEF AskedInv

LEMMA StutterAsked ==
    ASSUME AskedInv, UNCHANGED vars
    PROVE  AskedInv'
<1>1. UNCHANGED <<request, arrived, closed, want, header, host, taken, pc, outcome, prefix>>
  BY DEF vars, clientVars, acceptVars
<1>2. Stream' = Stream /\ Whole' = Whole
  BY <1>1 DEF Stream, Whole
<1>3. Follows' /\ NotYet'
  BY <1>1 DEF AskedInv, Follows, NotYet
<1>4. HandedOn' /\ AsAsked' /\ PlainNameOneRow'
  BY <1>1, <1>2 DEF AskedInv, HandedOn, AsAsked, PlainNameOneRow
<1>5. QED
  BY <1>3, <1>4 DEF AskedInv

LEMMA PeekAsked ==
    ASSUME IndInv, AskedInv, Peek
    PROVE  AskedInv'
<1>1. /\ pc = "peek" /\ pc' \in {"greeting", "head"}
      /\ UNCHANGED <<request, taken, outcome, prefix>>
  BY DEF Peek, Awaits, clientVars
<1>2. taken = 0 /\ outcome = Undecided /\ prefix = <<>>
  BY <1>1 DEF AskedInv, Follows, NotYet
<1>3. Follows'
  BY <1>1, <1>2 DEF Follows
<1>4. QED
  BY <1>1, <1>2, <1>3, GoesOn DEF AskedInv

LEMMA SilentEndAsked ==
    ASSUME IndInv, AskedInv, \/ PeekEnds
                             \/ SocketFails
    PROVE  AskedInv'
<1>1. PICK e \in {"Closed", "Socket"} :
        /\ pc' = "ended" /\ outcome' = Error(e)
        /\ UNCHANGED <<request, arrived, closed>>
        /\ e = "Closed" => closed = "reset" \/ (closed = "eof" /\ arrived = 0)
  BY DEF PeekEnds, SocketFails, Ends, clientVars
<1>2. outcome'.error = e
  BY <1>1, OutcomeFields
<1>3. Whole' = Whole /\ Whole \in Nat /\ Whole >= 1
  BY <1>1, WholeFacts DEF Whole, IndInv, Typed
<1>4. AsAsked'
  <2>1. CASE e = "Socket"
    BY <1>2, <2>1 DEF AsAsked
  <2>2. CASE e = "Closed" /\ closed = "reset"
    BY <1>1, <1>2, <2>2 DEF AsAsked
  <2>3. CASE e = "Closed" /\ closed = "eof" /\ arrived = 0
    <3>1. closed' # "no" /\ arrived' < Whole'
      BY <1>1, <1>3, <2>3
    <3>2. QED
      BY <1>2, <2>3, <3>1 DEF AsAsked
  <2>4. QED
    BY <1>1, <2>1, <2>2, <2>3
<1>5. QED
  BY <1>1, <1>4, Fails DEF AskedInv

\* What every complete read_exact leaves.
LEMMA ReadsAsked ==
    ASSUME IndInv, AskedInv, NEW at \in Exact, Reads(at)
    PROVE  /\ pc = at /\ IsSocks
           /\ arrived - taken >= want /\ taken' = taken + want
           /\ outcome = Undecided /\ prefix = <<>>
           /\ request \in Requests
           /\ Typed
  BY DEF Reads, AskedInv, NotYet, IndInv, Path, Typed

LEMMA GreetingAsked ==
    ASSUME IndInv, AskedInv, Greeting
    PROVE  AskedInv'
<1>1. /\ Reads("greeting")
      /\ pc' = "methods" /\ want' = data[2]
      /\ UNCHANGED <<request, outcome, prefix>>
  BY DEF Greeting, Awaits, clientVars
<1>2. /\ pc = "greeting" /\ IsSocks
      /\ arrived - taken >= want /\ taken' = taken + want
      /\ outcome = Undecided /\ prefix = <<>>
      /\ request \in Requests /\ Typed
  BY <1>1, ReadsAsked DEF Exact
<1>3. taken = 0 /\ want = 2
  BY <1>2 DEF AskedInv, Follows, IndInv, Wants
<1>4. data[2] = Stream[2]
  <2>1. 2 \in 1 .. want
    BY <1>3
  <2>2. data[2] = Stream[taken + 2]
    BY <1>2, <2>1, DataFacts
  <2>3. QED
    BY <1>3, <2>2
<1>5. want' = Len(request.methods)
  BY <1>1, <1>2, <1>4, SocksStream
<1>6. taken' = 2
  BY <1>2, <1>3
<1>7. Follows'
  BY <1>1, <1>5, <1>6 DEF Follows
<1>8. QED
  BY <1>1, <1>2, <1>7, GoesOn DEF AskedInv

LEMMA MethodsAsked ==
    ASSUME IndInv, AskedInv, Methods
    PROVE  AskedInv'
<1>1. /\ Reads("methods")
      /\ UNCHANGED <<request, arrived, closed, header, host>>
      /\ IF METHOD_NONE \in ToSet(data)
         THEN pc' = "header" /\ want' = 4 /\ UNCHANGED <<outcome, prefix>>
         ELSE pc' = "ended" /\ outcome' = Error("NoAcceptableMethod")
  BY DEF Methods, Awaits, Ends, clientVars
<1>2. /\ pc = "methods" /\ IsSocks
      /\ arrived - taken >= want /\ taken' = taken + want
      /\ outcome = Undecided /\ prefix = <<>>
      /\ request \in Requests /\ Typed
  BY <1>1, ReadsAsked DEF Exact
<1>3. taken = 2 /\ want = Len(request.methods)
  BY <1>2 DEF AskedInv, Follows
<1>4. request.methods \in Seq(Bytes)
  BY <1>2, SocksShape DEF IsSocks
<1>5. \A k \in 1 .. want : Stream[taken + k] = request.methods[k]
  BY <1>2, <1>3, SocksStream
<1>6. data = request.methods
  BY <1>2, <1>3, <1>4, <1>5, ReadsPart
<1>7. taken' = AtHeader(request)
  BY <1>2, <1>3 DEF AtHeader
<1>8. CASE METHOD_NONE \in ToSet(data)
  <2>1. Offers(request)
    BY <1>6, <1>8 DEF Offers
  <2>2. Follows'
    BY <1>1, <1>7, <1>8, <2>1 DEF Follows
  <2>3. QED
    BY <1>1, <1>2, <1>8, <2>2, GoesOn DEF AskedInv
<1>9. CASE METHOD_NONE \notin ToSet(data)
  <2>1. ~Offers(request)
    BY <1>6, <1>9 DEF Offers
  <2>2. Meaning(request) = Error("NoAcceptableMethod")
    BY <1>2, <2>1, SocksMeaning DEF IsSocks
  <2>3. QED
    BY <1>1, <1>9, <2>2, Deserves
<1>10. QED
  BY <1>8, <1>9

LEMMA HeaderAsked ==
    ASSUME IndInv, AskedInv, Header
    PROVE  AskedInv'
<1>1. /\ Reads("header")
      /\ UNCHANGED <<request, arrived, closed, host>>
      /\ header' = data
  BY DEF Header, clientVars
<1>2. /\ pc = "header" /\ IsSocks
      /\ arrived - taken >= want /\ taken' = taken + want
      /\ outcome = Undecided /\ prefix = <<>>
      /\ request \in Requests /\ Typed
  BY <1>1, ReadsAsked DEF Exact
<1>3. taken = AtHeader(request) /\ want = 4 /\ Offers(request)
  BY <1>2 DEF AskedInv, Follows, IndInv, Wants
<1>4. data[1] = request.version /\ data[2] = request.command /\ data[4] = request.atyp
  <2>1. 1 \in 1 .. want /\ 2 \in 1 .. want /\ 4 \in 1 .. want
    BY <1>3
  <2>2. \A k \in 1 .. want : data[k] = Stream[taken + k]
    BY <1>2, DataFacts
  <2>3. /\ data[1] = Stream[taken + 1]
        /\ data[2] = Stream[taken + 2]
        /\ data[4] = Stream[taken + 4]
    BY <2>1, <2>2, Zenon
  <2>4. /\ Stream[taken + 1] = request.version
        /\ Stream[taken + 2] = request.command
        /\ Stream[taken + 4] = request.atyp
    BY <1>2, <1>3, SocksStream
  <2>5. QED
    BY <2>3, <2>4
<1>5. taken' = AtHeader(request) + 4
  BY <1>2, <1>3
<1>6. CASE request.version # VERSION
  <2>1. pc' = "ended" /\ outcome' = Error("UnsupportedVersion")
    BY <1>4, <1>6 DEF Header, Rejects, Ends
  <2>2. Meaning(request) = Error("UnsupportedVersion")
    BY <1>2, <1>3, <1>6, SocksMeaning DEF IsSocks
  <2>3. QED
    BY <1>1, <2>1, <2>2, Deserves
<1>7. CASE request.version = VERSION /\ request.atyp \notin {ATYP_IPV4, ATYP_DOMAIN, ATYP_IPV6}
  <2>1. pc' = "ended" /\ outcome' = Error("UnsupportedAddressType")
    BY <1>4, <1>7 DEF Header, Rejects, Ends
  <2>2. Meaning(request) = Error("UnsupportedAddressType")
    BY <1>2, <1>3, <1>7, SocksMeaning DEF IsSocks
  <2>3. QED
    BY <1>1, <2>1, <2>2, Deserves
<1>8. CASE Known(request)
  <2>1. (CASE data[4] = ATYP_IPV4   -> Awaits("address", Ipv4Len)
           [] data[4] = ATYP_IPV6   -> Awaits("address", Ipv6Len)
           [] data[4] = ATYP_DOMAIN -> Awaits("domain_len", 1))
    BY <1>4, <1>8 DEF Header, Known
  <2>2. /\ UNCHANGED <<outcome, prefix>>
        /\ \/ pc' = "address" /\ want' = Ipv4Len /\ request.atyp = ATYP_IPV4
           \/ pc' = "address" /\ want' = Ipv6Len /\ request.atyp = ATYP_IPV6
           \/ pc' = "domain_len" /\ want' = 1 /\ request.atyp = ATYP_DOMAIN
    BY <1>4, <1>8, <2>1 DEF Known, Awaits, ATYP_IPV4, ATYP_IPV6, ATYP_DOMAIN
  <2>3. AtHeader(request) \in Nat
    BY <1>2, SocksStream
  <2>4. CASE request.atyp = ATYP_DOMAIN
    <3>1. taken' = AtAddress(request) - 1
      BY <1>5, <2>3, <2>4 DEF AtAddress
    <3>2. pc' = "domain_len"
      BY <2>2, <2>4 DEF ATYP_IPV4, ATYP_IPV6, ATYP_DOMAIN
    <3>3. Follows'
      BY <1>1, <1>3, <1>4, <1>8, <2>4, <3>1, <3>2 DEF Follows
    <3>4. QED
      BY <1>1, <1>2, <2>2, <3>3, GoesOn DEF AskedInv
  <2>5. CASE request.atyp # ATYP_DOMAIN
    <3>1. taken' = AtAddress(request)
      BY <1>5, <2>3, <2>5 DEF AtAddress
    <3>2. pc' = "address"
      BY <2>2, <2>5
    <3>3. want' = Len(request.address)
      BY <1>2, <2>2, <2>5, SocksShape DEF IsSocks
    <3>4. Follows'
      BY <1>1, <1>3, <1>4, <1>8, <3>1, <3>2, <3>3 DEF Follows
    <3>5. QED
      BY <1>1, <1>2, <2>2, <3>4, GoesOn DEF AskedInv
  <2>6. QED
    BY <2>4, <2>5
<1>9. QED
  BY <1>6, <1>7, <1>8 DEF Known

LEMMA DomainLengthAsked ==
    ASSUME IndInv, AskedInv, DomainLength
    PROVE  AskedInv'
<1>1. /\ Reads("domain_len")
      /\ pc' = "address" /\ want' = data[1]
      /\ UNCHANGED <<request, header, outcome, prefix>>
  BY DEF DomainLength, Awaits, clientVars
<1>2. /\ pc = "domain_len" /\ IsSocks
      /\ arrived - taken >= want /\ taken' = taken + want
      /\ outcome = Undecided /\ prefix = <<>>
      /\ request \in Requests /\ Typed
  BY <1>1, ReadsAsked DEF Exact
<1>3. /\ taken = AtAddress(request) - 1 /\ want = 1 /\ request.atyp = ATYP_DOMAIN
      /\ Offers(request) /\ Known(request)
      /\ header[2] = request.command /\ header[4] = request.atyp
  BY <1>2 DEF AskedInv, Follows, IndInv, Wants
<1>4. AtAddress(request) \in Nat /\ Stream[AtAddress(request)] = Len(request.address)
  BY <1>2, <1>3, SocksStream
<1>5. taken + 1 = AtAddress(request) /\ taken' = AtAddress(request)
  BY <1>2, <1>3, <1>4
<1>6. data[1] = Stream[taken + 1]
  <2>1. 1 \in 1 .. want
    BY <1>3
  <2>2. QED
    BY <1>2, <2>1, DataFacts
<1>7. want' = Len(request.address)
  BY <1>1, <1>4, <1>5, <1>6
<1>8. Follows'
  BY <1>1, <1>3, <1>5, <1>7 DEF Follows
<1>9. QED
  BY <1>1, <1>2, <1>8, GoesOn DEF AskedInv

LEMMA AddressReadAsked ==
    ASSUME IndInv, AskedInv, AddressRead
    PROVE  AskedInv'
<1>1. /\ Reads("address")
      /\ pc' = "port" /\ host' = HostOf(header[4], data)
      /\ UNCHANGED <<request, header, outcome, prefix>>
  BY DEF AddressRead, Awaits, clientVars
<1>2. /\ pc = "address" /\ IsSocks
      /\ arrived - taken >= want /\ taken' = taken + want
      /\ outcome = Undecided /\ prefix = <<>>
      /\ request \in Requests /\ Typed
  BY <1>1, ReadsAsked DEF Exact
<1>3. /\ taken = AtAddress(request) /\ want = Len(request.address)
      /\ Offers(request) /\ Known(request)
      /\ header[2] = request.command /\ header[4] = request.atyp
  BY <1>2 DEF AskedInv, Follows
<1>4. request.address \in Seq(Bytes)
  BY <1>2, SocksShape DEF IsSocks
<1>5. \A k \in 1 .. want : Stream[taken + k] = request.address[k]
  BY <1>2, <1>3, SocksStream
<1>6. data = request.address
  BY <1>2, <1>3, <1>4, <1>5, ReadsPart
<1>7. taken' = AtPort(request)
  BY <1>2, <1>3 DEF AtPort
<1>8. host' = HostOf(request.atyp, request.address)
  BY <1>1, <1>3, <1>6
<1>9. Follows'
  BY <1>1, <1>3, <1>7, <1>8 DEF Follows
<1>10. QED
  BY <1>1, <1>2, <1>9, GoesOn DEF AskedInv

LEMMA PortAsked ==
    ASSUME IndInv, AskedInv, Port
    PROVE  AskedInv'
<1>1. /\ Reads("port")
      /\ UNCHANGED <<request, arrived, closed>>
      /\ \/ /\ header[2] = CMD_CONNECT
            /\ pc' = "dial" /\ outcome' = To("tunnel", host, from_be(data))
            /\ prefix' = prefix
         \/ /\ header[2] = CMD_UDP_ASSOCIATE
            /\ pc' = "bind" /\ outcome' = To("relay", Nowhere, 0)
         \/ /\ header[2] \notin {CMD_CONNECT, CMD_UDP_ASSOCIATE}
            /\ pc' = "ended" /\ outcome' = Error("UnsupportedCommand")
  BY DEF Port, Rejects, Ends, clientVars
<1>2. /\ pc = "port" /\ IsSocks
      /\ arrived - taken >= want /\ taken' = taken + want
      /\ outcome = Undecided /\ prefix = <<>>
      /\ request \in Requests /\ Typed
  BY <1>1, ReadsAsked DEF Exact
<1>3. /\ taken = AtPort(request) /\ want = 2
      /\ host = HostOf(request.atyp, request.address)
      /\ Offers(request) /\ Known(request)
      /\ header[2] = request.command
  BY <1>2 DEF AskedInv, Follows, IndInv, Wants
<1>4. taken' = Whole
  BY <1>2, <1>3, SocksStream
<1>5. Whole' = Whole /\ Stream' = Stream
  BY <1>1 DEF Whole, Stream
<1>6. host = request.name
  BY <1>2, <1>3, SocksName DEF IsSocks
<1>7. from_be(data) = request.port
  <2>1. 1 \in 1 .. want /\ 2 \in 1 .. want
    BY <1>3
  <2>2. \A k \in 1 .. want : data[k] = Stream[taken + k]
    BY <1>2, DataFacts
  <2>3. data[1] = Stream[taken + 1] /\ data[2] = Stream[taken + 2]
    BY <2>1, <2>2, Zenon
  <2>4. /\ Stream[taken + 1] = to_be(request.port)[1]
        /\ Stream[taken + 2] = to_be(request.port)[2]
    BY <1>2, <1>3, SocksStream
  <2>5. request.port \in Nat /\ request.port <= 65535
    BY <1>2, SocksShape DEF IsSocks
  <2>6. QED
    BY <2>3, <2>4, <2>5, PortBytes
<1>8. CASE header[2] = CMD_CONNECT
  <2>1. /\ pc' = "dial" /\ prefix' = <<>>
        /\ outcome' = To("tunnel", request.name, request.port)
    BY <1>1, <1>2, <1>6, <1>7, <1>8 DEF CMD_CONNECT, CMD_UDP_ASSOCIATE
  <2>2. outcome'.kind = "tunnel" /\ outcome'.host = request.name
    BY <2>1, OutcomeFields
  <2>3. Meaning(request) = To("tunnel", request.name, request.port)
    BY <1>2, <1>3, <1>8, SocksMeaning DEF IsSocks
  <2>4. AsAsked'
    BY <1>1, <2>1, <2>3, OutcomeFields DEF AsAsked
  <2>5. PlainNameOneRow'
    BY <1>1, <1>2, <2>2 DEF PlainNameOneRow, IsSocks
  <2>6. SubSeq(Stream, Whole + 1, taken') = <<>>
    <3>1. Whole \in Int
      BY <1>2, WholeFacts
    <3>2. QED
      BY <1>4, <3>1, SubSeqEmpty
  <2>7. HandedOn'
    <3>1. taken' >= Whole'
      BY <1>2, <1>4, <1>5, WholeFacts
    <3>2. QED
      BY <1>5, <2>1, <2>2, <2>6, <3>1 DEF HandedOn
  <2>8. Follows' /\ NotYet'
    BY <2>1 DEF Follows, NotYet, Exact
  <2>9. QED
    BY <2>4, <2>5, <2>7, <2>8 DEF AskedInv
<1>9. CASE header[2] = CMD_UDP_ASSOCIATE
  <2>1. pc' = "bind" /\ outcome' = To("relay", Nowhere, 0)
    BY <1>1, <1>9 DEF CMD_CONNECT, CMD_UDP_ASSOCIATE
  <2>2. outcome'.kind = "relay"
    BY <2>1, OutcomeFields
  <2>3. Meaning(request) = To("relay", Nowhere, 0)
    BY <1>2, <1>3, <1>9, SocksMeaning DEF IsSocks
  <2>4. AsAsked'
    BY <1>1, <2>1, <2>3, OutcomeFields DEF AsAsked
  <2>5. PlainNameOneRow' /\ HandedOn'
    BY <1>4, <1>5, <2>2 DEF PlainNameOneRow, HandedOn
  <2>6. Follows' /\ NotYet'
    BY <2>1 DEF Follows, NotYet, Exact
  <2>7. QED
    BY <2>4, <2>5, <2>6 DEF AskedInv
<1>10. CASE header[2] \notin {CMD_CONNECT, CMD_UDP_ASSOCIATE}
  <2>1. pc' = "ended" /\ outcome' = Error("UnsupportedCommand")
    BY <1>1, <1>10
  <2>2. Meaning(request) = Error("UnsupportedCommand")
    BY <1>2, <1>3, <1>10, SocksMeaning DEF IsSocks
  <2>3. QED
    BY <1>1, <2>1, <2>2, Deserves
<1>11. QED
  BY <1>8, <1>9, <1>10

\* socks::accept never asks for more than the request has.
LEMMA WantsWithin ==
    ASSUME IndInv, AskedInv, pc \in Exact
    PROVE  taken + want <= Whole
<1>1. request \in Requests /\ IsSocks
  BY DEF IndInv, Typed, Path
<1>2. PICK h \in Nat : h = AtHeader(request)
  BY <1>1, SocksStream
<1>3. PICK a \in Nat : a = AtAddress(request)
  BY <1>1, SocksStream
<1>4. PICK p \in Nat : p = AtPort(request)
  BY <1>1, SocksStream
<1>5. PICK m \in Nat : m = Len(request.methods)
  BY <1>1, SocksStream
<1>6. PICK l \in Nat : l = Len(request.address)
  BY <1>1, SocksStream
<1>7. h = 2 + m /\ h + 4 <= a /\ p = a + l /\ Whole = p + 2
  BY <1>1, <1>2, <1>3, <1>4, <1>5, <1>6, SocksStream
<1>8. CASE pc \in {"greeting", "methods", "header"}
  <2>1. \/ taken = 0 /\ want = 2
        \/ taken = 2 /\ want = m
        \/ taken = h /\ want = 4
    BY <1>2, <1>5, <1>8 DEF AskedInv, Follows, IndInv, Wants
  <2>2. QED
    BY <1>7, <2>1
<1>9. CASE pc \in {"domain_len", "address", "port"}
  <2>1. \/ taken = a - 1 /\ want = 1
        \/ taken = a /\ want = l
        \/ taken = p /\ want = 2
    BY <1>3, <1>4, <1>6, <1>9 DEF AskedInv, Follows, IndInv, Wants
  <2>2. QED
    BY <1>7, <2>1
<1>10. QED
  BY <1>8, <1>9 DEF Exact

LEMMA ShortReadAsked ==
    ASSUME IndInv, AskedInv, ShortRead
    PROVE  AskedInv'
<1>1. /\ pc \in Exact
      /\ closed = "reset" \/ (closed = "eof" /\ arrived - taken < want)
      /\ pc' = "ended" /\ outcome' = Error("Io")
      /\ UNCHANGED <<request, arrived, closed>>
  BY DEF ShortRead, Rejects, Ends, clientVars
<1>2. outcome'.error = "Io"
  BY <1>1, OutcomeFields
<1>3. Whole' = Whole
  BY <1>1 DEF Whole
<1>4. closed = "eof" => arrived < Whole
  <2>1. taken + want <= Whole
    BY <1>1, WantsWithin
  <2>2. arrived \in Nat /\ taken \in Nat /\ want \in Nat /\ Whole \in Nat
    BY WholeFacts DEF IndInv, Typed, Bytes
  <2>3. QED
    BY <1>1, <2>1, <2>2
<1>5. AsAsked'
  BY <1>1, <1>2, <1>3, <1>4 DEF AsAsked
<1>6. QED
  BY <1>1, <1>5, Fails DEF AskedInv

-----------------------------------------------------------------------------
(* The head of an HTTP request.                                             *)

\* The least member of a set.
LEMMA MinIs ==
    ASSUME NEW S, S \subseteq Int, NEW x \in S, \A y \in S : x <= y
    PROVE  Min(S) = x
<1>1. \A z \in S : (\A y \in S : z <= y) <=> z = x
  OBVIOUS
<1>2. QED
  BY <1>1 DEF Min

LEMMA MaxIs ==
    ASSUME NEW S, S \subseteq Int, NEW x \in S, \A y \in S : x >= y
    PROVE  Max(S) = x
<1>1. \A z \in S : (\A y \in S : z >= y) <=> z = x
  OBVIOUS
<1>2. QED
  BY <1>1 DEF Max

\* A stretch of a sequence, element by element.
LEMMA Stretch ==
    ASSUME NEW S, NEW s \in Seq(S), NEW i \in Nat, i >= 1, NEW j \in Nat,
           i <= j + 1, j <= Len(s)
    PROVE  /\ SubSeq(s, i, j) \in Seq(S)
           /\ Len(SubSeq(s, i, j)) = j - i + 1
           /\ \A k \in 1 .. j - i + 1 : SubSeq(s, i, j)[k] = s[i + k - 1]
<1>1. Len(s) \in Nat
  BY LenProperties
<1>2. \A k \in i .. j : s[k] \in S
  BY <1>1, ElementOfSeq
<1>3. /\ SubSeq(s, i, j) \in Seq(S)
      /\ Len(SubSeq(s, i, j)) = IF i <= j THEN j - i + 1 ELSE 0
      /\ \A k \in 1 .. j - i + 1 : SubSeq(s, i, j)[k] = s[i + k - 1]
  BY <1>2, SubSeqProperties, i \in Int, j \in Int
<1>4. QED
  BY <1>3

\* Two sequences that agree on a stretch.
LEMMA SameStretch ==
    ASSUME NEW S, NEW s \in Seq(S), NEW t \in Seq(S), NEW i \in Nat, i >= 1, NEW j \in Nat,
           i <= j + 1, j <= Len(s), j <= Len(t),
           \A k \in i .. j : s[k] = t[k]
    PROVE  SubSeq(s, i, j) = SubSeq(t, i, j)
<1>1. PICK u : u = SubSeq(s, i, j)
  OBVIOUS
<1>2. PICK v : v = SubSeq(t, i, j)
  OBVIOUS
<1>3. /\ u \in Seq(S) /\ Len(u) = j - i + 1
      /\ \A k \in 1 .. j - i + 1 : u[k] = s[i + k - 1]
  BY <1>1, Stretch
<1>4. /\ v \in Seq(S) /\ Len(v) = j - i + 1
      /\ \A k \in 1 .. j - i + 1 : v[k] = t[i + k - 1]
  BY <1>2, Stretch
<1>5. \A k \in 1 .. j - i + 1 : i + k - 1 \in i .. j
  OBVIOUS
<1>6. \A k \in 1 .. Len(u) : u[k] = v[k]
  BY <1>5, <1>3, <1>4
<1>7. u = v
  BY <1>6, <1>3, <1>4, SeqEqual
<1>8. QED
  BY <1>1, <1>2, <1>7

\* A stretch that is another sequence.
LEMMA IsStretch ==
    ASSUME NEW S, NEW s \in Seq(S), NEW i \in Nat, i >= 1, NEW t \in Seq(S),
           i + Len(t) <= Len(s) + 1,
           \A k \in 1 .. Len(t) : s[i + k - 1] = t[k]
    PROVE  SubSeq(s, i, i + Len(t) - 1) = t
<1>1. PICK l \in Nat : l = Len(t)
  BY LenProperties
<1>2. PICK j \in Nat : j = i + l - 1
  OBVIOUS
<1>3. i <= j + 1 /\ j <= Len(s) /\ j - i + 1 = l
  BY <1>1, <1>2, LenProperties
<1>4. PICK u : u = SubSeq(s, i, j)
  OBVIOUS
<1>5. /\ u \in Seq(S) /\ Len(u) = j - i + 1
      /\ \A k \in 1 .. j - i + 1 : u[k] = s[i + k - 1]
  BY <1>3, <1>4, Stretch
<1>6. \A k \in 1 .. Len(u) : u[k] = t[k]
  BY <1>1, <1>3, <1>5
<1>7. u = t
  BY <1>1, <1>3, <1>6, <1>5, SeqEqual
<1>8. QED
  BY <1>1, <1>2, <1>4, <1>7

LEMMA CrLf == CRLF \in Seq(Bytes) /\ Len(CRLF) = 2 /\ CRLF[1] = 13 /\ CRLF[2] = 10
<1>1. 13 \in Bytes /\ 10 \in Bytes
  BY DEF Bytes
<1>2. QED
  BY <1>1, Pair DEF CRLF

\* A line end.
LEMMA LineEnd ==
    ASSUME NEW s \in Seq(Bytes), NEW i \in Nat, i >= 1, i < Len(s)
    PROVE  SubSeq(s, i, i + 1) = CRLF <=> s[i] = 13 /\ s[i + 1] = 10
<1>1. Len(s) \in Nat
  BY LenProperties
<1>2. PICK j \in Nat : j = i + 1
  OBVIOUS
<1>3. i <= j + 1 /\ j <= Len(s) /\ j - i + 1 = 2
  BY <1>1, <1>2
<1>4. PICK u : u = SubSeq(s, i, j)
  OBVIOUS
<1>5. /\ u \in Seq(Bytes) /\ Len(u) = j - i + 1
      /\ \A k \in 1 .. j - i + 1 : u[k] = s[i + k - 1]
  BY <1>3, <1>4, Stretch
<1>6. Len(u) = 2 /\ u[1] = s[i] /\ u[2] = s[i + 1]
  <2>1. 1 \in 1 .. j - i + 1 /\ 2 \in 1 .. j - i + 1
    BY <1>3
  <2>2. u[1] = s[i + 1 - 1] /\ u[2] = s[i + 2 - 1]
    BY <1>5, <2>1
  <2>3. i + 1 - 1 = i /\ i + 2 - 1 = i + 1
    OBVIOUS
  <2>4. QED
    BY <1>5, <1>3, <2>2, <2>3
<1>7. PICK c \in Seq(Bytes) : c = CRLF /\ Len(c) = 2 /\ c[1] = 13 /\ c[2] = 10
  BY CrLf
<1>8. u = c <=> u[1] = 13 /\ u[2] = 10
  <2>1. ASSUME u[1] = 13, u[2] = 10 PROVE u = c
    <3>1. \A k \in 1 .. Len(u) : k = 1 \/ k = 2
      BY <1>6
    <3>2. \A k \in 1 .. Len(u) : u[k] = c[k]
      BY <1>7, <2>1, <3>1
    <3>3. QED
      BY <1>5, <1>6, <1>7, <3>2, SeqEqual
  <2>2. QED
    BY <1>7, <2>1
<1>9. QED
  BY <1>6, <1>7, <1>8, <1>2, <1>4

\* s starts with the request line of r, whose method has m bytes, its target t.
HttpLine(s, r, m, t) ==
    /\ s \in Seq(Bytes) /\ m \in Nat /\ t \in Nat
    /\ Len(s) \in Nat /\ Len(s) >= m + t + 7
    /\ m = Len(r.method) /\ t = Len(r.target)
    /\ \A k \in 1 .. m : s[k] = r.method[k]
    /\ s[m + 1] = Space
    /\ \A k \in 1 .. t : s[m + 1 + k] = r.target[k]
    /\ s[m + t + 2] = Space /\ s[m + t + 3] = 86
    /\ s[m + t + 4] = 13 /\ s[m + t + 5] = 10

LEMMA SpaceV ==
    /\ <<Space, 86>> \in Seq(Bytes) /\ Len(<<Space, 86>>) = 2
    /\ <<Space, 86>>[1] = Space /\ <<Space, 86>>[2] = 86
<1>1. 32 \in Bytes /\ 86 \in Bytes
  BY DEF Bytes
<1>2. QED
  BY <1>1, Pair DEF Space

LEMMA HttpBytes ==
    ASSUME NEW r \in Requests, r.proto = "http"
    PROVE  \E m, t \in Nat : HttpLine(Serialized(r), r, m, t)
<1>1. /\ 32 \in Bytes /\ 86 \in Bytes /\ 13 \in Bytes /\ 10 \in Bytes
      /\ Visible \subseteq Bytes
  BY DEF Bytes, Visible
<1>2. PICK s : s = Serialized(r)
  OBVIOUS
<1>3. PICK g \in Seq(Bytes) : g = r.method
  BY <1>1, HttpRequestsAssumption, SeqMonotonic
<1>4. PICK h \in Seq(Bytes) : h = r.target
  BY <1>1, HttpRequestsAssumption, SeqMonotonic
<1>5. PICK f \in Seq(Bytes) : f = r.fields
  BY HttpRequestsAssumption
<1>6. PICK sp \in Seq(Bytes) : sp = <<Space>> /\ Len(sp) = 1 /\ sp[1] = Space
  BY <1>1, Single DEF Space
<1>7. PICK v \in Seq(Bytes) : v = <<Space, 86>> /\ Len(v) = 2 /\ v[1] = Space /\ v[2] = 86
  BY SpaceV
<1>8. PICK c \in Seq(Bytes) : c = CRLF /\ Len(c) = 2 /\ c[1] = 13 /\ c[2] = 10
  BY CrLf
<1>9. s = g \o sp \o h \o v \o c \o f \o c
  BY <1>2, <1>3, <1>4, <1>5, <1>6, <1>7, <1>8 DEF Serialized
<1>10. PICK z : z = g \o sp \o h \o v \o c \o f
  OBVIOUS
<1>11. Laid(z, g, sp, h, v, c, f)
  BY <1>10, SixParts, Zenon
<1>12. z \in Seq(Bytes) /\ s = z \o c
  BY <1>9, <1>10, <1>11 DEF Laid
<1>13. PICK m \in Nat : m = Len(g)
  BY LenProperties
<1>14. PICK t \in Nat : t = Len(h)
  BY LenProperties
<1>15. /\ s \in Seq(Bytes) /\ Len(s) = Len(z) + 2 /\ Len(z) \in Nat
       /\ \A k \in 1 .. Len(z) : s[k] = z[k]
  <2>1. /\ s \in Seq(Bytes) /\ Len(s) = Len(z) + Len(c)
        /\ \A k \in 1 .. Len(z) : s[k] = z[k]
    BY <1>12, Joint
  <2>2. QED
    BY <1>8, <1>12, <2>1, LenProperties
<1>16. Len(z) >= m + t + 5
  <2>1. PICK l \in Nat : l = Len(f)
    BY LenProperties
  <2>2. Len(z) = m + 1 + t + 2 + 2 + l
    BY <1>6, <1>7, <1>8, <1>11, <1>14, <1>13, <2>1 DEF Laid
  <2>3. QED
    BY <2>2
<1>17. Len(s) \in Nat /\ Len(s) >= m + t + 7
  BY <1>15, <1>16
<1>18. \A k \in 1 .. m : s[k] = r.method[k]
  <2>1. \A k \in 1 .. m : z[k] = g[k]
    BY <1>11, <1>14, <1>13 DEF Laid
  <2>2. \A k \in 1 .. m : k \in 1 .. Len(z)
    BY <1>15, <1>16
  <2>3. QED
    BY <1>3, <1>15, <2>1, <2>2
<1>19. s[m + 1] = Space
  <2>1. 1 \in 1 .. Len(sp)
    BY <1>6
  <2>2. z[Len(g) + 1] = sp[1]
    BY <1>11, <2>1 DEF Laid
  <2>3. m + 1 \in 1 .. Len(z)
    BY <1>15, <1>16
  <2>4. QED
    BY <1>6, <1>13, <1>15, <2>2, <2>3
<1>20. \A k \in 1 .. t : s[m + 1 + k] = r.target[k]
  <2>1. \A k \in 1 .. t : z[m + 1 + k] = h[k]
    BY <1>6, <1>11, <1>14, <1>13 DEF Laid
  <2>2. \A k \in 1 .. t : m + 1 + k \in 1 .. Len(z)
    BY <1>15, <1>16
  <2>3. QED
    BY <1>4, <1>15, <2>1, <2>2
<1>21. s[m + t + 2] = Space /\ s[m + t + 3] = 86
  <2>1. 1 \in 1 .. Len(v) /\ 2 \in 1 .. Len(v)
    BY <1>7
  <2>2. \A k \in 1 .. Len(v) : z[m + 1 + t + k] = v[k]
    BY <1>6, <1>11, <1>14, <1>13 DEF Laid
  <2>3. z[m + 1 + t + 1] = v[1] /\ z[m + 1 + t + 2] = v[2]
    BY <2>1, <2>2, Zenon
  <2>4. m + 1 + t + 1 = m + t + 2 /\ m + 1 + t + 2 = m + t + 3
    OBVIOUS
  <2>5. m + t + 2 \in 1 .. Len(z) /\ m + t + 3 \in 1 .. Len(z)
    BY <1>15, <1>16
  <2>6. QED
    BY <1>7, <1>15, <2>3, <2>4, <2>5
<1>22. s[m + t + 4] = 13 /\ s[m + t + 5] = 10
  <2>1. 1 \in 1 .. Len(c) /\ 2 \in 1 .. Len(c)
    BY <1>8
  <2>2. \A k \in 1 .. Len(c) : z[m + 1 + t + 2 + k] = c[k]
    BY <1>6, <1>7, <1>11, <1>14, <1>13 DEF Laid
  <2>3. z[m + 1 + t + 2 + 1] = c[1] /\ z[m + 1 + t + 2 + 2] = c[2]
    BY <2>1, <2>2, Zenon
  <2>4. m + 1 + t + 2 + 1 = m + t + 4 /\ m + 1 + t + 2 + 2 = m + t + 5
    OBVIOUS
  <2>5. m + t + 4 \in 1 .. Len(z) /\ m + t + 5 \in 1 .. Len(z)
    BY <1>15, <1>16
  <2>6. QED
    BY <1>8, <1>15, <2>3, <2>4, <2>5
<1>23. QED
  <2>1. HttpLine(s, r, m, t)
    BY <1>3, <1>4, <1>14, <1>15, <1>17, <1>18, <1>19, <1>20, <1>21, <1>22, <1>13 DEF HttpLine
  <2>2. QED
    BY <1>2, <2>1, Zenon

\* What has been read of the stream.
LEMMA HeadFacts ==
    ASSUME request \in Requests, NEW n \in Nat, n <= Len(Stream), NEW head,
           head = SubSeq(Stream, 1, n)
    PROVE  /\ head \in Seq(Bytes) /\ Len(head) = n
           /\ \A k \in 1 .. n : head[k] = Stream[k]
<1>1. Stream \in Seq(Bytes) /\ Len(Stream) \in Nat
  BY StreamFacts
<1>2. n \in 0 .. Len(Stream)
  BY <1>1
<1>3. QED
  BY <1>1, <1>2, Start

\* Where a blank line ends.
BlankEnds(s) == {i \in 4 .. Len(s) : SubSeq(s, i - 3, i) = CRLF \o CRLF}

\* find_head_end finds the end of the request, and nothing before it.
LEMMA HeadEnd ==
    ASSUME request \in Requests, request.proto = "http",
           NEW n \in Nat, n <= Len(Stream), NEW head, head = SubSeq(Stream, 1, n)
    PROVE  find_head_end(head) = IF n >= Whole THEN Whole ELSE 0
<1>1. PICK s \in Seq(Bytes) : s = Serialized(request)
  BY WholeFacts
<1>2. PICK w \in Nat : w = Whole /\ w = Len(s) /\ w >= 1
  BY <1>1, WholeFacts DEF Whole
<1>3. \A k \in 1 .. w : Stream[k] = s[k]
  BY <1>1, <1>2, WholeFacts
<1>4. /\ head \in Seq(Bytes) /\ Len(head) = n
      /\ \A k \in 1 .. n : head[k] = Stream[k]
  BY HeadFacts
<1>5. \A t : find_head_end(t) = IF BlankEnds(t) = {} THEN 0 ELSE Min(BlankEnds(t))
  BY DEF find_head_end, BlankEnds
<1>6. \A i \in 4 .. w : SubSeq(s, i - 3, i) = CRLF \o CRLF <=> i = w
  BY <1>1, <1>2, HttpRequestsAssumption
<1>7. w >= 4
  <2>1. PICK m \in Nat, t \in Nat : HttpLine(s, request, m, t)
    BY <1>1, HttpBytes
  <2>2. Len(s) >= m + t + 7
    BY <2>1 DEF HttpLine
  <2>3. QED
    BY <1>2, <2>2
<1>8. w \in BlankEnds(s) /\ \A i \in BlankEnds(s) : w <= i
  <2>1. w \in 4 .. w
    BY <1>7
  <2>2. BlankEnds(s) = {i \in 4 .. w : SubSeq(s, i - 3, i) = CRLF \o CRLF}
    BY <1>2 DEF BlankEnds
  <2>3. \A i \in BlankEnds(s) : i = w
    BY <1>6, <2>2
  <2>4. w \in BlankEnds(s)
    BY <1>6, <2>1, <2>2
  <2>5. QED
    BY <2>3, <2>4
<1>9. ASSUME NEW i \in Nat, i >= 4, i <= n, i <= w
      PROVE  i \in BlankEnds(head) <=> i \in BlankEnds(s)
  <2>1. PICK j \in Nat : j = i - 3 /\ j >= 1 /\ j <= i + 1
    BY <1>9
  <2>2. \A k \in j .. i : k \in 1 .. n /\ k \in 1 .. w
    BY <1>9, <2>1
  <2>3. \A k \in j .. i : head[k] = s[k]
    BY <1>3, <1>4, <2>2
  <2>4. i <= Len(head) /\ i <= Len(s)
    BY <1>2, <1>4, <1>9
  <2>5. SubSeq(head, j, i) = SubSeq(s, j, i)
    BY <1>4, <2>1, <2>3, <2>4, SameStretch
  <2>6. i \in 4 .. Len(head) /\ i \in 4 .. Len(s)
    BY <1>2, <1>4, <1>9, <2>4
  <2>7. QED
    BY <2>1, <2>5, <2>6 DEF BlankEnds
<1>10. \A i \in BlankEnds(head) : i \in Nat /\ i >= 4 /\ i <= n
  BY <1>4 DEF BlankEnds
<1>11. CASE n >= w
  <2>1. w \in BlankEnds(head)
    BY <1>8, <1>9, <1>7, <1>11
  <2>2. ASSUME NEW i \in BlankEnds(head) PROVE w <= i
    <3>1. CASE i <= w
      BY <1>8, <1>9, <1>10, <3>1
    <3>2. CASE ~(i <= w)
      BY <1>10, <3>2
    <3>3. QED
      BY <3>1, <3>2
  <2>3. BlankEnds(head) \subseteq Int
    BY <1>10
  <2>4. Min(BlankEnds(head)) = w
    BY <2>1, <2>2, <2>3, MinIs
  <2>5. QED
    BY <1>2, <1>5, <1>11, <2>1, <2>4
<1>12. CASE ~(n >= w)
  <2>1. BlankEnds(head) = {}
    <3> SUFFICES ASSUME NEW i \in BlankEnds(head) PROVE FALSE
      OBVIOUS
    <3>1. i \in Nat /\ i >= 4 /\ i <= n /\ i < w
      BY <1>10, <1>12
    <3>2. i \in BlankEnds(s)
      BY <1>9, <3>1
    <3>3. QED
      BY <1>8, <3>1, <3>2
  <2>2. QED
    BY <1>2, <1>5, <1>12, <2>1
<1>13. QED
  BY <1>11, <1>12

\* Visible characters are bytes.
LEMMA VisibleBytes ==
    ASSUME NEW s \in Seq(Visible)
    PROVE  s \in Seq(Bytes)
<1>1. Visible \subseteq Bytes
  BY DEF Visible, Bytes
<1>2. QED
  BY <1>1, SeqMonotonic

\* The bytes before the first line end.
LEMMA LineBytes ==
    ASSUME NEW s, NEW r, NEW m \in Nat, NEW t \in Nat, HttpLine(s, r, m, t),
           r.method \in Seq(Visible), r.target \in Seq(Visible),
           NEW k \in 1 .. m + t + 3
    PROVE  /\ s[k] # 13 /\ s[k] \in Nat /\ ~(s[k] > 127)
           /\ s[k] = Space <=> k = m + 1 \/ k = m + t + 2
<1>1. \A x \in Visible : x # 13 /\ x \in Nat /\ ~(x > 127) /\ x # 32
  BY DEF Visible
<1>2. m = Len(r.method) /\ t = Len(r.target)
  BY DEF HttpLine
<1>3. CASE k <= m
  <2>1. k \in 1 .. m
    BY <1>3
  <2>2. s[k] \in Visible
    BY <1>2, <2>1, ElementOfSeq DEF HttpLine
  <2>3. k # m + 1 /\ k # m + t + 2
    BY <1>3
  <2>4. QED
    BY <1>1, <2>2, <2>3 DEF Space
<1>4. CASE k = m + 1 \/ k = m + t + 2
  <2>1. s[k] = 32
    BY <1>4 DEF HttpLine, Space
  <2>2. QED
    BY <1>4, <2>1 DEF Space
<1>5. CASE k >= m + 2 /\ k <= m + t + 1
  <2>1. PICK j \in 1 .. t : k = m + 1 + j
    <3>1. k - m - 1 \in 1 .. t /\ k = m + 1 + (k - m - 1)
      BY <1>5
    <3>2. QED
      BY <3>1
  <2>2. s[k] \in Visible
    <3>1. r.target[j] \in Visible
      BY <1>2, ElementOfSeq
    <3>2. s[m + 1 + j] = r.target[j]
      BY DEF HttpLine
    <3>3. QED
      BY <2>1, <3>1, <3>2
  <2>3. k # m + 1 /\ k # m + t + 2
    BY <1>5
  <2>4. QED
    BY <1>1, <2>2, <2>3 DEF Space
<1>6. CASE k = m + t + 3
  <2>1. s[k] = 86
    BY <1>6 DEF HttpLine
  <2>2. k # m + 1 /\ k # m + t + 2
    BY <1>6
  <2>3. QED
    BY <2>1, <2>2 DEF Space
<1>7. QED
  BY <1>3, <1>4, <1>5, <1>6

LineEnds(head) == {i \in 1 .. Len(head) - 1 : SubSeq(head, i, i + 1) = CRLF}
Spaces(head, end) == {i \in 1 .. end - 1 : head[i] = Space}

\* request_line, given where the line ends and where its spaces are.
LEMMA LineCut ==
    ASSUME NEW head, NEW end, NEW first, NEW second,
           end = IF LineEnds(head) = {} THEN 1 ELSE Min(LineEnds(head)),
           first = Min(Spaces(head, end)),
           second = Min((Spaces(head, end) \ {first}) \cup {end})
    PROVE  request_line(head) =
             IF \/ \E i \in 1 .. end - 1 : head[i] > 127
                \/ Spaces(head, end) = {} \/ first = 1 \/ second = first + 1
             THEN Failed("Malformed")
             ELSE [ok     |-> TRUE,
                   method |-> Before(head, first),
                   target |-> SubSeq(head, first + 1, second - 1)]
  BY DEF request_line, LineEnds, Spaces

\* A line that is not there yet.
LEMMA LineMissing ==
    ASSUME NEW head, LineEnds(head) = {}
    PROVE  request_line(head) = Failed("Malformed")
<1>1. Spaces(head, 1) = {}
  BY DEF Spaces
<1>2. QED
  BY <1>1, LineCut

\* The first n bytes of head are those of s, as far as s goes.
Along(head, s, n) == \A k \in 1 .. n : k <= Len(s) => head[k] = s[k]

\* What is made of the n bytes of a head whose method has m bytes, its target t.
LineIs(line, r, m, t, n) ==
    line = IF n < m + t + 5 \/ m = 0 \/ t = 0 THEN Failed("Malformed")
           ELSE [ok |-> TRUE, method |-> r.method, target |-> r.target]

LEMMA RequestLine ==
    ASSUME NEW s, NEW r, NEW m \in Nat, NEW t \in Nat, HttpLine(s, r, m, t),
           r.method \in Seq(Visible), r.target \in Seq(Visible),
           NEW head \in Seq(Bytes), NEW n \in Nat, Len(head) = n, Along(head, s, n)
    PROVE  LineIs(request_line(head), r, m, t, n)
<1> USE DEF Along
<1> SUFFICES request_line(head) =
               IF n < m + t + 5 \/ m = 0 \/ t = 0 THEN Failed("Malformed")
               ELSE [ok |-> TRUE, method |-> r.method, target |-> r.target]
  BY DEF LineIs
<1>1. Len(s) \in Nat /\ Len(s) >= m + t + 7
  BY DEF HttpLine
<1>2. PICK e \in Nat : e = m + t + 4
  BY <1>1
<1>3. ASSUME NEW k \in 1 .. e - 1, k <= n
      PROVE  /\ head[k] # 13 /\ head[k] \in Nat /\ ~(head[k] > 127)
             /\ head[k] = Space <=> k = m + 1 \/ k = m + t + 2
  <2>1. k \in 1 .. m + t + 3 /\ k \in 1 .. n /\ k <= Len(s)
    BY <1>1, <1>2, <1>3
  <2>2. head[k] = s[k]
    BY <2>1
  <2>3. QED
    BY <2>1, <2>2, LineBytes
<1>4. ASSUME NEW i \in LineEnds(head)
      PROVE  i \in Nat /\ i >= e /\ i < n
  <2>1. i \in Nat /\ i >= 1 /\ i < n /\ SubSeq(head, i, i + 1) = CRLF
    BY DEF LineEnds
  <2>2. head[i] = 13
    BY <2>1, LineEnd
  <2>3. QED
    BY <1>2, <1>3, <2>1, <2>2
<1>5. CASE n < m + t + 5
  <2>1. LineEnds(head) = {}
    <3>1. \A i \in LineEnds(head) : FALSE
      BY <1>1, <1>2, <1>4, <1>5
    <3>2. QED
      BY <3>1
  <2>2. QED
    BY <1>5, <2>1, LineMissing
<1>6. CASE ~(n < m + t + 5)
  <2>1. e >= 1 /\ e + 1 <= n /\ e + 1 <= Len(s)
    BY <1>1, <1>2, <1>6
  <2>2. e \in LineEnds(head)
    <3>1. e \in 1 .. n /\ e + 1 \in 1 .. n
      BY <2>1
    <3>2. head[e] = s[e] /\ head[e + 1] = s[e + 1]
      BY <2>1, <3>1
    <3>3. e + 1 = m + t + 5
      BY <1>1, <1>2
    <3>4. s[m + t + 4] = 13 /\ s[m + t + 5] = 10
      BY DEF HttpLine
    <3>5. head[e] = 13 /\ head[e + 1] = 10
      BY <1>2, <3>2, <3>3, <3>4
    <3>6. SubSeq(head, e, e + 1) = CRLF
      <4>1. e >= 1 /\ e < Len(head)
        BY <2>1
      <4>2. QED
        BY <3>5, <4>1, LineEnd, Zenon
    <3>7. QED
      BY <2>1, <3>6 DEF LineEnds
  <2>3. Min(LineEnds(head)) = e
    <3>1. LineEnds(head) \subseteq Int /\ \A i \in LineEnds(head) : e <= i
      BY <1>4
    <3>2. QED
      BY <2>2, <3>1, MinIs
  <2>4. Spaces(head, e) = {m + 1, m + t + 2}
    <3>1. \A k \in 1 .. e - 1 : head[k] = Space <=> k = m + 1 \/ k = m + t + 2
      BY <1>3, <2>1
    <3>2. m + 1 \in 1 .. e - 1 /\ m + t + 2 \in 1 .. e - 1
      BY <1>1, <1>2
    <3>3. QED
      BY <3>1, <3>2 DEF Spaces
  <2>5. Min(Spaces(head, e)) = m + 1
    <3>1. /\ Spaces(head, e) \subseteq Int /\ m + 1 \in Spaces(head, e)
          /\ \A y \in Spaces(head, e) : m + 1 <= y
      BY <1>1, <2>4
    <3>2. QED
      BY <3>1, MinIs
  <2>6. Min((Spaces(head, e) \ {m + 1}) \cup {e}) = m + t + 2
    <3>1. PICK S : S = (Spaces(head, e) \ {m + 1}) \cup {e}
      OBVIOUS
    <3>2. S = {m + t + 2, e}
      BY <2>4, <3>1
    <3>3. PICK x \in Nat : x = m + t + 2
      OBVIOUS
    <3>4. S \subseteq Int /\ x \in S /\ \A y \in S : x <= y
      BY <1>2, <3>2, <3>3
    <3>5. Min(S) = x
      BY <3>4, MinIs
    <3>6. QED
      BY <3>1, <3>3, <3>5
  <2>7. request_line(head) =
          IF \/ \E i \in 1 .. e - 1 : head[i] > 127
             \/ Spaces(head, e) = {} \/ m + 1 = 1 \/ m + t + 2 = m + 1 + 1
          THEN Failed("Malformed")
          ELSE [ok     |-> TRUE,
                method |-> Before(head, m + 1),
                target |-> SubSeq(head, m + 1 + 1, m + t + 2 - 1)]
    <3>1. e = IF LineEnds(head) = {} THEN 1 ELSE Min(LineEnds(head))
      BY <2>2, <2>3
    <3>2. PICK first : first = m + 1
      OBVIOUS
    <3>3. PICK second : second = m + t + 2
      OBVIOUS
    <3>4. /\ first = Min(Spaces(head, e))
          /\ second = Min((Spaces(head, e) \ {first}) \cup {e})
      BY <2>5, <2>6, <3>2, <3>3
    <3>5. request_line(head) =
            IF \/ \E i \in 1 .. e - 1 : head[i] > 127
               \/ Spaces(head, e) = {} \/ first = 1 \/ second = first + 1
            THEN Failed("Malformed")
            ELSE [ok     |-> TRUE,
                  method |-> Before(head, first),
                  target |-> SubSeq(head, first + 1, second - 1)]
      BY <3>1, <3>4, LineCut, Zenon
    <3>6. QED
      BY <3>2, <3>3, <3>5
  <2>8. ~(\E i \in 1 .. e - 1 : head[i] > 127) /\ Spaces(head, e) # {}
    BY <1>3, <2>1, <2>4
  <2>9. (m + 1 = 1 <=> m = 0) /\ (m + t + 2 = m + 1 + 1 <=> t = 0)
    BY <1>1
  <2>10. Before(head, m + 1) = r.method
    <3>1. \A k \in 1 .. m : k \in 1 .. n /\ k <= Len(s)
      BY <1>1, <1>6
    <3>2. \A k \in 1 .. m : head[k] = r.method[k]
      BY <3>1 DEF HttpLine
    <3>3. PICK g \in Seq(Bytes) : g = r.method /\ Len(g) = m
      BY VisibleBytes DEF HttpLine
    <3>4. \A k \in 1 .. Len(g) : head[1 + k - 1] = g[k]
      BY <1>1, <3>2, <3>3
    <3>5. 1 + Len(g) <= Len(head) + 1
      BY <1>1, <1>6, <3>3
    <3>6. SubSeq(head, 1, 1 + Len(g) - 1) = g
      BY <3>4, <3>5, IsStretch, 1 \in Nat, 1 >= 1
    <3>7. 1 + Len(g) - 1 = m + 1 - 1
      BY <3>3
    <3>8. QED
      BY <3>3, <3>6, <3>7 DEF Before
  <2>11. SubSeq(head, m + 1 + 1, m + t + 2 - 1) = r.target
    <3>1. \A k \in 1 .. t : m + 1 + k \in 1 .. n /\ m + 1 + k <= Len(s)
      BY <1>1, <1>6
    <3>2. \A k \in 1 .. t : head[m + 1 + k] = r.target[k]
      BY <3>1 DEF HttpLine
    <3>3. PICK g \in Seq(Bytes) : g = r.target /\ Len(g) = t
      BY VisibleBytes DEF HttpLine
    <3>4. PICK a \in Nat : a = m + 1 + 1 /\ a >= 1
      BY <1>1
    <3>5. \A k \in 1 .. t : a + k - 1 = m + 1 + k
      BY <1>1, <3>4
    <3>6. \A k \in 1 .. Len(g) : head[a + k - 1] = g[k]
      BY <3>2, <3>3, <3>5
    <3>7. a + Len(g) <= Len(head) + 1
      BY <1>1, <1>6, <3>3, <3>4
    <3>8. SubSeq(head, a, a + Len(g) - 1) = g
      BY <3>4, <3>6, <3>7, IsStretch
    <3>9. a + Len(g) - 1 = m + t + 2 - 1
      BY <1>1, <3>3, <3>4
    <3>10. QED
      BY <3>3, <3>4, <3>8, <3>9
  <2>12. QED
    BY <1>6, <2>7, <2>8, <2>9, <2>10, <2>11
<1>7. QED
  BY <1>5, <1>6

-----------------------------------------------------------------------------
(* The target of a CONNECT.                                                 *)

\* What is left of a text.
LEMMA Rest ==
    ASSUME NEW s \in Seq(Visible), NEW n \in Nat, n <= Len(s)
    PROVE  /\ After(s, n) \in Seq(Visible)
           /\ Len(After(s, n)) = Len(s) - n
           /\ \A k \in 1 .. Len(s) - n : After(s, n)[k] = s[n + k]
<1>1. Len(s) \in Nat
  BY LenProperties
<1>2. PICK i \in Nat : i = n + 1
  OBVIOUS
<1>3. PICK j \in Nat : j = Len(s)
  BY <1>1
<1>4. i >= 1 /\ i <= j + 1 /\ j <= Len(s) /\ j - i + 1 = Len(s) - n
  BY <1>1, <1>2, <1>3
<1>5. PICK u : u = SubSeq(s, i, j)
  OBVIOUS
<1>6. /\ u \in Seq(Visible) /\ Len(u) = j - i + 1
      /\ \A k \in 1 .. j - i + 1 : u[k] = s[i + k - 1]
  BY <1>4, <1>5, Stretch
<1>7. \A k \in 1 .. j - i + 1 : i + k - 1 = n + k
  BY <1>2
<1>8. u = After(s, n)
  BY <1>2, <1>3, <1>5 DEF After
<1>9. QED
  BY <1>4, <1>6, <1>7, <1>8

\* What a text starts with.
LEMMA Starts ==
    ASSUME NEW s \in Seq(Visible), NEW c
    PROVE  /\ StartsWith(s, c) <=> Len(s) >= 1 /\ s[1] = c
           /\ s = <<>> <=> Len(s) = 0
<1>1. Len(s) \in Nat
  BY LenProperties
<1>2. s = <<>> => Len(s) = 0
  OBVIOUS
<1>3. s # <<>> => Len(s) >= 1
  BY <1>1, EmptySeq
<1>4. s # <<>> => Head(s) = s[1]
  OBVIOUS
<1>5. QED
  BY <1>1, <1>2, <1>3, <1>4 DEF StartsWith

\* The tail of what is left.
LEMMA RestOfRest ==
    ASSUME NEW s \in Seq(Visible), NEW n \in Nat, n < Len(s)
    PROVE  Tail(After(s, n)) = After(s, n + 1)
<1>1. Len(s) \in Nat
  BY LenProperties
<1>2. PICK u \in Seq(Visible) : /\ u = After(s, n) /\ Len(u) = Len(s) - n
                                /\ \A k \in 1 .. Len(s) - n : u[k] = s[n + k]
  <2>1. n <= Len(s)
    BY <1>1
  <2>2. QED
    BY <2>1, Rest
<1>3. PICK n1 \in Nat : n1 = n + 1 /\ n1 <= Len(s)
  BY <1>1
<1>4. PICK v \in Seq(Visible) : /\ v = After(s, n1) /\ Len(v) = Len(s) - n1
                                /\ \A k \in 1 .. Len(s) - n1 : v[k] = s[n1 + k]
  BY <1>3, Rest
<1>5. u # <<>>
  BY <1>1, <1>2, Starts
<1>6. PICK w \in Seq(Visible) : /\ w = Tail(u) /\ Len(w) = Len(u) - 1
                                /\ \A k \in 1 .. Len(w) : w[k] = u[k + 1]
  BY <1>5, HeadTailProperties
<1>7. Len(w) = Len(v)
  BY <1>1, <1>2, <1>3, <1>4, <1>6
<1>8. ASSUME NEW k \in 1 .. Len(w) PROVE w[k] = v[k]
  <2>1. k + 1 \in 1 .. Len(s) - n /\ k \in 1 .. Len(s) - n1 /\ n + (k + 1) = n1 + k
    BY <1>1, <1>2, <1>3, <1>6
  <2>2. w[k] = s[n + (k + 1)]
    BY <1>2, <1>6, <2>1
  <2>3. QED
    BY <1>4, <2>1, <2>2
<1>9. w = v
  BY <1>7, <1>8, SeqEqual
<1>10. QED
  BY <1>2, <1>3, <1>4, <1>6, <1>9

\* A port is written without a colon.
LEMMA PortHasNoColon ==
    ASSUME NEW s \in Seq(Visible), parse_u16(s) # NoPort, NEW i \in 1 .. Len(s)
    PROVE  s[i] # Colon
<1>1. Len(s) \in Nat /\ DOMAIN s = 1 .. Len(s)
  BY LenProperties
<1>2. CASE StartsWith(s, PlusSign)
  <2>1. ToSet(Tail(s)) \subseteq Digits
    BY <1>2 DEF parse_u16
  <2>2. s # <<>> /\ s[1] = PlusSign
    BY <1>2, Starts DEF StartsWith
  <2>3. /\ Tail(s) \in Seq(Visible) /\ Len(Tail(s)) = Len(s) - 1
        /\ \A k \in 1 .. Len(Tail(s)) : Tail(s)[k] = s[k + 1]
    BY <2>2, HeadTailProperties
  <2>4. DOMAIN Tail(s) = 1 .. Len(s) - 1
    BY <2>3, LenProperties
  <2>5. CASE i = 1
    BY <2>2, <2>5 DEF PlusSign, Colon
  <2>6. CASE i # 1
    <3>1. PICK k \in 1 .. Len(s) - 1 : i = k + 1
      <4>1. i - 1 \in 1 .. Len(s) - 1 /\ i = (i - 1) + 1
        BY <1>1, <2>6
      <4>2. QED
        BY <4>1
    <3>2. Tail(s)[k] \in Digits
      BY <2>1, <2>4 DEF ToSet
    <3>3. s[i] \in Digits
      BY <2>3, <3>1, <3>2
    <3>4. QED
      BY <3>3 DEF Digits, Colon
  <2>7. QED
    BY <2>5, <2>6
<1>3. CASE ~StartsWith(s, PlusSign)
  <2>1. ToSet(s) \subseteq Digits
    BY <1>3 DEF parse_u16
  <2>2. s[i] \in Digits
    BY <1>1, <2>1 DEF ToSet
  <2>3. QED
    BY <2>2 DEF Digits, Colon
<1>4. QED
  BY <1>2, <1>3

\* A set of positions has a last one.
LEMMA LastOne ==
    ASSUME NEW n \in Nat, NEW I \in SUBSET (1 .. n), I # {}
    PROVE  \E x \in I : \A y \in I : x >= y
<1> DEFINE N == {n - i : i \in I}
<1>1. N \subseteq Nat /\ N # {}
  <2>1. \A i \in I : n - i \in Nat
    OBVIOUS
  <2>2. PICK i : i \in I
    OBVIOUS
  <2>3. n - i \in N
    BY <2>2
  <2>4. QED
    BY <2>1, <2>3
<1>2. PICK m \in N : \A k \in N : ~(<<k, m>> \in OpToRel(<, Nat))
  BY <1>1, NatLessThanWellFounded, WFMin
<1>3. \A k \in N : ~(k < m)
  BY <1>1, <1>2 DEF OpToRel
<1>4. PICK x \in I : m = n - x
  OBVIOUS
<1>5. ASSUME NEW y \in I PROVE x >= y
  <2>1. n - y \in N
    OBVIOUS
  <2>2. ~(n - y < n - x)
    BY <1>3, <1>4, <2>1
  <2>3. QED
    BY <2>2
<1>6. QED
  BY <1>5

\* rsplit_once(':') cuts at the last colon.
LEMMA LastColon ==
    ASSUME NEW s \in Seq(Visible)
    PROVE  /\ \/ ColonOf(s) = 0 /\ \A i \in 1 .. Len(s) : s[i] # Colon
              \/ ColonOf(s) \in 1 .. Len(s) /\ s[ColonOf(s)] = Colon
           /\ \A c \in 1 .. Len(s) :
                s[c] = Colon /\ (\A i \in c + 1 .. Len(s) : s[i] # Colon) => ColonOf(s) = c
<1>1. Len(s) \in Nat
  BY LenProperties
<1>2. PICK I : I = {i \in 1 .. Len(s) : s[i] = Colon}
  OBVIOUS
<1>3. ColonOf(s) = IF I # {} THEN Max(I) ELSE 0
  BY <1>2 DEF ColonOf, SelectLastInSeq
<1>4. I \in SUBSET (1 .. Len(s))
  BY <1>2
<1>5. \/ ColonOf(s) = 0 /\ \A i \in 1 .. Len(s) : s[i] # Colon
      \/ ColonOf(s) \in 1 .. Len(s) /\ s[ColonOf(s)] = Colon
  <2>1. CASE I = {}
    BY <1>2, <1>3, <2>1
  <2>2. CASE I # {}
    <3>1. PICK x \in I : \A y \in I : x >= y
      BY <1>1, <1>4, <2>2, LastOne
    <3>2. I \subseteq Int
      BY <1>1, <1>4
    <3>3. Max(I) = x
      BY <3>1, <3>2, MaxIs
    <3>4. QED
      BY <1>2, <1>3, <2>2, <3>3
  <2>3. QED
    BY <2>1, <2>2
<1>6. ASSUME NEW c \in 1 .. Len(s), s[c] = Colon, \A i \in c + 1 .. Len(s) : s[i] # Colon
      PROVE  ColonOf(s) = c
  <2>1. c \in I
    BY <1>2, <1>6
  <2>2. \A y \in I : c >= y
    BY <1>1, <1>2, <1>6
  <2>3. I \subseteq Int
    BY <1>1, <1>4
  <2>4. Max(I) = c
    BY <2>1, <2>2, <2>3, MaxIs
  <2>5. QED
    BY <1>3, <2>1, <2>4
<1>7. QED
  BY <1>5, <1>6

\* find(']') finds the first bracket.
LEMMA FirstBracket ==
    ASSUME NEW s \in Seq(Visible)
    PROVE  /\ (\A i \in 1 .. Len(s) : s[i] # RBracket) => BracketOf(s) = 0
           /\ \A c \in 1 .. Len(s) :
                s[c] = RBracket /\ (\A i \in 1 .. c - 1 : s[i] # RBracket) => BracketOf(s) = c
<1>1. Len(s) \in Nat
  BY LenProperties
<1>2. PICK I : I = {i \in 1 .. Len(s) : s[i] = RBracket}
  OBVIOUS
<1>3. BracketOf(s) = IF I # {} THEN Min(I) ELSE 0
  BY <1>2 DEF BracketOf, SelectInSeq
<1>4. ASSUME \A i \in 1 .. Len(s) : s[i] # RBracket
      PROVE  BracketOf(s) = 0
  BY <1>2, <1>3, <1>4
<1>5. ASSUME NEW c \in 1 .. Len(s), s[c] = RBracket, \A i \in 1 .. c - 1 : s[i] # RBracket
      PROVE  BracketOf(s) = c
  <2>1. c \in I
    BY <1>2, <1>5
  <2>2. \A y \in I : c <= y
    BY <1>1, <1>2, <1>5
  <2>3. I \subseteq Int
    BY <1>1, <1>2
  <2>4. Min(I) = c
    BY <2>1, <2>2, <2>3, MinIs
  <2>5. QED
    BY <1>3, <2>1, <2>4
<1>6. QED
  BY <1>4, <1>5

\* What may follow the first n characters of a name, and the port it means.
NamePort(s, n, port) ==
    \/ /\ StartsWith(After(s, n), Colon)
       /\ port = parse_u16(Tail(After(s, n))) /\ port # NoPort
    \/ /\ After(s, n) = <<>> /\ port = 443
       /\ \A i \in 1 .. n : s[i] = Colon => parse_u16(After(s, i)) = NoPort

\* A name, perhaps with a port.
LEMMA SplitsName ==
    ASSUME NEW s \in Seq(Visible), ~StartsWith(s, LBracket), NEW n \in 0 .. Len(s),
           NEW port, NamePort(s, n, port)
    PROVE  split_authority(s, 443) =
             [host |-> to_ascii_lowercase(SubSeq(s, 1, n)), port |-> port]
<1>1. Len(s) \in Nat /\ n \in Nat /\ n <= Len(s)
  BY LenProperties
<1>2. /\ After(s, n) \in Seq(Visible) /\ Len(After(s, n)) = Len(s) - n
      /\ \A k \in 1 .. Len(s) - n : After(s, n)[k] = s[n + k]
  BY <1>1, Rest
<1>3. split_authority(s, 443) =
        IF ColonOf(s) # 0 /\ parse_u16(After(s, ColonOf(s))) # NoPort
        THEN [host |-> to_ascii_lowercase(Before(s, ColonOf(s))),
              port |-> parse_u16(After(s, ColonOf(s)))]
        ELSE [host |-> to_ascii_lowercase(s), port |-> 443]
  BY DEF split_authority
<1>4. CASE /\ StartsWith(After(s, n), Colon)
           /\ port = parse_u16(Tail(After(s, n))) /\ port # NoPort
  <2>1. Len(s) - n >= 1 /\ After(s, n)[1] = Colon
    BY <1>2, <1>4, Starts
  <2>2. PICK c \in Nat : c = n + 1
    BY <1>1
  <2>3. c \in 1 .. Len(s) /\ n < Len(s) /\ c <= Len(s) /\ c # 0 /\ c - 1 = n
    BY <1>1, <2>1, <2>2
  <2>4. s[c] = Colon
    BY <1>1, <1>2, <2>1, <2>2
  <2>5. Tail(After(s, n)) = After(s, c)
    BY <1>1, <2>2, <2>3, RestOfRest
  <2>6. /\ After(s, c) \in Seq(Visible) /\ Len(After(s, c)) = Len(s) - c
        /\ \A k \in 1 .. Len(s) - c : After(s, c)[k] = s[c + k]
    BY <2>3, Rest
  <2>7. ASSUME NEW i \in c + 1 .. Len(s) PROVE s[i] # Colon
    <3>1. PICK k \in 1 .. Len(s) - c : i = c + k
      <4>1. i - c \in 1 .. Len(s) - c /\ i = c + (i - c)
        BY <1>1
      <4>2. QED
        BY <4>1
    <3>2. parse_u16(After(s, c)) # NoPort
      BY <1>4, <2>5
    <3>3. After(s, c)[k] # Colon
      BY <2>6, <3>2, PortHasNoColon
    <3>4. QED
      BY <2>6, <3>1, <3>3
  <2>8. ColonOf(s) = c
    BY <2>3, <2>4, <2>7, LastColon
  <2>9. Before(s, c) = SubSeq(s, 1, n)
    BY <2>3 DEF Before
  <2>10. port = parse_u16(After(s, c)) /\ parse_u16(After(s, c)) # NoPort
    BY <1>4, <2>5
  <2>11. split_authority(s, 443) =
           [host |-> to_ascii_lowercase(Before(s, c)), port |-> parse_u16(After(s, c))]
    BY <1>3, <2>3, <2>8, <2>10
  <2>12. QED
    BY <2>9, <2>10, <2>11
<1>5. CASE /\ After(s, n) = <<>> /\ port = 443
           /\ \A i \in 1 .. n : s[i] = Colon => parse_u16(After(s, i)) = NoPort
  <2>1. n = Len(s)
    BY <1>1, <1>2, <1>5, Starts
  <2>2. SubSeq(s, 1, n) = s
    <3>1. SubSeq(s, 1, n) \in Seq(Visible) /\ Len(SubSeq(s, 1, n)) = n
      BY Start
    <3>2. \A i \in 1 .. n : SubSeq(s, 1, n)[i] = s[i]
      BY Start
    <3>3. QED
      BY <2>1, <3>1, <3>2, SeqEqual
  <2>3. ~(ColonOf(s) # 0 /\ parse_u16(After(s, ColonOf(s))) # NoPort)
    BY <1>5, <2>1, LastColon
  <2>4. QED
    BY <1>3, <1>5, <2>2, <2>3
<1>6. QED
  BY <1>4, <1>5 DEF NamePort

\* The tail of a text, what comes before a place in it and what comes after.
LEMMA TailIs ==
    ASSUME NEW s \in Seq(Visible), NEW n \in Nat, n = Len(s), n >= 1
    PROVE  Tail(s) = SubSeq(s, 2, n)
<1>1. PICK u : u = SubSeq(s, 2, n)
  OBVIOUS
<1>2. /\ u \in Seq(Visible) /\ Len(u) = n - 2 + 1
      /\ \A k \in 1 .. n - 2 + 1 : u[k] = s[2 + k - 1]
  BY <1>1, Stretch
<1>3. PICK v \in Seq(Visible) : /\ v = Tail(s) /\ Len(v) = Len(s) - 1
                                /\ \A k \in 1 .. Len(v) : v[k] = s[k + 1]
  <2>1. s # <<>>
    BY Starts
  <2>2. QED
    BY <2>1, HeadTailProperties
<1>4. Len(u) = Len(v)
  BY <1>2, <1>3
<1>5. ASSUME NEW k \in 1 .. Len(u) PROVE u[k] = v[k]
  <2>1. k \in 1 .. n - 2 + 1 /\ k \in 1 .. Len(v) /\ 2 + k - 1 = k + 1
    BY <1>2, <1>4
  <2>2. QED
    BY <1>2, <1>3, <2>1
<1>6. QED
  BY <1>1, <1>2, <1>3, <1>4, <1>5, SeqEqual

LEMMA BeforeTail ==
    ASSUME NEW s \in Seq(Visible), NEW rest \in Seq(Visible), NEW n \in Nat,
           n >= 1, n <= Len(s) - 1, Len(rest) = Len(s) - 1,
           \A k \in 1 .. Len(s) - 1 : rest[k] = s[k + 1]
    PROVE  Before(rest, n) = SubSeq(s, 2, n)
<1>1. Len(s) \in Nat
  BY LenProperties
<1>2. PICK j \in Nat : j = n - 1
  OBVIOUS
<1>3. PICK u : u = SubSeq(rest, 1, j)
  OBVIOUS
<1>4. u = Before(rest, n)
  BY <1>2, <1>3 DEF Before
<1>5. /\ u \in Seq(Visible) /\ Len(u) = j - 1 + 1
      /\ \A k \in 1 .. j - 1 + 1 : u[k] = rest[1 + k - 1]
  BY <1>1, <1>2, <1>3, Stretch
<1>6. PICK v : v = SubSeq(s, 2, n)
  OBVIOUS
<1>7. /\ v \in Seq(Visible) /\ Len(v) = n - 2 + 1
      /\ \A k \in 1 .. n - 2 + 1 : v[k] = s[2 + k - 1]
  BY <1>1, <1>6, Stretch
<1>8. Len(u) = Len(v)
  BY <1>2, <1>5, <1>7
<1>9. ASSUME NEW k \in 1 .. Len(u) PROVE u[k] = v[k]
  <2>1. /\ k \in 1 .. n - 2 + 1 /\ k \in 1 .. j - 1 + 1 /\ k \in 1 .. Len(s) - 1
        /\ 2 + k - 1 = k + 1 /\ 1 + k - 1 = k
    BY <1>1, <1>2, <1>5
  <2>2. u[k] = rest[k] /\ v[k] = s[k + 1]
    BY <1>5, <1>7, <2>1
  <2>3. QED
    BY <2>1, <2>2
<1>10. QED
  BY <1>4, <1>5, <1>6, <1>7, <1>8, <1>9, SeqEqual

LEMMA AfterTail ==
    ASSUME NEW s \in Seq(Visible), NEW rest \in Seq(Visible), NEW n \in Nat,
           n >= 1, n <= Len(s) - 1, Len(rest) = Len(s) - 1,
           \A k \in 1 .. Len(s) - 1 : rest[k] = s[k + 1]
    PROVE  After(rest, n) = Tail(After(s, n))
<1>1. Len(s) \in Nat /\ n < Len(s) /\ n <= Len(rest)
  BY LenProperties
<1>2. PICK n1 \in Nat : n1 = n + 1 /\ n1 <= Len(s)
  BY <1>1
<1>3. Tail(After(s, n)) = After(s, n1)
  BY <1>1, <1>2, RestOfRest
<1>4. PICK v \in Seq(Visible) : /\ v = After(s, n1) /\ Len(v) = Len(s) - n1
                                /\ \A k \in 1 .. Len(s) - n1 : v[k] = s[n1 + k]
  BY <1>2, Rest
<1>5. PICK u \in Seq(Visible) : /\ u = After(rest, n) /\ Len(u) = Len(rest) - n
                                /\ \A k \in 1 .. Len(rest) - n : u[k] = rest[n + k]
  BY <1>1, Rest
<1>6. Len(u) = Len(v)
  BY <1>1, <1>2, <1>4, <1>5
<1>7. ASSUME NEW k \in 1 .. Len(u) PROVE u[k] = v[k]
  <2>1. /\ k \in 1 .. Len(rest) - n /\ k \in 1 .. Len(s) - n1
        /\ n + k \in 1 .. Len(s) - 1 /\ (n + k) + 1 = n1 + k
    BY <1>1, <1>2, <1>5
  <2>2. u[k] = s[(n + k) + 1]
    BY <1>5, <2>1
  <2>3. QED
    BY <1>4, <2>1, <2>2
<1>8. QED
  BY <1>3, <1>4, <1>5, <1>6, <1>7, SeqEqual

\* What may follow an IPv6 literal, and the port it means.
LiteralPort(rest, port) ==
    \/ rest = <<>> /\ port = 443
    \/ /\ StartsWith(rest, RBracket)
       /\ port = IF StartsWith(Tail(rest), Colon) THEN PortOr443(Tail(Tail(rest))) ELSE 443

\* An IPv6 literal, closed or not, perhaps with a port.
LEMMA SplitsLiteral ==
    ASSUME NEW s \in Seq(Visible), StartsWith(s, LBracket), NEW n \in 0 .. Len(s),
           \A i \in 2 .. n : s[i] # RBracket, NEW port, LiteralPort(After(s, n), port)
    PROVE  split_authority(s, 443) =
             [host |-> to_ascii_lowercase(SubSeq(s, 2, n)), port |-> port]
<1>1. Len(s) \in Nat /\ n \in Nat /\ n <= Len(s) /\ Len(s) >= 1 /\ s[1] = LBracket
  BY LenProperties, Starts
<1>2. /\ After(s, n) \in Seq(Visible) /\ Len(After(s, n)) = Len(s) - n
      /\ \A k \in 1 .. Len(s) - n : After(s, n)[k] = s[n + k]
  BY <1>1, Rest
<1>3. PICK rest \in Seq(Visible) : /\ rest = Tail(s) /\ Len(rest) = Len(s) - 1
                                   /\ \A k \in 1 .. Len(s) - 1 : rest[k] = s[k + 1]
  <2>1. s # <<>>
    BY <1>1, Starts
  <2>2. PICK v \in Seq(Visible) : /\ v = Tail(s) /\ Len(v) = Len(s) - 1
                                  /\ \A k \in 1 .. Len(v) : v[k] = s[k + 1]
    BY <2>1, HeadTailProperties
  <2>3. QED
    BY <2>2
<1>4. split_authority(s, 443) = split_bracketed(rest, 443)
  BY <1>3 DEF split_authority
<1>5. CASE After(s, n) = <<>> /\ port = 443
  <2>1. n = Len(s)
    BY <1>1, <1>2, <1>5, Starts
  <2>2. ASSUME NEW k \in 1 .. Len(rest) PROVE rest[k] # RBracket
    <3>1. k \in 1 .. Len(s) - 1 /\ k + 1 \in 2 .. n
      BY <1>1, <1>3, <2>1
    <3>2. QED
      BY <1>3, <3>1
  <2>3. BracketOf(rest) = 0
    BY <2>2, FirstBracket
  <2>4. ~StartsWith(<<>>, Colon)
    BY DEF StartsWith
  <2>5. split_bracketed(rest, 443) = [host |-> to_ascii_lowercase(rest), port |-> 443]
    BY <2>3, <2>4 DEF split_bracketed
  <2>6. rest = SubSeq(s, 2, n)
    BY <1>1, <1>3, <2>1, TailIs
  <2>7. QED
    BY <1>4, <1>5, <2>5, <2>6
<1>6. CASE StartsWith(After(s, n), RBracket) /\ After(s, n) # <<>>
  <2>1. Len(s) - n >= 1 /\ After(s, n)[1] = RBracket
    BY <1>2, <1>6, Starts
  <2>2. s[n + 1] = RBracket
    BY <1>1, <1>2, <2>1
  <2>3. n >= 1 /\ n <= Len(s) - 1
    <3>1. n # 0
      BY <1>1, <2>2 DEF LBracket, RBracket
    <3>2. QED
      BY <1>1, <2>1, <3>1
  <2>4. rest[n] = RBracket
    BY <1>1, <1>3, <2>2, <2>3
  <2>5. ASSUME NEW k \in 1 .. n - 1 PROVE rest[k] # RBracket
    <3>1. k \in 1 .. Len(s) - 1 /\ k + 1 \in 2 .. n
      BY <1>1, <2>3
    <3>2. QED
      BY <1>3, <3>1
  <2>6. BracketOf(rest) = n /\ n # 0
    <3>1. n \in 1 .. Len(rest)
      BY <1>1, <1>3, <2>3
    <3>2. QED
      BY <2>3, <2>4, <2>5, <3>1, FirstBracket
  <2>7. Before(rest, n) = SubSeq(s, 2, n)
    BY <1>1, <1>3, <2>3, BeforeTail
  <2>8. After(rest, n) = Tail(After(s, n))
    BY <1>1, <1>3, <2>3, AfterTail
  <2>9. PICK tail : tail = Tail(After(s, n))
    OBVIOUS
  <2>10. split_bracketed(rest, 443) =
           [host |-> to_ascii_lowercase(SubSeq(s, 2, n)),
            port |-> IF StartsWith(tail, Colon) THEN PortOr443(Tail(tail)) ELSE 443]
    <3>1. split_bracketed(rest, 443) =
            [host |-> to_ascii_lowercase(Before(rest, n)),
             port |-> IF (IF StartsWith(tail, Colon) THEN parse_u16(Tail(tail)) ELSE NoPort)
                           = NoPort
                      THEN 443
                      ELSE IF StartsWith(tail, Colon) THEN parse_u16(Tail(tail)) ELSE NoPort]
      BY <2>6, <2>8, <2>9 DEF split_bracketed
    <3>2. QED
      BY <2>7, <3>1 DEF PortOr443
  <2>11. port = IF StartsWith(tail, Colon) THEN PortOr443(Tail(tail)) ELSE 443
    <3>1. PICK u : u = After(s, n) /\ u # <<>> /\ tail = Tail(u) /\ LiteralPort(u, port)
      BY <1>6, <2>9
    <3>2. QED
      BY <3>1 DEF LiteralPort
  <2>12. QED
    BY <1>4, <2>10, <2>11
<1>7. QED
  BY <1>5, <1>6 DEF LiteralPort, StartsWith

\* split_authority takes the target of a CONNECT apart as it was put together.
LEMMA SplitsAuthority ==
    ASSUME NEW s \in Seq(Visible), NEW text, NEW port, Authority(s, text, port)
    PROVE  split_authority(s, 443) = [host |-> text, port |-> port]
<1>1. PICK n \in 0 .. Len(s) :
        \/ /\ ~StartsWith(s, LBracket)
           /\ text = to_ascii_lowercase(SubSeq(s, 1, n))
           /\ NamePort(s, n, port)
        \/ /\ StartsWith(s, LBracket) /\ text = to_ascii_lowercase(SubSeq(s, 2, n))
           /\ \A i \in 2 .. n : s[i] # RBracket
           /\ LiteralPort(After(s, n), port)
  BY DEF Authority, LiteralPort, NamePort
<1>2. CASE ~StartsWith(s, LBracket)
  <2>1. split_authority(s, 443) = [host |-> to_ascii_lowercase(SubSeq(s, 1, n)), port |-> port]
    BY <1>1, <1>2, SplitsName, Zenon
  <2>2. text = to_ascii_lowercase(SubSeq(s, 1, n))
    BY <1>1, <1>2
  <2>3. QED
    BY <2>1, <2>2
<1>3. CASE StartsWith(s, LBracket)
  BY <1>1, <1>3, SplitsLiteral
<1>4. QED
  BY <1>2, <1>3

-----------------------------------------------------------------------------
(* HTTP: every step keeps the second invariant.                             *)

LEMMA HttpMeaning ==
    ASSUME NEW r
    PROVE  /\ r.proto = "http" /\ (r.method = <<>> \/ r.target = <<>>) =>
                Meaning(r) = Error("Malformed")
           /\ r.proto = "http" /\ r.method # <<>> /\ r.target # <<>> =>
                Meaning(r) = IF r.method \in CONNECT THEN To("tunnel", r.name, r.port)
                             ELSE To("http", Nowhere, 0)
           /\ r.proto \notin {"socks", "http"} => Meaning(r) = Error("Malformed")
  BY DEF Meaning

\* What handle_connection makes of a head with a request line and of one without.
LEMMA DispatchFails ==
    ASSUME NEW head, Dispatch(head), ~request_line(head).ok
    PROVE  pc' = "ended" /\ outcome' = Error("Malformed")
<1>1. PICK line : line = request_line(head)
  OBVIOUS
<1>2. ~line.ok
  BY <1>1
<1>3. ~line.ok /\ Ends("Malformed")
  BY <1>1, <1>2 DEF Dispatch
<1>4. QED
  BY <1>3 DEF Ends

LEMMA DispatchTunnels ==
    ASSUME NEW head, Dispatch(head), NEW method, NEW target, method \in CONNECT,
           request_line(head) = [ok |-> TRUE, method |-> method, target |-> target]
    PROVE  \E dest \in {split_authority(target, 443)} :
             /\ pc' = "dial" /\ prefix' = head_body(head)
             /\ outcome' = To("tunnel", [Nowhere EXCEPT !.text = dest.host], dest.port)
<1>1. PICK line : line = request_line(head)
  OBVIOUS
<1>2. line.ok /\ line.method = method /\ line.target = target
  BY <1>1
<1>3. /\ \E dest \in {split_authority(line.target, 443)} :
           outcome' = To("tunnel", [Nowhere EXCEPT !.text = dest.host], dest.port)
      /\ pc' = "dial" /\ prefix' = head_body(head)
  BY <1>1, <1>2 DEF Dispatch
<1>4. QED
  BY <1>2, <1>3

LEMMA DispatchForwards ==
    ASSUME NEW head, Dispatch(head), NEW method, NEW target, method \notin CONNECT,
           request_line(head) = [ok |-> TRUE, method |-> method, target |-> target]
    PROVE  pc' = "serving" /\ prefix' = head /\ outcome' = To("http", Nowhere, 0)
<1>1. PICK line : line = request_line(head)
  OBVIOUS
<1>2. line.ok /\ line.method = method
  BY <1>1
<1>3. QED
  BY <1>1, <1>2 DEF Dispatch

\* The request line that read_head has got, when n bytes of the stream are read.
LEMMA HttpRequestLine ==
    ASSUME request \in Requests, request.proto = "http",
           NEW n \in Nat, n <= Len(Stream), NEW head, head = SubSeq(Stream, 1, n)
    PROVE  \/ /\ ~request_line(head).ok
              /\ n < Whole \/ request.method = <<>> \/ request.target = <<>>
           \/ /\ request_line(head) =
                   [ok |-> TRUE, method |-> request.method, target |-> request.target]
              /\ request.method # <<>> /\ request.target # <<>>
<1>1. /\ request.method \in Seq(Visible) /\ request.target \in Seq(Visible)
  BY HttpRequestsAssumption
<1>2. PICK m \in Nat, t \in Nat : HttpLine(Serialized(request), request, m, t)
  BY HttpBytes
<1>3. Whole \in Nat /\ Whole >= m + t + 7
  BY <1>2 DEF HttpLine, Whole
<1>4. head \in Seq(Bytes) /\ Len(head) = n /\ \A k \in 1 .. n : head[k] = Stream[k]
  BY HeadFacts
<1>5. \A k \in 1 .. n : k <= Len(Serialized(request)) => head[k] = Serialized(request)[k]
  <2>1. ASSUME NEW k \in 1 .. n, k <= Len(Serialized(request))
        PROVE  head[k] = Serialized(request)[k]
    <3>1. k \in 1 .. Whole
      BY <1>3, <2>1 DEF Whole
    <3>2. Stream[k] = Serialized(request)[k]
      BY <3>1, WholeFacts
    <3>3. QED
      BY <1>4, <3>2
  <2>2. QED
    BY <2>1
<1>6. request_line(head) =
        IF n < m + t + 5 \/ m = 0 \/ t = 0 THEN Failed("Malformed")
        ELSE [ok |-> TRUE, method |-> request.method, target |-> request.target]
  <2>1. PICK h : h = head
    OBVIOUS
  <2>2. PICK r : r = request
    OBVIOUS
  <2>3. PICK s : s = Serialized(request)
    OBVIOUS
  <2>4. HttpLine(s, r, m, t) /\ r.method \in Seq(Visible) /\ r.target \in Seq(Visible)
    BY <1>1, <1>2, <2>2, <2>3
  <2>5. h \in Seq(Bytes) /\ Len(h) = n /\ Along(h, s, n)
    BY <1>4, <1>5, <2>1, <2>3 DEF Along
  <2>6. LineIs(request_line(h), r, m, t, n)
    BY <2>4, <2>5, RequestLine
  <2>7. QED
    BY <2>1, <2>2, <2>6 DEF LineIs
<1>7. (m = 0 <=> request.method = <<>>) /\ (t = 0 <=> request.target = <<>>)
  BY <1>1, <1>2, Starts DEF HttpLine
<1>8. CASE n < m + t + 5 \/ m = 0 \/ t = 0
  <2>1. ~request_line(head).ok
    BY <1>6, <1>8 DEF Failed
  <2>2. n < Whole \/ m = 0 \/ t = 0
    BY <1>2, <1>3, <1>8
  <2>3. QED
    BY <1>7, <2>1, <2>2
<1>9. CASE ~(n < m + t + 5 \/ m = 0 \/ t = 0)
  BY <1>6, <1>7, <1>9
<1>10. QED
  BY <1>8, <1>9

\* What is handed on of a head is what was read behind it.
LEMMA BodyIs ==
    ASSUME request \in Requests, request.proto = "http",
           NEW n \in Nat, n <= Len(Stream), NEW head, head = SubSeq(Stream, 1, n)
    PROVE  head_body(head) = SubSeq(Stream, Whole + 1, n)
<1>1. find_head_end(head) = IF n >= Whole THEN Whole ELSE 0
  BY HeadEnd
<1>2. Whole \in Nat /\ Whole >= 1
  BY WholeFacts
<1>3. head \in Seq(Bytes) /\ Len(head) = n /\ \A k \in 1 .. n : head[k] = Stream[k]
  BY HeadFacts
<1>4. Stream \in Seq(Bytes)
  BY StreamFacts
<1>5. CASE n < Whole
  <2>1. head_body(head) = <<>>
    BY <1>1, <1>2, <1>5 DEF head_body
  <2>2. SubSeq(Stream, Whole + 1, n) = <<>>
    <3>1. PICK i \in Int : i = Whole + 1 /\ i > n
      BY <1>2, <1>5
    <3>2. SubSeq(Stream, i, n) = <<>>
      BY <3>1, SubSeqEmpty
    <3>3. QED
      BY <3>1, <3>2
  <2>3. QED
    BY <2>1, <2>2
<1>6. CASE n >= Whole
  <2>1. head_body(head) = SubSeq(head, Whole + 1, n)
    BY <1>1, <1>2, <1>3, <1>6 DEF head_body, After
  <2>2. PICK i \in Nat : i = Whole + 1 /\ i >= 1 /\ i <= n + 1
    BY <1>2, <1>6
  <2>3. \A k \in i .. n : head[k] = Stream[k]
    BY <1>3, <2>2
  <2>4. SubSeq(head, i, n) = SubSeq(Stream, i, n)
    <3>1. PICK h : h = head
      OBVIOUS
    <3>2. PICK s : s = Stream
      OBVIOUS
    <3>3. /\ h \in Seq(Bytes) /\ s \in Seq(Bytes)
          /\ n <= Len(h) /\ n <= Len(s) /\ \A k \in i .. n : h[k] = s[k]
      <4>1. Len(h) = n /\ n <= n
        BY <1>3, <3>1
      <4>2. h \in Seq(Bytes) /\ s \in Seq(Bytes) /\ n <= Len(s)
        BY <1>3, <1>4, <3>1, <3>2
      <4>3. \A k \in i .. n : h[k] = s[k]
        BY <2>3, <3>1, <3>2, Zenon
      <4>4. QED
        BY <4>1, <4>2, <4>3
    <3>4. SubSeq(h, i, n) = SubSeq(s, i, n)
      BY <2>2, <3>3, SameStretch
    <3>5. QED
      BY <3>1, <3>2, <3>4
  <2>5. QED
    BY <2>1, <2>2, <2>4
<1>7. QED
  BY <1>2, <1>5, <1>6

LEMMA NowhereIs ==
    ASSUME NEW text
    PROVE  [Nowhere EXCEPT !.text = text] = [atyp |-> ATYP_DOMAIN, text |-> text]
  BY DEF Nowhere, HostOf

\* handle_connection, from the head on: what the connection comes to when n bytes have
\* been read, the whole head or all there will be.
LEMMA DispatchAsked ==
    ASSUME IndInv, ~IsSocks, NEW n \in Nat, n <= arrived, taken' = n,
           NEW head, head = SubSeq(Stream, 1, n), Dispatch(head),
           UNCHANGED <<request, arrived, closed>>,
           \/ request.proto # "http"
           \/ n >= Whole
           \/ closed # "no" /\ n = arrived
    PROVE  AskedInv'
<1>1. /\ request \in Requests /\ Stream' = Stream /\ Whole' = Whole
      /\ arrived \in Nat /\ arrived <= Len(Stream)
  BY DEF IndInv, Typed, Stream, Whole
<1>2. Len(Stream) \in Nat /\ Whole \in Nat /\ n <= Len(Stream)
  BY <1>1, WholeFacts
<1>3. CASE request.proto # "http"
  <2>1. n \in 0 .. Len(Serialized(request) \o Payload)
    BY <1>2 DEF Stream
  <2>2. ~request_line(head).ok
    BY <1>1, <1>3, <2>1, OtherRequestsAssumption DEF Stream, IsSocks
  <2>3. pc' = "ended" /\ outcome' = Error("Malformed")
    BY <2>2, DispatchFails
  <2>4. Meaning(request) = Error("Malformed")
    BY <1>3, HttpMeaning DEF IsSocks
  <2>5. QED
    BY <2>3, <2>4, Deserves
<1>4. CASE request.proto = "http" /\ ~request_line(head).ok
  <2>1. pc' = "ended" /\ outcome' = Error("Malformed")
    BY <1>4, DispatchFails
  <2>2. n < Whole \/ request.method = <<>> \/ request.target = <<>>
    <3>1. \/ /\ ~request_line(head).ok
             /\ n < Whole \/ request.method = <<>> \/ request.target = <<>>
          \/ /\ request_line(head) =
                  [ok |-> TRUE, method |-> request.method, target |-> request.target]
             /\ request.method # <<>> /\ request.target # <<>>
      BY <1>1, <1>2, <1>4, HttpRequestLine
    <3>2. QED
      BY <1>4, <3>1
  <2>3. CASE request.method = <<>> \/ request.target = <<>>
    <3>1. Meaning(request) = Error("Malformed")
      BY <1>4, <2>3, HttpMeaning
    <3>2. QED
      BY <2>1, <3>1, Deserves
  <2>4. CASE n < Whole
    <3>1. closed' # "no" /\ arrived' < Whole'
      BY <1>1, <1>2, <1>4, <2>4
    <3>2. outcome'.error = "Malformed"
      BY <2>1, OutcomeFields
    <3>3. AsAsked'
      BY <3>1, <3>2 DEF AsAsked
    <3>4. QED
      BY <2>1, <3>3, Fails DEF AskedInv
  <2>5. QED
    BY <2>2, <2>3, <2>4
<1>5. CASE request.proto = "http" /\ request_line(head).ok
  <2>1. /\ request_line(head) =
             [ok |-> TRUE, method |-> request.method, target |-> request.target]
        /\ request.method # <<>> /\ request.target # <<>>
    BY <1>1, <1>2, <1>5, HttpRequestLine
  <2>2. Meaning(request) = IF request.method \in CONNECT
                           THEN To("tunnel", request.name, request.port)
                           ELSE To("http", Nowhere, 0)
    BY <1>5, <2>1, HttpMeaning
  <2>3. CASE request.method \notin CONNECT
    <3>1. pc' = "serving" /\ prefix' = head /\ outcome' = To("http", Nowhere, 0)
      <4>1. PICK method : method = request.method
        OBVIOUS
      <4>2. PICK target : target = request.target
        OBVIOUS
      <4>3. /\ request_line(head) = [ok |-> TRUE, method |-> method, target |-> target]
            /\ method \notin CONNECT
        BY <2>1, <2>3, <4>1, <4>2
      <4>4. QED
        BY <4>3, DispatchForwards
    <3>2. outcome'.kind = "http"
      BY <3>1, OutcomeFields
    <3>3. Follows' /\ NotYet'
      BY <3>1 DEF Follows, NotYet, Exact
    <3>4. HandedOn' /\ PlainNameOneRow'
      BY <1>1, <3>1, <3>2 DEF HandedOn, PlainNameOneRow
    <3>5. AsAsked'
      BY <2>2, <2>3, <3>1, OutcomeFields DEF AsAsked
    <3>6. QED
      BY <3>3, <3>4, <3>5 DEF AskedInv
  <2>4. CASE request.method \in CONNECT
    <3>1. PICK text : /\ text \in Seq(Bytes)
                      /\ request.name = [atyp |-> ATYP_DOMAIN, text |-> text]
                      /\ Authority(request.target, text \o request.dots, request.port)
      BY <1>1, <1>5, <2>1, <2>4, HttpNamesAssumption
    <3>2. request.target \in Seq(Visible)
      BY <1>1, <1>5, HttpRequestsAssumption
    <3>3. split_authority(request.target, 443) =
            [host |-> text \o request.dots, port |-> request.port]
      <4>1. PICK name : name = text \o request.dots
        OBVIOUS
      <4>2. PICK target \in Seq(Visible) : target = request.target
        BY <3>2
      <4>3. PICK port : port = request.port
        OBVIOUS
      <4>4. Authority(target, name, port)
        BY <3>1, <4>1, <4>2, <4>3
      <4>5. split_authority(target, 443) = [host |-> name, port |-> port]
        BY <4>4, SplitsAuthority
      <4>6. QED
        BY <4>1, <4>2, <4>3, <4>5
    <3>4. PICK dest \in {split_authority(request.target, 443)} :
            /\ pc' = "dial" /\ prefix' = head_body(head)
            /\ outcome' = To("tunnel", [Nowhere EXCEPT !.text = dest.host], dest.port)
      BY <2>1, <2>4, DispatchTunnels
    <3>5. dest.host = text \o request.dots /\ dest.port = request.port
      BY <3>3, <3>4
    <3>6. PICK h : h = [Nowhere EXCEPT !.text = dest.host]
      OBVIOUS
    <3>7. outcome' = To("tunnel", h, request.port)
      BY <3>4, <3>5, <3>6
    <3>8. outcome'.kind = "tunnel" /\ outcome'.host = h
      BY <3>7, OutcomeFields
    <3>9. ASSUME request.dots = <<>>
          PROVE  h = request.name
      <4>1. PICK name : name = text \o request.dots
        OBVIOUS
      <4>2. name = text
        BY <3>1, <3>9, <4>1
      <4>3. dest.host = text
        BY <3>5, <4>1, <4>2, Zenon
      <4>4. QED
        BY <3>1, <3>6, <4>3, NowhereIs
    <3>10. Follows' /\ NotYet'
      BY <3>4 DEF Follows, NotYet, Exact
    <3>11. AsAsked'
      <4>1. Agree(outcome', Meaning(request))
        BY <2>2, <2>4, <3>7, OutcomeFields
      <4>2. QED
        BY <4>1 DEF AsAsked
    <3>12. PlainNameOneRow'
      BY <3>8, <3>9 DEF PlainNameOneRow, IsSocks
    <3>13. head_body(head) = SubSeq(Stream, Whole + 1, n)
      BY <1>1, <1>2, <1>5, BodyIs
    <3>14. HandedOn'
      BY <1>1, <1>5, <3>4, <3>8, <3>13 DEF HandedOn
    <3>15. QED
      BY <3>10, <3>11, <3>12, <3>14 DEF AskedInv
  <2>5. QED
    BY <2>3, <2>4
<1>6. QED
  BY <1>3, <1>4, <1>5

LEMMA ReadHeadAsked ==
    ASSUME IndInv, AskedInv, ReadHead
    PROVE  AskedInv'
<1>1. /\ pc = "head" /\ taken' = Min({taken + Chunk, arrived})
      /\ UNCHANGED <<request, arrived, closed>>
  BY DEF ReadHead, clientVars
<1>2. ~IsSocks /\ request \in Requests /\ outcome = Undecided /\ prefix = <<>>
  BY <1>1 DEF IndInv, Path, Typed, AskedInv, NotYet
<1>3. PICK n \in Nat : taken' = n /\ n <= arrived
  <2>1. taken + Chunk \in Nat /\ arrived \in Nat
    BY HandshakeAssumption DEF IndInv, Typed
  <2>2. QED
    BY <1>1, <2>1, MinOfTwo
<1>4. /\ Whole' = Whole /\ Whole \in Nat /\ Len(Stream) \in Nat
      /\ arrived \in Nat /\ arrived <= Len(Stream) /\ n <= Len(Stream)
  BY <1>1, <1>2, <1>3, WholeFacts DEF Whole, IndInv, Typed
<1>5. PICK head : /\ head = SubSeq(Stream, 1, n)
                  /\ IF HeadEnds(head, taken' - taken) THEN Dispatch(head)
                     ELSE IF OverLimit(head) THEN Ends("TooLarge")
                     ELSE UNCHANGED <<pc, want, outcome, prefix>>
  <2>1. PICK head \in {SubSeq(Stream, 1, taken')} :
          IF HeadEnds(head, taken' - taken) THEN Dispatch(head)
          ELSE IF OverLimit(head) THEN Ends("TooLarge")
          ELSE UNCHANGED <<pc, want, outcome, prefix>>
    BY DEF ReadHead
  <2>2. head = SubSeq(Stream, 1, n)
    BY <1>3, <2>1
  <2>3. QED
    BY <2>1, <2>2
<1>6. request.proto = "http" => find_head_end(head) = IF n >= Whole THEN Whole ELSE 0
  BY <1>2, <1>4, <1>5, HeadEnd
<1>7. CASE HeadEnds(head, taken' - taken)
  <2>1. Dispatch(head)
    BY <1>5, <1>7
  <2>2. request.proto # "http" \/ n >= Whole
    BY <1>6, <1>7 DEF HeadEnds
  <2>3. QED
    BY <1>1, <1>2, <1>3, <1>5, <2>1, <2>2, DispatchAsked
<1>8. CASE ~HeadEnds(head, taken' - taken) /\ OverLimit(head)
  <2>1. pc' = "ended" /\ outcome' = Error("TooLarge")
    BY <1>5, <1>8 DEF Ends
  <2>2. n > MAX_HEAD_BYTES
    <3>1. Len(head) = n
      BY <1>2, <1>4, <1>5, HeadFacts
    <3>2. QED
      BY <1>8, <3>1 DEF OverLimit
  <2>3. request.proto = "http" => n < Whole
    BY <1>2, <1>4, <1>6, <1>8, WholeFacts DEF HeadEnds
  <2>4. /\ arrived' > MAX_HEAD_BYTES
        /\ request'.proto = "http" => Whole' > MAX_HEAD_BYTES
    BY <1>1, <1>3, <1>4, <2>2, <2>3, HandshakeAssumption
  <2>5. outcome'.error = "TooLarge"
    BY <2>1, OutcomeFields
  <2>6. AsAsked'
    BY <2>4, <2>5 DEF AsAsked
  <2>7. QED
    BY <2>1, <2>6, Fails DEF AskedInv
<1>9. CASE ~HeadEnds(head, taken' - taken) /\ ~OverLimit(head)
  <2>1. UNCHANGED <<pc, outcome, prefix>>
    BY <1>5, <1>9
  <2>2. Follows'
    BY <1>1, <2>1 DEF Follows
  <2>3. QED
    BY <1>2, <2>1, <2>2, GoesOn DEF AskedInv
<1>10. QED
  BY <1>7, <1>8, <1>9

LEMMA HeadCutAsked ==
    ASSUME IndInv, AskedInv, HeadCut
    PROVE  AskedInv'
<1>1. /\ pc = "head" /\ UNCHANGED <<request, arrived, closed, taken>>
      /\ \/ closed = "eof" /\ taken = arrived /\ HeadAtEof
         \/ closed = "reset" /\ Ends("Io")
  BY DEF HeadCut, clientVars
<1>2. CASE closed = "eof" /\ taken = arrived /\ HeadAtEof
  <2>1. PICK n \in Nat : n = taken
    BY DEF IndInv, Typed
  <2>2. PICK head : head = SubSeq(Stream, 1, n) /\ Dispatch(head)
    BY <1>2, <2>1 DEF HeadAtEof
  <2>3. taken' = n /\ n = arrived /\ n <= arrived /\ closed # "no"
    BY <1>1, <1>2, <2>1
  <2>4. ~IsSocks
    BY <1>1 DEF IndInv, Path
  <2>5. QED
    BY <1>1, <2>2, <2>3, <2>4, DispatchAsked
<1>3. CASE closed = "reset" /\ Ends("Io")
  <2>1. pc' = "ended" /\ outcome' = Error("Io")
    BY <1>3 DEF Ends
  <2>2. outcome'.error = "Io" /\ closed' = "reset"
    BY <1>1, <1>3, <2>1, OutcomeFields
  <2>3. AsAsked'
    BY <2>2 DEF AsAsked
  <2>4. QED
    BY <2>1, <2>3, Fails DEF AskedInv
<1>4. QED
  BY <1>1, <1>2, <1>3

LEMMA NextAsked == IndInv /\ AskedInv /\ [Next]_vars => AskedInv'
<1> SUFFICES ASSUME IndInv, AskedInv, [Next]_vars PROVE AskedInv'
  OBVIOUS
<1>1. CASE ByteArrives \/ (\E how \in {"eof", "reset"} : ClientLeaves(how))
  BY <1>1, ClientAsked
<1>2. CASE Peek
  BY <1>2, PeekAsked
<1>3. CASE PeekEnds \/ SocketFails
  BY <1>3, SilentEndAsked
<1>4. CASE ReadHead
  BY <1>4, ReadHeadAsked
<1>5. CASE HeadCut
  BY <1>5, HeadCutAsked
<1>6. CASE Greeting
  BY <1>6, GreetingAsked
<1>7. CASE Methods
  BY <1>7, MethodsAsked
<1>8. CASE Header
  BY <1>8, HeaderAsked
<1>9. CASE DomainLength
  BY <1>9, DomainLengthAsked
<1>10. CASE AddressRead
  BY <1>10, AddressReadAsked
<1>11. CASE Port
  BY <1>11, PortAsked
<1>12. CASE ShortRead
  BY <1>12, ShortReadAsked
<1>13. CASE Opens \/ Refuses \/ Accepts
  <2>1. /\ UNCHANGED <<request, arrived, closed, taken, outcome, prefix>>
        /\ pc' \in {"open", "ended", "serving"}
    BY <1>13 DEF Opens, Refuses, Accepts, clientVars
  <2>2. QED
    BY <2>1, AsBefore
<1>14. CASE UNCHANGED vars
  BY <1>14, StutterAsked
<1>15. QED
  BY <1>1, <1>2, <1>3, <1>4, <1>5, <1>6, <1>7, <1>8, <1>9, <1>10, <1>11, <1>12,
     <1>13, <1>14 DEF Next, Step, Over

LEMMA AskedHolds == Spec => []AskedInv
<1>1. Init => AskedInv
  BY InitAsked
<1>2. QED
  BY <1>1, InvHolds, NextAsked, PTL DEF Spec

\* A stretch and the one behind it.
LEMMA Adjacent ==
    ASSUME NEW s \in Seq(Bytes), NEW i \in Nat, i >= 1, NEW j \in Nat, i <= j + 1,
           NEW k \in Nat, j <= k, k <= Len(s)
    PROVE  SubSeq(s, i, j) \o SubSeq(s, j + 1, k) = SubSeq(s, i, k)
<1>1. Len(s) \in Nat
  BY LenProperties
<1>2. PICK j1 \in Nat : j1 = j + 1
  OBVIOUS
<1>3. PICK u : u = SubSeq(s, i, j)
  OBVIOUS
<1>4. PICK v : v = SubSeq(s, j1, k)
  OBVIOUS
<1>5. PICK w : w = SubSeq(s, i, k)
  OBVIOUS
<1>6. /\ u \in Seq(Bytes) /\ Len(u) = j - i + 1
      /\ \A l \in 1 .. j - i + 1 : u[l] = s[i + l - 1]
  <2>1. j <= Len(s)
    BY <1>1
  <2>2. QED
    BY <1>3, <2>1, Stretch
<1>7. /\ v \in Seq(Bytes) /\ Len(v) = k - j1 + 1
      /\ \A l \in 1 .. k - j1 + 1 : v[l] = s[j1 + l - 1]
  <2>1. j1 >= 1 /\ j1 <= k + 1
    BY <1>2
  <2>2. QED
    BY <1>4, <2>1, Stretch
<1>8. /\ w \in Seq(Bytes) /\ Len(w) = k - i + 1
      /\ \A l \in 1 .. k - i + 1 : w[l] = s[i + l - 1]
  <2>1. i <= k + 1
    OBVIOUS
  <2>2. QED
    BY <1>5, <2>1, Stretch
<1>9. PICK x : x = u \o v
  OBVIOUS
<1>10. /\ x \in Seq(Bytes) /\ Len(x) = Len(u) + Len(v)
       /\ \A l \in 1 .. Len(u) : x[l] = u[l]
       /\ \A l \in 1 .. Len(v) : x[Len(u) + l] = v[l]
  BY <1>6, <1>7, <1>9, Joint
<1>11. Len(x) = Len(w)
  BY <1>2, <1>6, <1>7, <1>8, <1>10
<1>12. ASSUME NEW l \in 1 .. Len(x) PROVE x[l] = w[l]
  <2>1. l \in 1 .. k - i + 1
    BY <1>8, <1>11
  <2>2. CASE l <= j - i + 1
    <3>1. l \in 1 .. j - i + 1 /\ l \in 1 .. Len(u)
      BY <1>6, <2>1, <2>2
    <3>2. QED
      BY <1>6, <1>8, <1>10, <2>1, <3>1
  <2>3. CASE l > j - i + 1
    <3>1. PICK d \in 1 .. k - j1 + 1 : l = (j - i + 1) + d
      <4>1. l - (j - i + 1) \in 1 .. k - j1 + 1 /\ l = (j - i + 1) + (l - (j - i + 1))
        BY <1>2, <2>1, <2>3
      <4>2. QED
        BY <4>1
    <3>2. x[l] = v[d]
      BY <1>6, <1>7, <1>10, <3>1
    <3>3. j1 + d - 1 = i + l - 1
      BY <1>2, <3>1
    <3>4. QED
      BY <1>7, <1>8, <2>1, <3>1, <3>2, <3>3
  <2>4. QED
    BY <2>1, <2>2, <2>3
<1>13. x = w
  BY <1>8, <1>10, <1>11, <1>12, SeqEqual
<1>14. QED
  BY <1>2, <1>3, <1>4, <1>5, <1>9, <1>13

\* What was read too early and what is still to be read are, together, what the
\* client sent behind its request.
LEMMA PayloadSo == IndInv /\ AskedInv => PayloadIntact
<1> SUFFICES ASSUME IndInv, AskedInv PROVE PayloadIntact
  OBVIOUS
<1>1. /\ request \in Requests /\ Stream \in Seq(Bytes)
      /\ arrived \in Nat /\ arrived <= Len(Stream)
      /\ Whole \in Nat /\ Whole >= 1
  BY StreamFacts, WholeFacts DEF IndInv, Typed
<1>2. PICK n \in Nat : n = taken /\ n <= arrived
  BY DEF IndInv, Typed
<1>3. PICK s \in Seq(Bytes) : s = Stream /\ arrived <= Len(s)
  BY <1>1
<1>4. PICK a \in Nat : a = arrived /\ n <= a /\ a <= Len(s)
  BY <1>1, <1>2, <1>3
<1>5. ASSUME outcome.kind = "tunnel"
      PROVE  prefix \o SubSeq(Stream, taken + 1, arrived) = SubSeq(Stream, Whole + 1, arrived)
  <2>1. prefix = SubSeq(s, Whole + 1, n) /\ (n >= Whole \/ n = a)
    BY <1>2, <1>3, <1>4, <1>5 DEF AskedInv, HandedOn
  <2>2. PICK i \in Nat : i = Whole + 1 /\ i >= 1
    BY <1>1
  <2>3. CASE i <= n + 1
    <3>1. SubSeq(s, i, n) \o SubSeq(s, n + 1, a) = SubSeq(s, i, a)
      BY <1>4, <2>2, <2>3, Adjacent
    <3>2. QED
      BY <1>2, <1>3, <1>4, <2>1, <2>2, <3>1
  <2>4. CASE ~(i <= n + 1)
    <3>1. n = a /\ i > n /\ n + 1 > a
      BY <1>1, <2>1, <2>2, <2>4
    <3>2. SubSeq(s, i, n) = <<>> /\ SubSeq(s, n + 1, a) = <<>> /\ SubSeq(s, i, a) = <<>>
      BY <3>1, SubSeqEmpty
    <3>3. <<>> \o <<>> = <<>>
      OBVIOUS
    <3>4. QED
      BY <1>2, <1>3, <1>4, <2>1, <2>2, <3>2, <3>3
  <2>5. QED
    BY <2>3, <2>4
<1>6. ASSUME outcome.kind = "http"
      PROVE  prefix \o SubSeq(Stream, taken + 1, arrived) = SubSeq(Stream, 1, arrived)
  <2>1. prefix = SubSeq(s, 1, n)
    BY <1>2, <1>3, <1>6 DEF AskedInv, HandedOn
  <2>2. SubSeq(s, 1, n) \o SubSeq(s, n + 1, a) = SubSeq(s, 1, a)
    <3>1. PICK i \in Nat : i = 1 /\ i >= 1 /\ i <= n + 1
      OBVIOUS
    <3>2. SubSeq(s, i, n) \o SubSeq(s, n + 1, a) = SubSeq(s, i, a)
      BY <1>4, <3>1, Adjacent
    <3>3. QED
      BY <3>1, <3>2
  <2>3. QED
    BY <1>2, <1>3, <1>4, <2>1, <2>2
<1>7. outcome.kind = "relay" => taken = Whole
  BY DEF AskedInv, HandedOn
<1>8. QED
  BY <1>5, <1>6, <1>7 DEF PayloadIntact

-----------------------------------------------------------------------------
(* The theorems on what a connection comes to.                              *)

\* handle_connection, read_head and request_line (proxy.rs), accept (socks.rs): for
\* every set of requests, payload, chunk and limit, and wherever the reads cut the
\* stream, a connection comes to what its request asks for, or to an error that the
\* client caused by leaving, a socket by failing or a head by its size.
THEOREM AlwaysAsAsked == Spec => []AsAsked
<1>1. AskedInv => AsAsked
  BY DEF AskedInv
<1>2. QED
  BY <1>1, AskedHolds, PTL

\* split_authority (proxy.rs) and the domain of a SOCKS5 request (socks.rs): a tunnel
\* asked for by SOCKS5, or by a CONNECT that writes no trailing dot, is booked to its
\* name in lower case, whatever its case, brackets, port and bytes that are no UTF-8.
\* A CONNECT that writes one is booked to another row: see OneRowPerName.
THEOREM AlwaysPlainNameOneRow == Spec => []PlainNameOneRow
<1>1. AskedInv => PlainNameOneRow
  BY DEF AskedInv
<1>2. QED
  BY <1>1, AskedHolds, PTL

\* head_body and Rewind (proxy.rs), read_exact (socks.rs): not a byte that the client
\* sent behind its request is lost, repeated or moved on the way to the tunnel, and
\* plain HTTP is served from its first byte.
THEOREM PayloadAlwaysIntact == Spec => []PayloadIntact
<1>1. QED
  BY PayloadSo, InvHolds, AskedHolds, PTL
=============================================================================
