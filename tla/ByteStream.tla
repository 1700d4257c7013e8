----------------------------- MODULE ByteStream -----------------------------
(***************************************************************************)
(* What a metered tunnel promises for one direction of traffic, whatever it *)
(* does inside: the receiver gets the sender's bytes, in order, without     *)
(* gap, loss or repetition; the end of the stream is passed on only after   *)
(* the last byte; and the meter runs neither behind what the receiver got   *)
(* nor ahead of what the sender sent, so it is exact at the end of stream.  *)
(*                                                                         *)
(* A byte is identified by its position in its stream.                      *)
(***************************************************************************)
EXTENDS Integers, Sequences

VARIABLES sent,    \* the bytes the sender wrote
          closed,  \* the sender closed its side
          got,     \* the bytes handed to the receiver
          meter,   \* the bytes counted
          ended    \* the receiver was given the end of stream

vars == <<sent, closed, got, meter, ended>>

Init == /\ sent = <<>>
        /\ closed = FALSE
        /\ got = <<>>
        /\ meter = 0
        /\ ended = FALSE

Send == /\ ~closed
        /\ sent' = Append(sent, Len(sent) + 1)
        /\ UNCHANGED <<closed, got, meter, ended>>

Close == /\ closed' = TRUE
         /\ UNCHANGED <<sent, got, meter, ended>>

\* Bytes are counted when the proxy takes them in ...
Count == /\ meter' \in (meter + 1) .. Len(sent)
         /\ UNCHANGED <<sent, closed, got, ended>>

\* ... or, at the latest, in the step that hands them on.
Deliver == /\ \E n \in (Len(got) + 1) .. Len(sent) :
                 /\ got' = SubSeq(sent, 1, n)
                 /\ meter' = IF meter < n THEN n ELSE meter
           /\ UNCHANGED <<sent, closed, ended>>

End == /\ closed
       /\ got = sent
       /\ meter = Len(sent)
       /\ ended' = TRUE
       /\ UNCHANGED <<sent, closed, got, meter>>

Next == Send \/ Close \/ Count \/ Deliver \/ End

Spec == Init /\ [][Next]_vars
=============================================================================
