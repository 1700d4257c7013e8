-------------------------------- MODULE Io ---------------------------------
(***************************************************************************)
(* The stream adapters of the data path (src/src/io.rs).                    *)
(*                                                                         *)
(* Counting adds what crosses one socket to an endpoint's counters; which   *)
(* counter depends on the side of the proxy the socket is on.  Rewind gives *)
(* back bytes that were read too early before it reads the socket again.    *)
(* Its `prefix[offset..]` is the field bytes, and prefix = None is          *)
(* some = FALSE: the two are told apart because a read served from an empty *)
(* prefix fills nothing, which every reader takes for the end of stream.    *)
(***************************************************************************)
EXTENDS Stats, Sequences

on_read(stats, side, n) ==
    IF side = "Client" THEN add_egress(stats, n) ELSE add_ingress(stats, n)

\* Mutant: the two sides' labels for a write are swapped.
on_write_swapped(stats, side, n) ==
    IF side = "Client" THEN add_egress(stats, n) ELSE add_ingress(stats, n)

on_write(stats, side, n) ==
    IF side = "Client" THEN add_ingress(stats, n) ELSE add_egress(stats, n)

\* Mutant: Some(prefix) whatever the prefix is.
Rewind_new_always_some(prefix) == [some |-> TRUE, bytes |-> prefix]

Rewind_new(prefix) == [some |-> prefix # <<>>, bytes |-> prefix]

Least(m, n) == IF m <= n THEN m ELSE n

\* The bytes a read of at most `space` bytes takes from a queue of bytes.
Taken(queue, space) == SubSeq(queue, 1, Least(Len(queue), space))

\* What stays in the queue after the read.
Rest(queue, space) ==
    SubSeq(queue, Least(Len(queue), space) + 1, Len(queue))

\* Mutant: the offset is not advanced, so the same bytes are replayed.
Rewind_advance_stuck(rewind, space) == rewind

\* Rewind::poll_read while prefix is Some: advance the offset past the bytes
\* taken, and forget the prefix once it is used up.
Rewind_advance(rewind, space) ==
    [some |-> Rest(rewind.bytes, space) # <<>>,
     bytes |-> Rest(rewind.bytes, space)]
=============================================================================
