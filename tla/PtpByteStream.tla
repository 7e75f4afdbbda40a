---------------------------- MODULE PtpByteStream ----------------------------
(***************************************************************************)
(* What CanonPtpBulkReader promises its callers: they receive the bytes of *)
(* the bulk-in endpoint in order, each once, whatever the packets are that *)
(* the bytes travel in and whatever lengths the callers ask for.  A byte   *)
(* is its place in what the camera sends.                                  *)
(***************************************************************************)
EXTENDS Naturals, Sequences

CONSTANT MaxBytes               \* bound: bytes the camera sends

VARIABLES arrived,              \* how many bytes the camera has sent
          delivered             \* the bytes the callers received, in order

vars == <<arrived, delivered>>

\* The n bytes that follow the first so many.
Bytes(first, n) == [i \in 1..n |-> first + i]

Init == arrived = 0 /\ delivered = <<>>

Arrive ==
    /\ arrived < MaxBytes
    /\ arrived' = arrived + 1
    /\ UNCHANGED delivered

Deliver ==
    /\ \E n \in 1..arrived - Len(delivered) :
          delivered' = delivered \o Bytes(Len(delivered), n)
    /\ UNCHANGED arrived

Next == Arrive \/ Deliver

Spec == Init /\ [][Next]_vars
=============================================================================
