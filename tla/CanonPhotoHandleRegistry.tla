---------------------- MODULE CanonPhotoHandleRegistry ----------------------
(***************************************************************************)
(* CanonPhotoHandleRegistry.kt: the handles whose ObjectInfo is still to   *)
(* be read, each with its failed attempts, and the handles that were       *)
(* published, oldest first.  A registry is a value; every operation of the *)
(* class is a function of it.  The age limit of 5 s is the argument aged.  *)
(***************************************************************************)
EXTENDS Naturals, Sequences

CONSTANTS MaxAttempts,     \* PHOTO_INFO_MAX_ATTEMPTS
          PublishedLimit   \* PUBLISHED_HANDLE_LIMIT

ASSUME RegistryLimits ==
    MaxAttempts \in Nat \ {0} /\ PublishedLimit \in Nat \ {0}

EmptyRegistry == [pending |-> [h \in {} |-> 0], published |-> <<>>]

Pending(reg) == DOMAIN reg.pending
Published(reg) == {reg.published[i] : i \in 1..Len(reg.published)}

\* reg is a registry of handles of H.
IsRegistry(reg, H) ==
    /\ reg = [pending |-> reg.pending, published |-> reg.published]
    /\ Pending(reg) \subseteq H
    /\ reg.pending \in [Pending(reg) -> Nat]
    /\ reg.published \in Seq(H)

\* offer: what was published or already waits is refused.
Offers(reg, h) == h \notin Published(reg) /\ h \notin Pending(reg)
Offer(reg, h) ==
    IF Offers(reg, h)
    THEN [reg EXCEPT !.pending =
            [x \in Pending(reg) \cup {h} |-> IF x = h THEN 0 ELSE reg.pending[x]]]
    ELSE reg

Discard(reg, h) ==
    [reg EXCEPT !.pending = [x \in Pending(reg) \ {h} |-> reg.pending[x]]]

\* A registry that gives a handle up at its first failure.
RecordLastFailure(reg, h, transient, aged) == Discard(reg, h)

\* recordFailure: one attempt more, and out after the last one, after the age
\* limit, or at once when the failure is not transient.
RecordFailure(reg, h, transient, aged) ==
    IF h \notin Pending(reg) THEN reg
    ELSE IF transient /\ ~aged /\ reg.pending[h] + 1 < MaxAttempts
         THEN [reg EXCEPT !.pending[h] = @ + 1]
         ELSE Discard(reg, h)

\* Off by one.
EvictedLate(seq) == IF Len(seq) > PublishedLimit + 1 THEN Tail(seq) ELSE seq

\* published += handle keeps the place of a handle it has; then the oldest goes.
Evicted(seq) == IF Len(seq) > PublishedLimit THEN Tail(seq) ELSE seq
\* A published handle that goes on waiting.
MarkPublishedOnly(reg, h) ==
    [reg EXCEPT !.published =
        IF h \in Published(reg) THEN @ ELSE Evicted(Append(@, h))]
MarkPublished(reg, h) ==
    [Discard(reg, h) EXCEPT !.published =
        IF h \in Published(reg) THEN @ ELSE Evicted(Append(@, h))]

\* A handle never waits and is published at the same time, is published once,
\* and has attempts left while it waits; the memory of published handles is
\* bounded.
RegistryOK(reg) ==
    /\ Pending(reg) \cap Published(reg) = {}
    /\ \A i, j \in 1..Len(reg.published) :
          reg.published[i] = reg.published[j] => i = j
    /\ Len(reg.published) <= PublishedLimit
    /\ \A h \in Pending(reg) : reg.pending[h] < MaxAttempts
=============================================================================
