------------------------- MODULE CanonIngestProofs -------------------------
(* Proofs about CanonIngest and the registry it works with, for any        *)
(* number of handles, cards, requests and faults.                          *)
EXTENDS CanonIngest, SequenceTheorems, TLAPS

-----------------------------------------------------------------------------
(* Sequences without repetition                                            *)

\* The values of a sequence, and that each is there once.
Values(s) == {s[n] : n \in 1 .. Len(s)}
Distinct(s) == \A m, n \in 1 .. Len(s) : s[m] = s[n] => m = n

\* A sequence that grows by a value it had not.
LEMMA AppendDistinct ==
    ASSUME NEW H, NEW s \in Seq(H), NEW h \in H, Distinct(s), h \notin Values(s)
    PROVE  /\ Append(s, h) \in Seq(H) /\ Len(Append(s, h)) = Len(s) + 1
           /\ Distinct(Append(s, h)) /\ Values(Append(s, h)) = Values(s) \cup {h}
<1>1. /\ Len(s) \in Nat /\ Append(s, h) \in Seq(H) /\ Len(Append(s, h)) = Len(s) + 1
      /\ \A n \in 1 .. Len(s) : Append(s, h)[n] = s[n]
      /\ Append(s, h)[Len(s) + 1] = h
  BY AppendProperties, LenProperties
<1>2. \A n \in 1 .. Len(s) + 1 : n \in 1 .. Len(s) \/ n = Len(s) + 1
  BY <1>1
<1>3. 1 .. Len(s) \subseteq 1 .. Len(s) + 1 /\ Len(s) + 1 \in 1 .. Len(s) + 1
  BY <1>1
<1>4. \A n \in 1 .. Len(s) : s[n] # h
  BY DEF Values
<1>5. Distinct(Append(s, h))
  BY <1>1, <1>2, <1>4 DEF Distinct
<1>6. Values(Append(s, h)) = Values(s) \cup {h}
  BY <1>1, <1>2, <1>3 DEF Values
<1> QED BY <1>1, <1>5, <1>6

\* A sequence that loses its first value.
LEMMA TailDistinct ==
    ASSUME NEW H, NEW s \in Seq(H), s # <<>>, Distinct(s)
    PROVE  /\ Tail(s) \in Seq(H) /\ Len(Tail(s)) = Len(s) - 1
           /\ Distinct(Tail(s)) /\ Values(Tail(s)) \subseteq Values(s)
<1>1. /\ Len(s) \in Nat \ {0} /\ Tail(s) \in Seq(H) /\ Len(Tail(s)) = Len(s) - 1
      /\ \A n \in 1 .. Len(s) - 1 : Tail(s)[n] = s[n + 1]
  BY HeadTailProperties, EmptySeq, LenProperties
<1>2. \A n \in 1 .. Len(s) - 1 : n + 1 \in 1 .. Len(s)
  BY <1>1
<1>3. Distinct(Tail(s))
  BY <1>1, <1>2 DEF Distinct
<1>4. Values(Tail(s)) \subseteq Values(s)
  BY <1>1, <1>2 DEF Values
<1> QED BY <1>1, <1>3, <1>4

-----------------------------------------------------------------------------
(* The registry                                                            *)

\* A registry of handles of H that keeps its promises.
Sound(reg, H) == IsRegistry(reg, H) /\ RegistryOK(reg)

\* A new registry.
LEMMA EmptyFacts ==
    ASSUME NEW H
    PROVE  /\ Sound(EmptyRegistry, H)
           /\ Pending(EmptyRegistry) = {} /\ Published(EmptyRegistry) = {}
<1>1. EmptyRegistry.published = <<>> /\ Len(<<>>) = 0 /\ <<>> \in Seq(H)
  BY DEF EmptyRegistry
<1>2. 1 .. Len(EmptyRegistry.published) = {}
  BY <1>1
<1>3. Pending(EmptyRegistry) = {} /\ Published(EmptyRegistry) = {}
  BY <1>2 DEF EmptyRegistry, Pending, Published
<1>4. IsRegistry(EmptyRegistry, H)
  BY <1>1, <1>3 DEF EmptyRegistry, IsRegistry, Pending
<1>5. RegistryOK(EmptyRegistry)
  BY <1>1, <1>2, <1>3, RegistryLimits DEF RegistryOK
<1> QED BY <1>3, <1>4, <1>5 DEF Sound

\* A registry with other pending handles.
LEMMA PendingFacts ==
    ASSUME NEW H, NEW reg, Sound(reg, H), NEW D \in SUBSET H, NEW f \in [D -> Nat],
           D \cap Published(reg) = {}, \A x \in D : f[x] < MaxAttempts
    PROVE  /\ Sound([reg EXCEPT !.pending = f], H)
           /\ Pending([reg EXCEPT !.pending = f]) = D
           /\ Published([reg EXCEPT !.pending = f]) = Published(reg)
           /\ [reg EXCEPT !.pending = f].pending = f
<1> DEFINE new == [reg EXCEPT !.pending = f]
<1>1. new = [pending |-> f, published |-> reg.published]
  BY DEF Sound, IsRegistry
<1>2. new.pending = f /\ new.published = reg.published
  BY <1>1
<1> HIDE DEF new
<1>3. Pending(new) = D /\ Published(new) = Published(reg)
  BY <1>2 DEF Pending, Published
<1>4. IsRegistry(new, H)
  BY <1>1, <1>2, <1>3 DEF Sound, IsRegistry
<1>5. RegistryOK(new)
  BY <1>2, <1>3 DEF Sound, RegistryOK
<1> QED BY <1>2, <1>3, <1>4, <1>5 DEF Sound, new

\* The attempts of what waits.
LEMMA AttemptFacts ==
    ASSUME NEW H, NEW reg, Sound(reg, H)
    PROVE  /\ Pending(reg) \subseteq H /\ Pending(reg) \cap Published(reg) = {}
           /\ reg.pending \in [Pending(reg) -> Nat]
           /\ \A x \in Pending(reg) : reg.pending[x] < MaxAttempts
           /\ Published(reg) \subseteq H
<1>1. \A n \in 1 .. Len(reg.published) : reg.published[n] \in H
  BY LenProperties, ElementOfSeq DEF Sound, IsRegistry
<1> QED BY <1>1 DEF Sound, IsRegistry, RegistryOK, Published

\* offer
LEMMA OfferFacts ==
    ASSUME NEW H, NEW reg, Sound(reg, H), NEW h \in H
    PROVE  /\ Sound(Offer(reg, h), H)
           /\ Pending(Offer(reg, h)) = Pending(reg) \cup ({h} \ Published(reg))
           /\ Published(Offer(reg, h)) = Published(reg)
           /\ \A x \in Pending(Offer(reg, h)) :
                 Offer(reg, h).pending[x] = IF x \in Pending(reg) THEN reg.pending[x] ELSE 0
<1> DEFINE D == Pending(reg) \cup {h}
           f == [x \in D |-> IF x = h THEN 0 ELSE reg.pending[x]]
<1>1. CASE ~Offers(reg, h)
  BY <1>1 DEF Offer, Offers
<1>2. CASE Offers(reg, h)
  <2>1. D \in SUBSET H /\ D \cap Published(reg) = {}
    BY <1>2, AttemptFacts DEF Offers
  <2>2. f \in [D -> Nat] /\ \A x \in D : f[x] < MaxAttempts
    BY AttemptFacts, RegistryLimits
  <2>3. Offer(reg, h) = [reg EXCEPT !.pending = f]
    BY <1>2 DEF Offer
  <2>4. \A x \in D : f[x] = IF x \in Pending(reg) THEN reg.pending[x] ELSE 0
    BY <1>2 DEF Offers
  <2> HIDE DEF D, f
  <2>5. /\ Sound(Offer(reg, h), H) /\ Pending(Offer(reg, h)) = D
        /\ Published(Offer(reg, h)) = Published(reg) /\ Offer(reg, h).pending = f
    BY <2>1, <2>2, <2>3, PendingFacts
  <2> QED BY <1>2, <2>4, <2>5 DEF D, Offers
<1> QED BY <1>1, <1>2

\* Several handles that reconcileHandleCatalog offers.
LEMMA OfferAllFacts ==
    ASSUME NEW H, NEW reg, Sound(reg, H), NEW hs \in SUBSET H, hs \cap Published(reg) = {}
    PROVE  /\ Sound(OfferAll(reg, hs), H)
           /\ Pending(OfferAll(reg, hs)) = Pending(reg) \cup hs
           /\ Published(OfferAll(reg, hs)) = Published(reg)
           /\ \A x \in Pending(OfferAll(reg, hs)) :
                 OfferAll(reg, hs).pending[x]
                    = IF x \in Pending(reg) THEN reg.pending[x] ELSE 0
<1> DEFINE D == Pending(reg) \cup hs
           f == [x \in D |-> IF x \in Pending(reg) THEN reg.pending[x] ELSE 0]
<1>1. D \in SUBSET H /\ D \cap Published(reg) = {}
  BY AttemptFacts
<1>2. f \in [D -> Nat] /\ \A x \in D : f[x] < MaxAttempts
  BY AttemptFacts, RegistryLimits
<1>3. OfferAll(reg, hs) = [reg EXCEPT !.pending = f]
  BY DEF OfferAll
<1>4. \A x \in D : f[x] = IF x \in Pending(reg) THEN reg.pending[x] ELSE 0
  OBVIOUS
<1> HIDE DEF D, f
<1>5. /\ Sound(OfferAll(reg, hs), H) /\ Pending(OfferAll(reg, hs)) = D
      /\ Published(OfferAll(reg, hs)) = Published(reg) /\ OfferAll(reg, hs).pending = f
  BY <1>1, <1>2, <1>3, PendingFacts
<1> QED BY <1>4, <1>5 DEF D

\* discard
LEMMA DiscardFacts ==
    ASSUME NEW H, NEW reg, Sound(reg, H), NEW h
    PROVE  /\ Sound(Discard(reg, h), H)
           /\ Pending(Discard(reg, h)) = Pending(reg) \ {h}
           /\ Published(Discard(reg, h)) = Published(reg)
           /\ Discard(reg, h).published = reg.published
           /\ \A x \in Pending(reg) \ {h} : Discard(reg, h).pending[x] = reg.pending[x]
<1> DEFINE D == Pending(reg) \ {h}
           f == [x \in D |-> reg.pending[x]]
<1>1. D \in SUBSET H /\ D \cap Published(reg) = {}
  BY AttemptFacts
<1>2. f \in [D -> Nat] /\ \A x \in D : f[x] < MaxAttempts
  BY AttemptFacts
<1>3. Discard(reg, h) = [reg EXCEPT !.pending = f]
  BY DEF Discard
<1>4. \A x \in D : f[x] = reg.pending[x]
  OBVIOUS
<1>5. Discard(reg, h).published = reg.published
  BY DEF Discard, Sound, IsRegistry
<1> HIDE DEF D, f
<1>6. /\ Sound(Discard(reg, h), H) /\ Pending(Discard(reg, h)) = D
      /\ Published(Discard(reg, h)) = Published(reg) /\ Discard(reg, h).pending = f
  BY <1>1, <1>2, <1>3, PendingFacts
<1> QED BY <1>4, <1>5, <1>6 DEF D

\* recordFailure
LEMMA FailureFacts ==
    ASSUME NEW H, NEW reg, Sound(reg, H), NEW h, NEW transient \in BOOLEAN,
           NEW aged \in BOOLEAN
    PROVE  LET new == RecordFailure(reg, h, transient, aged) IN
           /\ Sound(new, H) /\ Published(new) = Published(reg)
           /\ Pending(reg) \ {h} \subseteq Pending(new) /\ Pending(new) \subseteq Pending(reg)
           /\ \A x \in Pending(new) :
                 new.pending[x] = IF x = h THEN reg.pending[h] + 1 ELSE reg.pending[x]
           /\ h \in Pending(reg) /\ transient /\ ~aged /\ reg.pending[h] + 1 < MaxAttempts
                 => h \in Pending(new)
<1> DEFINE f == [reg.pending EXCEPT ![h] = @ + 1]
<1>1. CASE h \notin Pending(reg)
  BY <1>1 DEF RecordFailure
<1>2. CASE /\ h \in Pending(reg)
           /\ transient /\ ~aged /\ reg.pending[h] + 1 < MaxAttempts
  <2>1. f \in [Pending(reg) -> Nat] /\ \A x \in Pending(reg) : f[x] < MaxAttempts
    BY <1>2, AttemptFacts
  <2>2. RecordFailure(reg, h, transient, aged) = [reg EXCEPT !.pending = f]
    BY <1>2 DEF RecordFailure, Sound, IsRegistry
  <2>3. \A x \in Pending(reg) : f[x] = IF x = h THEN reg.pending[h] + 1 ELSE reg.pending[x]
    BY AttemptFacts
  <2>4. Pending(reg) \in SUBSET H /\ Pending(reg) \cap Published(reg) = {}
    BY AttemptFacts
  <2> HIDE DEF f
  <2>5. [reg EXCEPT !.pending = f].pending = f
        /\ Sound([reg EXCEPT !.pending = f], H)
        /\ Pending([reg EXCEPT !.pending = f]) = Pending(reg)
        /\ Published([reg EXCEPT !.pending = f]) = Published(reg)
    BY <2>1, <2>4, PendingFacts
  <2> QED BY <1>2, <2>2, <2>3, <2>5
<1>3. CASE /\ h \in Pending(reg)
           /\ ~(transient /\ ~aged /\ reg.pending[h] + 1 < MaxAttempts)
  BY <1>3, DiscardFacts DEF RecordFailure
<1> QED BY <1>1, <1>2, <1>3

\* markPublished
LEMMA MarkFacts ==
    ASSUME NEW H, NEW reg, Sound(reg, H), NEW h \in H
    PROVE  /\ Sound(MarkPublished(reg, h), H)
           /\ Pending(MarkPublished(reg, h)) = Pending(reg) \ {h}
           /\ Published(MarkPublished(reg, h)) \subseteq Published(reg) \cup {h}
           /\ \A x \in Pending(reg) \ {h} :
                 MarkPublished(reg, h).pending[x] = reg.pending[x]
<1> DEFINE less == Discard(reg, h)
           seq == IF h \in Published(reg) THEN reg.published
                  ELSE Evicted(Append(reg.published, h))
           new == MarkPublished(reg, h)
<1>1. /\ Sound(less, H) /\ Pending(less) = Pending(reg) \ {h}
      /\ less.published = reg.published /\ Published(less) = Published(reg)
      /\ \A x \in Pending(reg) \ {h} : less.pending[x] = reg.pending[x]
  BY DiscardFacts
<1>2. new = [pending |-> less.pending, published |-> seq]
  <2> HIDE DEF less
  <2>1. less = [pending |-> less.pending, published |-> reg.published]
    BY <1>1 DEF Sound, IsRegistry
  <2>2. new = [less EXCEPT !.published = IF h \in Published(reg) THEN @
                                         ELSE Evicted(Append(@, h))]
    BY DEF MarkPublished, less
  <2> HIDE DEF new
  <2> QED BY <2>1, <2>2
<1>3. /\ reg.published \in Seq(H) /\ Distinct(reg.published)
      /\ Len(reg.published) <= PublishedLimit /\ Values(reg.published) = Published(reg)
      /\ Len(reg.published) \in Nat
  BY LenProperties DEF Sound, IsRegistry, RegistryOK, Distinct, Values, Published
<1>4. /\ seq \in Seq(H) /\ Distinct(seq) /\ Len(seq) <= PublishedLimit
      /\ Values(seq) \subseteq Published(reg) \cup {h}
  <2>1. CASE h \in Published(reg)
    BY <1>3, <2>1
  <2>2. CASE h \notin Published(reg)
    <3> DEFINE more == Append(reg.published, h)
    <3>1. /\ more \in Seq(H) /\ Len(more) = Len(reg.published) + 1 /\ Distinct(more)
          /\ Values(more) = Published(reg) \cup {h}
      BY <1>3, <2>2, AppendDistinct
    <3> HIDE DEF more
    <3>2. more # <<>>
      BY <1>3, <3>1, EmptySeq
    <3>3. /\ Tail(more) \in Seq(H) /\ Len(Tail(more)) = Len(more) - 1
          /\ Distinct(Tail(more)) /\ Values(Tail(more)) \subseteq Values(more)
      BY <3>1, <3>2, TailDistinct
    <3>4. seq = IF Len(more) > PublishedLimit THEN Tail(more) ELSE more
      BY <2>2 DEF Evicted, more
    <3> HIDE DEF seq
    <3> QED BY <1>3, <3>1, <3>3, <3>4, RegistryLimits
  <2> QED BY <2>1, <2>2
<1> HIDE DEF less, seq, new
<1>5. new.pending = less.pending /\ new.published = seq
  BY <1>2
<1>6. Pending(new) = Pending(less) /\ Published(new) = Values(seq)
  BY <1>5 DEF Pending, Published, Values
<1>7. IsRegistry(new, H)
  BY <1>1, <1>2, <1>4, <1>5, <1>6 DEF Sound, IsRegistry
<1>8. RegistryOK(new)
  BY <1>1, <1>4, <1>5, <1>6 DEF Sound, RegistryOK, Distinct
<1> QED BY <1>1, <1>4, <1>5, <1>6, <1>7, <1>8 DEF Sound, new

-----------------------------------------------------------------------------
(* Events                                                                  *)

Records == [handle : Handles, full : BOOLEAN]

\* The handles of a queue of events.
LEMMA EventFacts ==
    ASSUME NEW s \in Seq(Records)
    PROVE  /\ EventHandles(s) \subseteq Handles
           /\ s # <<>> => /\ Tail(s) \in Seq(Records) /\ Head(s) \in Records
                          /\ Head(s).handle \in EventHandles(s)
                          /\ EventHandles(s) = {Head(s).handle} \cup EventHandles(Tail(s))
<1>1. /\ Len(s) \in Nat /\ DOMAIN s = 1 .. Len(s)
      /\ \A n \in 1 .. Len(s) : s[n] \in Records
  BY LenProperties, ElementOfSeq
<1>2. EventHandles(s) \subseteq Handles
  BY <1>1 DEF EventHandles, Records
<1>3. ASSUME s # <<>>
      PROVE  /\ Tail(s) \in Seq(Records) /\ Head(s) \in Records
             /\ Head(s).handle \in EventHandles(s)
             /\ EventHandles(s) = {Head(s).handle} \cup EventHandles(Tail(s))
  <2>1. /\ Len(s) \in Nat \ {0} /\ Head(s) = s[1] /\ 1 \in DOMAIN s
        /\ Tail(s) \in Seq(Records) /\ DOMAIN Tail(s) = 1 .. Len(s) - 1
        /\ \A n \in 1 .. Len(s) - 1 : Tail(s)[n] = s[n + 1]
    BY <1>1, <1>3, HeadTailProperties, EmptySeq, LenProperties
  <2>2. \A n \in 1 .. Len(s) :
          n = 1 \/ (n - 1 \in 1 .. Len(s) - 1 /\ n = (n - 1) + 1)
    BY <2>1
  <2>3. \A n \in 1 .. Len(s) - 1 : n + 1 \in 1 .. Len(s)
    BY <2>1
  <2>4. EventHandles(s) \subseteq {Head(s).handle} \cup EventHandles(Tail(s))
    <3> SUFFICES ASSUME NEW n \in 1 .. Len(s)
                 PROVE  s[n].handle \in {Head(s).handle} \cup EventHandles(Tail(s))
      BY <1>1 DEF EventHandles
    <3>1. CASE n = 1
      BY <2>1, <3>1
    <3>2. CASE n - 1 \in 1 .. Len(s) - 1 /\ n = (n - 1) + 1
      <4>1. Tail(s)[n - 1] = s[n]
        BY <2>1, <3>2
      <4> QED BY <2>1, <3>2, <4>1 DEF EventHandles
    <3> QED BY <2>2, <3>1, <3>2
  <2>5. EventHandles(Tail(s)) \subseteq EventHandles(s)
    BY <1>1, <2>1, <2>3 DEF EventHandles
  <2>6. Head(s).handle \in EventHandles(s)
    BY <2>1 DEF EventHandles
  <2> QED BY <1>1, <2>1, <2>4, <2>5, <2>6
<1> QED BY <1>2, <1>3

\* No events.
LEMMA NoEvents == EventHandles(<<>>) = {}
BY DEF EventHandles

\* The records of a new object.
LEMMA ShotFacts ==
    ASSUME NEW s \in Seq(Records), NEW h \in Handles, NEW k \in {1, 2},
           NEW more \in Seq(Records), Len(more) = k, \A n \in 1 .. k : more[n].handle = h
    PROVE  s \o more \in Seq(Records) /\ EventHandles(s \o more) = EventHandles(s) \cup {h}
<1>1. /\ s \o more \in Seq(Records) /\ Len(s \o more) = Len(s) + k /\ Len(s) \in Nat
      /\ \A n \in 1 .. Len(s) + k :
            (s \o more)[n] = IF n <= Len(s) THEN s[n] ELSE more[n - Len(s)]
  BY ConcatProperties, LenProperties
<1>2. DOMAIN (s \o more) = 1 .. Len(s) + k /\ DOMAIN s = 1 .. Len(s)
  BY <1>1, LenProperties
<1>3. \A n \in 1 .. Len(s) + k : ~(n <= Len(s)) => n - Len(s) \in 1 .. k
  <2>1. Len(s) \in Nat /\ k \in Nat
    BY <1>1
  <2> TAKE n \in 1 .. Len(s) + k
  <2>2. n \in Int /\ 1 <= n /\ n <= Len(s) + k
    BY <2>1
  <2> QED BY <2>1, <2>2
<1>4. EventHandles(s \o more) \subseteq EventHandles(s) \cup {h}
  <2>1. \A n \in 1 .. Len(s) + k : n <= Len(s) => n \in 1 .. Len(s)
    BY <1>1
  <2> QED BY <1>1, <1>2, <1>3, <2>1 DEF EventHandles
<1>5. EventHandles(s) \subseteq EventHandles(s \o more)
  <2>1. \A n \in 1 .. Len(s) : n \in 1 .. Len(s) + k /\ n <= Len(s)
    BY <1>1
  <2> QED BY <1>1, <1>2, <2>1 DEF EventHandles
<1>6. h \in EventHandles(s \o more)
  <2>1. Len(s) + 1 \in 1 .. Len(s) + k /\ ~(Len(s) + 1 <= Len(s)) /\ Len(s) + 1 - Len(s) = 1
    BY <1>1
  <2>2. (s \o more)[Len(s) + 1].handle = h
    BY <1>1, <2>1
  <2> QED BY <1>2, <2>1, <2>2 DEF EventHandles
<1> QED BY <1>1, <1>4, <1>5, <1>6

-----------------------------------------------------------------------------
(* What the actions do, in sets of handles                                 *)

\* The parts of a state that an action may leave alone.
SameCamera == UNCHANGED <<card, storage, fresh, old, attended>>
SameEvents == UNCHANGED <<Coming, Here>>
SameCache == UNCHANGED <<catalog, catalogStorage, photoCache, inspected, registry,
                         Waits, Known>>
SameNews == UNCHANGED <<announced, Announced, found>>
SameLists == UNCHANGED <<listed, unlisted>>
SameScan == /\ UNCHANGED <<todo, result>> /\ (op' = "new" <=> op = "new")
            /\ op' \in {op, "none", "poll"}
Same == SameCamera /\ SameEvents /\ SameCache /\ SameNews /\ SameLists /\ SameScan
MayClear == listening => listening' \/ MayStop
FaultsGrow == faults' = faults \/ Fault

\* What a derived set is made of stays, and so does the set.
LEMMA SameSets ==
    /\ UNCHANGED registry => UNCHANGED <<Waits, Known>>
    /\ UNCHANGED queue => UNCHANGED Coming
    /\ UNCHANGED batch => UNCHANGED Here
    /\ UNCHANGED announced => UNCHANGED Announced
    /\ queue' = <<>> => Coming' = {}
    /\ batch' = <<>> => Here' = {}
    /\ batch = <<>> => Here = {}
    /\ batch' = queue => Here' = Coming
BY NoEvents DEF Waits, Known, Coming, Here, Announced

\* What can be done to the registry.
Offered(hs) ==
    /\ Waits' = Waits \cup hs /\ Known' = Known
    /\ \A x \in Waits' : registry'.pending[x] = IF x \in Waits THEN registry.pending[x] ELSE 0
Marked(h) ==
    /\ Waits' = Waits \ {h} /\ Known' \subseteq Known \cup {h}
    /\ \A x \in Waits' : registry'.pending[x] = registry.pending[x]
Dropped(h) ==
    /\ Waits' = Waits \ {h} /\ Known' = Known
    /\ \A x \in Waits' : registry'.pending[x] = registry.pending[x]
Failed(h, transient, aged) ==
    /\ Waits \ {h} \subseteq Waits' /\ Waits' \subseteq Waits /\ Known' = Known
    /\ \A x \in Waits' :
          registry'.pending[x] = IF x = h THEN registry.pending[h] + 1 ELSE registry.pending[x]
    /\ h \in Waits /\ transient /\ ~aged /\ registry.pending[h] + 1 < MaxAttempts => h \in Waits'

\* The operations of the registry do that and keep it sound.
LEMMA RegistrySteps ==
    ASSUME Sound(registry, Handles), NEW h \in Handles
    PROVE  /\ registry' = Offer(registry, h)
                 => Sound(registry', Handles) /\ Offered({h} \ Known)
           /\ registry' = MarkPublished(registry, h) => Sound(registry', Handles) /\ Marked(h)
           /\ registry' = Discard(registry, h) => Sound(registry', Handles) /\ Dropped(h)
           /\ \A transient, aged \in BOOLEAN :
                 registry' = RecordFailure(registry, h, transient, aged)
                    => Sound(registry', Handles) /\ Failed(h, transient, aged)
<1>1. registry' = Offer(registry, h) => Sound(registry', Handles) /\ Offered({h} \ Known)
  BY OfferFacts DEF Offered, Waits, Known
<1>2. registry' = MarkPublished(registry, h) => Sound(registry', Handles) /\ Marked(h)
  BY MarkFacts DEF Marked, Waits, Known
<1>3. registry' = Discard(registry, h) => Sound(registry', Handles) /\ Dropped(h)
  BY DiscardFacts DEF Dropped, Waits, Known
<1>4. ASSUME NEW transient \in BOOLEAN, NEW aged \in BOOLEAN,
             registry' = RecordFailure(registry, h, transient, aged)
      PROVE  Sound(registry', Handles) /\ Failed(h, transient, aged)
  BY <1>4, FailureFacts DEF Failed, Waits, Known
<1> QED BY <1>1, <1>2, <1>3, <1>4

\* Several offers, and a new registry.
LEMMA ReconcileSteps ==
    ASSUME Sound(registry, Handles), NEW hs \in SUBSET Handles, hs \cap Known = {}
    PROVE  /\ registry' = OfferAll(registry, hs) => Sound(registry', Handles) /\ Offered(hs)
           /\ registry' = EmptyRegistry
                 => Sound(registry', Handles) /\ Waits' = {} /\ Known' = {}
BY OfferAllFacts, EmptyFacts DEF Offered, Waits, Known

\* A handle that is published.
GoesOut(h) ==
    /\ photoCache' = photoCache \cup {h} /\ inspected' = inspected \cup {h}
    /\ Marked(h)
    /\ announced' = [announced EXCEPT ![h] = IF listening THEN @ + 1 ELSE @]
    /\ Announced' = Announced \cup (IF listening THEN {h} ELSE {})
Quiet == UNCHANGED <<photoCache, inspected, announced, Announced>>

\* Publish does that.
LEMMA PublishSteps ==
    ASSUME Sound(registry, Handles), DeliveryTypeOK, NEW h \in Handles, Publish(h)
    PROVE  GoesOut(h) /\ Sound(registry', Handles) /\ announced' \in [Handles -> Nat]
<1>1. Marked(h) /\ Sound(registry', Handles)
  BY RegistrySteps DEF Publish
<1>2. /\ announced' = [announced EXCEPT ![h] = IF listening THEN @ + 1 ELSE @]
      /\ announced' \in [Handles -> Nat]
  BY DEF Publish, Emit, DeliveryTypeOK
<1>3. Announced' = Announced \cup (IF listening THEN {h} ELSE {})
  BY <1>2 DEF Announced, DeliveryTypeOK
<1> QED BY <1>1, <1>2, <1>3 DEF GoesOut, Publish

-----------------------------------------------------------------------------
(* The actions: types, stages and effects                                  *)

\* What every action keeps of the types and the stages.
Typed == TypeOK /\ Sound(registry, Handles) /\ StageInv

\* Nothing but the flags and the stage changes.
Rests == Same /\ MayClear /\ faults' = faults

\* Starting and stopping.
LEMMA ControlStep ==
    ASSUME Typed, Control
    PROVE  Rests /\ Typed'
<1>1. Same /\ faults' = faults /\ MayClear
  BY SameSets DEF Control, StartListening, MainClearsFlag, StopLoop, Same, SameCamera,
      SameEvents, SameCache, SameNews, SameLists, SameScan, MayClear, vars, cameraVars,
      stateVars, scanVars, deliveries
<1>2. TypeOK'
  BY DEF Typed, TypeOK, CameraTypeOK, CacheTypeOK, RunTypeOK, DeliveryTypeOK, Control,
      StartListening, MainClearsFlag, StopLoop, cameraVars, stateVars, scanVars, deliveries
<1>3. Sound(registry, Handles)'
  BY DEF Typed, Control, StartListening, MainClearsFlag, StopLoop, stateVars
<1>4. StageInv'
  BY <1>1 DEF Same, SameCache, Typed, StageInv, Control, StartListening, MainClearsFlag,
      StopLoop, scanVars
<1> QED BY <1>1, <1>2, <1>3, <1>4 DEF Rests, Typed

\* BeginPoll, and the steps that only go on to the next stage.
LEMMA StageStep ==
    ASSUME Typed, BeginPoll \/ EventsDone \/ ScanDone \/ ResolveDone
    PROVE  Rests /\ Typed'
<1>1. Same /\ faults' = faults /\ MayClear
  <2>1. CASE BeginPoll
    BY <2>1, SameSets DEF BeginPoll, Same, SameCamera, SameEvents, SameCache, SameNews,
        SameLists, SameScan, MayClear, cameraVars, stateVars, scanVars, deliveries
  <2>2. CASE EventsDone
    BY <2>2, SameSets DEF EventsDone, Same, SameCamera, SameEvents, SameCache, SameNews,
        SameLists, SameScan, MayClear, cameraVars, stateVars, scanVars, deliveries
  <2>3. CASE ScanDone
    BY <2>3, SameSets DEF ScanDone, Same, SameCamera, SameEvents, SameCache, SameNews,
        SameLists, SameScan, MayClear, cameraVars, stateVars, scanVars, deliveries
  <2>4. CASE ResolveDone
    <3>1. UNCHANGED <<todo, result, batch>> /\ op' \in {op, "none"}
          /\ (op' = "new" <=> op = "new")
      BY <2>4 DEF ResolveDone, AfterMaintenance, Finish, Typed, StageInv, scanVars
    <3> QED BY <2>4, <3>1, SameSets DEF ResolveDone, Same, SameCamera, SameEvents,
        SameCache, SameNews, SameLists, SameScan, MayClear, cameraVars, stateVars, deliveries
  <2> QED BY <2>1, <2>2, <2>3, <2>4
<1>2. CameraTypeOK' /\ CacheTypeOK' /\ DeliveryTypeOK' /\ Sound(registry, Handles)'
  BY DEF Typed, TypeOK, CameraTypeOK, CacheTypeOK, DeliveryTypeOK, BeginPoll, EventsDone,
      ScanDone, ResolveDone, cameraVars, stateVars, deliveries
<1>3. Waits \subseteq Handles
  BY AttemptFacts DEF Typed, Waits
<1>4. RunTypeOK'
  <2>1. CASE BeginPoll
    BY <2>1 DEF Typed, TypeOK, RunTypeOK, BeginPoll, scanVars
  <2>2. CASE EventsDone
    BY <1>3, <2>2 DEF Typed, TypeOK, RunTypeOK, EventsDone, scanVars, Waits
  <2>3. CASE ScanDone
    BY <2>3 DEF Typed, TypeOK, RunTypeOK, ScanDone
  <2>4. CASE ResolveDone
    BY <2>4, EmptySeq DEF Typed, TypeOK, RunTypeOK, ResolveDone, AfterMaintenance, Finish,
        scanVars
  <2> QED BY <2>1, <2>2, <2>3, <2>4
<1>5. StageInv'
  BY <1>1 DEF Same, SameCache, Typed, RunTypeOK, TypeOK, StageInv, BeginPoll, EventsDone,
      ScanDone, ResolveDone, AfterMaintenance, Finish, scanVars, Waits
<1> QED BY <1>1, <1>2, <1>4, <1>5 DEF Rests, Typed, TypeOK

\* The camera: a new object, a deletion, another card.
Shoots ==
    /\ \E h \in fresh : /\ fresh' = fresh \ {h} /\ card' = card \cup {h}
                        /\ attended' = IF listening THEN attended \cup {h} ELSE attended
                        /\ Coming' = Coming \cup {h}
    /\ UNCHANGED <<storage, old, Here, listening, faults>>
    /\ SameCache /\ SameNews /\ SameLists /\ SameScan
Deletes ==
    /\ card' \subseteq card /\ UNCHANGED <<storage, fresh, old, attended, listening>> /\ Fault
    /\ SameEvents /\ SameCache /\ SameNews /\ SameLists /\ SameScan
Swaps ==
    /\ storage' > storage /\ card' \subseteq fresh /\ fresh' = fresh \ card'
    /\ old' = old \cup card' /\ UNCHANGED <<attended, listening, faults>>
    /\ SameEvents /\ SameCache /\ SameNews /\ SameLists /\ SameScan

\* Shoot has the effect Shoots: the new object's event comes.
LEMMA ShootStep ==
    ASSUME Typed, Shoot
    PROVE  Shoots /\ Typed'
<1>1. PICK h \in fresh, full \in BOOLEAN, copies \in {<<1>>, <<1, 2>>} :
          /\ fresh' = fresh \ {h} /\ card' = card \cup {h}
          /\ attended' = IF listening THEN attended \cup {h} ELSE attended
          /\ queue' = queue \o [i \in DOMAIN copies |-> [handle |-> h, full |-> full]]
  BY DEF Shoot
<1>2. h \in Handles /\ queue \in Seq(Records)
  BY DEF Typed, TypeOK, CameraTypeOK, Records
<1>3. queue' \in Seq(Records) /\ Coming' = Coming \cup {h}
  <2> DEFINE more == [i \in DOMAIN copies |-> [handle |-> h, full |-> full]]
  <2>1. PICK k \in {1, 2} : DOMAIN copies = 1 .. k
    OBVIOUS
  <2>2. more \in [1 .. k -> Records]
    BY <1>2, <2>1 DEF Records
  <2>3. more \in Seq(Records) /\ Len(more) = k
    BY <2>2, SeqDef, LenProperties
  <2>4. \A n \in 1 .. k : more[n].handle = h
    BY <2>1
  <2> HIDE DEF more
  <2>5. EventHandles(queue \o more) = EventHandles(queue) \cup {h}
        /\ queue \o more \in Seq(Records)
    BY <1>2, <2>3, <2>4, ShotFacts
  <2> QED BY <1>1, <2>5 DEF Coming, more
<1>4. Shoots
  BY <1>1, <1>3, SameSets DEF Shoots, Shoot, SameCache, SameNews, SameLists, SameScan,
      stateVars, scanVars, deliveries
<1>5. CameraTypeOK'
  BY <1>1, <1>2, <1>3 DEF Typed, TypeOK, CameraTypeOK, Records, Shoot
<1>6. CacheTypeOK' /\ RunTypeOK' /\ DeliveryTypeOK' /\ Sound(registry, Handles)'
  BY DEF Shoot, Typed, TypeOK, CacheTypeOK, RunTypeOK, DeliveryTypeOK, stateVars, scanVars,
      deliveries
<1>7. StageInv'
  BY <1>4 DEF Shoots, SameCache, Shoot, Typed, StageInv, scanVars
<1> QED BY <1>4, <1>5, <1>6, <1>7 DEF Typed, TypeOK

\* Delete only takes objects off the card.
LEMMA DeleteStep ==
    ASSUME Typed, Delete
    PROVE  Deletes /\ Typed'
<1>1. Deletes
  BY SameSets DEF Deletes, Delete, SameEvents, SameCache, SameNews, SameLists, SameScan,
      stateVars, scanVars, deliveries
<1>2. TypeOK' /\ Sound(registry, Handles)'
  BY DEF Delete, Fault, Typed, TypeOK, CameraTypeOK, CacheTypeOK, RunTypeOK, DeliveryTypeOK,
      stateVars, scanVars, deliveries
<1>3. StageInv'
  BY <1>1 DEF Deletes, SameCache, Delete, Typed, StageInv, scanVars
<1> QED BY <1>1, <1>2, <1>3 DEF Typed

\* A change of card: another storage, and its objects are old.
LEMMA SwapStep ==
    ASSUME Typed, SwapCard
    PROVE  Swaps /\ Typed'
<1>1. Swaps
  BY SameSets DEF Swaps, SwapCard, SameEvents, SameCache, SameNews, SameLists, SameScan,
      stateVars, scanVars, deliveries
<1>2. TypeOK' /\ Sound(registry, Handles)'
  BY DEF SwapCard, Typed, TypeOK, CameraTypeOK, CacheTypeOK, RunTypeOK, DeliveryTypeOK,
      stateVars, scanVars, deliveries
<1>3. StageInv'
  BY <1>1 DEF Swaps, SameCache, SwapCard, Typed, StageInv, scanVars
<1> QED BY <1>1, <1>2, <1>3 DEF Typed

\* The events move to the batch, or stay.
Fetches ==
    /\ Coming' \cup Here' \subseteq Coming /\ Coming' \cap Here' = {}
    /\ SameCamera /\ SameCache /\ SameNews /\ SameLists /\ SameScan
    /\ UNCHANGED listening /\ FaultsGrow

\* Fetching events, successful or not, has that effect.
LEMMA FetchStep ==
    ASSUME Typed, FetchEvents \/ FetchFails
    PROVE  Fetches /\ Typed'
<1>1. /\ phase = "fetch" /\ batch = <<>> /\ Here = {} /\ op # "new" /\ op # "none" /\ waiting = {}
      /\ <<>> \in Seq([handle : Handles, full : BOOLEAN])
  BY SameSets, EmptySeq DEF Typed, StageInv, FetchEvents, FetchFails
<1>2. UNCHANGED <<todo, result>> /\ op' \in {op, "none"}
  BY <1>1 DEF FetchEvents, FetchFails, AfterMaintenance, Finish, Typed, StageInv, scanVars
<1>3. Coming' \cup Here' \subseteq Coming /\ Coming' \cap Here' = {}
  <2>1. CASE FetchEvents
    BY <1>1, <2>1, SameSets DEF FetchEvents, Finish
  <2>2. CASE FetchFails
    BY <1>1, <2>2, SameSets DEF FetchFails, AfterMaintenance, Finish
  <2> QED BY <2>1, <2>2
<1>4. Fetches
  <2>1. SameCamera /\ SameCache /\ SameNews /\ SameLists /\ UNCHANGED listening
    BY SameSets DEF FetchEvents, FetchFails, SameCamera, SameCache, SameNews, SameLists,
        stateVars, deliveries
  <2>2. SameScan /\ FaultsGrow
    BY <1>1, <1>2 DEF FetchEvents, FetchFails, SameScan, FaultsGrow
  <2> QED BY <1>3, <2>1, <2>2 DEF Fetches
<1>5. CameraTypeOK' /\ CacheTypeOK' /\ DeliveryTypeOK' /\ Sound(registry, Handles)'
  <2>1. CameraTypeOK'
    BY <1>1 DEF Typed, TypeOK, CameraTypeOK, FetchEvents, FetchFails
  <2>2. DeliveryTypeOK'
    BY DEF Typed, TypeOK, DeliveryTypeOK, FetchEvents, FetchFails, Fault, deliveries
  <2>3. CacheTypeOK' /\ Sound(registry, Handles)'
    BY DEF Typed, TypeOK, CacheTypeOK, FetchEvents, FetchFails, stateVars
  <2> QED BY <2>1, <2>2, <2>3
<1>6. RunTypeOK'
  <2>1. CASE FetchEvents
    BY <1>1, <2>1 DEF FetchEvents, Finish, Typed, TypeOK, RunTypeOK, CameraTypeOK, scanVars
  <2>2. CASE FetchFails
    BY <1>1, <2>2 DEF FetchFails, AfterMaintenance, Finish, Typed, TypeOK, RunTypeOK, scanVars
  <2> QED BY <2>1, <2>2
<1>7. StageInv'
  <2>1. Waits' = Waits
    BY <1>4 DEF Fetches, SameCache
  <2>2. CASE FetchEvents
    BY <1>1, <2>1, <2>2 DEF FetchEvents, Finish, Typed, StageInv, scanVars
  <2>3. CASE FetchFails
    BY <1>1, <2>1, <2>3 DEF FetchFails, AfterMaintenance, Finish, Typed, TypeOK, RunTypeOK,
        StageInv, scanVars
  <2> QED BY <2>2, <2>3
<1> QED BY <1>4, <1>5, <1>6, <1>7 DEF Typed, TypeOK

\* One event.
Hears ==
    /\ \E h \in Here :
          /\ catalog' = catalog \cup {h}
          /\ \/ /\ h \in photoCache \cup Waits \cup Known
                /\ Quiet /\ UNCHANGED <<registry, Waits, Known>>
             \/ /\ h \notin photoCache \cup Waits \cup Known
                /\ GoesOut(h)
             \/ /\ h \notin photoCache \cup Waits \cup Known
                /\ Offered({h} \ Known) /\ Quiet
    /\ Here' \subseteq Here /\ op # "new"
    /\ SameCamera /\ SameLists /\ SameScan
    /\ UNCHANGED <<Coming, catalogStorage, found, listening, faults>>

\* One event record handled: its handle is known afterwards.
LEMMA HearStep ==
    ASSUME Typed, HandleEvent
    PROVE  Hears /\ Typed'
<1> DEFINE h == Head(batch).handle
<1>1. /\ phase = "events" /\ batch # <<>> /\ op # "new"
      /\ batch \in Seq(Records)
  BY DEF HandleEvent, Typed, TypeOK, RunTypeOK, StageInv, Records
<1>2. h \in Handles /\ h \in Here /\ Here' \subseteq Here /\ batch' \in Seq(Records)
  BY <1>1, EventFacts DEF Here, Records, HandleEvent
<1>3. Sound(registry, Handles) /\ DeliveryTypeOK
  BY DEF Typed, TypeOK
<1> DEFINE How ==
       \/ /\ h \in photoCache \cup Waits \cup Known
          /\ Quiet /\ UNCHANGED <<registry, Waits, Known>>
       \/ /\ h \notin photoCache \cup Waits \cup Known
          /\ h \in Photos /\ GoesOut(h)
       \/ /\ h \notin photoCache \cup Waits \cup Known
          /\ Offered({h} \ Known) /\ Quiet
<1>4. How /\ Sound(registry', Handles) /\ announced' \in [Handles -> Nat]
  <2> HIDE DEF h
  <2>1. CASE h \in photoCache \/ ~Offers(registry, h)
    <3>1. UNCHANGED <<photoCache, inspected, registry, announced>>
      BY <2>1 DEF HandleEvent, h
    <3>2. h \in photoCache \cup Waits \cup Known
      BY <2>1 DEF Offers, Waits, Known
    <3> QED BY <1>3, <3>1, <3>2, SameSets DEF DeliveryTypeOK, Quiet
  <2>2. CASE h \notin photoCache /\ Offers(registry, h)
    <3>1. h \notin photoCache \cup Waits \cup Known
      BY <2>2 DEF Offers, Waits, Known
    <3>2. \/ h \in Photos /\ Publish(h)
          \/ /\ registry' = Offer(registry, h)
             /\ UNCHANGED <<photoCache, inspected, announced>>
      BY <2>2 DEF HandleEvent, h
    <3>3. CASE h \in Photos /\ Publish(h)
      BY <1>2, <1>3, <3>1, <3>3, PublishSteps
    <3>4. CASE /\ registry' = Offer(registry, h)
               /\ UNCHANGED <<photoCache, inspected, announced>>
      BY <1>2, <1>3, <3>1, <3>4, RegistrySteps, SameSets DEF Quiet, DeliveryTypeOK
    <3> QED BY <3>2, <3>3, <3>4
  <2> QED BY <2>1, <2>2
<1>5. catalog' = catalog \cup {h}
  BY DEF HandleEvent
<1> HIDE DEF h
<1>6. Hears
  BY <1>1, <1>2, <1>4, <1>5, SameSets DEF Hears, HandleEvent, SameCamera, SameLists, SameScan,
      scanVars, cameraVars
<1>7. CameraTypeOK' /\ DeliveryTypeOK'
  BY <1>4 DEF Typed, TypeOK, CameraTypeOK, DeliveryTypeOK, HandleEvent, cameraVars
<1>8. CacheTypeOK'
  BY <1>2, <1>4, <1>5 DEF Typed, TypeOK, CacheTypeOK, GoesOut, Quiet, HandleEvent, Sound
<1>9. RunTypeOK'
  BY <1>2 DEF Typed, TypeOK, RunTypeOK, HandleEvent, scanVars, Records
<1>10. StageInv'
  BY <1>1 DEF Typed, StageInv, HandleEvent, scanVars
<1> QED BY <1>4, <1>6, <1>7, <1>8, <1>9, <1>10 DEF Typed, TypeOK

\* A new baseline, with nothing known.
Replaces ==
    /\ ~SameStorage /\ catalogStorage' = storage
    /\ photoCache' = {} /\ inspected' = {} /\ Waits' = {} /\ Known' = {}

\* ReplaceBaseline does that.
LEMMA ReplaceFacts ==
    ASSUME Typed, ReplaceBaseline
    PROVE  /\ Sound(registry', Handles) /\ CacheTypeOK' /\ catalog' = card
           /\ ~SameStorage => Replaces
<1>1. Sound(registry', Handles) /\ Waits' = {} /\ Known' = {}
  BY ReconcileSteps, {} \in SUBSET Handles DEF Typed, ReplaceBaseline
<1>2. CacheTypeOK'
  BY <1>1 DEF Typed, TypeOK, CameraTypeOK, CacheTypeOK, ReplaceBaseline, Sound
<1> QED BY <1>1, <1>2 DEF ReplaceBaseline, Replaces

\* A reconciliation.
Reconciles ==
    /\ catalog' = card
    /\ \/ /\ SameStorage /\ Offered(Added \ (photoCache \cup Waits \cup Known))
          /\ UNCHANGED <<catalogStorage, photoCache, inspected>>
       \/ Replaces
    /\ Here = {} /\ op # "new"
    /\ SameCamera /\ SameEvents /\ SameNews /\ SameLists /\ SameScan
    /\ UNCHANGED <<listening, faults>>

\* Reconciliation offers what the catalog did not have.
LEMMA ReconcileStep ==
    ASSUME Typed, Reconcile
    PROVE  Reconciles /\ Typed'
<1> DEFINE hs == {h \in Added \ photoCache : Offers(registry, h)}
<1>1. phase = "reconcile" /\ batch = <<>> /\ Here = {} /\ op = "poll"
  BY SameSets DEF Typed, StageInv, Reconcile
<1>2. /\ hs = Added \ (photoCache \cup Waits \cup Known)
      /\ hs \in SUBSET Handles /\ hs \cap Known = {}
  BY DEF Offers, Waits, Known, Added, Typed, TypeOK, CameraTypeOK
<1>3. /\ Sound(registry', Handles) /\ CacheTypeOK' /\ catalog' = card
      /\ \/ /\ SameStorage /\ Offered(hs)
            /\ UNCHANGED <<catalogStorage, photoCache, inspected>>
         \/ Replaces
  <2>1. CASE SameStorage
    <3>1. /\ catalog' = card /\ registry' = OfferAll(registry, hs)
          /\ UNCHANGED <<catalogStorage, photoCache, inspected>>
      BY <2>1 DEF Reconcile
    <3> HIDE DEF hs
    <3>2. Sound(registry', Handles) /\ Offered(hs)
      BY <1>2, <3>1, ReconcileSteps DEF Typed
    <3>3. CacheTypeOK'
      BY <3>1, <3>2 DEF Typed, TypeOK, CameraTypeOK, CacheTypeOK, Sound
    <3> QED BY <2>1, <3>1, <3>2, <3>3
  <2>2. CASE ~SameStorage
    BY <2>2, ReplaceFacts DEF Reconcile
  <2> QED BY <2>1, <2>2
<1> HIDE DEF hs
<1>4. Reconciles
  BY <1>1, <1>2, <1>3, SameSets DEF Reconciles, Reconcile, SameCamera, SameEvents,
      SameNews, SameLists, SameScan, cameraVars, scanVars, deliveries
<1>5. Sound(registry', Handles) /\ CacheTypeOK' /\ Waits' \subseteq Handles
  BY <1>3, AttemptFacts DEF Waits
<1>6. CameraTypeOK' /\ DeliveryTypeOK'
  BY DEF Typed, TypeOK, CameraTypeOK, DeliveryTypeOK, Reconcile, cameraVars, deliveries
<1>7. RunTypeOK'
  BY <1>5 DEF Typed, TypeOK, RunTypeOK, Reconcile, scanVars, Waits
<1>8. StageInv'
  BY <1>1 DEF Typed, StageInv, Reconcile, scanVars, Waits
<1> QED BY <1>4, <1>5, <1>6, <1>7, <1>8 DEF Typed, TypeOK

\* The ObjectInfo of a pending handle, or a failure to read it.
Resolves ==
    /\ \E h \in Waits :
          \/ /\ catalog' = catalog \cup {h} /\ GoesOut(h)
             /\ h \in card /\ UNCHANGED faults
          \/ /\ h \notin Photos /\ Dropped(h) /\ inspected' = inspected \cup {h}
             /\ UNCHANGED <<catalog, photoCache, announced, Announced, faults>>
          \/ \E kind \in {"transient", "fatal", "aged"} :
                /\ Fails(h, kind) /\ Failed(h, kind # "fatal", kind = "aged")
                /\ Quiet /\ UNCHANGED catalog
    /\ op # "new"
    /\ SameCamera /\ SameEvents /\ SameLists /\ SameScan
    /\ UNCHANGED <<catalogStorage, found, listening>>

\* A pending handle is published, dropped, tried again or given up.
LEMMA ResolveStep ==
    ASSUME Typed, Resolve
    PROVE  Resolves /\ Typed'
<1>1. /\ phase = "resolve" /\ op # "new" /\ waiting \subseteq Waits
      /\ Sound(registry, Handles) /\ DeliveryTypeOK
  BY DEF Typed, StageInv, Resolve, TypeOK
<1> DEFINE Read(h) == /\ Reads(h) /\ h \in Photos
                      /\ catalog' = catalog \cup {h} /\ Publish(h)
           Drop(h) == /\ Reads(h) /\ h \notin Photos /\ registry' = Discard(registry, h)
                      /\ inspected' = inspected \cup {h}
                      /\ UNCHANGED <<catalog, photoCache, announced>>
           Fail(h, kind) ==
              /\ Fails(h, kind)
              /\ registry' = RecordFailure(registry, h, kind # "fatal", kind = "aged")
              /\ UNCHANGED <<catalog, photoCache, inspected, announced>>
<1>2. PICK h \in waiting :
         /\ waiting' = waiting \ {h}
         /\ \/ Read(h) \/ Drop(h) \/ \E kind \in {"transient", "fatal", "aged"} : Fail(h, kind)
  BY DEF Resolve
<1>3. h \in Handles /\ h \in Waits
  BY <1>1, <1>2 DEF Typed, TypeOK, RunTypeOK
<1> DEFINE How ==
          \/ /\ catalog' = catalog \cup {h} /\ GoesOut(h) /\ h \in Photos
             /\ h \in card /\ UNCHANGED faults
          \/ /\ h \notin Photos /\ Dropped(h) /\ inspected' = inspected \cup {h}
             /\ UNCHANGED <<catalog, photoCache, announced, Announced, faults>>
          \/ \E kind \in {"transient", "fatal", "aged"} :
                /\ Fails(h, kind) /\ Failed(h, kind # "fatal", kind = "aged")
                /\ Quiet /\ UNCHANGED catalog
<1>4. /\ How /\ Sound(registry', Handles) /\ announced' \in [Handles -> Nat]
      /\ Waits \ {h} \subseteq Waits'
  <2>1. CASE Read(h)
    BY <1>1, <1>3, <2>1, PublishSteps DEF Reads, GoesOut, Marked
  <2>2. CASE Drop(h)
    BY <1>1, <1>3, <2>2, RegistrySteps, SameSets DEF Reads, Dropped, DeliveryTypeOK
  <2>3. ASSUME NEW kind \in {"transient", "fatal", "aged"}, Fail(h, kind)
        PROVE  /\ How /\ Sound(registry', Handles) /\ announced' \in [Handles -> Nat]
               /\ Waits \ {h} \subseteq Waits'
    <3>1. (kind # "fatal") \in BOOLEAN /\ (kind = "aged") \in BOOLEAN
      OBVIOUS
    <3>2. Sound(registry', Handles) /\ Failed(h, kind # "fatal", kind = "aged")
      BY <1>1, <1>3, <2>3, <3>1, RegistrySteps
    <3>3. Quiet /\ announced' \in [Handles -> Nat]
      BY <1>1, <2>3, SameSets DEF Quiet, DeliveryTypeOK
    <3>4. Waits \ {h} \subseteq Waits'
      BY <3>2 DEF Failed
    <3> QED BY <2>3, <3>2, <3>3, <3>4
  <2> QED BY <1>2, <2>1, <2>2, <2>3
<1> HIDE DEF Read, Drop, Fail
<1>5. Resolves
  BY <1>1, <1>3, <1>4, SameSets DEF Resolves, Resolve, SameCamera, SameEvents, SameLists,
      SameScan, cameraVars, scanVars
<1>6. faults' \in Nat
  BY <1>4 DEF Fails, Fault, Typed, TypeOK, DeliveryTypeOK
<1>7. CameraTypeOK' /\ DeliveryTypeOK'
  BY <1>4, <1>6 DEF Typed, TypeOK, CameraTypeOK, DeliveryTypeOK, Resolve, cameraVars
<1>8. CacheTypeOK'
  BY <1>3, <1>4 DEF Typed, TypeOK, CacheTypeOK, GoesOut, Quiet, Resolve, Sound
<1>9. RunTypeOK'
  BY DEF Typed, TypeOK, RunTypeOK, Resolve, scanVars
<1>10. StageInv'
  BY <1>1, <1>2, <1>4 DEF Typed, StageInv, Resolve, scanVars
<1> QED BY <1>4, <1>5, <1>7, <1>8, <1>9, <1>10 DEF Typed, TypeOK

\* A list or a page begins.
Begins ==
    /\ op = "none" /\ op' \in Requests \ {"new"} /\ todo = {} /\ result = {} /\ Here = {}
    /\ todo' \subseteq card /\ (op' = "list" => todo' = card) /\ result' = {}
    /\ catalog' = card
    /\ \/ /\ SameStorage /\ UNCHANGED <<catalogStorage, registry, Waits, Known>>
          /\ photoCache' = photoCache \cap card /\ inspected' = inspected \cap card
       \/ Replaces
    /\ SameCamera /\ SameEvents /\ SameNews /\ SameLists
    /\ UNCHANGED <<listening, faults>>

\* A list or a page begins, perhaps on another storage.
LEMMA BeginScanStep ==
    ASSUME Typed, BeginScan
    PROVE  Begins /\ Typed'
<1>1. /\ op = "none" /\ phase = "idle" /\ batch = <<>> /\ Here = {} /\ waiting = {}
      /\ todo = {} /\ result = {} /\ ~ending
  BY SameSets DEF Typed, StageInv, BeginScan
<1>2. PICK kind \in Requests \ {"new"} :
         op' = kind /\ todo' \in IF kind = "list" THEN {card} ELSE Segments(card)
  BY DEF BeginScan
<1>3. todo' \subseteq card /\ (op' = "list" => todo' = card) /\ op' \in {"list", "page"}
  BY <1>2, IngestParameters DEF Segments
<1>4. /\ Sound(registry', Handles) /\ CacheTypeOK' /\ catalog' = card
      /\ \/ /\ SameStorage /\ UNCHANGED <<catalogStorage, registry, Waits, Known>>
            /\ photoCache' = photoCache \cap card /\ inspected' = inspected \cap card
         \/ Replaces
  <2>1. CASE SameStorage
    BY <2>1, SameSets DEF BeginScan, Typed, TypeOK, CameraTypeOK, CacheTypeOK
  <2>2. CASE ~SameStorage
    BY <2>2, ReplaceFacts DEF BeginScan
  <2> QED BY <2>1, <2>2
<1>5. Begins
  <2>1. SameCamera /\ SameEvents /\ SameNews /\ SameLists /\ UNCHANGED <<listening, faults>>
    BY SameSets DEF BeginScan, SameCamera, SameEvents, SameNews, SameLists, cameraVars, deliveries
  <2>2. op' \in Requests \ {"new"} /\ result' = {}
    BY <1>1, <1>2 DEF BeginScan
  <2> QED BY <1>1, <1>3, <1>4, <2>1, <2>2 DEF Begins
<1>6. CameraTypeOK' /\ DeliveryTypeOK'
  BY DEF Typed, TypeOK, CameraTypeOK, DeliveryTypeOK, BeginScan, cameraVars, deliveries
<1>7. RunTypeOK'
  BY <1>3 DEF Typed, TypeOK, CameraTypeOK, RunTypeOK, BeginScan
<1>8. StageInv'
  BY <1>1, <1>3 DEF Typed, StageInv, BeginScan
<1> QED BY <1>4, <1>5, <1>6, <1>7, <1>8 DEF Typed, TypeOK

\* One handle of the scan; of a list, a photo is returned unless it was read before
\* and is no photo.
Looks ==
    /\ op \in {"list", "page"}
    /\ \E h \in todo :
          /\ todo' = todo \ {h} /\ result \subseteq result' /\ result' \subseteq result \cup {h}
          /\ photoCache \subseteq photoCache' /\ photoCache' \subseteq photoCache \cup {h}
          /\ Photos \cap inspected' \subseteq inspected \cup photoCache'
          /\ op = "list" => /\ photoCache' \subseteq photoCache \cup result'
                            /\ h \in Photos => h \in result' \cup (inspected \ photoCache)
    /\ SameCamera /\ SameEvents /\ SameNews /\ SameLists
    /\ UNCHANGED <<catalog, catalogStorage, registry, Waits, Known, op, listening>>
    /\ FaultsGrow

\* One handle of the listing is looked at.
LEMMA InspectStep ==
    ASSUME Typed, Inspect
    PROVE  Looks /\ Typed'
<1>1. /\ phase = "inspect" /\ op \in {"list", "page"} /\ batch = <<>> /\ waiting = {}
      /\ phase' \in {"inspect", "fetch"}
  BY DEF Typed, StageInv, Inspect
<1>2. PICK h \in todo :
        /\ todo' = todo \ {h}
        /\ \/ /\ h \in photoCache
              /\ result' \in Returned(h)
              /\ UNCHANGED <<photoCache, inspected, phase, faults>>
           \/ /\ h \in inspected \ photoCache
              /\ UNCHANGED <<photoCache, inspected, result, phase, faults>>
           \/ /\ h \notin inspected \cup photoCache
              /\ Reads(h)
              /\ inspected' = inspected \cup {h}
              /\ photoCache' = photoCache \cup ({h} \cap Photos)
              /\ result' \in IF h \in Photos THEN Returned(h) ELSE {result}
              /\ phase' \in {"inspect", "fetch"}
  BY DEF Inspect
<1>3. /\ result \subseteq result' /\ result' \subseteq result \cup {h}
      /\ result' \subseteq result \cup Photos
      /\ photoCache \subseteq photoCache' /\ photoCache' \subseteq photoCache \cup {h}
      /\ photoCache' \subseteq Photos /\ inspected' \subseteq inspected \cup {h}
      /\ Photos \cap inspected' \subseteq inspected \cup photoCache'
  BY <1>2 DEF Returned, Typed, TypeOK, CacheTypeOK
<1>4. op = "list" => /\ photoCache' \subseteq photoCache \cup result'
                     /\ h \in Photos => h \in result' \cup (inspected \ photoCache)
  BY <1>2 DEF Returned
<1>5. faults' = faults
  BY <1>2 DEF Reads
<1>6. Looks
  BY <1>1, <1>2, <1>3, <1>4, <1>5, SameSets DEF Looks, Inspect, SameCamera, SameEvents,
      SameNews, SameLists, FaultsGrow, cameraVars, deliveries
<1>7. CameraTypeOK' /\ DeliveryTypeOK' /\ Sound(registry, Handles)'
  BY <1>5 DEF Typed, TypeOK, CameraTypeOK, DeliveryTypeOK, Inspect, cameraVars, deliveries
<1>8. h \in Handles /\ todo' \subseteq todo
  BY <1>2 DEF Typed, TypeOK, RunTypeOK
<1>9. CacheTypeOK'
  BY <1>3, <1>8 DEF Typed, TypeOK, CacheTypeOK, Inspect
<1>10. RunTypeOK'
  BY <1>1, <1>3, <1>8 DEF Typed, TypeOK, RunTypeOK, Inspect
<1>11. StageInv'
  BY <1>1, <1>6, <1>8 DEF Looks, Typed, StageInv, Inspect
<1> QED BY <1>6, <1>7, <1>9, <1>10, <1>11 DEF Typed, TypeOK

\* A scan ends without, or with its result.
Ends ==
    /\ op' = "none" /\ todo' = {} /\ result' = {}
    /\ SameCamera /\ SameEvents /\ SameCache /\ UNCHANGED <<announced, Announced, listening>>
Breaks ==
    /\ op \in {"list", "page"} /\ Ends
    /\ unlisted' = IF op = "list" THEN unlisted \cup todo \cup result ELSE unlisted
    /\ UNCHANGED <<listed, found>> /\ FaultsGrow
Lists ==
    /\ op \in {"list", "page"} /\ todo = {} /\ Ends
    /\ listed' = listed \cup result /\ UNCHANGED <<unlisted, found, faults>>
Finds ==
    /\ op = "new" /\ todo = {} /\ Ends
    /\ found' = found \cup result /\ UNCHANGED <<unlisted, listed, faults>>

\* A listing returns, or breaks off.
LEMMA EndStep ==
    ASSUME Typed, InspectFails \/ ReturnScan \/ ReturnNew
    PROVE  (Breaks \/ Lists \/ Finds) /\ Typed'
<1>1. /\ batch = <<>> /\ Here = {} /\ waiting = {}
      /\ <<>> \in Seq([handle : Handles, full : BOOLEAN])
  BY SameSets, EmptySeq DEF Typed, StageInv, InspectFails, ReturnScan, ReturnNew
<1>2. Finish /\ UNCHANGED <<cameraVars, stateVars, listening, loopOn, announced>>
  BY DEF InspectFails, ReturnScan, ReturnNew
<1>3. Ends
  BY <1>1, <1>2, SameSets DEF Ends, Finish, SameCamera, SameEvents, SameCache, cameraVars, stateVars
<1>4. Breaks \/ Lists \/ Finds
  <2>1. CASE InspectFails
    <3>1. FaultsGrow
      BY <2>1 DEF InspectFails, Fails, FaultsGrow
    <3> QED BY <1>3, <2>1, <3>1 DEF InspectFails, Breaks, Typed, StageInv
  <2>2. CASE ReturnScan
    BY <1>3, <2>2 DEF ReturnScan, Lists, Typed, StageInv
  <2>3. CASE ReturnNew
    BY <1>3, <2>3 DEF ReturnNew, Finds, Typed, StageInv
  <2> QED BY <2>1, <2>2, <2>3
<1>5. CameraTypeOK' /\ CacheTypeOK' /\ Sound(registry, Handles)'
  BY <1>2 DEF Typed, TypeOK, CameraTypeOK, CacheTypeOK, cameraVars, stateVars
<1>6. RunTypeOK'
  BY <1>1, <1>2 DEF Typed, TypeOK, RunTypeOK, Finish
<1>7. DeliveryTypeOK'
  <2>1. announced' \in [Handles -> Nat]
    BY <1>2 DEF Typed, TypeOK, DeliveryTypeOK
  <2>2. CASE Breaks
    <3>1. faults' \in Nat
      BY <2>2 DEF Breaks, FaultsGrow, Fault, Typed, TypeOK, DeliveryTypeOK
    <3>2. unlisted' \subseteq Handles /\ listed' = listed /\ found' = found
      BY <2>2, IngestParameters DEF Breaks, Typed, TypeOK, RunTypeOK, DeliveryTypeOK
    <3> QED BY <2>1, <3>1, <3>2 DEF Typed, TypeOK, DeliveryTypeOK
  <2>3. CASE Lists
    BY <2>1, <2>3 DEF Lists, Typed, TypeOK, RunTypeOK, DeliveryTypeOK
  <2>4. CASE Finds
    BY <2>1, <2>4 DEF Finds, Typed, TypeOK, RunTypeOK, DeliveryTypeOK
  <2> QED BY <1>4, <2>2, <2>3, <2>4
<1>8. StageInv'
  BY <1>2 DEF StageInv, Finish
<1> QED BY <1>4, <1>5, <1>6, <1>7, <1>8 DEF Typed, TypeOK

\* An incremental list begins.
News ==
    /\ op = "none" /\ op' = "new" /\ todo = {} /\ result = {} /\ result' = {} /\ Here = {}
    /\ catalog' = card
    /\ \/ /\ SameStorage /\ todo' = Added
          /\ UNCHANGED <<catalogStorage, photoCache, inspected, registry, Waits, Known>>
       \/ Replaces /\ todo' = {}
    /\ SameCamera /\ SameEvents /\ SameNews /\ SameLists
    /\ UNCHANGED <<listening, faults>>

\* An incremental list begins, with what it takes from the registry.
LEMMA BeginNewStep ==
    ASSUME Typed, BeginNew
    PROVE  News /\ Typed'
<1>1. /\ op = "none" /\ phase = "idle" /\ batch = <<>> /\ Here = {} /\ waiting = {}
      /\ todo = {} /\ result = {} /\ ~ending
  BY SameSets DEF Typed, StageInv, BeginNew
<1>2. /\ Sound(registry', Handles) /\ CacheTypeOK' /\ catalog' = card /\ todo' \subseteq Handles
      /\ \/ /\ SameStorage /\ todo' = Added
            /\ UNCHANGED <<catalogStorage, photoCache, inspected, registry, Waits, Known>>
         \/ Replaces /\ todo' = {}
  <2>1. CASE SameStorage
    BY <2>1, SameSets DEF BeginNew, Added, Typed, TypeOK, CameraTypeOK, CacheTypeOK
  <2>2. CASE ~SameStorage
    BY <2>2, ReplaceFacts DEF BeginNew
  <2> QED BY <2>1, <2>2
<1>3. News
  <2>1. SameCamera /\ SameEvents /\ SameNews /\ SameLists /\ UNCHANGED <<listening, faults>>
    BY SameSets DEF BeginNew, SameCamera, SameEvents, SameNews, SameLists, cameraVars, deliveries
  <2>2. op' = "new" /\ result' = {}
    BY <1>1 DEF BeginNew
  <2> QED BY <1>1, <1>2, <2>1, <2>2 DEF News
<1>4. CameraTypeOK' /\ DeliveryTypeOK'
  BY DEF Typed, TypeOK, CameraTypeOK, DeliveryTypeOK, BeginNew, cameraVars, deliveries
<1>5. RunTypeOK'
  BY <1>2 DEF Typed, TypeOK, RunTypeOK, BeginNew
<1>6. StageInv'
  BY <1>1 DEF Typed, StageInv, BeginNew
<1> QED BY <1>2, <1>3, <1>4, <1>5, <1>6 DEF Typed, TypeOK

\* One handle of the incremental list.
Takes ==
    /\ op = "new"
    /\ \E h \in todo :
          /\ todo' = todo \ {h}
          /\ \/ /\ photoCache' = photoCache \cup ({h} \cap Photos)
                /\ inspected' = inspected \cup {h}
                /\ result' = result \cup ({h} \cap Photos)
                /\ \/ h \in Photos /\ Marked(h)
                   \/ h \notin Photos /\ UNCHANGED <<registry, Waits, Known>>
             \/ Offered({h} \ Known) /\ UNCHANGED <<photoCache, inspected, result>>
             \/ /\ "fatal" \in FaultKinds /\ inspected' = inspected \cup {h}
                /\ UNCHANGED <<photoCache, result, registry, Waits, Known>>
    /\ SameCamera /\ SameEvents /\ SameNews /\ SameLists
    /\ UNCHANGED <<catalog, catalogStorage, op, listening>> /\ FaultsGrow

\* One handle of an incremental list is read.
LEMMA ReadNewStep ==
    ASSUME Typed, ReadNew
    PROVE  Takes /\ Typed'
<1>1. phase = "read" /\ op = "new" /\ batch = <<>> /\ waiting = {} /\ Sound(registry, Handles)
  BY DEF Typed, StageInv, ReadNew
<1> DEFINE Read(h) == /\ Reads(h) /\ inspected' = inspected \cup {h}
                      /\ photoCache' = photoCache \cup ({h} \cap Photos)
                      /\ result' = result \cup ({h} \cap Photos)
                      /\ registry' = IF h \in Photos THEN MarkPublished(registry, h)
                                                     ELSE registry
           Leave(h) == /\ Fails(h, "transient") /\ registry' = Offer(registry, h)
                       /\ UNCHANGED <<inspected, photoCache, result>>
           Skip(h) == /\ Fails(h, "fatal") /\ inspected' = inspected \cup {h}
                      /\ UNCHANGED <<registry, photoCache, result>>
<1>2. PICK h \in todo : todo' = todo \ {h} /\ (Read(h) \/ Leave(h) \/ Skip(h))
  BY DEF ReadNew
<1>3. h \in Handles
  BY <1>2 DEF Typed, TypeOK, RunTypeOK
<1> DEFINE How ==
          \/ /\ photoCache' = photoCache \cup ({h} \cap Photos)
             /\ inspected' = inspected \cup {h}
             /\ result' = result \cup ({h} \cap Photos)
             /\ \/ h \in Photos /\ Marked(h)
                \/ h \notin Photos /\ UNCHANGED <<registry, Waits, Known>>
          \/ Offered({h} \ Known) /\ UNCHANGED <<photoCache, inspected, result>>
          \/ /\ "fatal" \in FaultKinds /\ inspected' = inspected \cup {h}
             /\ UNCHANGED <<photoCache, result, registry, Waits, Known>>
<1>4. How /\ Sound(registry', Handles) /\ FaultsGrow
  <2>1. CASE Read(h)
    <3>1. CASE h \in Photos
      BY <1>1, <1>3, <2>1, <3>1, RegistrySteps DEF FaultsGrow, Reads
    <3>2. CASE h \notin Photos
      BY <1>1, <2>1, <3>2, SameSets DEF FaultsGrow, Reads
    <3> QED BY <3>1, <3>2
  <2>2. CASE Leave(h)
    BY <1>1, <1>3, <2>2, RegistrySteps DEF FaultsGrow, Fails
  <2>3. CASE Skip(h)
    BY <1>1, <2>3, SameSets DEF FaultsGrow, Fails
  <2> QED BY <1>2, <2>1, <2>2, <2>3
<1>5. /\ photoCache' \subseteq Photos /\ inspected' \subseteq Handles /\ result' \subseteq Photos
  BY <1>3, <1>4 DEF Typed, TypeOK, CacheTypeOK, RunTypeOK
<1> HIDE DEF Read, Leave, Skip
<1>6. Takes
  BY <1>1, <1>2, <1>4, SameSets DEF Takes, ReadNew, SameCamera, SameEvents, SameNews,
      SameLists, cameraVars, deliveries
<1>7. CameraTypeOK' /\ DeliveryTypeOK'
  BY <1>4 DEF FaultsGrow, Fault, Typed, TypeOK, CameraTypeOK, DeliveryTypeOK, ReadNew,
      cameraVars, deliveries
<1>8. CacheTypeOK'
  BY <1>4, <1>5 DEF Typed, TypeOK, CacheTypeOK, ReadNew, Sound
<1>9. RunTypeOK'
  BY <1>2, <1>5 DEF Typed, TypeOK, RunTypeOK, ReadNew
<1>10. StageInv'
  BY <1>1 DEF Typed, StageInv, ReadNew
<1> QED BY <1>4, <1>6, <1>7, <1>8, <1>9, <1>10 DEF Typed, TypeOK

\* Nothing happens.
LEMMA StutterStep ==
    ASSUME Typed, UNCHANGED vars
    PROVE  Rests /\ Typed'
<1>1. Rests
  BY SameSets DEF Rests, vars, Same, SameCamera, SameEvents, SameCache, SameNews, SameLists,
      SameScan, MayClear, cameraVars, stateVars, scanVars, deliveries
<1>2. TypeOK' /\ Sound(registry, Handles)'
  BY DEF vars, Typed, TypeOK, CameraTypeOK, CacheTypeOK, RunTypeOK, DeliveryTypeOK,
      cameraVars, stateVars, scanVars, deliveries
<1>3. StageInv'
  BY <1>1 DEF Rests, Same, SameCache, Typed, StageInv, vars, scanVars
<1> QED BY <1>1, <1>2, <1>3 DEF Typed

\* Every step is one of those.
Effect == \/ Rests \/ Shoots \/ Deletes \/ Swaps \/ Fetches \/ Hears \/ Reconciles
          \/ Resolves \/ Begins \/ Looks \/ Breaks \/ Lists \/ Finds \/ News \/ Takes

\* Every step of the module has one of these effects, and keeps the types.
LEMMA EveryStep ==
    ASSUME Typed, [Next]_vars
    PROVE  Effect /\ Typed'
BY ControlStep, StageStep, ShootStep, DeleteStep, SwapStep, FetchStep, HearStep,
   ReconcileStep, ResolveStep, BeginScanStep, InspectStep, EndStep, BeginNewStep,
   ReadNewStep, StutterStep
   DEF Effect, Next, Camera, Maintenance, Scan, Incremental

-----------------------------------------------------------------------------
(* What is fresh                                                           *)

\* Whatever an operation works on was heard of.
LEMMA FreshStep ==
    ASSUME Typed, FreshInv, Effect
    PROVE  FreshInv'
<1>1. CASE Shoots
  BY <1>1 DEF Shoots, SameCache, SameNews, SameScan, FreshInv, Heard
<1>2. CASE Swaps
  BY <1>2 DEF Swaps, SameEvents, SameCache, SameNews, SameScan, FreshInv, Heard
<1>3. CASE ~Shoots /\ ~Swaps
  <2>1. fresh' = fresh /\ old' = old /\ card' \subseteq card /\ attended' = attended
    BY <1>3 DEF Effect, Rests, Deletes, Fetches, Hears, Reconciles, Resolves, Begins, Looks,
        Breaks, Lists, Finds, News, Takes, Ends, Same, SameCamera
  <2>2. /\ Coming' \cup Here' \subseteq Coming \cup Here
        /\ catalog' \subseteq catalog \cup card \cup Here \cup Waits
    BY <1>3 DEF Effect, Rests, Deletes, Fetches, Hears, Reconciles, Resolves, Begins, Looks,
        Breaks, Lists, Finds, News, Takes, Ends, Same, SameEvents, SameCache
  <2>3. photoCache' \cup Waits' \cup Known' \cup todo' \cup result' \subseteq Heard
    BY <1>3 DEF Effect, Rests, Deletes, Fetches, Hears, Reconciles, Resolves, Begins, Looks,
        Breaks, Lists, Finds, News, Takes, Ends, Same, SameCache, SameScan, Heard, Quiet,
        GoesOut, Offered, Marked, Dropped, Failed, Replaces, Added
  <2>4. Announced' \cup found' \subseteq Heard
    BY <1>3 DEF Effect, Rests, Deletes, Fetches, Hears, Reconciles, Resolves, Begins, Looks,
        Breaks, Lists, Finds, News, Takes, Ends, Same, SameNews, Quiet, GoesOut, Heard
  <2> QED BY <2>1, <2>2, <2>3, <2>4 DEF FreshInv, Heard
<1> QED BY <1>1, <1>2, <1>3

-----------------------------------------------------------------------------
(* What came with a card                                                   *)

\* What came with a card is no news: a baseline has it, and a handle is reported
\* only when it is new to the baseline or an event tells of it.
LEMMA OldStep ==
    ASSUME Typed, Typed', FreshInv, OldInv, Effect
    PROVE  OldInv'
<1>1. /\ catalogStorage <= storage
      /\ SameStorage => card \cap old \subseteq catalog
      /\ old \cap (Reported \cup Coming \cup Here) = {}
  BY DEF OldInv
<1>2. CASE Shoots
  BY <1>1, <1>2 DEF Shoots, SameCache, SameNews, SameScan, FreshInv, Heard, OldInv, Reported,
      SameStorage
<1>3. CASE Swaps
  <2>1. card' \cap (Reported' \cup Coming' \cup Here') = {} /\ Reported' = Reported
        /\ Coming' = Coming /\ Here' = Here
    BY <1>3 DEF Swaps, SameEvents, SameCache, SameNews, SameScan, FreshInv, Heard, Reported
  <2>2. catalogStorage' <= storage' /\ ~SameStorage'
    <3>1. storage \in Nat /\ storage' \in Nat /\ catalogStorage \in Nat
      BY IngestParameters DEF Typed, TypeOK, CameraTypeOK, CacheTypeOK
    <3> QED BY <1>1, <1>3, <3>1 DEF Swaps, SameCache, SameStorage
  <2> QED BY <1>1, <1>3, <2>1, <2>2 DEF Swaps, OldInv
<1>4. CASE ~Shoots /\ ~Swaps
  <2>1. card' \subseteq card /\ storage' = storage /\ old' = old
    BY <1>4 DEF Effect, Rests, Deletes, Fetches, Hears, Reconciles, Resolves, Begins, Looks,
        Breaks, Lists, Finds, News, Takes, Ends, Same, SameCamera
  <2>2. /\ catalogStorage' \in {catalogStorage, storage}
        /\ (catalogStorage' = catalogStorage /\ catalog \subseteq catalog') \/ catalog' = card
    BY <1>4 DEF Effect, Rests, Deletes, Fetches, Hears, Reconciles, Resolves, Begins, Looks,
        Breaks, Lists, Finds, News, Takes, Ends, Same, SameCache, Replaces
  <2>3. Coming' \cup Here' \subseteq Coming \cup Here
    BY <1>4 DEF Effect, Rests, Deletes, Fetches, Hears, Reconciles, Resolves, Begins, Looks,
        Breaks, Lists, Finds, News, Takes, Ends, Same, SameEvents
  <2>4. old \cap Reported' = {}
    <3>1. SameStorage => old \cap Added = {}
      BY <1>1 DEF Added
    <3>3. CASE Reconciles
      <4>1. Reported' \subseteq Reported \cup Added /\ (~SameStorage => Reported' \subseteq Reported)
        BY <3>3 DEF Reconciles, Replaces, Offered, SameNews, SameScan, Reported
      <4> QED BY <1>1, <3>1, <4>1
    <3>4. CASE News
      <4>1. Reported' \subseteq Reported \cup Added /\ (~SameStorage => Reported' \subseteq Reported)
        BY <3>4 DEF News, Replaces, SameNews, Reported
      <4> QED BY <1>1, <3>1, <4>1
    <3>2. CASE ~Reconciles /\ ~News
      <4>1. Reported' \subseteq Reported \cup Here
        BY <1>4, <3>2 DEF Effect, Rests, Deletes, Fetches, Hears, Resolves, Begins, Looks,
            Breaks, Lists, Finds, Takes, Ends, Same, SameCache, SameScan, SameNews, Quiet,
            GoesOut, Offered, Marked, Dropped, Failed, Replaces, Reported
      <4> QED BY <1>1, <4>1
    <3> QED BY <3>2, <3>3, <3>4
  <2>5. catalogStorage' <= storage'
    <3>1. storage \in Nat /\ catalogStorage \in Nat
      BY IngestParameters DEF Typed, TypeOK, CameraTypeOK, CacheTypeOK
    <3> QED BY <1>1, <2>1, <2>2, <3>1
  <2>6. SameStorage' => card' \cap old' \subseteq catalog'
    BY <1>1, <2>1, <2>2 DEF SameStorage
  <2> QED BY <1>1, <2>1, <2>3, <2>4, <2>5, <2>6 DEF OldInv
<1> QED BY <1>2, <1>3, <1>4

-----------------------------------------------------------------------------
(* What is news                                                            *)

\* A handle that is published by an event or by its ObjectInfo was no news.
LEMMA OutIsNew ==
    ASSUME NewsInv, NEW h \in card, h \in Here \ photoCache \/ h \in Waits
    PROVE  h \notin Announced \cup found
BY DEF NewsInv

\* The news of the card keeps its place in the catalog and the cache.
LEMMA NewsStep ==
    ASSUME Typed, FreshInv, NewsInv, Effect
    PROVE  NewsInv'
<1>1. CASE Shoots
  BY <1>1 DEF Shoots, SameCache, SameNews, SameScan, FreshInv, Heard, NewsInv, Reported,
      SameStorage
<1>2. CASE Swaps
  BY <1>2 DEF Swaps, SameEvents, SameCache, SameNews, SameScan, FreshInv, Heard, NewsInv,
      Reported
<1>3. CASE Rests
  BY <1>3 DEF Rests, Same, SameCamera, SameEvents, SameCache, SameNews, SameScan, NewsInv,
      Reported, SameStorage
<1>4. CASE Deletes
  BY <1>4 DEF Deletes, SameEvents, SameCache, SameNews, SameScan, NewsInv,
      Reported, SameStorage
<1>5. CASE Fetches
  BY <1>5 DEF Fetches, SameCamera, SameCache, SameNews, SameScan, NewsInv,
      Reported, SameStorage
<1>6. CASE Hears
  BY <1>6 DEF Hears, SameCamera, SameScan, Quiet, GoesOut, Offered, Marked, NewsInv,
      Reported, SameStorage
<1>7. CASE Reconciles
  BY <1>7 DEF Reconciles, Replaces, Offered, Added, SameCamera, SameEvents, SameNews, SameScan,
      NewsInv, Reported, SameStorage
<1>8. CASE Resolves
  BY <1>8 DEF Resolves, SameCamera, SameEvents, SameScan, Quiet, GoesOut, Marked, Dropped,
      Failed, NewsInv, Reported, SameStorage
<1>9. CASE Begins
  BY <1>9 DEF Begins, Replaces, SameCamera, SameEvents, SameNews, NewsInv, Reported, SameStorage
<1>10. CASE Looks
  BY <1>10 DEF Looks, SameCamera, SameEvents, SameNews, NewsInv, Reported, SameStorage
<1>11. CASE Breaks \/ Lists
  BY <1>11 DEF Breaks, Lists, Ends, SameCamera, SameEvents, SameCache, NewsInv, Reported,
      SameStorage
<1>12. CASE Finds
  BY <1>12 DEF Finds, Ends, SameCamera, SameEvents, SameCache, NewsInv, Reported, SameStorage
<1>13. CASE News
  BY <1>13 DEF News, Replaces, Added, SameCamera, SameEvents, SameNews, NewsInv, Reported,
      SameStorage
<1>14. CASE Takes
  BY <1>14 DEF Takes, Marked, Offered, SameCamera, SameEvents, SameNews, NewsInv, Reported,
      SameStorage
<1> QED BY <1>1, <1>2, <1>3, <1>4, <1>5, <1>6, <1>7, <1>8, <1>9, <1>10, <1>11, <1>12, <1>13,
           <1>14 DEF Effect

\* What is announced or found is so for the first time.
LEMMA OnceStep ==
    ASSUME Typed, Typed', FreshInv, NewsInv, NewsOnce, Effect
    PROVE  NewsOnce'
<1> DEFINE Times(h) == announced[h] + (IF h \in found THEN 1 ELSE 0)
<1>1. /\ announced \in [Handles -> Nat] /\ announced' \in [Handles -> Nat]
      /\ card \subseteq Handles /\ card' \subseteq Handles
      /\ \A h \in card : Times(h) <= 1
  BY DEF Typed, TypeOK, CameraTypeOK, DeliveryTypeOK, NewsOnce
<1>2. \A h \in Handles : h \notin Announced => announced[h] = 0
  BY <1>1 DEF Announced
<1>3. CASE UNCHANGED <<announced, found>> /\ card' \subseteq card \cup fresh
  <2>1. \A h \in fresh \cap card' : announced[h] = 0 /\ h \notin found
    BY <1>1, <1>2 DEF FreshInv, Heard
  <2> QED BY <1>1, <1>3, <2>1 DEF NewsOnce
<1>4. ASSUME NEW h \in card, h \notin Announced \cup found, UNCHANGED <<card, found>>, GoesOut(h)
      PROVE  NewsOnce'
  <2>1. announced[h] = 0 /\ h \notin found /\ announced'[h] \in {0, 1}
        /\ \A x \in Handles \ {h} : announced'[x] = announced[x]
    BY <1>1, <1>2, <1>4 DEF GoesOut
  <2> QED BY <1>1, <1>4, <2>1 DEF NewsOnce
<1>5. ASSUME NEW h \in Handles \ card, UNCHANGED <<card, found>>, GoesOut(h)
      PROVE  NewsOnce'
  <2>1. \A x \in card : announced'[x] = announced[x]
    BY <1>1, <1>5 DEF GoesOut
  <2> QED BY <1>1, <1>5, <2>1 DEF NewsOnce
<1>6. CASE Hears
  <2>1. PICK h \in Here :
           Quiet \/ (h \notin photoCache \cup Waits \cup Known /\ GoesOut(h))
    BY <1>6 DEF Hears
  <2>2. UNCHANGED <<card, found>> /\ h \in Handles
    BY <1>6, <2>1, EventFacts DEF Hears, SameCamera, Typed, TypeOK, RunTypeOK, Here, Records
  <2>3. CASE Quiet
    BY <1>3, <2>2, <2>3 DEF Quiet
  <2>4. CASE h \notin photoCache \cup Waits \cup Known /\ GoesOut(h)
    <3>1. h \in card => h \notin Announced \cup found
      BY <2>1, <2>4, OutIsNew
    <3> QED BY <1>4, <1>5, <2>2, <2>4, <3>1
  <2> QED BY <2>1, <2>3, <2>4
<1>7. CASE Resolves
  <2>1. PICK h \in Waits : UNCHANGED announced \/ (h \in card /\ GoesOut(h))
    BY <1>7 DEF Resolves, Quiet
  <2>2. UNCHANGED <<card, found>>
    BY <1>7 DEF Resolves, SameCamera
  <2>3. CASE UNCHANGED announced
    BY <1>3, <2>2, <2>3
  <2>4. CASE h \in card /\ GoesOut(h)
    BY <1>4, <2>1, <2>2, <2>4, OutIsNew
  <2> QED BY <2>1, <2>3, <2>4
<1>8. CASE Finds
  <2>1. UNCHANGED <<announced, card>> /\ found' = found \cup result /\ op = "new"
    BY <1>8 DEF Finds, Ends, SameCamera
  <2>2. \A h \in card \cap result : announced[h] = 0 /\ h \notin found
    BY <1>1, <1>2, <2>1 DEF NewsInv
  <2> QED BY <1>1, <2>1, <2>2 DEF NewsOnce
<1>9. CASE ~Hears /\ ~Resolves /\ ~Finds
  <2>1. UNCHANGED <<announced, found>>
    BY <1>9 DEF Effect, Rests, Shoots, Deletes, Swaps, Fetches, Reconciles, Begins, Looks,
        Breaks, Lists, News, Takes, Ends, Same, SameNews
  <2>2. card' \subseteq card \cup fresh
    BY <1>9 DEF Effect, Rests, Shoots, Deletes, Swaps, Fetches, Reconciles, Begins, Looks,
        Breaks, Lists, News, Takes, Ends, Same, SameCamera
  <2> QED BY <1>3, <2>1, <2>2
<1> QED BY <1>6, <1>7, <1>8, <1>9

-----------------------------------------------------------------------------
(* The invariant                                                           *)

\* What the step lemmas assume is part of the invariant.
LEMMA TypedIs == IngestInv /\ StageInv <=> Typed
BY DEF IngestInv, Typed, Sound, TypeOK, CacheTypeOK

\* After connect() nothing has happened yet.
LEMMA InvStart == Init => IInv
<1> SUFFICES ASSUME Init PROVE IInv
  OBVIOUS
<1>1. Waits = {} /\ Known = {} /\ Coming = {} /\ Here = {} /\ Announced = {}
      /\ Sound(registry, Handles)
  <2>1. Waits = {} /\ Known = {} /\ Sound(registry, Handles)
    BY EmptyFacts DEF Init, Waits, Known
  <2>2. Coming = {} /\ Here = {}
    BY NoEvents DEF Init, Coming, Here
  <2>3. Announced = {}
    BY DEF Init, Announced
  <2> QED BY <2>1, <2>2, <2>3
<1>2. CameraTypeOK
  BY EmptySeq, IngestParameters DEF Init, CameraTypeOK
<1>3. CacheTypeOK
  BY <1>1, IngestParameters DEF Init, CacheTypeOK, Sound
<1>4. RunTypeOK
  BY EmptySeq DEF Init, RunTypeOK
<1>5. DeliveryTypeOK
  BY DEF Init, DeliveryTypeOK
<1>6. StageInv
  BY DEF Init, StageInv
<1>7. FreshInv
  BY <1>1 DEF Init, FreshInv, Heard
<1>8. OldInv
  <2>1. storage \in Nat
    BY <1>2, IngestParameters DEF CameraTypeOK
  <2> QED BY <1>1, <2>1 DEF Init, OldInv, Reported
<1>9. NewsInv
  BY <1>1 DEF Init, NewsInv
<1>10. NewsOnce
  BY IngestParameters DEF Init, NewsOnce
<1> QED BY <1>1, <1>2, <1>3, <1>4, <1>5, <1>6, <1>7, <1>8, <1>9, <1>10
        DEF IInv, IngestInv, TypeOK, Sound

\* Every step keeps it.
LEMMA InvStep == IInv /\ [Next]_vars => IInv'
<1> SUFFICES ASSUME IInv, [Next]_vars PROVE IInv'
  OBVIOUS
<1>1. Typed /\ FreshInv /\ OldInv /\ NewsInv /\ NewsOnce
  BY TypedIs DEF IInv
<1>2. Effect /\ Typed'
  BY <1>1, EveryStep
<1>3. FreshInv' /\ OldInv' /\ NewsInv' /\ NewsOnce'
  BY <1>1, <1>2, FreshStep, OldStep, NewsStep, OnceStep
<1>4. IngestInv' /\ StageInv'
  BY <1>2, TypedIs DEF Typed, IngestInv, Sound
<1> QED BY <1>3, <1>4 DEF IInv

\* The inductive invariant holds throughout.
THEOREM Invariance == Spec => []IInv
BY InvStart, InvStep, PTL DEF Spec

\* The types, and the registry: a handle never waits and is published at once, is
\* remembered once, in bounded memory, and has attempts left while it waits.
THEOREM RegistryKept == Spec => []IngestInv
<1>1. IInv => IngestInv
  BY DEF IInv
<1> QED BY <1>1, Invariance, PTL

\* Neither a repeated event nor a reconciliation, list or page in between makes a
\* photo on the card news twice, with however small a memory of published handles.
THEOREM NewsIsOnce == Spec => []NewsOnce
<1>1. IInv => NewsOnce
  BY DEF IInv
<1> QED BY <1>1, Invariance, PTL

\* The history of a card is never announced and never returned as new.
THEOREM HistoryIsNoNews == Spec => []NoHistory
<1>1. IInv => NoHistory
  BY DEF IInv, OldInv, Reported, NoHistory
<1> QED BY <1>1, Invariance, PTL

-----------------------------------------------------------------------------
(* No photo is lost, on one card, without a stop and with failures a        *)
(* pending handle survives                                                  *)

\* The part of KeptInv about one photo.
Kept(h) ==
    /\ h \in photoCache \cup Known => h \in Delivered \cup result
    /\ h \in catalog /\ (h \in card \/ op = "new")
          => h \in Delivered \cup result \cup Waits \cup todo

\* Without another card the storage stays, and the baseline with it.
LEMMA SteadyFacts ==
    ASSUME Steady, Typed, Typed'
    PROVE  /\ SameStorage /\ ~Swaps /\ ~Replaces /\ "page" \notin Requests /\ ~MayStop
           /\ "fatal" \notin FaultKinds /\ "aged" \notin FaultKinds
           /\ MaxFaults < MaxAttempts /\ MaxFaults \in Nat /\ MaxAttempts \in Nat
<1>1. storage' = storage /\ catalogStorage = storage /\ storage \in Nat
  BY IngestParameters DEF Steady, Typed, TypeOK, CameraTypeOK, CacheTypeOK
<1> QED BY <1>1, IngestParameters, RegistryLimits DEF Steady, Swaps, SameStorage, Replaces

\* A failure is counted against a pending handle of the card only when it was one.
LEMMA CountStep ==
    ASSUME Steady, Typed, Typed', FreshInv, Effect, KeptInv
    PROVE  /\ op' # "page" /\ (attended' # {} => listening')
           /\ Photos \cap inspected' \subseteq photoCache'
           /\ faults' <= MaxFaults /\ faults' \in Nat /\ faults <= faults'
           /\ \A h \in card' \cap Waits' : registry'.pending[h] <= faults'
<1>1. /\ ~Swaps /\ ~Replaces /\ "page" \notin Requests /\ ~MayStop
      /\ "fatal" \notin FaultKinds /\ "aged" \notin FaultKinds /\ MaxFaults \in Nat
  BY SteadyFacts
<1>2. op' # "page"
  BY <1>1 DEF KeptInv, Effect, Rests, Shoots, Deletes, Fetches, Hears, Reconciles, Resolves,
      Begins, Looks, Breaks, Lists, Finds, News, Takes, Ends, Same, SameScan
<1>3. attended' # {} => listening'
  BY <1>1 DEF KeptInv, Effect, Rests, Shoots, Deletes, Fetches, Hears, Reconciles, Resolves,
      Begins, Looks, Breaks, Lists, Finds, News, Takes, Ends, Same, SameCamera, MayClear
<1>4. Photos \cap inspected' \subseteq photoCache'
  BY <1>1 DEF KeptInv, Effect, Rests, Shoots, Deletes, Fetches, Hears, Reconciles, Resolves,
      Begins, Looks, Breaks, Lists, Finds, News, Takes, Ends, Same, SameCache, Quiet, GoesOut
<1>5. faults' <= MaxFaults /\ faults' \in Nat /\ faults <= faults'
  <2>1. faults' = faults \/ Fault
    BY <1>1 DEF KeptInv, Effect, Rests, Shoots, Deletes, Fetches, Hears, Reconciles, Resolves,
        Begins, Looks, Breaks, Lists, Finds, News, Takes, FaultsGrow, Fails
  <2> QED BY <1>1, <2>1 DEF Fault, KeptInv, Typed, TypeOK, DeliveryTypeOK
<1>6. \A h \in card' \cap Waits' : registry'.pending[h] <= faults'
  <2> SUFFICES ASSUME NEW h \in card', h \in Waits' PROVE registry'.pending[h] <= faults'
    OBVIOUS
  <2>1. /\ h \in Waits /\ h \in card => /\ registry.pending[h] <= faults
                                        /\ registry.pending[h] \in Nat
        /\ faults \in Nat /\ faults' \in Nat /\ faults <= faults'
    BY <1>5, AttemptFacts DEF KeptInv, Typed, TypeOK, DeliveryTypeOK, Waits
  <2>2. \/ registry'.pending[h] = 0
        \/ h \in Waits /\ h \in card /\ registry'.pending[h] = registry.pending[h]
        \/ h \in Waits /\ h \in card /\ registry'.pending[h] = registry.pending[h] + 1 /\ Fault
    <3>1. CASE Shoots
      BY <3>1 DEF Shoots, SameCache, FreshInv, Heard
    <3>2. CASE Resolves
      <4>1. PICK g \in Waits :
               \/ Marked(g) \/ Dropped(g)
               \/ \E kind \in {"transient", "fatal", "aged"} :
                     Fails(g, kind) /\ Failed(g, kind # "fatal", kind = "aged")
        BY <3>2 DEF Resolves, GoesOut
      <4>2. h \in card
        BY <3>2 DEF Resolves, SameCamera
      <4>3. CASE Marked(g) \/ Dropped(g)
        BY <4>2, <4>3 DEF Marked, Dropped
      <4>4. ASSUME NEW kind \in {"transient", "fatal", "aged"},
                   Fails(g, kind), Failed(g, kind # "fatal", kind = "aged")
            PROVE  \/ h \in Waits /\ registry'.pending[h] = registry.pending[h]
                   \/ /\ h \in Waits /\ registry'.pending[h] = registry.pending[h] + 1
                      /\ Fault
        <5>1. CASE h # g
          BY <4>4, <5>1 DEF Failed
        <5>2. CASE h = g
          BY <4>2, <4>4, <5>2 DEF Failed, Fails
        <5> QED BY <5>1, <5>2
      <4> QED BY <4>1, <4>2, <4>3, <4>4
    <3>3. CASE ~Shoots /\ ~Resolves
      <4>1. h \in card
        BY <1>1, <3>3 DEF Effect, Rests, Deletes, Fetches, Hears, Reconciles, Begins, Looks,
            Breaks, Lists, Finds, News, Takes, Ends, Same, SameCamera
      <4>2. UNCHANGED <<registry, Waits>> \/ (\E hs : Offered(hs)) \/ (\E g : Marked(g))
        <5>1. CASE Hears \/ Takes
          BY <5>1 DEF Hears, Takes, GoesOut
        <5>2. CASE Reconciles
          BY <1>1, <5>2 DEF Reconciles
        <5>3. CASE ~Hears /\ ~Takes /\ ~Reconciles
          BY <1>1, <3>3, <5>3 DEF Effect, Rests, Deletes, Fetches, Begins, Looks, Breaks,
              Lists, Finds, News, Ends, Same, SameCache
        <5> QED BY <5>1, <5>2, <5>3
      <4> QED BY <4>1, <4>2 DEF Offered, Marked
    <3> QED BY <3>1, <3>2, <3>3
  <2> QED BY <2>1, <2>2 DEF Fault
<1> QED BY <1>2, <1>3, <1>4, <1>5, <1>6

\* Every step keeps a photo that was taken while the application listened.
LEMMA KeptStep ==
    ASSUME Steady, Typed, Typed', FreshInv, Effect, KeptInv,
           NEW h \in Photos, h \in attended', h \notin unlisted'
    PROVE  Kept(h)'
<1>1. /\ SameStorage /\ ~Swaps /\ ~Replaces /\ "page" \notin Requests
      /\ "fatal" \notin FaultKinds /\ "aged" \notin FaultKinds
      /\ MaxFaults < MaxAttempts /\ MaxFaults \in Nat /\ MaxAttempts \in Nat
  BY SteadyFacts
<1>2. CASE Shoots
  <2>1. PICK g \in fresh : /\ card' = card \cup {g}
                           /\ attended' \subseteq attended \cup {g}
    BY <1>2 DEF Shoots
  <2>2. UNCHANGED <<catalog, photoCache, Waits, Known, announced, Announced, found, listed,
                    unlisted, todo, result>> /\ (op' = "new" <=> op = "new")
    BY <1>2 DEF Shoots, SameCache, SameNews, SameLists, SameScan
  <2>3. CASE h = g
    BY <2>1, <2>2, <2>3 DEF FreshInv, Heard, Kept
  <2>4. CASE h # g
    BY <2>1, <2>2, <2>4 DEF KeptInv, Kept, Delivered
  <2> QED BY <2>3, <2>4
<1>3. ASSUME ~Shoots
      PROVE  /\ h \in attended /\ h \notin unlisted /\ listening /\ Kept(h)
             /\ (h \in card' => h \in card) /\ op # "page"
  <2>1. attended' = attended /\ card' \subseteq card /\ unlisted \subseteq unlisted'
    BY <1>1, <1>3 DEF Effect, Rests, Deletes, Fetches, Hears, Reconciles, Resolves,
        Begins, Looks, Breaks, Lists, Finds, News, Takes, Ends, Same, SameCamera, SameLists
  <2> QED BY <2>1 DEF KeptInv, Kept
<1>4. CASE ~Shoots /\ (Rests \/ Deletes \/ Fetches)
  <2>1. UNCHANGED <<catalog, photoCache, Waits, Known, announced, Announced, found, listed,
                    unlisted, todo, result>> /\ (op' = "new" <=> op = "new")
    BY <1>4 DEF Rests, Deletes, Fetches, Same, SameCache, SameNews, SameLists, SameScan
  <2> QED BY <1>3, <1>4, <2>1 DEF Kept, Delivered
<1>5. CASE ~Shoots /\ Hears
  <2>1. /\ UNCHANGED <<found, listed, todo, result, card>> /\ op # "new" /\ op' # "new"
    BY <1>5 DEF Hears, SameCamera, SameLists, SameScan
  <2>2. PICK g \in Here :
          /\ catalog' = catalog \cup {g}
          /\ \/ /\ g \in photoCache \cup Waits \cup Known
                /\ Quiet /\ UNCHANGED <<registry, Waits, Known>>
             \/ GoesOut(g)
             \/ /\ g \notin photoCache \cup Waits \cup Known
                /\ Offered({g} \ Known) /\ Quiet
    BY <1>5 DEF Hears
  <2> QED BY <1>3, <1>5, <2>1, <2>2 DEF Kept, Delivered, Quiet, GoesOut, Marked, Offered
<1>6. CASE ~Shoots /\ Reconciles
  BY <1>1, <1>3, <1>6 DEF Reconciles, Offered, Added, SameCamera, SameNews, SameLists, SameScan,
      Kept, Delivered
<1>7. CASE ~Shoots /\ Resolves
  <2>1. UNCHANGED <<found, listed, todo, result, card>> /\ op # "new" /\ op' # "new"
    BY <1>7 DEF Resolves, SameCamera, SameLists, SameScan
  <2>2. PICK g \in Waits :
          \/ /\ catalog' = catalog \cup {g} /\ GoesOut(g)
             /\ g \in card /\ UNCHANGED faults
          \/ /\ g \notin Photos /\ Dropped(g) /\ inspected' = inspected \cup {g}
             /\ UNCHANGED <<catalog, photoCache, announced, Announced, faults>>
          \/ \E kind \in {"transient", "fatal", "aged"} :
                /\ Fails(g, kind) /\ Failed(g, kind # "fatal", kind = "aged")
                /\ Quiet /\ UNCHANGED catalog
    BY <1>7 DEF Resolves
  <2>3. CASE catalog' = catalog \cup {g} /\ GoesOut(g)
    BY <1>3, <1>7, <2>1, <2>3 DEF Kept, Delivered, GoesOut, Marked
  <2>4. CASE /\ g \notin Photos /\ Dropped(g)
             /\ UNCHANGED <<catalog, photoCache, announced, Announced>>
    BY <1>3, <1>7, <2>1, <2>4 DEF Kept, Delivered, Dropped
  <2>5. ASSUME NEW kind \in {"transient", "fatal", "aged"},
               Fails(g, kind), Failed(g, kind # "fatal", kind = "aged"), Quiet, UNCHANGED catalog
        PROVE  Kept(h)'
    <3>1. kind = "transient"
      BY <1>1, <2>5 DEF Fails
    <3>2. h \in card /\ h \in Waits => h \in Waits'
      <4>1. CASE h # g
        BY <2>5, <4>1 DEF Failed
      <4>2. CASE h = g /\ h \in card /\ h \in Waits
        <5>1. registry.pending[g] \in Nat /\ registry.pending[g] <= faults /\ faults \in Nat
          BY <4>2, AttemptFacts DEF KeptInv, Typed, TypeOK, DeliveryTypeOK, Waits
        <5>2. faults < MaxFaults
          BY <2>5, <3>1, <4>2 DEF Fails, Fault
        <5>3. registry.pending[g] + 1 < MaxAttempts
          BY <1>1, <5>1, <5>2
        <5> QED BY <2>5, <3>1, <4>2, <5>3 DEF Failed
      <4> QED BY <4>1, <4>2
    <3> QED BY <1>3, <1>7, <2>1, <2>5, <3>2 DEF Kept, Delivered, Quiet, Failed
  <2> QED BY <2>2, <2>3, <2>4, <2>5
<1>8. CASE ~Shoots /\ Begins
  BY <1>1, <1>3, <1>8, IngestParameters DEF Begins, SameCamera, SameNews, SameLists,
      Kept, Delivered
<1>9. CASE ~Shoots /\ Looks
  <2>1. op = "list"
    BY <1>3, <1>9 DEF Looks
  <2> QED BY <1>3, <1>9, <2>1 DEF Looks, SameCamera, SameNews, SameLists, Kept, Delivered, KeptInv
<1>10. CASE ~Shoots /\ Breaks
  BY <1>3, <1>10 DEF Breaks, Ends, SameCamera, SameCache, Kept, Delivered
<1>11. CASE ~Shoots /\ (Lists \/ Finds)
  BY <1>3, <1>11 DEF Lists, Finds, Ends, SameCamera, SameCache, Kept, Delivered
<1>12. CASE ~Shoots /\ News
  BY <1>1, <1>3, <1>12 DEF News, Added, SameCamera, SameNews, SameLists, Kept, Delivered
<1>13. CASE ~Shoots /\ Takes
  BY <1>1, <1>3, <1>13 DEF Takes, Marked, Offered, SameCamera, SameNews, SameLists, Kept, Delivered
<1> QED BY <1>1, <1>2, <1>4, <1>5, <1>6, <1>7, <1>8, <1>9, <1>10, <1>11, <1>12, <1>13 DEF Effect

\* The invariant of a steady use.
THEOREM SteadyInvariance == ASSUME Steady PROVE Spec => []KeptInv
<1>1. Init => KeptInv
  BY EmptyFacts, IngestParameters DEF Init, KeptInv, Waits, Known
<1>2. IInv /\ KeptInv /\ [Next]_vars => KeptInv'
  <2> SUFFICES ASSUME IInv, KeptInv, [Next]_vars PROVE KeptInv'
    OBVIOUS
  <2>1. Typed /\ FreshInv
    BY TypedIs DEF IInv
  <2>2. Effect /\ Typed'
    BY <2>1, EveryStep
  <2>3. \A h \in Photos : h \in attended' /\ h \notin unlisted' => Kept(h)'
    BY <2>1, <2>2, KeptStep
  <2> QED BY <2>1, <2>2, <2>3, CountStep DEF KeptInv, Kept
<1> QED BY <1>1, <1>2, Invariance, PTL DEF Spec

\* A photo taken while the application listened is settled whenever an incremental
\* list returns, unless a full list that failed had taken it.
THEOREM AttendedIsKept == ASSUME Steady PROVE Spec => []AttendedPhotoIsKept
<1>1. KeptInv => AttendedPhotoIsKept
  BY DEF KeptInv, AttendedPhotoIsKept, Settled, Waits
<1> QED BY <1>1, SteadyInvariance, PTL
=============================================================================
