------------------------- MODULE PtpBulkReaderProofs -------------------------
(* Proofs about PtpBulkReader, for any number of bytes, any buffer and any  *)
(* limit of empty packets.                                                  *)
EXTENDS PtpBulkReader, SequenceTheorems, TLAPS

\* A run of bytes: its type, its length, its elements.
LEMMA BytesFacts ==
    ASSUME NEW f \in Nat, NEW n \in Nat
    PROVE  /\ Bytes(f, n) \in Seq(Nat)
           /\ Len(Bytes(f, n)) = n
           /\ \A i \in 1..n : Bytes(f, n)[i] = f + i
           /\ Bytes(f, n) = <<>> <=> n = 0
<1>1. Bytes(f, n) \in Seq(Nat)
  BY DEF Bytes, Stream!Bytes
<1>2. Len(Bytes(f, n)) = n
  BY DEF Bytes, Stream!Bytes
<1>3. \A i \in 1..n : Bytes(f, n)[i] = f + i
  BY DEF Bytes, Stream!Bytes
<1> QED
  BY <1>1, <1>2, <1>3, EmptySeq

\* Two sequences with the same length and the same elements are the same.
LEMMA IsBytes ==
    ASSUME NEW f \in Nat, NEW s \in Seq(Nat), \A i \in 1..Len(s) : s[i] = f + i
    PROVE  s = Bytes(f, Len(s))
<1>1. Len(s) \in Nat
  BY LenProperties
<1>2. /\ Bytes(f, Len(s)) \in Seq(Nat) /\ Len(Bytes(f, Len(s))) = Len(s)
      /\ \A i \in 1..Len(s) : Bytes(f, Len(s))[i] = f + i
  BY <1>1, BytesFacts
<1>3. \A i \in 1..Len(s) : s[i] = Bytes(f, Len(s))[i]
  BY <1>2
<1> QED
  BY <1>2, <1>3, SeqEqual

\* A part of a run is a run.
LEMMA PartOfBytes ==
    ASSUME NEW f \in Nat, NEW n \in Nat, NEW o \in Nat, NEW k \in Nat, o + k <= n
    PROVE  SubSeq(Bytes(f, n), o + 1, o + k) = Bytes(f + o, k)
<1> DEFINE s == SubSeq(Bytes(f, n), o + 1, o + k)
<1>1. /\ Bytes(f, n) \in Seq(Nat) /\ Len(Bytes(f, n)) = n
      /\ \A i \in 1..n : Bytes(f, n)[i] = f + i
  BY BytesFacts
<1>2. s \in Seq(Nat) /\ Len(s) = k /\ \A i \in 1..k : s[i] = Bytes(f, n)[o + i]
  BY <1>1
<1>3. \A i \in 1..Len(s) : s[i] = f + o + i
  BY <1>1, <1>2
<1> HIDE DEF s
<1>4. s = Bytes(f + o, Len(s))
  BY <1>2, <1>3, IsBytes
<1> QED
  BY <1>2, <1>4 DEF s

\* A run and the one that follows it are one run.
LEMMA JoinBytes ==
    ASSUME NEW f \in Nat, NEW m \in Nat, NEW k \in Nat
    PROVE  Bytes(f, m) \o Bytes(f + m, k) = Bytes(f, m + k)
<1> DEFINE s == Bytes(f, m) \o Bytes(f + m, k)
<1>0. f + m \in Nat
  OBVIOUS
<1>1. /\ Bytes(f, m) \in Seq(Nat) /\ Len(Bytes(f, m)) = m
      /\ \A i \in 1..m : Bytes(f, m)[i] = f + i
      /\ Bytes(f + m, k) \in Seq(Nat) /\ Len(Bytes(f + m, k)) = k
      /\ \A i \in 1..k : Bytes(f + m, k)[i] = f + m + i
  BY <1>0, BytesFacts
<1>2. /\ s \in Seq(Nat) /\ Len(s) = m + k
      /\ \A i \in 1..m + k : s[i] = IF i <= m THEN Bytes(f, m)[i]
                                    ELSE Bytes(f + m, k)[i - m]
  <2> DEFINE a == Bytes(f, m)
             b == Bytes(f + m, k)
  <2>1. a \in Seq(Nat) /\ b \in Seq(Nat) /\ Len(a) = m /\ Len(b) = k
    BY <1>1
  <2> HIDE DEF a, b
  <2>2. /\ a \o b \in Seq(Nat) /\ Len(a \o b) = m + k
        /\ \A i \in 1..m + k : (a \o b)[i] = IF i <= m THEN a[i] ELSE b[i - m]
    BY <2>1, ConcatProperties
  <2> QED
    BY <2>2 DEF a, b
<1>3. \A i \in 1..Len(s) : s[i] = f + i
  BY <1>1, <1>2
<1> HIDE DEF s
<1>4. s = Bytes(f, Len(s))
  BY <1>2, <1>3, IsBytes
<1> QED
  BY <1>2, <1>4 DEF s

LEMMA InitIInv == Init => IInv
<1> SUFFICES ASSUME Init PROVE IInv
  OBVIOUS
<1>1. Bytes(0, 0) = <<>>
  BY BytesFacts
<1>2. TypeOK
  <2>1. pending \in Seq(Nat) /\ output \in Seq(Nat)
    BY EmptySeq DEF Init
  <2>2. /\ sent \in 0..MaxBytes /\ taken \in 0..MaxBytes /\ pendingOffset \in Nat
        /\ zeroLengthReads \in 0..MaxZeroLengthReads /\ length \in 0..MaxBytes
        /\ remaining \in 0..MaxBytes /\ begun \in Nat
    BY ReaderBounds DEF Init
  <2>3. phase = "idle" /\ toFile \in BOOLEAN /\ outcome = "none"
    BY DEF Init
  <2> QED
    BY <2>1, <2>2, <2>3 DEF TypeOK
<1>3. SurplusInv /\ ProgressInv
  BY <1>1, EmptySeq DEF Init, SurplusInv, ProgressInv
<1> QED
  BY <1>2, <1>3 DEF IInv

\* The facts about one copy, from which the rest follows.
LEMMA CopyFacts ==
    ASSUME IInv, Copy
    PROVE  \E k \in 1..remaining :
             /\ pendingOffset + k <= Len(pending)
             /\ output' = Bytes(0, Len(output) + k)
             /\ output' = output \o Bytes(Len(output), k)
             /\ Len(output') = Len(output) + k /\ output' \in Seq(Nat)
             /\ Len(output) + k <= taken
             /\ remaining' = remaining - k
             /\ \/ /\ pendingOffset + k = Len(pending)
                   /\ pending' = <<>> /\ pendingOffset' = 0
                \/ /\ pendingOffset + k < Len(pending)
                   /\ pending' = pending /\ pendingOffset' = pendingOffset + k
<1> DEFINE available == Len(pending) - pendingOffset
           k == IF available < remaining THEN available ELSE remaining
<1>1. /\ remaining \in Nat \ {0} /\ pendingOffset \in Nat /\ Len(pending) \in Nat
      /\ pendingOffset < Len(pending) /\ Len(output) \in Nat /\ taken \in Nat
      /\ phase = "loop"
  BY ReaderBounds, LenProperties DEF IInv, TypeOK, Copy, MayCopy
<1>2. k \in 1..remaining /\ pendingOffset + k <= Len(pending)
  BY <1>1
<1>3. /\ Len(pending) <= taken
      /\ pending = Bytes(taken - Len(pending), Len(pending))
      /\ output = Bytes(0, Len(output))
      /\ Len(output) + Len(pending) = taken + pendingOffset
  BY <1>1 DEF IInv, SurplusInv
<1>4. taken - Len(pending) \in Nat
  BY <1>1, <1>3
<1>5. SubSeq(pending, pendingOffset + 1, pendingOffset + k)
        = Bytes(taken - Len(pending) + pendingOffset, k)
  <2>1. k \in Nat
    BY <1>1, <1>2
  <2> HIDE DEF k
  <2>2. SubSeq(Bytes(taken - Len(pending), Len(pending)), pendingOffset + 1, pendingOffset + k)
          = Bytes(taken - Len(pending) + pendingOffset, k)
    <3>1. pendingOffset \in Nat /\ Len(pending) \in Nat /\ pendingOffset + k <= Len(pending)
      BY <1>1, <1>2
    <3>2. \A f, n, o, j \in Nat :
             o + j <= n => SubSeq(Bytes(f, n), o + 1, o + j) = Bytes(f + o, j)
      BY PartOfBytes
    <3> QED
      BY <1>4, <2>1, <3>1, <3>2, Zenon
  <2> QED
    BY <1>3, <2>2
<1>6. taken - Len(pending) + pendingOffset = Len(output)
  BY <1>1, <1>3
<1>7. /\ output' = output \o SubSeq(pending, pendingOffset + 1, pendingOffset + k)
      /\ remaining' = remaining - k
      /\ IF k = available
         THEN pending' = <<>> /\ pendingOffset' = 0
         ELSE pendingOffset' = pendingOffset + k /\ pending' = pending
  BY DEF Copy
<1> HIDE DEF k
<1>8. output' = output \o Bytes(Len(output), k)
  BY <1>5, <1>6, <1>7
<1>9. output' = Bytes(0, Len(output) + k)
  <2>1. Bytes(0, Len(output)) \o Bytes(0 + Len(output), k) = Bytes(0, Len(output) + k)
    <3>1. 0 \in Nat /\ k \in Nat
      BY <1>1, <1>2
    <3> QED
      BY <1>1, <3>1, JoinBytes
  <2>2. 0 + Len(output) = Len(output)
    BY <1>1
  <2> QED
    BY <1>3, <1>8, <2>1, <2>2
<1>10. Len(output') = Len(output) + k /\ output' \in Seq(Nat)
  BY <1>1, <1>2, <1>9, BytesFacts
<1>11. /\ Len(output) + k <= taken
       /\ k = available => pendingOffset + k = Len(pending)
       /\ k # available => pendingOffset + k < Len(pending)
  BY <1>1, <1>2, <1>3
<1> QED
  BY <1>2, <1>7, <1>8, <1>9, <1>10, <1>11

\* A step that touches neither the buffer nor the output keeps the surplus.
LEMMA SurplusKept ==
    ASSUME SurplusInv, UNCHANGED <<taken, pending, pendingOffset, output>>,
           taken <= sent', phase' = "closed" <=> phase = "closed"
    PROVE  SurplusInv'
  BY DEF SurplusInv, Bytes, Stream!Bytes

LEMMA NextIInv == IInv /\ [Next]_vars => IInv'
<1> SUFFICES ASSUME IInv, [Next]_vars PROVE IInv'
  OBVIOUS
<1> USE ReaderBounds
<1>0. /\ sent \in Nat /\ taken \in Nat /\ Len(pending) \in Nat /\ Len(output) \in Nat
      /\ remaining \in Nat /\ length \in Nat /\ begun \in Nat /\ MaxBytes \in Nat
  BY LenProperties DEF IInv, TypeOK
<1>1. CASE CameraSends
  <2>1. /\ sent' = sent + 1 /\ sent < MaxBytes
        /\ UNCHANGED <<taken, pending, pendingOffset, zeroLengthReads, phase, toFile,
                       length, begun, remaining, output, outcome>>
    BY <1>1 DEF CameraSends, callVars, bufferVars
  <2>2. sent' \in 0..MaxBytes /\ taken <= sent'
    BY <1>0, <2>1 DEF IInv, SurplusInv
  <2>3. TypeOK'
    BY <2>1, <2>2 DEF IInv, TypeOK
  <2>4. SurplusInv'
    BY <2>1, <2>2, SurplusKept DEF IInv
  <2>5. ProgressInv'
    BY <2>1 DEF IInv, ProgressInv
  <2> QED
    BY <2>3, <2>4, <2>5 DEF IInv
<1>2. CASE Call
  <2>1. /\ length' \in 0..MaxBytes /\ remaining' = length' /\ begun' = Len(output)
        /\ toFile' \in BOOLEAN /\ zeroLengthReads' = 0 /\ phase' = "loop"
        /\ phase = "idle" /\ outcome' = "none"
        /\ UNCHANGED <<sent, taken, pending, pendingOffset, output>>
    BY <1>2 DEF Call, bufferVars
  <2>2. 0 \in 0..MaxZeroLengthReads
    OBVIOUS
  <2>3. TypeOK'
    BY <1>0, <2>1, <2>2 DEF IInv, TypeOK
  <2>4. SurplusInv'
    BY <2>1, SurplusKept DEF IInv, SurplusInv
  <2>5. ProgressInv'
    BY <1>0, <2>1 DEF ProgressInv
  <2> QED
    BY <2>3, <2>4, <2>5 DEF IInv
<1>3. CASE Return
  <2>1. /\ remaining = 0 /\ phase' = "idle" /\ phase = "loop" /\ outcome' = "ok"
        /\ UNCHANGED <<sent, taken, pending, pendingOffset, zeroLengthReads, toFile,
                       length, begun, remaining, output>>
    BY <1>3 DEF Return, callVars, bufferVars
  <2>2. TypeOK' /\ ProgressInv'
    BY <2>1 DEF IInv, TypeOK, ProgressInv
  <2>3. SurplusInv'
    BY <2>1, SurplusKept DEF IInv, SurplusInv
  <2> QED
    BY <2>2, <2>3 DEF IInv
<1>4. CASE ZeroLengthRead \/ ReadFails \/ WriteFails
  <2>1. /\ phase = "loop" /\ phase' \in {"loop", "idle"} /\ outcome' \in {outcome, "failed"}
        /\ UNCHANGED <<sent, taken, pending, pendingOffset, toFile, length, begun,
                       remaining, output>>
    BY <1>4 DEF ZeroLengthRead, ReadFails, WriteFails, MustRead, MayCopy, Throw,
                callVars, bufferVars
  <2>2. zeroLengthReads' \in 0..MaxZeroLengthReads
    <3>1. zeroLengthReads \in 0..MaxZeroLengthReads
      BY DEF IInv, TypeOK
    <3>2. \/ zeroLengthReads' = zeroLengthReads
          \/ zeroLengthReads < MaxZeroLengthReads /\ zeroLengthReads' = zeroLengthReads + 1
      BY <1>4 DEF ZeroLengthRead, ReadFails, WriteFails, Throw
    <3> QED
      BY <3>1, <3>2
  <2>3. TypeOK'
    BY <2>1, <2>2 DEF IInv, TypeOK
  <2>4. ProgressInv'
    BY <2>1 DEF IInv, ProgressInv
  <2>5. SurplusInv'
    BY <2>1, SurplusKept DEF IInv, SurplusInv
  <2> QED
    BY <2>3, <2>4, <2>5 DEF IInv
<1>5. CASE TransportRead
  <2>1. PICK count \in 1..BufferSize :
           /\ count <= sent - taken
           /\ pending' = Bytes(taken, count)
           /\ taken' = taken + count
    BY <1>5 DEF TransportRead
  <2>2. /\ pendingOffset' = 0 /\ zeroLengthReads' = 0 /\ phase = "loop"
        /\ UNCHANGED <<sent, phase, toFile, length, begun, remaining, output, outcome>>
        /\ pendingOffset >= Len(pending)
    BY <1>5 DEF TransportRead, MustRead, callVars
  <2>3. count \in Nat \ {0} /\ pending' \in Seq(Nat) /\ Len(pending') = count
    BY <1>0, <2>1, BytesFacts
  <2>4. Len(output) = taken
    BY <1>0, <2>2, EmptySeq DEF IInv, TypeOK, SurplusInv
  <2>5. TypeOK'
    BY <1>0, <2>1, <2>2, <2>3 DEF IInv, TypeOK
  <2>6. SurplusInv'
    <3>1. taken' - Len(pending') = taken
      BY <1>0, <2>1, <2>3
    <3>2. pending' = Bytes(taken' - Len(pending'), Len(pending'))
      BY <2>1, <2>3, <3>1
    <3>3. output' = Bytes(0, Len(output'))
      BY <2>2 DEF IInv, SurplusInv, Bytes, Stream!Bytes
    <3>4. pending' # <<>>
      BY <2>3, EmptySeq
    <3>5. /\ taken' <= sent' /\ pendingOffset' < Len(pending') /\ Len(pending') <= taken'
          /\ Len(output') + Len(pending') = taken' + pendingOffset'
      BY <1>0, <2>1, <2>2, <2>3, <2>4
    <3> QED
      BY <2>2, <3>2, <3>3, <3>4, <3>5 DEF SurplusInv
  <2>7. ProgressInv'
    BY <2>2 DEF IInv, ProgressInv
  <2> QED
    BY <2>5, <2>6, <2>7 DEF IInv
<1>6. CASE Copy
  <2>1. PICK k \in 1..remaining :
             /\ pendingOffset + k <= Len(pending)
             /\ output' = Bytes(0, Len(output) + k)
             /\ Len(output') = Len(output) + k /\ output' \in Seq(Nat)
             /\ Len(output) + k <= taken
             /\ remaining' = remaining - k
             /\ \/ /\ pendingOffset + k = Len(pending)
                   /\ pending' = <<>> /\ pendingOffset' = 0
                \/ /\ pendingOffset + k < Len(pending)
                   /\ pending' = pending /\ pendingOffset' = pendingOffset + k
    BY <1>6, CopyFacts
  <2>2. /\ UNCHANGED <<sent, taken, phase, toFile, length, begun, outcome>>
        /\ zeroLengthReads' = 0 /\ phase = "loop" /\ remaining > 0
    BY <1>6 DEF Copy, MayCopy, callVars
  <2>3. pendingOffset \in Nat /\ k \in Nat \ {0}
    BY <1>0, <2>1 DEF IInv, TypeOK
  <2>4. TypeOK'
    <3>1. remaining' \in 0..MaxBytes /\ pendingOffset' \in Nat
      BY <1>0, <2>1, <2>3 DEF IInv, TypeOK
    <3>2. pending' \in Seq(Nat)
      BY <2>1, EmptySeq DEF IInv, TypeOK
    <3>3. output' \in Seq(Nat)
      BY <2>1
    <3> QED
      BY <2>2, <3>1, <3>2, <3>3 DEF IInv, TypeOK
  <2>5. SurplusInv'
    <3>1. output' = Bytes(0, Len(output'))
      BY <2>1
    <3>2. Len(output) + Len(pending) = taken + pendingOffset /\ taken <= sent
      BY <2>2 DEF IInv, SurplusInv
    <3>3. CASE pending' = <<>> /\ pendingOffset' = 0 /\ pendingOffset + k = Len(pending)
      <4>1. Len(pending') = 0 /\ taken' - 0 = taken /\ Bytes(taken, 0) = <<>>
        BY <1>0, <2>2, <3>3, EmptySeq, BytesFacts
      <4>2. Len(output') + 0 = taken' + 0
        BY <1>0, <2>1, <2>2, <2>3, <3>2, <3>3
      <4> QED
        BY <1>0, <2>2, <3>1, <3>2, <3>3, <4>1, <4>2 DEF SurplusInv
    <3>4. CASE /\ pending' = pending /\ pendingOffset' = pendingOffset + k
               /\ pendingOffset + k < Len(pending)
      <4>1. pending' = Bytes(taken' - Len(pending'), Len(pending'))
        BY <2>2, <3>4 DEF IInv, SurplusInv, Bytes, Stream!Bytes
      <4>2. pending # <<>> /\ Len(pending) <= taken
        BY <1>0, <2>3, <3>4, EmptySeq DEF IInv, SurplusInv
      <4>3. Len(output') + Len(pending') = taken' + pendingOffset'
        <5>1. /\ Len(output') = Len(output) + k /\ Len(pending') = Len(pending)
              /\ taken' = taken /\ pendingOffset' = pendingOffset + k
          BY <2>1, <2>2, <3>4
        <5> QED
          BY <1>0, <2>3, <3>2, <5>1
      <4> QED
        BY <2>2, <3>1, <3>2, <3>4, <4>1, <4>2, <4>3 DEF SurplusInv
    <3> QED
      BY <2>1, <3>3, <3>4
  <2>6. ProgressInv'
    BY <1>0, <2>1, <2>2, <2>3 DEF IInv, ProgressInv
  <2> QED
    BY <2>4, <2>5, <2>6 DEF IInv
<1>7. CASE Reset
  <2>1. /\ pending' = <<>> /\ pendingOffset' = 0 /\ phase' = "closed" /\ phase = "idle"
        /\ UNCHANGED <<sent, taken, zeroLengthReads, toFile, length, begun, remaining,
                       output, outcome>>
    BY <1>7 DEF Reset, callVars
  <2>2. TypeOK'
    BY <2>1, EmptySeq DEF IInv, TypeOK
  <2>3. Len(pending') = 0 /\ taken' - 0 = taken /\ Bytes(taken, 0) = <<>>
    BY <1>0, <2>1, EmptySeq, BytesFacts
  <2>4. Len(output) <= taken
    <3>1. /\ Len(output) + Len(pending) = taken + pendingOffset
          /\ pending # <<>> => pendingOffset < Len(pending)
          /\ pending = <<>> => pendingOffset = 0
      BY <2>1 DEF IInv, SurplusInv
    <3>2. pendingOffset <= Len(pending) /\ pendingOffset \in Nat
      BY <1>0, <3>1 DEF IInv, TypeOK
    <3> QED
      BY <1>0, <3>1, <3>2
  <2>5. SurplusInv'
    <3>1. output' = Bytes(0, Len(output'))
      BY <2>1 DEF IInv, SurplusInv, Bytes, Stream!Bytes
    <3> QED
      BY <1>0, <2>1, <2>3, <2>4, <3>1 DEF IInv, SurplusInv
  <2>6. ProgressInv'
    BY <2>1 DEF IInv, ProgressInv
  <2> QED
    BY <2>2, <2>5, <2>6 DEF IInv
<1>8. CASE UNCHANGED vars
  BY <1>8 DEF IInv, TypeOK, SurplusInv, ProgressInv, Bytes, Stream!Bytes, vars
<1> QED
  BY <1>1, <1>2, <1>3, <1>4, <1>5, <1>6, <1>7, <1>8 DEF Next, Loop

\* The surplus of a transfer is never lost and never handed out twice, whatever
\* the packets and the ranges are (pending, pendingOffset).
THEOREM Invariant == Spec => []IInv
  BY InitIInv, NextIInv, PTL DEF Spec

\* readExactly and copyExactly hand out exactly the range they were asked for.
THEOREM HandsOutTheRange == Spec => []ExactRange
<1>1. IInv => ExactRange
  BY ReaderBounds, LenProperties DEF IInv, TypeOK, ProgressInv, ExactRange
<1> QED
  BY <1>1, Invariant, PTL

\* The reader implements the byte stream: a copy delivers the next bytes, the
\* camera's sending is an arrival, and every other step is invisible.
THEOREM Implements == Spec => ReadsTheStream
<1>1. Init => Stream!Init
  BY DEF Init, Stream!Init
<1>2. IInv /\ [Next]_vars => [Stream!Next]_(Stream!vars)
  <2> SUFFICES ASSUME IInv, [Next]_vars PROVE [Stream!Next]_(Stream!vars)
    OBVIOUS
  <2>1. CASE CameraSends
    BY <2>1 DEF CameraSends, Stream!Next, Stream!Arrive
  <2>2. CASE Copy
    <3>1. PICK k \in 1..remaining :
             output' = output \o Bytes(Len(output), k) /\ Len(output) + k <= taken
      BY <2>2, CopyFacts
    <3>2. /\ taken <= sent /\ taken \in Nat /\ sent \in Nat /\ Len(output) \in Nat
          /\ remaining \in Nat
      BY ReaderBounds, LenProperties DEF IInv, TypeOK, SurplusInv
    <3>3. k \in 1..sent - Len(output)
      BY <3>1, <3>2
    <3>4. sent' = sent
      BY <2>2 DEF Copy
    <3> QED
      BY <3>1, <3>3, <3>4 DEF Bytes, Stream!Next, Stream!Deliver
  <2>3. CASE Call \/ Return \/ TransportRead \/ ZeroLengthRead \/ ReadFails
             \/ WriteFails \/ Reset \/ UNCHANGED vars
    BY <2>3 DEF Call, Return, TransportRead, ZeroLengthRead, ReadFails, WriteFails,
                Reset, Throw, vars, Stream!vars
  <2> QED
    BY <2>1, <2>2, <2>3 DEF Next, Loop
<1> QED
  BY <1>1, <1>2, Invariant, PTL DEF Spec, Stream!Spec, ReadsTheStream
=============================================================================
