---------------------------- MODULE PtpBulkReader ----------------------------
(***************************************************************************)
(* CanonPtpBulkReader: every USB read asks for a full buffer, and what it  *)
(* returns beyond the range the caller asked for is kept for the next      *)
(* call.  One step is one pass of a loop: a transport read, or a copy with *)
(* the clearing of what is consumed.  Calls come one at a time (ioLock).   *)
(***************************************************************************)
EXTENDS Naturals, Sequences

CONSTANTS MaxBytes,             \* bound: bytes the camera sends, longest range
          BufferSize,           \* receiveBuffer.size, never below a packet
          MaxZeroLengthReads    \* MAX_ZERO_LENGTH_READS

ASSUME ReaderBounds ==
    MaxBytes \in Nat /\ BufferSize \in Nat \ {0} /\ MaxZeroLengthReads \in Nat

VARIABLES
    sent,                   \* bytes the camera has sent, in packets of any size
    taken,                  \* bytes the transport has returned
    pending, pendingOffset, \* the last transfer, what of it is consumed
    zeroLengthReads,        \* of the ensurePending under way
    phase,                  \* "idle", "loop" (in a call), "closed"
    toFile,                 \* the call is copyExactly
    length, remaining,      \* the range asked for, what of it is missing
    output,                 \* every byte handed to the callers so far
    begun,                  \* how many those were when the call began
    outcome                 \* how the last call ended

vars == <<sent, taken, pending, pendingOffset, zeroLengthReads, phase, toFile,
          length, remaining, output, begun, outcome>>
callVars == <<toFile, length, begun>>
bufferVars == <<taken, pending, pendingOffset>>

Stream == INSTANCE PtpByteStream WITH arrived <- sent, delivered <- output
Bytes(first, n) == Stream!Bytes(first, n)

Init ==
    /\ sent = 0 /\ taken = 0 /\ pending = <<>> /\ pendingOffset = 0
    /\ zeroLengthReads = 0 /\ phase = "idle" /\ toFile = FALSE
    /\ length = 0 /\ remaining = 0 /\ output = <<>> /\ begun = 0
    /\ outcome = "none"

-----------------------------------------------------------------------------
CameraSends ==
    /\ sent < MaxBytes
    /\ sent' = sent + 1
    /\ UNCHANGED <<bufferVars, zeroLengthReads, phase, callVars, remaining, output,
                   outcome>>

\* readExactly, copyExactly: the caller asks for a range.
Call ==
    /\ phase = "idle"
    /\ \E n \in 0..MaxBytes : length' = n /\ remaining' = n
    /\ toFile' \in BOOLEAN
    /\ begun' = Len(output)
    /\ zeroLengthReads' = 0
    /\ phase' = "loop" /\ outcome' = "none"
    /\ UNCHANGED <<sent, bufferVars, output>>

Return ==
    /\ phase = "loop" /\ remaining = 0
    /\ phase' = "idle" /\ outcome' = "ok"
    /\ UNCHANGED <<sent, bufferVars, zeroLengthReads, callVars, remaining, output>>

Throw ==
    /\ phase' = "idle" /\ outcome' = "failed"
    /\ UNCHANGED <<sent, bufferVars, zeroLengthReads, callVars, remaining, output>>

\* ensurePending has nothing left of the last transfer.
MustRead == phase = "loop" /\ remaining > 0 /\ pendingOffset >= Len(pending)
MayCopy == phase = "loop" /\ remaining > 0 /\ pendingOffset < Len(pending)

TransportRead ==
    /\ MustRead
    /\ \E count \in 1..BufferSize :
          /\ count <= sent - taken
          /\ pending' = Bytes(taken, count)
          /\ taken' = taken + count
    /\ pendingOffset' = 0
    /\ zeroLengthReads' = 0
    /\ UNCHANGED <<sent, phase, callVars, remaining, output, outcome>>

\* A reader that starts counting afresh instead of giving up.
ZeroLengthReadForever ==
    /\ MustRead
    /\ zeroLengthReads' = (zeroLengthReads + 1) % (MaxZeroLengthReads + 1)
    /\ UNCHANGED <<sent, bufferVars, phase, callVars, remaining, output, outcome>>

\* An empty packet is ignored, but not too many in a row.
ZeroLengthRead ==
    /\ MustRead
    /\ \/ /\ zeroLengthReads < MaxZeroLengthReads
          /\ zeroLengthReads' = zeroLengthReads + 1
          /\ UNCHANGED <<sent, bufferVars, phase, callVars, remaining, output, outcome>>
       \/ zeroLengthReads = MaxZeroLengthReads /\ Throw

\* A timeout or an error of the transport: what this call copied is gone.
ReadFails == MustRead /\ Throw

\* The surplus of a transfer is dropped with the range it belonged to.
CopyOnce ==
    /\ MayCopy
    /\ LET available == Len(pending) - pendingOffset
           copied == IF available < remaining THEN available ELSE remaining
       IN /\ output' = output \o
                 SubSeq(pending, pendingOffset + 1, pendingOffset + copied)
          /\ remaining' = remaining - copied
    /\ pending' = <<>> /\ pendingOffset' = 0
    /\ zeroLengthReads' = 0
    /\ UNCHANGED <<sent, taken, phase, callVars, outcome>>

\* A copy that does not stop at the end of the range.
CopyAll ==
    /\ MayCopy
    /\ LET available == Len(pending) - pendingOffset
       IN /\ output' = output \o SubSeq(pending, pendingOffset + 1, Len(pending))
          /\ remaining' = IF available < remaining THEN remaining - available ELSE 0
    /\ pending' = <<>> /\ pendingOffset' = 0
    /\ zeroLengthReads' = 0
    /\ UNCHANGED <<sent, taken, phase, callVars, outcome>>

\* A copy that forgets how much of the transfer it consumed before.
CopyFromStart ==
    /\ MayCopy
    /\ LET available == Len(pending) - pendingOffset
           copied == IF available < remaining THEN available ELSE remaining
       IN /\ output' = output \o SubSeq(pending, 1, copied)
          /\ remaining' = remaining - copied
          /\ IF copied = available
             THEN pending' = <<>> /\ pendingOffset' = 0
             ELSE pendingOffset' = pendingOffset + copied /\ UNCHANGED pending
    /\ zeroLengthReads' = 0
    /\ UNCHANGED <<sent, taken, phase, callVars, outcome>>

\* System.arraycopy or output.write, and clearConsumedPending.
Copy ==
    /\ MayCopy
    /\ LET available == Len(pending) - pendingOffset
           copied == IF available < remaining THEN available ELSE remaining
       IN /\ output' = output \o
                 SubSeq(pending, pendingOffset + 1, pendingOffset + copied)
          /\ remaining' = remaining - copied
          /\ IF copied = available
             THEN pending' = <<>> /\ pendingOffset' = 0
             ELSE pendingOffset' = pendingOffset + copied /\ UNCHANGED pending
    /\ zeroLengthReads' = 0
    /\ UNCHANGED <<sent, taken, phase, callVars, outcome>>

\* output.write throws before anything is consumed.
WriteFails == MayCopy /\ toFile /\ Throw

\* close(): the session is over and so is what was left of it.
Reset ==
    /\ phase = "idle"
    /\ pending' = <<>> /\ pendingOffset' = 0
    /\ phase' = "closed"
    /\ UNCHANGED <<sent, taken, zeroLengthReads, callVars, remaining, output, outcome>>

Loop == Return \/ TransportRead \/ ZeroLengthRead \/ ReadFails \/ Copy \/ WriteFails
Next == CameraSends \/ Call \/ Loop \/ Reset

Spec == Init /\ [][Next]_vars

\* Every transport read returns within its timeout.  The camera need not send.
FairSpec == Spec /\ WF_vars(Loop)

-----------------------------------------------------------------------------
(* What must hold                                                          *)

TypeOK ==
    /\ sent \in 0..MaxBytes /\ taken \in 0..MaxBytes
    /\ pending \in Seq(Nat) /\ pendingOffset \in Nat
    /\ zeroLengthReads \in 0..MaxZeroLengthReads
    /\ phase \in {"idle", "loop", "closed"} /\ toFile \in BOOLEAN
    /\ length \in 0..MaxBytes /\ remaining \in 0..MaxBytes
    /\ output \in Seq(Nat) /\ begun \in Nat
    /\ outcome \in {"none", "ok", "failed"}

\* The surplus is the end of what the transport returned, and what it does not
\* hold has been handed out, in order.
SurplusInv ==
    /\ taken <= sent
    /\ pending # <<>> => pendingOffset < Len(pending)
    /\ pending = <<>> => pendingOffset = 0
    /\ Len(pending) <= taken
    /\ pending = Bytes(taken - Len(pending), Len(pending))
    /\ output = Bytes(0, Len(output))
    /\ phase # "closed" => Len(output) + Len(pending) = taken + pendingOffset
    /\ phase = "closed" => Len(output) <= taken

\* What a call has copied and what it still misses are the range asked for.
ProgressInv ==
    /\ Len(output) = begun + (length - remaining) /\ remaining <= length
    /\ outcome = "ok" => remaining = 0

IInv == TypeOK /\ SurplusInv /\ ProgressInv

\* A call that returns has handed out exactly the range, never a byte beyond it,
\* so a header is never read from the middle of a payload; a call that fails has
\* handed out no more than it was asked for.
ExactRange ==
    /\ Len(output) <= begun + length
    /\ outcome = "ok" => Len(output) = begun + length

\* In order, each once: the reader implements the byte stream.
ReadsTheStream == Stream!Spec

\* No call waits forever on empty packets or on a camera that sends nothing.
CallEnds == (phase = "loop") ~> (phase # "loop")
=============================================================================
