--------------------------- MODULE PtpTransaction ---------------------------
(***************************************************************************)
(* The PTP transactions of CanonPtpBackend.kt over the two bulk pipes of a *)
(* USB connection: writeCommand, readContainer, validateHeader, the loops  *)
(* of transaction() and downloadObject(), and CanonPtpBulkReader.          *)
(*                                                                         *)
(* A command is its transaction id and whether it is a download.  What the *)
(* camera sends is a sequence of units that stay in order and are never    *)
(* lost: the header of a data container with its length, the payload in    *)
(* pieces of a header's size, and a response (which has no payload here).  *)
(* A piece of payload read where a header is expected never passes         *)
(* validateHeader.  Only one thread at a time is in here (ioLock).         *)
(***************************************************************************)
EXTENDS Naturals, Sequences

CONSTANTS MaxTransactions,  \* bound: transactions of the session
          MaxPayload,       \* longest payload the camera sends, in pieces
          MaxContainer      \* MAX_CONTAINER_SIZE, in pieces

ASSUME PtpBounds ==
    MaxTransactions \in Nat /\ MaxPayload \in Nat /\ MaxContainer \in Nat

VARIABLES
    transactionId,  \* the next id writeCommand uses
    command,        \* the transaction under way: its id and kind
    phase,          \* "idle", or what is read next: "header", "payload"
    left,           \* pieces of payload still to read
    data,           \* id of the command whose payload data holds, or none
    outcome,        \* how the last transaction ended
    inbox,          \* commands the camera has not answered completely
    dataSent, owed, \* the camera began to send the data of the first; pieces missing
    pipe,           \* units under way to the host, those the reader keeps included
    derailed        \* history: a transaction was given up half read

vars == <<transactionId, command, phase, left, data, outcome, inbox, dataSent,
          owed, pipe, derailed>>

None == MaxTransactions                        \* no transaction has this id
Commands == [id : 0..MaxTransactions - 1, download : BOOLEAN]
Header(id, n) == [unit |-> "data", id |-> id, size |-> n]
Piece(id) == [unit |-> "payload", id |-> id, size |-> 0]
Response(id, code) == [unit |-> code, id |-> id, size |-> 0]

Init ==
    /\ transactionId = 0
    /\ command = [id |-> None, download |-> FALSE]
    /\ phase = "idle" /\ left = 0 /\ data = None /\ outcome = "none"
    /\ inbox = <<>> /\ dataSent = FALSE /\ owed = 0 /\ pipe = <<>>
    /\ derailed = FALSE

-----------------------------------------------------------------------------
(* The host                                                                *)

\* The transaction ends with this outcome.
Ends(how) == phase' = "idle" /\ outcome' = how /\ left' = 0
Throws(how) == Ends(how) /\ derailed' = TRUE

\* writeCommand: the id is spent whether or not the write succeeds.  A command
\* is one packet: it arrives whole or, when the write fails, not at all.
WriteCommand ==
    /\ phase = "idle" /\ transactionId < MaxTransactions
    /\ \E download \in BOOLEAN :
          /\ command' = [id |-> transactionId, download |-> download]
          /\ \/ /\ inbox' = Append(inbox, command')
                /\ phase' = "header" /\ outcome' = "none"
             \/ /\ inbox' = inbox
                /\ phase' = "idle" /\ outcome' = "writeFailed"
    /\ transactionId' = transactionId + 1
    /\ data' = None
    /\ UNCHANGED <<left, dataSent, owed, pipe, derailed>>

\* A reader that does not compare transaction ids.
ReadAnyHeader ==
    /\ phase = "header" /\ pipe # <<>>
    /\ pipe' = Tail(pipe)
    /\ \/ /\ Head(pipe).unit = "data"
          /\ phase' = "payload" /\ left' = Head(pipe).size
          /\ UNCHANGED <<data, outcome, derailed>>
       \/ /\ Head(pipe).unit \in {"ok", "refused"}
          /\ Ends(Head(pipe).unit)
          /\ UNCHANGED <<data, derailed>>
    /\ UNCHANGED <<transactionId, command, inbox, dataSent, owed>>

\* readHeader and validateHeader: the header of another transaction, or of no
\* container at all, is consumed and the transaction fails; so does a data
\* container too large for anything but a download.
ReadHeader ==
    /\ phase = "header" /\ pipe # <<>>
    /\ pipe' = Tail(pipe)
    /\ LET u == Head(pipe) IN
       \/ /\ u.unit = "payload" \/ u.id # command.id
          /\ Throws("mismatch")
          /\ UNCHANGED data
       \/ /\ u.unit = "data" /\ u.id = command.id
          /\ u.size > MaxContainer /\ ~command.download
          /\ Throws("tooLarge")
          /\ UNCHANGED data
       \/ /\ u.unit = "data" /\ u.id = command.id
          /\ u.size <= MaxContainer \/ command.download
          /\ phase' = "payload" /\ left' = u.size
          /\ UNCHANGED <<data, outcome, derailed>>
       \/ /\ u.unit \in {"ok", "refused"} /\ u.id = command.id
          /\ Ends(u.unit)
          /\ UNCHANGED <<data, derailed>>
    /\ UNCHANGED <<transactionId, command, inbox, dataSent, owed>>

\* A copy loop that reads before it looks at what remains.
ReadPastEnd ==
    /\ phase = "payload" /\ pipe # <<>>
    /\ data' = Head(pipe).id
    /\ pipe' = Tail(pipe)
    /\ left' = left - 1
    /\ phase' = IF left = 1 THEN "header" ELSE "payload"
    /\ UNCHANGED <<transactionId, command, outcome, inbox, dataSent, owed, derailed>>

\* A download that is complete with its data, before the response is read.
ReadDataOnly ==
    /\ phase = "payload"
    /\ \/ /\ left > 0 /\ pipe # <<>>
          /\ data' = Head(pipe).id
          /\ pipe' = Tail(pipe)
          /\ left' = left - 1
          /\ UNCHANGED <<phase, outcome>>
       \/ /\ left = 0
          /\ Ends("ok")
          /\ UNCHANGED <<data, pipe>>
    /\ UNCHANGED <<transactionId, command, inbox, dataSent, owed, derailed>>

\* readExactly, copyExactly: one piece, or the end of the payload.
ReadPayload ==
    /\ phase = "payload"
    /\ \/ /\ left > 0 /\ pipe # <<>>
          /\ data' = Head(pipe).id
          /\ pipe' = Tail(pipe)
          /\ left' = left - 1
          /\ UNCHANGED phase
       \/ /\ left = 0
          /\ phase' = "header"
          /\ UNCHANGED <<data, pipe, left>>
    /\ UNCHANGED <<transactionId, command, outcome, inbox, dataSent, owed, derailed>>

\* output.write throws while the payload of a download is copied.
WriteFileFails ==
    /\ phase = "payload" /\ left > 0 /\ pipe # <<>>
    /\ command.download
    /\ Throws("fileFailed")
    /\ UNCHANGED <<transactionId, command, data, inbox, dataSent, owed, pipe>>

\* A reader with a timeout for headers only.
HeaderTimesOut ==
    /\ phase = "header"
    /\ pipe = <<>>
    /\ Throws("timeout")
    /\ UNCHANGED <<transactionId, command, data, inbox, dataSent, owed, pipe>>

\* ensurePending: nothing came within the timeout.
ReadTimesOut ==
    /\ phase = "header" \/ (phase = "payload" /\ left > 0)
    /\ pipe = <<>>
    /\ Throws("timeout")
    /\ UNCHANGED <<transactionId, command, data, inbox, dataSent, owed, pipe>>

-----------------------------------------------------------------------------
(* The camera: it answers in order, in its own time                        *)

SendData ==
    /\ inbox # <<>> /\ ~dataSent
    /\ \E n \in 0..MaxPayload :
          /\ pipe' = Append(pipe, Header(Head(inbox).id, n))
          /\ owed' = n
    /\ dataSent' = TRUE
    /\ UNCHANGED <<transactionId, command, phase, left, data, outcome, inbox,
                   derailed>>

SendPiece ==
    /\ owed > 0
    /\ pipe' = Append(pipe, Piece(Head(inbox).id))
    /\ owed' = owed - 1
    /\ UNCHANGED <<transactionId, command, phase, left, data, outcome, inbox,
                   dataSent, derailed>>

SendResponse ==
    /\ inbox # <<>> /\ owed = 0
    /\ \E code \in {"ok", "refused"} :
          pipe' = Append(pipe, Response(Head(inbox).id, code))
    /\ inbox' = Tail(inbox)
    /\ dataSent' = FALSE
    /\ UNCHANGED <<transactionId, command, phase, left, data, outcome, owed,
                   derailed>>

-----------------------------------------------------------------------------
Read == ReadHeader \/ ReadPayload \/ ReadTimesOut
Host == WriteCommand \/ Read \/ WriteFileFails
CameraAnswers == SendData \/ SendPiece \/ SendResponse
Next == Host \/ CameraAnswers

Spec == Init /\ [][Next]_vars

\* Every read returns or times out.  Of the camera nothing is assumed.
FairSpec == Spec /\ WF_vars(Read)

-----------------------------------------------------------------------------
(* What must hold                                                          *)

Units == [unit : {"data", "payload", "ok", "refused"}, id : 0..None,
          size : 0..MaxPayload]
TypeOK ==
    /\ transactionId \in 0..MaxTransactions
    /\ command \in [id : 0..None, download : BOOLEAN]
    /\ phase \in {"idle", "header", "payload"} /\ left \in 0..MaxPayload
    /\ data \in 0..None
    /\ outcome \in {"none", "ok", "refused", "writeFailed", "mismatch", "tooLarge",
                    "timeout", "fileFailed"}
    /\ inbox \in Seq(Commands) /\ dataSent \in BOOLEAN /\ owed \in 0..MaxPayload
    /\ pipe \in Seq(Units)
    /\ derailed \in BOOLEAN

\* Ids are given out upwards, the camera answers in order, and no command is
\* sent while a transaction is under way: behind a header of the current
\* command everything belongs to it.
IdsGiven ==
    /\ command.id = IF transactionId = 0 THEN None ELSE transactionId - 1
    /\ phase # "idle" => transactionId > 0
    /\ owed > 0 => inbox # <<>>
    /\ \A i \in DOMAIN pipe : pipe[i].id < transactionId
    /\ \A j \in DOMAIN inbox : inbox[j].id < transactionId
IdsInOrder ==
    /\ \A i, j \in DOMAIN pipe : i < j => pipe[i].id <= pipe[j].id
    /\ \A i, j \in DOMAIN inbox : i < j => inbox[i].id <= inbox[j].id
    /\ \A i \in DOMAIN pipe, j \in DOMAIN inbox : pipe[i].id <= inbox[j].id
OwnPayload ==
    phase = "payload" =>
        /\ \A i \in DOMAIN pipe : pipe[i].id = command.id
        /\ \A j \in DOMAIN inbox : inbox[j].id = command.id
IdsInv == IdsGiven /\ IdsInOrder /\ OwnPayload

\* As long as nothing was given up half read, what is under way is the rest of
\* one answer: of its payload what is still to be read, then its response.
Codes == {"ok", "refused"}
Responded == IF inbox = <<>> THEN 1 ELSE 0
Rest(first, pieces) ==         \* from this place on, so many pieces and the response
    /\ Len(inbox) <= 1 /\ (dataSent \/ inbox = <<>>)
    /\ pieces + Responded = Len(pipe) + 1 - first + owed
    /\ \A i \in first..Len(pipe) - Responded : pipe[i].unit = "payload"
    /\ inbox = <<>> => pipe[Len(pipe)].unit \in Codes
Between == phase = "idle" /\ pipe = <<>> /\ inbox = <<>>
Awaiting == phase = "header" /\ pipe = <<>> /\ Len(inbox) = 1 /\ owed = 0
AnswerBegins ==
    phase = "header" /\ pipe # <<>> /\ pipe[1].unit = "data" /\ Rest(2, pipe[1].size)
AnswerEnds ==
    phase = "header" /\ Len(pipe) = 1 /\ pipe[1].unit \in Codes /\ inbox = <<>>
Copying == phase = "payload" /\ Rest(1, left)
StepInv == ~derailed => Between \/ Awaiting \/ AnswerBegins \/ AnswerEnds \/ Copying

\* The camera finishes what it began: behind a data header come as many pieces as
\* it says and then a response, or they are still owed.  This also holds when
\* transactions were given up, so a copy loop never takes a header for payload.
Whole(at, n) ==                \* of the n pieces that follow this place
    /\ \A k \in at + 1..at + n : k <= Len(pipe) => pipe[k].unit = "payload"
    /\ at + n < Len(pipe) => pipe[at + n + 1].unit \in Codes
    /\ at + n >= Len(pipe) => dataSent /\ owed = at + n - Len(pipe)
WholeInv ==
    /\ \A i \in DOMAIN pipe : pipe[i].unit = "data" => Whole(i, pipe[i].size)
    /\ phase = "payload" => Whole(0, left)

IInv == TypeOK /\ IdsInv /\ data \in {None, command.id} /\ StepInv /\ WholeInv

\* What a transaction has read, at any time and so when it returns, is the
\* answer to its own command, and what its copy loop reads next is a piece of
\* that answer until all are read, then its response: however many answers to
\* earlier commands that were given up still arrive.
OwnAnswer ==
    /\ data \in {None, command.id}
    /\ phase = "payload" =>
          \A k \in DOMAIN pipe :
             /\ pipe[k].id = command.id
             /\ k <= left => pipe[k].unit = "payload"
             /\ k = left + 1 => pipe[k].unit \in Codes

\* As long as no transaction was given up half read the pipes are empty between
\* two transactions, so the next header read is the next answer's.
InStep == phase = "idle" /\ ~derailed => pipe = <<>> /\ inbox = <<>>

\* No transaction waits forever on a camera that does not answer.
TransactionEnds == (phase # "idle") ~> (phase = "idle")
=============================================================================
