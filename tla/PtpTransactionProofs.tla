------------------------ MODULE PtpTransactionProofs ------------------------
(* Proofs about PtpTransaction, for any number of transactions, any payload *)
(* and any limit of the host.                                               *)
EXTENDS PtpTransaction, SequenceTheorems, TLAPS

\* The facts about sequences that the steps use.
LEMMA AppendFacts ==
    ASSUME NEW S, NEW s \in Seq(S), NEW e \in S
    PROVE  /\ Append(s, e) \in Seq(S)
           /\ Len(s) \in Nat
           /\ Len(Append(s, e)) = Len(s) + 1
           /\ \A i \in 1..Len(s) : Append(s, e)[i] = s[i]
           /\ Append(s, e)[Len(s) + 1] = e
           /\ DOMAIN s = 1..Len(s)
           /\ DOMAIN Append(s, e) = 1..Len(s) + 1
           /\ Append(s, e) # <<>>
  OBVIOUS

LEMMA TailFacts ==
    ASSUME NEW S, NEW s \in Seq(S), s # <<>>
    PROVE  /\ Tail(s) \in Seq(S)
           /\ Len(s) \in Nat \ {0}
           /\ Len(Tail(s)) = Len(s) - 1
           /\ \A i \in 1..Len(s) - 1 : Tail(s)[i] = s[i + 1]
           /\ Head(s) = s[1] /\ Head(s) \in S
           /\ DOMAIN s = 1..Len(s)
           /\ DOMAIN Tail(s) = 1..Len(s) - 1
           /\ Tail(s) = <<>> <=> Len(s) = 1
<1>1. Len(s) \in Nat \ {0} /\ DOMAIN s = 1..Len(s)
  BY EmptySeq, LenProperties
<1>2. /\ Tail(s) \in Seq(S) /\ Head(s) \in S
      /\ Len(Tail(s)) = Len(s) - 1
      /\ \A i \in 1..Len(s) - 1 : Tail(s)[i] = s[i + 1]
  BY HeadTailProperties
<1>3. Head(s) = s[1]
  BY <1>1
<1>4. DOMAIN Tail(s) = 1..Len(s) - 1
  BY <1>2, LenProperties
<1>5. Tail(s) = <<>> <=> Len(s) = 1
  BY <1>1, <1>2, EmptySeq
<1> QED
  BY <1>1, <1>2, <1>3, <1>4, <1>5

LEMMA InitIInv == Init => IInv
<1> SUFFICES ASSUME Init PROVE IInv
  OBVIOUS
<1> USE PtpBounds DEF Init, None
<1>1. TypeOK
  <2>1. inbox \in Seq(Commands) /\ pipe \in Seq(Units)
    BY EmptySeq
  <2>2. /\ transactionId \in 0..MaxTransactions
        /\ command \in [id : 0..None, download : BOOLEAN]
        /\ left \in 0..MaxPayload /\ data \in 0..None /\ owed \in 0..MaxPayload
    OBVIOUS
  <2>3. /\ phase \in {"idle", "header", "payload"} /\ outcome = "none"
        /\ dataSent \in BOOLEAN /\ derailed \in BOOLEAN
    OBVIOUS
  <2> HIDE DEF Init
  <2> QED
    BY <2>1, <2>2, <2>3 DEF TypeOK
<1>2. IdsInv
  BY DEF IdsInv, IdsGiven, IdsInOrder, OwnPayload
<1>3. StepInv /\ data \in {None, command.id} /\ WholeInv
  BY DEF StepInv, Between, WholeInv
<1> QED
  BY <1>1, <1>2, <1>3 DEF IInv

\* What is sent is typed.
LEMMA UnitTypes ==
    ASSUME TypeOK
    PROVE  /\ None \in Nat
           /\ \A c \in Commands : c.id \in 0..None /\ c.id < None
           /\ \A c \in Commands, n \in 0..MaxPayload : Header(c.id, n) \in Units
           /\ \A c \in Commands : Piece(c.id) \in Units
           /\ \A c \in Commands, code \in {"ok", "refused"} : Response(c.id, code) \in Units
  BY PtpBounds DEF TypeOK, None, Commands, Units, Header, Piece, Response

\* Every step keeps the types.
LEMMA TypeStep ==
    ASSUME TypeOK, IdsInv, Next
    PROVE  TypeOK'
<1> USE PtpBounds, UnitTypes
<1>1. CASE WriteCommand
  <2>1. /\ transactionId' \in 0..MaxTransactions /\ data' \in 0..None
        /\ phase' \in {"header", "idle"} /\ outcome' \in {"none", "writeFailed"}
        /\ command' \in Commands
    BY <1>1 DEF TypeOK, WriteCommand, Commands, None
  <2>2. inbox' \in Seq(Commands)
    <3>1. inbox \in Seq(Commands) /\ inbox' \in {inbox, Append(inbox, command')}
      BY <1>1 DEF TypeOK, WriteCommand
    <3> QED
      BY <2>1, <3>1, AppendFacts
  <2> QED
    BY <1>1, <2>1, <2>2 DEF TypeOK, WriteCommand, Commands
<1>2. CASE ReadHeader
  <2>1. pipe' \in Seq(Units) /\ Head(pipe) \in Units
    BY <1>2, TailFacts DEF TypeOK, ReadHeader
  <2>2. Head(pipe).size \in 0..MaxPayload
    BY <2>1 DEF Units
  <2>3. left' \in {0, Head(pipe).size}
    BY <1>2 DEF ReadHeader, Ends, Throws
  <2>4. left' \in 0..MaxPayload
    BY <2>2, <2>3
  <2>5. /\ phase' \in {"idle", "payload"} /\ data' = data
        /\ outcome' \in {outcome, "mismatch", "tooLarge", "ok", "refused"}
        /\ derailed' \in {derailed, TRUE}
    BY <1>2 DEF ReadHeader, Ends, Throws
  <2> QED
    BY <1>2, <2>1, <2>4, <2>5 DEF TypeOK, ReadHeader
<1>3. CASE ReadPayload
  <2>1. pipe # <<>> => Tail(pipe) \in Seq(Units) /\ Head(pipe) \in Units
    BY TailFacts DEF TypeOK
  <2>2. pipe # <<>> => Head(pipe).id \in 0..None
    BY <2>1 DEF Units
  <2>3. pipe \in Seq(Units) /\ data \in 0..None /\ left \in 0..MaxPayload
    BY DEF TypeOK
  <2>4. /\ pipe' \in Seq(Units) /\ data' \in 0..None
        /\ phase' \in {"payload", "header"}
    BY <1>3, <2>1, <2>2, <2>3 DEF ReadPayload
  <2>5. left' = left \/ (left > 0 /\ left' = left - 1)
    BY <1>3 DEF ReadPayload
  <2>6. left' \in 0..MaxPayload
    BY <2>3, <2>5
  <2> QED
    BY <1>3, <2>4, <2>6 DEF TypeOK, ReadPayload
<1>4. CASE WriteFileFails
  BY <1>4 DEF TypeOK, WriteFileFails, Ends, Throws
<1>5. CASE ReadTimesOut
  BY <1>5 DEF TypeOK, ReadTimesOut, Ends, Throws
<1>6. CASE SendData
  <2>1. Head(inbox) \in Commands
    BY <1>6, TailFacts DEF TypeOK, SendData
  <2>2. pipe' \in Seq(Units) /\ owed' \in 0..MaxPayload
    BY <1>6, <2>1, AppendFacts DEF TypeOK, SendData
  <2> QED
    BY <1>6, <2>2 DEF TypeOK, SendData
<1>7. CASE SendPiece
  <2>1. Head(inbox) \in Commands
    BY <1>7, TailFacts DEF TypeOK, IdsInv, IdsGiven, SendPiece
  <2>2. pipe' \in Seq(Units) /\ owed' \in 0..MaxPayload
    BY <1>7, <2>1, AppendFacts DEF TypeOK, SendPiece
  <2> QED
    BY <1>7, <2>2 DEF TypeOK, SendPiece
<1>8. CASE SendResponse
  <2>1. Head(inbox) \in Commands /\ inbox' \in Seq(Commands)
    BY <1>8, TailFacts DEF TypeOK, SendResponse
  <2>2. pipe' \in Seq(Units)
    BY <1>8, <2>1, AppendFacts DEF TypeOK, SendResponse
  <2> QED
    BY <1>8, <2>1, <2>2 DEF TypeOK, SendResponse
<1> QED
  BY <1>1, <1>2, <1>3, <1>4, <1>5, <1>6, <1>7, <1>8
     DEF Next, Host, Read, CameraAnswers

\* The elements of a tail and of an appended sequence, where they come from.
LEMMA TailElements ==
    ASSUME NEW S, NEW s \in Seq(S), s # <<>>
    PROVE  /\ \A i \in DOMAIN Tail(s) :
                 i \in Nat /\ i + 1 \in DOMAIN s /\ Tail(s)[i] = s[i + 1]
           /\ 1 \in DOMAIN s /\ Head(s) = s[1]
           /\ \A i \in DOMAIN s : i \in Nat /\ 1 <= i
  BY TailFacts

LEMMA AppendElements ==
    ASSUME NEW S, NEW s \in Seq(S), NEW e \in S
    PROVE  /\ \A i \in DOMAIN s : i \in Nat
           /\ \A i \in DOMAIN Append(s, e) : i \in Nat
           /\ \A i \in DOMAIN Append(s, e) : i \notin DOMAIN s => Append(s, e)[i] = e
           /\ \A i \in DOMAIN Append(s, e), j \in DOMAIN Append(s, e) :
                 i < j => i \in DOMAIN s
           /\ \A i \in DOMAIN s : i \in DOMAIN Append(s, e) /\ Append(s, e)[i] = s[i]
  BY AppendFacts

\* The ids of everything under way are numbers.
LEMMA IdTypes ==
    ASSUME TypeOK
    PROVE  /\ \A i \in DOMAIN pipe : i \in Nat /\ pipe[i].id \in Nat
           /\ \A j \in DOMAIN inbox : j \in Nat /\ inbox[j].id \in Nat
           /\ transactionId \in Nat /\ command.id \in Nat /\ owed \in Nat
           /\ pipe \in Seq(Units) /\ inbox \in Seq(Commands)
<1>1. /\ pipe \in Seq(Units) /\ inbox \in Seq(Commands)
      /\ transactionId \in 0..MaxTransactions /\ command.id \in 0..None
      /\ owed \in 0..MaxPayload
  BY DEF TypeOK
<1>2. \A u \in Units : u.id \in Nat
  BY PtpBounds DEF Units, None
<1>3. \A c \in Commands : c.id \in Nat
  BY PtpBounds DEF Commands
<1>4. None \in Nat /\ MaxTransactions \in Nat /\ MaxPayload \in Nat
  BY PtpBounds DEF None
<1>5. \A i \in DOMAIN pipe : i \in Nat /\ pipe[i] \in Units
  BY <1>1, LenProperties
<1>6. \A j \in DOMAIN inbox : j \in Nat /\ inbox[j] \in Commands
  BY <1>1, LenProperties
<1> QED
  BY <1>1, <1>2, <1>3, <1>4, <1>5, <1>6

\* Every step keeps the ids in order.
LEMMA IdsStep ==
    ASSUME TypeOK, IdsInv, Next
    PROVE  IdsInv'
<1> USE PtpBounds, IdTypes DEF IdsInv
<1>1. CASE WriteCommand
  <2>1. /\ command'.id = transactionId /\ transactionId' = transactionId + 1
        /\ command' \in Commands /\ pipe' = pipe /\ owed' = owed
        /\ phase' # "payload"
    BY <1>1 DEF WriteCommand, Commands
  <2>2. inbox' = inbox \/ inbox' = Append(inbox, command')
    BY <1>1 DEF WriteCommand
  <2>3. /\ \A j \in DOMAIN inbox' :
              \/ j \in DOMAIN inbox /\ inbox'[j] = inbox[j]
              \/ inbox'[j] = command'
        /\ \A i, j \in DOMAIN inbox' :
              i < j => i \in DOMAIN inbox /\ inbox'[i] = inbox[i]
    <3>1. CASE inbox' = inbox
      BY <3>1
    <3>2. CASE inbox' = Append(inbox, command')
      BY <2>1, <3>2, AppendElements
    <3> QED
      BY <2>2, <3>1, <3>2
  <2>4. inbox # <<>> => inbox' # <<>>
    BY <2>1, <2>2, AppendFacts
  <2>5. /\ command'.id = IF transactionId' = 0 THEN None ELSE transactionId' - 1
        /\ transactionId' > 0
    BY <2>1
  <2>6. IdsGiven'
    BY <2>1, <2>3, <2>4, <2>5 DEF IdsGiven
  <2>7. \A i, j \in DOMAIN inbox' : i < j => inbox'[i].id <= inbox'[j].id
    BY <2>1, <2>3 DEF IdsGiven, IdsInOrder
  <2>8. \A i \in DOMAIN pipe, j \in DOMAIN inbox' : pipe[i].id <= inbox'[j].id
    BY <2>1, <2>3 DEF IdsGiven, IdsInOrder
  <2>9. IdsInOrder'
    BY <2>1, <2>7, <2>8 DEF IdsInOrder
  <2> QED
    BY <2>1, <2>6, <2>9 DEF OwnPayload
<1>2. CASE ReadHeader \/ ReadPayload
  <2>1. /\ UNCHANGED <<transactionId, command, inbox, owed>> /\ phase # "idle"
        /\ pipe' = pipe \/ (pipe # <<>> /\ pipe' = Tail(pipe))
        /\ phase' = "payload" /\ phase # "payload" =>
              pipe # <<>> /\ Head(pipe).id = command.id
    BY <1>2 DEF ReadHeader, ReadPayload, Ends, Throws
  <2>2. \A i \in DOMAIN pipe' :
           \/ i \in DOMAIN pipe /\ pipe'[i] = pipe[i] /\ pipe' = pipe
           \/ i + 1 \in DOMAIN pipe /\ pipe'[i] = pipe[i + 1] /\ i \in Nat /\ pipe' # pipe
    BY <2>1, TailElements
  <2>3. IdsGiven'
    BY <2>1, <2>2 DEF IdsGiven
  <2>4. IdsInOrder'
    <3>1. CASE pipe' = pipe
      BY <2>1, <3>1 DEF IdsInOrder
    <3>2. CASE pipe' # pipe
      <4>1. \A i \in DOMAIN pipe' :
               i + 1 \in DOMAIN pipe /\ pipe'[i] = pipe[i + 1] /\ i \in Nat
        BY <3>2, <2>2
      <4>2. \A i, j \in DOMAIN pipe' : i < j => pipe'[i].id <= pipe'[j].id
        <5> SUFFICES ASSUME NEW i \in DOMAIN pipe', NEW j \in DOMAIN pipe', i < j
                     PROVE  pipe'[i].id <= pipe'[j].id
          OBVIOUS
        <5>1. /\ i + 1 \in DOMAIN pipe /\ j + 1 \in DOMAIN pipe /\ i + 1 < j + 1
              /\ pipe'[i] = pipe[i + 1] /\ pipe'[j] = pipe[j + 1]
          BY <4>1
        <5>2. pipe[i + 1].id <= pipe[j + 1].id
          BY <5>1 DEF IdsInOrder
        <5> QED
          BY <5>1, <5>2
      <4> QED
        BY <2>1, <4>1, <4>2 DEF IdsInOrder
    <3> QED
      BY <3>1, <3>2
  <2>5. phase' = "payload" =>
           /\ \A i \in DOMAIN pipe : pipe[i].id = command.id
           /\ \A j \in DOMAIN inbox : inbox[j].id = command.id
    <3>1. CASE phase = "payload"
      BY <3>1 DEF OwnPayload
    <3>2. CASE phase # "payload" /\ phase' = "payload"
      <4>1. 1 \in DOMAIN pipe /\ pipe[1].id = command.id /\ \A i \in DOMAIN pipe : 1 <= i
        BY <2>1, <3>2, TailElements
      <4>2. command.id = transactionId - 1
        BY <2>1 DEF IdsGiven
      <4>3. /\ \A i \in DOMAIN pipe : pipe[1].id <= pipe[i].id
            /\ \A j \in DOMAIN inbox : pipe[1].id <= inbox[j].id
        BY <4>1 DEF IdsInOrder
      <4>4. \A n \in Nat : command.id <= n /\ n < transactionId => n = command.id
        BY <4>2
      <4>5. \A i \in DOMAIN pipe : pipe[i].id = command.id
        BY <4>1, <4>3, <4>4 DEF IdsGiven
      <4>6. \A j \in DOMAIN inbox : inbox[j].id = command.id
        BY <4>1, <4>3, <4>4 DEF IdsGiven
      <4> QED
        BY <4>5, <4>6
    <3> QED
      BY <3>1, <3>2
  <2>6. OwnPayload'
    BY <2>1, <2>2, <2>5 DEF OwnPayload
  <2> QED
    BY <2>3, <2>4, <2>6
<1>3. CASE WriteFileFails \/ ReadTimesOut
  BY <1>3 DEF IdsGiven, IdsInOrder, OwnPayload, WriteFileFails, ReadTimesOut, Ends,
              Throws
<1>4. CASE SendData \/ SendPiece \/ SendResponse
  <2>1. inbox # <<>>
    BY <1>4 DEF SendData, SendPiece, SendResponse, IdsGiven
  <2>2. 1 \in DOMAIN inbox /\ Head(inbox) = inbox[1] /\ Head(inbox) \in Commands
    BY <2>1, TailElements, TailFacts
  <2>3. PICK e \in Units : pipe' = Append(pipe, e) /\ e.id = Head(inbox).id
    <3>1. CASE SendData
      BY <3>1, <2>2, UnitTypes DEF SendData, Header
    <3>2. CASE SendPiece
      BY <3>2, <2>2, UnitTypes DEF SendPiece, Piece
    <3>3. CASE SendResponse
      BY <3>3, <2>2, UnitTypes DEF SendResponse, Response
    <3> QED
      BY <1>4, <3>1, <3>2, <3>3
  <2>4. /\ \A i \in DOMAIN pipe' :
              i \in Nat /\ ((i \in DOMAIN pipe /\ pipe'[i] = pipe[i]) \/ pipe'[i] = e)
        /\ \A i, j \in DOMAIN pipe' :
              i < j => i \in DOMAIN pipe /\ pipe'[i] = pipe[i]
    BY <2>3, AppendElements
  <2>5. UNCHANGED <<transactionId, command, phase>>
    BY <1>4 DEF SendData, SendPiece, SendResponse
  <2>6. /\ owed' > 0 => inbox' # <<>>
        /\ \A j \in DOMAIN inbox' :
              \/ j \in DOMAIN inbox /\ inbox'[j] = inbox[j]
              \/ j \in Nat /\ j + 1 \in DOMAIN inbox /\ inbox'[j] = inbox[j + 1]
        /\ inbox' = inbox \/ inbox' = Tail(inbox)
    <3>1. CASE SendResponse
      BY <3>1, <2>1, TailElements DEF SendResponse
    <3>2. CASE SendData \/ SendPiece
      BY <3>2, <2>1 DEF SendData, SendPiece
    <3> QED
      BY <1>4, <3>1, <3>2
  <2>7. \A j \in DOMAIN inbox : 1 <= j /\ inbox[1].id <= inbox[j].id
    BY <2>1, <2>2, TailElements DEF IdsInOrder
  <2>8. IdsGiven'
    BY <2>2, <2>3, <2>4, <2>5, <2>6 DEF IdsGiven
  <2>9. \A i, j \in DOMAIN inbox' : i < j => inbox'[i].id <= inbox'[j].id
    <3>1. CASE inbox' = inbox
      BY <3>1 DEF IdsInOrder
    <3>2. CASE inbox' = Tail(inbox)
      <4>1. \A j \in DOMAIN inbox' :
               j \in Nat /\ j + 1 \in DOMAIN inbox /\ inbox'[j] = inbox[j + 1]
        BY <2>1, <3>2, TailElements
      <4> QED
        BY <4>1 DEF IdsInOrder
    <3> QED
      BY <2>6, <3>1, <3>2
  <2>10. \A i \in DOMAIN pipe : pipe[i].id <= e.id
    BY <2>2, <2>3 DEF IdsInOrder
  <2>11. \A j \in DOMAIN inbox' : inbox'[j].id \in Nat /\ e.id <= inbox'[j].id
    BY <2>2, <2>3, <2>6, <2>7
  <2>12. \A i, j \in DOMAIN pipe' : i < j => pipe'[i].id <= pipe'[j].id
    <3> SUFFICES ASSUME NEW i \in DOMAIN pipe', NEW j \in DOMAIN pipe', i < j
                 PROVE  pipe'[i].id <= pipe'[j].id
      OBVIOUS
    <3>1. i \in DOMAIN pipe /\ pipe'[i] = pipe[i]
      BY <2>4
    <3>2. CASE j \in DOMAIN pipe /\ pipe'[j] = pipe[j]
      BY <3>1, <3>2 DEF IdsInOrder
    <3>3. CASE pipe'[j] = e
      BY <3>1, <3>3, <2>10
    <3> QED
      BY <2>4, <3>2, <3>3
  <2>13. \A i \in DOMAIN pipe', j \in DOMAIN inbox' : pipe'[i].id <= inbox'[j].id
    <3> SUFFICES ASSUME NEW i \in DOMAIN pipe', NEW j \in DOMAIN inbox'
                 PROVE  pipe'[i].id <= inbox'[j].id
      OBVIOUS
    <3>1. CASE i \in DOMAIN pipe /\ pipe'[i] = pipe[i]
      BY <2>6, <3>1 DEF IdsInOrder
    <3>2. CASE pipe'[i] = e
      BY <3>2, <2>11
    <3> QED
      BY <2>4, <3>1, <3>2
  <2>14. IdsInOrder'
    BY <2>9, <2>12, <2>13 DEF IdsInOrder
  <2>15. OwnPayload'
    BY <2>2, <2>3, <2>4, <2>5, <2>6 DEF OwnPayload
  <2> QED
    BY <2>8, <2>14, <2>15
<1> QED
  BY <1>1, <1>2, <1>3, <1>4 DEF Next, Host, Read, CameraAnswers

\* Every step keeps what was read to the command's own answer.
LEMMA DataStep ==
    ASSUME TypeOK, IdsInv, data \in {None, command.id}, Next
    PROVE  data' \in {None, command'.id}
<1>1. CASE WriteCommand
  BY <1>1 DEF WriteCommand
<1>2. CASE ReadPayload
  <2>1. pipe # <<>> => Head(pipe).id = command.id
    BY <1>2, IdTypes, TailElements DEF IdsInv, OwnPayload, ReadPayload
  <2> QED
    BY <1>2, <2>1 DEF ReadPayload
<1>3. CASE ReadHeader
  BY <1>3 DEF ReadHeader
<1>4. CASE WriteFileFails \/ ReadTimesOut \/ SendData \/ SendPiece \/ SendResponse
  BY <1>4 DEF WriteFileFails, ReadTimesOut, SendData, SendPiece, SendResponse
<1> QED
  BY <1>1, <1>2, <1>3, <1>4 DEF Next, Host, Read, CameraAnswers

\* The facts about the sizes that the steps below use.
LEMMA SizeTypes ==
    ASSUME TypeOK, IdsInv
    PROVE  /\ Len(pipe) \in Nat /\ Len(inbox) \in Nat /\ owed \in Nat /\ left \in Nat
           /\ inbox = <<>> <=> Len(inbox) = 0
           /\ pipe = <<>> <=> Len(pipe) = 0
           /\ inbox = <<>> => owed = 0
           /\ \A i \in 1..Len(pipe) : pipe[i].size \in Nat
           /\ Responded = IF Len(inbox) = 0 THEN 1 ELSE 0
<1>1. /\ pipe \in Seq(Units) /\ inbox \in Seq(Commands)
      /\ owed \in 0..MaxPayload /\ left \in 0..MaxPayload
  BY DEF TypeOK
<1>2. \A u \in Units : u.size \in Nat
  BY PtpBounds DEF Units
<1>3. /\ Len(pipe) \in Nat /\ Len(inbox) \in Nat
      /\ inbox = <<>> <=> Len(inbox) = 0
      /\ pipe = <<>> <=> Len(pipe) = 0
      /\ \A i \in 1..Len(pipe) : pipe[i] \in Units
  BY <1>1, EmptySeq, LenProperties, ElementOfSeq
<1>4. owed \in Nat /\ left \in Nat
  BY <1>1, PtpBounds
<1>5. inbox = <<>> => owed = 0
  BY <1>4 DEF IdsInv, IdsGiven
<1> QED
  BY <1>2, <1>3, <1>4, <1>5 DEF Responded

\* Reading keeps to the rest of the answer.
LEMMA ReadRest ==
    ASSUME TypeOK, IdsInv, StepInv, ReadHeader \/ ReadPayload, ~derailed'
    PROVE  StepInv'
<1> USE SizeTypes
<1>1. /\ ~derailed /\ UNCHANGED <<inbox, dataSent, owed>>
      /\ phase \in {"header", "payload"} /\ Responded' = Responded
  BY DEF ReadHeader, ReadPayload, Ends, Throws, TypeOK, Responded
<1>2. pipe # <<>> =>
         /\ Len(Tail(pipe)) = Len(pipe) - 1 /\ Head(pipe) = pipe[1]
         /\ \A i \in 1..Len(pipe) - 1 : Tail(pipe)[i] = pipe[i + 1]
         /\ Len(pipe) = 1 => Tail(pipe) = <<>>
  BY TailFacts DEF TypeOK
<1>3. CASE AnswerBegins
  <2>1. /\ phase' = "payload" /\ left' = pipe[1].size /\ pipe' = Tail(pipe)
    BY <1>1, <1>2, <1>3 DEF AnswerBegins, ReadHeader, ReadPayload, Throws
  <2>2. pipe # <<>> /\ Rest(2, pipe[1].size) /\ pipe[1].size \in Nat
    BY <1>3 DEF AnswerBegins
  <2>3. Rest(1, left)'
    BY <1>1, <1>2, <2>1, <2>2 DEF Rest
  <2> QED
    BY <2>1, <2>3 DEF StepInv, Copying
<1>4. CASE AnswerEnds
  <2>1. phase' = "idle" /\ pipe' = Tail(pipe)
    BY <1>1, <1>2, <1>4 DEF AnswerEnds, Codes, ReadHeader, ReadPayload, Ends, Throws
  <2> QED
    BY <1>1, <1>2, <1>4, <2>1 DEF StepInv, Between, AnswerEnds
<1>5. CASE Copying /\ left > 0
  <2>1. /\ phase' = "payload" /\ left' = left - 1 /\ pipe' = Tail(pipe) /\ pipe # <<>>
    BY <1>5 DEF Copying, ReadHeader, ReadPayload
  <2>2. Rest(1, left)'
    BY <1>1, <1>2, <1>5, <2>1 DEF Copying, Rest
  <2> QED
    BY <2>1, <2>2 DEF StepInv, Copying
<1>6. CASE Copying /\ left = 0
  <2>1. phase' = "header" /\ pipe' = pipe
    BY <1>6 DEF Copying, ReadHeader, ReadPayload
  <2>2. /\ Responded = Len(pipe) + owed /\ Len(inbox) <= 1
        /\ inbox = <<>> => pipe[Len(pipe)].unit \in Codes
    BY <1>6 DEF Copying, Rest
  <2>3. CASE inbox = <<>>
    <3>1. Len(pipe) = 1
      BY <2>3, <2>2
    <3>2. pipe[1].unit \in Codes
      BY <2>3, <2>2, <3>1
    <3> QED
      BY <1>1, <2>1, <2>3, <3>1, <3>2 DEF StepInv, AnswerEnds
  <2>4. CASE inbox # <<>>
    <3>1. Len(pipe) = 0 /\ owed = 0 /\ Len(inbox) = 1
      BY <2>4, <2>2
    <3> QED
      BY <1>1, <2>1, <3>1 DEF StepInv, Awaiting
  <2> QED
    BY <2>3, <2>4
<1>7. CASE Between \/ Awaiting
  BY <1>7 DEF Between, Awaiting, ReadHeader, ReadPayload
<1> QED
  BY <1>1, <1>3, <1>4, <1>5, <1>6, <1>7 DEF StepInv, Copying

\* The camera's sending keeps to the rest of the answer.
LEMMA SendRest ==
    ASSUME TypeOK, IdsInv, StepInv, CameraAnswers, ~derailed'
    PROVE  StepInv'
<1> USE SizeTypes
<1>1. /\ ~derailed /\ UNCHANGED <<phase, left>> /\ inbox # <<>>
      /\ Len(inbox) \in Nat \ {0} /\ Responded = 0
  BY DEF CameraAnswers, SendData, SendPiece, SendResponse, IdsInv, IdsGiven
<1>2. Head(inbox) \in Commands
  BY <1>1, TailFacts DEF TypeOK
<1>3. PICK e \in Units :
         /\ pipe' = Append(pipe, e)
         /\ \/ /\ SendData /\ e.unit = "data" /\ owed' = e.size /\ dataSent'
               /\ inbox' = inbox /\ ~dataSent
            \/ /\ SendPiece /\ e.unit = "payload" /\ owed' = owed - 1 /\ owed > 0
               /\ UNCHANGED <<inbox, dataSent>>
            \/ /\ SendResponse /\ e.unit \in Codes /\ UNCHANGED owed /\ owed = 0
               /\ inbox' = Tail(inbox)
  <2>1. CASE SendData
    BY <1>2, <2>1, UnitTypes DEF SendData, Header
  <2>2. CASE SendPiece
    BY <1>2, <2>2, UnitTypes DEF SendPiece, Piece
  <2>3. CASE SendResponse
    BY <1>2, <2>3, UnitTypes DEF SendResponse, Response, Codes
  <2> QED
    BY <2>1, <2>2, <2>3 DEF CameraAnswers
<1>4. /\ Len(pipe') = Len(pipe) + 1 /\ pipe' # <<>>
      /\ \A i \in 1..Len(pipe) : pipe'[i] = pipe[i]
      /\ pipe'[Len(pipe) + 1] = e
  BY <1>3, AppendFacts DEF TypeOK
<1>5. Len(inbox) = 1 => Tail(inbox) = <<>>
  BY <1>1, TailFacts DEF TypeOK
<1>6. Responded' = IF inbox' = <<>> THEN 1 ELSE 0
  BY DEF Responded
<1>7. ASSUME NEW first \in Nat \ {0}, NEW pieces \in Nat, Rest(first, pieces),
             first <= Len(pipe) + 1
      PROVE  Rest(first, pieces)'
  <2>1. Len(inbox) = 1 /\ dataSent /\ pieces = Len(pipe) + 1 - first + owed
    <3>1. Len(inbox) <= 1 /\ pieces + Responded = Len(pipe) + 1 - first + owed
      BY <1>7 DEF Rest
    <3>2. dataSent
      BY <1>1, <1>7, Zenon DEF Rest
    <3>3. Len(inbox) = 1
      <4>1. \A n \in Nat \ {0} : n <= 1 => n = 1
        OBVIOUS
      <4> QED
        BY <1>1, <3>1, <4>1, Zenon
    <3>4. pieces = Len(pipe) + 1 - first + owed
      BY <1>1, <1>7, <3>1
    <3> QED
      BY <3>2, <3>3, <3>4
  <2>2. \A i \in first..Len(pipe) : pipe[i].unit = "payload"
    <3>1. \A i \in first..Len(pipe) - Responded : pipe[i].unit = "payload"
      BY <1>7 DEF Rest
    <3>2. Len(pipe) - Responded = Len(pipe)
      BY <1>1
    <3> QED
      BY <3>1, <3>2
  <2>3. CASE SendPiece
    <3>1. /\ e.unit = "payload" /\ owed' = owed - 1 /\ inbox' = inbox
          /\ dataSent' = dataSent /\ Responded' = 0 /\ inbox' # <<>>
      BY <1>1, <1>3, <1>6, <2>3 DEF SendPiece, SendData, SendResponse
    <3>2. \A i \in first..Len(pipe') : pipe'[i].unit = "payload"
      BY <1>4, <2>2, <3>1
    <3>3. /\ pieces + Responded' = Len(pipe') + 1 - first + owed'
          /\ Len(pipe') - Responded' = Len(pipe')
      BY <1>4, <2>1, <3>1
    <3>4. \A i \in first..Len(pipe') - Responded' : pipe'[i].unit = "payload"
      BY <3>2, <3>3
    <3>5. Len(inbox') <= 1
      <4>1. Len(inbox') = 1
        BY <2>1, <3>1, Zenon
      <4> QED
        BY <4>1
    <3>6. dataSent' /\ (inbox' = <<>> => FALSE)
      BY <2>1, <3>1, Zenon
    <3> QED
      BY <3>3, <3>4, <3>5, <3>6, Zenon DEF Rest
  <2>4. CASE SendResponse
    <3>1. /\ e.unit \in Codes /\ owed' = owed /\ owed = 0 /\ inbox' = <<>>
          /\ Responded' = 1 /\ Len(inbox') = 0
      BY <1>1, <1>3, <1>5, <1>6, <2>1, <2>4, EmptySeq DEF SendResponse, SendPiece, SendData
    <3>2. \A i \in first..Len(pipe') - 1 : pipe'[i].unit = "payload"
      BY <1>4, <2>2
    <3>3. pieces + 1 = Len(pipe') + 1 - first + owed'
      BY <1>4, <2>1, <3>1
    <3>4. pipe'[Len(pipe')].unit \in Codes
      BY <1>4, <3>1
    <3> QED
      BY <3>1, <3>2, <3>3, <3>4 DEF Rest
  <2> QED
    BY <1>3, <2>1, <2>3, <2>4
<1>8. CASE AnswerBegins
  <2>1. pipe # <<>> /\ Rest(2, pipe[1].size) /\ pipe[1].size \in Nat
    BY <1>8 DEF AnswerBegins
  <2>2. pipe'[1] = pipe[1]
    BY <1>4, <2>1
  <2>3. Rest(2, pipe[1].size)'
    BY <1>4, <1>7, <2>1, <2>2
  <2> QED
    BY <1>1, <1>4, <1>8, <2>2, <2>3 DEF StepInv, AnswerBegins
<1>9. CASE Copying
  <2>1. Rest(1, left)'
    BY <1>1, <1>7, <1>9 DEF Copying
  <2> QED
    BY <1>1, <1>9, <2>1 DEF StepInv, Copying
<1>10. CASE Awaiting
  <2>1. Len(pipe) = 0 /\ Len(inbox) = 1 /\ owed = 0 /\ phase' = "header"
    BY <1>1, <1>10 DEF Awaiting
  <2>2. pipe'[1] = e /\ Len(pipe') = 1
    BY <1>4, <2>1
  <2>3. CASE SendData
    <3>1. /\ e.unit = "data" /\ owed' = e.size /\ dataSent' /\ inbox' = inbox
          /\ Responded' = 0 /\ inbox' # <<>> /\ Len(inbox') = 1
      BY <1>1, <1>3, <1>6, <2>1, <2>3 DEF SendData, SendPiece, SendResponse
    <3>2. e.size \in Nat
      BY PtpBounds DEF Units
    <3>3. Rest(2, e.size)'
      BY <2>2, <3>1, <3>2 DEF Rest
    <3> QED
      BY <1>4, <2>1, <2>2, <3>1, <3>3 DEF StepInv, AnswerBegins
  <2>4. CASE SendResponse
    BY <1>3, <1>5, <2>1, <2>2, <2>4 DEF SendResponse, SendData, SendPiece, StepInv, AnswerEnds
  <2> QED
    BY <1>3, <2>1, <2>3, <2>4
<1> QED
  BY <1>1, <1>8, <1>9, <1>10 DEF StepInv, Between, AnswerEnds

\* Every step keeps what is under way the rest of one answer.
LEMMA RestStep ==
    ASSUME TypeOK, IdsInv, StepInv, Next
    PROVE  StepInv'
<1>1. CASE WriteCommand
  <2>1. derailed' = derailed /\ pipe' = pipe /\ owed' = owed /\ phase = "idle"
    BY <1>1 DEF WriteCommand
  <2>2. CASE Between /\ ~derailed
    <3>1. owed = 0 /\ inbox = <<>> /\ pipe = <<>> /\ inbox \in Seq(Commands)
      BY <2>2, SizeTypes DEF Between, TypeOK
    <3>2. /\ \/ inbox' = Append(inbox, command') /\ phase' = "header"
             \/ inbox' = inbox /\ phase' = "idle"
      BY <1>1 DEF WriteCommand
    <3>3. Len(Append(inbox, command')) = 1
      BY <3>1, EmptySeq
    <3> QED
      BY <2>1, <3>1, <3>2, <3>3 DEF StepInv, Awaiting, Between
  <2> QED
    BY <2>1, <2>2 DEF StepInv, Awaiting, AnswerBegins, AnswerEnds, Copying
<1>2. CASE ReadHeader \/ ReadPayload
  BY <1>2, ReadRest DEF StepInv
<1>3. CASE WriteFileFails \/ ReadTimesOut
  BY <1>3 DEF WriteFileFails, ReadTimesOut, Throws, StepInv
<1>4. CASE CameraAnswers
  BY <1>4, SendRest DEF StepInv
<1> QED
  BY <1>1, <1>2, <1>3, <1>4 DEF Next, Host, Read

\* Reading shifts every place by one.
LEMMA ReadWhole ==
    ASSUME TypeOK, IdsInv, WholeInv, ReadHeader \/ ReadPayload
    PROVE  WholeInv'
<1> USE SizeTypes
<1>1. /\ UNCHANGED <<inbox, dataSent, owed>> /\ DOMAIN pipe = 1..Len(pipe)
  BY LenProperties DEF ReadHeader, ReadPayload, TypeOK
<1>2. CASE phase' # "payload" /\ pipe' = pipe
  BY <1>1, <1>2 DEF WholeInv, Whole
<1>3. CASE pipe # <<>> /\ pipe' = Tail(pipe)
  <2>1. /\ Len(pipe) \in Nat \ {0} /\ Len(pipe') = Len(pipe) - 1 /\ Head(pipe) = pipe[1]
        /\ \A i \in 1..Len(pipe) - 1 : pipe'[i] = pipe[i + 1]
        /\ DOMAIN pipe' = 1..Len(pipe) - 1
    BY <1>3, TailFacts DEF TypeOK
  <2>2. ASSUME NEW at \in Nat, NEW n \in Nat, Whole(at + 1, n)
        PROVE  Whole(at, n)'
    <3>1. ASSUME NEW k \in at + 1..at + n, k <= Len(pipe')
          PROVE  pipe'[k].unit = "payload"
      <4>1. k + 1 \in (at + 1) + 1..(at + 1) + n /\ k + 1 <= Len(pipe)
            /\ k \in 1..Len(pipe) - 1
        BY <2>1, <3>1
      <4>2. pipe[k + 1].unit = "payload"
        BY <2>2, <4>1 DEF Whole
      <4> QED
        BY <2>1, <4>1, <4>2
    <3>2. ASSUME at + n < Len(pipe') PROVE pipe'[at + n + 1].unit \in Codes
      <4>1. /\ (at + 1) + n < Len(pipe) /\ at + n + 1 \in 1..Len(pipe) - 1
            /\ (at + n + 1) + 1 = (at + 1) + n + 1
        BY <2>1, <3>2
      <4>2. pipe[(at + 1) + n + 1].unit \in Codes
        BY <2>2, <4>1 DEF Whole
      <4> QED
        BY <2>1, <4>1, <4>2
    <3>3. ASSUME at + n >= Len(pipe') PROVE dataSent' /\ owed' = at + n - Len(pipe')
      <4>1. /\ (at + 1) + n >= Len(pipe)
            /\ (at + 1) + n - Len(pipe) = at + n - Len(pipe')
        BY <2>1, <3>3
      <4> QED
        BY <1>1, <2>2, <4>1 DEF Whole
    <3> QED
      BY <3>1, <3>2, <3>3 DEF Whole
  <2>3. ASSUME NEW i \in DOMAIN pipe', pipe'[i].unit = "data",
               NEW n \in Nat, n = pipe'[i].size
        PROVE  Whole(i, n)'
    <3>1. /\ i \in Nat /\ i + 1 \in DOMAIN pipe /\ pipe[i + 1].unit = "data"
          /\ pipe[i + 1].size = n
      BY <1>1, <2>1, <2>3
    <3>2. Whole(i + 1, n)
      BY <3>1 DEF WholeInv
    <3> QED
      BY <2>2, <3>1, <3>2
  <2>4. \A i \in DOMAIN pipe' : pipe'[i].size \in Nat
    BY <1>1, <2>1
  <2>5. ASSUME phase' = "payload", NEW n \in Nat, n = left'
        PROVE  Whole(0, n)'
    <3>1. Whole(1, n)
      <4>1. CASE ReadHeader
        <5>1. pipe[1].unit = "data" /\ pipe[1].size = n /\ 1 \in DOMAIN pipe
          BY <1>1, <2>1, <2>5, <4>1 DEF ReadHeader, Throws, Ends
        <5> QED
          BY <5>1 DEF WholeInv
      <4>2. CASE ReadPayload
        <5>1. phase = "payload" /\ left = n + 1
          BY <1>3, <2>1, <2>5, <4>2 DEF ReadPayload
        <5>2. Whole(0, left) 
          BY <5>1 DEF WholeInv
        <5> QED
          BY <2>1, <5>1, <5>2 DEF Whole
      <4> QED
        BY <4>1, <4>2
    <3> QED
      BY <2>2, <3>1
  <2>6. phase' = "payload" => left' \in Nat
    BY <1>1, <1>3, <2>1 DEF ReadHeader, ReadPayload, Throws, Ends
  <2> HIDE <2>1
  <2> QED
    BY <2>3, <2>4, <2>5, <2>6 DEF WholeInv, Whole
<1>4. \/ phase' # "payload" /\ pipe' = pipe
      \/ pipe # <<>> /\ pipe' = Tail(pipe)
  BY DEF ReadHeader, ReadPayload
<1> QED
  BY <1>2, <1>3, <1>4

\* Sending adds the next piece of what is owed, or what comes after a whole answer.
LEMMA SendWhole ==
    ASSUME TypeOK, IdsInv, WholeInv, CameraAnswers
    PROVE  WholeInv'
<1> USE SizeTypes
<1>1. inbox # <<>> /\ UNCHANGED <<phase, left>>
  BY DEF CameraAnswers, SendData, SendPiece, SendResponse, IdsInv, IdsGiven
<1>2. Head(inbox) \in Commands
  BY <1>1, TailFacts DEF TypeOK
<1>3. PICK e \in Units :
         /\ pipe' = Append(pipe, e)
         /\ \/ /\ e.unit = "data" /\ owed' = e.size /\ dataSent' /\ ~dataSent
            \/ /\ e.unit = "payload" /\ owed' = owed - 1 /\ owed > 0
               /\ (dataSent => dataSent')
            \/ /\ e.unit \in Codes /\ UNCHANGED owed /\ owed = 0
  <2>1. CASE SendData
    BY <1>2, <2>1, UnitTypes DEF SendData, Header
  <2>2. CASE SendPiece
    BY <1>2, <2>2, UnitTypes DEF SendPiece, Piece
  <2>3. CASE SendResponse
    BY <1>2, <2>3, UnitTypes DEF SendResponse, Response, Codes
  <2> QED
    BY <2>1, <2>2, <2>3 DEF CameraAnswers
<1>4. /\ Len(pipe') = Len(pipe) + 1 /\ DOMAIN pipe = 1..Len(pipe)
      /\ DOMAIN pipe' = 1..Len(pipe) + 1
      /\ \A i \in 1..Len(pipe) : pipe'[i] = pipe[i]
      /\ pipe'[Len(pipe) + 1] = e
  BY <1>3, AppendFacts DEF TypeOK
<1>5. ASSUME NEW at \in Nat, NEW n \in Nat, at <= Len(pipe), Whole(at, n)
      PROVE  Whole(at, n)'
  <2>1. CASE at + n < Len(pipe)
    <3>1. /\ \A k \in at + 1..at + n : k \in 1..Len(pipe) /\ pipe[k].unit = "payload"
          /\ at + n + 1 \in 1..Len(pipe) /\ pipe[at + n + 1].unit \in Codes
      BY <1>5, <2>1 DEF Whole
    <3> QED
      BY <1>4, <2>1, <3>1 DEF Whole
  <2>2. CASE at + n = Len(pipe)
    <3>1. dataSent /\ owed = 0
      BY <1>5, <2>2 DEF Whole
    <3>2. e.unit \in Codes
      BY <1>3, <3>1
    <3>3. \A k \in at + 1..at + n : k \in 1..Len(pipe) /\ pipe[k].unit = "payload"
      BY <1>5, <2>2 DEF Whole
    <3> QED
      BY <1>4, <2>2, <3>2, <3>3 DEF Whole
  <2>3. CASE at + n > Len(pipe)
    <3>1. dataSent /\ owed = at + n - Len(pipe)
      BY <1>5, <2>3 DEF Whole
    <3>2. owed > 0 /\ owed # 0
      BY <2>3, <3>1
    <3>3. e.unit = "payload" /\ owed' = owed - 1 /\ dataSent'
      BY <1>3, <3>1, <3>2, Zenon
    <3>4. \A k \in at + 1..at + n :
             k <= Len(pipe) => k \in 1..Len(pipe) /\ pipe[k].unit = "payload"
      BY <1>5, <2>3 DEF Whole
    <3>5. \A k \in at + 1..at + n :
             k <= Len(pipe) + 1 => pipe'[k].unit = "payload"
      BY <1>4, <3>3, <3>4
    <3>6. owed' = at + n - Len(pipe') /\ ~(at + n < Len(pipe'))
      BY <1>4, <2>3, <3>1, <3>3
    <3>7. \A k \in at + 1..at + n : k <= Len(pipe') => pipe'[k].unit = "payload"
      BY <1>4, <3>5
    <3> QED
      BY <3>3, <3>6, <3>7, Zenon DEF Whole
  <2> QED
    BY <1>5, <2>1, <2>2, <2>3
<1>6. ASSUME NEW i \in DOMAIN pipe', pipe'[i].unit = "data",
             NEW n \in Nat, n = pipe'[i].size
      PROVE  Whole(i, n)'
  <2>1. CASE i \in DOMAIN pipe
    <3>1. Whole(i, n)
      BY <1>4, <1>6, <2>1 DEF WholeInv
    <3> QED
      BY <1>4, <1>5, <2>1, <3>1
  <2>2. CASE i = Len(pipe) + 1
    <3>1. e.unit = "data" /\ e.size = n
      BY <1>4, <1>6, <2>2
    <3>2. owed' = n /\ dataSent'
      BY <1>3, <3>1 DEF Codes
    <3> QED
      BY <1>4, <2>2, <3>2 DEF Whole
  <2> QED
    BY <1>4, <2>1, <2>2
<1>7. \A i \in DOMAIN pipe' : pipe'[i].size \in Nat
  BY <1>3, <1>4, PtpBounds DEF Units
<1>8. ASSUME phase' = "payload", NEW n \in Nat, n = left'
      PROVE  Whole(0, n)'
  <2>1. Whole(0, n)
    BY <1>1, <1>8 DEF WholeInv
  <2> QED
    BY <1>5, <2>1
<1> HIDE <1>4
<1> QED
  BY <1>1, <1>6, <1>7, <1>8 DEF WholeInv, Whole

\* Every step leaves answers whole.
LEMMA WholeStep ==
    ASSUME TypeOK, IdsInv, WholeInv, Next
    PROVE  WholeInv'
<1>1. CASE WriteCommand \/ WriteFileFails \/ ReadTimesOut
  BY <1>1 DEF WriteCommand, WriteFileFails, ReadTimesOut, Throws, Ends, WholeInv, Whole
<1>2. CASE ReadHeader \/ ReadPayload
  BY <1>2, ReadWhole
<1>3. CASE CameraAnswers
  BY <1>3, SendWhole
<1> QED
  BY <1>1, <1>2, <1>3 DEF Next, Host, Read

\* Every step keeps the inductive invariant.
LEMMA NextIInv == IInv /\ [Next]_vars => IInv'
<1> SUFFICES ASSUME IInv, [Next]_vars PROVE IInv'
  OBVIOUS
<1>1. CASE Next
  BY <1>1, TypeStep, IdsStep, DataStep, RestStep, WholeStep DEF IInv
<1>2. CASE UNCHANGED vars
  BY <1>2 DEF IInv, TypeOK, IdsInv, IdsGiven, IdsInOrder, OwnPayload, StepInv, Rest,
              Responded, Between, Awaiting, AnswerBegins, AnswerEnds, Copying, WholeInv, Whole,
              vars
<1> QED
  BY <1>1, <1>2

\* Types, ids in order, own data, the rest of one answer under way, and answers
\* whole: in every state of every session of writeCommand, readContainer and the two copy loops.
THEOREM Invariant == Spec => []IInv
  BY InitIInv, NextIInv, PTL DEF Spec

\* A transaction never returns the payload of another command, nor takes anything
\* but payload for it, however many answers to transactions that were given up
\* still arrive (validateHeader and the copy loops).
THEOREM ReadsOwnAnswer == Spec => []OwnAnswer
<1>1. ASSUME IInv PROVE OwnAnswer
  <2>1. TypeOK /\ IdsInv /\ WholeInv
    BY <1>1 DEF IInv
  <2>2. /\ Len(pipe) \in Nat /\ left \in Nat
        /\ DOMAIN pipe = 1..Len(pipe)
    BY <2>1, SizeTypes, LenProperties DEF TypeOK
  <2>3. ASSUME phase = "payload", NEW k \in DOMAIN pipe
        PROVE  /\ pipe[k].id = command.id
               /\ k <= left => pipe[k].unit = "payload"
               /\ k = left + 1 => pipe[k].unit \in Codes
    BY <2>1, <2>2, <2>3 DEF IdsInv, OwnPayload, WholeInv, Whole
  <2> QED
    BY <1>1, <2>3 DEF IInv, OwnAnswer
<1> QED
  BY <1>1, Invariant, PTL

\* Between two transactions the pipes are empty as long as none was given up
\* half read: the loops of transaction() and downloadObject() leave nothing.
THEOREM StaysInStep == Spec => []InStep
<1>1. IInv => InStep
  BY DEF IInv, InStep, StepInv, Between, Awaiting, AnswerBegins, AnswerEnds, Copying
<1> QED
  BY <1>1, Invariant, PTL
=============================================================================
