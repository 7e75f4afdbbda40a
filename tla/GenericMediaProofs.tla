------------------------- MODULE GenericMediaProofs -------------------------
(* Proofs about GenericMedia, for any files, any requests and any number of *)
(* incomplete listings.                                                    *)
EXTENDS GenericMedia, SequenceTheorems, FiniteSetTheorems, TLAPS

-----------------------------------------------------------------------------
(* Tasks and the queue                                                     *)

LEMMA TaskFacts ==
    ASSUME NEW t \in Tasks
    PROVE  /\ t.op \in Ops \cup {"poll"}
           /\ t.op = "page" => \E p \in Pages : t.folder = p.folder
BY DEF Tasks, Ops

LEMMA RequestFacts ==
    /\ \A op \in (Ops \ {"page"}) \cup {"poll"} :
          [op |-> op] \in Tasks /\ [op |-> op].op = op
    /\ \A p \in Pages :
          LET t == [op |-> "page", folder |-> p.folder, refresh |-> p.refresh]
          IN t \in Tasks /\ t.op = "page"
BY DEF Tasks

LEMMA AppendFacts ==
    ASSUME NEW s \in Seq(Tasks), NEW e \in Tasks
    PROVE  /\ Append(s, e) \in Seq(Tasks)
           /\ Len(s) \in Nat
           /\ DOMAIN s = 1 .. Len(s)
           /\ DOMAIN Append(s, e) = 1 .. Len(s) + 1
           /\ \A n \in 1 .. Len(s) : Append(s, e)[n] = s[n]
           /\ Append(s, e)[Len(s) + 1] = e
OBVIOUS

LEMMA TailFacts ==
    ASSUME NEW s \in Seq(Tasks), s # <<>>
    PROVE  /\ Tail(s) \in Seq(Tasks)
           /\ Head(s) \in Tasks /\ Head(s) = s[1]
           /\ Len(s) \in Nat \ {0}
           /\ DOMAIN s = 1 .. Len(s)
           /\ DOMAIN Tail(s) = 1 .. Len(s) - 1
           /\ \A n \in 1 .. Len(s) - 1 : Tail(s)[n] = s[n + 1]
<1>1. Len(s) \in Nat \ {0} /\ DOMAIN s = 1 .. Len(s)
  BY EmptySeq, LenProperties
<1>2. /\ Tail(s) \in Seq(Tasks) /\ Head(s) \in Tasks
      /\ Len(Tail(s)) = Len(s) - 1
      /\ \A n \in 1 .. Len(s) - 1 : Tail(s)[n] = s[n + 1]
  BY HeadTailProperties
<1>3. Head(s) = s[1]
  BY <1>1
<1>4. DOMAIN Tail(s) = 1 .. Len(s) - 1
  BY <1>2, LenProperties
<1> QED BY <1>1, <1>2, <1>3, <1>4

\* What the application submits.
LEMMA CallFacts ==
    ASSUME CallSome
    PROVE  \E t \in Tasks : t.op \in Ops /\ Call(t)
BY RequestFacts, GenericAssumption DEF CallSome, Ops

\* A task that is not a poll is appended: the polls are where they were.
LEMMA PollsAfterAppend ==
    ASSUME queue \in Seq(Tasks), NEW t \in Tasks, queue' = Append(queue, t)
    PROVE  /\ NoPollQueued /\ t.op # "poll" => NoPollQueued'
           /\ OnePollQueued /\ t.op # "poll" => OnePollQueued'
           /\ NoPollQueued /\ t.op = "poll" => OnePollQueued'
<1>1. /\ Len(queue) \in Nat
      /\ DOMAIN queue = 1 .. Len(queue) /\ DOMAIN queue' = 1 .. Len(queue) + 1
      /\ \A n \in 1 .. Len(queue) : queue'[n] = queue[n]
      /\ queue'[Len(queue) + 1] = t
  BY AppendFacts
<1> QED BY <1>1 DEF NoPollQueued, OnePollQueued

\* A task is taken.
LEMMA PollsAfterTail ==
    ASSUME queue \in Seq(Tasks), queue # <<>>, queue' = Tail(queue)
    PROVE  /\ NoPollQueued => NoPollQueued' /\ Head(queue).op # "poll"
           /\ OnePollQueued /\ Head(queue).op = "poll" => NoPollQueued'
           /\ OnePollQueued /\ Head(queue).op # "poll" => OnePollQueued'
<1>1. /\ Len(queue) \in Nat \ {0} /\ Head(queue) = queue[1]
      /\ DOMAIN queue = 1 .. Len(queue) /\ DOMAIN queue' = 1 .. Len(queue) - 1
      /\ \A n \in 1 .. Len(queue) - 1 : queue'[n] = queue[n + 1]
  BY TailFacts
<1>2. NoPollQueued => NoPollQueued' /\ Head(queue).op # "poll"
  BY <1>1 DEF NoPollQueued
<1>3. ASSUME OnePollQueued, Head(queue).op = "poll" PROVE NoPollQueued'
  BY <1>1, <1>3 DEF NoPollQueued, OnePollQueued
<1>4. ASSUME OnePollQueued, Head(queue).op # "poll" PROVE OnePollQueued'
  <2>1. PICK n \in DOMAIN queue : \A m \in DOMAIN queue : queue[m].op = "poll" <=> m = n
    BY <1>4 DEF OnePollQueued
  <2>2. n - 1 \in DOMAIN queue'
    BY <1>1, <1>4, <2>1
  <2>3. \A m \in DOMAIN queue' : queue'[m].op = "poll" <=> m = n - 1
    BY <1>1, <2>1
  <2> QED BY <2>2, <2>3 DEF OnePollQueued
<1> QED BY <1>2, <1>3, <1>4

-----------------------------------------------------------------------------
(* The inductive invariant                                                 *)

\* The dispatcher's steps that leave the queue as it is.
Running ==
    \/ StartRefused \/ StartListening \/ Seed \/ Schedule \/ Poll \/ Wait
    \/ Handle \/ PollLists \/ PollSkips \/ Stop \/ Page \/ Release
    \/ ConnectTurnsBack \/ Disconnect

LEMMA Steps ==
    ASSUME Next
    PROVE  FileCreated \/ CallSome \/ TimerFires \/ Take \/ Running
BY DEF Next, Dispatcher, Running

LEMMA InitIInv == Init => IInv
<1> SUFFICES ASSUME Init PROVE IInv
  OBVIOUS
<1>1. queue \in Seq(Tasks) /\ DOMAIN queue = {}
  BY EmptySeq DEF Init
<1>2. TypeOK
  <2>1. task \in Tasks \cup {NoTask} /\ (task.op = "page" <=> pc = "page")
    BY DEF Init, NoTask
  <2>2. announced \in [Keys -> Nat] /\ catalogFolder \in Folders /\ onCamera \subseteq Files
    BY GenericAssumption DEF Init
  <2>3. catalog \cup cameraEvents \cup fresh \cup holes \subseteq Keys
    BY DEF Init
  <2>4. {connected, open, listening, pollScheduled, initialized, wish} \subseteq BOOLEAN
    BY DEF Init
  <2>5. timer \in 0 .. 1 /\ pc = "idle"
    BY DEF Init
  <2> QED BY <1>1, <2>1, <2>2, <2>3, <2>4, <2>5 DEF TypeOK
<1>3. ChainInv
  BY <1>1 DEF Init, ChainInv, NoPollQueued
<1>4. WishInv
  BY <1>1 DEF Init, WishInv
<1>5. NewsInv
  BY GenericAssumption DEF Init, NewsInv
<1> QED BY <1>2, <1>3, <1>4, <1>5 DEF IInv

\* Keys of files, and what a listing returns.
LEMMA KeyFacts ==
    /\ \A files \in SUBSET Files : KeysOf(files) \subseteq Keys
    /\ \A f \in Files : KeyOf[f] \in Keys
BY GenericAssumption DEF KeysOf

LEMMA TypeStep ==
    ASSUME IInv, Next PROVE TypeOK'
<1> USE DEF IInv
<1>1. CASE FileCreated
  BY <1>1, KeyFacts DEF FileCreated, TypeOK, mediaVars, pollVars
<1>2. CASE CallSome
  <2>1. PICK t \in Tasks : t.op \in Ops /\ Call(t)
    BY <1>2, CallFacts
  <2>2. queue' \in Seq(Tasks)
    BY <2>1, AppendFacts DEF Call, TypeOK
  <2> QED BY <2>1, <2>2 DEF Call, TypeOK, mediaVars, pollVars, cameraVars
<1>3. CASE TimerFires
  <2>1. queue' \in Seq(Tasks)
    BY <1>3, AppendFacts, RequestFacts DEF TimerFires, TypeOK
  <2> QED BY <1>3, <2>1 DEF TimerFires, TypeOK, mediaVars, cameraVars
<1>4. CASE Take
  <2>1. queue' \in Seq(Tasks) /\ Head(queue) \in Tasks
    BY <1>4, TailFacts DEF Take, TypeOK
  <2>2. Head(queue).op \in Ops \cup {"poll"}
    BY <2>1, TaskFacts
  <2> QED BY <1>4, <2>1, <2>2 DEF Take, TypeOK, mediaVars, pollVars, cameraVars
<1>5. CASE Running
  <2>1. task' \in Tasks \cup {NoTask} /\ (task'.op = "page" <=> pc' = "page")
    <3>1. \/ task' = NoTask /\ pc' = "idle"
          \/ task' = task /\ pc # "page" /\ pc' # "page"
      BY <1>5 DEF Running, StartRefused, StartListening, Seed, Schedule, Poll, Wait,
         Handle, PollLists, PollSkips, Stop, Page, Release,
         ConnectTurnsBack, Disconnect, Done, Goto
    <3> QED BY <3>1 DEF TypeOK, NoTask
  <2>2. queue' \in Seq(Tasks)
    BY <1>5 DEF Running, StartRefused, StartListening, Seed, Schedule, Poll, Wait,
       Handle, PollLists, PollSkips, Stop, Page, Release,
         ConnectTurnsBack, Disconnect, TypeOK
  <2> USE DEF Done, Goto, mediaVars, pollVars, cameraVars, TypeOK
  <2>3. CASE StartRefused \/ StartListening \/ Poll \/ Wait \/ PollSkips \/ Stop \/ Release
             \/ ConnectTurnsBack
    BY <2>1, <2>2, <2>3
       DEF StartRefused, StartListening, Poll, Wait, PollSkips, Stop, Release,
       ConnectTurnsBack
  <2>4. CASE Schedule
    <3>1. timer' \in 0 .. 1
      BY <2>4 DEF Schedule, ChainInv
    <3> QED BY <2>1, <2>2, <2>4, <3>1 DEF Schedule
  <2>5. CASE Seed
    <3>1. PICK files \in SUBSET Files : ReplaceCatalog(Root, files)
      BY <2>5 DEF Seed
    <3>2. KeysOf(files) \subseteq Keys /\ KeysOf(Within(Root)) \subseteq Keys
      BY KeyFacts DEF Within
    <3> QED BY <2>1, <2>2, <2>5, <3>1, <3>2, GenericAssumption DEF Seed, ReplaceCatalog
  <2>6. CASE Handle
    BY <2>1, <2>2, <2>6 DEF Handle, Publish
  <2>7. CASE PollLists
    <3>1. PICK files \in SUBSET Files : Publish(KeysOf(files))
      BY <2>7 DEF PollLists
    <3> QED BY <2>1, <2>2, <2>7, <3>1, KeyFacts DEF PollLists, Publish
  <2>8. CASE Page
    <3>1. CASE ~Stale
      BY <2>1, <2>2, <2>8, <3>1 DEF Page
    <3>2. CASE Stale
      <4>1. PICK files \in SUBSET Files : ReplaceCatalog(task.folder, files)
        BY <2>8, <3>2 DEF Page
      <4>2. KeysOf(files) \subseteq Keys /\ KeysOf(Within(task.folder)) \subseteq Keys
        BY KeyFacts DEF Within
      <4>3. task \in Tasks /\ task.op = "page"
        BY <2>8 DEF Page, NoTask
      <4>4. task.folder \in Folders
        BY <4>3, TaskFacts, GenericAssumption
      <4>5. /\ catalogFolder' \in Folders /\ initialized' = TRUE
            /\ catalog' \subseteq Keys /\ holes' \subseteq Keys
        BY <4>1, <4>2, <4>4 DEF ReplaceCatalog
      <4>6. fresh' \subseteq Keys
        BY <2>8, <3>2 DEF Page
      <4>7. /\ pc' = "idle"
            /\ UNCHANGED <<connected, open, listening, pollVars, cameraVars, wish, announced>>
        BY <2>8 DEF Page
      <4> QED BY <2>1, <2>2, <4>5, <4>6, <4>7
    <3> QED BY <3>1, <3>2
  <2>9. CASE Disconnect
    BY <2>1, <2>2, <2>9, GenericAssumption DEF Disconnect, ClearCatalog
  <2> QED BY <1>5, <2>3, <2>4, <2>5, <2>6, <2>7, <2>8, <2>9 DEF Running
<1> QED BY Steps, <1>1, <1>2, <1>3, <1>4, <1>5

\* Every step moves the one poll to its next place, or leaves it.
LEMMA ChainStep ==
    ASSUME IInv, Next PROVE ChainInv'
<1> USE DEF IInv, ChainInv
<1>1. CASE FileCreated
  BY <1>1 DEF FileCreated, pollVars, NoPollQueued, OnePollQueued
<1>2. CASE CallSome
  <2>1. PICK t \in Tasks : t.op \in Ops /\ Call(t)
    BY <1>2, CallFacts
  <2>2. t.op # "poll"
    BY <2>1 DEF Ops
  <2> QED BY <2>1, <2>2, PollsAfterAppend DEF Call, pollVars, TypeOK
<1>3. CASE TimerFires
  BY <1>3, PollsAfterAppend, RequestFacts DEF TimerFires, TypeOK
<1>4. CASE Take
  <2>1. Head(queue).op \in Ops \cup {"poll"}
    BY <1>4, TailFacts, TaskFacts DEF Take, TypeOK
  <2> QED BY <1>4, <2>1, PollsAfterTail DEF Take, pollVars, TypeOK
<1>5. CASE Running
  <2>1. queue' = queue
    BY <1>5 DEF Running, StartRefused, StartListening, Seed, Schedule, Poll, Wait,
       Handle, PollLists, PollSkips, Stop, Page, Release,
         ConnectTurnsBack, Disconnect
  <2>2. NoPollQueued' <=> NoPollQueued
    BY <2>1 DEF NoPollQueued
  <2>3. OnePollQueued' <=> OnePollQueued
    BY <2>1 DEF OnePollQueued
  <2> USE DEF Done, Goto, pollVars
  <2>4. CASE Schedule
    BY <2>2, <2>3, <2>4 DEF Schedule, TypeOK
  <2>5. CASE Poll
    BY <2>2, <2>3, <2>5 DEF Poll
  <2>6. CASE StartRefused \/ StartListening \/ Seed \/ Stop \/ Page \/ Release
             \/ ConnectTurnsBack
    BY <2>2, <2>3, <2>6 DEF StartRefused, StartListening, Seed, Stop, Page, Release,
       ConnectTurnsBack
  <2>7. CASE Wait \/ Handle \/ PollLists \/ PollSkips
    BY <2>2, <2>3, <2>7 DEF Wait, Handle, PollLists, PollSkips
  <2>8. CASE Disconnect
    BY <2>2, <2>3, <2>8 DEF Disconnect
  <2> QED BY <1>5, <2>4, <2>5, <2>6, <2>7, <2>8 DEF Running
<1> QED BY Steps, <1>1, <1>2, <1>3, <1>4, <1>5

\* An end stays queued behind every start, until it is taken.
LEMMA WishStep ==
    ASSUME IInv, Next PROVE WishInv'
<1> USE DEF IInv, WishInv
<1>1. CASE FileCreated
  BY <1>1 DEF FileCreated, EndAfter
<1>2. CASE CallSome
  <2>1. PICK t \in Tasks : t.op \in Ops /\ Call(t)
    BY <1>2, CallFacts
  <2>2. /\ Len(queue) \in Nat
        /\ DOMAIN queue = 1 .. Len(queue) /\ DOMAIN queue' = 1 .. Len(queue) + 1
        /\ \A n \in 1 .. Len(queue) : queue'[n] = queue[n]
        /\ queue'[Len(queue) + 1] = t
    BY <2>1, AppendFacts DEF Call, TypeOK
  <2>3. CASE t.op \in Ends
    <3>1. \A m \in 0 .. Len(queue) : EndAfter(queue', m)
      BY <2>2, <2>3 DEF EndAfter
    <3>2. queue'[Len(queue) + 1].op # "start"
      BY <2>2, <2>3 DEF Ends
    <3> QED BY <2>2, <3>1, <3>2
  <2>4. CASE t.op \notin Ends
    <3>1. \A m \in 0 .. Len(queue) : EndAfter(queue, m) => EndAfter(queue', m)
      BY <2>2 DEF EndAfter
    <3>2. /\ ~wish' => ~wish /\ t.op # "start"
          /\ listening' => listening
          /\ pc' = pc
      BY <2>1, <2>4 DEF Call, Ends, TypeOK
    <3> QED BY <2>2, <3>1, <3>2
  <2> QED BY <2>3, <2>4
<1>3. CASE TimerFires
  <2> DEFINE t == [op |-> "poll"]
  <2>1. t \in Tasks /\ t.op = "poll" /\ queue' = Append(queue, t)
    BY <1>3, RequestFacts DEF TimerFires
  <2> HIDE DEF t
  <2>2. /\ Len(queue) \in Nat
        /\ DOMAIN queue = 1 .. Len(queue) /\ DOMAIN queue' = 1 .. Len(queue) + 1
        /\ \A n \in 1 .. Len(queue) : queue'[n] = queue[n]
        /\ queue'[Len(queue) + 1] = t
    BY <2>1, AppendFacts DEF TypeOK
  <2>3. \A m \in 0 .. Len(queue) : EndAfter(queue, m) => EndAfter(queue', m)
    BY <2>2 DEF EndAfter
  <2>4. wish' = wish /\ listening' = listening /\ pc' = pc
    BY <1>3 DEF TimerFires
  <2> QED BY <2>1, <2>2, <2>3, <2>4
<1>4. CASE Take
  <2>1. /\ Len(queue) \in Nat \ {0} /\ Head(queue) = queue[1]
        /\ DOMAIN queue = 1 .. Len(queue) /\ DOMAIN queue' = 1 .. Len(queue) - 1
        /\ \A n \in 1 .. Len(queue) - 1 : queue'[n] = queue[n + 1]
    BY <1>4, TailFacts DEF Take, TypeOK
  <2>2. \A m \in 0 .. Len(queue) - 1 : EndAfter(queue, m + 1) => EndAfter(queue', m)
    <3> SUFFICES ASSUME NEW m \in 0 .. Len(queue) - 1, EndAfter(queue, m + 1)
                 PROVE  EndAfter(queue', m)
      OBVIOUS
    <3>1. PICK n \in DOMAIN queue : n > m + 1 /\ queue[n].op \in Ends
      BY DEF EndAfter
    <3>2. n - 1 \in DOMAIN queue' /\ n - 1 > m /\ queue'[n - 1].op \in Ends
      BY <2>1, <3>1
    <3> QED BY <3>2 DEF EndAfter
  <2>3. EndAfter(queue, 1) => EndAfter(queue', 0)
    BY <2>1, <2>2
  <2>4. EndAfter(queue, 0) => queue[1].op \in Ends \/ EndAfter(queue', 0)
    <3>1. EndAfter(queue, 0) => queue[1].op \in Ends \/ EndAfter(queue, 1)
      BY <2>1 DEF EndAfter
    <3> QED BY <2>3, <3>1
  <2>5. wish' = wish /\ listening' = listening /\ pc = "idle" /\ pc' = queue[1].op
    BY <1>4, <2>1 DEF Take
  <2>6. SUFFICES ASSUME ~wish PROVE WishInv'
    BY <2>5
  <2>7. /\ listening => EndAfter(queue, 0)
        /\ \A m \in DOMAIN queue : queue[m].op = "start" => EndAfter(queue, m)
    BY <2>5, <2>6 DEF Ends
  <2>8. pc' = "start" => EndAfter(queue', 0)
    <3>1. 1 \in DOMAIN queue
      BY <2>1
    <3> QED BY <2>3, <2>5, <2>7, <3>1
  <2>9. ASSUME NEW m \in DOMAIN queue', queue'[m].op = "start"
        PROVE  EndAfter(queue', m)
    <3>1. m \in 0 .. Len(queue) - 1 /\ m + 1 \in DOMAIN queue /\ queue[m + 1].op = "start"
      BY <2>1, <2>9
    <3>2. EndAfter(queue, m + 1)
      BY <2>7, <3>1
    <3> QED BY <2>2, <3>1, <3>2
  <2> QED BY <2>4, <2>5, <2>7, <2>8, <2>9
<1>5. CASE Running
  <2>1. /\ wish' = wish /\ queue' = queue
    BY <1>5 DEF Running, StartRefused, StartListening, Seed, Schedule, Poll, Wait,
       Handle, PollLists, PollSkips, Stop, Page, Release,
         ConnectTurnsBack, Disconnect
  <2>2. pc' # "start"
    BY <1>5 DEF Running, StartRefused, StartListening, Seed, Schedule, Poll, Wait,
       Handle, PollLists, PollSkips, Stop, Page, Release,
         ConnectTurnsBack, Disconnect,
       Done, Goto
  <2>3. listening' => (listening \/ pc = "start") /\ pc \notin Ends
    BY <1>5 DEF Running, StartRefused, StartListening, Seed, Schedule, Poll, Wait,
       Handle, PollLists, PollSkips, Stop, Page, Release,
         ConnectTurnsBack, Disconnect,
       Done, Goto, Ends
  <2> QED BY <2>1, <2>2, <2>3
<1> QED BY Steps, <1>1, <1>2, <1>3, <1>4, <1>5

\* What is on the camera and not in the catalog is new, or was left out of it.
LEMMA NewsStep ==
    ASSUME IInv, Next PROVE NewsInv'
<1> USE DEF IInv, NewsInv
<1>1. CASE FileCreated
  BY <1>1 DEF FileCreated, KeysOf, mediaVars
<1>2. CASE CallSome
  <2>1. PICK t \in Tasks : t.op \in Ops /\ Call(t)
    BY <1>2, CallFacts
  <2> QED BY <2>1 DEF Call, mediaVars, cameraVars
<1>3. CASE TimerFires
  BY <1>3 DEF TimerFires, mediaVars, cameraVars
<1>4. CASE Take
  <2>1. Head(queue).op # "seed"
    BY <1>4, TailFacts, TaskFacts DEF Take, TypeOK, Ops
  <2> QED BY <1>4, <2>1 DEF Take, mediaVars, cameraVars
<1>5. CASE Running
  <2> USE DEF Done, Goto, mediaVars, cameraVars
  <2>1. CASE StartRefused \/ StartListening \/ Schedule \/ Poll \/ PollSkips \/ Stop \/ Release
             \/ ConnectTurnsBack
    BY <2>1, GenericAssumption
       DEF StartRefused, StartListening, Schedule, Poll, PollSkips, Stop, Release,
       ConnectTurnsBack
  <2>2. CASE Wait
    BY <2>2, GenericAssumption DEF Wait
  <2>3. CASE Seed
    <3>1. PICK files \in SUBSET Files : Scans(Root, files) /\ ReplaceCatalog(Root, files)
      BY <2>3 DEF Seed
    <3>2. KeysOf(Within(Root)) = KeysOf(onCamera)
      BY DEF Within, KeysOf
    <3> QED BY <2>3, <3>1, <3>2 DEF Seed, ReplaceCatalog
  <2>4. CASE Handle
    BY <2>4 DEF Handle, Publish
  <2>5. CASE PollLists
    <3>1. PICK files \in SUBSET Files : Publish(KeysOf(files))
      BY <2>5 DEF PollLists
    <3> QED BY <2>5, <3>1 DEF PollLists, Publish
  <2>6. CASE Page
    <3>1. CASE ~Stale
      BY <2>6, <3>1, GenericAssumption DEF Page
    <3>2. CASE Stale
      <4>1. PICK files \in SUBSET Files : ReplaceCatalog(task.folder, files)
        BY <2>6, <3>2 DEF Page
      <4>2. (\A p \in Pages : p.folder = Root) => task.folder = Root
        <5>1. task \in Tasks /\ task.op = "page"
          BY <2>6 DEF Page, TypeOK, NoTask
        <5> QED BY <5>1, TaskFacts
      <4>3. task.folder = Root => KeysOf(Within(task.folder)) = KeysOf(onCamera)
        BY DEF Within, KeysOf
      <4>4. (\A p \in Pages : p.folder = Root)
               => KeysOf(onCamera) \subseteq catalog' \cup holes'
        BY <4>1, <4>2, <4>3 DEF ReplaceCatalog
      <4> QED BY <2>6, <4>4, GenericAssumption DEF Page
    <3> QED BY <3>1, <3>2
  <2>7. CASE Disconnect
    BY <2>7, GenericAssumption DEF Disconnect
  <2> QED BY <1>5, <2>1, <2>2, <2>3, <2>4, <2>5, <2>6, <2>7 DEF Running
<1> QED BY Steps, <1>1, <1>2, <1>3, <1>4, <1>5

LEMMA IInvStep == IInv /\ [Next]_vars => IInv'
<1> SUFFICES ASSUME IInv, [Next]_vars PROVE IInv'
  OBVIOUS
<1>1. CASE Next
  BY <1>1, TypeStep, ChainStep, WishStep, NewsStep DEF IInv
<1>2. CASE UNCHANGED vars
  BY <1>2 DEF vars, mediaVars, cameraVars, pollVars, IInv, TypeOK, ChainInv, WishInv,
     NewsInv, NoPollQueued, OnePollQueued, EndAfter, KeysOf
<1> QED BY <1>1, <1>2

\* Types, the place of the poll, the ends behind every start and what is known
\* of the camera, in every reachable state.
THEOREM Invariance == Spec => []IInv
<1> QED BY InitIInv, IInvStep, PTL DEF Spec

-----------------------------------------------------------------------------
(* What follows from it                                                    *)

\* scheduleMediaEventPoll and the scheduled block keep exactly one chain of
\* polls alive while the application listens, and none that is not flagged.
THEOREM OneChain == Spec => []OnePollChain
<1>1. ASSUME IInv PROVE OnePollChain
  <2> USE <1>1 DEF IInv
  <2>1. NoPollQueued => PollsQueued = 0
    <3> SUFFICES ASSUME NoPollQueued PROVE PollsQueued = 0
      OBVIOUS
    <3>1. {n \in DOMAIN queue : queue[n].op = "poll"} = {}
      BY DEF NoPollQueued
    <3> QED BY <3>1, FS_EmptySet DEF PollsQueued
  <2>2. OnePollQueued => PollsQueued = 1
    <3> SUFFICES ASSUME OnePollQueued PROVE PollsQueued = 1
      OBVIOUS
    <3>1. PICK k \in DOMAIN queue : \A m \in DOMAIN queue : queue[m].op = "poll" <=> m = k
      BY DEF OnePollQueued
    <3>2. {n \in DOMAIN queue : queue[n].op = "poll"} = {k}
      BY <3>1
    <3> QED BY <3>2, FS_Singleton DEF PollsQueued
  <2>3. pc = "idle" /\ listening => pollScheduled
    BY DEF ChainInv
  <2> QED BY <2>1, <2>2, <2>3 DEF OnePollChain, ChainInv
<1> QED BY <1>1, Invariance, PTL

\* Whatever stops and starts overtake each other, the plugin at rest listens
\* only if that was the last request.
THEOREM LastRequestCounts == Spec => []LastRequestWins
<1>1. ASSUME IInv PROVE LastRequestWins
  <2> SUFFICES ASSUME Idle, listening, ~wish PROVE FALSE
    BY DEF LastRequestWins
  <2>1. DOMAIN queue = {} /\ pc = "idle"
    BY EmptySeq DEF Idle
  <2> QED BY <1>1, <2>1 DEF IInv, WishInv, EndAfter, Ends
<1> QED BY <1>1, Invariance, PTL

\* publishGenericMedia announces a file once, and only one that is new or that
\* an incomplete listing had left out, if every page is one of the root folder:
\* scanGenericMediaPage of another one takes the rest out of the catalog.
THEOREM NewsOnly ==
    ASSUME \A p \in Pages : p.folder = Root
    PROVE  Spec => OnlyNewFilesAreAnnounced
<1> DEFINE Honest == \A k \in Keys : announced'[k] > announced[k] => k \in fresh \cup holes
<1>1. ASSUME IInv, [Next]_vars PROVE [Honest]_vars
  <2> USE <1>1 DEF IInv
  <2>1. announced \in [Keys -> Nat]
    BY DEF TypeOK
  <2>2. CASE announced' = announced
    BY <2>1, <2>2
  <2>3. CASE Handle
    BY <2>1, <2>3 DEF Handle, Publish, NewsInv
  <2>4. CASE PollLists
    <3>1. PICK files \in SUBSET Files : Scans(Root, files) /\ Publish(KeysOf(files))
      BY <2>4 DEF PollLists
    <3>2. KeysOf(files) \subseteq KeysOf(onCamera)
      BY <3>1 DEF Scans, Within, KeysOf
    <3> QED BY <2>1, <2>4, <3>1, <3>2 DEF PollLists, Publish, NewsInv
  <2>5. CASE Disconnect
    BY <2>1, <2>5 DEF Disconnect, ClearCatalog
  <2>6. CASE UNCHANGED vars
    BY <2>6
  <2>7. CASE FileCreated \/ CallSome \/ TimerFires \/ Take
    BY <2>2, <2>7 DEF FileCreated, CallSome, Call, TimerFires, Take
  <2>8. CASE StartRefused \/ StartListening \/ Seed \/ Schedule \/ Poll \/ Wait
             \/ PollSkips \/ Stop \/ Page \/ Release \/ ConnectTurnsBack
    BY <2>2, <2>8 DEF StartRefused, StartListening, Seed, Schedule, Poll, Wait,
       PollSkips, Stop, Page, Release, ConnectTurnsBack
  <2> QED BY <1>1, Steps, <2>3, <2>4, <2>5, <2>6, <2>7, <2>8 DEF Running
<1> QED BY <1>1, Invariance, PTL DEF Spec, OnlyNewFilesAreAnnounced
=============================================================================
