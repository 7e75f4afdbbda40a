-------------------------- MODULE NativeScanProofs --------------------------
(* Proofs about the recursive listing of NativeScan, for any tree, any     *)
(* limits and any failures: ScanNext preserves ScanInv.                    *)
EXTENDS NativeScan, SequenceTheorems, FiniteSetTheorems, TLAPS

-----------------------------------------------------------------------------
(* Sequences as the stack uses them                                        *)

\* The last element is replaced, as WithRest does.
LEMMA LastReplaced ==
    ASSUME NEW S, NEW s \in Seq(S), s # <<>>, NEW e \in S
    PROVE  LET t == [s EXCEPT ![Len(s)] = e]
           IN  /\ t \in Seq(S) /\ Len(t) = Len(s) /\ t # <<>>
               /\ t[Len(s)] = e
               /\ \A i \in 1 .. Len(s) : i < Len(s) => t[i] = s[i]
<1>1. Len(s) \in 1 .. Len(s)
  BY EmptySeq
<1> QED
  BY <1>1, ExceptSeq

\* The last element is taken away, as Return does.
LEMMA LastRemoved ==
    ASSUME NEW S, NEW s \in Seq(S), s # <<>>
    PROVE  LET t == SubSeq(s, 1, Len(s) - 1)
           IN  /\ t \in Seq(S) /\ Len(t) = Len(s) - 1
               /\ t = <<>> <=> Len(s) = 1
               /\ \A i \in 1 .. Len(t) : t[i] = s[i]
<1>1. Len(s) \in Nat \ {0}
  BY EmptySeq
<1> DEFINE n == Len(s) - 1
           t == SubSeq(s, 1, n)
<1>2. n \in Nat /\ \A i \in 1 .. n : s[i] \in S
  BY <1>1, ElementOfSeq
<1>0. 1 \in Int /\ n \in Int
  BY <1>2
<1> HIDE DEF n
<1>a. t \in Seq(S)
  BY <1>0, <1>2, SubSeqProperties
<1>b. Len(t) = n
  BY <1>2, SMT
<1>c. \A i \in 1 .. n : t[i] = s[i]
  BY <1>2, SMT
<1> HIDE DEF t
<1>4. Len(t) = n /\ \A i \in 1 .. Len(t) : t[i] = s[i]
  BY <1>b, <1>c
<1>5. t = <<>> <=> n = 0
  BY <1>2, <1>a, <1>4, EmptySeq
<1> QED
  BY <1>1, <1>a, <1>4, <1>5 DEF n, t

\* One is added, as VisitChild and TakeName do.
LEMMA OneAppended ==
    ASSUME NEW S, NEW s \in Seq(S), NEW e \in S
    PROVE  LET t == Append(s, e)
           IN  /\ t \in Seq(S) /\ Len(t) = Len(s) + 1 /\ t # <<>>
               /\ t[Len(s) + 1] = e
               /\ \A i \in 1 .. Len(s) : t[i] = s[i]
BY AppendProperties, EmptySeq

\* The first is taken, as the loops do.
LEMMA FirstTaken ==
    ASSUME NEW S, NEW s \in Seq(S), s # <<>>
    PROVE  /\ Head(s) \in S /\ Head(s) = s[1]
           /\ Tail(s) \in Seq(S) /\ Len(Tail(s)) = Len(s) - 1
           /\ \A i \in 1 .. Len(s) - 1 : Tail(s)[i] = s[i + 1]
BY HeadTailProperties, EmptySeq

-----------------------------------------------------------------------------
(* What the steps do to the stack                                          *)

Frames == [folder : Folders, rest : Rests]

\* The activation on top goes on with other entries before it.
LEMMA StackRewritten ==
    ASSUME stack \in Seq(Frames), stack # <<>>, NEW rest \in Rests,
           stack' = WithRest(rest)
    PROVE  /\ stack' \in Seq(Frames) /\ Len(stack') = Len(stack) /\ stack' # <<>>
           /\ Top'.folder = Top.folder /\ Top'.rest = rest
           /\ \A i \in 1 .. Len(stack) : stack'[i].folder = stack[i].folder
           /\ \A i \in 1 .. Len(stack) : i < Len(stack) => stack'[i] = stack[i]
<1>1. Len(stack) \in 1 .. Len(stack)
  BY EmptySeq
<1>2. Top \in Frames
  BY <1>1, ElementOfSeq DEF Top
<1>3. Frame(Top.folder, rest) \in Frames
  BY <1>2 DEF Frame, Frames
<1> QED
  BY <1>1, <1>3, LastReplaced DEF WithRest, Top, Frame

\* An activation returns.
LEMMA StackPopped ==
    ASSUME stack \in Seq(Frames), stack # <<>>, Return
    PROVE  /\ stack' \in Seq(Frames) /\ Len(stack') = Len(stack) - 1
           /\ stack' = <<>> <=> step' = "scan.done"
           /\ step' \in {"scan.done", "scan.visit"}
           /\ \A i \in 1 .. Len(stack') : stack'[i] = stack[i]
BY LastRemoved DEF Return

\* The next subfolder is entered.
LEMMA StackPushed ==
    ASSUME stack \in Seq(Frames), stack # <<>>, Top.rest # <<>>,
           Top.rest \in Seq(Folders \cup {NoName}), VisitChild
    PROVE  /\ stack' \in Seq(Frames) /\ Len(stack') = Len(stack) + 1 /\ stack' # <<>>
           /\ Top'.folder = JoinFolder(Top.folder, Top.rest[1])
           /\ stack'[Len(stack)].rest = Tail(Top.rest)
           /\ \A i \in 1 .. Len(stack) : stack'[i].folder = stack[i].folder
           /\ \A i \in 1 .. Len(stack) : i < Len(stack) => stack'[i] = stack[i]
<1> DEFINE rest == Tail(Top.rest)
           child == JoinFolder(Top.folder, Head(Top.rest))
           s == WithRest(rest)
<1>1. Len(stack) \in 1 .. Len(stack)
  BY EmptySeq
<1>2. Top \in Frames
  BY <1>1, ElementOfSeq DEF Top
<1>3. rest \in Rests /\ Head(Top.rest) \in Folders \cup {NoName} /\ Head(Top.rest) = Top.rest[1]
  <2>1. rest \in Seq(Folders \cup {NoName})
    BY FirstTaken
  <2>2. rest \in Rests
    BY <2>1 DEF Rests
  <2> QED
    BY <2>2, FirstTaken
<1>4. child \in Folders
  BY <1>2, <1>3 DEF JoinFolder, Frames
<1>5. Frame(Top.folder, rest) \in Frames /\ Frame(child, <<>>) \in Frames
  BY <1>2, <1>3, <1>4 DEF Frame, Frames, Rests
<1>6. /\ s \in Seq(Frames) /\ Len(s) = Len(stack)
      /\ s[Len(stack)] = Frame(Top.folder, rest)
      /\ \A i \in 1 .. Len(stack) : i < Len(stack) => s[i] = stack[i]
  BY <1>5, LastReplaced DEF WithRest
<1>7. stack' = Append(s, Frame(child, <<>>))
  BY DEF VisitChild
<1> HIDE DEF s, child, rest
<1>8. /\ stack' \in Seq(Frames) /\ Len(stack') = Len(stack) + 1 /\ stack' # <<>>
      /\ stack'[Len(stack) + 1] = Frame(child, <<>>)
      /\ \A i \in 1 .. Len(stack) : stack'[i] = s[i]
  BY <1>5, <1>6, <1>7, OneAppended
<1>9. stack'[Len(stack)] = Frame(Top.folder, rest)
  BY <1>1, <1>6, <1>8
<1>10. Top' = Frame(child, <<>>)
  BY <1>8 DEF Top
<1>11. \A i \in 1 .. Len(stack) : i < Len(stack) => stack'[i] = stack[i]
  BY <1>6, <1>8
<1>12. \A i \in 1 .. Len(stack) : stack'[i].folder = stack[i].folder
  <2> SUFFICES ASSUME NEW i \in 1 .. Len(stack)
               PROVE  stack'[i].folder = stack[i].folder
    OBVIOUS
  <2>1. CASE i < Len(stack)
    BY <2>1, <1>11
  <2>2. CASE i = Len(stack)
    BY <2>2, <1>9 DEF Top, Frame
  <2> QED
    BY <2>1, <2>2, <1>1
<1>13. Top'.folder = child /\ stack'[Len(stack)].rest = rest
  BY <1>9, <1>10 DEF Frame
<1> QED
  BY <1>3, <1>8, <1>11, <1>12, <1>13 DEF child, rest
-----------------------------------------------------------------------------
(* Types                                                                   *)

\* A report stays a report, and a recorded error shows.
LEMMA ReportKept ==
    ASSUME NEW rep \in Reports, NEW result \in Results
    PROVE  /\ FilesResult(rep, result) \in Reports
           /\ FilesResult(rep, result).errors = rep.errors
           /\ FilesResult(rep, result).visited = rep.visited
           /\ FoldersResult(rep, result) \in Reports
           /\ FoldersResult(rep, result).errors = rep.errors
           /\ FoldersResult(rep, result).visited = rep.visited
BY DEF FilesResult, FoldersResult, Reports

LEMMA ErrorShows ==
    ASSUME NEW rep \in Reports
    PROVE  /\ RecordError(rep) \in Reports
           /\ RecordError(rep).errors # 0
           /\ RecordError(rep).visited = rep.visited
BY LimitsAssumption DEF RecordError, Reports

\* The lists of the camera are lists of names.
LEMMA TreeTyped ==
    ASSUME tree \in Trees, NEW folder \in Folders
    PROVE  /\ tree.files[folder] \in Seq(Names \cup {NoName})
           /\ tree.sub[folder] \in Seq(Folders \cup {NoName})
           /\ tree.files[folder] \in Rests /\ tree.sub[folder] \in Rests
<1>1. tree.files[folder] \in Seq(Names \cup {NoName})
  BY TreesAssumption DEF TreeShape
<1>2. tree.sub[folder] \in Seq(Folders \cup {NoName})
  BY TreesAssumption DEF TreeShape
<1> QED
  BY <1>1, <1>2 DEF Rests

\* The activation on top, as the type and RestInv describe it.
LEMMA TopTyped ==
    ASSUME ScanTypeOK, RestInv, step \in ScanSteps
    PROVE  /\ stack \in Seq(Frames) /\ stack # <<>>
           /\ Len(stack) \in Nat \ {0} /\ Len(stack) \in DOMAIN stack
           /\ DOMAIN stack = 1 .. Len(stack)
           /\ Top \in Frames /\ Top.folder \in Folders /\ Top.rest \in Rests
           /\ step = "scan.name" => Top.rest \in Seq(Names \cup {NoName})
           /\ step = "scan.visit" => Top.rest \in Seq(Folders \cup {NoName})
<1>1. stack \in Seq(Frames) /\ stack # <<>>
  BY DEF ScanTypeOK, Frames
<1>2. Len(stack) \in Nat \ {0} /\ DOMAIN stack = 1 .. Len(stack)
  BY <1>1, EmptySeq, LenProperties
<1>3. Top \in Frames
  BY <1>1, <1>2, ElementOfSeq DEF Top
<1>4. step = "scan.visit" => Top.rest \in Seq(Folders \cup {NoName})
  BY <1>2 DEF RestInv, Visits, Top
<1> QED
  BY <1>1, <1>2, <1>3, <1>4 DEF RestInv, Frames

\* In the loops the next name is a name, and what remains are names.
LEMMA NextTyped ==
    ASSUME ScanTypeOK, RestInv, step \in {"scan.name", "scan.visit"}, Top.rest # <<>>
    PROVE  /\ Tail(Top.rest) \in Rests
           /\ step = "scan.name" => /\ Head(Top.rest) \in Names \cup {NoName}
                                   /\ Tail(Top.rest) \in Seq(Names \cup {NoName})
           /\ step = "scan.visit" => /\ Head(Top.rest) \in Folders \cup {NoName}
                                    /\ Tail(Top.rest) \in Seq(Folders \cup {NoName})
<1>1. step \in ScanSteps
  BY DEF ScanSteps
<1>2. Tail(Top.rest) \in Rests
  BY <1>1, TopTyped, FirstTaken DEF Rests
<1>3. CASE step = "scan.name"
  BY <1>1, <1>2, <1>3, TopTyped, FirstTaken
<1>4. CASE step = "scan.visit"
  BY <1>1, <1>2, <1>4, TopTyped, FirstTaken
<1> QED
  BY <1>3, <1>4

\* The stack of every step is typed, and empty when the scan is done.
LEMMA StackTyped ==
    ASSUME ScanTypeOK, RestInv, ScanNext
    PROVE  stack' \in Seq(Frames) /\ (step' \in ScanSteps <=> stack' # <<>>)
<1>1. step \in ScanSteps
  BY DEF ScanNext, RefuseFolder, SkipFolder, EnterFolder, NewFileList, ListFiles,
         ListFilesFails, TakeName, FilesDone, NewFolderList, NewFolderListFails,
         ListFolders, ListFoldersFails, VisitChild, FoldersDone, ScanSteps
<1>2. /\ stack \in Seq(Frames) /\ stack # <<>> /\ Top.folder \in Folders
      /\ tree \in Trees
  BY <1>1, TopTyped DEF ScanTypeOK
<1>3. CASE EnterFolder \/ NewFileList \/ ListFilesFails \/ FilesDone \/ NewFolderList
  <2>1. stack' = stack /\ step' \in ScanSteps
    BY <1>3 DEF EnterFolder, NewFileList, ListFilesFails, FilesDone, NewFolderList,
                scanVars, ScanSteps
  <2> QED
    BY <2>1, <1>2
<1>4. CASE ListFiles \/ ListFolders
  <2>1. step' \in ScanSteps
    BY <1>4 DEF ListFiles, ListFolders, ScanSteps
  <2>2. \E rest \in Rests : stack' = WithRest(rest)
    BY <1>2, <1>4, TreeTyped DEF ListFiles, ListFolders
  <2> QED
    BY <1>2, <2>1, <2>2, StackRewritten
<1>5. CASE TakeName
  <2>1. step' \in ScanSteps
    BY <1>5, <1>1 DEF TakeName
  <2>2. \E rest \in Rests : stack' = WithRest(rest)
    BY <1>5, NextTyped DEF TakeName
  <2> QED
    BY <1>2, <2>1, <2>2, StackRewritten
<1>6. CASE RefuseFolder \/ SkipFolder \/ NewFolderListFails \/ ListFoldersFails \/ FoldersDone
  <2>1. Return
    BY <1>6 DEF RefuseFolder, SkipFolder, NewFolderListFails, ListFoldersFails,
                FoldersDone, LeaveFolder
  <2> QED
    BY <1>2, <2>1, StackPopped DEF ScanSteps
<1>7. CASE VisitChild
  <2>1. step = "scan.visit" /\ step' = "scan.enter" /\ Top.rest # <<>>
    BY <1>7 DEF VisitChild
  <2>2. stack' \in Seq(Frames) /\ stack' # <<>>
    BY <1>1, <1>2, <1>7, <2>1, StackPushed, TopTyped
  <2> QED
    BY <2>1, <2>2 DEF ScanSteps
<1> QED
  BY <1>3, <1>4, <1>5, <1>6, <1>7 DEF ScanNext
\* The codes of the library are results.
LEMMA FailureTyped == ASSUME NEW result \in Failures PROVE result \in Results
BY FailuresAssumption DEF Results

LEMMA OkTyped == GP_OK \in Results
BY DEF Results

\* The steps at which something fails or a limit is met.
Fails == \/ RefuseFolder \/ ListFilesFails \/ NewFolderListFails \/ ListFoldersFails
         \/ NewFileList /\ step' = "scan.newFolders"

\* What is done to a report: a result kept, an error recorded, the files counted.
LEMMA ReportEdits ==
    ASSUME NEW rep \in Reports, NEW result \in Results, encoded \in Seq(Entries)
    PROVE  /\ \A edited \in {FilesResult(rep, result), FoldersResult(rep, result),
                            [rep EXCEPT !.discovered = Len(encoded)]} :
                 edited \in Reports /\ edited.visited = rep.visited
                                   /\ edited.errors = rep.errors
           /\ RecordError(rep) \in Reports /\ RecordError(rep).visited = rep.visited
           /\ RecordError(rep).errors # 0
<1>1. Len(encoded) \in Nat
  BY LenProperties
<1>2. /\ [rep EXCEPT !.discovered = Len(encoded)] \in Reports
      /\ [rep EXCEPT !.discovered = Len(encoded)].visited = rep.visited
      /\ [rep EXCEPT !.discovered = Len(encoded)].errors = rep.errors
  BY <1>1 DEF Reports
<1> QED
  BY <1>2, ReportKept, ErrorShows

\* Where something fails an error is recorded.
LEMMA FailureShows ==
    ASSUME ScanTypeOK, Fails
    PROVE  /\ report' \in Reports /\ report'.visited = report.visited
           /\ report'.errors # 0
<1>1. report \in Reports /\ encoded \in Seq(Entries)
  BY DEF ScanTypeOK
<1>2. CASE RefuseFolder
  BY <1>1, <1>2, ErrorShows DEF RefuseFolder
<1>3. CASE \E result \in Failures : report' = RecordError(FilesResult(report, result))
  <2>1. PICK result \in Failures : report' = RecordError(FilesResult(report, result))
    BY <1>3
  <2> DEFINE rep == FilesResult(report, result)
  <2>2. rep \in Reports /\ rep.visited = report.visited
    BY <1>1, FailureTyped, ReportEdits
  <2> HIDE DEF rep
  <2> QED
    BY <2>1, <2>2, ErrorShows DEF rep
<1>4. CASE \E result \in Failures : report' = RecordError(FoldersResult(report, result))
  <2>1. PICK result \in Failures : report' = RecordError(FoldersResult(report, result))
    BY <1>4
  <2> DEFINE rep == FoldersResult(report, result)
  <2>2. rep \in Reports /\ rep.visited = report.visited
    BY <1>1, FailureTyped, ReportEdits
  <2> HIDE DEF rep
  <2> QED
    BY <2>1, <2>2, ErrorShows DEF rep
<1>5. CASE ListFoldersFails
  <2>1. PICK result \in Failures :
           report' = [RecordError(FoldersResult(report, result))
                         EXCEPT !.discovered = Len(encoded)]
    BY <1>5 DEF ListFoldersFails, LeaveFolder
  <2> DEFINE rep == FoldersResult(report, result)
             done == RecordError(rep)
  <2>2. rep \in Reports /\ rep.visited = report.visited
    BY <1>1, FailureTyped, ReportEdits
  <2> HIDE DEF rep
  <2>3. done \in Reports /\ done.visited = report.visited /\ done.errors # 0
    BY <2>2, ErrorShows
  <2>4. report' = [done EXCEPT !.discovered = Len(encoded)]
    BY <2>1 DEF rep
  <2> HIDE DEF done
  <2> QED
    BY <2>3, <2>4, <1>1, ReportEdits, OkTyped
<1> QED
  BY <1>2, <1>3, <1>4, <1>5 DEF Fails, ListFilesFails, NewFolderListFails, NewFileList

\* Elsewhere the errors remain as they are, and entering a folder alone counts it.
LEMMA ReportStep ==
    ASSUME ScanTypeOK, ScanNext, ~EnterFolder, ~Fails
    PROVE  /\ report' \in Reports /\ report'.visited = report.visited
           /\ report'.errors = report.errors
<1>1. report \in Reports /\ encoded \in Seq(Entries)
  BY DEF ScanTypeOK
<1>2. CASE \/ SkipFolder \/ TakeName \/ FilesDone \/ NewFolderList \/ VisitChild
           \/ NewFileList
  <2>1. report' = report
    BY <1>2 DEF SkipFolder, TakeName, FilesDone, NewFolderList, VisitChild,
                NewFileList, scanVars, Fails
  <2> QED
    BY <1>1, <2>1
<1>3. CASE ListFiles \/ ListFolders \/ FoldersDone
  <2>1. report' \in {FilesResult(report, GP_OK), FoldersResult(report, GP_OK),
                    [report EXCEPT !.discovered = Len(encoded)]}
    BY <1>3 DEF ListFiles, ListFolders, FoldersDone, LeaveFolder
  <2> QED
    BY <2>1, <1>1, ReportEdits, OkTyped
<1> QED
  BY <1>2, <1>3 DEF ScanNext, Fails
-----------------------------------------------------------------------------
(* The invariant, part by part                                             *)

\* The steps by what they do to the stack.
Stays == EnterFolder \/ NewFileList \/ ListFilesFails \/ FilesDone \/ NewFolderList
Rewrites == ListFiles \/ ListFolders \/ TakeName
Returns == RefuseFolder \/ SkipFolder \/ NewFolderListFails \/ ListFoldersFails
           \/ FoldersDone

LEMMA StackCases ==
    ASSUME ScanNext
    PROVE  /\ Stays \/ Rewrites \/ Returns \/ VisitChild
           /\ step \in ScanSteps
           /\ Returns => Return
           /\ Stays => /\ stack' = stack
                      /\ step \in {"scan.enter", "scan.newFiles", "scan.list",
                                  "scan.name", "scan.newFolders"}
                      /\ step' \in {"scan.newFiles", "scan.list", "scan.newFolders",
                                   "scan.listFolders"}
           /\ Rewrites => /\ step \in {"scan.list", "scan.listFolders", "scan.name"}
                         /\ step' \in {"scan.name", "scan.visit"}
           /\ VisitChild => step = "scan.visit" /\ step' = "scan.enter"
<1>1. Stays \/ Rewrites \/ Returns \/ VisitChild
  BY DEF ScanNext, Stays, Rewrites, Returns
<1>2. step \in ScanSteps
  BY DEF ScanNext, RefuseFolder, SkipFolder, EnterFolder, NewFileList, ListFiles,
         ListFilesFails, TakeName, FilesDone, NewFolderList, NewFolderListFails,
         ListFolders, ListFoldersFails, VisitChild, FoldersDone, ScanSteps
<1>3. Returns => Return
  BY DEF Returns, RefuseFolder, SkipFolder, NewFolderListFails, ListFoldersFails,
         FoldersDone, LeaveFolder
<1>4. Stays => /\ stack' = stack
               /\ step \in {"scan.enter", "scan.newFiles", "scan.list",
                           "scan.name", "scan.newFolders"}
               /\ step' \in {"scan.newFiles", "scan.list", "scan.newFolders",
                            "scan.listFolders"}
  BY DEF Stays, EnterFolder, NewFileList, ListFilesFails, FilesDone, NewFolderList,
         scanVars
<1>5. Rewrites => /\ step \in {"scan.list", "scan.listFolders", "scan.name"}
                  /\ step' \in {"scan.name", "scan.visit"}
  BY DEF Rewrites, ListFiles, ListFolders, TakeName
<1>6. VisitChild => step = "scan.visit" /\ step' = "scan.enter"
  BY DEF VisitChild
<1> QED
  BY <1>1, <1>2, <1>3, <1>4, <1>5, <1>6

\* A rewriting step gives the top what the tree holds, or drops its first entry.
LEMMA RewriteCases ==
    ASSUME ScanTypeOK, RestInv, Rewrites
    PROVE  \E rest \in Rests :
              /\ stack' = WithRest(rest)
              /\ step' = "scan.name" => rest \in Seq(Names \cup {NoName})
              /\ step' = "scan.visit" => rest \in Seq(Folders \cup {NoName})
<1>1. CASE ListFiles
  <2>1. step \in ScanSteps
    BY <1>1 DEF ListFiles, ScanSteps
  <2>2. Top.folder \in Folders /\ tree \in Trees
    BY <2>1, TopTyped DEF ScanTypeOK
  <2> QED
    BY <1>1, <2>2, TreeTyped DEF ListFiles
<1>2. CASE ListFolders
  <2>1. step \in ScanSteps
    BY <1>2 DEF ListFolders, ScanSteps
  <2>2. Top.folder \in Folders /\ tree \in Trees
    BY <2>1, TopTyped DEF ScanTypeOK
  <2> QED
    BY <1>2, <2>2, TreeTyped DEF ListFolders
<1>3. CASE TakeName
  BY <1>3, NextTyped DEF TakeName
<1> QED
  BY <1>1, <1>2, <1>3 DEF Rewrites

LEMMA RestStep ==
    ASSUME ScanTypeOK, RestInv, ScanNext
    PROVE  RestInv'
<1>1. step \in ScanSteps
  BY StackCases
<1>2. /\ stack \in Seq(Frames) /\ stack # <<>>
      /\ Len(stack) \in Nat \ {0} /\ DOMAIN stack = 1 .. Len(stack)
  BY <1>1, TopTyped
<1>3. \A i \in 1 .. Len(stack) :
         Visits(i) => stack[i].rest \in Seq(Folders \cup {NoName})
  BY <1>2 DEF RestInv
<1>4. stack' \in Seq(Frames) /\ DOMAIN stack' = 1 .. Len(stack')
  BY StackTyped, LenProperties
<1> SUFFICES /\ \A i \in 1 .. Len(stack') :
                   i < Len(stack') \/ step' = "scan.visit"
                      => stack'[i].rest \in Seq(Folders \cup {NoName})
             /\ step' = "scan.name" => Top'.rest \in Seq(Names \cup {NoName})
  BY <1>4 DEF RestInv, Visits
<1>5. CASE Stays
  BY <1>2, <1>3, <1>5, StackCases DEF Visits
<1>6. CASE Rewrites
  <2>1. PICK rest \in Rests :
              /\ stack' = WithRest(rest)
              /\ step' = "scan.name" => rest \in Seq(Names \cup {NoName})
              /\ step' = "scan.visit" => rest \in Seq(Folders \cup {NoName})
    BY <1>6, RewriteCases
  <2>2. /\ Len(stack') = Len(stack) /\ Top'.rest = rest
        /\ \A i \in 1 .. Len(stack) : i < Len(stack) => stack'[i] = stack[i]
    BY <1>2, <2>1, StackRewritten
  <2>3. stack'[Len(stack)].rest = rest
    BY <2>2 DEF Top
  <2> QED
    BY <1>2, <1>3, <2>1, <2>2, <2>3 DEF Visits
<1>7. CASE Returns
  <2>1. /\ Len(stack') = Len(stack) - 1 /\ step' \in {"scan.done", "scan.visit"}
        /\ \A i \in 1 .. Len(stack') : stack'[i] = stack[i]
    BY <1>2, <1>7, StackCases, StackPopped
  <2> QED
    BY <1>2, <1>3, <2>1 DEF Visits
<1>8. CASE VisitChild
  <2>1. step = "scan.visit" /\ step' = "scan.enter" /\ Top.rest # <<>>
    BY <1>8 DEF VisitChild
  <2>2. /\ Len(stack') = Len(stack) + 1
        /\ stack'[Len(stack)].rest = Tail(Top.rest)
        /\ \A i \in 1 .. Len(stack) : i < Len(stack) => stack'[i] = stack[i]
    BY <1>1, <1>2, <1>8, <2>1, TopTyped, StackPushed
  <2>3. Tail(Top.rest) \in Seq(Folders \cup {NoName})
    BY <2>1, NextTyped
  <2>4. \A i \in 1 .. Len(stack) : stack'[i].rest \in Seq(Folders \cup {NoName})
    <3> TAKE i \in 1 .. Len(stack)
    <3>1. CASE i < Len(stack)
      BY <1>3, <2>2, <3>1 DEF Visits
    <3>2. CASE i = Len(stack)
      BY <2>2, <2>3, <3>2
    <3>3. i < Len(stack) \/ i = Len(stack)
      <4>1. Len(stack) \in Nat
        BY <1>2
      <4> QED
        BY <4>1
    <3> QED
      BY <3>1, <3>2, <3>3
  <2>5. \A i \in 1 .. Len(stack') : i < Len(stack') => i \in 1 .. Len(stack)
    BY <1>2, <2>2
  <2> QED
    BY <2>1, <2>4, <2>5
<1> QED
  BY <1>5, <1>6, <1>7, <1>8, StackCases

LEMMA LimitsStep ==
    ASSUME ScanTypeOK, RestInv, LimitsInv, ScanNext
    PROVE  LimitsInv' /\ visited' \subseteq Folders /\ report' \in Reports
<1>1. step \in ScanSteps
  BY StackCases
<1>2. /\ stack \in Seq(Frames) /\ stack # <<>> /\ Len(stack) \in Nat \ {0}
      /\ Top.folder \in Folders /\ visited \subseteq Folders /\ report \in Reports
  BY <1>1, TopTyped DEF ScanTypeOK
<1>3. Len(stack') <= MaxDepth + (IF step' = "scan.enter" THEN 2 ELSE 1)
  <2>1. Len(stack) <= MaxDepth + (IF step = "scan.enter" THEN 2 ELSE 1)
    BY DEF LimitsInv
  <2>2. CASE EnterFolder
    BY <1>2, <2>1, <2>2, LimitsAssumption DEF EnterFolder, LimitReached, Depth
  <2>3. CASE Stays /\ ~EnterFolder
    <3>1. step # "scan.enter"
      BY <2>3 DEF Stays, NewFileList, ListFilesFails, FilesDone, NewFolderList
    <3> QED
      BY <2>1, <2>3, <3>1, StackCases
  <2>4. CASE Rewrites
    <3>1. Len(stack') = Len(stack)
      BY <1>2, <2>4, RewriteCases, StackRewritten
    <3> QED
      BY <2>1, <2>4, <3>1, StackCases
  <2>5. CASE Returns
    <3>1. Len(stack') = Len(stack) - 1 /\ step' \in {"scan.done", "scan.visit"}
      BY <1>2, <2>5, StackCases, StackPopped
    <3> QED
      BY <1>2, <2>1, <3>1, LimitsAssumption
  <2>6. CASE VisitChild
    <3>1. step = "scan.visit" /\ step' = "scan.enter" /\ Top.rest # <<>>
      BY <2>6 DEF VisitChild
    <3>2. Len(stack') = Len(stack) + 1
      BY <1>1, <1>2, <2>6, <3>1, TopTyped, StackPushed
    <3> QED
      BY <1>2, <2>1, <3>1, <3>2, LimitsAssumption
  <2> QED
    BY <2>2, <2>3, <2>4, <2>5, <2>6, StackCases
<1>4. CASE EnterFolder
  <2>1. /\ visited' = visited \cup {Top.folder} /\ Top.folder \notin visited
        /\ report' = [report EXCEPT !.visited = Cardinality(visited')]
        /\ ~(Cardinality(visited) >= MaxFolders)
    BY <1>4 DEF EnterFolder, LimitReached
  <2>2. /\ IsFiniteSet(visited) /\ Cardinality(visited) \in Nat
        /\ IsFiniteSet(visited')
        /\ Cardinality(visited') = Cardinality(visited) + 1
    BY <2>1, FS_AddElement, FS_CardinalityType DEF LimitsInv
  <2>3. /\ report' \in Reports /\ report'.visited = Cardinality(visited')
    BY <1>2, <2>1, <2>2 DEF Reports
  <2> QED
    BY <1>2, <1>3, <2>1, <2>2, <2>3, LimitsAssumption DEF LimitsInv
<1>5. CASE ~EnterFolder
  <2>1. visited' = visited
    BY <1>5 DEF ScanNext, RefuseFolder, SkipFolder, NewFileList, ListFiles,
           ListFilesFails, TakeName, FilesDone, NewFolderList, NewFolderListFails,
           ListFolders, ListFoldersFails, VisitChild, FoldersDone, scanVars
  <2>2. report' \in Reports /\ report'.visited = report.visited
    BY <1>5, ReportStep, FailureShows
  <2> QED
    BY <1>2, <1>3, <2>1, <2>2 DEF LimitsInv
<1> QED
  BY <1>4, <1>5
\* Only TakeName adds a file, and one that was not found before.
LEMMA FilesStep ==
    ASSUME ScanTypeOK, RestInv, NoFileTwice, ScanNext
    PROVE  encoded' \in Seq(Entries) /\ NoFileTwice' /\ Found \subseteq Found'
<1>1. encoded \in Seq(Entries) /\ Len(encoded) \in Nat /\ DOMAIN encoded = 1 .. Len(encoded)
  BY LenProperties DEF ScanTypeOK
<1>2. CASE encoded' = encoded
  BY <1>1, <1>2 DEF NoFileTwice, Found
<1>3. CASE encoded' # encoded
  <2> DEFINE entry == Entry(Top.folder, Head(Top.rest))
  <2>1. TakeName
    BY <1>3 DEF ScanNext, RefuseFolder, SkipFolder, EnterFolder, NewFileList, ListFiles,
           ListFilesFails, FilesDone, NewFolderList, NewFolderListFails,
           ListFolders, ListFoldersFails, VisitChild, FoldersDone, scanVars
  <2>2. /\ encoded' = Append(encoded, entry)
        /\ Head(Top.rest) # NoName /\ entry \notin Found
        /\ step = "scan.name" /\ Top.rest # <<>>
    BY <1>3, <2>1 DEF TakeName
  <2>3. entry \in Entries
    <3>1. Head(Top.rest) \in Names
      BY <2>2, NextTyped
    <3>2. Top.folder \in Folders
      BY <2>2, TopTyped DEF ScanSteps
    <3> QED
      BY <3>1, <3>2 DEF Entry, Entries
  <2> HIDE DEF entry
  <2>4. /\ encoded' \in Seq(Entries) /\ Len(encoded') = Len(encoded) + 1
        /\ encoded'[Len(encoded) + 1] = entry
        /\ \A i \in 1 .. Len(encoded) : encoded'[i] = encoded[i]
    BY <1>1, <2>2, <2>3, OneAppended
  <2>5. DOMAIN encoded' = 1 .. Len(encoded) + 1
    BY <2>4, LenProperties
  <2>6. \A i \in 1 .. Len(encoded) : encoded[i] # entry
    BY <1>1, <2>2 DEF Found
  <2>7. NoFileTwice'
    <3> SUFFICES ASSUME NEW i \in 1 .. Len(encoded) + 1, NEW j \in 1 .. Len(encoded) + 1,
                        encoded'[i] = encoded'[j]
                 PROVE  i = j
      BY <2>5 DEF NoFileTwice
    <3>1. i \in 1 .. Len(encoded) \/ i = Len(encoded) + 1
      BY <1>1
    <3>2. j \in 1 .. Len(encoded) \/ j = Len(encoded) + 1
      BY <1>1
    <3>3. CASE i \in 1 .. Len(encoded) /\ j \in 1 .. Len(encoded)
      BY <3>3, <2>4, <1>1 DEF NoFileTwice
    <3> QED
      BY <3>1, <3>2, <3>3, <2>4, <2>6
  <2>8. Found \subseteq Found'
    <3> SUFFICES ASSUME NEW i \in 1 .. Len(encoded)
                 PROVE  encoded[i] \in Found'
      BY <1>1 DEF Found
    <3>1. i \in DOMAIN encoded' /\ encoded'[i] = encoded[i]
      BY <1>1, <2>4, <2>5
    <3> QED
      BY <3>1 DEF Found
  <2> QED
    BY <2>4, <2>7, <2>8
<1> QED
  BY <1>2, <1>3

\* The activations below the top wait where they are.
LEMMA LowerKept ==
    ASSUME ScanTypeOK, RestInv, ScanNext,
           NEW i \in DOMAIN stack, i < Len(stack)
    PROVE  i \in DOMAIN stack' /\ stack'[i] = stack[i] /\ Visits(i)'
<1>1. step \in ScanSteps
  BY StackCases
<1>2. /\ stack \in Seq(Frames) /\ stack # <<>>
      /\ Len(stack) \in Nat /\ i \in 1 .. Len(stack)
  BY <1>1, TopTyped
<1>3. stack' \in Seq(Frames) /\ DOMAIN stack' = 1 .. Len(stack')
  BY StackTyped, LenProperties
<1>4. CASE Stays
  BY <1>2, <1>3, <1>4, StackCases DEF Visits
<1>5. CASE Rewrites
  <2>1. /\ Len(stack') = Len(stack)
        /\ \A k \in 1 .. Len(stack) : k < Len(stack) => stack'[k] = stack[k]
    BY <1>2, <1>5, RewriteCases, StackRewritten
  <2> QED
    BY <1>2, <1>3, <2>1 DEF Visits
<1>6. CASE Returns
  <2>1. /\ Len(stack') = Len(stack) - 1
        /\ stack' = <<>> <=> step' = "scan.done"
        /\ step' \in {"scan.done", "scan.visit"}
        /\ \A k \in 1 .. Len(stack') : stack'[k] = stack[k]
    BY <1>2, <1>6, StackCases, StackPopped
  <2>2. i \in 1 .. Len(stack')
    BY <1>2, <2>1
  <2>3. stack' # <<>>
    BY <2>2, <1>3, EmptySeq
  <2> QED
    BY <1>3, <2>1, <2>2, <2>3 DEF Visits
<1>7. CASE VisitChild
  <2>1. step = "scan.visit" /\ Top.rest # <<>>
    BY <1>7 DEF VisitChild
  <2>2. /\ Len(stack') = Len(stack) + 1
        /\ \A k \in 1 .. Len(stack) : k < Len(stack) => stack'[k] = stack[k]
    BY <1>1, <1>2, <1>7, <2>1, TopTyped, StackPushed
  <2> QED
    BY <1>2, <1>3, <2>2 DEF Visits
<1> QED
  BY <1>4, <1>5, <1>6, <1>7, StackCases

\* A step that fails nowhere forgets no folder that was reached.
LEMMA ReachedKept ==
    ASSUME ScanNext, ~Fails
    PROVE  Reached \subseteq Reached' /\ visited \subseteq visited'
<1>1. CASE EnterFolder
  BY <1>1 DEF EnterFolder, Reached, Entering
<1>2. CASE SkipFolder
  BY <1>2 DEF SkipFolder, Reached, Entering
<1>3. CASE ~EnterFolder /\ ~SkipFolder
  <2>1. step # "scan.enter" /\ visited' = visited
    BY <1>3 DEF ScanNext, Fails, NewFileList, ListFiles, ListFilesFails, TakeName,
           FilesDone, NewFolderList, NewFolderListFails, ListFolders,
           ListFoldersFails, VisitChild, FoldersDone, scanVars
  <2> QED
    BY <2>1 DEF Reached, Entering
<1> QED
  BY <1>1, <1>2, <1>3
-----------------------------------------------------------------------------
(* Completeness                                                            *)

\* The camera does not change, so what has to be found does not either.
LEMMA TreeKept ==
    ASSUME ScanNext
    PROVE  /\ tree' = tree /\ root' = root
           /\ \A folder : Listed(folder)' = Listed(folder)
           /\ \A folder : Children(folder)' = Children(folder)
<1>1. tree' = tree /\ root' = root
  BY DEF ScanNext, RefuseFolder, SkipFolder, EnterFolder, NewFileList, ListFiles,
         ListFilesFails, TakeName, FilesDone, NewFolderList, NewFolderListFails,
         ListFolders, ListFoldersFails, VisitChild, FoldersDone, scanVars
<1> QED
  BY <1>1 DEF Listed, Children, JoinFolder

\* A folder remains read, or the rest of its files before the activation on top.
LEMMA FilesReadStep ==
    ASSUME ScanTypeOK, RestInv, NoFileTwice, ScanNext, ~Fails,
           NEW folder \in visited, FilesRead(folder)
    PROVE  FilesRead(folder)'
<1>1. Found \subseteq Found' /\ Listed(folder)' = Listed(folder)
  BY FilesStep, TreeKept
<1>2. CASE \A name \in Listed(folder) : Entry(folder, name) \in Found
  BY <1>1, <1>2 DEF FilesRead, Entry
<1>3. CASE step \in {"scan.newFiles", "scan.list"} /\ Top.folder = folder
  <2>1. NewFileList \/ ListFiles
    BY <1>3 DEF ScanNext, Fails, RefuseFolder, SkipFolder, EnterFolder, TakeName,
           FilesDone, NewFolderList, ListFolders, VisitChild, FoldersDone
  <2>2. CASE NewFileList
    BY <1>3, <2>2 DEF NewFileList, Fails, FilesRead, Top
  <2>3. CASE ListFiles
    <3>1. /\ stack \in Seq(Frames) /\ stack # <<>> /\ Top.folder \in Folders
          /\ tree \in Trees
      BY <1>3, TopTyped DEF ScanTypeOK, ScanSteps
    <3>2. /\ tree.files[folder] \in Rests
          /\ stack' = WithRest(tree.files[folder]) /\ step' = "scan.name"
      BY <1>3, <2>3, <3>1, TreeTyped DEF ListFiles
    <3>3. Top'.folder = folder /\ Top'.rest = tree.files[folder]
      BY <1>3, <3>1, <3>2, StackRewritten
    <3>4. \A name \in Listed(folder) : \E j \in DOMAIN Top'.rest : Top'.rest[j] = name
      BY <3>3 DEF Listed
    <3> QED
      BY <1>1, <3>2, <3>3, <3>4 DEF FilesRead
  <2> QED
    BY <2>1, <2>2, <2>3
<1>4. CASE /\ step = "scan.name"
           /\ Top.folder = folder
           /\ \A name \in Listed(folder) :
                 \/ Entry(folder, name) \in Found
                 \/ \E j \in DOMAIN Top.rest : Top.rest[j] = name
  <2>1. TakeName \/ FilesDone
    BY <1>4 DEF ScanNext, Fails, RefuseFolder, SkipFolder, EnterFolder, NewFileList,
           ListFiles, NewFolderList, ListFolders, VisitChild, FoldersDone
  <2>2. CASE FilesDone
    <3>1. DOMAIN Top.rest = {}
      BY <2>2 DEF FilesDone
    <3> QED
      BY <1>1, <1>4, <3>1 DEF FilesRead, Entry
  <2>3. CASE TakeName
    <3>1. /\ stack \in Seq(Frames) /\ stack # <<>> /\ Top.rest # <<>>
          /\ Top.rest \in Seq(Names \cup {NoName}) /\ encoded \in Seq(Entries)
          /\ Top.folder \in Folders
      BY <1>4, <2>3, TopTyped DEF ScanSteps, TakeName, ScanTypeOK
    <3>2. /\ Tail(Top.rest) \in Rests
          /\ stack' = WithRest(Tail(Top.rest)) /\ step' = "scan.name"
      BY <1>4, <2>3, NextTyped DEF TakeName
    <3>3. Top'.folder = folder /\ Top'.rest = Tail(Top.rest)
      BY <1>4, <3>1, <3>2, StackRewritten
    <3>4. /\ Head(Top.rest) = Top.rest[1]
          /\ Len(Top.rest) \in Nat \ {0} /\ DOMAIN Top.rest = 1 .. Len(Top.rest)
          /\ DOMAIN Tail(Top.rest) = 1 .. Len(Top.rest) - 1
          /\ \A i \in 1 .. Len(Top.rest) - 1 : Tail(Top.rest)[i] = Top.rest[i + 1]
      BY <3>1, FirstTaken, EmptySeq, LenProperties
    <3>5. ASSUME NEW name \in Listed(folder), Entry(folder, name) \notin Found'
          PROVE  \E j \in DOMAIN Top'.rest : Top'.rest[j] = name
      <4>1. PICK j \in DOMAIN Top.rest : Top.rest[j] = name
        BY <1>1, <1>4, <3>5
      <4>2. j # 1
        <5> SUFFICES ASSUME j = 1 PROVE FALSE
          OBVIOUS
        <5>1. name = Head(Top.rest) /\ name # NoName
          BY <4>1, <3>4 DEF Listed
        <5>2. Entry(folder, name) \notin Found
          BY <1>1, <3>5
        <5>3. encoded' = Append(encoded, Entry(folder, name))
          BY <1>4, <2>3, <5>1, <5>2 DEF TakeName
        <5>4. Entry(folder, name) \in Entries
          BY <1>4, <2>3, <3>1, <5>1, NextTyped DEF Entry, Entries
        <5>5. Entry(folder, name) \in Found'
          <6>1. /\ encoded' \in Seq(Entries) /\ Len(encoded') = Len(encoded) + 1
                /\ encoded'[Len(encoded) + 1] = Entry(folder, name)
            BY <3>1, <5>3, <5>4, OneAppended
          <6>2. Len(encoded) + 1 \in DOMAIN encoded'
            BY <3>1, <6>1, LenProperties
          <6> QED
            BY <6>1, <6>2 DEF Found
        <5> QED
          BY <5>5, <3>5
      <4>3. j - 1 \in DOMAIN Tail(Top.rest) /\ Tail(Top.rest)[j - 1] = name
        BY <3>4, <4>1, <4>2
      <4> QED
        BY <3>3, <4>3
    <3> QED
      BY <1>1, <3>2, <3>3, <3>5 DEF FilesRead, Entry
  <2> QED
    BY <2>1, <2>2, <2>3
<1> QED
  BY <1>2, <1>3, <1>4 DEF FilesRead
\* A folder's subfolders remain reached, or before an activation of the folder.
LEMMA SubfoldersStep ==
    ASSUME ScanTypeOK, RestInv, ScanNext, ~Fails,
           NEW folder \in visited, SubfoldersVisited(folder)
    PROVE  SubfoldersVisited(folder)'
<1>1. Reached \subseteq Reached' /\ Children(folder)' = Children(folder)
  BY ReachedKept, TreeKept
<1>2. step \in ScanSteps
  BY StackCases
<1>3. /\ stack \in Seq(Frames) /\ stack # <<>> /\ Top.folder \in Folders
      /\ Len(stack) \in Nat \ {0} /\ DOMAIN stack = 1 .. Len(stack)
      /\ tree \in Trees
  BY <1>2, TopTyped DEF ScanTypeOK
<1>4. CASE Children(folder) \subseteq Reached
  BY <1>1, <1>4 DEF SubfoldersVisited
<1>5. CASE /\ step \in {"scan.newFiles", "scan.list", "scan.name", "scan.newFolders",
                       "scan.listFolders"}
           /\ Top.folder = folder
  <2>1. CASE Stays
    BY <1>5, <2>1, StackCases DEF SubfoldersVisited, Top
  <2>2. CASE ListFiles \/ TakeName
    <3>1. step' = "scan.name" /\ Rewrites
      BY <1>5, <2>2 DEF ListFiles, TakeName, Rewrites
    <3>2. Top'.folder = folder
      BY <1>3, <1>5, <3>1, RewriteCases, StackRewritten
    <3> QED
      BY <3>1, <3>2 DEF SubfoldersVisited
  <2>3. CASE ListFolders
    <3>1. /\ tree.sub[folder] \in Rests
          /\ stack' = WithRest(tree.sub[folder]) /\ step' = "scan.visit"
      BY <1>3, <1>5, <2>3, TreeTyped DEF ListFolders
    <3>2. /\ stack' \in Seq(Frames) /\ Len(stack') = Len(stack)
          /\ Top'.folder = folder /\ Top'.rest = tree.sub[folder]
      BY <1>3, <1>5, <3>1, StackRewritten
    <3>3. PICK i \in DOMAIN stack : i = Len(stack)
      BY <1>3
    <3>4. i \in DOMAIN stack' /\ Visits(i)'
      BY <1>3, <3>1, <3>2, <3>3, LenProperties DEF Visits
    <3>5. stack'[i].folder = folder /\ stack'[i].rest = tree.sub[folder]
      BY <3>2, <3>3 DEF Top
    <3>6. \A child \in Children(folder)' : \E j \in DOMAIN stack'[i].rest :
             JoinFolder(folder, stack'[i].rest[j]) = child
      BY <1>1, <3>5 DEF Children
    <3> QED
      BY <3>4, <3>5, <3>6 DEF SubfoldersVisited, JoinFolder
  <2> QED
    BY <1>5, <2>1, <2>2, <2>3
       DEF ScanNext, Fails, Stays, RefuseFolder, SkipFolder, VisitChild, FoldersDone
<1>6. ASSUME NEW i \in DOMAIN stack, Visits(i), stack[i].folder = folder,
             \A child \in Children(folder) :
                \/ child \in Reached
                \/ \E j \in DOMAIN stack[i].rest :
                      JoinFolder(folder, stack[i].rest[j]) = child
      PROVE  SubfoldersVisited(folder)'
  <2>1. CASE i < Len(stack)
    <3>1. i \in DOMAIN stack' /\ stack'[i] = stack[i] /\ Visits(i)'
      BY <2>1, LowerKept
    <3>2. stack'[i].folder = folder
      BY <1>6, <3>1
    <3>3. \A child \in Children(folder)' :
             \/ child \in Reached'
             \/ \E j \in DOMAIN stack'[i].rest :
                   JoinFolder(folder, stack'[i].rest[j]) = child
      BY <1>1, <1>6, <3>1
    <3> QED
      BY <3>1, <3>2, <3>3 DEF SubfoldersVisited, JoinFolder
  <2>2. CASE i = Len(stack)
    <3>1. step = "scan.visit" /\ Top = stack[i]
      BY <1>3, <1>6, <2>2 DEF Visits, Top
    <3>2. VisitChild \/ FoldersDone
      BY <3>1 DEF ScanNext, Fails, RefuseFolder, SkipFolder, EnterFolder, NewFileList,
             ListFiles, TakeName, FilesDone, NewFolderList, ListFolders
    <3>3. CASE FoldersDone
      <4>1. DOMAIN Top.rest = {}
        BY <3>3 DEF FoldersDone
      <4>2. Children(folder) \subseteq Reached
        BY <1>6, <3>1, <4>1
      <4> QED
        BY <1>1, <4>2 DEF SubfoldersVisited
    <3>4. CASE VisitChild
      <4>1. Top.rest # <<>> /\ step' = "scan.enter"
        BY <3>4 DEF VisitChild
      <4>2. Top.rest \in Seq(Folders \cup {NoName})
        BY <1>2, <3>1, TopTyped
      <4>3. /\ stack' \in Seq(Frames) /\ Len(stack') = Len(stack) + 1
            /\ Top'.folder = JoinFolder(Top.folder, Top.rest[1])
            /\ stack'[Len(stack)].rest = Tail(Top.rest)
            /\ \A k \in 1 .. Len(stack) : stack'[k].folder = stack[k].folder
        BY <1>3, <3>4, <4>1, <4>2, StackPushed
      <4>4. i \in DOMAIN stack' /\ Visits(i)' /\ stack'[i].folder = folder
        BY <1>3, <1>6, <2>2, <4>3, LenProperties DEF Visits
      <4>5. /\ Len(Top.rest) \in Nat \ {0} /\ DOMAIN Top.rest = 1 .. Len(Top.rest)
            /\ DOMAIN Tail(Top.rest) = 1 .. Len(Top.rest) - 1
            /\ \A k \in 1 .. Len(Top.rest) - 1 : Tail(Top.rest)[k] = Top.rest[k + 1]
        BY <4>1, <4>2, FirstTaken, EmptySeq, LenProperties
      <4>6. ASSUME NEW child \in Children(folder), child \notin Reached'
            PROVE  \E j \in DOMAIN stack'[i].rest :
                      JoinFolder(folder, stack'[i].rest[j]) = child
        <5>1. PICK j \in DOMAIN Top.rest : JoinFolder(folder, Top.rest[j]) = child
          BY <1>1, <1>6, <3>1, <4>6
        <5>2. j # 1
          BY <1>6, <3>1, <4>1, <4>3, <4>6, <5>1 DEF Reached, Entering
        <5>3. j - 1 \in DOMAIN Tail(Top.rest) /\ Tail(Top.rest)[j - 1] = Top.rest[j]
          BY <4>5, <5>1, <5>2
        <5>4. stack'[i].rest = Tail(Top.rest)
          BY <2>2, <4>3
        <5> QED
          BY <5>1, <5>3, <5>4
      <4> QED
        BY <1>1, <4>4, <4>6 DEF SubfoldersVisited, JoinFolder
    <3> QED
      BY <3>2, <3>3, <3>4
  <2> QED
    BY <1>3, <2>1, <2>2
<1> QED
  BY <1>4, <1>5, <1>6 DEF SubfoldersVisited
\* The root was visited first.
RootSeen == \/ root \in visited
            \/ step = "scan.enter" /\ Len(stack) = 1 /\ Top.folder = root

LEMMA RootStep ==
    ASSUME ScanTypeOK, ScanNext, ~Fails, RootSeen
    PROVE  root' \in visited'
<1>1. root' = root /\ visited \subseteq visited'
  BY TreeKept, ReachedKept
<1>2. CASE step = "scan.enter"
  <2>1. EnterFolder \/ SkipFolder
    BY <1>2 DEF ScanNext, Fails, RefuseFolder, NewFileList, ListFiles, TakeName,
           FilesDone, NewFolderList, ListFolders, VisitChild, FoldersDone
  <2> QED
    BY <1>1, <1>2, <2>1 DEF EnterFolder, SkipFolder, RootSeen
<1> QED
  BY <1>1, <1>2 DEF RootSeen

LEMMA CompleteStep ==
    ASSUME ScanTypeOK, RestInv, NoFileTwice, CompleteInv, ScanNext
    PROVE  CompleteInv'
<1> SUFFICES ASSUME report'.errors = 0
             PROVE  /\ root' \in visited'
                    /\ \A folder \in visited' :
                          FilesRead(folder)' /\ SubfoldersVisited(folder)'
  BY DEF CompleteInv
<1>1. ~Fails
  BY FailureShows
<1>2. report.errors = 0
  <2>1. CASE EnterFolder
    <3>1. report \in Reports
      BY DEF ScanTypeOK
    <3>2. report' = [report EXCEPT !.visited = Cardinality(visited')]
      BY <2>1 DEF EnterFolder
    <3> QED
      BY <3>1, <3>2 DEF Reports
  <2>2. CASE ~EnterFolder
    BY <1>1, <2>2, ReportStep
  <2> QED
    BY <2>1, <2>2
<1>3. step \in ScanSteps
  BY StackCases
<1>4. RootSeen /\ \A folder \in visited : FilesRead(folder) /\ SubfoldersVisited(folder)
  BY <1>2, <1>3 DEF CompleteInv, RootSeen
<1>5. \A folder \in visited : FilesRead(folder)' /\ SubfoldersVisited(folder)'
  BY <1>1, <1>4, FilesReadStep, SubfoldersStep
<1>6. ASSUME NEW folder \in visited', folder \notin visited
      PROVE  FilesRead(folder)' /\ SubfoldersVisited(folder)'
  <2>1. EnterFolder
    BY <1>6 DEF ScanNext, RefuseFolder, SkipFolder, NewFileList, ListFiles,
           ListFilesFails, TakeName, FilesDone, NewFolderList, NewFolderListFails,
           ListFolders, ListFoldersFails, VisitChild, FoldersDone, scanVars
  <2>2. folder = Top.folder /\ Top' = Top /\ step' = "scan.newFiles"
    BY <1>6, <2>1 DEF EnterFolder, Top
  <2> QED
    BY <2>2 DEF FilesRead, SubfoldersVisited
<1> QED
  BY <1>1, <1>4, <1>5, <1>6, RootStep

\* The lists that are live are those the activations hold.
LEMMA ListsStep ==
    ASSUME ScanTypeOK, RestInv, ScanNext, live \in [Kinds -> Int]
    PROVE  /\ live' \in [Kinds -> Int]
           /\ \A k \in Kinds :
                 live'[k] = live[k] + (IF k = "list" THEN ListsHeld' - ListsHeld ELSE 0)
<1> DEFINE Held(s) == IF s \in {"scan.list", "scan.name", "scan.listFolders", "scan.visit"}
                      THEN 1 ELSE 0
<1>1. step \in ScanSteps
  BY StackCases
<1>2. /\ stack \in Seq(Frames) /\ stack # <<>> /\ Len(stack) \in Nat \ {0}
      /\ ListsHeld = Len(stack) - 1 + Held(step) /\ ListsHeld \in Int
  BY <1>1, TopTyped DEF ListsHeld, Depth
<1>3. CASE Stays
  <2>1. ListsHeld' = Len(stack) - 1 + Held(step')
    BY <1>2, <1>3, StackCases DEF ListsHeld, Depth
  <2> QED
    BY <1>2, <1>3, <2>1 DEF Stays, EnterFolder, NewFileList, ListFilesFails, FilesDone,
           NewFolderList, After
<1>4. CASE Rewrites
  <2>1. Len(stack') = Len(stack) /\ stack' # <<>>
    BY <1>2, <1>4, RewriteCases, StackRewritten
  <2>2. ListsHeld' = ListsHeld /\ live' = live
    BY <1>2, <1>4, <2>1, StackCases
       DEF ListsHeld, Depth, Rewrites, ListFiles, ListFolders, TakeName
  <2> QED
    BY <1>2, <2>2
<1>5. CASE Returns
  <2>1. /\ Len(stack') = Len(stack) - 1
        /\ stack' = <<>> <=> step' = "scan.done"
        /\ step' \in {"scan.done", "scan.visit"} /\ stack' \in Seq(Frames)
    BY <1>2, <1>5, StackCases, StackPopped
  <2>2. ListsHeld' = Len(stack) - 1
    BY <1>2, <2>1, EmptySeq DEF ListsHeld, Depth
  <2>3. CASE RefuseFolder \/ SkipFolder \/ NewFolderListFails
    <3>1. live' = live /\ Held(step) = 0
      BY <2>3 DEF RefuseFolder, SkipFolder, NewFolderListFails
    <3> QED
      BY <1>2, <2>2, <3>1
  <2>4. CASE ListFoldersFails \/ FoldersDone
    <3>1. live' = After(live, {}, {"list"}) /\ Held(step) = 1
      BY <2>4 DEF ListFoldersFails, FoldersDone, LeaveFolder
    <3> QED
      BY <1>2, <2>2, <3>1 DEF After
  <2> QED
    BY <1>5, <2>3, <2>4 DEF Returns
<1>6. CASE VisitChild
  <2>1. step = "scan.visit" /\ step' = "scan.enter" /\ Top.rest # <<>> /\ live' = live
    BY <1>6 DEF VisitChild
  <2>2. Len(stack') = Len(stack) + 1 /\ stack' # <<>>
    BY <1>1, <1>2, <1>6, <2>1, TopTyped, StackPushed
  <2> QED
    BY <1>2, <2>1, <2>2 DEF ListsHeld, Depth
<1> QED
  BY <1>3, <1>4, <1>5, <1>6, StackCases

\* Every step of the recursion keeps its invariant.
THEOREM ScanStep ==
    ASSUME ScanInv, ScanNext PROVE ScanInv'
<1>1. /\ ScanTypeOK /\ RestInv /\ LimitsInv /\ NoFileTwice /\ CompleteInv
  BY DEF ScanInv
<1>2. ScanTypeOK'
  <2>1. /\ tree' = tree /\ root' = root
    BY TreeKept
  <2>2. /\ stack' \in Seq(Frames) /\ (step' \in ScanSteps <=> stack' # <<>>)
        /\ visited' \subseteq Folders /\ report' \in Reports
        /\ encoded' \in Seq(Entries)
    BY <1>1, StackTyped, LimitsStep, FilesStep
  <2> QED
    BY <1>1, <2>1, <2>2 DEF ScanTypeOK, Frames
<1>3. RestInv' /\ LimitsInv' /\ NoFileTwice' /\ CompleteInv'
  BY <1>1, RestStep, LimitsStep, FilesStep, CompleteStep
<1> QED
  BY <1>2, <1>3 DEF ScanInv

\* The invariant bounds the recursion, and a scan that is done and reports no
\* error has visited every folder below the root and found every file in them.
THEOREM ScanInvSuffices ==
    ASSUME ScanInv PROVE ScanIsBounded /\ ScanIsCompleteOrSaysSo
<1>1. ScanIsBounded
  BY LenProperties, LimitsAssumption DEF ScanInv, ScanTypeOK, LimitsInv, ScanIsBounded
<1>2. ScanIsCompleteOrSaysSo
  <2> SUFFICES ASSUME step = "scan.done", report.errors = 0
               PROVE  /\ root \in visited
                      /\ \A folder \in visited :
                            /\ Children(folder) \subseteq visited
                            /\ \A name \in Listed(folder) : Entry(folder, name) \in Found
    BY DEF ScanIsCompleteOrSaysSo
  <2>1. stack = <<>> /\ DOMAIN stack = {}
    BY DEF ScanInv, ScanTypeOK, ScanSteps
  <2>2. /\ RootSeen
        /\ \A folder \in visited : FilesRead(folder) /\ SubfoldersVisited(folder)
    BY DEF ScanInv, CompleteInv, RootSeen
  <2> QED
    BY <2>1, <2>2 DEF RootSeen, FilesRead, SubfoldersVisited, Reached, Entering
<1> QED
  BY <1>1, <1>2
=============================================================================
