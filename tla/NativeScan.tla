----------------------------- MODULE NativeScan -----------------------------
(***************************************************************************)
(* collect_camera_files of flyphoto_gphoto2_bridge.cpp: the depth-first    *)
(* listing of the camera's folders behind nativeListFiles.  The recursion  *)
(* is a stack of frames, every library call a step that may fail, and a    *)
(* frame below the top waits in the loop over its subfolders, holding its  *)
(* folder list.  NativeBridge runs the scan inside a JNI call.             *)
(***************************************************************************)
EXTENDS GPhoto2, Sequences, FiniteSets

CONSTANTS Folders,     \* paths of folders
          Names,       \* names of files
          Trees,       \* what a camera may hold
          Failures,    \* the result codes failing calls are given
          MaxDepth,    \* 32
          MaxFolders,  \* 512
          MaxErrors    \* 20

NoName == ""           \* an empty name, or the null pointer of a failed lookup
Entries == [folder : Folders, name : Names]
TreeShape == [files : [Folders -> Seq(Names \cup {NoName})],
              sub : [Folders -> Seq(Folders \cup {NoName})]]

ASSUME NamesAssumption == NoName \notin Names \cup Folders
ASSUME TreesAssumption == Trees \subseteq TreeShape
ASSUME FailuresAssumption == Failures \subseteq Errors /\ Failures # {}
ASSUME LimitsAssumption ==
    MaxDepth \in Nat /\ MaxFolders \in Nat \ {0} /\ MaxErrors \in Nat \ {0}

VARIABLES
    step,      \* where the JNI call under way is; "idle" when there is none
    live,      \* live library objects of every kind
    tree,      \* what the camera holds
    root,      \* the folder the scan was asked for
    stack,     \* activations of collect_camera_files: folder, entries to visit
    visited,   \* visited_folders
    encoded,   \* the files found, in order; discovered_files is their set
    report     \* MediaScanReport

scanVars == <<tree, root, stack, visited, encoded, report>>

ScanSteps == {"scan.enter", "scan.newFiles", "scan.list", "scan.name",
              "scan.newFolders", "scan.listFolders", "scan.visit"}

\* MediaScanReport as a new one is initialised.
EmptyReport == [rootFiles |-> GP_ERROR, rootFolders |-> GP_ERROR,
                visited |-> 0, discovered |-> 0, errors |-> 0]

ScanInit ==
    /\ tree \in Trees
    /\ root = NoName
    /\ stack = <<>>
    /\ visited = {}
    /\ encoded = <<>>
    /\ report = EmptyReport

-----------------------------------------------------------------------------
(* Helpers                                                                 *)

Top == stack[Len(stack)]
Depth == Len(stack) - 1
Frame(folder, rest) == [folder |-> folder, rest |-> rest]
WithRest(rest) == [stack EXCEPT ![Len(stack)] = Frame(Top.folder, rest)]

\* join_folder: a child without a name is the folder itself.
JoinFolder(parent, child) == IF child = NoName THEN parent ELSE child

\* record_scan_error: the list of messages stops growing at its cap.
RecordError(rep) ==
    [rep EXCEPT !.errors = IF @ >= MaxErrors THEN @ ELSE @ + 1]

\* Results are kept for the root folder only.
FilesResult(rep, result) ==
    [rep EXCEPT !.rootFiles = IF Depth = 0 THEN result ELSE @]
FoldersResult(rep, result) ==
    [rep EXCEPT !.rootFolders = IF Depth = 0 THEN result ELSE @]

\* The activation returns to the loop of its caller, or to nativeListFiles.
Return ==
    /\ stack' = SubSeq(stack, 1, Len(stack) - 1)
    /\ step' = IF Len(stack) = 1 THEN "scan.done" ELSE "scan.visit"

Entry(folder, name) == [folder |-> folder, name |-> name]
Found == {encoded[i] : i \in DOMAIN encoded}

-----------------------------------------------------------------------------
(* One activation                                                          *)

\* The guard at the head of the function.
LimitReached == Depth > MaxDepth \/ Cardinality(visited) >= MaxFolders

\* A scan that turns back at its limits without a word.
RefuseSilently ==
    /\ step = "scan.enter"
    /\ LimitReached
    /\ Return
    /\ UNCHANGED <<live, tree, root, visited, encoded, report>>

\* The guards: too deep or too many folders, and a folder seen before.
RefuseFolder ==
    /\ step = "scan.enter"
    /\ LimitReached
    /\ report' = RecordError(report)
    /\ Return
    /\ UNCHANGED <<live, tree, root, visited, encoded>>

SkipFolder ==
    /\ step = "scan.enter"
    /\ ~LimitReached /\ Top.folder \in visited
    /\ Return
    /\ UNCHANGED <<live, tree, root, visited, encoded, report>>

EnterFolder ==
    /\ step = "scan.enter"
    /\ ~LimitReached /\ Top.folder \notin visited
    /\ visited' = visited \cup {Top.folder}
    /\ report' = [report EXCEPT !.visited = Cardinality(visited')]
    /\ step' = "scan.newFiles"
    /\ UNCHANGED <<live, tree, root, stack, encoded>>

\* gp_list_new for the files; without a list the files are given up.
NewFileList ==
    /\ step = "scan.newFiles"
    /\ \/ /\ live' = After(live, {"list"}, {})
          /\ step' = "scan.list"
          /\ UNCHANGED report
       \/ /\ \E result \in Failures :
                report' = RecordError(FilesResult(report, result))
          /\ step' = "scan.newFolders"
          /\ UNCHANGED live
    /\ UNCHANGED <<tree, root, stack, visited, encoded>>

\* gp_camera_folder_list_files succeeds: the list holds the folder's files.
ListFiles ==
    /\ step = "scan.list"
    /\ report' = FilesResult(report, GP_OK)
    /\ stack' = WithRest(tree.files[Top.folder])
    /\ step' = "scan.name"
    /\ UNCHANGED <<live, tree, root, visited, encoded>>

\* It fails: the error is recorded, the list freed, the subfolders still tried.
ListFilesFails ==
    /\ step = "scan.list"
    /\ \E result \in Failures :
          report' = RecordError(FilesResult(report, result))
    /\ live' = After(live, {}, {"list"})
    /\ step' = "scan.newFolders"
    /\ UNCHANGED <<tree, root, stack, visited, encoded>>

\* A loop that does not move past an entry without a name.
StuckOnNoName ==
    /\ step = "scan.name" /\ Top.rest # <<>>
    /\ LET name == Head(Top.rest)
           entry == Entry(Top.folder, name)
       IN  /\ encoded' = IF name # NoName /\ entry \notin Found
                         THEN Append(encoded, entry) ELSE encoded
           /\ stack' = IF name # NoName THEN WithRest(Tail(Top.rest)) ELSE stack
    /\ UNCHANGED <<step, live, tree, root, visited, report>>

\* The next name of the list: added unless it is empty or was found before.
TakeName ==
    /\ step = "scan.name" /\ Top.rest # <<>>
    /\ LET name == Head(Top.rest)
           entry == Entry(Top.folder, name)
       IN  encoded' = IF name # NoName /\ entry \notin Found
                      THEN Append(encoded, entry) ELSE encoded
    /\ stack' = WithRest(Tail(Top.rest))
    /\ UNCHANGED <<step, live, tree, root, visited, report>>

FilesDone ==
    /\ step = "scan.name" /\ Top.rest = <<>>
    /\ live' = After(live, {}, {"list"})
    /\ step' = "scan.newFolders"
    /\ UNCHANGED scanVars

\* gp_list_new for the subfolders, held until the activation returns.
NewFolderList ==
    /\ step = "scan.newFolders"
    /\ live' = After(live, {"list"}, {})
    /\ step' = "scan.listFolders"
    /\ UNCHANGED scanVars

NewFolderListFails ==
    /\ step = "scan.newFolders"
    /\ \E result \in Failures :
          report' = RecordError(FoldersResult(report, result))
    /\ Return
    /\ UNCHANGED <<live, tree, root, visited, encoded>>

ListFolders ==
    /\ step = "scan.listFolders"
    /\ report' = FoldersResult(report, GP_OK)
    /\ stack' = WithRest(tree.sub[Top.folder])
    /\ step' = "scan.visit"
    /\ UNCHANGED <<live, tree, root, visited, encoded>>

\* The end of the activation: the list is freed, the files counted.
LeaveFolder(rep) ==
    /\ live' = After(live, {}, {"list"})
    /\ report' = [rep EXCEPT !.discovered = Len(encoded)]
    /\ Return

ListFoldersFails ==
    /\ step = "scan.listFolders"
    /\ \E result \in Failures :
          LeaveFolder(RecordError(FoldersResult(report, result)))
    /\ UNCHANGED <<tree, root, visited, encoded>>

\* The recursive call for the next subfolder.
VisitChild ==
    /\ step = "scan.visit" /\ Top.rest # <<>>
    /\ stack' = Append(WithRest(Tail(Top.rest)),
                       Frame(JoinFolder(Top.folder, Head(Top.rest)), <<>>))
    /\ step' = "scan.enter"
    /\ UNCHANGED <<live, tree, root, visited, encoded, report>>

FoldersDone ==
    /\ step = "scan.visit" /\ Top.rest = <<>>
    /\ LeaveFolder(report)
    /\ UNCHANGED <<tree, root, visited, encoded>>

ScanNext ==
    \/ RefuseFolder \/ SkipFolder \/ EnterFolder
    \/ NewFileList \/ ListFiles \/ ListFilesFails \/ TakeName \/ FilesDone
    \/ NewFolderList \/ NewFolderListFails \/ ListFolders \/ ListFoldersFails
    \/ VisitChild \/ FoldersDone

-----------------------------------------------------------------------------
(* What must hold                                                          *)

Rests == Seq(Names \cup Folders \cup {NoName})
Reports == [rootFiles : Results, rootFolders : Results, visited : Nat,
            discovered : Nat, errors : 0 .. MaxErrors]

ScanTypeOK ==
    /\ tree \in Trees
    /\ root \in Folders \cup {NoName}
    /\ stack \in Seq([folder : Folders, rest : Rests])
    /\ visited \in SUBSET Folders
    /\ encoded \in Seq(Entries)
    /\ report \in Reports
    /\ step \in ScanSteps <=> stack # <<>>

\* The activations that are in the loop over their subfolders.
Visits(i) == i < Len(stack) \/ step = "scan.visit"

\* What an activation still has to go through are files or subfolders.
RestInv ==
    /\ \A i \in DOMAIN stack :
          Visits(i) => stack[i].rest \in Seq(Folders \cup {NoName})
    /\ step = "scan.name" => Top.rest \in Seq(Names \cup {NoName})

\* Lists the activations hold: the one of every caller and the top's own.
ListsHeld ==
    IF stack = <<>> THEN 0
    ELSE Depth + (IF step \in {"scan.list", "scan.name", "scan.listFolders",
                               "scan.visit"} THEN 1 ELSE 0)

Listed(folder) == {tree.files[folder][i] : i \in DOMAIN tree.files[folder]} \ {NoName}
Children(folder) == {JoinFolder(folder, tree.sub[folder][i]) :
                        i \in DOMAIN tree.sub[folder]}

\* A scan that reports no error has visited the root and every folder below it,
\* and returns every file of them: whatever fails in the recursion (an
\* allocation, a listing, a limit) leaves at least one message, although the
\* code goes on with the other folders and the list of messages is cut off.
ScanIsCompleteOrSaysSo ==
    step = "scan.done" /\ report.errors = 0
        => /\ root \in visited
           /\ \A folder \in visited :
                 /\ Children(folder) \subseteq visited
                 /\ \A name \in Listed(folder) :
                       Entry(folder, name) \in Found

\* Why this is so.  As long as no error was recorded a visited folder is read,
\* or an activation has the rest of its files or of its subfolders before it; a
\* subfolder is visited, or is the one just entered.
Entering == IF step = "scan.enter" THEN {Top.folder} ELSE {}
Reached == visited \cup Entering

FilesRead(folder) ==
    \/ \A name \in Listed(folder) : Entry(folder, name) \in Found
    \/ /\ step \in {"scan.newFiles", "scan.list"}
       /\ Top.folder = folder
    \/ /\ step = "scan.name"
       /\ Top.folder = folder
       /\ \A name \in Listed(folder) : \/ Entry(folder, name) \in Found
                                        \/ \E j \in DOMAIN Top.rest : Top.rest[j] = name

SubfoldersVisited(folder) ==
    \/ Children(folder) \subseteq Reached
    \/ /\ step \in {"scan.newFiles", "scan.list", "scan.name", "scan.newFolders",
                    "scan.listFolders"}
       /\ Top.folder = folder
    \/ \E i \in DOMAIN stack :
          /\ Visits(i) /\ stack[i].folder = folder
          /\ \A child \in Children(folder) :
                \/ child \in Reached
                \/ \E j \in DOMAIN stack[i].rest :
                      JoinFolder(folder, stack[i].rest[j]) = child

CompleteInv ==
    step \in ScanSteps \cup {"scan.done"} /\ report.errors = 0
        => /\ \/ root \in visited
              \/ step = "scan.enter" /\ Len(stack) = 1 /\ Top.folder = root
           /\ \A folder \in visited : FilesRead(folder) /\ SubfoldersVisited(folder)

\* A file is returned once, however often a listing names it and by whatever
\* ways its folder is reached.
NoFileTwice ==
    \A i, j \in DOMAIN encoded : encoded[i] = encoded[j] => i = j

\* Only the activation that has just begun may be too deep, and the count in the
\* report is that of the set.
LimitsInv ==
    /\ Len(stack) <= MaxDepth + (IF step = "scan.enter" THEN 2 ELSE 1)
    /\ IsFiniteSet(visited) /\ Cardinality(visited) <= MaxFolders
    /\ report.visited = Cardinality(visited)

ScanInv == ScanTypeOK /\ RestInv /\ LimitsInv /\ NoFileTwice /\ CompleteInv

\* The recursion stays within its limits on any tree: one activation more than
\* the depth may be entered to be refused, and no folder beyond MaxFolders.
ScanIsBounded ==
    Len(stack) <= MaxDepth + 2 /\ Cardinality(visited) <= MaxFolders
=============================================================================
