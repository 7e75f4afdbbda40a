--------------------------- MODULE MCGenericMedia ---------------------------
(* A small instance of GenericMedia for TLC.                               *)
EXTENDS GenericMedia

\* A file of the root folder, and one of a folder below it.
MCFolderOf == [f \in Files |-> IF f = "old.jpg" THEN "/" ELSE "/dcim"]
MCKeyOf == [f \in Files |-> f]
RootPages == [folder : {"/"}, refresh : BOOLEAN]
FolderPages == [folder : {"/dcim"}, refresh : {FALSE}]
=============================================================================
