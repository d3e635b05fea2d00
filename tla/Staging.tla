------------------------------ MODULE Staging ------------------------------
(***************************************************************************)
(* What becomes of the files somebody publishes on their way through the    *)
(* command line's archive and the server's staging directory. A path is the *)
(* sequence of its components. Sizes and counts beyond the limits refuse an *)
(* upload as a whole.                                                       *)
(***************************************************************************)
EXTENDS Integers, Sequences

CONSTANTS
    Hidden,     \* components that begin with "."
    MacOS,      \* the component "__MACOSX"
    MacLike,    \* components that contain it, itself included
    Html        \* components that end in ".html"

ASSUME StagingAssumption ==
    /\ MacOS \in MacLike
    /\ Hidden \cap Html = {}

(* What is published: the parts of an upload, each a directory or an        *)
(* archive somebody made, whose paths are unique, or files one by one. The  *)
(* command line sends one part, browsers may send archives among files.     *)
Kinds == {"directory", "archive", "files"}

(* walk_dir_recursive goes past hidden names and __MACOSX, files or not.    *)
WalkDir(files) ==
    {p \in files : \A k \in 1..Len(p) : p[k] \notin Hidden /\ p[k] # MacOS}

(* The command line zips a directory and sends a file as it is.             *)
PrepareUpload(part) ==
    IF part.kind = "directory"
    THEN [kind |-> "archive", files |-> WalkDir(part.files)]
    ELSE part

IsSafeRelativePath(p) ==
    \A k \in 1..Len(p) : p[k] \notin Hidden /\ p[k] \notin MacLike

(* The top directory goes if all files are in it.                           *)
StripCommonPrefix(files) ==
    IF /\ \A p \in files : Len(p) > 1
       /\ \A p, q \in files : p[1] = q[1]
    THEN {Tail(p) : p \in files}
    ELSE files

ExtractZip(files) == StripCommonPrefix({p \in files : IsSafeRelativePath(p)})

(* A file by itself loses the components that are hidden.                   *)
Seen(component) == component \notin Hidden
SanitizeFilename(p) == SelectSeq(p, Seen)

(* stage_upload: the files it writes, and whether it accepts the upload.    *)
StagedPart(part) ==
    LET upload == PrepareUpload(part)
    IN  IF upload.kind = "archive" THEN ExtractZip(upload.files)
        ELSE {SanitizeFilename(p) : p \in upload.files}

StagedFiles(source) == UNION {StagedPart(part) : part \in source}

HtmlFiles(files) == {p \in files : p # <<>> /\ p[Len(p)] \in Html}

Accepted(source) == HtmlFiles(StagedFiles(source)) # {}
=============================================================================
