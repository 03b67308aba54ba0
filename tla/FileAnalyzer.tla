------------------------------ MODULE FileAnalyzer ------------------------------
(***************************************************************************)
(* How forklift finds the type of an uploaded file                         *)
(* (pkg/fileanalyzer/fileanalyzer.go, mime.go) and what it announces about *)
(* it (HandleUpload of apps/forklift/forklift.go).  An extension is a pair *)
(* of the number of leading dots and a name: the detector's "mp4" is       *)
(* <<0, "mp4">>, what path.Ext finds in "a.mp4" is <<1, "mp4">>, and a dot *)
(* is put in front by adding one.                                          *)
(***************************************************************************)
EXTENDS Naturals, FiniteSets

CONSTANTS
    Headers,       \* names of the types that the detector tells from the header
    FileExts,      \* what path.Ext may find in the name that the user gave
    MediaStreams   \* sets of kinds of streams that ffprobe may find

\* An extension has any number of dots; "unknown" is no extension.
ASSUME FileAnalyzerAssumption ==
    Headers \subseteq STRING /\ "unknown" \notin Headers /\ FileExts \subseteq Nat \X STRING

VARIABLES
    file,          \* the file: "ok", "empty" or "missing"
    header,        \* the name of the detected type, or "unknown"
    name,          \* the name the user gave: [given, ext]; the local file has none
    probe,         \* what ffprobe makes of the file
    at,            \* where Analyze and its caller are
    mediaType,     \* si.MediaType
    mediaInfo,     \* the kind of stream si.MediaInfo was read from, or "nil"
    meta           \* the message: type, extension of FileName, dimensions or not

analyzerVars == <<file, header, name, probe, at, mediaType, mediaInfo, meta>>

Unknown == "unknown"
NoExt == <<0, "">>
Dot(ext) == <<ext[1] + 1, ext[2]>>

\* The table: one entry of each kind (the others differ in their MIME type),
\* and the types that have synonyms.  The detector knows rar and ar, the table
\* does not.
Kind(n) ==
    CASE n \in {"mp4", "mov", "avi"} -> "video"
      [] n = "mp3" -> "audio"
      [] n = "jpg" -> "image"
      [] n \in {"md", "doc", "cbz", "cbr"} -> "document"
      [] n \in {"zip", "a"} -> "binary"
      [] n = "stl" -> "model"
      [] OTHER -> "none"

extensions(ext) ==
    IF ext[1] = 1 /\ Kind(ext[2]) # "none" THEN {[kind |-> Kind(ext[2]), of |-> ext]} ELSE {}

defaultType == [kind |-> "binary", of |-> NoExt]

\* Keys and values have their dots.
synonyms(ext) ==
    CASE ext = <<1, "zip">> -> {<<1, "cbz">>}
      [] ext = <<1, "rar">> -> {<<1, "cbr">>}
      [] ext = <<1, "ar">> -> {<<1, "a">>}
      [] OTHER -> {}

Types == [kind : {"video", "audio", "image", "document", "binary", "model"},
          of : {NoExt} \cup ({1} \X (Headers \cup {e[2] : e \in FileExts}))]
NoType == [kind |-> "nil", of |-> NoExt]
NoMeta == [type |-> NoType, nameExt |-> NoExt, sized |-> FALSE]

\* Types of the state.  Media info is there only for a media type.
AnalyzerTypeOK ==
    /\ file \in {"ok", "empty", "missing"} /\ header \in Headers \cup {Unknown}
    /\ name \in [given : BOOLEAN, ext : FileExts]
    /\ probe \in MediaStreams \cup {{"error"}}
    /\ at \in {"read", "type", "info", "meta", "failed", "done"}
    /\ mediaType \in Types \cup {NoType}
    /\ mediaInfo \in {"nil", "video", "audio"}
    /\ mediaInfo # "nil" => mediaType.kind \in {"video", "audio", "image"}

AnalyzerInit ==
    /\ file \in {"ok", "empty", "missing"}
    /\ header \in Headers \cup {Unknown}
    /\ name \in [given : BOOLEAN, ext : FileExts] /\ (~name.given => name.ext = NoExt)
    /\ probe \in MediaStreams \cup {{"error"}}
    /\ at = "read" /\ mediaType = NoType /\ mediaInfo = "nil" /\ meta = NoMeta

-----------------------------------------------------------------------------

\* Analyze: a file that can not be opened or has no byte is refused; without a
\* name the base of the local path, which has no extension, is used.
ReadHeader ==
    /\ at = "read"
    /\ at' = IF file = "ok" THEN "type" ELSE "failed"
    /\ UNCHANGED <<file, header, name, probe, mediaType, mediaInfo, meta>>

\* Mutant of TypeOf: a name with an extension decides before the header.
TypeOfName(h, fileExt) ==
    LET found == extensions(fileExt)
        detected == extensions(Dot(<<0, h>>))
    IN  IF found # {} THEN CHOOSE t \in found : TRUE
        ELSE IF detected # {} THEN CHOOSE t \in detected : TRUE ELSE defaultType

\* The extension that is looked up, and the type.
Chosen(h, fileExt) ==
    LET detExt == IF h = Unknown THEN fileExt ELSE <<0, h>>
    IN  IF detExt # fileExt /\ fileExt \notin synonyms(detExt) THEN detExt ELSE fileExt

TypeOf(h, fileExt) ==
    LET found == extensions(Dot(Chosen(h, fileExt)))
    IN  IF found = {} THEN defaultType ELSE CHOOSE t \in found : TRUE

DetectMediaType ==
    /\ at = "type"
    /\ mediaType' = TypeOf(header, name.ext)
    /\ at' = "info"
    /\ UNCHANGED <<file, header, name, probe, mediaInfo, meta>>

Needed(kind) == IF kind = "image" THEN "video" ELSE kind

\* Other types are not probed; an error or a missing stream leaves no media
\* info, and the caller goes on in each case, as there is a StreamInfo.
DetectMediaInfo ==
    /\ at = "info"
    /\ mediaInfo' =
          IF mediaType.kind \in {"video", "image", "audio"} /\ Needed(mediaType.kind) \in probe
          THEN Needed(mediaType.kind) ELSE "nil"
    /\ at' = "meta"
    /\ UNCHANGED <<file, header, name, probe, mediaType, meta>>

\* HandleUpload fills in the message; a name without an extension gets the
\* one of the type.
Describe ==
    /\ at = "meta"
    /\ meta' = [type |-> mediaType,
                nameExt |-> IF name.ext = NoExt THEN mediaType.of ELSE name.ext,
                sized |-> mediaInfo # "nil"]
    /\ at' = "done"
    /\ UNCHANGED <<file, header, name, probe, mediaType, mediaInfo>>

AnalyzerNext == ReadHeader \/ DetectMediaType \/ DetectMediaInfo \/ Describe
AnalyzerSpec == AnalyzerInit /\ [][AnalyzerNext]_analyzerVars

-----------------------------------------------------------------------------

\* What the header tells decides the type, whatever the name says, unless the
\* name has a synonym of it (DetectMediaType).
HeaderDecides ==
    at \in {"info", "meta", "done"} /\ header # Unknown /\ name.ext \notin synonyms(<<1, header>>)
        => mediaType = IF Kind(header) = "none" THEN defaultType
                       ELSE [kind |-> Kind(header), of |-> <<1, header>>]

\* Only a file without a byte is refused, and such a file is never announced;
\* files that ffprobe can not read pass.
RefusedIsEmpty == at \in {"failed", "done"} => (at = "failed") = (file # "ok")

\* Dimensions are announced when ffprobe has found a stream of the kind that
\* the type calls for.
SizedIsMedia ==
    at = "done" => meta.sized = (/\ mediaType.kind \in {"video", "image", "audio"}
                                 /\ Needed(mediaType.kind) \in probe)

\* A file of a known type is announced with a name that has an extension.
NameHasExtension == at = "done" /\ mediaType.of # NoExt => meta.nameExt # NoExt

\* What the analysis of a file tells about it: each line is stated above.
AnalyzerSafe ==
    /\ AnalyzerTypeOK
    /\ HeaderDecides
    /\ RefusedIsEmpty
    /\ SizedIsMedia
    /\ NameHasExtension
=============================================================================
