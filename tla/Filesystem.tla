----------------------------- MODULE Filesystem -----------------------------
(* pkg/storage/filesystem.go: the volumes on the driver's tmpfs.  A volume   *)
(* is a directory with metadata.json and data/.  The operations below are    *)
(* the file-system calls the methods make, in the grain at which other       *)
(* processes and crashes can come in between; NodeServer puts them in order. *)
(* util.AtomicWriter appears through what AtomicWriter.tla shows of it: its  *)
(* rename puts the complete files in place in one step, and a ..data_tmp     *)
(* that is in the way makes it fail.                                         *)
EXTENDS Integers, Sequences, FiniteSets

CONSTANTS Volumes,    \* volume ids
          Contexts,   \* volume contexts (the part of the metadata compared)
          Calls,      \* calls that may hold open files or temporary directories
          NoLink,     \* there is no ..data_tmp
          Left        \* it is the one of a call that is gone

VARIABLES volDir,     \* the volumes whose directory exists
          meta,       \* meta[v]: metadata.json: a context, "none" or "truncated"
          data,       \* data[v]: data/: "absent", "empty", "certs", "dangling", or
                      \* a call: certs in a directory that this call will remove
          rootMeta,   \* a metadata.json lies beside the volume directories
          dataTmp,    \* dataTmp[v]: the call whose link data/..data_tmp is
          metaFd,     \* calls whose open metadata.json is still the linked one
          tsDir       \* calls whose timestamped directory still exists

fsVars == <<volDir, meta, data, rootMeta, dataTmp, metaFd, tsDir>>

ASSUME FilesystemConstantsOK ==
  /\ Contexts \cap {"none", "truncated"} = {}
  /\ Calls \cap {"absent", "empty", "certs", "dangling"} = {}
  /\ NoLink # Left /\ {NoLink, Left} \cap Calls = {}

FsTypeOK ==
  /\ volDir \subseteq Volumes
  /\ meta \in [Volumes -> Contexts \cup {"none", "truncated"}]
  /\ data \in [Volumes -> {"absent", "empty", "certs", "dangling"} \cup Calls]
  /\ rootMeta \in BOOLEAN
  /\ dataTmp \in [Volumes -> Calls \cup {NoLink, Left}]
  /\ metaFd \subseteq Calls
  /\ tsDir \subseteq Calls

\* A freshly mounted tmpfs.
FsInit ==
  /\ volDir = {}
  /\ meta = [v \in Volumes |-> "none"]
  /\ data = [v \in Volumes |-> "absent"]
  /\ rootMeta = FALSE
  /\ dataTmp = [v \in Volumes |-> NoLink]
  /\ metaFd = {}
  /\ tsDir = {}

-----------------------------------------------------------------------------
\* "none" stands for ErrNotFound, "truncated" for ErrInvalidJSON.
ReadMetadata(v) == meta[v]

Readable(v) == ReadMetadata(v) \in Contexts

\* ListVolumes opens <entry>/metadata.json for every entry and gives up on the
\* first that has none; a stray metadata.json is such an entry.
ListVolumesOK == ~rootMeta /\ \A v \in volDir : meta[v] # "none"

ListVolumes == volDir

\* What the driver needs to come up: NewManager lists and reads every volume.
Restartable == ListVolumesOK /\ \A v \in ListVolumes : Readable(v)

-----------------------------------------------------------------------------
\* os.MkdirAll of the volume directory and of data/.
ensureVolumeDirectory(v) ==
  /\ volDir' = volDir \cup {v}
  /\ data' = [data EXCEPT ![v] = IF @ = "absent" THEN "empty" ELSE @]
  /\ UNCHANGED <<meta, rootMeta, dataTmp, metaFd, tsDir>>

\* WriteMetadata, first half: os.WriteFile opens the file with O_TRUNC.
openMetadata(c, v) ==
  /\ v \in volDir
  /\ meta' = [meta EXCEPT ![v] = "truncated"]
  /\ metaFd' = metaFd \cup {c}
  /\ UNCHANGED <<volDir, data, rootMeta, dataTmp, tsDir>>

\* Mutant: the zero value is written in place of the metadata.
writeMetadata_Zero(c, v, ctx) ==
  /\ meta' = [meta EXCEPT ![v] = "zero"]
  /\ metaFd' = metaFd \ {c}
  /\ UNCHANGED <<volDir, data, rootMeta, dataTmp, tsDir>>

\* Second half: the bytes go to the file that was opened, linked or not.
writeMetadata(c, v, ctx) ==
  /\ meta' = IF c \in metaFd THEN [meta EXCEPT ![v] = ctx] ELSE meta
  /\ metaFd' = metaFd \ {c}
  /\ UNCHANGED <<volDir, data, rootMeta, dataTmp, tsDir>>

\* RegisterMetadata of an unreadable file: existingMeta is zero, so its empty
\* VolumeID names a metadata.json in the parent of the volume directories.
writeStrayMetadata(v) ==
  /\ volDir' = volDir \cup {v}
  /\ data' = [data EXCEPT ![v] = IF @ = "absent" THEN "empty" ELSE @]
  /\ rootMeta' = TRUE
  /\ UNCHANGED <<meta, dataTmp, metaFd, tsDir>>

\* What RegisterMetadata does about ctx, from one read of metadata.json.
RegisterMetadata(v, ctx) ==
  CASE ReadMetadata(v) = ctx         -> "registered"
    [] ReadMetadata(v) = "truncated" -> "stray"
    [] OTHER                         -> "write"

-----------------------------------------------------------------------------
(* WriteFiles, in the atomic writer.                                         *)

\* A timestamped directory in data/.
makeTsDir(c, v) ==
  /\ data[v] # "absent"
  /\ tsDir' = tsDir \cup {c}
  /\ UNCHANGED <<volDir, meta, data, rootMeta, dataTmp, metaFd>>

\* The files.  Each is written with its parents (MkdirAll), which brings back
\* directories that were removed meanwhile.
fillTsDir(c, v) ==
  /\ volDir' = volDir \cup {v}
  /\ data' = [data EXCEPT ![v] = IF @ = "absent" THEN "empty" ELSE @]
  /\ tsDir' = tsDir \cup {c}
  /\ UNCHANGED <<meta, rootMeta, dataTmp, metaFd>>

\* Symlink(..data_tmp) fails when there is one.
CanLinkTmp(v) == data[v] # "absent" /\ dataTmp[v] = NoLink

linkTmp(c, v) ==
  /\ dataTmp' = [dataTmp EXCEPT ![v] = c]
  /\ UNCHANGED <<volDir, meta, data, rootMeta, metaFd, tsDir>>

\* The rename of whatever ..data_tmp is there now.  It points nowhere if the
\* directory it names was removed meanwhile; and if it is another call's, that
\* call will fail to rename it and remove the directory.
commitFiles(c, v) ==
  /\ dataTmp[v] # NoLink
  /\ data' = [data EXCEPT ![v] = IF dataTmp[v] \notin tsDir THEN "dangling"
                                 ELSE IF dataTmp[v] = c THEN "certs" ELSE dataTmp[v]]
  /\ dataTmp' = [dataTmp EXCEPT ![v] = NoLink]
  /\ tsDir' = tsDir \ {c}
  /\ UNCHANGED <<volDir, meta, rootMeta, metaFd>>

\* A failed rename: Remove(..data_tmp), which may fail as well, and RemoveAll
\* of the timestamped directory.
dropTmp(c, v) ==
  /\ \/ dataTmp' = [dataTmp EXCEPT ![v] = NoLink]
     \/ dataTmp' = [dataTmp EXCEPT ![v] = IF @ = c THEN Left ELSE @]
  /\ data' = [data EXCEPT ![v] = IF @ = c THEN "dangling" ELSE @]
  /\ tsDir' = tsDir \ {c}
  /\ UNCHANGED <<volDir, meta, rootMeta, metaFd>>

HasCerts(v) == data[v] \in Calls \cup {"certs"}

\* A call that gives up forgets what it had open.
forget(c) ==
  /\ metaFd' = metaFd \ {c}
  /\ tsDir' = tsDir \ {c}
  /\ UNCHANGED <<volDir, meta, data, rootMeta, dataTmp>>

\* RemoveVolume is os.RemoveAll: list the entries, remove each, remove the
\* directory; holders(v) are the calls at work on v.
Entries(v) == (IF meta[v] # "none" THEN {"meta"} ELSE {})
                \cup (IF data[v] # "absent" THEN {"data"} ELSE {})

\* Mutant: errors of the unlinks are dropped.
removeEntry_Kept(v, entry, holders) == UNCHANGED fsVars

removeEntry(v, entry, holders) ==
  \/ /\ entry = "meta"
     /\ meta' = [meta EXCEPT ![v] = "none"]
     /\ metaFd' = metaFd \ holders
     /\ UNCHANGED <<volDir, data, rootMeta, dataTmp, tsDir>>
  \/ /\ entry = "data"
     /\ data' = [data EXCEPT ![v] = "absent"]
     /\ dataTmp' = [dataTmp EXCEPT ![v] = NoLink]
     /\ tsDir' = tsDir \ holders
     /\ UNCHANGED <<volDir, meta, rootMeta, metaFd>>

\* Mutant: only the contents are removed.
removeVolumeDir_Kept(v) == UNCHANGED fsVars

removeVolumeDir(v) ==
  /\ volDir' = volDir \ {v}
  /\ UNCHANGED <<meta, data, rootMeta, dataTmp, metaFd, tsDir>>

\* A new tmpfs, empty.
mountTmpfs ==
  /\ volDir' = {}
  /\ meta' = [v \in Volumes |-> "none"]
  /\ data' = [v \in Volumes |-> "absent"]
  /\ rootMeta' = FALSE
  /\ dataTmp' = [v \in Volumes |-> NoLink]
  /\ metaFd' = {}
  /\ tsDir' = {}

\* The process dies: open files are closed, what is on the tmpfs stays.
closeFiles ==
  /\ dataTmp' = [v \in Volumes |-> IF dataTmp[v] = NoLink THEN NoLink ELSE Left]
  /\ data' = [v \in Volumes |-> IF HasCerts(v) THEN "certs" ELSE data[v]]
  /\ metaFd' = {}
  /\ tsDir' = {}
  /\ UNCHANGED <<volDir, meta, rootMeta>>
=============================================================================
