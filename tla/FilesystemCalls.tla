--------------------------- MODULE FilesystemCalls --------------------------
(* pkg/storage/filesystem.go once more, with each method as one operator:    *)
(* what it does when no other call and no crash comes in between (for those, *)
(* see Filesystem).  A store maps the volumes whose directory exists to      *)
(* metadata.json, if there is one, and to the files seen through ..data.     *)
(* A method that may fail returns the set of what it may come to, each with  *)
(* an answer and the store it leaves.                                        *)
EXTENDS VolumeFiles, Functions

CONSTANTS NoMetadata,     \* there is no metadata.json
          NotFound,       \* ErrNotFound
          Refused         \* any other error

NoFiles == [n \in {} |-> {}]

NewFilesystem == [v \in {} |-> {}]

ReadMetadata(s, v) ==
  IF v \notin DOMAIN s \/ s[v].meta = NoMetadata THEN NotFound ELSE s[v].meta

\* A directory without metadata.json makes ListVolumes fail.
ListVolumes(s) ==
  IF \E v \in DOMAIN s : s[v].meta = NoMetadata THEN NotFound ELSE DOMAIN s

ensureVolumeDirectory(s, v) ==
  [w \in DOMAIN s \cup {v} |->
     IF w \in DOMAIN s THEN s[w] ELSE [meta |-> NoMetadata, files |-> NoFiles]]

WriteMetadata(s, v, m) == [s EXCEPT ![v].meta = m]

\* New metadata is written whole; of changed metadata only the context.  Making
\* the directory or writing the file may fail.
RegisterMetadata(s, m) ==
  LET existing == ReadMetadata(s, m.id)
      written  == IF existing = NotFound THEN m
                  ELSE [existing EXCEPT !.context = m.context]
      made     == ensureVolumeDirectory(s, m.id)
  IN  IF existing = written
      THEN {[store |-> s, answer |-> FALSE]}
      ELSE {[store |-> WriteMetadata(made, m.id, written), answer |-> TRUE],
            [store |-> s, answer |-> Refused],
            [store |-> made, answer |-> Refused]}

\* Refused whatever the machine does: the group or a name.
RefusesWrite(m, files) ==
  \/ fsGroupForMetadata(m.context.fsGroup) = Invalid
  \/ \E p \in DOMAIN files : ~validatePath(p)

\* The clean payloads that can be written, bundled and linked.
Writable(files) ==
  {t \in CleanPayloads(files) : ~Clashes(t) /\ ~BundleBlocked(t) /\ ~TmpTaken(t)}

\* ..data points to the new files.
Commit(s, v, t) == [s EXCEPT ![v].files = t]

\* The rendering replaces the files of the volume; a file just written can be read
\* back (for one that cannot, see Provision).  A chown, a file-system call
\* or a dirFunc may fail, before the commit or after it.
WriteFiles(s, m, files) ==
  LET made  == ensureVolumeDirectory(s, m.id)
      shown == IF RefusesWrite(m, files) THEN {}
               ELSE {Rendering(t) : t \in Writable(files)}
  IN  {[store |-> Commit(made, m.id, t), answer |-> a] :
         t \in shown, a \in {TRUE, Refused}}
      \cup {[store |-> made, answer |-> Refused]}

\* os.RemoveAll may fail and leave the directory, with metadata.json and data
\* there or gone.
Remnants(e) ==
  {[meta |-> m, files |-> fs] : m \in {e.meta, NoMetadata}, fs \in {e.files, NoFiles}}

RemoveVolume(s, v) ==
  {[store |-> Restrict(s, DOMAIN s \ {v}), answer |-> TRUE]}
  \cup IF v \in DOMAIN s
       THEN {[store |-> [s EXCEPT ![v] = e], answer |-> Refused] : e \in Remnants(s[v])}
       ELSE {}
=============================================================================
