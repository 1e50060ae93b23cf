------------------------------ MODULE MemoryFS ------------------------------
(* pkg/storage/memory.go: the store the manager's tests use.  A store is a   *)
(* map from volume ids to maps from file names to contents, and each method, *)
(* which runs under the lock, is an operator on the store.                   *)
EXTENDS Functions

CONSTANTS MetadataFile,   \* the name metadata.json
          NotFound,       \* ErrNotFound
          InvalidJSON,    \* ErrInvalidJSON
          Metadata        \* the metadata that occurs

\* Assignment to an element of a Go map.
Put(map, key, x) ==
  [k \in DOMAIN map \cup {key} |-> IF k = key THEN x ELSE map[k]]

\* A content is the set of what is in the file (see LinuxTLS): one metadata.
Marshal(m) == {m}

Unmarshal(content) ==
  IF \E m \in Metadata : content = Marshal(m)
  THEN CHOOSE m \in Metadata : content = Marshal(m)
  ELSE InvalidJSON

NewMemoryFS == [v \in {} |-> {}]

HasMetadata(s, v) == v \in DOMAIN s /\ MetadataFile \in DOMAIN s[v]

ReadMetadata(s, v) ==
  IF HasMetadata(s, v) THEN Unmarshal(s[v][MetadataFile]) ELSE NotFound

ListVolumes(s) == DOMAIN s

\* Mutant: metadata that is there is never replaced.
ContextChanged_Never(s, m) == FALSE

ContextChanged(s, m) == ReadMetadata(s, m.id).context # m.context

\* The volume is made if need be; the whole metadata replaces the old.
RegisterMetadata(s, m) ==
  LET volume == IF m.id \in DOMAIN s THEN s[m.id] ELSE [n \in {} |-> {}] IN
  IF ReadMetadata(s, m.id) = InvalidJSON THEN [store |-> s, answer |-> InvalidJSON]
  ELSE IF HasMetadata(s, m.id) /\ ~ContextChanged(s, m)
  THEN [store |-> s, answer |-> FALSE]
  ELSE [store |-> Put(s, m.id, Put(volume, MetadataFile, Marshal(m))), answer |-> TRUE]

\* Mutant: the files replace those of the volume, the metadata too.
AddFiles_Replace(volume, files) == files

\* The files are added to those of the volume.
AddFiles(volume, files) ==
  [n \in DOMAIN volume \cup DOMAIN files |->
     IF n \in DOMAIN files THEN files[n] ELSE volume[n]]

WriteFiles(s, m, files) ==
  IF m.id \in DOMAIN s
  THEN [store |-> Put(s, m.id, AddFiles(s[m.id], files)), answer |-> TRUE]
  ELSE [store |-> s, answer |-> NotFound]

\* Mutant: only the metadata is deleted.
RemoveVolume_Metadata(s, v) ==
  IF v \in DOMAIN s THEN [s EXCEPT ![v] = Restrict(@, DOMAIN @ \ {MetadataFile})] ELSE s

RemoveVolume(s, v) == Restrict(s, DOMAIN s \ {v})

ReadFiles(s, v) == IF v \in DOMAIN s THEN s[v] ELSE NotFound
=============================================================================
