------------------------------ MODULE Storages ------------------------------
(* The two implementations of storage.Interface side by side, each under a   *)
(* manager of its own, given the same calls.  The manager is tested on       *)
(* MemoryFS and runs on Filesystem: the tests are about the driver as far as *)
(* the two behave alike.  They do not where Filesystem refuses what MemoryFS *)
(* takes, where it cannot remove a volume, nor where a file of the source has*)
(* the name under which MemoryFS keeps the metadata; here is what this can   *)
(* lead to.                                                                  *)
EXTENDS VolumeFiles

CONSTANTS Volumes,
          Contexts,       \* volume contexts, with their fsGroup attribute
          Requests,       \* publishes: their metadata, what the source then holds
          MetadataFile,   \* the name metadata.json
          NoMetadata, NotFound, InvalidJSON, Refused, NoVolume

VARIABLES memory, memManaged, memAnswer,     \* MemoryFS and its manager
          disk, diskManaged, diskAnswer,     \* Filesystem and its manager
          running,                           \* there are managers
          refused,     \* history: volumes for which Filesystem returned an error
          kept,        \* history: volumes Filesystem could not remove
          shadowed     \* history: volumes written with a file metadata.json

vars == <<memory, memManaged, memAnswer, disk, diskManaged, diskAnswer, running,
          refused, kept, shadowed>>

\* The kubelet derives the target path from pod and volume: it never changes.
Metadata == {[id |-> v, target |-> v, context |-> k] : v \in Volumes, k \in Contexts}

ASSUME StoragesConstantsOK ==
  /\ \A q \in Requests : q.meta \in Metadata /\ IsFileTree(q.files)
  /\ {NotFound, InvalidJSON, NoMetadata} \cap Metadata = {}
  /\ \A S \in SUBSET Volumes : S # NotFound
  /\ {NotFound, InvalidJSON, Refused} \cap BOOLEAN = {}
  /\ NotFound # InvalidJSON
  /\ NoVolume \notin Volumes

IsMetadata(x) == x \in Metadata

Mem == INSTANCE MemoryFS
Dsk == INSTANCE FilesystemCalls

memRegister(s, m) == {Mem!RegisterMetadata(s, m)}
memRead(s, v) == Mem!ReadMetadata(s, v)
memList(s) == Mem!ListVolumes(s)
memWrite(s, m, files) == {Mem!WriteFiles(s, m, files)}
memRemove(s, v) == {[store |-> Mem!RemoveVolume(s, v), answer |-> TRUE]}

dskRegister(s, m) == Dsk!RegisterMetadata(s, m)
dskRead(s, v) == Dsk!ReadMetadata(s, v)
dskList(s) == Dsk!ListVolumes(s)
dskWrite(s, m, files) == Dsk!WriteFiles(s, m, files)
dskRemove(s, v) == Dsk!RemoveVolume(s, v)

OnMemory == INSTANCE StoreManager WITH
  store <- memory, managed <- memManaged, answer <- memAnswer,
  RegisterMetadata <- memRegister, ReadMetadata <- memRead, ListVolumes <- memList,
  WriteFiles <- memWrite, RemoveVolume <- memRemove

OnDisk == INSTANCE StoreManager WITH
  store <- disk, managed <- diskManaged, answer <- diskAnswer,
  RegisterMetadata <- dskRegister, ReadMetadata <- dskRead, ListVolumes <- dskList,
  WriteFiles <- dskWrite, RemoveVolume <- dskRemove

NoAnswer == [volume |-> NoVolume, registered |-> FALSE, result |-> "ok"]

Init ==
  /\ memory = Mem!NewMemoryFS
  /\ disk = Dsk!NewFilesystem
  /\ memManaged = {} /\ diskManaged = {}
  /\ memAnswer = NoAnswer /\ diskAnswer = NoAnswer
  /\ running = TRUE
  /\ refused = {} /\ kept = {} /\ shadowed = {}

Publish ==
  /\ running
  /\ \E q \in Requests, fetched \in BOOLEAN :
       LET m == q.meta
           files == q.files IN
       /\ OnMemory!Publish(m, files, fetched)
       /\ OnDisk!Publish(m, files, fetched)
       /\ refused' = IF diskAnswer'.result = "store" THEN refused \cup {m.id} ELSE refused
       /\ kept' = IF diskAnswer'.result # "ok" /\ m.id \in DOMAIN disk'
                  THEN kept \cup {m.id} ELSE kept
       /\ shadowed' = IF m.id \notin memManaged /\ fetched /\ MetadataFile \in DOMAIN files
                      THEN shadowed \cup {m.id} ELSE shadowed
  /\ UNCHANGED running

Unpublish ==
  /\ running
  /\ \E v \in Volumes :
       /\ OnMemory!Unpublish(v)
       /\ OnDisk!Unpublish(v)
       /\ refused' = refused \ {v}
       /\ kept' = IF v \in DOMAIN disk' THEN kept \cup {v} ELSE kept \ {v}
       /\ shadowed' = shadowed \ {v}
  /\ UNCHANGED running

Stop ==
  /\ running
  /\ OnMemory!Stop /\ OnDisk!Stop
  /\ running' = FALSE
  /\ UNCHANGED <<refused, kept, shadowed>>

\* There are calls to compare when both have come up.
NewManager ==
  /\ ~running
  /\ OnMemory!NewManager /\ OnDisk!NewManager
  /\ running' = (OnMemory!Starts /\ OnDisk!Starts)
  /\ UNCHANGED <<refused, kept, shadowed>>

Next == Publish \/ Unpublish \/ Stop \/ NewManager

Spec == Init /\ [][Next]_vars

-----------------------------------------------------------------------------
(* The stores come apart on a volume only through an error of Filesystem, a  *)
(* removal that failed or a file metadata.json, and come together again when *)
(* it is unpublished: on the other volumes every call is answered alike, and *)
(* a manager manages the same ones, also after restarts.                     *)
Alike == Volumes \ (refused \cup kept \cup shadowed)

SameAnswers ==
  /\ memAnswer.volume \in Alike => memAnswer = diskAnswer
  /\ running => memManaged \cap Alike = diskManaged \cap Alike

(* On those volumes both have the same metadata, and what Filesystem shows   *)
(* is the rendering of what MemoryFS holds: MemoryFS adds files where        *)
(* Filesystem replaces them, but a volume is written once between removals.  *)
Held(v) == [n \in DOMAIN Mem!ReadFiles(memory, v) \ {MetadataFile} |-> memory[v][n]]

SameContents ==
  \A v \in Alike :
    /\ memRead(memory, v) = dskRead(disk, v)
    /\ v \in DOMAIN memory <=> v \in DOMAIN disk
    /\ v \in DOMAIN disk =>
         \E t \in CleanPayloads(Held(v)) : disk[v].files = Rendering(t)

(* Errors of Filesystem go one way only: as long as no file metadata.json    *)
(* and no volume that could not be removed is in play, MemoryFS never fails  *)
(* a call that Filesystem lets succeed, and has every volume Filesystem has, *)
(* with the same metadata; so a test cannot fail for what the store makes of *)
(* a call the driver serves.                                                 *)
MemoryLenient ==
  /\ /\ diskAnswer.result = "ok" /\ diskAnswer.volume \notin kept \cup shadowed
     /\ running \/ shadowed = {}
     => memAnswer.result = "ok"
  /\ \A v \in DOMAIN disk \ (kept \cup shadowed) :
       v \in DOMAIN memory /\ memRead(memory, v) = dskRead(disk, v)
=============================================================================
