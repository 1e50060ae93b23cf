------------------------------ MODULE Manager -------------------------------
(* pkg/manager/manager.go: the set of managed volumes, guarded by a lock.    *)
(* Each operation below runs under the lock, in one step.                    *)
EXTENDS Filesystem

VARIABLE managed      \* the keys of managedVolumes

ManagerTypeOK == managed \subseteq Volumes

ManagerInit == managed = {}

\* True for the caller that gets to manage v.
NotManaged(v) == v \notin managed

manageVolumeIfNotManaged(v) == managed' = managed \cup {v}

\* Mutant: the entry stays in the map.
UnmanageVolume_Kept(v) == managed' = managed

UnmanageVolume(v) == managed' = managed \ {v}

IsVolumeReady(v) == v \in managed /\ Readable(v)

\* NewManager resumes every volume on disk; if it cannot list or read one it
\* fails and the process exits (NewManagerOrDie).
NewManager ==
  /\ Restartable
  /\ managed' = ListVolumes
=============================================================================
