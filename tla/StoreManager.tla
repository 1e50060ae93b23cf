---------------------------- MODULE StoreManager ----------------------------
(* The node server and the manager over any storage.Interface, one call at a *)
(* time: what a publish, an unpublish, the manager's Stop and NewManager do  *)
(* with the store, with the mounts left out.  RegisterMetadata, WriteFiles   *)
(* and RemoveVolume are sets of what the method may come to.                 *)
CONSTANTS RegisterMetadata(_, _), ReadMetadata(_, _), ListVolumes(_),
          WriteFiles(_, _, _), RemoveVolume(_, _), IsMetadata(_),
          NotFound, NoVolume

VARIABLES store,      \* the store
          managed,    \* the keys of managedVolumes
          answer      \* the last call's volume, what RegisterMetadata
                      \* answered, and how the call ended

Answers(v, registered, result) ==
  answer' = [volume |-> v, registered |-> registered, result |-> result]

\* The deferred cleanup: UnmanageVolume, RemoveVolume, whose error is dropped.
cleanup(s, v, registered, result) ==
  /\ managed' = managed \ {v}
  /\ store' \in {removed.store : removed \in RemoveVolume(s, v)}
  /\ Answers(v, registered, result)

\* NodePublishVolume with ManageVolumeImmediate: a volume that is managed, ready
\* or not, is left as it is.  fetched: getCertificates returns these files
\* rather than an error.
Publish(m, files, fetched) ==
  \E reg \in RegisterMetadata(store, m) :
    LET v    == m.id
        read == ReadMetadata(reg.store, v)
        goes == reg.answer \in BOOLEAN /\ v \notin managed
    IN  \/ /\ reg.answer \notin BOOLEAN
           /\ cleanup(reg.store, v, reg.answer, "store")
        \/ /\ reg.answer \in BOOLEAN /\ v \in managed
           /\ store' = reg.store
           /\ managed' = managed
           /\ Answers(v, reg.answer, "ok")
        \/ /\ goes /\ (~IsMetadata(read) \/ ~fetched)
           /\ cleanup(reg.store, v, reg.answer, IF IsMetadata(read) THEN "fetch" ELSE "store")
        \/ /\ goes /\ IsMetadata(read) /\ fetched
           /\ \E wrote \in WriteFiles(reg.store, read, files) :
                IF wrote.answer = TRUE
                THEN /\ store' = wrote.store
                     /\ managed' = managed \cup {v}
                     /\ Answers(v, reg.answer, "ok")
                ELSE cleanup(wrote.store, v, reg.answer, "store")

Unpublish(v) ==
  /\ managed' = managed \ {v}
  /\ \E removed \in RemoveVolume(store, v) :
       /\ store' = removed.store
       /\ Answers(v, FALSE, IF removed.answer = TRUE THEN "ok" ELSE "store")

Stop ==
  /\ managed' = {}
  /\ Answers(NoVolume, FALSE, "ok")
  /\ UNCHANGED store

\* It lists the volumes, reads the metadata of each and manages it; an error of
\* any of these is one of NewManager.
Starts ==
  LET vols == ListVolumes(store)
  IN  vols # NotFound /\ \A v \in vols : IsMetadata(ReadMetadata(store, v))

NewManager ==
  /\ managed' = IF Starts THEN ListVolumes(store) ELSE {}
  /\ Answers(NoVolume, FALSE, IF Starts THEN "ok" ELSE "store")
  /\ UNCHANGED store
=============================================================================
