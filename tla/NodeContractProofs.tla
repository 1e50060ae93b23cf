------------------------- MODULE NodeContractProofs -------------------------
(* Proofs about NodeServer while every call runs to its end: what is on the  *)
(* node between calls and at every step of one, and that the node server     *)
(* implements VolumeContract.                                                *)
EXTENDS NodeSerialProofs

\* The process is not killed in the middle of a call, and what is to be removed
\* can be removed.
CallsComplete == OneAtATime /\ ~KillBusy /\ "remove" \notin Faults

-----------------------------------------------------------------------------
(* What is on the node for a volume.                                         *)

\* No entry without the directory it is in.
Tree(v) ==
  /\ v \notin volDir => meta[v] = "none" /\ data[v] = "absent"
  /\ data[v] = "absent" => dataTmp[v] = NoLink

\* Nothing.
Clean(v) ==
  /\ v \notin volDir \cup managed
  /\ meta[v] = "none" /\ data[v] = "absent" /\ dataTmp[v] = NoLink
  /\ mounts[v] = << >>

\* A directory, with data/ in the given state.
Holds(v, contents, links) ==
  /\ v \in volDir
  /\ data[v] = contents /\ dataTmp[v] = links

\* The certificates, mounted.
Live(v) == Holds(v, "certs", NoLink) /\ mounts[v] = <<"live">>

\* A volume whose first publish has got to its directory.
Begun(v) == Holds(v, "empty", NoLink) /\ mounts[v] = << >> /\ v \notin managed

\* Between calls.
Settled(v) ==
  /\ kube[v] \in {"want", "uncertain", "gone"} => Clean(v)
  /\ kube[v] = "published" => Live(v) /\ Readable(v)
  /\ kube[v] = "published" /\ proc \in {"listen", "run", "serving", "stopping"} => v \in managed
  /\ kube[v] = "unwant" => Clean(v) \/ (Live(v) /\ Readable(v))

\* During a call, step by step.
Publishing(c, v) ==
  /\ pc[c] \in PublishSteps => pc[c] # "regStray" /\ kube[v] \in {"want", "uncertain", "published"}
  /\ pc[c] \in {"validate", "regRead", "regDirs"} =>
       Clean(v) \/ (Live(v) /\ v \in managed /\ Readable(v))
  /\ pc[c] \in {"regOpen", "regWrite", "ready"} => Begun(v) \/ (Live(v) /\ v \in managed)
  /\ pc[c] = "regWrite" => c \in metaFd
  /\ pc[c] \in {"ready", "manage"} => Readable(v)
  /\ pc[c] = "manage" => Begun(v)
  /\ pc[c] \in {"readMeta", "fetch", "ensure", "mkTs", "fill", "link", "rename", "isMnt", "mount"} =>
       Readable(v) /\ v \in managed
  /\ pc[c] \in {"readMeta", "fetch", "ensure", "mkTs", "fill", "link"} =>
       Holds(v, "empty", NoLink) /\ mounts[v] = << >>
  /\ pc[c] \in {"link", "rename"} => c \in tsDir
  /\ pc[c] = "rename" => Holds(v, "empty", c) /\ mounts[v] = << >>
  /\ pc[c] \in {"isMnt", "mount"} => Holds(v, "certs", NoLink)

Undoing(c, v) ==
  /\ pc[c] \in CleanupSteps =>
       Tree(v) /\ kube[v] \in {"want", "uncertain", "published"} /\ (mounts[v] # << >> => data[v] = "certs")
  /\ pc[c] \in UnpublishSteps => Tree(v) /\ kube[v] = "unwant"
  /\ pc[c] \in {"uUnmanage", "uIsMnt"} => (mounts[v] = << >> /\ v \notin volDir) \/ (Live(v) /\ Readable(v))
  /\ pc[c] = "uUnmount" => Live(v) /\ Readable(v)
  /\ pc[c] \in (CleanupSteps \cup UnpublishSteps) \ {"cUnmanage", "uUnmanage"} => v \notin managed
  /\ pc[c] = "uUnmanage" /\ v \notin volDir => v \notin managed
  /\ pc[c] \in {"cEntry", "uEntry"} => v \in volDir /\ rem[c] = Entries(v)

DiskInv ==
  /\ ~rootMeta
  /\ ~tmpfs => \A v \in Volumes : Clean(v)
  /\ proc \notin {"down", "store"} => tmpfs
  /\ \A v \in Volumes : QuietOn(v) => Settled(v)
  /\ \A c \in Calls : pc[c] # "idle" => /\ Managing
                                        /\ Publishing(c, vol[c])
                                        /\ Undoing(c, vol[c])

-----------------------------------------------------------------------------
(* Every step of a handler keeps what is said of its volume.                 *)

\* The state of the volume v of handler c.
AtWork(c, v) ==
  /\ pc[c] # "idle" => Publishing(c, v) /\ Undoing(c, v)
  /\ pc[c] = "idle" => Settled(v)

\* The publish, up to the manager.
LEMMA RegisterDisk ==
  ASSUME TypeInv, ~rootMeta, NEW c \in Calls, NEW v \in Volumes, v = vol[c], AtWork(c, v),
         validate(c) \/ registerMetadata(c)
  PROVE  AtWork(c, v)' /\ ~rootMeta'
  <1> USE DEF TypeInv, FsTypeOK, HandlersOK, HasRequest, AtWork, Publishing, Undoing, Holds, Live, Clean,
          Begun, Tree, Readable, ReadMetadata, Goto, PublishSteps, CleanupSteps, UnpublishSteps
  <1>1. CASE Fail(c)
    BY <1>1 DEF validate, registerMetadata, Fail, forget, kubelet
  <1>2. CASE validate(c)
    BY <1>1, <1>2 DEF validate, fsVars, kubelet
  <1>3. CASE registerMetadata(c)
    <2>1. CASE pc[c] = "regRead"
      BY <1>3, <2>1, FilesystemConstantsOK DEF registerMetadata, RegisterMetadata, fsVars, kubelet
    <2>2. CASE pc[c] = "regDirs"
      BY <1>1, <1>3, <2>2, FilesystemConstantsOK DEF registerMetadata, ensureVolumeDirectory, kubelet
    <2>3. CASE pc[c] = "regOpen"
      BY <1>1, <1>3, <2>3, FilesystemConstantsOK DEF registerMetadata, openMetadata, kubelet
    <2>4. CASE pc[c] = "regWrite"
      BY <1>1, <1>3, <2>4, FilesystemConstantsOK DEF registerMetadata, writeMetadata, kubelet
    <2> QED BY <1>3, <2>1, <2>2, <2>3, <2>4 DEF registerMetadata
  <1> QED BY <1>2, <1>3

\* The manager, the fetch and the write.
LEMMA ProvisionDisk ==
  ASSUME TypeInv, ~rootMeta, NEW c \in Calls, NEW v \in Volumes, v = vol[c], AtWork(c, v),
         checkReady(c) \/ manageVolumeImmediate(c) \/ readMetadata(c) \/ getCertificates(c)
           \/ writeCertificates(c)
  PROVE  AtWork(c, v)' /\ ~rootMeta'
  <1> USE DEF TypeInv, FsTypeOK, HandlersOK, HasRequest, AtWork, Publishing, Undoing, Holds, Live, Clean,
          Begun, Tree, Readable, ReadMetadata, Goto, PublishSteps, CleanupSteps, UnpublishSteps
  <1>1. CASE Fail(c)
    BY <1>1 DEF checkReady, manageVolumeImmediate, readMetadata, getCertificates, writeCertificates,
                Fail, forget, kubelet
  <1>2. CASE checkReady(c)
    BY <1>2 DEF checkReady, IsVolumeReady, fsVars, kubelet
  <1>3. CASE manageVolumeImmediate(c)
    BY <1>3 DEF manageVolumeImmediate, manageVolumeIfNotManaged, NotManaged, fsVars, kubelet
  <1>4. CASE readMetadata(c) \/ getCertificates(c)
    BY <1>1, <1>4 DEF readMetadata, getCertificates, fsVars, kubelet
  <1>5. CASE writeCertificates(c)
    <2>1. CASE pc[c] = "ensure"
      BY <1>1, <1>5, <2>1 DEF writeCertificates, ensureVolumeDirectory, kubelet
    <2>2. CASE pc[c] = "mkTs"
      BY <1>1, <1>5, <2>2 DEF writeCertificates, makeTsDir, kubelet
    <2>3. CASE pc[c] = "fill"
      BY <1>1, <1>5, <2>3 DEF writeCertificates, fillTsDir, kubelet
    <2>4. CASE pc[c] = "link"
      BY <1>1, <1>5, <2>4 DEF writeCertificates, linkTmp, kubelet
    <2>5. CASE pc[c] = "rename" /\ commitFiles(c, v)
      BY <1>5, <2>5 DEF writeCertificates, commitFiles, dropTmp, kubelet
    <2>6. CASE pc[c] = "rename" /\ dropTmp(c, v)
      BY <1>5, <2>6 DEF writeCertificates, commitFiles, dropTmp, kubelet
    <2> QED BY <1>1, <1>5, <2>1, <2>2, <2>3, <2>4, <2>5, <2>6 DEF writeCertificates
  <1> QED BY <1>2, <1>3, <1>4, <1>5

\* The answer of a call on v that the kubelet waits for.
LEMMA ReturnDisk ==
  ASSUME TypeInv, OneCall, NEW c \in Calls, NEW v \in Volumes, v = vol[c],
         NEW answer \in Answers, Return(c, answer)
  PROVE  pc'[c] = "idle" /\ kube'[v] = answered(kube[v], answer)
  <1>1. waiting[v] = c
    BY DEF OneCall
  <1> QED BY <1>1 DEF Return, TypeInv, HandlersOK, KubeletOK

\* The mount.
LEMMA MountDisk ==
  ASSUME TypeInv, SerialInv, ~rootMeta, NEW c \in Calls, NEW v \in Volumes, v = vol[c], AtWork(c, v),
         isMountPoint(c) \/ mountData(c)
  PROVE  AtWork(c, v)' /\ ~rootMeta'
  <1> USE DEF TypeInv, FsTypeOK, HandlersOK, HasRequest, AtWork, Publishing, Undoing, Holds, Live, Clean,
          Begun, Tree, Readable, ReadMetadata, PublishSteps, CleanupSteps, UnpublishSteps
  <1>1. CASE Fail(c)
    BY <1>1 DEF isMountPoint, mountData, Fail, Goto, forget, kubelet
  <1>2. Return(c, "publishOK") => pc'[c] = "idle" /\ kube'[v] = "published"
    BY ReturnDisk DEF SerialInv, answered, Answers
  <1>3. mounts[v] \in {<< >>, <<"live">>} /\ (pc[c] = "mount" => mounts[v] = << >>)
    BY DEF SerialInv, MountsSound, MountSteps
  <1>4. CASE /\ pc[c] = "isMnt" /\ mounts[v] # << >>
             /\ Return(c, "publishOK")
             /\ UNCHANGED <<fsVars, managed, mounts>>
    BY <1>2, <1>3, <1>4 DEF fsVars, Settled
  <1>5. CASE /\ pc[c] = "isMnt" /\ mounts[v] = << >>
             /\ Goto(c, "mount")
             /\ UNCHANGED <<fsVars, managed, mounts, kube>>
    BY <1>5 DEF fsVars, Goto
  <1>6. <<"live">> \o << >> = <<"live">>
    OBVIOUS
  <1>7. CASE /\ mountData(c) /\ mounts' = [mounts EXCEPT ![v] = <<"live">> \o @]
             /\ UNCHANGED fsVars /\ UNCHANGED managed
    <2>1. mounts'[v] = <<"live">>
      BY <1>3, <1>6, <1>7 DEF mountData, MountsOK
    <2> QED BY <1>1, <1>2, <1>7, <2>1 DEF mountData, fsVars, Goto, kubelet, Settled
  <1> QED BY <1>1, <1>4, <1>5, <1>7 DEF isMountPoint, AtMountPoint, mountData

\* RemoveAll takes everything the volume has.
LEMMA RemoveDisk ==
  ASSUME TypeInv, SerialInv, ~rootMeta, NEW c \in Calls, NEW v \in Volumes, v = vol[c], AtWork(c, v),
         "remove" \notin Faults,
         \/ removeVolume(c, "cList", "cEntry", "publishError", "publishError")
         \/ removeVolume(c, "uList", "uEntry", "unpublishOK", "unpublishError")
  PROVE  AtWork(c, v)' /\ ~rootMeta'
  <1> USE DEF TypeInv, FsTypeOK, HandlersOK, HasRequest, AtWork, Publishing, Undoing, Clean, Tree,
          PublishSteps, CleanupSteps, UnpublishSteps
  <1>1. /\ pc[c] \in {"cList", "cEntry", "uList", "uEntry"}
        /\ mounts[v] = << >> /\ v \notin managed
    BY DEF removeVolume, SerialInv, MountsSound, MountSteps
  <1>2. /\ kube[v] \in {"want", "uncertain", "published", "unwant"}
        /\ kube[v] = "unwant" <=> pc[c] \in {"uList", "uEntry"}
    BY <1>1
  <1>3. CASE /\ pc[c] \in {"cList", "uList"}
             /\ v \in volDir
             /\ pc' = [pc EXCEPT ![c] = IF pc[c] = "cList" THEN "cEntry" ELSE "uEntry"]
             /\ rem' = [rem EXCEPT ![c] = Entries(v)]
             /\ UNCHANGED <<fsVars, managed, mounts, kubelet>>
    BY <1>3, <1>1 DEF fsVars, kubelet, Entries
  <1>4. CASE /\ pc[c] \in {"cEntry", "uEntry"}
             /\ \E e \in rem[c] :
                  /\ removeEntry(v, e, Others(c, v))
                  /\ rem' = [rem EXCEPT ![c] = @ \ {e}]
                  /\ mounts' = IF e = "data" THEN StaleMounts(v) ELSE mounts
             /\ UNCHANGED <<managed, pc, kubelet>>
    <2>1. mounts'[v] = << >>
      <3>1. [i \in DOMAIN << >> |-> "stale"] = << >>
        OBVIOUS
      <3> QED BY <1>1, <1>4, <3>1 DEF StaleMounts, MountsOK
    <2>2. v \in volDir /\ rem[c] = Entries(v)
      BY <1>4
    <2>3. volDir' = volDir /\ rootMeta' = rootMeta /\ rem'[c] = Entries(v)' /\ Tree(v)'
      BY <1>1, <1>4, <2>2 DEF removeEntry, Entries
    <2> QED BY <1>1, <1>4, <2>1, <2>2, <2>3 DEF kubelet
  <1>5. CASE /\ \/ pc[c] \in {"cList", "uList"} /\ v \notin volDir /\ UNCHANGED fsVars
                \/ pc[c] \in {"cEntry", "uEntry"} /\ rem[c] = {} /\ removeVolumeDir(v)
             /\ Return(c, IF pc[c] \in {"cList", "cEntry"} THEN "publishError" ELSE "unpublishOK")
             /\ UNCHANGED <<managed, mounts>>
    <2>1. Clean(v)' /\ ~rootMeta'
      <3>1. CASE pc[c] \in {"cList", "uList"} /\ v \notin volDir /\ UNCHANGED fsVars
        BY <1>1, <1>5, <3>1 DEF fsVars
      <3>2. CASE pc[c] \in {"cEntry", "uEntry"} /\ rem[c] = {} /\ removeVolumeDir(v)
        <4>1. Entries(v) = {}
          BY <3>2
        <4>2. meta[v] = "none" /\ data[v] = "absent" /\ dataTmp[v] = NoLink
          BY <3>2, <4>1 DEF Entries
        <4> QED BY <1>1, <1>5, <3>2, <4>2 DEF removeVolumeDir
      <3> QED BY <1>5, <3>1, <3>2
    <2>2. pc'[c] = "idle" /\ kube'[v] \in {"want", "uncertain", "gone"}
      BY <1>1, <1>2, <1>5, ReturnDisk DEF SerialInv, Answers, answered
    <2> QED BY <2>1, <2>2 DEF Settled
  <1>6. rem[c] = {} /\ pc[c] \in {"cEntry", "uEntry"} => Entries(v) = {}
    OBVIOUS
  <1> QED BY <1>1, <1>3, <1>4, <1>5, <1>6 DEF removeVolume, Fault

\* The cleanup and the unpublish.
LEMMA UndoDisk ==
  ASSUME CallsComplete, TypeInv, SerialInv, ~rootMeta, NEW c \in Calls, NEW v \in Volumes, v = vol[c],
         AtWork(c, v), cleanup(c) \/ nodeUnpublishVolume(c)
  PROVE  AtWork(c, v)' /\ ~rootMeta'
  <1>1. CASE \/ removeVolume(c, "cList", "cEntry", "publishError", "publishError")
             \/ removeVolume(c, "uList", "uEntry", "unpublishOK", "unpublishError")
    BY <1>1, RemoveDisk DEF CallsComplete
  <1> USE DEF TypeInv, FsTypeOK, HandlersOK, HasRequest, AtWork, Publishing, Undoing, Clean, Tree,
          Holds, Live, Readable, ReadMetadata, PublishSteps, CleanupSteps, UnpublishSteps, MountsOK
  <1>2. mounts[v] \in {<< >>, <<"live">>} /\ Tail(<<"live">>) = << >>
    BY DEF SerialInv, MountsSound
  <1>3. CASE \E label \in {"cUnmount", "uIsMnt"} :
               /\ pc[c] \in {"cUnmanage", "uUnmanage"}
               /\ label = "cUnmount" <=> pc[c] = "cUnmanage"
               /\ UnmanageVolume(v) /\ Goto(c, label)
               /\ UNCHANGED <<fsVars, mounts, kubelet>>
    BY <1>3 DEF UnmanageVolume, Goto, fsVars, kubelet
  <1>4. CASE /\ pc[c] = "cUnmount" /\ mounts' = cleanupUnmount(v) /\ Goto(c, "cList")
             /\ UNCHANGED <<fsVars, managed, kubelet>>
    <2>1. mounts'[v] = << >>
      BY <1>2, <1>4 DEF cleanupUnmount
    <2> QED BY <1>4, <2>1 DEF Goto, fsVars, kubelet
  <1>5. CASE /\ pc[c] = "uIsMnt" /\ Goto(c, afterIsMountPoint(v))
             /\ UNCHANGED <<fsVars, managed, mounts, kubelet>>
    BY <1>5 DEF afterIsMountPoint, AtMountPoint, Goto, fsVars, kubelet
  <1>6. CASE /\ pc[c] = "uUnmount" /\ mounts[v] # << >> /\ Goto(c, "uList")
             /\ mounts' = [mounts EXCEPT ![v] = Tail(@)]
             /\ UNCHANGED <<fsVars, managed, kubelet>>
    BY <1>2, <1>6 DEF Goto, fsVars, kubelet
  <1>7. CASE /\ pc[c] \in {"uIsMnt", "uUnmount"} /\ Return(c, "unpublishError")
             /\ UNCHANGED <<fsVars, managed, mounts>>
    <2>1. pc'[c] = "idle" /\ kube'[v] = "unwant"
      BY <1>7, ReturnDisk DEF SerialInv, Answers, answered
    <2> QED BY <1>7, <2>1 DEF Settled, fsVars
  <1>8. ~Fault("unmount")
    BY DEF Fault, CallsComplete, OneAtATime
  <1> QED BY <1>1, <1>3, <1>4, <1>5, <1>6, <1>7, <1>8 DEF cleanup, nodeUnpublishVolume

-----------------------------------------------------------------------------
(* Every step of the node server keeps what is said of all volumes.          *)

\* What is said of a volume no step touches.
LEMMA SettledSame ==
  ASSUME NEW v \in Volumes, SameVolume(v), UNCHANGED process, Settled(v)
  PROVE  Settled(v)'
  BY DEF SameVolume, process, Settled, Clean, Live, Holds, Readable, ReadMetadata

\* The same, with a handler on it.
LEMMA AtWorkSame ==
  ASSUME NEW d \in Calls, NEW v \in Volumes, SameVolume(v), SameCall(d),
         Publishing(d, v) /\ Undoing(d, v)
  PROVE  Publishing(d, v)' /\ Undoing(d, v)'
  BY DEF SameVolume, SameCall, Publishing, Undoing, Clean, Live, Begun, Tree, Holds, Entries,
         Readable, ReadMetadata

\* A step of a handler.
LEMMA StepDisk ==
  ASSUME CallsComplete, TypeInv, SerialInv, DiskInv, NEW c \in Calls, Step(c)
  PROVE  DiskInv'
  <1>1. pc[c] # "idle" /\ vol[c] \in Volumes
    BY StepShape, BusyVolume
  <1> PICK v \in Volumes : v = vol[c]
    BY <1>1
  <1>2. AtWork(c, v) /\ ~rootMeta /\ Managing /\ tmpfs
    BY <1>1 DEF DiskInv, AtWork, Managing
  <1>3. AtWork(c, v)' /\ ~rootMeta'
    BY <1>2, RegisterDisk, ProvisionDisk, MountDisk, UndoDisk DEF Step
  <1>4. UNCHANGED process /\ Managing' /\ tmpfs'
    BY <1>2, StepFrame DEF process, Managing
  <1>5. vol \in [Calls -> Volumes \cup {NoVolume}] /\ (vol'[c] = v \/ pc'[c] = "idle")
    BY StepShape DEF Continues, Return, TypeInv, HandlersOK
  <1>6. \A d \in Calls : d # c => SameCall(d) /\ vol[d] # v
    BY <1>1, StepFrame, OwnVolume DEF SerialInv
  <1>7. ASSUME NEW w \in Volumes, QuietOn(w)' PROVE Settled(w)'
    <2>1. CASE w = v
      <3>1. pc'[c] = "idle"
        BY <1>5, <1>7, <2>1 DEF QuietOn
      <3> QED BY <1>3, <2>1, <3>1 DEF AtWork
    <2>2. CASE w # v
      <3>1. SameVolume(w)
        BY <2>2, StepFrame
      <3>2. QuietOn(w)
        BY <1>6, <1>7, <2>2 DEF QuietOn, SameCall
      <3> QED BY <1>4, <3>1, <3>2, SettledSame DEF DiskInv
    <2> QED BY <2>1, <2>2
  <1>8. ASSUME NEW d \in Calls, pc'[d] # "idle"
        PROVE  Publishing(d, vol[d])' /\ Undoing(d, vol[d])'
    <2>1. CASE d = c
      BY <1>3, <1>5, <1>8, <2>1 DEF AtWork
    <2>2. CASE d # c
      <3>1. SameCall(d) /\ vol[d] # v /\ pc[d] # "idle" /\ vol[d] \in Volumes
        BY <1>6, <1>8, <2>2, BusyVolume DEF SameCall
      <3> PICK w \in Volumes : w = vol[d]
        BY <3>1
      <3>2. SameVolume(w) /\ Publishing(d, w) /\ Undoing(d, w)
        BY <3>1, StepFrame DEF DiskInv
      <3>3. Publishing(d, w)' /\ Undoing(d, w)'
        BY <3>1, <3>2, AtWorkSame
      <3>4. vol'[d] = w
        BY <3>1 DEF SameCall
      <3> QED BY <3>3, <3>4
    <2> QED BY <2>1, <2>2
  <1> QED BY <1>3, <1>4, <1>7, <1>8 DEF DiskInv

\* A call begins, or the pod goes away.
LEMMA KubeletDisk ==
  ASSUME TypeInv, SerialInv, DiskInv, NEW v \in Volumes, Kubelet(v)
  PROVE  DiskInv'
  <1>1. CASE \E c \in Calls, label \in {"validate", "uUnmanage"}, context \in Contexts \cup {NoContext} :
               /\ Begin(c, v, label, context)
               /\ label = "validate" => kube[v] \in {"want", "uncertain", "published"}
               /\ label = "uUnmanage" => kube[v] = "unwant"
    <2> PICK c \in Calls, label \in {"validate", "uUnmanage"}, context \in Contexts \cup {NoContext} :
               /\ Begin(c, v, label, context)
               /\ label = "validate" => kube[v] \in {"want", "uncertain", "published"}
               /\ label = "uUnmanage" => kube[v] = "unwant"
      BY <1>1
    <2>1. QuietOn(v)
      BY NodeConstantsOK DEF Begin, QuietOn, SerialInv, OneCall
    <2>2. Settled(v) /\ Managing
      BY <2>1 DEF DiskInv, Begin, Up, Managing
    <2>3. vol'[c] = v /\ pc'[c] = label /\ vol[c] = NoVolume /\ v # NoVolume
      BY NodeConstantsOK DEF Begin, TypeInv, HandlersOK, HasRequest
    <2>4. UNCHANGED <<fsVars, managed, rem, mounts, kube, process>>
      BY DEF Begin
    <2>5. Publishing(c, v)' /\ Undoing(c, v)'
      BY <2>2, <2>3, <2>4 DEF Publishing, Undoing, Settled, Clean, Live, Holds, Tree, Readable,
         ReadMetadata, Managing, fsVars, PublishSteps, CleanupSteps, UnpublishSteps
    <2>6. \A d \in Calls : d # c => pc'[d] = pc[d] /\ vol'[d] = vol[d]
      BY DEF Begin, TypeInv, HandlersOK
    <2>7. ASSUME NEW w \in Volumes, QuietOn(w)' PROVE Settled(w)'
      <3>1. w # v /\ QuietOn(w)
        BY <2>3, <2>6, <2>7, NodeConstantsOK DEF QuietOn
      <3> QED BY <2>4, <3>1 DEF DiskInv, Settled, Clean, Live, Holds, Readable, ReadMetadata, fsVars,
              process
    <2>8. ASSUME NEW d \in Calls, pc'[d] # "idle"
          PROVE  Publishing(d, vol[d])' /\ Undoing(d, vol[d])'
      <3>1. CASE d = c
        BY <2>3, <2>5, <3>1
      <3>2. CASE d # c
        <4>1. pc[d] # "idle" /\ vol'[d] = vol[d]
          BY <2>6, <2>8, <3>2
        <4>2. Publishing(d, vol[d]) /\ Undoing(d, vol[d])
          BY <4>1 DEF DiskInv
        <4> QED BY <2>4, <2>6, <3>2, <4>1, <4>2
            DEF Publishing, Undoing, Clean, Live, Begun, Tree, Holds, Entries, Readable, ReadMetadata,
                fsVars
      <3> QED BY <3>1, <3>2
    <2> QED BY <2>2, <2>4, <2>7, <2>8 DEF DiskInv, Managing, Clean, fsVars, process
  <1>2. CASE Delete(v)
    <2> USE DEF Delete
    <2>1. QuietOn(v) /\ \A w \in Volumes : QuietOn(w)' => QuietOn(w)
      BY <1>2, NodeConstantsOK DEF QuietOn, handlers, SerialInv, OneCall
    <2>2. ASSUME NEW w \in Volumes, Settled(w) PROVE Settled(w)'
      BY <1>2, <2>2 DEF Settled, Clean, Live, Holds, Readable, ReadMetadata, fsVars, process, TypeInv,
                       KubeletOK
    <2>3. ASSUME NEW d \in Calls, pc'[d] # "idle"
          PROVE  Publishing(d, vol[d])' /\ Undoing(d, vol[d])'
      <3>1. pc[d] # "idle" /\ vol'[d] = vol[d] /\ vol[d] # v /\ vol[d] \in Volumes
        BY <1>2, <2>1, <2>3, BusyVolume DEF handlers, QuietOn
      <3>2. kube'[vol[d]] = kube[vol[d]] /\ UNCHANGED <<fsVars, managed, handlers, mounts>>
        BY <1>2, <3>1 DEF TypeInv, KubeletOK
      <3>3. Publishing(d, vol[d]) /\ Undoing(d, vol[d])
        BY <3>1 DEF DiskInv
      <3> QED BY <3>1, <3>2, <3>3
            DEF Publishing, Undoing, Clean, Live, Begun, Tree, Holds, Entries, Readable, ReadMetadata,
                fsVars, handlers
    <2>4. ~tmpfs' => \A w \in Volumes : Clean(w)'
      BY <1>2 DEF DiskInv, Clean, fsVars, process
    <2>5. \A w \in Volumes : QuietOn(w)' => Settled(w)'
      BY <2>1, <2>2 DEF DiskInv
    <2>6. UNCHANGED <<rootMeta, proc, tmpfs, pc>>
      BY <1>2 DEF fsVars, process, handlers
    <2> QED BY <2>3, <2>4, <2>5, <2>6 DEF DiskInv, Managing
  <1>3. ~Timeout(v)
    BY DEF Timeout, Spend, SerialInv
  <1> QED BY <1>1, <1>2, <1>3 DEF Kubelet, CallPublish, CallUnpublish

\* While no call runs the kubelet waits for none.
LEMMA QuietKubelet ==
  ASSUME TypeInv, SerialInv, Quiet
  PROVE  \A v \in Volumes : QuietOn(v) /\ waiting[v] = NoCall
  <1> SUFFICES ASSUME NEW v \in Volumes PROVE QuietOn(v) /\ waiting[v] = NoCall
    OBVIOUS
  <1>1. \A c \in Calls : vol[c] # v
    BY NodeConstantsOK DEF Quiet, TypeInv, HasRequest
  <1> QED BY <1>1 DEF QuietOn, SerialInv, OneCall, TypeInv, KubeletOK

\* Before and after, no call runs: it is enough to look between calls.
LEMMA QuietDisk ==
  ASSUME Quiet', ~rootMeta', proc' \notin {"down", "store"} => tmpfs',
         ~tmpfs' => \A v \in Volumes : Clean(v)',
         \A v \in Volumes : Settled(v)'
  PROVE  DiskInv'
  BY DEF DiskInv, Quiet

\* The driver starts.
LEMMA BootDisk ==
  ASSUME TypeInv, SerialInv, DiskInv, Boot, UNCHANGED <<handlers, mounts, kubelet>>
  PROVE  DiskInv'
  <1>1. Quiet /\ Quiet' /\ \A v \in Volumes : Settled(v)
    <2>1. ~Managing
      BY DEF Boot, Start, newStore, newSource, newManagerOrDie, newGRPCServer, serve, Managing
    <2>2. Quiet
      BY <2>1 DEF DiskInv, Quiet
    <2> QED BY <2>2, QuietKubelet DEF DiskInv, Quiet, handlers
  <1>2. UNCHANGED <<mounts, kube>>
    BY DEF kubelet
  <1> USE DEF Settled, Clean, Live, Holds, Readable, ReadMetadata
  <1>3. CASE /\ proc' = "down" /\ managed' = {}
             /\ UNCHANGED fsVars /\ UNCHANGED tmpfs
    BY <1>1, <1>2, <1>3, QuietDisk DEF DiskInv, fsVars
  <1>4. CASE Start \/ newSource \/ newGRPCServer \/ serve
    <2>1. CASE proc' # "down"
      <3>1. /\ UNCHANGED <<fsVars, managed, tmpfs>>
            /\ <<proc, proc'>> \in {<<"down", "store">>, <<"source", "manager">>,
                                    <<"listen", "run">>, <<"run", "serving">>}
        BY <1>4, <2>1 DEF Start, newSource, newGRPCServer, serve, exit, fsVars
      <3>2. \A v \in Volumes : Settled(v)' /\ (Clean(v) => Clean(v)')
        BY <1>1, <1>2, <3>1 DEF fsVars
      <3>3. ~rootMeta' /\ (proc' \notin {"down", "store"} => tmpfs') /\ (~tmpfs' => ~tmpfs)
        BY <3>1 DEF DiskInv, fsVars
      <3> QED BY <1>1, <3>2, <3>3, QuietDisk DEF DiskInv
    <2>2. CASE proc' = "down"
      BY <1>3, <1>4, <2>2 DEF Start, newSource, newGRPCServer, serve, exit
    <2> QED BY <2>1, <2>2
  <1>5. CASE newStore
    <2>1. CASE exit(socket) /\ UNCHANGED fsVars
      BY <1>3, <2>1 DEF exit
    <2>2. CASE ~tmpfs /\ mountTmpfs /\ proc' = "source" /\ tmpfs' /\ UNCHANGED managed
      BY <1>1, <1>2, <2>2, QuietDisk DEF DiskInv, mountTmpfs
    <2>3. CASE tmpfs /\ proc = "store" /\ UNCHANGED fsVars /\ proc' = "source" /\ tmpfs' /\ UNCHANGED managed
      BY <1>1, <1>2, <2>3, QuietDisk DEF DiskInv, fsVars
    <2> QED BY <1>5, <2>1, <2>2, <2>3 DEF newStore, NeedsMount
  <1>6. CASE newManagerOrDie
    <2>1. CASE exit(socket) /\ UNCHANGED fsVars
      BY <1>3, <2>1 DEF exit
    <2>2. CASE /\ managed' = volDir /\ proc = "manager" /\ proc' = "listen"
               /\ UNCHANGED fsVars /\ UNCHANGED tmpfs
      BY <1>1, <1>2, <2>2, QuietDisk DEF DiskInv, fsVars
    <2> QED BY <1>6, <2>1, <2>2 DEF newManagerOrDie, NewManager, ListVolumes
  <1> QED BY <1>4, <1>5, <1>6 DEF Boot

\* Nothing changes, but that the driver stops accepting calls.
LEMMA SameDisk ==
  ASSUME DiskInv, UNCHANGED <<fsVars, managed, tmpfs, mounts, kube, pc, vol, rem>>,
         proc' = proc \/ (proc \in {"run", "serving"} /\ proc' = "stopping")
  PROVE  DiskInv'
  <1>1. /\ UNCHANGED <<fsVars, managed, tmpfs, mounts, kube, pc, vol, rem>>
        /\ proc' = proc \/ (proc \in {"run", "serving"} /\ proc' = "stopping")
    OBVIOUS
  <1>2. ASSUME NEW v \in Volumes, QuietOn(v)' PROVE Settled(v)'
    <2>1. Settled(v)
      BY <1>1, <1>2 DEF DiskInv, QuietOn
    <2> QED BY <1>1, <2>1 DEF Settled, Clean, Live, Holds, Readable, ReadMetadata, fsVars
  <1>3. ASSUME NEW d \in Calls, pc'[d] # "idle"
        PROVE  Managing' /\ Publishing(d, vol[d])' /\ Undoing(d, vol[d])'
    <2>1. Managing /\ Publishing(d, vol[d]) /\ Undoing(d, vol[d])
      BY <1>1, <1>3 DEF DiskInv
    <2>2. Managing'
      BY <1>1, <2>1 DEF Managing
    <2>3. Publishing(d, vol[d])' /\ Undoing(d, vol[d])'
      BY <1>1, <2>1 DEF Publishing, Undoing, Clean, Live, Begun, Tree, Holds, Entries, Readable,
                        ReadMetadata, fsVars
    <2> QED BY <2>2, <2>3
  <1>4. ~rootMeta' /\ (proc' \notin {"down", "store"} => tmpfs')
    BY <1>1 DEF DiskInv, fsVars
  <1>5. ~tmpfs' => \A v \in Volumes : Clean(v)'
    BY <1>1 DEF DiskInv, Clean, fsVars
  <1> QED BY <1>2, <1>3, <1>4, <1>5 DEF DiskInv

\* A signal, and the listener it closes.
LEMMA SignalDisk ==
  ASSUME DiskInv, Signal \/ gracefulStop, UNCHANGED <<handlers, mounts, kubelet>>
  PROVE  DiskInv'
  <1>1. /\ UNCHANGED <<fsVars, managed, tmpfs, mounts, kube, pc, vol, rem>>
        /\ proc' = proc \/ (proc \in {"run", "serving"} /\ proc' = "stopping")
    BY DEF Signal, gracefulStop, handlers, kubelet
  <1> QED BY <1>1, SameDisk

\* The process ends between calls.
LEMMA ExitDisk ==
  ASSUME CallsComplete, TypeInv, SerialInv, DiskInv, Stopped \/ Kill
  PROVE  DiskInv' /\ Quiet /\ Quiet' /\ UNCHANGED <<mounts, kube>>
         /\ \A v \in Volumes : data[v] = "certs" => data'[v] = "certs"
  <1>1. Quiet
    BY DEF Stopped, stopped, Drained, Kill, CallsComplete
  <1>2. /\ closeFiles /\ endHandlers /\ kube' = unanswered /\ UNCHANGED mounts
        /\ proc' = "down" /\ managed' = {} /\ UNCHANGED tmpfs
    BY DEF Stopped, stopped, Kill, exit
  <1>3. \A v \in Volumes : Settled(v) /\ kube'[v] = kube[v]
    BY <1>1, <1>2, QuietKubelet DEF DiskInv, unanswered
  <1>4. kube' = kube
    BY <1>2, <1>3 DEF unanswered, TypeInv, KubeletOK
  <1>5. Quiet'
    BY <1>2 DEF endHandlers, Quiet
  <1>6. \A v \in Volumes : (data[v] = "certs" => data'[v] = "certs")
                            /\ (data[v] = "absent" => data'[v] = "absent")
                            /\ (dataTmp[v] = NoLink => dataTmp'[v] = NoLink)
    BY <1>2, FilesystemConstantsOK DEF closeFiles, HasCerts
  <1>7. \A v \in Volumes : Settled(v)'
    BY <1>2, <1>3, <1>6 DEF closeFiles, Settled, Clean, Live, Holds, Readable, ReadMetadata
  <1>8. ~tmpfs' => \A v \in Volumes : Clean(v)'
    BY <1>2, <1>6 DEF DiskInv, Clean, closeFiles
  <1>9. ~rootMeta'
    BY <1>2 DEF DiskInv, closeFiles
  <1> QED BY <1>1, <1>2, <1>4, <1>5, <1>6, <1>7, <1>8, <1>9, QuietDisk

\* The node goes down with all that is on its tmpfs.
LEMMA RebootDisk ==
  ASSUME TypeInv, Reboot
  PROVE  DiskInv'
  <1>1. Quiet' /\ \A v \in Volumes : Clean(v)'
    BY DEF Reboot, endHandlers, Quiet, mountTmpfs, Clean
  <1>2. \A v \in Volumes : kube'[v] # "published"
    BY DEF Reboot
  <1>3. ~rootMeta' /\ proc' = "down"
    BY DEF Reboot, mountTmpfs
  <1> QED BY <1>1, <1>2, <1>3, QuietDisk DEF Settled

\* Every step.
LEMMA NextDisk ==
  ASSUME CallsComplete, TypeInv, SerialInv, DiskInv, [Next]_vars
  PROVE  DiskInv'
  <1>1. CASE UNCHANGED vars
    <2>1. UNCHANGED <<fsVars, managed, tmpfs, mounts, kube, pc, vol, rem>> /\ proc' = proc
      BY <1>1 DEF vars, serverVars, process, handlers, kubelet
    <2> QED BY <2>1, SameDisk
  <1>2. CASE Next
    BY <1>2, KubeletDisk, StepDisk, BootDisk, SignalDisk, ExitDisk, RebootDisk DEF Next, Process
  <1> QED BY <1>1, <1>2

\* The start.
LEMMA InitDisk == Init => DiskInv
  <1> SUFFICES ASSUME Init PROVE DiskInv
    OBVIOUS
  <1>1. \A v \in Volumes : Clean(v) /\ kube[v] = "want"
    BY DEF Init, FsInit, ManagerInit, Clean
  <1> QED BY <1>1 DEF Init, FsInit, ServerInit, DiskInv, Settled

-----------------------------------------------------------------------------
(* What the volumes are like between calls.                                  *)

NodeInv == TypeInv /\ SerialInv /\ DiskInv

\* The inductive invariant holds.
LEMMA NodeInvariant ==
  ASSUME CallsComplete
  PROVE  Spec => []NodeInv
  <1>1. Init => NodeInv
    BY InitType, InitSerial, InitDisk DEF CallsComplete, NodeInv
  <1>2. NodeInv /\ [Next]_vars => NodeInv'
    BY NextType, NextSerial, NextDisk DEF CallsComplete, NodeInv
  <1> QED BY <1>1, <1>2, PTL DEF Spec

(* A volume the kubelet has been told is published has its certificates, one *)
(* live mount of them and, in a running driver, a manager that knows it,     *)
(* through failures of other calls, stops, kills and restarts.               *)
THEOREM PublishedIsSound ==
  ASSUME CallsComplete
  PROVE  Spec => []PublishedSound
  <1>1. NodeInv => PublishedSound
    <2> SUFFICES ASSUME NodeInv, NEW v \in Volumes, Published(v)
                 PROVE  mounts[v] = <<"live">> /\ data[v] = "certs" /\ (Managing => IsVolumeReady(v))
      BY DEF PublishedSound
    <2> QED BY DEF NodeInv, DiskInv, Published, Settled, Live, Holds, Managing, IsVolumeReady
  <1> QED BY <1>1, NodeInvariant, PTL

(* A volume that is gone has left no directory, mount or manager entry: the  *)
(* deferred cleanup of a failed publish and the unpublish undo everything.   *)
THEOREM GoneLeavesNothing ==
  ASSUME CallsComplete
  PROVE  Spec => []NoResidue
  <1>1. NodeInv => NoResidue
    BY DEF NodeInv, DiskInv, NoResidue, Settled, Clean
  <1> QED BY <1>1, NodeInvariant, PTL

(* Between calls the tmpfs is in a state from which NewManagerOrDie does not *)
(* panic.                                                                    *)
THEOREM CanRestart ==
  ASSUME CallsComplete
  PROVE  Spec => []QuietRestartable
  <1>1. NodeInv => QuietRestartable
    <2> SUFFICES ASSUME NodeInv, Quiet PROVE Restartable
      BY DEF QuietRestartable
    <2>1. ASSUME NEW v \in volDir PROVE Readable(v)
      <3>1. v \in Volumes
        BY <2>1 DEF NodeInv, TypeInv, FsTypeOK
      <3>2. Settled(v) /\ kube[v] \in {"want", "uncertain", "published", "unwant", "gone"}
        BY <3>1, QuietKubelet DEF NodeInv, DiskInv, TypeInv, KubeletOK
      <3> QED BY <2>1, <3>2 DEF Settled, Clean
    <2> QED BY <2>1, FilesystemConstantsOK DEF NodeInv, DiskInv, Restartable, ListVolumesOK, ListVolumes,
            Readable, ReadMetadata
  <1> QED BY <1>1, NodeInvariant, PTL

(* Between calls the manager, restarted or not, knows exactly the volumes on *)
(* disk, but for those whose unpublish has to be repeated.                   *)
THEOREM ManagerMatchesDisk ==
  ASSUME CallsComplete
  PROVE  Spec => []ManagedOnDisk
  <1>1. NodeInv => ManagedOnDisk
    <2> SUFFICES ASSUME NodeInv, Managing, Quiet
                 PROVE  managed \subseteq volDir /\ \A v \in volDir \ managed : kube[v] = "unwant"
      BY DEF ManagedOnDisk
    <2>1. managed \subseteq Volumes /\ volDir \subseteq Volumes
      BY DEF NodeInv, TypeInv, FsTypeOK, ManagerTypeOK
    <2>2. \A v \in Volumes : Settled(v) /\ kube[v] \in {"want", "uncertain", "published", "unwant", "gone"}
      BY QuietKubelet DEF NodeInv, DiskInv, TypeInv, KubeletOK
    <2> QED BY <2>1, <2>2 DEF Settled, Clean, Live, Holds, Managing
  <1> QED BY <1>1, NodeInvariant, PTL

-----------------------------------------------------------------------------
(* The node server implements VolumeContract.                                *)

PhaseOf(step) ==
  IF step \in PublishSteps THEN "publish" ELSE IF step \in CleanupSteps THEN "undo" ELSE "unpublish"

Shown == [v \in Volumes |-> shownOn(v)]
Phase == [v \in Volumes |-> phaseOn(v)]
Belief == [v \in Volumes |-> beliefOf(kube[v])]

\* The phase of a volume is that of the one handler at work on it.
LEMMA PhaseNow ==
  ASSUME OneCall, NEW c \in Calls, NEW v \in Volumes, vol[c] = v
  PROVE  phaseOn(v) = PhaseOf(pc[c])
  <1>1. \A d \in Calls : vol[d] = v => d = c
    BY DEF OneCall
  <1>2. (CHOOSE d \in Calls : vol[d] = v) = c
    BY <1>1
  <1>3. ~QuietOn(v)
    BY DEF QuietOn
  <1> QED BY <1>2, <1>3 DEF phaseOn, PhaseOf

\* The same after a step.
LEMMA PhaseNext ==
  ASSUME OneCall', NEW c \in Calls, NEW v \in Volumes, vol'[c] = v
  PROVE  phaseOn(v)' = PhaseOf(pc'[c])
  <1>1. \A d \in Calls : vol'[d] = v => d = c
    BY DEF OneCall
  <1>2. (CHOOSE d \in Calls : vol'[d] = v) = c
    BY <1>1
  <1>3. ~QuietOn(v)'
    BY DEF QuietOn
  <1> QED BY <1>2, <1>3 DEF phaseOn, PhaseOf

\* Without a handler there is no phase.
LEMMA PhaseNone ==
  ASSUME NEW v \in Volumes
  PROVE  /\ QuietOn(v) => phaseOn(v) = "none"
         /\ QuietOn(v)' => phaseOn(v)' = "none"
  BY DEF phaseOn

\* A volume whose handler does not step keeps its phase.
LEMMA PhaseSame ==
  ASSUME OneCall, OneCall', NEW v \in Volumes,
         \A d \in Calls : /\ vol'[d] = v <=> vol[d] = v
                          /\ vol[d] = v => pc'[d] = pc[d]
  PROVE  phaseOn(v)' = phaseOn(v)
  <1>1. CASE QuietOn(v)
    BY <1>1, PhaseNone DEF QuietOn
  <1>2. CASE ~QuietOn(v)
    <2> PICK d \in Calls : vol[d] = v
      BY <1>2 DEF QuietOn
    <2> QED BY PhaseNow, PhaseNext
  <1> QED BY <1>1, <1>2

MountedShown == \A v \in Volumes : shownOn(v) = IF mounts[v] = << >> THEN "nothing" ELSE "certs"

\* What is mounted shows the certificates.
LEMMA MountedShows == NodeInv => MountedShown
  <1> SUFFICES ASSUME NodeInv, NEW v \in Volumes
               PROVE  shownOn(v) = IF mounts[v] = << >> THEN "nothing" ELSE "certs"
    BY DEF MountedShown
  <1>1. mounts[v] \in {<< >>, <<"live">>} /\ Head(<<"live">>) = "live"
    BY DEF NodeInv, SerialInv, MountsSound
  <1>2. ASSUME mounts[v] # << >> PROVE data[v] = "certs"
    <2>1. CASE QuietOn(v)
      <3>1. Settled(v) /\ ~Clean(v)
        BY <1>2, <2>1 DEF NodeInv, DiskInv, Clean
      <3> QED BY <3>1 DEF Settled, Live, Holds, NodeInv, TypeInv, KubeletOK
    <2>2. CASE ~QuietOn(v)
      <3> PICK c \in Calls : vol[c] = v
        BY <2>2 DEF QuietOn
      <3>1. pc[c] # "idle" /\ pc[c] \in AllSteps /\ pc[c] \notin MountSteps
        BY <1>2, NodeConstantsOK DEF NodeInv, TypeInv, HandlersOK, HasRequest, AllSteps, SerialInv,
                                     MountsSound
      <3>2. Publishing(c, v) /\ Undoing(c, v)
        BY <3>1 DEF NodeInv, DiskInv
      <3> QED BY <1>2, <3>1, <3>2 DEF Publishing, Undoing, Clean, Live, Begun, Holds, AllSteps,
              PublishSteps, CleanupSteps, UnpublishSteps, MountSteps
    <2> QED BY <2>1, <2>2
  <1> QED BY <1>1, <1>2 DEF shownOn, HasCerts

\* The same after a step.
LEMMA MountedShowsNext == NodeInv' => MountedShown'
  BY MountedShows, PTL

\* What a step of a handler is to the contract.
StepKind(c, v) ==
  \/ /\ Continues(c) /\ pc[c] \in PublishSteps /\ pc'[c] \in PublishSteps
     /\ mounts'[v] = mounts[v]
  \/ /\ Continues(c) /\ pc[c] \in PublishSteps /\ pc'[c] \in CleanupSteps
     /\ mounts'[v] = mounts[v] \/ mounts'[v] # << >>
  \/ /\ Continues(c)
     /\ \/ pc[c] \in CleanupSteps /\ pc'[c] \in CleanupSteps
        \/ pc[c] \in UnpublishSteps /\ pc'[c] \in UnpublishSteps
     /\ mounts'[v] = mounts[v] \/ mounts'[v] = << >>
  \/ /\ Return(c, "publishOK") /\ pc[c] \in PublishSteps
     /\ mounts'[v] # << >>
  \/ /\ Return(c, "publishError") /\ pc[c] \in CleanupSteps \cap MountSteps
     /\ mounts'[v] = mounts[v]
  \/ /\ Return(c, "unpublishOK") /\ pc[c] \in UnpublishSteps \cap MountSteps
     /\ mounts'[v] = mounts[v]
  \/ /\ Return(c, "unpublishError") /\ pc[c] \in UnpublishSteps
     /\ mounts'[v] = mounts[v]

\* Every step of a handler is of one of these kinds.
LEMMA StepKinds ==
  ASSUME TypeInv, NEW c \in Calls, NEW v \in Volumes, v = vol[c], Step(c),
         mounts[v] \in {<< >>, <<"live">>},
         pc[c] \in MountSteps => mounts[v] = << >>
  PROVE  StepKind(c, v)
  <1>1. /\ pc[c] # "idle" /\ pc \in [Calls -> {"idle"} \cup AllSteps]
        /\ mounts \in [Volumes -> Seq({"live", "stale"})]
    BY StepShape DEF TypeInv, HandlersOK, MountsOK, AllSteps
  <1>2. UNCHANGED kubelet => UNCHANGED <<kube, waiting>>
    BY DEF kubelet
  <1>3. ASSUME NEW label \in AllSteps, Goto(c, label), UNCHANGED <<kube, waiting>>
        PROVE  Continues(c) /\ pc'[c] = label
    BY <1>1, <1>3 DEF Continues, Goto, AllSteps, PublishSteps, CleanupSteps, UnpublishSteps, TypeInv,
                      HandlersOK
  <1>4. Fail(c) => Continues(c) /\ pc'[c] \in CleanupSteps /\ mounts' = mounts
    BY <1>2, <1>3 DEF Fail, CleanupSteps, AllSteps
  <1> DEFINE Forward == \E label \in PublishSteps : Goto(c, label) /\ UNCHANGED <<kube, waiting, mounts>>
  <1>5. pc[c] \in PublishSteps /\ (Forward \/ Fail(c)) => StepKind(c, v)
    BY <1>3, <1>4 DEF StepKind, AllSteps
  <1> HIDE DEF Forward
  <1>6. CASE validate(c) \/ registerMetadata(c)
    <2>1. pc[c] \in PublishSteps
      BY <1>6 DEF validate, registerMetadata, PublishSteps
    <2>2. Forward \/ Fail(c)
      BY <1>6, <1>2 DEF validate, registerMetadata, RegisterMetadata, Forward, PublishSteps
    <2> QED BY <1>5, <2>1, <2>2
  <1>7. CASE checkReady(c) \/ manageVolumeImmediate(c) \/ readMetadata(c) \/ getCertificates(c)
    <2>1. pc[c] \in PublishSteps
      BY <1>7 DEF checkReady, manageVolumeImmediate, readMetadata, getCertificates, PublishSteps
    <2>2. Forward \/ Fail(c)
      BY <1>7, <1>2 DEF checkReady, manageVolumeImmediate, readMetadata, getCertificates, Forward,
                        PublishSteps
    <2> QED BY <1>5, <2>1, <2>2
  <1>8. CASE writeCertificates(c)
    <2>1. pc[c] \in PublishSteps
      BY <1>8 DEF writeCertificates, PublishSteps
    <2>2. \/ Forward \/ Fail(c)
          \/ Goto(c, "cUnmanage") /\ UNCHANGED <<kube, waiting, mounts>>
      BY <1>8, <1>2 DEF writeCertificates, Forward, PublishSteps
    <2> QED BY <1>3, <1>5, <2>1, <2>2 DEF StepKind, CleanupSteps, AllSteps
  <1>9. CASE isMountPoint(c)
    <2>1. pc[c] \in PublishSteps
      BY <1>9 DEF isMountPoint, PublishSteps
    <2>2. Forward \/ Fail(c) \/ (Return(c, "publishOK") /\ mounts[v] # << >> /\ mounts' = mounts)
      BY <1>9, <1>2 DEF isMountPoint, AtMountPoint, Forward, PublishSteps
    <2> QED BY <1>5, <2>1, <2>2 DEF StepKind
  <1>10. CASE mountData(c)
    <2>1. pc[c] \in PublishSteps
      BY <1>10 DEF mountData, PublishSteps
    <2>2. <<"live">> \o mounts[v] # << >>
      BY <1>1
    <2>3. \/ Fail(c)
          \/ /\ Return(c, "publishOK") \/ (Goto(c, "cUnmanage") /\ UNCHANGED <<kube, waiting>>)
             /\ mounts' = [mounts EXCEPT ![v] = <<"live">> \o @]
      BY <1>10, <1>2 DEF mountData
    <2>4. CASE Fail(c)
      BY <1>5, <2>1, <2>4
    <2>5. CASE /\ Return(c, "publishOK") \/ (Goto(c, "cUnmanage") /\ UNCHANGED <<kube, waiting>>)
               /\ mounts' = [mounts EXCEPT ![v] = <<"live">> \o @]
      <3>1. mounts'[v] # << >>
        BY <1>1, <2>2, <2>5
      <3>2. "cUnmanage" \in CleanupSteps /\ "cUnmanage" \in AllSteps
        BY DEF CleanupSteps, AllSteps
      <3> QED BY <1>3, <2>1, <2>5, <3>1, <3>2 DEF StepKind
    <2> QED BY <2>3, <2>4, <2>5
  <1>11. [i \in DOMAIN << >> |-> "stale"] = << >>
    OBVIOUS
  <1>12. CASE removeVolume(c, "cList", "cEntry", "publishError", "publishError")
    <2>1. pc[c] \in CleanupSteps \cap MountSteps /\ mounts[v] = << >>
      BY <1>12 DEF removeVolume, CleanupSteps, MountSteps
    <2>2. mounts'[v] = << >>
      BY <1>1, <1>11, <1>12, <2>1 DEF removeVolume, StaleMounts
    <2>3. \/ Return(c, "publishError")
          \/ /\ pc' \in {pc, [pc EXCEPT ![c] = "cEntry"]}
             /\ UNCHANGED <<vol, ctx, kubelet>>
             /\ \/ rem' = [rem EXCEPT ![c] = Entries(vol[c])]
                \/ \E e \in rem[c] : rem' = [rem EXCEPT ![c] = @ \ {e}]
      BY <1>12 DEF removeVolume
    <2>4. Return(c, "publishError") \/ (Continues(c) /\ pc'[c] \in CleanupSteps)
      BY <1>1, <1>2, <2>1, <2>3 DEF Continues, CleanupSteps, TypeInv, HandlersOK
    <2> QED BY <2>1, <2>2, <2>4 DEF StepKind
  <1>13. CASE removeVolume(c, "uList", "uEntry", "unpublishOK", "unpublishError")
    <2>1. pc[c] \in UnpublishSteps \cap MountSteps /\ mounts[v] = << >>
      BY <1>13 DEF removeVolume, UnpublishSteps, MountSteps
    <2>2. mounts'[v] = << >>
      BY <1>1, <1>11, <1>13, <2>1 DEF removeVolume, StaleMounts
    <2>3. \/ Return(c, "unpublishOK") \/ Return(c, "unpublishError")
          \/ /\ pc' \in {pc, [pc EXCEPT ![c] = "uEntry"]}
             /\ UNCHANGED <<vol, ctx, kubelet>>
             /\ \/ rem' = [rem EXCEPT ![c] = Entries(vol[c])]
                \/ \E e \in rem[c] : rem' = [rem EXCEPT ![c] = @ \ {e}]
      BY <1>13 DEF removeVolume
    <2>4. \/ Return(c, "unpublishOK") \/ Return(c, "unpublishError")
          \/ (Continues(c) /\ pc'[c] \in UnpublishSteps)
      BY <1>1, <1>2, <2>1, <2>3 DEF Continues, UnpublishSteps, TypeInv, HandlersOK
    <2> QED BY <2>1, <2>2, <2>4 DEF StepKind
  <1>14. CASE cleanup(c) /\ ~removeVolume(c, "cList", "cEntry", "publishError", "publishError")
    <2>1. pc[c] \in CleanupSteps
      BY <1>14 DEF cleanup, CleanupSteps
    <2>2. /\ \E label \in CleanupSteps : Goto(c, label) /\ UNCHANGED <<kube, waiting>>
          /\ mounts' = mounts \/ mounts' = cleanupUnmount(v)
      BY <1>14, <1>2 DEF cleanup, CleanupSteps
    <2>3. mounts'[v] = mounts[v] \/ mounts'[v] = << >>
      <3>1. Tail(<<"live">>) = << >>
        OBVIOUS
      <3> QED BY <1>1, <2>2, <3>1 DEF cleanupUnmount
    <2> QED BY <1>3, <2>1, <2>2, <2>3 DEF StepKind, AllSteps
  <1>15. CASE nodeUnpublishVolume(c) /\ ~removeVolume(c, "uList", "uEntry", "unpublishOK", "unpublishError")
    <2>1. pc[c] \in UnpublishSteps
      BY <1>15 DEF nodeUnpublishVolume, UnpublishSteps
    <2>2. /\ \/ \E label \in UnpublishSteps : Goto(c, label) /\ UNCHANGED <<kube, waiting>>
             \/ Return(c, "unpublishError") /\ mounts' = mounts
          /\ mounts' = mounts \/ (mounts[v] # << >> /\ mounts' = [mounts EXCEPT ![v] = Tail(@)])
      BY <1>15, <1>2 DEF nodeUnpublishVolume, afterIsMountPoint, UnpublishSteps
    <2>3. mounts'[v] = mounts[v] \/ mounts'[v] = << >>
      <3>1. Tail(<<"live">>) = << >>
        OBVIOUS
      <3> QED BY <1>1, <2>2, <3>1
    <2> QED BY <1>3, <2>1, <2>2, <2>3 DEF StepKind, AllSteps
  <1> QED BY <1>6, <1>7, <1>8, <1>9, <1>10, <1>12, <1>13, <1>14, <1>15 DEF Step, cleanup, nodeUnpublishVolume

\* A step that leaves all volumes but v alone.
LEMMA OthersShown ==
  ASSUME NEW v \in Volumes,
         \A w \in Volumes \ {v} : /\ shownOn(w)' = shownOn(w)
                                  /\ phaseOn(w)' = phaseOn(w)
                                  /\ kube'[w] = kube[w]
  PROVE  /\ Shown' = [Shown EXCEPT ![v] = shownOn(v)']
         /\ Phase' = [Phase EXCEPT ![v] = phaseOn(v)']
         /\ Belief' = [Belief EXCEPT ![v] = beliefOf(kube'[v])]
  <1>1. Shown' = [Shown EXCEPT ![v] = shownOn(v)']
    BY DEF Shown
  <1>2. Phase' = [Phase EXCEPT ![v] = phaseOn(v)']
    BY DEF Phase
  <1>3. Belief' = [Belief EXCEPT ![v] = beliefOf(kube'[v])]
    BY DEF Belief
  <1> QED BY <1>1, <1>2, <1>3

\* A step of a handler is a step of the contract, or none.
LEMMA StepContract ==
  ASSUME NodeInv, NodeInv', NEW c \in Calls, Step(c)
  PROVE  [Contract!Next]_(Contract!vars)
  <1>1. pc[c] # "idle" /\ vol[c] \in Volumes
    BY StepShape, BusyVolume DEF NodeInv
  <1> PICK v \in Volumes : v = vol[c]
    BY <1>1
  <1>2. StepKind(c, v)
    BY StepKinds DEF NodeInv, SerialInv, MountsSound
  <1>3. ASSUME NEW w \in Volumes \ {v}
        PROVE  shownOn(w)' = shownOn(w) /\ phaseOn(w)' = phaseOn(w) /\ kube'[w] = kube[w]
    <2>1. SameVolume(w) /\ \A d \in Calls \ {c} : vol[d] # v => SameCall(d)
      BY <1>3, StepFrame DEF NodeInv
    <2>2. shownOn(w)' = shownOn(w)
      BY <2>1, <1>3, MountedShows, MountedShowsNext DEF MountedShown, SameVolume
    <2>3. \A d \in Calls : d # c => vol[d] # v
      BY <1>1, OwnVolume DEF NodeInv, SerialInv
    <2>4. vol'[c] \in {v, NoVolume} /\ NoVolume # w
      BY <1>3, StepShape, NodeConstantsOK DEF Continues, Return, NodeInv, TypeInv, HandlersOK
    <2>5. \A d \in Calls : (vol'[d] = w <=> vol[d] = w) /\ (vol[d] = w => pc'[d] = pc[d])
      BY <1>3, <2>1, <2>3, <2>4 DEF SameCall
    <2>6. phaseOn(w)' = phaseOn(w)
      BY <1>3, <2>5, PhaseSame DEF NodeInv, SerialInv
    <2> QED BY <2>1, <2>2, <2>6 DEF SameVolume
  <1>4. /\ Shown' = [Shown EXCEPT ![v] = shownOn(v)']
        /\ Phase' = [Phase EXCEPT ![v] = phaseOn(v)']
        /\ Belief' = [Belief EXCEPT ![v] = beliefOf(kube'[v])]
    BY <1>3, OthersShown
  <1>5. /\ shownOn(v) = IF mounts[v] = << >> THEN "nothing" ELSE "certs"
        /\ shownOn(v)' = IF mounts'[v] = << >> THEN "nothing" ELSE "certs"
    BY MountedShows, MountedShowsNext DEF MountedShown
  <1>6. phaseOn(v) = PhaseOf(pc[c])
    BY PhaseNow DEF NodeInv, SerialInv
  <1>7. ASSUME Continues(c)
        PROVE  phaseOn(v)' = PhaseOf(pc'[c]) /\ kube' = kube
    BY <1>7, PhaseNext DEF Continues, NodeInv, SerialInv
  <1>8. ASSUME NEW answer \in Answers, Return(c, answer)
        PROVE  phaseOn(v)' = "none" /\ kube'[v] = answered(kube[v], answer)
    <2>1. QuietOn(v)'
      <3>1. vol'[c] = NoVolume /\ v # NoVolume
        BY <1>8, NodeConstantsOK DEF Return, NodeInv, TypeInv, HandlersOK
      <3>2. \A d \in Calls : d # c => vol'[d] # v
        BY <1>1, <1>8, OwnVolume DEF Return, NodeInv, TypeInv, HandlersOK, SerialInv
      <3> QED BY <3>1, <3>2 DEF QuietOn
    <2> QED BY <1>8, <2>1, PhaseNone, ReturnDisk DEF NodeInv, SerialInv
  <1>9. /\ Shown[v] = shownOn(v) /\ Phase[v] = phaseOn(v) /\ Belief[v] = beliefOf(kube[v])
        /\ Shown = [Shown EXCEPT ![v] = Shown[v]]
        /\ Phase = [Phase EXCEPT ![v] = Phase[v]]
        /\ Belief = [Belief EXCEPT ![v] = Belief[v]]
    BY DEF Shown, Phase, Belief
  <1>10. /\ pc[c] \in PublishSteps <=> phaseOn(v) = "publish"
         /\ pc[c] \in CleanupSteps <=> phaseOn(v) = "undo"
         /\ pc[c] \in UnpublishSteps <=> phaseOn(v) = "unpublish"
    BY <1>1, <1>6 DEF PhaseOf, NodeInv, TypeInv, HandlersOK, PublishSteps, CleanupSteps, UnpublishSteps
  <1>11. UNCHANGED <<Shown, Phase, Belief>> => UNCHANGED Contract!vars
    BY DEF Contract!vars, Shown, Phase, Belief
  <1>12. CASE /\ Continues(c) /\ pc[c] \in PublishSteps /\ pc'[c] \in PublishSteps
              /\ mounts'[v] = mounts[v]
    <2>1. shownOn(v)' = shownOn(v) /\ phaseOn(v)' = phaseOn(v) /\ kube' = kube
      BY <1>5, <1>6, <1>7, <1>12 DEF PhaseOf
    <2> QED BY <2>1, <1>4, <1>9, <1>11
  <1>13. CASE /\ Continues(c) /\ pc[c] \in PublishSteps /\ pc'[c] \in CleanupSteps
              /\ mounts'[v] = mounts[v] \/ mounts'[v] # << >>
    <2>1. phaseOn(v)' = "undo" /\ kube' = kube
      BY <1>7, <1>13 DEF PhaseOf, PublishSteps, CleanupSteps
    <2>2. Shown' \in {Shown, [Shown EXCEPT ![v] = "certs"]}
      BY <1>4, <1>5, <1>9, <1>13
    <2>3. Phase[v] = "publish" /\ Phase' = [Phase EXCEPT ![v] = "undo"] /\ Belief' = Belief
      BY <1>4, <1>9, <1>10, <1>13, <2>1
    <2>4. Contract!Break(v)
      BY <2>2, <2>3 DEF Contract!Break, Contract!To, Shown, Phase, Belief
    <2> QED BY <2>4 DEF Contract!Next
  <1>14. CASE /\ Continues(c)
              /\ \/ pc[c] \in CleanupSteps /\ pc'[c] \in CleanupSteps
                 \/ pc[c] \in UnpublishSteps /\ pc'[c] \in UnpublishSteps
              /\ mounts'[v] = mounts[v] \/ mounts'[v] = << >>
    <2>1. phaseOn(v)' = phaseOn(v) /\ kube' = kube
      BY <1>6, <1>7, <1>14 DEF PhaseOf, PublishSteps, CleanupSteps, UnpublishSteps
    <2>2. Phase' = Phase /\ Belief' = Belief /\ Phase[v] \in {"undo", "unpublish"}
      BY <1>4, <1>9, <1>10, <1>14, <2>1
    <2>3. CASE mounts'[v] = mounts[v]
      BY <1>4, <1>5, <1>9, <1>11, <2>2, <2>3
    <2>4. CASE mounts'[v] = << >>
      <3>1. Shown' = [Shown EXCEPT ![v] = "nothing"]
        BY <1>4, <1>5, <2>4
      <3>2. Contract!Withdraw(v)
        BY <2>2, <3>1 DEF Contract!Withdraw, Contract!To, Shown, Phase, Belief
      <3> QED BY <3>2 DEF Contract!Next
    <2> QED BY <1>14, <2>3, <2>4
  <1>15. CASE /\ Return(c, "publishOK") /\ pc[c] \in PublishSteps
              /\ mounts'[v] # << >>
    <2>1. phaseOn(v)' = "none" /\ kube'[v] = "published"
      BY <1>8, <1>15 DEF Answers, answered
    <2>2. /\ Phase[v] = "publish" /\ Phase' = [Phase EXCEPT ![v] = "none"]
          /\ Shown' = [Shown EXCEPT ![v] = "certs"]
          /\ Belief' = [Belief EXCEPT ![v] = "served"]
      BY <1>4, <1>5, <1>9, <1>10, <1>15, <2>1 DEF beliefOf
    <2>3. Contract!Serve(v)
      BY <2>2 DEF Contract!Serve, Contract!To, Shown, Phase, Belief
    <2> QED BY <2>3 DEF Contract!Next
  <1>16. ASSUME pc[c] \in MountSteps, mounts'[v] = mounts[v]
         PROVE  Shown[v] = "nothing" /\ Shown' = Shown
    <2>1. mounts[v] = << >>
      BY <1>16 DEF NodeInv, SerialInv, MountsSound
    <2> QED BY <1>4, <1>5, <1>9, <1>16, <2>1
  <1>17. CASE /\ Return(c, "publishError") /\ pc[c] \in CleanupSteps \cap MountSteps
              /\ mounts'[v] = mounts[v]
    <2>1. phaseOn(v)' = "none" /\ kube'[v] \in {"want", "uncertain"}
      BY <1>8, <1>17 DEF Answers, answered
    <2>2. /\ Phase[v] = "undo" /\ Phase' = [Phase EXCEPT ![v] = "none"]
          /\ Belief' = [Belief EXCEPT ![v] = "unknown"]
      BY <1>4, <1>9, <1>10, <1>17, <2>1 DEF beliefOf
    <2>3. Contract!Undone(v)
      BY <1>16, <1>17, <2>2 DEF Contract!Undone, Contract!To, Shown, Phase, Belief
    <2> QED BY <2>3 DEF Contract!Next
  <1>18. CASE /\ Return(c, "unpublishOK") /\ pc[c] \in UnpublishSteps \cap MountSteps
              /\ mounts'[v] = mounts[v]
    <2>1. phaseOn(v)' = "none" /\ kube'[v] = "gone"
      BY <1>8, <1>18 DEF Answers, answered
    <2>2. /\ Phase[v] = "unpublish" /\ Phase' = [Phase EXCEPT ![v] = "none"]
          /\ Belief' = [Belief EXCEPT ![v] = "gone"]
      BY <1>4, <1>9, <1>10, <1>18, <2>1 DEF beliefOf
    <2>3. Contract!Gone(v)
      BY <1>16, <1>18, <2>2 DEF Contract!Gone, Contract!To, Shown, Phase, Belief
    <2> QED BY <2>3 DEF Contract!Next
  <1>19. CASE /\ Return(c, "unpublishError") /\ pc[c] \in UnpublishSteps
              /\ mounts'[v] = mounts[v]
    <2>1. phaseOn(v)' = "none" /\ kube'[v] = kube[v]
      BY <1>8, <1>19 DEF Answers, answered
    <2>2. /\ Phase[v] = "unpublish" /\ Phase' = [Phase EXCEPT ![v] = "none"]
          /\ Shown' = Shown /\ Belief' = Belief
      BY <1>4, <1>5, <1>9, <1>10, <1>19, <2>1
    <2>3. Contract!Again(v)
      BY <2>2 DEF Contract!Again, Contract!To, Shown, Phase, Belief
    <2> QED BY <2>3 DEF Contract!Next
  <1> QED BY <1>2, <1>12, <1>13, <1>14, <1>15, <1>17, <1>18, <1>19 DEF StepKind

\* The kubelet's calls and deletions are those of the contract.
LEMMA KubeletContract ==
  ASSUME NodeInv, NodeInv', NEW v \in Volumes, Kubelet(v)
  PROVE  [Contract!Next]_(Contract!vars)
  <1>1. mounts' = mounts /\ waiting[v] = NoCall
    BY DEF Kubelet, CallPublish, CallUnpublish, Begin, Delete, Timeout, Spend, NodeInv, SerialInv
  <1>2. QuietOn(v)
    BY <1>1, NodeConstantsOK DEF QuietOn, NodeInv, SerialInv, OneCall
  <1>3. \A w \in Volumes : shownOn(w)' = shownOn(w)
    BY <1>1, MountedShows, MountedShowsNext DEF MountedShown
  <1>4. /\ Shown[v] = shownOn(v) /\ Phase[v] = phaseOn(v) /\ Belief[v] = beliefOf(kube[v])
        /\ Shown = [Shown EXCEPT ![v] = Shown[v]]
        /\ Phase = [Phase EXCEPT ![v] = Phase[v]]
        /\ Belief = [Belief EXCEPT ![v] = Belief[v]]
    BY DEF Shown, Phase, Belief
  <1>5. Phase[v] = "none"
    BY <1>2, <1>4, PhaseNone
  <1>6. CASE \E c \in Calls, label \in {"validate", "uUnmanage"}, context \in Contexts \cup {NoContext} :
               /\ Begin(c, v, label, context)
               /\ label = "validate" => kube[v] \in {"want", "uncertain", "published"}
               /\ label = "uUnmanage" => kube[v] = "unwant"
    <2> PICK c \in Calls, label \in {"validate", "uUnmanage"}, context \in Contexts \cup {NoContext} :
               /\ Begin(c, v, label, context)
               /\ label = "validate" => kube[v] \in {"want", "uncertain", "published"}
               /\ label = "uUnmanage" => kube[v] = "unwant"
      BY <1>6
    <2>1. /\ vol'[c] = v /\ pc'[c] = label /\ vol[c] = NoVolume /\ kube' = kube
          /\ \A d \in Calls \ {c} : vol'[d] = vol[d] /\ pc'[d] = pc[d]
      BY DEF Begin, NodeInv, TypeInv, HandlersOK, HasRequest
    <2>2. ASSUME NEW w \in Volumes \ {v} PROVE phaseOn(w)' = phaseOn(w)
      <3>1. \A d \in Calls : (vol'[d] = w <=> vol[d] = w) /\ (vol[d] = w => pc'[d] = pc[d])
        BY <2>1, <2>2, NodeConstantsOK
      <3> QED BY <3>1, <2>2, PhaseSame DEF NodeInv, SerialInv
    <2>3. /\ Shown' = [Shown EXCEPT ![v] = shownOn(v)']
          /\ Phase' = [Phase EXCEPT ![v] = phaseOn(v)']
          /\ Belief' = [Belief EXCEPT ![v] = beliefOf(kube'[v])]
      BY <1>3, <2>1, <2>2, OthersShown
    <2>4. phaseOn(v)' = IF Belief[v] = "leaving" THEN "unpublish" ELSE "publish"
      <3>1. phaseOn(v)' = PhaseOf(label)
        BY <2>1, PhaseNext DEF NodeInv, SerialInv
      <3>2. Belief[v] = "leaving" <=> label = "uUnmanage"
        BY <1>4 DEF beliefOf
      <3> QED BY <3>1, <3>2 DEF PhaseOf, PublishSteps, CleanupSteps, UnpublishSteps
    <2>5. Belief[v] # "gone"
      BY <1>4 DEF beliefOf
    <2>6. Shown' = Shown /\ Belief' = Belief
      BY <1>3, <1>4, <2>1, <2>3
    <2>7. \E kind \in {"publish", "unpublish"} : Contract!Call(v, kind)
      BY <1>5, <2>3, <2>4, <2>5, <2>6 DEF Contract!Call, Contract!To, Shown, Phase, Belief
    <2> QED BY <2>7 DEF Contract!Next
  <1>7. CASE Delete(v)
    <2>1. UNCHANGED <<pc, vol>> /\ \A w \in Volumes \ {v} : kube'[w] = kube[w]
      BY <1>7 DEF Delete, handlers, NodeInv, TypeInv, KubeletOK
    <2>2. \A w \in Volumes : phaseOn(w)' = phaseOn(w)
      BY <2>1, PhaseSame DEF NodeInv, SerialInv
    <2>3. /\ Shown' = [Shown EXCEPT ![v] = shownOn(v)']
          /\ Phase' = [Phase EXCEPT ![v] = phaseOn(v)']
          /\ Belief' = [Belief EXCEPT ![v] = beliefOf(kube'[v])]
      BY <1>3, <2>1, <2>2, OthersShown
    <2>4. Shown' = Shown /\ Phase' = Phase
      BY <1>3, <1>4, <2>2, <2>3
    <2>5. /\ kube[v] \in {"want", "uncertain", "published"}
          /\ kube'[v] = IF kube[v] = "want" THEN "gone" ELSE "unwant"
      BY <1>7 DEF Delete, NodeInv, TypeInv, KubeletOK
    <2>6. Belief[v] \in {"unknown", "served"}
      BY <1>4, <2>5 DEF beliefOf
    <2>7. kube[v] = "want" => Shown[v] = "nothing" /\ Belief[v] = "unknown"
      <3>1. kube[v] = "want" => mounts[v] = << >>
        BY <1>2 DEF NodeInv, DiskInv, Settled, Clean
      <3> QED BY <1>4, <3>1, MountedShows DEF MountedShown, beliefOf
    <2>8. Belief' = [Belief EXCEPT ![v] = IF kube[v] = "want" THEN "gone" ELSE "leaving"]
      BY <2>3, <2>5 DEF beliefOf
    <2>9. Contract!Delete(v)
      BY <1>5, <2>4, <2>6, <2>7, <2>8 DEF Contract!Delete, Contract!To, Shown, Phase, Belief
    <2> QED BY <2>9 DEF Contract!Next
  <1>8. ~Timeout(v)
    BY DEF Timeout, Spend, NodeInv, SerialInv
  <1> QED BY <1>6, <1>7, <1>8 DEF Kubelet, CallPublish, CallUnpublish

\* Between calls the process may come and go without the contract's notice.
LEMMA ProcessContract ==
  ASSUME CallsComplete, NodeInv, NodeInv', Process \/ Kill \/ UNCHANGED vars
  PROVE  UNCHANGED Contract!vars
  <1>1. mounts' = mounts /\ kube' = kube
    BY ExitDisk DEF Process, Kill, vars, kubelet, NodeInv
  <1>2. \A v \in Volumes : phaseOn(v)' = phaseOn(v)
    <2>1. CASE UNCHANGED <<pc, vol>>
      BY <2>1, PhaseSame DEF NodeInv, SerialInv
    <2>2. CASE Stopped \/ Kill
      <3>1. Quiet /\ Quiet'
        BY <2>2, ExitDisk DEF NodeInv
      <3>2. \A v \in Volumes : QuietOn(v) /\ QuietOn(v)'
        BY <3>1, NodeConstantsOK DEF Quiet, QuietOn, NodeInv, TypeInv, HasRequest
      <3> QED BY <3>2, PhaseNone
    <2> QED BY <2>1, <2>2 DEF Process, vars, handlers
  <1>3. \A v \in Volumes : shownOn(v)' = shownOn(v)
    BY <1>1, MountedShows, MountedShowsNext DEF MountedShown
  <1>4. UNCHANGED <<Shown, Phase, Belief>>
    BY <1>1, <1>2, <1>3 DEF Shown, Phase, Belief
  <1> QED BY <1>4 DEF Contract!vars, Shown, Phase, Belief

\* A reboot is the contract's reboot.
LEMMA RebootContract ==
  ASSUME NodeInv, NodeInv', Reboot
  PROVE  Contract!Reboot
  <1>1. \A v \in Volumes : shownOn(v)' = "nothing"
    BY MountedShowsNext DEF MountedShown, Reboot
  <1>2. \A v \in Volumes : phaseOn(v)' = "none"
    <2>1. \A v \in Volumes : QuietOn(v)'
      BY NodeConstantsOK DEF Reboot, endHandlers, QuietOn
    <2> QED BY <2>1, PhaseNone
  <1>3. \A v \in Volumes : beliefOf(kube'[v]) = IF beliefOf(kube[v]) = "served" THEN "unknown"
                                               ELSE beliefOf(kube[v])
    BY DEF Reboot, beliefOf, NodeInv, TypeInv, KubeletOK
  <1> QED BY <1>1, <1>2, <1>3 DEF Contract!Reboot

(* While every call runs to its end, the node server with its storage, its   *)
(* manager, its mounts and its life cycle does what VolumeContract says: the *)
(* pod sees the certificates or nothing, only a call on the volume changes   *)
(* that, and every answer is true of what the pod sees when it is given.     *)
THEOREM KeepsContract ==
  ASSUME CallsComplete
  PROVE  Spec => ImplementsContract
  <1>1. Init => Contract!Init
    <2> SUFFICES ASSUME Init PROVE Contract!Init
      OBVIOUS
    <2>1. \A v \in Volumes : shownOn(v) = "nothing"
      BY DEF Init, shownOn
    <2>2. \A v \in Volumes : phaseOn(v) = "none"
      BY PhaseNone, NodeConstantsOK DEF Init, QuietOn
    <2>3. \A v \in Volumes : beliefOf(kube[v]) = "unknown"
      BY DEF Init, beliefOf
    <2> QED BY <2>1, <2>2, <2>3 DEF Contract!Init
  <1>2. NodeInv /\ NodeInv' /\ [Next]_vars => [Contract!Next]_(Contract!vars)
    BY KubeletContract, StepContract, ProcessContract, RebootContract DEF Next, Contract!Next
  <1> QED BY <1>1, <1>2, NodeInvariant, PTL DEF Spec, ImplementsContract, Contract!Spec

=============================================================================
