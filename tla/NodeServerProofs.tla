-------------------------- MODULE NodeServerProofs --------------------------
(* Proofs about NodeServer, for any volumes, contexts and handlers and for   *)
(* any number of faults, timeouts, signals, kills and reboots.               *)
EXTENDS NodeServer, FiniteSetTheorems, TLAPS

-----------------------------------------------------------------------------
(* Types.                                                                    *)

HandlersOK ==
  /\ pc \in [Calls -> {"idle"} \cup PublishSteps \cup CleanupSteps \cup UnpublishSteps]
  /\ vol \in [Calls -> Volumes \cup {NoVolume}]
  /\ ctx \in [Calls -> Contexts \cup {NoContext}]
  /\ rem \in [Calls -> SUBSET {"meta", "data"}]

MountsOK == mounts \in [Volumes -> Seq({"live", "stale"})]

KubeletOK ==
  /\ target \subseteq Volumes
  /\ kube \in [Volumes -> {"want", "uncertain", "published", "unwant", "gone"}]
  /\ waiting \in [Volumes -> Calls \cup {NoCall}]

\* A handler has a volume as long as it runs, and a publish has a context.
HasRequest ==
  \A c \in Calls :
    /\ pc[c] = "idle" <=> vol[c] = NoVolume
    /\ pc[c] \in PublishSteps => ctx[c] \in Contexts

TypeInv ==
  /\ FsTypeOK
  /\ ManagerTypeOK
  /\ ServerTypeOK
  /\ HandlersOK
  /\ MountsOK
  /\ KubeletOK
  /\ HasRequest

\* What TypeInv says is what TypeOK says, and HasRequest.
LEMMA TypeInvTypeOK == TypeInv <=> TypeOK /\ HasRequest
  BY DEF TypeInv, TypeOK, HandlersOK, MountsOK, KubeletOK

\* The volume of a running handler.
LEMMA BusyVolume ==
  ASSUME TypeInv, NEW c \in Calls, pc[c] # "idle"
  PROVE  vol[c] \in Volumes
  BY DEF TypeInv, HandlersOK, HasRequest

-----------------------------------------------------------------------------
(* The storage and the handlers.                                             *)

\* The operations of the storage keep its types.
LEMMA FsOpsType ==
  ASSUME FsTypeOK, NEW c \in Calls, NEW v \in Volumes
  PROVE  /\ UNCHANGED fsVars => FsTypeOK'
         /\ forget(c) => FsTypeOK'
         /\ ensureVolumeDirectory(v) => FsTypeOK'
         /\ openMetadata(c, v) => FsTypeOK'
         /\ \A k \in Contexts : writeMetadata(c, v, k) => FsTypeOK'
         /\ writeStrayMetadata(v) => FsTypeOK'
         /\ makeTsDir(c, v) => FsTypeOK'
         /\ fillTsDir(c, v) => FsTypeOK'
         /\ linkTmp(c, v) => FsTypeOK'
         /\ commitFiles(c, v) => FsTypeOK'
         /\ dropTmp(c, v) => FsTypeOK'
         /\ \A e, h : removeEntry(v, e, h) => FsTypeOK'
         /\ removeVolumeDir(v) => FsTypeOK'
  <1> USE DEF FsTypeOK
  <1>1. UNCHANGED fsVars => FsTypeOK'
    BY DEF fsVars
  <1>2. forget(c) => FsTypeOK'
    BY DEF forget
  <1>3. ensureVolumeDirectory(v) => FsTypeOK'
    BY DEF ensureVolumeDirectory
  <1>4. openMetadata(c, v) => FsTypeOK'
    BY DEF openMetadata
  <1>5. \A k \in Contexts : writeMetadata(c, v, k) => FsTypeOK'
    BY DEF writeMetadata
  <1>6. writeStrayMetadata(v) => FsTypeOK'
    BY DEF writeStrayMetadata
  <1>7. makeTsDir(c, v) => FsTypeOK'
    BY DEF makeTsDir
  <1>8. fillTsDir(c, v) => FsTypeOK'
    BY DEF fillTsDir
  <1>9. linkTmp(c, v) => FsTypeOK'
    BY DEF linkTmp
  <1>10. commitFiles(c, v) => FsTypeOK'
    BY DEF commitFiles
  <1>11. dropTmp(c, v) => FsTypeOK'
    BY DEF dropTmp
  <1>12. \A e, h : removeEntry(v, e, h) => FsTypeOK'
    BY DEF removeEntry
  <1>13. removeVolumeDir(v) => FsTypeOK'
    BY DEF removeVolumeDir
  <1> QED BY <1>1, <1>2, <1>3, <1>4, <1>5, <1>6, <1>7, <1>8, <1>9, <1>10, <1>11, <1>12, <1>13

\* So do a new tmpfs and the end of the process.
LEMMA FsResetType ==
  ASSUME FsTypeOK
  PROVE  /\ mountTmpfs => FsTypeOK'
         /\ closeFiles => FsTypeOK'
  BY DEF FsTypeOK, mountTmpfs, closeFiles, HasCerts

-----------------------------------------------------------------------------
(* What every step of a handler does to the handlers.                        *)

AllSteps == PublishSteps \cup CleanupSteps \cup UnpublishSteps

\* A handler goes on to its next step.
LEMMA GotoType ==
  ASSUME TypeInv, NEW c \in Calls, pc[c] # "idle", NEW label \in AllSteps,
         label \in PublishSteps => pc[c] \in PublishSteps,
         Goto(c, label)
  PROVE  HandlersOK' /\ HasRequest'
  <1>1. label # "idle"
    BY DEF AllSteps, PublishSteps, CleanupSteps, UnpublishSteps
  <1> QED BY <1>1 DEF TypeInv, Goto, HandlersOK, HasRequest, AllSteps

\* A handler returns and the kubelet, if it still waits, learns of it.
LEMMA ReturnType ==
  ASSUME TypeInv, NEW c \in Calls, pc[c] # "idle", NEW answer, Return(c, answer),
         answer \in {"publishOK", "publishError", "unpublishOK", "unpublishError"}
  PROVE  HandlersOK' /\ HasRequest' /\ KubeletOK'
  <1>1. vol[c] \in Volumes
    BY BusyVolume
  <1>2. HandlersOK'
    BY DEF TypeInv, Return, HandlersOK
  <1>3. HasRequest'
    BY DEF TypeInv, Return, HandlersOK, HasRequest, PublishSteps
  <1>4. answered(kube[vol[c]], answer) \in {"want", "uncertain", "published", "unwant", "gone"}
    BY <1>1 DEF TypeInv, KubeletOK, answered
  <1>5. KubeletOK'
    BY <1>1, <1>4 DEF TypeInv, Return, KubeletOK, kubelet
  <1> QED BY <1>2, <1>3, <1>5

\* A handler fails and goes on to the cleanup.
LEMMA FailType ==
  ASSUME TypeInv, NEW c \in Calls, pc[c] # "idle", Fail(c)
  PROVE  /\ HandlersOK' /\ HasRequest' /\ FsTypeOK'
         /\ ManagerTypeOK' /\ MountsOK' /\ KubeletOK'
         /\ UNCHANGED <<managed, mounts, kubelet, process>>
  <1>1. "cUnmanage" \in AllSteps /\ "cUnmanage" \notin PublishSteps
    BY DEF AllSteps, PublishSteps, CleanupSteps
  <1>2. HandlersOK' /\ HasRequest'
    BY <1>1, GotoType DEF Fail
  <1>3. FsTypeOK'
    BY BusyVolume, FsOpsType DEF Fail, TypeInv
  <1> QED BY <1>2, <1>3 DEF Fail, TypeInv, ManagerTypeOK, MountsOK, KubeletOK, kubelet

\* Spending from the budget keeps its type.
LEMMA SpendType ==
  ASSUME ServerTypeOK, NEW what \in {"fault", "timeout", "crash", "signal"}, Spend(what)
  PROVE  budget' \in [{"fault", "timeout", "crash", "signal"} -> Nat]
  BY DEF ServerTypeOK, Spend

\* Handlers leave the process alone and spend at most a fault.
LEMMA ProcessSame ==
  ASSUME ServerTypeOK, UNCHANGED process,
         budget' = budget \/ Spend("fault") \/ \E f : Fault(f)
  PROVE  ServerTypeOK'
  <1>1. budget' \in [{"fault", "timeout", "crash", "signal"} -> Nat]
    BY SpendType DEF ServerTypeOK, Fault
  <1> QED BY <1>1 DEF ServerTypeOK, process

\* What is not touched keeps its type.
LEMMA UnchangedType ==
  ASSUME TypeInv
  PROVE  /\ UNCHANGED fsVars => FsTypeOK'
         /\ UNCHANGED managed => ManagerTypeOK'
         /\ UNCHANGED mounts => MountsOK'
         /\ UNCHANGED kubelet => KubeletOK'
         /\ UNCHANGED handlers => HandlersOK' /\ HasRequest'
  BY DEF TypeInv, fsVars, FsTypeOK, ManagerTypeOK, MountsOK, kubelet, KubeletOK,
         handlers, HandlersOK, HasRequest

-----------------------------------------------------------------------------
(* Every action keeps the types.                                             *)

\* The start.
LEMMA InitType == Init => TypeInv
  <1> SUFFICES ASSUME Init PROVE TypeInv
    OBVIOUS
  <1> USE DEF Init
  <1>1. FsTypeOK /\ ManagerTypeOK
    BY DEF FsInit, FsTypeOK, ManagerInit, ManagerTypeOK
  <1>2. ServerTypeOK
    <2>1. DOMAIN budget = {"fault", "timeout", "crash", "signal"}
      BY DEF ServerInit
    <2>2. \A what \in DOMAIN budget : budget[what] \in Nat
      BY <2>1, ServerConstantsOK DEF ServerInit
    <2>3. budget = [what \in DOMAIN budget |-> budget[what]]
      BY <2>1 DEF ServerInit
    <2> QED BY <2>1, <2>2, <2>3 DEF ServerInit, ServerTypeOK
  <1>3. HandlersOK /\ MountsOK /\ KubeletOK
    BY DEF HandlersOK, MountsOK, KubeletOK
  <1>4. HasRequest
    BY DEF HasRequest, PublishSteps
  <1> QED BY <1>1, <1>2, <1>3, <1>4 DEF TypeInv

\* The steps of a publish up to the fetch.
LEMMA PublishStepsType ==
  ASSUME TypeInv, NEW c \in Calls,
         validate(c) \/ registerMetadata(c) \/ checkReady(c) \/ manageVolumeImmediate(c)
           \/ readMetadata(c) \/ getCertificates(c)
  PROVE  TypeInv'
  <1> DEFINE next == {"regRead", "regDirs", "regOpen", "regWrite", "regStray", "ready",
                      "manage", "readMeta", "fetch", "ensure", "isMnt"}
  <1>1. pc[c] \in PublishSteps \ {"idle"} /\ vol[c] \in Volumes /\ ctx[c] \in Contexts
    <2>1. pc[c] \in PublishSteps \ {"idle"}
      BY DEF validate, registerMetadata, checkReady, manageVolumeImmediate, readMetadata,
             getCertificates, PublishSteps
    <2> QED BY <2>1, BusyVolume DEF TypeInv, HasRequest
  <1>2. next \subseteq AllSteps
    BY DEF AllSteps, PublishSteps
  <1>3. (\E label \in next : Goto(c, label)) => HandlersOK' /\ HasRequest'
    BY <1>1, <1>2, GotoType
  <1>4. Fail(c) => /\ HandlersOK' /\ HasRequest' /\ FsTypeOK' /\ ManagerTypeOK'
                   /\ MountsOK' /\ KubeletOK' /\ UNCHANGED process
    BY <1>1, FailType
  <1> HIDE DEF next
  <1>5. CASE validate(c)
    <2>1. Fail(c) \/ \E label \in next : Goto(c, label)
      BY <1>5 DEF validate, next
    <2>2. UNCHANGED process /\ UNCHANGED budget
      BY <1>5, <1>4 DEF validate
    <2> QED BY <1>5, <2>1, <2>2, <1>3, <1>4, UnchangedType, ProcessSame DEF TypeInv, validate
  <1>6. CASE registerMetadata(c)
    <2>1. Fail(c) \/ \E label \in next : Goto(c, label)
      BY <1>6 DEF registerMetadata, RegisterMetadata, next
    <2>2. UNCHANGED process /\ (UNCHANGED budget \/ \E f : Fault(f))
      BY <1>6, <1>4 DEF registerMetadata
    <2>3. HandlersOK' /\ HasRequest'
      BY <2>1, <1>3, <1>4
    <2>4. FsTypeOK'
      BY <1>6, <1>1, <1>4, FsOpsType DEF registerMetadata, TypeInv
    <2>5. ManagerTypeOK' /\ MountsOK' /\ KubeletOK'
      BY <1>6, <1>4, UnchangedType DEF registerMetadata
    <2> QED BY <2>2, <2>3, <2>4, <2>5, ProcessSame DEF TypeInv
  <1>7. CASE checkReady(c)
    <2>1. \E label \in next : Goto(c, label)
      BY <1>7 DEF checkReady, next
    <2> QED BY <1>7, <2>1, <1>3, UnchangedType, ProcessSame DEF TypeInv, checkReady
  <1>8. CASE manageVolumeImmediate(c)
    <2>1. \E label \in next : Goto(c, label)
      BY <1>8 DEF manageVolumeImmediate, next
    <2>2. ManagerTypeOK'
      BY <1>8, <1>1 DEF manageVolumeImmediate, manageVolumeIfNotManaged, TypeInv, ManagerTypeOK
    <2> QED BY <1>8, <2>1, <2>2, <1>3, UnchangedType, ProcessSame DEF TypeInv, manageVolumeImmediate
  <1>9. CASE readMetadata(c)
    <2>1. Fail(c) \/ \E label \in next : Goto(c, label)
      BY <1>9 DEF readMetadata, next
    <2>2. UNCHANGED process /\ UNCHANGED budget
      BY <1>9, <1>4 DEF readMetadata
    <2> QED BY <1>9, <2>1, <2>2, <1>3, <1>4, UnchangedType, ProcessSame DEF TypeInv, readMetadata
  <1>10. CASE getCertificates(c)
    <2>1. Fail(c) \/ \E label \in next : Goto(c, label)
      BY <1>10 DEF getCertificates, next
    <2>2. UNCHANGED process /\ (UNCHANGED budget \/ \E f : Fault(f))
      BY <1>10, <1>4 DEF getCertificates
    <2> QED BY <1>10, <2>1, <2>2, <1>3, <1>4, UnchangedType, ProcessSame DEF TypeInv, getCertificates
  <1> QED BY <1>5, <1>6, <1>7, <1>8, <1>9, <1>10

\* The write, the mount and its check.
LEMMA WriteMountType ==
  ASSUME TypeInv, NEW c \in Calls, writeCertificates(c) \/ isMountPoint(c) \/ mountData(c)
  PROVE  TypeInv'
  <1> DEFINE next == {"mkTs", "fill", "link", "rename", "isMnt", "mount", "cUnmanage"}
  <1>1. pc[c] \in PublishSteps \ {"idle"} /\ vol[c] \in Volumes
    <2>1. pc[c] \in PublishSteps \ {"idle"}
      BY DEF writeCertificates, isMountPoint, mountData, PublishSteps
    <2> QED BY <2>1, BusyVolume
  <1>2. next \subseteq AllSteps
    BY DEF AllSteps, PublishSteps, CleanupSteps
  <1>3. (\E label \in next : Goto(c, label)) => HandlersOK' /\ HasRequest'
    BY <1>1, <1>2, GotoType
  <1>4. Fail(c) => /\ HandlersOK' /\ HasRequest' /\ FsTypeOK' /\ ManagerTypeOK'
                   /\ MountsOK' /\ KubeletOK' /\ UNCHANGED process
    BY <1>1, FailType
  <1>5. Return(c, "publishOK") => HandlersOK' /\ HasRequest' /\ KubeletOK'
    BY <1>1, ReturnType
  <1> HIDE DEF next
  <1>6. CASE writeCertificates(c)
    <2>1. Fail(c) \/ \E label \in next : Goto(c, label)
      BY <1>6 DEF writeCertificates, next
    <2>2. UNCHANGED process /\ (UNCHANGED budget \/ \E f : Fault(f))
      BY <1>6, <1>4 DEF writeCertificates
    <2>3. HandlersOK' /\ HasRequest'
      BY <2>1, <1>3, <1>4
    <2>4. FsTypeOK'
      BY <1>6, <1>1, <1>4, FsOpsType DEF writeCertificates, TypeInv
    <2>5. ManagerTypeOK' /\ MountsOK' /\ KubeletOK'
      BY <1>6, <1>4, UnchangedType DEF writeCertificates
    <2> QED BY <2>2, <2>3, <2>4, <2>5, ProcessSame DEF TypeInv
  <1>7. CASE isMountPoint(c)
    <2>1. Fail(c) \/ Return(c, "publishOK") \/ \E label \in next : Goto(c, label)
      BY <1>7 DEF isMountPoint, next
    <2>2. UNCHANGED process /\ (UNCHANGED budget \/ \E f : Fault(f))
      BY <1>7, <1>4 DEF isMountPoint
    <2>3. HandlersOK' /\ HasRequest'
      BY <2>1, <1>3, <1>4, <1>5
    <2>4. FsTypeOK' /\ ManagerTypeOK' /\ MountsOK'
      BY <1>7, <1>4, UnchangedType DEF isMountPoint
    <2>5. KubeletOK'
      BY <1>7, <1>1, <1>4, <1>5 DEF isMountPoint, TypeInv, KubeletOK
    <2> QED BY <2>2, <2>3, <2>4, <2>5, ProcessSame DEF TypeInv
  <1>8. CASE mountData(c)
    <2>1. Fail(c) \/ Return(c, "publishOK") \/ \E label \in next : Goto(c, label)
      BY <1>8 DEF mountData, next
    <2>2. UNCHANGED process /\ (UNCHANGED budget \/ \E f : Fault(f))
      BY <1>8, <1>4 DEF mountData
    <2>3. HandlersOK' /\ HasRequest'
      BY <2>1, <1>3, <1>4, <1>5
    <2>4. FsTypeOK' /\ ManagerTypeOK' /\ KubeletOK'
      BY <1>8, <1>4, <1>5, UnchangedType DEF mountData
    <2>5. MountsOK'
      <3>1. <<"live">> \o mounts[vol[c]] \in Seq({"live", "stale"})
        BY <1>1 DEF TypeInv, MountsOK
      <3> QED BY <1>8, <1>1, <1>4, <3>1 DEF mountData, TypeInv, MountsOK
    <2> QED BY <2>2, <2>3, <2>4, <2>5, ProcessSame DEF TypeInv
  <1> QED BY <1>6, <1>7, <1>8

\* RemoveAll, in the cleanup and in an unpublish.
LEMMA RemoveVolumeType ==
  ASSUME TypeInv, NEW c \in Calls, NEW list, NEW entry, NEW done, NEW failed,
         {list, entry} \subseteq CleanupSteps \cup UnpublishSteps,
         {done, failed} \subseteq {"publishError", "unpublishOK", "unpublishError"},
         removeVolume(c, list, entry, done, failed)
  PROVE  TypeInv'
  <1>1. {list, entry} \subseteq AllSteps \ (PublishSteps \cup {"idle"})
    BY DEF AllSteps, PublishSteps, CleanupSteps, UnpublishSteps
  <1>2. pc[c] # "idle" /\ vol[c] \in Volumes
    BY <1>1, BusyVolume DEF removeVolume
  <1>3. (\E answer \in {done, failed} : Return(c, answer))
          => HandlersOK' /\ HasRequest' /\ KubeletOK'
    BY <1>2, ReturnType
  <1>4. UNCHANGED process /\ (UNCHANGED budget \/ \E f : Fault(f))
    BY DEF removeVolume
  <1>5. ServerTypeOK'
    BY <1>4, ProcessSame DEF TypeInv
  <1>6. FsTypeOK'
    BY <1>2, FsOpsType DEF removeVolume, TypeInv
  <1>7. ManagerTypeOK'
    BY UnchangedType DEF removeVolume
  <1>8. MountsOK'
    <2>1. [i \in DOMAIN mounts[vol[c]] |-> "stale"] \in Seq({"live", "stale"})
      BY <1>2 DEF TypeInv, MountsOK
    <2> QED BY <1>2, <2>1 DEF removeVolume, StaleMounts, TypeInv, MountsOK
  <1>9. HandlersOK' /\ HasRequest'
    <2>1. CASE \E answer \in {done, failed} : Return(c, answer)
      BY <2>1, <1>3
    <2>2. CASE ~ \E answer \in {done, failed} : Return(c, answer)
      <3>1. /\ pc' \in {pc, [pc EXCEPT ![c] = entry]}
            /\ UNCHANGED <<vol, ctx>>
            /\ rem' \in {[rem EXCEPT ![c] = Entries(vol[c])]}
                          \cup {[rem EXCEPT ![c] = @ \ {e}] : e \in rem[c]}
        BY <2>2 DEF removeVolume
      <3>2. Entries(vol[c]) \subseteq {"meta", "data"}
        BY DEF Entries
      <3> QED BY <3>1, <3>2, <1>1, <1>2 DEF TypeInv, HandlersOK, HasRequest, AllSteps
    <2> QED BY <2>1, <2>2
  <1>10. KubeletOK'
    BY <1>3, UnchangedType DEF removeVolume
  <1> QED BY <1>5, <1>6, <1>7, <1>8, <1>9, <1>10 DEF TypeInv

\* The cleanup and the unpublish.
LEMMA UndoType ==
  ASSUME TypeInv, NEW c \in Calls, cleanup(c) \/ nodeUnpublishVolume(c)
  PROVE  TypeInv'
  <1> DEFINE next == {"cUnmount", "cList", "uIsMnt", "uUnmount", "uList"}
  <1>1. CASE \/ removeVolume(c, "cList", "cEntry", "publishError", "publishError")
             \/ removeVolume(c, "uList", "uEntry", "unpublishOK", "unpublishError")
    BY <1>1, RemoveVolumeType DEF CleanupSteps, UnpublishSteps
  <1>2. CASE /\ ~removeVolume(c, "cList", "cEntry", "publishError", "publishError")
             /\ ~removeVolume(c, "uList", "uEntry", "unpublishOK", "unpublishError")
    <2>1. pc[c] \in {"cUnmanage", "cUnmount", "uUnmanage", "uIsMnt", "uUnmount"}
      BY <1>2 DEF cleanup, nodeUnpublishVolume
    <2>2. vol[c] \in Volumes
      BY <2>1, BusyVolume
    <2>3. next \subseteq AllSteps \ PublishSteps
      BY DEF AllSteps, PublishSteps, CleanupSteps, UnpublishSteps
    <2>4. (\E label \in next : Goto(c, label)) => HandlersOK' /\ HasRequest'
      BY <2>1, <2>3, GotoType
    <2>5. Return(c, "unpublishError") => HandlersOK' /\ HasRequest' /\ KubeletOK'
      BY <2>1, ReturnType
    <2> HIDE DEF next
    <2>6. Return(c, "unpublishError") \/ \E label \in next : Goto(c, label)
      BY <1>2 DEF cleanup, nodeUnpublishVolume, afterIsMountPoint, next
    <2>7. UNCHANGED process /\ UNCHANGED fsVars /\ (UNCHANGED budget \/ \E f : Fault(f))
      BY <1>2 DEF cleanup, nodeUnpublishVolume
    <2>8. KubeletOK'
      BY <1>2, <2>5, UnchangedType DEF cleanup, nodeUnpublishVolume
    <2>9. ManagerTypeOK'
      BY <1>2, UnchangedType DEF cleanup, nodeUnpublishVolume, UnmanageVolume, TypeInv, ManagerTypeOK
    <2>10. MountsOK'
      <3>1. mounts[vol[c]] # << >> => Tail(mounts[vol[c]]) \in Seq({"live", "stale"})
        BY <2>2 DEF TypeInv, MountsOK
      <3> QED BY <1>2, <2>2, <3>1 DEF cleanup, cleanupUnmount, nodeUnpublishVolume, TypeInv, MountsOK
    <2> QED BY <2>4, <2>5, <2>6, <2>7, <2>8, <2>9, <2>10, UnchangedType, ProcessSame DEF TypeInv
  <1> QED BY <1>1, <1>2

\* The kubelet.
LEMMA KubeletType ==
  ASSUME TypeInv, NEW v \in Volumes, Kubelet(v)
  PROVE  TypeInv'
  <1>1. CASE \E c \in Calls, label \in {"validate", "uUnmanage"},
                 context \in Contexts \cup {NoContext} :
               /\ label = "validate" => context \in Contexts
               /\ Begin(c, v, label, context)
    <2> PICK c \in Calls, label \in {"validate", "uUnmanage"},
             context \in Contexts \cup {NoContext} :
               /\ label = "validate" => context \in Contexts
               /\ Begin(c, v, label, context)
      BY <1>1
    <2> USE DEF Begin
    <2>1. HandlersOK'
      BY DEF TypeInv, HandlersOK, PublishSteps, UnpublishSteps
    <2>2. HasRequest'
      BY NodeConstantsOK DEF TypeInv, HandlersOK, HasRequest, PublishSteps
    <2>3. KubeletOK'
      BY DEF TypeInv, KubeletOK
    <2> QED BY <2>1, <2>2, <2>3, UnchangedType, ProcessSame DEF TypeInv
  <1>2. CASE Delete(v)
    <2>1. KubeletOK'
      BY <1>2 DEF Delete, TypeInv, KubeletOK
    <2> QED BY <1>2, <2>1, UnchangedType, ProcessSame DEF Delete, TypeInv
  <1>3. CASE Timeout(v)
    <2>1. KubeletOK'
      BY <1>3 DEF Timeout, TypeInv, KubeletOK
    <2>2. ServerTypeOK'
      BY <1>3, SpendType DEF Timeout, TypeInv, ServerTypeOK, process
    <2> QED BY <1>3, <2>1, <2>2, UnchangedType DEF Timeout, TypeInv
  <1> QED BY <1>1, <1>2, <1>3 DEF Kubelet, CallPublish, CallUnpublish

\* The ends of the process.
LEMMA ExitType ==
  ASSUME TypeInv, NEW left \in {"none", "file", "open"}, exit(left),
         budget' = budget \/ \E what \in {"fault", "crash", "signal"} : Spend(what)
  PROVE  ServerTypeOK' /\ ManagerTypeOK'
  <1>1. budget' \in [{"fault", "timeout", "crash", "signal"} -> Nat]
    BY SpendType DEF TypeInv, ServerTypeOK
  <1> QED BY <1>1 DEF exit, TypeInv, ServerTypeOK, ManagerTypeOK

\* The handlers end with the process.
LEMMA EndHandlersType ==
  ASSUME TypeInv, endHandlers,
         kube' \in [Volumes -> {"want", "uncertain", "published", "unwant", "gone"}]
  PROVE  HandlersOK' /\ HasRequest' /\ KubeletOK'
  BY DEF endHandlers, TypeInv, HandlersOK, HasRequest, KubeletOK, PublishSteps

\* Start-up and the graceful stop.
LEMMA ProcessType ==
  ASSUME TypeInv, Process
  PROVE  TypeInv'
  <1>1. socket \in {"none", "file", "open"}
    BY DEF TypeInv, ServerTypeOK
  <1>2. CASE (Boot \/ Signal \/ gracefulStop) /\ UNCHANGED <<handlers, mounts, kubelet>>
    <2>1. HandlersOK' /\ HasRequest' /\ MountsOK' /\ KubeletOK'
      BY <1>2, UnchangedType
    <2>2. CASE \E left \in {socket, removeSocket} :
                 /\ exit(left) /\ UNCHANGED fsVars
                 /\ budget' = budget \/ Spend("fault")
      BY <2>2, <2>1, <1>1, ExitType, UnchangedType DEF TypeInv, removeSocket
    <2>3. CASE Start \/ newStore \/ newSource
      <3>1. CASE proc' = "down"
        <4>1. exit(socket) /\ Spend("fault") /\ UNCHANGED fsVars
          BY <2>3, <3>1 DEF Start, newStore, newSource, Fault
        <4> QED BY <4>1, <2>2
      <3>2. CASE proc' # "down"
        <4>1. FsTypeOK'
          BY <2>3, <3>2, UnchangedType, FsResetType DEF Start, newStore, newSource, TypeInv, exit
        <4>2. ServerTypeOK' /\ ManagerTypeOK'
          BY <2>3, <3>2 DEF Start, newStore, newSource, exit, TypeInv, ServerTypeOK, ManagerTypeOK,
                            BootSteps
        <4> QED BY <4>1, <4>2, <2>1 DEF TypeInv
      <3> QED BY <3>1, <3>2
    <2>4. CASE newManagerOrDie \/ newGRPCServer
      <3>1. UNCHANGED fsVars
        BY <2>4 DEF newManagerOrDie, newGRPCServer
      <3>2. CASE proc' = "down"
        <4>1. \E left \in {socket, removeSocket} : exit(left) /\ (budget' = budget \/ Spend("fault"))
          BY <2>4, <3>2 DEF newManagerOrDie, newGRPCServer, Fault
        <4> QED BY <4>1, <3>1, <2>2
      <3>3. CASE proc' # "down"
        <4>1. ServerTypeOK' /\ ManagerTypeOK'
          BY <2>4, <3>3 DEF newManagerOrDie, newGRPCServer, NewManager, ListVolumes, exit, TypeInv,
                            ServerTypeOK, ManagerTypeOK, FsTypeOK, BootSteps
        <4> QED BY <4>1, <3>1, <2>1, UnchangedType DEF TypeInv
      <3> QED BY <3>2, <3>3
    <2>5. CASE serve \/ Signal \/ gracefulStop
      <3>1. UNCHANGED fsVars /\ UNCHANGED managed
        BY <2>5 DEF serve, Signal, gracefulStop
      <3>2. budget' \in [{"fault", "timeout", "crash", "signal"} -> Nat]
        BY <2>5, SpendType DEF serve, Signal, gracefulStop, TypeInv, ServerTypeOK
      <3>3. ServerTypeOK'
        BY <2>5, <3>2 DEF serve, Signal, gracefulStop, TypeInv, ServerTypeOK
      <3> QED BY <3>1, <3>3, <2>1, UnchangedType DEF TypeInv
    <2> QED BY <1>2, <2>3, <2>4, <2>5 DEF Boot
  <1>3. CASE Stopped
    <2>1. ServerTypeOK' /\ ManagerTypeOK'
      BY <1>3, ExitType DEF Stopped, stopped
    <2>2. kube' \in [Volumes -> {"want", "uncertain", "published", "unwant", "gone"}]
      BY <1>3 DEF Stopped, unanswered, TypeInv, KubeletOK
    <2>3. HandlersOK' /\ HasRequest' /\ KubeletOK'
      BY <1>3, <2>2, EndHandlersType DEF Stopped
    <2> QED BY <1>3, <2>1, <2>3, FsResetType, UnchangedType DEF Stopped, TypeInv
  <1> QED BY <1>2, <1>3 DEF Process

\* Kills and reboots.
LEMMA CrashType ==
  ASSUME TypeInv, Kill \/ Reboot
  PROVE  TypeInv'
  <1>1. CASE Kill
    <2>1. ServerTypeOK' /\ ManagerTypeOK'
      BY <1>1, ExitType DEF Kill, Abandoned
    <2>2. kube' \in [Volumes -> {"want", "uncertain", "published", "unwant", "gone"}]
      BY <1>1 DEF Kill, unanswered, TypeInv, KubeletOK
    <2>3. HandlersOK' /\ HasRequest' /\ KubeletOK'
      BY <1>1, <2>2, EndHandlersType DEF Kill
    <2> QED BY <1>1, <2>1, <2>3, FsResetType, UnchangedType DEF Kill, TypeInv
  <1>2. CASE Reboot
    <2>1. ServerTypeOK' /\ ManagerTypeOK'
      BY <1>2, SpendType DEF Reboot, Abandoned, TypeInv, ServerTypeOK, ManagerTypeOK
    <2>2. kube' \in [Volumes -> {"want", "uncertain", "published", "unwant", "gone"}]
      BY <1>2 DEF Reboot, TypeInv, KubeletOK
    <2>3. HandlersOK' /\ HasRequest' /\ KubeletOK'
      BY <1>2, <2>2, EndHandlersType DEF Reboot
    <2>4. MountsOK'
      BY <1>2 DEF Reboot, MountsOK
    <2> QED BY <1>2, <2>1, <2>3, <2>4, FsResetType DEF Reboot, TypeInv
  <1> QED BY <1>1, <1>2

\* Every step keeps the types.
LEMMA NextType ==
  ASSUME TypeInv, [Next]_vars
  PROVE  TypeInv'
  <1>1. CASE UNCHANGED vars
    <2>1. UNCHANGED <<fsVars, managed, handlers, mounts, kubelet, process, budget>>
      BY <1>1 DEF vars, serverVars, handlers, kubelet
    <2> QED BY <2>1, UnchangedType, ProcessSame DEF TypeInv
  <1>2. CASE Next
    BY <1>2, PublishStepsType, WriteMountType, UndoType, KubeletType, ProcessType, CrashType
       DEF Next, Step
  <1> QED BY <1>1, <1>2

(* Every variable of the node server keeps its type, whatever overlaps,      *)
(* fails, times out or crashes, for any volumes, contexts and handlers.      *)
THEOREM TypeCorrect == Spec => []TypeOK
  <1>1. TypeInv /\ [Next]_vars => TypeInv'
    BY NextType
  <1>2. TypeInv => TypeOK
    BY TypeInvTypeOK
  <1> QED BY InitType, <1>1, <1>2, PTL DEF Spec

-----------------------------------------------------------------------------
(* The mounts on a target path, with calls that overlap.  A handler that is  *)
(* about to mount has seen no mount, so the mounts that are there and those  *)
(* to come are together no more than the handlers.                           *)

Mounting(v) == {c \in Calls : pc[c] = "mount" /\ vol[c] = v}

MountRoom ==
  \A v \in Volumes : Len(mounts[v]) + Cardinality(Mounting(v)) <= Cardinality(Calls)

\* What a step may do to the mounts of v: nothing new, or a mount by a handler
\* that was to make one, or nothing is mounted.
MountMove(v) ==
  \/ /\ Len(mounts'[v]) <= Len(mounts[v])
     /\ Mounting(v)' \subseteq Mounting(v)
  \/ /\ Len(mounts'[v]) = Len(mounts[v]) + 1
     /\ \E c \in Mounting(v) : Mounting(v)' \subseteq Mounting(v) \ {c}
  \/ /\ Len(mounts'[v]) = 0
     /\ Mounting(v)' \subseteq Calls

\* Such a step keeps the bound.
LEMMA MountMoveRoom ==
  ASSUME TypeInv, TypeInv', MountRoom, \A v \in Volumes : MountMove(v)
  PROVE  MountRoom'
  <1> SUFFICES ASSUME NEW v \in Volumes
               PROVE  Len(mounts'[v]) + Cardinality(Mounting(v)') <= Cardinality(Calls)
    BY DEF MountRoom
  <1>1. IsFiniteSet(Calls) /\ Cardinality(Calls) \in Nat
    BY NodeConstantsOK, FS_CardinalityType
  <1>2. /\ IsFiniteSet(Mounting(v)) /\ Cardinality(Mounting(v)) \in Nat
        /\ Cardinality(Mounting(v)) <= Cardinality(Calls)
    BY <1>1, FS_Subset, FS_CardinalityType DEF Mounting
  <1>3. Len(mounts[v]) \in Nat /\ Len(mounts'[v]) \in Nat
    BY DEF TypeInv, MountsOK
  <1>4. Len(mounts[v]) + Cardinality(Mounting(v)) <= Cardinality(Calls)
    BY DEF MountRoom
  <1>5. CASE Len(mounts'[v]) <= Len(mounts[v]) /\ Mounting(v)' \subseteq Mounting(v)
    <2>1. Cardinality(Mounting(v)') \in Nat /\ Cardinality(Mounting(v)') <= Cardinality(Mounting(v))
      BY <1>2, <1>5, FS_Subset, FS_CardinalityType
    <2> QED BY <2>1, <1>1, <1>2, <1>3, <1>4, <1>5
  <1>6. CASE /\ Len(mounts'[v]) = Len(mounts[v]) + 1
             /\ \E c \in Mounting(v) : Mounting(v)' \subseteq Mounting(v) \ {c}
    <2> PICK c \in Mounting(v) : Mounting(v)' \subseteq Mounting(v) \ {c}
      BY <1>6
    <2>1. /\ IsFiniteSet(Mounting(v) \ {c})
          /\ Cardinality(Mounting(v) \ {c}) = Cardinality(Mounting(v)) - 1
      BY <1>2, FS_RemoveElement
    <2>2. /\ Cardinality(Mounting(v)') \in Nat
          /\ Cardinality(Mounting(v)') <= Cardinality(Mounting(v) \ {c})
      BY <2>1, FS_Subset, FS_CardinalityType
    <2> QED BY <2>1, <2>2, <1>1, <1>2, <1>3, <1>4, <1>6
  <1>7. CASE Len(mounts'[v]) = 0 /\ Mounting(v)' \subseteq Calls
    <2>1. Cardinality(Mounting(v)') \in Nat /\ Cardinality(Mounting(v)') <= Cardinality(Calls)
      BY <1>1, <1>7, FS_Subset, FS_CardinalityType
    <2> QED BY <2>1, <1>1, <1>7
  <1> QED BY <1>5, <1>6, <1>7 DEF MountMove

\* A handler that goes anywhere but to the mount is not about to mount.
LEMMA NotMounting ==
  ASSUME TypeInv, NEW c \in Calls, NEW v \in Volumes,
         \/ \E label : label # "mount" /\ Goto(c, label)
         \/ Fail(c)
         \/ \E answer : Return(c, answer)
         \/ pc' = [pc EXCEPT ![c] = "cEntry"] /\ UNCHANGED vol
         \/ pc' = [pc EXCEPT ![c] = "uEntry"] /\ UNCHANGED vol
  PROVE  Mounting(v)' \subseteq Mounting(v) \ {c}
  <1>1. /\ pc'[c] # "mount"
        /\ \A d \in Calls \ {c} : pc'[d] = pc[d] /\ vol'[d] = vol[d]
    BY DEF TypeInv, HandlersOK, Goto, Fail, Return
  <1> QED BY <1>1 DEF Mounting

\* What is left alone.
LEMMA SameMounting ==
  ASSUME NEW v \in Volumes, UNCHANGED <<pc, vol>>
  PROVE  Mounting(v)' = Mounting(v)
  BY DEF Mounting

\* Every step of a handler is such a step.
LEMMA StepMountMove ==
  ASSUME TypeInv, NEW c \in Calls, Step(c), NEW v \in Volumes
  PROVE  MountMove(v)
  <1>1. Len(mounts[v]) \in Nat
    BY DEF TypeInv, MountsOK
  <1>2. CASE mounts' = mounts /\ Mounting(v)' \subseteq Mounting(v)
    BY <1>1, <1>2 DEF MountMove
  <1>3. CASE validate(c) \/ registerMetadata(c) \/ checkReady(c) \/ manageVolumeImmediate(c)
               \/ readMetadata(c) \/ getCertificates(c) \/ writeCertificates(c)
    <2>1. Fail(c) \/ \E label : label # "mount" /\ Goto(c, label)
      BY <1>3 DEF validate, registerMetadata, RegisterMetadata, checkReady, manageVolumeImmediate,
                  readMetadata, getCertificates, writeCertificates
    <2>2. mounts' = mounts
      BY <1>3 DEF validate, registerMetadata, checkReady, manageVolumeImmediate,
                  readMetadata, getCertificates, writeCertificates, Fail
    <2> QED BY <2>1, <2>2, <1>2, NotMounting
  <1>4. CASE isMountPoint(c)
    <2>1. mounts' = mounts
      BY <1>4 DEF isMountPoint, Fail
    <2>2. CASE Fail(c) \/ Return(c, "publishOK")
      BY <2>1, <2>2, <1>2, NotMounting
    <2>3. CASE Goto(c, "mount") /\ ~AtMountPoint(vol[c])
      <3>1. CASE v = vol[c]
        BY <3>1, <2>1, <2>3 DEF AtMountPoint, MountMove, Mounting
      <3>2. CASE v # vol[c]
        <4>1. Mounting(v)' \subseteq Mounting(v)
          BY <3>2, <2>3 DEF Goto, Mounting, TypeInv, HandlersOK
        <4> QED BY <4>1, <2>1, <1>2
      <3> QED BY <3>1, <3>2
    <2> QED BY <1>4, <2>2, <2>3 DEF isMountPoint
  <1>5. CASE mountData(c)
    <2>1. vol[c] \in Volumes
      BY <1>5, BusyVolume DEF mountData
    <2>2. Fail(c) \/ Return(c, "publishOK") \/ Goto(c, "cUnmanage")
      BY <1>5 DEF mountData
    <2>3. Mounting(v)' \subseteq Mounting(v) \ {c}
      BY <2>2, NotMounting
    <2>4. CASE mounts' = mounts
      BY <2>3, <2>4, <1>2
    <2>5. CASE mounts' = [mounts EXCEPT ![vol[c]] = <<"live">> \o @]
      <3>1. CASE v = vol[c]
        <4>1. c \in Mounting(v)
          BY <1>5, <3>1 DEF mountData, Mounting
        <4>2. Len(mounts'[v]) = Len(mounts[v]) + 1
          BY <2>1, <2>5, <3>1 DEF TypeInv, MountsOK
        <4> QED BY <4>1, <4>2, <2>3 DEF MountMove
      <3>2. CASE v # vol[c]
        BY <2>1, <2>3, <2>5, <3>2, <1>1 DEF MountMove, TypeInv, MountsOK
      <3> QED BY <3>1, <3>2
    <2> QED BY <1>5, <2>4, <2>5 DEF mountData, Fail
  <1>6. CASE cleanup(c) \/ nodeUnpublishVolume(c)
    <2>1. Mounting(v)' \subseteq Mounting(v)
      <3>1. CASE UNCHANGED <<pc, vol>>
        BY <3>1, SameMounting
      <3>2. CASE ~UNCHANGED <<pc, vol>>
        <4>1. \/ \E label : label # "mount" /\ Goto(c, label)
              \/ \E answer : Return(c, answer)
              \/ pc' = [pc EXCEPT ![c] = "cEntry"] /\ UNCHANGED vol
              \/ pc' = [pc EXCEPT ![c] = "uEntry"] /\ UNCHANGED vol
          BY <1>6, <3>2 DEF cleanup, nodeUnpublishVolume, removeVolume, afterIsMountPoint
        <4> QED BY <4>1, NotMounting
      <3> QED BY <3>1, <3>2
    <2>2. vol[c] \in Volumes
      BY <1>6, BusyVolume DEF cleanup, nodeUnpublishVolume, removeVolume
    <2>3. \/ mounts' = mounts
          \/ mounts[vol[c]] # << >> /\ mounts' = [mounts EXCEPT ![vol[c]] = Tail(@)]
          \/ mounts' = [mounts EXCEPT ![vol[c]] = [i \in DOMAIN @ |-> "stale"]]
      BY <1>6, <2>2 DEF cleanup, cleanupUnmount, nodeUnpublishVolume, removeVolume, StaleMounts,
                        TypeInv, MountsOK
    <2>4. Len(mounts'[v]) <= Len(mounts[v])
      <3>1. mounts[v] \in Seq({"live", "stale"})
        BY DEF TypeInv, MountsOK
      <3>2. mounts[v] # << >> => Len(Tail(mounts[v])) <= Len(mounts[v])
        BY <3>1
      <3>3. Len([i \in DOMAIN mounts[v] |-> "stale"]) = Len(mounts[v])
        BY <3>1
      <3>4. \/ mounts'[v] = mounts[v]
            \/ mounts[v] # << >> /\ mounts'[v] = Tail(mounts[v])
            \/ mounts'[v] = [i \in DOMAIN mounts[v] |-> "stale"]
        BY <2>2, <2>3 DEF TypeInv, MountsOK
      <3>5. CASE mounts'[v] = mounts[v]
        BY <3>5, <1>1
      <3>6. CASE mounts[v] # << >> /\ mounts'[v] = Tail(mounts[v])
        BY <3>6, <3>2
      <3>7. CASE mounts'[v] = [i \in DOMAIN mounts[v] |-> "stale"]
        <4>1. Len(mounts'[v]) = Len(mounts[v])
          BY <3>7, <3>3, Zenon
        <4> QED BY <4>1, <1>1
      <3> QED BY <3>4, <3>5, <3>6, <3>7
    <2> QED BY <2>1, <2>4 DEF MountMove
  <1> QED BY <1>3, <1>4, <1>5, <1>6 DEF Step

\* Every step of the node server keeps the bound.
LEMMA NextMountRoom ==
  ASSUME TypeInv, MountRoom, [Next]_vars
  PROVE  MountRoom'
  <1> SUFFICES ASSUME NEW v \in Volumes PROVE MountMove(v)
    BY NextType, MountMoveRoom
  <1>1. Len(mounts[v]) \in Nat
    BY DEF TypeInv, MountsOK
  <1>2. CASE mounts' = mounts /\ Mounting(v)' \subseteq Mounting(v)
    BY <1>1, <1>2 DEF MountMove
  <1>3. CASE UNCHANGED vars
    BY <1>2, <1>3, SameMounting DEF vars, handlers
  <1>4. CASE \E w \in Volumes : Kubelet(w)
    <2>1. mounts' = mounts
      BY <1>4 DEF Kubelet, CallPublish, CallUnpublish, Begin, Delete, Timeout
    <2>2. UNCHANGED <<pc, vol>> \/ \E c \in Calls, w \in Volumes, label \in {"validate", "uUnmanage"} :
                                     pc' = [pc EXCEPT ![c] = label] /\ vol' = [vol EXCEPT ![c] = w]
      BY <1>4 DEF Kubelet, CallPublish, CallUnpublish, Begin, Delete, Timeout, handlers
    <2>3. Mounting(v)' \subseteq Mounting(v)
      BY <2>2 DEF Mounting, TypeInv, HandlersOK
    <2> QED BY <2>1, <2>3, <1>2
  <1>5. CASE \E c \in Calls : Step(c)
    BY <1>5, StepMountMove
  <1>6. CASE Process /\ UNCHANGED <<handlers, mounts>>
    BY <1>6, <1>2, SameMounting DEF handlers
  <1>7. CASE endHandlers
    <2>1. Mounting(v)' = {}
      BY <1>7 DEF endHandlers, Mounting
    <2>2. CASE mounts' = mounts
      BY <2>1, <2>2, <1>2
    <2>3. CASE mounts' = [w \in Volumes |-> << >>]
      BY <2>1, <2>3 DEF MountMove
    <2> QED BY <1>7, <2>2, <2>3, <1>3, <1>4, <1>5, <1>6 DEF Next, Process, Stopped, Kill, Reboot
  <1> QED BY <1>3, <1>4, <1>5, <1>6, <1>7 DEF Next, Process, Stopped, Kill, Reboot

(* However calls overlap, time out, fail to unmount or are killed, a target  *)
(* path never carries more mounts than there are handlers: NodePublishVolume *)
(* mounts only where it has seen no mount (nodeserver.go:79-106) .           *)
THEOREM MountsAreBounded == Spec => []MountsBounded
  <1>1. Init => MountRoom
    <2> SUFFICES ASSUME Init, NEW v \in Volumes
                 PROVE  Len(mounts[v]) + Cardinality(Mounting(v)) <= Cardinality(Calls)
      BY DEF MountRoom
    <2>1. Len(mounts[v]) = 0 /\ Mounting(v) = {}
      BY DEF Init, Mounting
    <2> QED BY <2>1, NodeConstantsOK, FS_CardinalityType, FS_EmptySet
  <1>2. TypeInv /\ MountRoom /\ [Next]_vars => TypeInv' /\ MountRoom'
    BY NextType, NextMountRoom
  <1>3. TypeInv /\ MountRoom => MountsBounded
    <2> SUFFICES ASSUME TypeInv, MountRoom, NEW v \in Volumes
                 PROVE  Len(mounts[v]) <= Cardinality(Calls)
      BY DEF MountsBounded
    <2>1. IsFiniteSet(Calls) /\ Cardinality(Calls) \in Nat
      BY NodeConstantsOK, FS_CardinalityType
    <2>2. Cardinality(Mounting(v)) \in Nat
      BY <2>1, FS_Subset, FS_CardinalityType DEF Mounting
    <2> QED BY <2>1, <2>2 DEF MountRoom, TypeInv, MountsOK
  <1> QED BY InitType, <1>1, <1>2, <1>3, PTL DEF Spec

=============================================================================
