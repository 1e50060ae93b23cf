-------------------------- MODULE NodeSerialProofs --------------------------
(* Proofs about NodeServer while one call at a time runs on each volume: the *)
(* kubelet waits for every answer and a mount that is there can be unmounted.*)
EXTENDS NodeServerProofs

OneAtATime == MaxTimeouts = 0 /\ "unmount" \notin Faults

-----------------------------------------------------------------------------
(* One call per volume, and its mounts.                                      *)

\* The kubelet waits for exactly the handlers that run.
OneCall == \A c \in Calls, v \in Volumes : waiting[v] = c <=> vol[c] = v

MountSteps == {"mount", "cList", "cEntry", "uList", "uEntry"}

\* At most one live mount, and none when data/ is about to be mounted or removed.
MountsSound ==
  /\ \A v \in Volumes : mounts[v] \in {<< >>, <<"live">>}
  /\ \A c \in Calls : pc[c] \in MountSteps => mounts[vol[c]] = << >>

SerialInv ==
  /\ budget["timeout"] = 0
  /\ OneCall
  /\ MountsSound

-----------------------------------------------------------------------------
(* A handler touches its own volume only.                                    *)

SameFs(c, v) ==
  /\ \A w \in Volumes \ {v} :
       /\ w \in volDir' <=> w \in volDir
       /\ meta'[w] = meta[w] /\ data'[w] = data[w] /\ dataTmp'[w] = dataTmp[w]
  /\ \A d \in Calls \ {c} : vol[d] # v =>
       /\ d \in metaFd' <=> d \in metaFd
       /\ d \in tsDir' <=> d \in tsDir

SameVolume(w) ==
  /\ w \in volDir' <=> w \in volDir
  /\ w \in managed' <=> w \in managed
  /\ meta'[w] = meta[w] /\ data'[w] = data[w] /\ dataTmp'[w] = dataTmp[w]
  /\ mounts'[w] = mounts[w]
  /\ kube'[w] = kube[w] /\ waiting'[w] = waiting[w]

SameCall(d) ==
  /\ pc'[d] = pc[d] /\ vol'[d] = vol[d] /\ rem'[d] = rem[d]
  /\ d \in metaFd' <=> d \in metaFd
  /\ d \in tsDir' <=> d \in tsDir

\* The operations of the storage.
LEMMA FsFrame ==
  ASSUME TypeInv, NEW c \in Calls, NEW v \in Volumes
  PROVE  /\ UNCHANGED fsVars => SameFs(c, v)
         /\ forget(c) => SameFs(c, v)
         /\ ensureVolumeDirectory(v) => SameFs(c, v)
         /\ openMetadata(c, v) => SameFs(c, v)
         /\ \A k : writeMetadata(c, v, k) => SameFs(c, v)
         /\ writeStrayMetadata(v) => SameFs(c, v)
         /\ makeTsDir(c, v) => SameFs(c, v)
         /\ fillTsDir(c, v) => SameFs(c, v)
         /\ linkTmp(c, v) => SameFs(c, v)
         /\ commitFiles(c, v) => SameFs(c, v)
         /\ dropTmp(c, v) => SameFs(c, v)
         /\ \A e : removeEntry(v, e, Others(c, v)) => SameFs(c, v)
         /\ removeVolumeDir(v) => SameFs(c, v)
  <1> USE DEF TypeInv, FsTypeOK, SameFs
  <1>1. UNCHANGED fsVars => SameFs(c, v)
    BY DEF fsVars
  <1>2. forget(c) => SameFs(c, v)
    BY DEF forget
  <1>3. ensureVolumeDirectory(v) => SameFs(c, v)
    BY DEF ensureVolumeDirectory
  <1>4. openMetadata(c, v) => SameFs(c, v)
    BY DEF openMetadata
  <1>5. \A k : writeMetadata(c, v, k) => SameFs(c, v)
    BY DEF writeMetadata
  <1>6. writeStrayMetadata(v) => SameFs(c, v)
    BY DEF writeStrayMetadata
  <1>7. makeTsDir(c, v) => SameFs(c, v)
    BY DEF makeTsDir
  <1>8. fillTsDir(c, v) => SameFs(c, v)
    BY DEF fillTsDir
  <1>9. linkTmp(c, v) => SameFs(c, v)
    BY DEF linkTmp
  <1>10. commitFiles(c, v) => SameFs(c, v)
    BY DEF commitFiles
  <1>11. dropTmp(c, v) => SameFs(c, v)
    BY DEF dropTmp
  <1>12. \A e : removeEntry(v, e, Others(c, v)) => SameFs(c, v)
    BY DEF removeEntry, Others
  <1>13. removeVolumeDir(v) => SameFs(c, v)
    BY DEF removeVolumeDir
  <1> QED BY <1>1, <1>2, <1>3, <1>4, <1>5, <1>6, <1>7, <1>8, <1>9, <1>10, <1>11, <1>12, <1>13

\* A handler that steps either goes on, with the kubelet still waiting, or
\* returns.
Continues(c) ==
  /\ pc[c] # "idle" /\ pc'[c] # "idle"
  /\ \A d \in Calls \ {c} : pc'[d] = pc[d] /\ rem'[d] = rem[d]
  /\ UNCHANGED <<vol, ctx, kube, waiting>>

Answers == {"publishOK", "publishError", "unpublishOK", "unpublishError"}

\* Every step of a handler is one or the other.
LEMMA StepShape ==
  ASSUME TypeInv, NEW c \in Calls, Step(c)
  PROVE  pc[c] # "idle" /\ (Continues(c) \/ \E answer \in Answers : Return(c, answer))
  <1>1. pc[c] # "idle"
    BY DEF Step, validate, registerMetadata, checkReady, manageVolumeImmediate, readMetadata,
           getCertificates, writeCertificates, isMountPoint, mountData, cleanup,
           nodeUnpublishVolume, removeVolume
  <1>2. UNCHANGED kubelet => UNCHANGED <<kube, waiting>>
    BY DEF kubelet
  <1>3. ASSUME NEW label, label # "idle", Goto(c, label), UNCHANGED <<kube, waiting>>
        PROVE  Continues(c)
    BY <1>1, <1>3 DEF Continues, Goto, TypeInv, HandlersOK
  <1>4. Fail(c) => Continues(c)
    BY <1>2, <1>3 DEF Fail
  <1>5. validate(c) => Continues(c)
    BY <1>2, <1>3, <1>4 DEF validate
  <1>6. registerMetadata(c) => Continues(c)
    BY <1>2, <1>3, <1>4 DEF registerMetadata, RegisterMetadata
  <1>7. checkReady(c) \/ manageVolumeImmediate(c) => Continues(c)
    BY <1>2, <1>3 DEF checkReady, manageVolumeImmediate
  <1>8. readMetadata(c) \/ getCertificates(c) => Continues(c)
    BY <1>2, <1>3, <1>4 DEF readMetadata, getCertificates
  <1>9. writeCertificates(c) => Continues(c)
    BY <1>2, <1>3, <1>4 DEF writeCertificates
  <1>10. isMountPoint(c) \/ mountData(c) => Continues(c) \/ Return(c, "publishOK")
    BY <1>2, <1>3, <1>4 DEF isMountPoint, mountData
  <1>11. ASSUME NEW list, NEW entry, NEW done, NEW failed, entry # "idle",
                removeVolume(c, list, entry, done, failed)
         PROVE  Continues(c) \/ \E answer \in {done, failed} : Return(c, answer)
    <2>1. CASE ~ \E answer \in {done, failed} : Return(c, answer)
      <3>1. /\ pc' \in {pc, [pc EXCEPT ![c] = entry]}
            /\ UNCHANGED <<vol, ctx, kubelet>>
            /\ \/ rem' = [rem EXCEPT ![c] = Entries(vol[c])]
               \/ \E e \in rem[c] : rem' = [rem EXCEPT ![c] = @ \ {e}]
        BY <1>11, <2>1 DEF removeVolume
      <3> QED BY <3>1, <1>1, <1>2, <1>11 DEF Continues, TypeInv, HandlersOK
    <2> QED BY <2>1
  <1>12. cleanup(c) => Continues(c) \/ Return(c, "publishError")
    BY <1>2, <1>3, <1>11 DEF cleanup
  <1>13. nodeUnpublishVolume(c) =>
           Continues(c) \/ Return(c, "unpublishOK") \/ Return(c, "unpublishError")
    BY <1>2, <1>3, <1>11 DEF nodeUnpublishVolume, afterIsMountPoint
  <1> QED BY <1>1, <1>5, <1>6, <1>7, <1>8, <1>9, <1>10, <1>12, <1>13 DEF Step, Answers

\* No step of a handler touches another volume or the process.
LEMMA StepFrame ==
  ASSUME TypeInv, NEW c \in Calls, Step(c)
  PROVE  /\ \A w \in Volumes \ {vol[c]} : SameVolume(w)
         /\ \A d \in Calls \ {c} : vol[d] # vol[c] => SameCall(d)
         /\ UNCHANGED process
         /\ budget' = budget \/ Spend("fault")
  <1>1. vol[c] \in Volumes
    BY StepShape, BusyVolume
  <1> DEFINE v == vol[c]
  <1>2. SameFs(c, v)
    <2>1. Fail(c) => SameFs(c, v)
      BY <1>1, FsFrame DEF Fail
    <2>2. validate(c) \/ registerMetadata(c) \/ checkReady(c) \/ manageVolumeImmediate(c)
            \/ readMetadata(c) \/ getCertificates(c) => SameFs(c, v)
      BY <1>1, <2>1, FsFrame DEF validate, registerMetadata, checkReady, manageVolumeImmediate,
                                 readMetadata, getCertificates
    <2>3. writeCertificates(c) \/ isMountPoint(c) \/ mountData(c) => SameFs(c, v)
      BY <1>1, <2>1, FsFrame DEF writeCertificates, isMountPoint, mountData
    <2>4. cleanup(c) \/ nodeUnpublishVolume(c) => SameFs(c, v)
      BY <1>1, FsFrame DEF cleanup, nodeUnpublishVolume, removeVolume
    <2> QED BY <2>2, <2>3, <2>4 DEF Step
  <1>3. managed' \in {managed, managed \cup {v}, managed \ {v}}
    BY DEF Step, validate, registerMetadata, checkReady, manageVolumeImmediate, readMetadata,
           getCertificates, writeCertificates, isMountPoint, mountData, cleanup,
           nodeUnpublishVolume, removeVolume, manageVolumeIfNotManaged, UnmanageVolume, Fail
  <1>4. mounts' = mounts \/ \E m : mounts' = [mounts EXCEPT ![v] = m]
    BY DEF Step, validate, registerMetadata, checkReady, manageVolumeImmediate, readMetadata,
           getCertificates, writeCertificates, isMountPoint, mountData, cleanup, cleanupUnmount,
           nodeUnpublishVolume, removeVolume, StaleMounts, Fail
  <1>5. UNCHANGED process
    BY DEF Step, validate, registerMetadata, checkReady, manageVolumeImmediate, readMetadata,
           getCertificates, writeCertificates, isMountPoint, mountData, cleanup,
           nodeUnpublishVolume, removeVolume, Fail
  <1>6. budget' = budget \/ Spend("fault")
    BY DEF Step, validate, registerMetadata, checkReady, manageVolumeImmediate, readMetadata,
           getCertificates, writeCertificates, isMountPoint, mountData, cleanup,
           nodeUnpublishVolume, removeVolume, Fault
  <1>7. /\ \A w \in Volumes \ {v} : kube'[w] = kube[w] /\ waiting'[w] = waiting[w]
        /\ \A d \in Calls \ {c} : pc'[d] = pc[d] /\ vol'[d] = vol[d] /\ rem'[d] = rem[d]
    BY <1>1, StepShape DEF Continues, Return, TypeInv, HandlersOK, KubeletOK, kubelet
  <1> QED BY <1>1, <1>2, <1>3, <1>4, <1>5, <1>6, <1>7
          DEF SameFs, SameVolume, SameCall, TypeInv, MountsOK

-----------------------------------------------------------------------------
(* The mounts while one call at a time runs on a volume.                     *)

\* No two handlers run on the same volume.
LEMMA OwnVolume ==
  ASSUME TypeInv, OneCall, NEW c \in Calls, NEW d \in Calls, pc[c] # "idle", vol[d] = vol[c]
  PROVE  d = c
  BY BusyVolume DEF OneCall

\* A step of a handler, seen from the kubelet.
LEMMA StepOneCall ==
  ASSUME TypeInv, OneCall, NEW c \in Calls, Step(c)
  PROVE  OneCall'
  <1>1. CASE Continues(c)
    BY <1>1 DEF Continues, OneCall
  <1>2. CASE \E answer \in Answers : Return(c, answer)
    <2>1. vol[c] \in Volumes /\ waiting[vol[c]] = c
      BY StepShape, BusyVolume DEF OneCall
    <2>2. waiting' = [waiting EXCEPT ![vol[c]] = NoCall] /\ vol' = [vol EXCEPT ![c] = NoVolume]
      BY <1>2, <2>1 DEF Return
    <2> QED BY <2>1, <2>2, NodeConstantsOK DEF OneCall, TypeInv, HandlersOK, KubeletOK
  <1> QED BY StepShape, <1>1, <1>2

\* A handler unmounts before it removes, and mounts where nothing is mounted.
LEMMA StepMounts ==
  ASSUME OneAtATime, TypeInv, MountsSound, NEW c \in Calls, Step(c)
  PROVE  /\ mounts'[vol[c]] \in {<< >>, <<"live">>}
         /\ pc'[c] \in MountSteps => mounts'[vol[c]] = << >>
  <1> DEFINE v == vol[c]
  <1>1. /\ v \in Volumes /\ pc \in [Calls -> {"idle"} \cup AllSteps]
        /\ mounts \in [Volumes -> Seq({"live", "stale"})]
    BY StepShape, BusyVolume DEF TypeInv, HandlersOK, MountsOK, AllSteps
  <1>2. /\ mounts[v] \in {<< >>, <<"live">>}
        /\ pc[c] \in MountSteps => mounts[v] = << >>
    BY <1>1 DEF MountsSound
  <1>3. ASSUME NEW label \in AllSteps \ MountSteps, Goto(c, label) PROVE pc'[c] \notin MountSteps
    BY <1>1, <1>3 DEF Goto
  <1>4. ASSUME NEW answer, Return(c, answer) PROVE pc'[c] \notin MountSteps
    BY <1>1, <1>4 DEF Return, MountSteps
  <1>5. Fail(c) => pc'[c] \notin MountSteps /\ mounts' = mounts
    BY <1>1 DEF Fail, Goto, MountSteps
  <1>6. CASE validate(c) \/ registerMetadata(c) \/ checkReady(c) \/ manageVolumeImmediate(c)
               \/ readMetadata(c) \/ getCertificates(c) \/ writeCertificates(c)
    <2>1. Fail(c) \/ \E label \in AllSteps \ MountSteps : Goto(c, label)
      BY <1>6 DEF validate, registerMetadata, RegisterMetadata, checkReady, manageVolumeImmediate,
                  readMetadata, getCertificates, writeCertificates, AllSteps, PublishSteps,
                  CleanupSteps, MountSteps
    <2>2. mounts' = mounts
      BY <1>6, <1>5 DEF validate, registerMetadata, checkReady, manageVolumeImmediate,
                        readMetadata, getCertificates, writeCertificates
    <2> QED BY <2>1, <2>2, <1>2, <1>3, <1>5
  <1>7. CASE isMountPoint(c)
    BY <1>7, <1>2, <1>4, <1>5 DEF isMountPoint, AtMountPoint
  <1>8. CASE mountData(c)
    <2>1. mounts[v] = << >>
      BY <1>8, <1>2 DEF mountData, MountSteps
    <2>2. pc'[c] \notin MountSteps
      BY <1>8, <1>1, <1>4, <1>5 DEF mountData, Goto, MountSteps
    <2>3. mounts' = mounts \/ mounts' = [mounts EXCEPT ![v] = <<"live">> \o @]
      BY <1>8, <1>5 DEF mountData
    <2>4. <<"live">> \o << >> = <<"live">>
      OBVIOUS
    <2> QED BY <1>1, <2>1, <2>2, <2>3, <2>4
  <1>9. Tail(<<"live">>) = << >>
    OBVIOUS
  <1>10. ASSUME NEW list \in MountSteps, NEW entry \in MountSteps, NEW done, NEW failed,
                removeVolume(c, list, entry, done, failed)
         PROVE  mounts'[v] = << >>
    <2>1. mounts[v] = << >>
      BY <1>10, <1>2 DEF removeVolume
    <2>2. [i \in DOMAIN << >> |-> "stale"] = << >>
      OBVIOUS
    <2>3. mounts' = mounts \/ mounts' = [mounts EXCEPT ![v] = [i \in DOMAIN @ |-> "stale"]]
      BY <1>10 DEF removeVolume, StaleMounts
    <2> QED BY <1>1, <2>1, <2>2, <2>3
  <1>11. CASE cleanup(c)
    <2>1. CASE pc[c] = "cUnmanage" /\ Goto(c, "cUnmount") /\ mounts' = mounts
      BY <2>1, <1>1, <1>2 DEF Goto, MountSteps
    <2>2. CASE mounts' = cleanupUnmount(v)
      BY <2>2, <1>1, <1>2, <1>9 DEF cleanupUnmount
    <2>3. CASE removeVolume(c, "cList", "cEntry", "publishError", "publishError")
      BY <2>3, <1>10 DEF MountSteps
    <2> QED BY <1>11, <2>1, <2>2, <2>3 DEF cleanup, Fault, OneAtATime
  <1>12. CASE nodeUnpublishVolume(c)
    <2>1. CASE pc[c] = "uUnmanage" /\ Goto(c, "uIsMnt") /\ mounts' = mounts
      BY <2>1, <1>1, <1>2 DEF Goto, MountSteps
    <2>2. CASE pc[c] = "uIsMnt" /\ Goto(c, afterIsMountPoint(v)) /\ mounts' = mounts
      BY <2>2, <1>1, <1>2 DEF Goto, afterIsMountPoint, AtMountPoint, MountSteps
    <2>3. CASE mounts[v] # << >> /\ mounts' = [mounts EXCEPT ![v] = Tail(@)]
      BY <2>3, <1>1, <1>2, <1>9
    <2>4. CASE Return(c, "unpublishError") /\ mounts' = mounts
      BY <2>4, <1>2, <1>4
    <2>5. CASE removeVolume(c, "uList", "uEntry", "unpublishOK", "unpublishError")
      BY <2>5, <1>10 DEF MountSteps
    <2> QED BY <1>12, <2>1, <2>2, <2>3, <2>4, <2>5 DEF nodeUnpublishVolume
  <1> QED BY <1>6, <1>7, <1>8, <1>11, <1>12 DEF Step

\* Every step keeps the calls apart and the mounts sound.
LEMMA NextSerial ==
  ASSUME OneAtATime, TypeInv, SerialInv, [Next]_vars
  PROVE  SerialInv'
  <1> USE DEF SerialInv
  <1>1. CASE UNCHANGED vars
    BY <1>1 DEF vars, handlers, kubelet, serverVars, OneCall, MountsSound
  <1>2. CASE \E v \in Volumes : Kubelet(v)
    <2> PICK v \in Volumes : Kubelet(v)
      BY <1>2
    <2>1. CASE \E c \in Calls, label \in {"validate", "uUnmanage"},
                     context \in Contexts \cup {NoContext} : Begin(c, v, label, context)
      <3> PICK c \in Calls, label \in {"validate", "uUnmanage"},
                     context \in Contexts \cup {NoContext} : Begin(c, v, label, context)
        BY <2>1
      <3> USE DEF Begin
      <3>1. vol[c] = NoVolume /\ NoVolume \notin Volumes
        BY NodeConstantsOK DEF TypeInv, HasRequest
      <3>2. OneCall'
        BY <3>1, NodeConstantsOK DEF OneCall, TypeInv, HandlersOK, KubeletOK
      <3>3. MountsSound'
        BY DEF MountsSound, MountSteps, TypeInv, HandlersOK
      <3> QED BY <3>2, <3>3
    <2>2. CASE Delete(v)
      BY <2>2 DEF Delete, handlers, OneCall, MountsSound
    <2>3. ~Timeout(v)
      BY DEF Timeout, Spend
    <2> QED BY <2>1, <2>2, <2>3 DEF Kubelet, CallPublish, CallUnpublish
  <1>3. CASE \E c \in Calls : Step(c)
    <2> PICK c \in Calls : Step(c)
      BY <1>3
    <2>1. budget'["timeout"] = 0
      BY StepFrame DEF Spend, TypeInv, ServerTypeOK
    <2>2. OneCall'
      BY StepOneCall
    <2>3. pc[c] # "idle" /\ vol[c] \in Volumes
      BY StepShape, BusyVolume
    <2>4. ASSUME NEW w \in Volumes PROVE mounts'[w] \in {<< >>, <<"live">>}
      BY StepMounts, StepFrame DEF SameVolume, MountsSound
    <2>5. ASSUME NEW d \in Calls, pc'[d] \in MountSteps PROVE mounts'[vol'[d]] = << >>
      <3>1. CASE d = c
        <4>1. vol'[c] = vol[c]
          BY <2>5, <3>1, StepShape DEF Continues, Return, MountSteps, TypeInv, HandlersOK
        <4> QED BY <4>1, <2>5, <3>1, StepMounts
      <3>2. CASE d # c
        <4>1. vol[d] # vol[c]
          BY <3>2, <2>3, OwnVolume
        <4>2. SameCall(d)
          BY <4>1, <3>2, StepFrame
        <4>3. pc[d] # "idle" /\ vol[d] \in Volumes
          BY <4>2, <2>5, BusyVolume DEF SameCall, MountSteps
        <4> QED BY <4>1, <4>2, <4>3, <2>5, StepFrame DEF SameVolume, SameCall, MountsSound
      <3> QED BY <3>1, <3>2
    <2> QED BY <2>1, <2>2, <2>4, <2>5 DEF MountsSound
  <1>4. ASSUME Process \/ Kill \/ Reboot PROVE budget'["timeout"] = 0
    BY <1>4 DEF Process, Boot, Start, newStore, newSource, newManagerOrDie, newGRPCServer, serve,
           Signal, gracefulStop, Stopped, stopped, Kill, Reboot, Fault, Spend, TypeInv, ServerTypeOK
  <1>5. CASE Process /\ UNCHANGED <<handlers, mounts, kubelet>>
    BY <1>4, <1>5 DEF handlers, kubelet, OneCall, MountsSound
  <1>6. CASE (Process \/ Kill \/ Reboot) /\ endHandlers
    <2>1. OneCall'
      BY <1>6, NodeConstantsOK DEF endHandlers, OneCall
    <2>2. mounts' = mounts \/ mounts' = [v \in Volumes |-> << >>] \/ UNCHANGED <<handlers, mounts, kubelet>>
      BY <1>6 DEF Process, Stopped, Kill, Reboot
    <2>3. MountsSound'
      BY <1>6, <2>2 DEF endHandlers, MountsSound, MountSteps
    <2> QED BY <2>1, <2>3, <1>4, <1>6
  <1> QED BY <1>1, <1>2, <1>3, <1>5, <1>6 DEF Next, Process, Stopped, Kill, Reboot

\* The start.
LEMMA InitSerial == OneAtATime /\ Init => SerialInv
  BY NodeConstantsOK DEF OneAtATime, Init, ServerInit, SerialInv, OneCall, MountsSound, MountSteps

(* While the kubelet waits for every answer and unmounts do not fail, a      *)
(* data directory is removed only after it has been unmounted, however often *)
(* the driver is killed in the middle of a call (nodeserver.go:41-51,        *)
(* 140-155).                                                                 *)
THEOREM NeverStale ==
  ASSUME OneAtATime
  PROVE  Spec => []NoStaleMount
  <1>1. Init => TypeInv /\ SerialInv
    BY InitType, InitSerial
  <1>2. TypeInv /\ SerialInv /\ [Next]_vars => TypeInv' /\ SerialInv'
    BY NextType, NextSerial
  <1>3. SerialInv => NoStaleMount
    <2> SUFFICES ASSUME SerialInv, NEW v \in Volumes, NEW i \in DOMAIN mounts[v]
                 PROVE  mounts[v][i] = "live"
      BY DEF NoStaleMount
    <2>1. CASE mounts[v] = << >>
      BY <2>1
    <2>2. CASE mounts[v] = <<"live">>
      BY <2>2
    <2> QED BY <2>1, <2>2 DEF SerialInv, MountsSound
  <1> QED BY <1>1, <1>2, <1>3, PTL DEF Spec

(* Under the same conditions a target path never carries two mounts, so the  *)
(* one unmount of an unpublish or of a cleanup frees it.                     *)
THEOREM NeverStacked ==
  ASSUME OneAtATime
  PROVE  Spec => []NoStackedMounts
  <1>1. Init => TypeInv /\ SerialInv
    BY InitType, InitSerial
  <1>2. TypeInv /\ SerialInv /\ [Next]_vars => TypeInv' /\ SerialInv'
    BY NextType, NextSerial
  <1>3. SerialInv => NoStackedMounts
    <2> SUFFICES ASSUME SerialInv, NEW v \in Volumes PROVE Len(mounts[v]) <= 1
      BY DEF NoStackedMounts
    <2>1. Len(<< >>) <= 1 /\ Len(<<"live">>) <= 1
      OBVIOUS
    <2> QED BY <2>1, Zenon DEF SerialInv, MountsSound
  <1> QED BY <1>1, <1>2, <1>3, PTL DEF Spec

=============================================================================
