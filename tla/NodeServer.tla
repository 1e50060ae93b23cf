----------------------------- MODULE NodeServer -----------------------------
(* pkg/driver/nodeserver.go: NodePublishVolume and NodeUnpublishVolume, run  *)
(* by gRPC as concurrent handlers over the Manager, the Filesystem and the   *)
(* mount table, while the Server starts and stops; with the kubelet that     *)
(* calls them (external), kills of the driver and reboots of the node.       *)
(*                                                                           *)
(* The kubelet makes one call at a time per volume, but it gives up on a     *)
(* slow call and may then make another one while the first is still running. *)
EXTENDS Server

CONSTANTS NoCall,
          InvalidVolumes,   \* volumes whose request the driver refuses
          Deletes,          \* BOOLEAN: pods may be deleted
          KillBusy          \* BOOLEAN: the driver may be killed while handlers run

NoVolume == "none"
NoContext == "none"

ASSUME NodeConstantsOK ==
  /\ IsFiniteSet(Calls) /\ NoCall \notin Calls
  /\ NoVolume \notin Volumes
  /\ InvalidVolumes \subseteq Volumes
  /\ {Deletes, KillBusy} \subseteq BOOLEAN

VARIABLES pc,        \* pc[c]: the next step of handler c
          vol,       \* vol[c]: the volume of its request
          ctx,       \* ctx[c]: the volume context of its request
          rem,       \* rem[c]: entries RemoveAll has listed and not removed
          mounts,    \* mounts[v]: what is mounted on v's target path, top first:
                     \* "live" (the volume's data/) or "stale" (a removed data/)
          target,    \* the volumes whose target path exists
          kube,      \* kube[v]: the kubelet's view of the volume
          waiting    \* waiting[v]: the call the kubelet is waiting for

handlers == <<pc, vol, ctx, rem>>
kubelet == <<kube, waiting, target>>
vars == <<fsVars, managed, serverVars, handlers, mounts, kubelet>>

PublishSteps == {"validate", "regRead", "regDirs", "regOpen", "regWrite", "regStray",
                 "ready", "manage", "readMeta", "fetch", "ensure", "mkTs", "fill",
                 "link", "rename", "isMnt", "mount"}
CleanupSteps == {"cUnmanage", "cUnmount", "cList", "cEntry"}
UnpublishSteps == {"uUnmanage", "uIsMnt", "uUnmount", "uList", "uEntry"}

TypeOK ==
  /\ FsTypeOK
  /\ ManagerTypeOK
  /\ ServerTypeOK
  /\ pc \in [Calls -> {"idle"} \cup PublishSteps \cup CleanupSteps \cup UnpublishSteps]
  /\ vol \in [Calls -> Volumes \cup {NoVolume}]
  /\ ctx \in [Calls -> Contexts \cup {NoContext}]
  /\ rem \in [Calls -> SUBSET {"meta", "data"}]
  /\ mounts \in [Volumes -> Seq({"live", "stale"})]
  /\ target \subseteq Volumes
  /\ kube \in [Volumes -> {"want", "uncertain", "published", "unwant", "gone"}]
  /\ waiting \in [Volumes -> Calls \cup {NoCall}]

Init ==
  /\ FsInit
  /\ ManagerInit
  /\ ServerInit
  /\ pc = [c \in Calls |-> "idle"]
  /\ vol = [c \in Calls |-> NoVolume]
  /\ ctx = [c \in Calls |-> NoContext]
  /\ rem = [c \in Calls |-> {}]
  /\ mounts = [v \in Volumes |-> << >>]
  /\ target = {}
  /\ kube = [v \in Volumes |-> "want"]
  /\ waiting = [v \in Volumes |-> NoCall]

-----------------------------------------------------------------------------
Goto(c, label) ==
  /\ pc' = [pc EXCEPT ![c] = label]
  /\ UNCHANGED <<vol, ctx, rem>>

\* An error return of NodePublishVolume runs the deferred cleanup first.
Fail(c) ==
  /\ Goto(c, "cUnmanage")
  /\ forget(c)
  /\ UNCHANGED <<managed, mounts, kubelet, process>>

Others(c, v) == {d \in Calls \ {c} : vol[d] = v}

\* The answer reaches the kubelet if it is still waiting for it.  A published
\* volume whose re-publish fails is left in doubt; a failed publish is final.
\* After a successful unpublish the kubelet removes the target path, unless
\* something is still mounted on it.
answered(state, answer) ==
  CASE answer = "publishOK" -> "published"
    [] answer = "publishError" -> IF state = "published" THEN "uncertain" ELSE "want"
    [] answer = "unpublishOK" -> "gone"
    [] answer = "unpublishError" -> state

Return(c, answer) ==
  LET v == vol[c] IN
  /\ pc' = [pc EXCEPT ![c] = "idle"]
  /\ vol' = [vol EXCEPT ![c] = NoVolume]
  /\ ctx' = [ctx EXCEPT ![c] = NoContext]
  /\ rem' = [rem EXCEPT ![c] = {}]
  /\ IF waiting[v] = c
     THEN /\ waiting' = [waiting EXCEPT ![v] = NoCall]
          /\ kube' = [kube EXCEPT ![v] = answered(@, answer)]
          /\ target' = IF answer = "unpublishOK" /\ mounts[v] = << >>
                       THEN target \ {v} ELSE target
     ELSE UNCHANGED kubelet

-----------------------------------------------------------------------------
(* The kubelet.                                                              *)

Begin(c, v, label, context) ==
  /\ Up
  /\ waiting[v] = NoCall
  /\ pc[c] = "idle"
  /\ pc' = [pc EXCEPT ![c] = label]
  /\ vol' = [vol EXCEPT ![c] = v]
  /\ ctx' = [ctx EXCEPT ![c] = context]
  /\ waiting' = [waiting EXCEPT ![v] = c]
  /\ UNCHANGED <<fsVars, managed, rem, mounts, kube, target, process, budget>>

\* Publish, publish again after a timeout, or re-publish a published volume.
CallPublish(v) ==
  /\ kube[v] \in {"want", "uncertain", "published"}
  /\ \E c \in Calls, context \in Contexts : Begin(c, v, "validate", context)

CallUnpublish(v) ==
  /\ kube[v] = "unwant"
  /\ \E c \in Calls : Begin(c, v, "uUnmanage", NoContext)

\* The pod goes away.  A volume whose publish has definitely failed is not
\* unpublished.
Delete(v) ==
  /\ Deletes
  /\ waiting[v] = NoCall
  /\ kube[v] \in {"want", "uncertain", "published"}
  /\ kube' = [kube EXCEPT ![v] = IF @ = "want" THEN "gone" ELSE "unwant"]
  /\ UNCHANGED <<fsVars, managed, handlers, mounts, waiting, target, process, budget>>

Timeout(v) ==
  /\ waiting[v] # NoCall
  /\ Spend("timeout")
  /\ waiting' = [waiting EXCEPT ![v] = NoCall]
  /\ kube' = [kube EXCEPT ![v] = IF @ = "unwant" THEN @ ELSE "uncertain"]
  /\ UNCHANGED <<fsVars, managed, handlers, mounts, target, process>>

-----------------------------------------------------------------------------
(* NodePublishVolume.                                                        *)

validate(c) ==
  /\ pc[c] = "validate"
  /\ \/ /\ vol[c] \in InvalidVolumes
        /\ Fail(c)
     \/ /\ vol[c] \notin InvalidVolumes
        /\ Goto(c, "regRead")
        /\ UNCHANGED <<fsVars, managed, mounts, kubelet, process>>
  /\ UNCHANGED budget

registerMetadata(c) ==
  LET v == vol[c] IN
  \/ /\ pc[c] = "regRead"
     /\ Goto(c, CASE RegisterMetadata(v, ctx[c]) = "registered" -> "ready"
                  [] RegisterMetadata(v, ctx[c]) = "stray"      -> "regStray"
                  [] RegisterMetadata(v, ctx[c]) = "write"      -> "regDirs")
     /\ UNCHANGED <<fsVars, managed, mounts, kubelet, process, budget>>
  \/ /\ pc[c] = "regDirs"
     /\ ensureVolumeDirectory(v)
     /\ Goto(c, "regOpen")
     /\ UNCHANGED <<managed, mounts, kubelet, process, budget>>
  \/ /\ pc[c] = "regOpen"
     /\ openMetadata(c, v)
     /\ Goto(c, "regWrite")
     /\ UNCHANGED <<managed, mounts, kubelet, process, budget>>
  \/ /\ pc[c] = "regOpen"
     /\ v \notin volDir
     /\ Fail(c)
     /\ UNCHANGED budget
  \/ /\ pc[c] = "regWrite"
     /\ writeMetadata(c, v, ctx[c])
     /\ Goto(c, "ready")
     /\ UNCHANGED <<managed, mounts, kubelet, process, budget>>
  \/ /\ pc[c] = "regStray"
     /\ writeStrayMetadata(v)
     /\ Goto(c, "ready")
     /\ UNCHANGED <<managed, mounts, kubelet, process, budget>>
  \/ /\ pc[c] \in {"regDirs", "regOpen", "regWrite", "regStray"}
     /\ Fault("register")
     /\ Fail(c)

checkReady(c) ==
  /\ pc[c] = "ready"
  /\ Goto(c, IF IsVolumeReady(vol[c]) THEN "isMnt" ELSE "manage")
  /\ UNCHANGED <<fsVars, managed, mounts, kubelet, process, budget>>

\* ManageVolumeImmediate: only the caller that finds the volume unmanaged goes
\* on to fetch and write; the other one returns at once, without an error.
manageVolumeImmediate(c) ==
  /\ pc[c] = "manage"
  /\ Goto(c, IF NotManaged(vol[c]) THEN "readMeta" ELSE "isMnt")
  /\ manageVolumeIfNotManaged(vol[c])
  /\ UNCHANGED <<fsVars, mounts, kubelet, process, budget>>

readMetadata(c) ==
  /\ pc[c] = "readMeta"
  /\ \/ /\ Readable(vol[c])
        /\ Goto(c, "fetch")
        /\ UNCHANGED <<fsVars, managed, mounts, kubelet, process>>
     \/ ~Readable(vol[c]) /\ Fail(c)
  /\ UNCHANGED budget

getCertificates(c) ==
  /\ pc[c] = "fetch"
  /\ \/ /\ Goto(c, "ensure")
        /\ UNCHANGED <<fsVars, managed, mounts, kubelet, process, budget>>
     \/ Fault("fetch") /\ Fail(c)

\* WriteFiles, with the steps of AtomicWriter.Write others can come in between.
writeCertificates(c) ==
  LET v == vol[c] IN
  \/ /\ \/ pc[c] = "ensure" /\ ensureVolumeDirectory(v) /\ Goto(c, "mkTs")
        \/ pc[c] = "mkTs" /\ makeTsDir(c, v) /\ Goto(c, "fill")
        \/ pc[c] = "fill" /\ fillTsDir(c, v) /\ Goto(c, "link")
        \/ pc[c] = "link" /\ CanLinkTmp(v) /\ linkTmp(c, v) /\ Goto(c, "rename")
        \/ pc[c] = "rename" /\ commitFiles(c, v) /\ Goto(c, "isMnt")
     /\ UNCHANGED <<managed, mounts, kubelet, process, budget>>
  \/ /\ \/ pc[c] = "mkTs" /\ data[v] = "absent"
        \/ pc[c] = "link" /\ ~CanLinkTmp(v)
     /\ Fail(c)
     /\ UNCHANGED budget
  \/ /\ pc[c] \in {"ensure", "mkTs", "fill", "link"}
     /\ Fault("write")
     /\ Fail(c)
  \/ /\ pc[c] = "rename"
     /\ Fault("write") \/ (dataTmp[v] = NoLink /\ UNCHANGED budget)
     /\ dropTmp(c, v)
     /\ Goto(c, "cUnmanage")
     /\ UNCHANGED <<managed, mounts, kubelet, process>>
  \/ /\ pc[c] = "rename"             \* what comes after the rename fails
     /\ Fault("write")
     /\ commitFiles(c, v)
     /\ Goto(c, "cUnmanage")
     /\ UNCHANGED <<managed, mounts, kubelet, process>>

\* Mutant: never.
AtMountPoint_Never(v) == FALSE

AtMountPoint(v) == mounts[v] # << >>

\* Mutant: a missing target path is an error.
isMountPoint_NoMkdir(c) ==
  LET v == vol[c] IN
  /\ pc[c] = "isMnt"
  /\ \/ /\ mounts[v] # << >>
        /\ Return(c, "publishOK")
        /\ UNCHANGED <<fsVars, managed, mounts, process, budget>>
     \/ /\ mounts[v] = << >> /\ v \in target
        /\ Goto(c, "mount")
        /\ UNCHANGED <<fsVars, managed, mounts, kubelet, process, budget>>
     \/ /\ v \notin target
        /\ Fail(c)
        /\ UNCHANGED budget

isMountPoint(c) ==
  LET v == vol[c] IN
  /\ pc[c] = "isMnt"
  /\ \/ /\ ~AtMountPoint(v)
        /\ target' = target \cup {v}
        /\ Goto(c, "mount")
        /\ UNCHANGED <<fsVars, managed, mounts, kube, waiting, process, budget>>
     \/ /\ AtMountPoint(v)              \* already mounted: success
        /\ Return(c, "publishOK")
        /\ UNCHANGED <<fsVars, managed, mounts, process, budget>>
     \/ Fault("mountpoint") /\ Fail(c)

mountData(c) ==
  LET v == vol[c] IN
  /\ pc[c] = "mount"
  /\ \/ /\ data[v] # "absent"
        /\ mounts' = [mounts EXCEPT ![v] = <<"live">> \o @]
        /\ Return(c, "publishOK")
        /\ UNCHANGED <<fsVars, managed, process, budget>>
     \/ /\ data[v] = "absent"
        /\ Fail(c)
        /\ UNCHANGED budget
     \/ Fault("mount") /\ Fail(c)
     \/ /\ Fault("mount")               \* the bind succeeds, the "ro" remount fails
        /\ data[v] # "absent"
        /\ mounts' = [mounts EXCEPT ![v] = <<"live">> \o @]
        /\ Goto(c, "cUnmanage")
        /\ UNCHANGED <<fsVars, managed, kubelet, process>>

-----------------------------------------------------------------------------
(* RemoveVolume: os.RemoveAll, in steps; done and failed are what follows.   *)

StaleMounts(v) == [mounts EXCEPT ![v] = [i \in DOMAIN @ |-> "stale"]]

removeVolume(c, list, entry, done, failed) ==
  LET v == vol[c] IN
  \/ /\ pc[c] = list
     /\ v \in volDir
     /\ pc' = [pc EXCEPT ![c] = entry]
     /\ rem' = [rem EXCEPT ![c] = Entries(v)]
     /\ UNCHANGED <<fsVars, managed, vol, ctx, mounts, kubelet, process, budget>>
  \/ /\ pc[c] = list
     /\ v \notin volDir
     /\ Return(c, done)
     /\ UNCHANGED <<fsVars, managed, mounts, process, budget>>
  \/ /\ pc[c] = entry
     /\ \E e \in rem[c] :
          /\ removeEntry(v, e, Others(c, v))
          /\ rem' = [rem EXCEPT ![c] = @ \ {e}]
          /\ mounts' = IF e = "data" THEN StaleMounts(v) ELSE mounts
     /\ UNCHANGED <<managed, pc, vol, ctx, kubelet, process, budget>>
  \/ /\ pc[c] = entry
     /\ rem[c] = {}
     /\ IF Entries(v) = {}
        THEN removeVolumeDir(v) /\ Return(c, done)
        ELSE UNCHANGED fsVars /\ Return(c, failed)       \* ENOTEMPTY
     /\ UNCHANGED <<managed, mounts, process, budget>>
  \/ /\ pc[c] \in {list, entry}
     /\ Fault("remove")
     /\ Return(c, failed)
     /\ UNCHANGED <<fsVars, managed, mounts, process>>

\* Mutant: the cleanup does not unmount.
cleanupUnmount_Skip(v) == mounts

cleanupUnmount(v) == [mounts EXCEPT ![v] = IF @ = << >> THEN @ ELSE Tail(@)]

\* The deferred cleanup of a failed publish; its errors are ignored.
cleanup(c) ==
  \/ /\ pc[c] = "cUnmanage"
     /\ UnmanageVolume(vol[c])
     /\ Goto(c, "cUnmount")
     /\ UNCHANGED <<fsVars, mounts, kubelet, process, budget>>
  \/ /\ pc[c] = "cUnmount"
     /\ mounts' = cleanupUnmount(vol[c])
     /\ Goto(c, "cList")
     /\ UNCHANGED <<fsVars, managed, kubelet, process, budget>>
  \/ /\ pc[c] = "cUnmount"
     /\ Fault("unmount")
     /\ Goto(c, "cList")
     /\ UNCHANGED <<fsVars, managed, mounts, kubelet, process>>
  \/ removeVolume(c, "cList", "cEntry", "publishError", "publishError")

-----------------------------------------------------------------------------
\* Mutant: unmounts without looking.
afterIsMountPoint_Blind(v) == "uUnmount"

afterIsMountPoint(v) == IF AtMountPoint(v) THEN "uUnmount" ELSE "uList"

(* NodeUnpublishVolume.                                                      *)
nodeUnpublishVolume(c) ==
  LET v == vol[c] IN
  \/ /\ pc[c] = "uUnmanage"
     /\ UnmanageVolume(v)
     /\ Goto(c, "uIsMnt")
     /\ UNCHANGED <<fsVars, mounts, kubelet, process, budget>>
  \/ /\ pc[c] = "uIsMnt"
     /\ v \in target
     /\ Goto(c, afterIsMountPoint(v))
     /\ UNCHANGED <<fsVars, managed, mounts, kubelet, process, budget>>
  \/ /\ pc[c] = "uIsMnt"
     /\ v \notin target                     \* any error, ENOENT too
     /\ Return(c, "unpublishError")
     /\ UNCHANGED <<fsVars, managed, mounts, process, budget>>
  \/ /\ pc[c] = "uUnmount"
     /\ mounts[v] # << >>
     /\ mounts' = [mounts EXCEPT ![v] = Tail(@)]
     /\ Goto(c, "uList")
     /\ UNCHANGED <<fsVars, managed, kubelet, process, budget>>
  \/ /\ pc[c] = "uUnmount"
     /\ mounts[v] = << >>                   \* someone else has unmounted it
     /\ Return(c, "unpublishError")
     /\ UNCHANGED <<fsVars, managed, mounts, process, budget>>
  \/ /\ \/ pc[c] = "uIsMnt" /\ Fault("mountpoint")
        \/ pc[c] = "uUnmount" /\ Fault("unmount")
     /\ Return(c, "unpublishError")
     /\ UNCHANGED <<fsVars, managed, mounts, process>>
  \/ removeVolume(c, "uList", "uEntry", "unpublishOK", "unpublishError")

Step(c) ==
  \/ validate(c)
  \/ registerMetadata(c)
  \/ checkReady(c)
  \/ manageVolumeImmediate(c)
  \/ readMetadata(c)
  \/ getCertificates(c)
  \/ writeCertificates(c)
  \/ isMountPoint(c)
  \/ mountData(c)
  \/ cleanup(c)
  \/ nodeUnpublishVolume(c)

-----------------------------------------------------------------------------
(* The process comes and goes.                                               *)

Quiet == \A c \in Calls : pc[c] = "idle"

\* The handlers end with the process, and the kubelet's calls without an answer.
endHandlers ==
  /\ pc' = [c \in Calls |-> "idle"]
  /\ vol' = [c \in Calls |-> NoVolume]
  /\ ctx' = [c \in Calls |-> NoContext]
  /\ rem' = [c \in Calls |-> {}]
  /\ waiting' = [v \in Volumes |-> NoCall]
  /\ UNCHANGED target

unanswered == [v \in Volumes |-> IF waiting[v] = NoCall \/ kube[v] = "unwant"
                                 THEN kube[v] ELSE "uncertain"]

\* Killed, or sent a second signal.
Kill ==
  /\ proc # "down"
  /\ KillBusy \/ Quiet
  /\ Spend("crash") \/ (signal /\ Spend("signal"))
  /\ exit(Abandoned)
  /\ closeFiles
  /\ endHandlers
  /\ kube' = unanswered
  /\ UNCHANGED mounts

\* The mount table and the tmpfs do not survive; the pods are set up again.
Reboot ==
  /\ Spend("crash")
  /\ proc' = "down"
  /\ signal' = FALSE
  /\ socket' = Abandoned
  /\ managed' = {}
  /\ tmpfs' = FALSE
  /\ mountTmpfs
  /\ endHandlers
  /\ mounts' = [v \in Volumes |-> << >>]
  /\ kube' = [v \in Volumes |-> IF kube[v] = "published" THEN "uncertain" ELSE kube[v]]

Stopped ==
  /\ stopped(~Quiet)
  /\ closeFiles
  /\ endHandlers
  /\ kube' = unanswered
  /\ UNCHANGED mounts

Process ==
  \/ (Boot \/ Signal \/ gracefulStop) /\ UNCHANGED <<handlers, mounts, kubelet>>
  \/ Stopped

Kubelet(v) == CallPublish(v) \/ CallUnpublish(v) \/ Delete(v) \/ Timeout(v)

Next ==
  \/ \E v \in Volumes : Kubelet(v)
  \/ \E c \in Calls : Step(c)
  \/ Process
  \/ Kill
  \/ Reboot

Spec == Init /\ [][Next]_vars

\* A handler that can go on does, and so do start-up and the goroutine that
\* stops the server; the kubelet keeps trying to reach the state it wants; the
\* driver is restarted when it exits.  Signals, kills and faults are not fair.
Fairness ==
  /\ \A c \in Calls : WF_vars(Step(c))
  /\ \A v \in Volumes : WF_vars(CallPublish(v)) /\ WF_vars(CallUnpublish(v))
  /\ WF_vars(Boot /\ UNCHANGED <<handlers, mounts, kubelet>>)
  /\ WF_vars(gracefulStop /\ UNCHANGED <<handlers, mounts, kubelet>>)
  /\ WF_vars(Stopped)

FairSpec == Spec /\ Fairness

-----------------------------------------------------------------------------
QuietOn(v) == \A c \in Calls : vol[c] # v

Published(v) == kube[v] = "published" /\ QuietOn(v)

(* nodeserver.go:39: "clean up after ourselves if provisioning fails."  A    *)
(* call that fails undoes its own work and not that of the call after it: a  *)
(* volume the kubelet believes published, with no call running on it, shows  *)
(* the pod the certificates.                                                 *)
PublishedServed ==
  \A v \in Volumes :
    Published(v) => mounts[v] # << >> /\ Head(mounts[v]) = "live" /\ HasCerts(v)

(* More than that when calls do not overlap, also after the driver has been  *)
(* stopped, killed while idle and started again: its data directory is the   *)
(* one thing mounted, and the manager of a running driver knows the volume.  *)
PublishedSound ==
  \A v \in Volumes :
    Published(v) => /\ mounts[v] = <<"live">>
                    /\ data[v] = "certs"
                    /\ Managing => IsVolumeReady(v)

(* nodeserver.go:39-41: a publish that fails cleans up after itself, because *)
(* unpublish may never be called.  So a volume that is gone leaves nothing:  *)
(* no directory, no mount, no entry in the manager.                          *)
NoResidue ==
  \A v \in Volumes :
    (kube[v] = "gone" /\ QuietOn(v)) =>
      v \notin volDir /\ mounts[v] = << >> /\ v \notin managed

(* Between calls the tmpfs is always in a state NewManager accepts.          *)
QuietRestartable == Quiet => Restartable

(* Between calls the manager manages the volumes that are on disk, all but   *)
(* those whose unpublish has to be repeated; a restarted driver too.         *)
ManagedOnDisk ==
  (Managing /\ Quiet) => /\ managed \subseteq volDir
                         /\ \A v \in volDir \ managed : kube[v] = "unwant"

(* A volume's data directory is removed only after it has been unmounted:    *)
(* no pod is left looking at a deleted directory.                            *)
NoStaleMount == \A v \in Volumes : \A i \in DOMAIN mounts[v] : mounts[v][i] = "live"

(* A target path carries at most one mount, so one unmount frees it.         *)
NoStackedMounts == \A v \in Volumes : Len(mounts[v]) <= 1

(* However calls overlap, the mounts on a target path are never more than    *)
(* the handlers that run at once.                                            *)
MountsBounded == \A v \in Volumes : Len(mounts[v]) <= Cardinality(Calls)

(* manager.go:173: "Callers can use `IsVolumeReady` to determine if a CA     *)
(* certificates have been successfully retrieved or not."                    *)
ReadyMeansCerts ==
  (Managing /\ Quiet) => \A v \in Volumes : IsVolumeReady(v) => data[v] = "certs"

(* A volume the kubelet wants is eventually published, or its pod deleted.   *)
Served ==
  \A v \in Volumes \ InvalidVolumes :
    kube[v] \in {"want", "uncertain"} ~> kube[v] \in {"published", "unwant", "gone"}

(* The same of a driver that stays up in the end, whatever kills have left   *)
(* on the tmpfs before: not even a ..data_tmp, which makes every later Write *)
(* to its directory fail, keeps a volume from being published.               *)
ServedWhileUp == <>[]Up => Served

(* A volume that must go eventually goes.                                    *)
Unpublished == \A v \in Volumes : kube[v] = "unwant" ~> kube[v] = "gone"

(* manager.go:36-37: NewManager "will enumerate all volumes already          *)
(* persisted in the metadata store and resume managing them".  So a driver   *)
(* that is not serving, be it stopped, killed or starting, serves again.     *)
DriverRecovers == ~Up ~> Up

(* A signal, at whatever moment of start-up or service it comes, ends the    *)
(* process: the running handlers finish, and no new one keeps it alive.      *)
StopEnds == signal ~> proc = "down"

-----------------------------------------------------------------------------
(* While one call at a time runs on a volume, the node server implements     *)
(* VolumeContract: what the pod sees of each volume and what the kubelet has *)
(* been told of it, with the storage, the manager, the mounts and the        *)
(* process left out.                                                         *)
shownOn(v) ==
  IF mounts[v] = << >> THEN "nothing"
  ELSE IF Head(mounts[v]) = "live" /\ HasCerts(v) THEN "certs" ELSE "broken"

phaseOn(v) ==
  IF QuietOn(v) THEN "none"
  ELSE LET step == pc[CHOOSE c \in Calls : vol[c] = v] IN
       IF step \in PublishSteps THEN "publish"
       ELSE IF step \in CleanupSteps THEN "undo" ELSE "unpublish"

beliefOf(state) ==
  CASE state \in {"want", "uncertain"} -> "unknown"
    [] state = "published" -> "served"
    [] state = "unwant" -> "leaving"
    [] state = "gone" -> "gone"

Contract == INSTANCE VolumeContract WITH
  shown  <- [v \in Volumes |-> shownOn(v)],
  phase  <- [v \in Volumes |-> phaseOn(v)],
  belief <- [v \in Volumes |-> beliefOf(kube[v])]

ImplementsContract == Contract!Spec
=============================================================================
