----------------------------- MODULE Provision ------------------------------
(* The way of the certificates from the source to the volume, inside one     *)
(* ManageVolumeImmediate: GetFiles (Source), then Filesystem.WriteFiles with *)
(* its fsGroup, AtomicWriter.Write and the dirFuncs.  NodeServer has this as *)
(* two steps, "fetch" and "write"; AtomicWriter has the links and the commit *)
(* in full; here the data is followed.  Every publish fills a new volume.    *)
EXTENDS Source, VolumeFiles

CONSTANTS Attributes,      \* fsGroup attributes: integers, NoAttr, BadAttr
          Faults           \* the operations that may fail

ASSUME ProvisionConstantsOK ==
  /\ NoAttr \in Attributes /\ Attributes \ {NoAttr, BadAttr} \subseteq Int
  /\ Nil # Invalid
  /\ GidWidth \in Nat \ {0}
  /\ KeyDefined \in BOOLEAN
  /\ Faults \subseteq {"fetch", "read", "write"}

VARIABLES pc,         \* the next step
          attr,       \* the fsGroup attribute of the volume
          payload,    \* the files with clean names
          dir,        \* the new timestamped directory
          todo,       \* files CreateCABundle has not copied yet, later to chown
          live,       \* what the volume shows
          owned,      \* what belongs to the group: DataDir and clean names
          outcome     \* of the last publish

provisionVars == <<attr, payload, dir, todo, live, owned, outcome>>
vars == <<sourceVars, pc, provisionVars>>

DataDir == << >>
FetchSteps == {"get", "open", "next"}

Goto(label) == pc' = label
Fault(f) == f \in Faults

Finish(result) ==
  /\ Goto("idle")
  /\ outcome' = result
  /\ UNCHANGED <<attr, payload, dir, todo, live, owned>>

Fails == Finish("error") /\ UNCHANGED sourceVars

Init ==
  /\ SourceInit
  /\ pc = "start"
  /\ attr = NoAttr
  /\ payload = NoFiles
  /\ dir = NoFiles
  /\ todo = {}
  /\ live = NoFiles
  /\ owned = {}
  /\ outcome = "none"

-----------------------------------------------------------------------------
start ==
  /\ pc = "start"
  /\ Goto(IF New THEN "idle" ELSE "exited")
  /\ UNCHANGED <<sourceVars, provisionVars>>

Publish ==
  /\ pc = "idle"
  /\ Goto("get")
  /\ attr' \in Attributes
  /\ payload' = NoFiles
  /\ dir' = NoFiles
  /\ todo' = {}
  /\ live' = NoFiles
  /\ owned' = {}
  /\ outcome' = "none"
  /\ beginFetch

Change == Update(pc \in FetchSteps) /\ UNCHANGED <<pc, provisionVars>>

GetFiles ==
  \/ pc = "get" /\ getObject /\ Goto("group") /\ UNCHANGED provisionVars
  \/ pc = "get" /\ pull /\ Goto("open") /\ UNCHANGED provisionVars
  \/ /\ pc = "get"
     /\ Fault("fetch") \/ (object = NoObject /\ config.getter # "test")
     /\ Fails
  \/ pc = "open" /\ openTarball /\ Goto("next") /\ UNCHANGED provisionVars
  \/ /\ pc = "open"
     /\ ~(HasTarball(artifact) /\ Opens(Head(Tarballs(artifact))))
     /\ Fails
  \/ pc = "next" /\ nextEntry /\ UNCHANGED <<pc, provisionVars>>
  \/ pc = "next" /\ entries # << >> /\ Head(entries).kind = "damaged" /\ Fails
  \/ pc = "next" /\ entries = << >> /\ Goto("group") /\ UNCHANGED <<sourceVars, provisionVars>>

-----------------------------------------------------------------------------
(* Filesystem.WriteFiles.                                                    *)

\* chown(2) takes the largest gid, which is (gid_t)-1, for "leave it".
chown(x) ==
  owned' = IF fsGroupForMetadata(attr) = MaxGid THEN owned ELSE owned \cup {x}

chownDataDir ==
  /\ pc = "group"
  /\ \/ /\ fsGroupForMetadata(attr) = Invalid \/ Fault("write")
        /\ Fails
     \/ /\ fsGroupForMetadata(attr) = Nil
        /\ Goto("write")
        /\ UNCHANGED <<sourceVars, provisionVars>>
     \/ /\ fsGroupForMetadata(attr) \notin {Nil, Invalid}
        /\ chown(DataDir)
        /\ Goto("write")
        /\ UNCHANGED <<sourceVars, attr, payload, dir, todo, live, outcome>>

writePayload ==
  /\ pc = "write"
  /\ \/ /\ \A p \in DOMAIN files : validatePath(p)
        /\ payload' \in CleanPayloads(files)
        /\ ~Clashes(payload')
        /\ dir' = payload'
        /\ Goto("bundle")
        /\ UNCHANGED <<sourceVars, attr, todo, live, owned, outcome>>
     \/ /\ \/ \E p \in DOMAIN files : ~validatePath(p)
           \/ \E t \in CleanPayloads(files) : Clashes(t)
           \/ Fault("write")
        /\ Fails

\* CreateCABundle, one file at a time.  A directory of the bundle's name makes
\* os.Create fail.  A file that cannot be opened or copied is not noticed: the
\* condition after it looks at another error.
createBundle ==
  \/ /\ pc = "bundle"
     /\ ~BundleBlocked(dir)
     /\ dir' = Merge(dir, [p \in {<<Bundle>>} |-> {}])
     /\ todo' = TopLevel(dir) \ {<<Bundle>>}
     /\ Goto("copy")
     /\ UNCHANGED <<sourceVars, attr, payload, live, owned, outcome>>
  \/ /\ pc = "bundle"
     /\ Fault("write") \/ BundleBlocked(dir)
     /\ Fails
  \/ /\ pc = "copy"
     /\ \E p \in todo, copied \in SUBSET (Certs \cup {Separator}) :
          /\ IF Fault("read") THEN copied \subseteq dir[p] ELSE copied = dir[p]
          /\ dir' = [dir EXCEPT ![<<Bundle>>] = @ \cup copied \cup {Separator}]
          /\ todo' = todo \ {p}
     /\ UNCHANGED <<sourceVars, pc, attr, payload, live, owned, outcome>>

rehash ==
  /\ pc = "copy"
  /\ todo = {}
  /\ \/ /\ dir' = Merge(dir, OpenSSLRehash(dir))
        /\ Goto("commit")
        /\ UNCHANGED <<sourceVars, attr, payload, todo, live, owned, outcome>>
     \/ Fault("write") /\ Fails

\* The links and the rename of AtomicWriter.Write.
commit ==
  /\ pc = "commit"
  /\ \/ /\ ~TmpTaken(payload)
        /\ live' = dir
        /\ todo' = IF fsGroupForMetadata(attr) = Nil THEN {} ELSE DOMAIN payload
        /\ Goto("chown")
        /\ UNCHANGED <<sourceVars, attr, payload, dir, owned, outcome>>
     \/ (TmpTaken(payload) \/ Fault("write")) /\ Fails

\* Mutant: the loop ends after the first file.
chownFiles_First ==
  \/ /\ pc = "chown"
     /\ \E p \in todo : chown(p) /\ todo' = {}
     /\ UNCHANGED <<sourceVars, pc, attr, payload, dir, live, outcome>>
  \/ pc = "chown" /\ todo = {} /\ Finish("ok") /\ UNCHANGED sourceVars

\* The files of the source; the bundle and the links keep their group.
chownFiles ==
  \/ /\ pc = "chown"
     /\ \E p \in todo : chown(p) /\ todo' = todo \ {p}
     /\ UNCHANGED <<sourceVars, pc, attr, payload, dir, live, outcome>>
  \/ pc = "chown" /\ todo # {} /\ Fault("write") /\ Fails
  \/ pc = "chown" /\ todo = {} /\ Finish("ok") /\ UNCHANGED sourceVars

Next ==
  \/ start
  \/ Publish
  \/ Change
  \/ GetFiles
  \/ chownDataDir
  \/ writePayload
  \/ createBundle
  \/ rehash
  \/ commit
  \/ chownFiles

Spec == Init /\ [][Next]_vars

-----------------------------------------------------------------------------
TypeOK ==
  /\ pc \in {"start", "exited", "idle", "group", "write", "bundle", "copy", "commit",
             "chown"} \cup FetchSteps
  /\ config \in Configs
  /\ object \in Objects[config.getter]
  /\ seen \subseteq Objects[config.getter]
  /\ artifact \in Objects[config.getter] \cup {NoObject}
  /\ \A t \in {files, payload, dir, live} : IsFileTree(t)
  /\ DOMAIN payload \subseteq {Clean(p) : p \in DOMAIN files}
  /\ attr \in Attributes
  /\ todo \subseteq DOMAIN dir
  /\ owned \subseteq {DataDir} \cup DOMAIN payload
  /\ outcome \in {"none", "ok", "error"}

(* A volume that was filled shows one version of the source, one there was   *)
(* while it was fetched, whole and rendered by the dirFuncs, whatever others *)
(* do to the source meanwhile.                                               *)
VolumeOfOneVersion ==
  outcome = "ok" =>
    \E o \in seen : /\ Whole(o)
                    /\ \E t \in CleanPayloads(Contents(o)) :
                         live = Merge(t, DirFuncsForVolume(t))

(* filesystem.go:226, 252, 338: the group a volume asks for is a gid there   *)
(* is, and the data directory and the files just written belong to it; except*)
(* for the one gid that chown cannot set.                                    *)
OwnedByGroup ==
  outcome = "ok" =>
    /\ (FixedFSGroup = Nil /\ KeyDefined /\ attr # NoAttr) => attr \in 1..MaxGid
    /\ fsGroupForMetadata(attr) \notin {Nil, MaxGid}
         => {DataDir} \cup DOMAIN payload \subseteq owned

(* build_bundle.go:44, 50: "failed to read %q", "failed to copy %q into      *)
(* certificate bundle".  A file that cannot be copied is an error, so a      *)
(* volume that was filled has every certificate in its bundle.               *)
BundleComplete ==
  outcome = "ok" =>
    \A p \in TopLevel(payload) \ {<<Bundle>>} : payload[p] \subseteq live[<<Bundle>>]

(* README.md:46-52: "Every key in the configmap (from both `.data` and       *)
(* `.binaryData`) will be written to the CSI volume as an individual file."  *)
EveryKeyWritten ==
  (outcome = "ok" /\ config.getter \in {"configmap", "secret"})
    => \A p \in DOMAIN files : live[p] = files[p]
=============================================================================
