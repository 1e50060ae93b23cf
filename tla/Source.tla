------------------------------- MODULE Source -------------------------------
(* pkg/source and pkg/registry: where the certificates come from.  The       *)
(* --trusted-certs-source flag names a getter and its configuration; GetFiles*)
(* reads a config map, a secret or an OCI artifact, which others may change  *)
(* at any moment (external).  A file name is the sequence of its elements;   *)
(* names in a tarball may have "." among them.  Provision puts the steps of  *)
(* GetFiles in order.                                                        *)
EXTENDS LinuxTLS, FiniteSets

CONSTANTS Configs,      \* flags: records with the getter and, for a config map
                        \* or a secret, the number of parts between slashes,
                        \* for an artifact whether its reference parses
          Objects,      \* Objects[g]: the versions of what getter g may find
          NoObject,     \* it does not exist
          MaxVersions,  \* bound: versions there are during one fetch
          TestFiles     \* the fixed answer of the test source

VARIABLES config,       \* the flag
          object,       \* the object in the cluster or the registry, now
          seen,         \* history: the versions there were during this fetch
          artifact,     \* the artifact Pull has copied into its memory store
          entries,      \* the entries of the tarball still to be read
          files         \* the files GetFiles has collected

sourceVars == <<config, object, seen, artifact, entries, files>>

getters == {"test", "configmap", "secret", "oci"}

LayerTypes == {"tar", "tar+gzip"}

NoFiles == [p \in {} |-> {}]

SourceInit ==
  /\ config \in Configs
  /\ object \in Objects[config.getter]
  /\ seen = {}
  /\ artifact = NoObject
  /\ entries = << >>
  /\ files = NoFiles

newConfigmapSource == config.parts = 2

newSecretSource == config.parts = 2

newOCISource == config.parses

\* New refuses an unknown getter and a configuration its constructor refuses.
New ==
  /\ config.getter \in getters
  /\ config.getter = "configmap" => newConfigmapSource
  /\ config.getter = "secret" => newSecretSource
  /\ config.getter = "oci" => newOCISource

-----------------------------------------------------------------------------
\* Someone changes the object (external).
Update(fetching) ==
  /\ object' \in Objects[config.getter]
  /\ seen' = IF fetching THEN seen \cup {object'} ELSE seen
  /\ Cardinality(seen') <= MaxVersions
  /\ UNCHANGED <<config, artifact, entries, files>>

beginFetch ==
  /\ seen' = {object}
  /\ artifact' = NoObject
  /\ entries' = << >>
  /\ files' = NoFiles
  /\ UNCHANGED <<config, object>>

configmapFiles(o) == Merge(o.data, o.binaryData)

secretFiles(o) == o.data

\* One Get of the object, or the test source's constant.
getObject ==
  /\ config.getter # "oci"
  /\ config.getter # "test" => object # NoObject
  /\ files' = CASE config.getter = "configmap" -> configmapFiles(object)
                [] config.getter = "secret"    -> secretFiles(object)
                [] config.getter = "test"      -> TestFiles
  /\ UNCHANGED <<config, object, seen, artifact, entries>>

\* Client.Pull resolves the reference and copies the manifest and the layers
\* it names by digest: one version of the artifact.
pull ==
  /\ config.getter = "oci"
  /\ object # NoObject
  /\ artifact' = object
  /\ UNCHANGED <<config, object, seen, entries, files>>

\* The first layer of a known media type is the tarball.
Tarballs(o) == SelectSeq(o.layers, LAMBDA l : l.type \in LayerTypes)

HasTarball(o) == Tarballs(o) # << >>

Opens(layer) == layer.type = "tar+gzip" => layer.gzipped

\* What a cluster or a registry can hold.
TarEntries == [name : Seq(STRING), kind : {"dir", "file", "link", "damaged"},
               content : FileContents]

ASSUME SourceConstantsOK ==
  /\ IsFileTree(TestFiles)
  /\ \A o \in Objects["configmap"] \ {NoObject} : IsFileTree(o.data) /\ IsFileTree(o.binaryData)
  /\ \A o \in Objects["secret"] \ {NoObject} : IsFileTree(o.data)
  /\ \A o \in Objects["oci"] \ {NoObject} :
       HasTarball(o) => Head(Tarballs(o)).entries \in Seq(TarEntries)

openTarball ==
  /\ HasTarball(artifact)
  /\ Opens(Head(Tarballs(artifact)))
  /\ entries' = Head(Tarballs(artifact)).entries
  /\ UNCHANGED <<config, object, seen, artifact, files>>

\* Mutant: any error of Next ends the loop like io.EOF.
nextEntry_Lenient ==
  LET e == Head(entries) IN
  /\ entries # << >>
  /\ entries' = IF e.kind = "damaged" THEN << >> ELSE Tail(entries)
  /\ files' = IF e.kind \in {"dir", "damaged"} THEN files
              ELSE Merge(files, [p \in {e.name} |-> e.content])
  /\ UNCHANGED <<config, object, seen, artifact>>

\* Directories are skipped; of a link there is nothing to copy, so it becomes
\* an empty file; a name that occurs again replaces the earlier file.
nextEntry ==
  LET e == Head(entries) IN
  /\ entries # << >>
  /\ e.kind # "damaged"
  /\ entries' = Tail(entries)
  /\ files' = IF e.kind = "dir" THEN files
              ELSE Merge(files, [p \in {e.name} |-> e.content])
  /\ UNCHANGED <<config, object, seen, artifact>>

-----------------------------------------------------------------------------
\* What a version of the object holds, said without the loop.
TarContents(es) ==
  LET isFile(i) == es[i].kind \in {"file", "link"}
      last(p) == CHOOSE i \in DOMAIN es :
                   /\ isFile(i) /\ es[i].name = p
                   /\ \A j \in DOMAIN es : (isFile(j) /\ es[j].name = p) => j <= i
  IN  [p \in {es[i].name : i \in {j \in DOMAIN es : isFile(j)}} |-> es[last(p)].content]

Contents(o) ==
  CASE config.getter = "test"      -> TestFiles
    [] config.getter = "configmap" -> Merge(o.data, o.binaryData)
    [] config.getter = "secret"    -> o.data
    [] config.getter = "oci"       -> TarContents(Head(Tarballs(o)).entries)

Whole(o) ==
  /\ config.getter # "test" => o # NoObject
  /\ config.getter = "oci" =>
       /\ HasTarball(o)
       /\ \A i \in DOMAIN Head(Tarballs(o)).entries :
            Head(Tarballs(o)).entries[i].kind # "damaged"
=============================================================================
