--------------------------- MODULE ProvisionProofs --------------------------
(* Proofs about Provision: for any certificates, sources, versions, names    *)
(* and group ids, and any changes to the source while it is read.            *)
EXTENDS Provision, TLAPS

-----------------------------------------------------------------------------
(* Trees.                                                                    *)

\* Merging trees gives a tree.
LEMMA MergeTree ==
  ASSUME NEW t, NEW new, IsFileTree(t), IsFileTree(new)
  PROVE  IsFileTree(Merge(t, new)) /\ DOMAIN Merge(t, new) = DOMAIN t \cup DOMAIN new
  BY DEF IsFileTree, Merge

\* One file is a tree.
LEMMA FileTree ==
  ASSUME NEW n, NEW x \in FileContents
  PROVE  IsFileTree([p \in {n} |-> x]) /\ DOMAIN [p \in {n} |-> x] = {n}
  BY DEF IsFileTree

\* No file is a tree.
LEMMA NoFilesTree == IsFileTree(NoFiles) /\ DOMAIN NoFiles = {}
  BY DEF IsFileTree, NoFiles

\* openssl's links hold certificates.
LEMMA RehashTree ==
  ASSUME NEW t
  PROVE  IsFileTree(OpenSSLRehash(t)) /\ DOMAIN OpenSSLRehash(t) \cap DOMAIN t = {}
  <1> DEFINE linked == {c \in Certs : \E p \in TopLevel(t) : t[p] \cap Certs = {c}}
             links == Rehash(t)
  <1>1. ASSUME NEW p \in DOMAIN links PROVE links[p] \in FileContents
    <2>1. \E c \in linked : <<HashName[c]>> = p
      BY <1>1 DEF Rehash
    <2>2. (CHOOSE c \in linked : <<HashName[c]>> = p) \in linked
      BY <2>1
    <2>3. links[p] = {CHOOSE c \in linked : <<HashName[c]>> = p}
      BY <1>1 DEF Rehash
    <2> QED BY <2>2, <2>3 DEF FileContents
  <1> HIDE DEF links
  <1>2. OpenSSLRehash(t) = [p \in DOMAIN links \ DOMAIN t |-> links[p]]
    BY DEF OpenSSLRehash, links
  <1> QED BY <1>1, <1>2 DEF IsFileTree

\* The clean payload has the contents of the files and their clean names.
LEMMA PayloadTree ==
  ASSUME NEW fs, IsFileTree(fs), NEW t \in CleanPayloads(fs)
  PROVE  IsFileTree(t) /\ DOMAIN t = {Clean(p) : p \in DOMAIN fs}
  BY DEF IsFileTree, CleanPayloads

-----------------------------------------------------------------------------
(* Types.                                                                    *)

BeforeWrite == FetchSteps \cup {"group", "write"}

TypeInv ==
  /\ TypeOK
  /\ pc \notin {"start", "exited"} => config.getter \in getters
  /\ outcome # "none" => pc = "idle"
  /\ pc \in {"open", "next"} => config.getter = "oci" /\ artifact # NoObject
  /\ pc = "next" => entries \in Seq(TarEntries)
  /\ pc \in BeforeWrite => payload = NoFiles /\ dir = NoFiles /\ todo = {}
  /\ pc = "bundle" => dir = payload /\ todo = {}
  /\ pc \in {"copy", "commit"} => DOMAIN payload \subseteq DOMAIN dir
  /\ pc = "chown" => todo \subseteq DOMAIN payload

\* The start.
LEMMA InitType == Init => TypeInv
  <1> SUFFICES ASSUME Init PROVE TypeInv
    OBVIOUS
  <1>1. TypeOK
    BY NoFilesTree, ProvisionConstantsOK DEF Init, SourceInit, TypeOK, FetchSteps
  <1> QED BY <1>1 DEF Init, TypeInv, FetchSteps, BeforeWrite

\* A publish that ends.
LEMMA FinishType ==
  ASSUME TypeInv, NEW result \in {"ok", "error"}, Finish(result), UNCHANGED sourceVars,
         pc \notin {"start", "exited"}
  PROVE  TypeInv'
  BY DEF TypeInv, TypeOK, Finish, Goto, sourceVars, FetchSteps, BeforeWrite

\* The source.
LEMMA FetchType ==
  ASSUME TypeInv, start \/ Publish \/ Change \/ GetFiles
  PROVE  TypeInv'
  <1> USE DEF Goto
  <1>1. CASE start
    BY <1>1 DEF start, New, TypeInv, TypeOK, sourceVars, provisionVars, FetchSteps, BeforeWrite
  <1>2. CASE Publish
    <2>1. TypeOK'
      BY <1>2, NoFilesTree DEF Publish, beginFetch, TypeInv, TypeOK, FetchSteps
    <2> QED BY <1>2, <2>1 DEF Publish, beginFetch, TypeInv, FetchSteps, BeforeWrite
  <1>3. CASE Change
    BY <1>3 DEF Change, Update, TypeInv, TypeOK, provisionVars, FetchSteps, BeforeWrite
  <1>4. CASE GetFiles /\ ~Fails
    <2>1. UNCHANGED provisionVars /\ UNCHANGED <<config, object, seen>>
      BY <1>4 DEF GetFiles, getObject, pull, openTarball, nextEntry, sourceVars
    <2>2. pc \in FetchSteps /\ pc' \in {"group", "open", "next"} /\ config.getter \in getters
      BY <1>4 DEF GetFiles, FetchSteps, TypeInv
    <2>3. artifact' \in Objects[config.getter] \cup {NoObject} /\ IsFileTree(files')
          /\ (pc' \in {"open", "next"} => config.getter = "oci" /\ artifact' # NoObject)
          /\ (pc' = "next" => entries' \in Seq(TarEntries))
      <3>1. CASE pc = "get" /\ getObject /\ Goto("group")
        <4>1. config.getter \in {"test", "configmap", "secret"}
          BY <2>2, <3>1 DEF getObject, getters
        <4>2. IsFileTree(files')
          <5>1. CASE config.getter = "configmap"
            BY <3>1, <5>1, MergeTree, SourceConstantsOK DEF getObject, configmapFiles, TypeInv, TypeOK
          <5>2. CASE config.getter = "secret"
            BY <3>1, <5>2, SourceConstantsOK DEF getObject, secretFiles, TypeInv, TypeOK
          <5>3. CASE config.getter = "test"
            BY <3>1, <5>3, SourceConstantsOK DEF getObject, TypeInv, TypeOK
          <5> QED BY <4>1, <5>1, <5>2, <5>3
        <4> QED BY <3>1, <4>2 DEF getObject, TypeInv, TypeOK
      <3>2. CASE pc = "get" /\ pull /\ Goto("open")
        BY <3>2 DEF pull, TypeInv, TypeOK
      <3>3. CASE pc = "open" /\ openTarball /\ Goto("next")
        <4>1. artifact \in Objects["oci"] \ {NoObject} /\ config.getter = "oci"
          BY <3>3 DEF TypeInv, TypeOK
        <4> QED BY <3>3, <4>1, SourceConstantsOK DEF openTarball, TypeInv, TypeOK
      <3>4. CASE pc = "next" /\ nextEntry /\ UNCHANGED pc
        <4>1. entries \in Seq(TarEntries) /\ entries # << >>
          BY <3>4 DEF TypeInv, nextEntry
        <4>2. Head(entries) \in TarEntries /\ Tail(entries) \in Seq(TarEntries)
          BY <4>1
        <4>3. Head(entries).content \in FileContents
          BY <4>2 DEF TarEntries
        <4>4. IsFileTree(Merge(files, [p \in {Head(entries).name} |-> Head(entries).content]))
          BY <4>3, MergeTree, FileTree DEF TypeInv, TypeOK
        <4> QED BY <3>4, <4>2, <4>4 DEF nextEntry, TypeInv, TypeOK
      <3>5. CASE pc = "next" /\ Goto("group") /\ UNCHANGED sourceVars
        BY <3>5 DEF sourceVars, TypeInv, TypeOK
      <3> QED BY <1>4, <3>1, <3>2, <3>3, <3>4, <3>5 DEF GetFiles
    <2>4. TypeOK'
      <3>1. DOMAIN payload' = {}
        BY <2>1, <2>2, NoFilesTree DEF TypeInv, provisionVars, BeforeWrite
      <3> QED BY <2>1, <2>2, <2>3, <3>1 DEF TypeInv, TypeOK, provisionVars, FetchSteps
    <2> QED BY <2>1, <2>2, <2>3, <2>4 DEF TypeInv, provisionVars, FetchSteps, BeforeWrite
  <1>5. CASE GetFiles /\ Fails
    BY <1>5, FinishType DEF GetFiles, Fails
  <1> QED BY <1>1, <1>2, <1>3, <1>4, <1>5

\* The group, the payload and the directory.
LEMMA WriteType ==
  ASSUME TypeInv, chownDataDir \/ writePayload \/ createBundle \/ rehash \/ commit \/ chownFiles
  PROVE  TypeInv'
  <1> USE DEF Goto
  <1>1. CASE Fails \/ (Finish("ok") /\ UNCHANGED sourceVars)
    <2>1. pc \notin {"start", "exited"}
      BY DEF chownDataDir, writePayload, createBundle, rehash, commit, chownFiles
    <2> QED BY <1>1, <2>1, FinishType DEF Fails
  <1>2. CASE chownDataDir /\ ~Fails
    <2>1. /\ pc = "group" /\ pc' = "write" /\ owned' \subseteq owned \cup {DataDir}
          /\ UNCHANGED <<sourceVars, attr, payload, dir, todo, live, outcome>>
      BY <1>2 DEF chownDataDir, chown, provisionVars
    <2> QED BY <2>1 DEF TypeInv, TypeOK, sourceVars, FetchSteps, BeforeWrite
  <1>3. CASE writePayload /\ ~Fails
    <2>1. /\ pc = "write" /\ pc' = "bundle" /\ payload' \in CleanPayloads(files) /\ dir' = payload'
          /\ UNCHANGED <<sourceVars, attr, todo, live, owned, outcome>>
      BY <1>3 DEF writePayload
    <2>2. /\ IsFileTree(payload') /\ payload = NoFiles /\ todo = {}
          /\ DOMAIN payload' \subseteq {Clean(p) : p \in DOMAIN files'}
      BY <2>1, PayloadTree DEF TypeInv, TypeOK, BeforeWrite, sourceVars
    <2>3. owned' \subseteq {DataDir} \cup DOMAIN payload'
      BY <2>1, <2>2, NoFilesTree DEF TypeInv, TypeOK
    <2>4. TypeOK'
      BY <2>1, <2>2, <2>3 DEF TypeInv, TypeOK, sourceVars
    <2> QED BY <2>1, <2>2, <2>4 DEF TypeInv, sourceVars, FetchSteps, BeforeWrite
  <1>4. CASE createBundle /\ ~Fails
    <2>1. CASE pc = "bundle"
      <3>1. /\ pc' = "copy" /\ dir' = Merge(dir, [p \in {<<Bundle>>} |-> {}])
            /\ todo' = TopLevel(dir) \ {<<Bundle>>}
            /\ UNCHANGED <<sourceVars, attr, payload, live, owned, outcome>>
        BY <1>4, <2>1 DEF createBundle
      <3>2. {} \in FileContents
        BY DEF FileContents
      <3>3. IsFileTree(dir') /\ DOMAIN dir' = DOMAIN dir \cup {<<Bundle>>}
        BY <3>1, <3>2, MergeTree, FileTree DEF TypeInv, TypeOK
      <3>4. todo' \subseteq DOMAIN dir' /\ DOMAIN payload' \subseteq DOMAIN dir'
        BY <2>1, <3>1, <3>3 DEF TopLevel, TypeInv
      <3>5. TypeOK'
        BY <3>1, <3>3, <3>4 DEF TypeInv, TypeOK, sourceVars
      <3> QED BY <2>1, <3>1, <3>4, <3>5 DEF TypeInv, sourceVars, FetchSteps, BeforeWrite
    <2>2. CASE pc = "copy"
      <3>1. \E p \in todo, copied \in SUBSET (Certs \cup {Separator}) :
              /\ dir' = [dir EXCEPT ![<<Bundle>>] = @ \cup copied \cup {Separator}]
              /\ todo' = todo \ {p}
        BY <1>4, <2>2 DEF createBundle
      <3>2. UNCHANGED <<sourceVars, pc, attr, payload, live, owned, outcome>>
        BY <1>4, <2>2 DEF createBundle
      <3>3. IsFileTree(dir') /\ DOMAIN dir' = DOMAIN dir
        <4> PICK copied \in SUBSET (Certs \cup {Separator}) :
                   dir' = [dir EXCEPT ![<<Bundle>>] = @ \cup copied \cup {Separator}]
          BY <3>1
        <4>1. dir \in [DOMAIN dir -> FileContents]
          BY DEF TypeInv, TypeOK, IsFileTree
        <4>2. \A x \in FileContents : x \cup copied \cup {Separator} \in FileContents
          BY DEF FileContents
        <4>3. dir' \in [DOMAIN dir -> FileContents] /\ DOMAIN dir' = DOMAIN dir
          BY <4>1, <4>2
        <4> QED BY <4>3 DEF IsFileTree
      <3>4. todo' \subseteq DOMAIN dir' /\ DOMAIN payload' \subseteq DOMAIN dir'
        BY <2>2, <3>1, <3>2, <3>3 DEF TypeInv, TypeOK
      <3>5. TypeOK'
        BY <3>2, <3>3, <3>4 DEF TypeInv, TypeOK, sourceVars
      <3> QED BY <2>2, <3>2, <3>4, <3>5 DEF TypeInv, sourceVars, FetchSteps, BeforeWrite
    <2> QED BY <1>4, <2>1, <2>2 DEF createBundle
  <1>5. CASE rehash /\ ~Fails
    <2>1. /\ pc = "copy" /\ pc' = "commit" /\ dir' = Merge(dir, OpenSSLRehash(dir))
          /\ UNCHANGED <<sourceVars, attr, payload, todo, live, owned, outcome>>
      BY <1>5 DEF rehash
    <2>2. IsFileTree(dir') /\ DOMAIN dir \subseteq DOMAIN dir'
      <3>1. IsFileTree(dir) /\ IsFileTree(OpenSSLRehash(dir))
        BY RehashTree DEF TypeInv, TypeOK
      <3> QED BY <2>1, <3>1, MergeTree
    <2>3. TypeOK'
      BY <2>1, <2>2 DEF TypeInv, TypeOK, sourceVars
    <2> QED BY <2>1, <2>2, <2>3 DEF TypeInv, sourceVars, FetchSteps, BeforeWrite
  <1>6. CASE commit /\ ~Fails
    <2>1. /\ pc = "commit" /\ pc' = "chown" /\ live' = dir /\ todo' \subseteq DOMAIN payload
          /\ UNCHANGED <<sourceVars, attr, payload, dir, owned, outcome>>
      BY <1>6 DEF commit
    <2>2. todo' \subseteq DOMAIN dir'
      BY <2>1 DEF TypeInv
    <2>3. TypeOK'
      BY <2>1, <2>2 DEF TypeInv, TypeOK, sourceVars
    <2> QED BY <2>1, <2>3 DEF TypeInv, sourceVars, FetchSteps, BeforeWrite
  <1>7. CASE chownFiles /\ ~Fails /\ ~(Finish("ok") /\ UNCHANGED sourceVars)
    <2>1. /\ pc = "chown" /\ UNCHANGED <<sourceVars, pc, attr, payload, dir, live, outcome>>
          /\ todo' \subseteq todo /\ owned' \subseteq owned \cup todo
      BY <1>7 DEF chownFiles, chown
    <2>2. TypeOK'
      BY <2>1 DEF TypeInv, TypeOK, sourceVars
    <2> QED BY <2>1, <2>2 DEF TypeInv, sourceVars, FetchSteps, BeforeWrite
  <1> QED BY <1>1, <1>2, <1>3, <1>4, <1>5, <1>6, <1>7

\* Every step.
LEMMA NextType ==
  ASSUME TypeInv, [Next]_vars
  PROVE  TypeInv'
  <1>1. CASE UNCHANGED vars
    BY <1>1 DEF vars, sourceVars, provisionVars, TypeInv, TypeOK
  <1> QED BY <1>1, FetchType, WriteType DEF Next

(* Every variable keeps its type, whatever the source holds and however it   *)
(* changes: in particular only files of the volume are ever chowned.         *)
THEOREM TypeCorrect == Spec => []TypeOK
  <1>1. TypeInv /\ [Next]_vars => TypeInv'
    BY NextType
  <1>2. TypeInv => TypeOK
    BY DEF TypeInv
  <1> QED BY InitType, <1>1, <1>2, PTL DEF Spec

-----------------------------------------------------------------------------
(* The group.                                                                *)

Grouped == fsGroupForMetadata(attr) \notin {Nil, MaxGid}

AfterGroup == {"write", "bundle", "copy", "commit", "chown"}

\* The group is not refused, and what it owns so far.
OwnInv ==
  /\ pc \in AfterGroup \/ outcome = "ok" => fsGroupForMetadata(attr) # Invalid
  /\ Grouped => /\ pc \in AfterGroup \/ outcome = "ok" => DataDir \in owned
                /\ pc = "chown" => DOMAIN payload \subseteq owned \cup todo
                /\ outcome = "ok" => DOMAIN payload \subseteq owned

\* Every step.
LEMMA NextOwn ==
  ASSUME TypeInv, OwnInv, [Next]_vars
  PROVE  OwnInv'
  <1> USE DEF TypeInv, OwnInv, Goto, AfterGroup, FetchSteps
  <1>1. UNCHANGED attr => /\ Grouped' = Grouped
                          /\ fsGroupForMetadata(attr)' = fsGroupForMetadata(attr)
    BY DEF Grouped, fsGroupForMetadata
  <1>2. CASE UNCHANGED vars
    BY <1>1, <1>2 DEF vars, provisionVars
  <1>3. CASE Fails
    BY <1>1, <1>3 DEF Fails, Finish
  <1>4. CASE start \/ Change \/ GetFiles
    BY <1>1, <1>3, <1>4 DEF start, Change, GetFiles, provisionVars
  <1>5. CASE Publish
    BY <1>5 DEF Publish
  <1>6. CASE chownDataDir
    BY <1>1, <1>3, <1>6, ProvisionConstantsOK DEF chownDataDir, chown, provisionVars, Grouped
  <1>7. CASE writePayload \/ createBundle \/ rehash
    BY <1>1, <1>3, <1>7 DEF writePayload, createBundle, rehash
  <1>8. CASE commit
    BY <1>1, <1>3, <1>8 DEF commit, Grouped
  <1>9. CASE chownFiles
    BY <1>1, <1>3, <1>9 DEF chownFiles, chown, Finish, Grouped
  <1> QED BY <1>2, <1>4, <1>5, <1>6, <1>7, <1>8, <1>9 DEF Next

(* A volume that was filled for an fsGroup belongs to it, its directory and  *)
(* every file of the source, except with the one gid that chown(2) takes for *)
(* "leave it": for any gid width, attributes and clean names.                *)
THEOREM GroupOwns == Spec => []OwnedByGroup
  <1>1. Init => OwnInv
    BY DEF Init, OwnInv, AfterGroup
  <1>2. TypeInv /\ OwnInv /\ [Next]_vars => TypeInv' /\ OwnInv'
    BY NextType, NextOwn
  <1>3. TypeInv /\ OwnInv => OwnedByGroup
    <2> SUFFICES ASSUME TypeInv, OwnInv, outcome = "ok"
                 PROVE  /\ (FixedFSGroup = Nil /\ KeyDefined /\ attr # NoAttr) => attr \in 1..MaxGid
                        /\ Grouped => {DataDir} \cup DOMAIN payload \subseteq owned
      BY DEF OwnedByGroup, Grouped
    <2>1. ASSUME FixedFSGroup = Nil, KeyDefined, attr # NoAttr
          PROVE  attr \in 1..MaxGid
      <3>1. fsGroupForMetadata(attr) = IF attr # BadAttr /\ attr > 0 /\ attr <= MaxGid THEN attr ELSE Invalid
        BY <2>1 DEF fsGroupForMetadata
      <3>2. attr # BadAttr /\ attr > 0 /\ attr <= MaxGid
        BY <3>1 DEF OwnInv
      <3>3. attr \in Int
        BY <2>1, <3>2, ProvisionConstantsOK DEF TypeInv, TypeOK
      <3>4. MaxGid \in Int
        BY ProvisionConstantsOK DEF MaxGid
      <3> HIDE DEF MaxGid
      <3> QED BY <3>2, <3>3, <3>4
    <2> QED BY <2>1 DEF OwnInv
  <1> QED BY InitType, <1>1, <1>2, <1>3, PTL DEF Spec

-----------------------------------------------------------------------------
(* One version of the source.                                                *)

TarOf(o) == Head(Tarballs(o)).entries

IsFile(es, i) == es[i].kind \in {"file", "link"}

\* The last of the first n entries that is a file named p.
IsLast(es, n, p, i) ==
  /\ IsFile(es, i) /\ es[i].name = p
  /\ \A j \in 1..n : IsFile(es, j) /\ es[j].name = p => j <= i

\* fs is what the first n entries of es make.
ReadSoFar(fs, es, n) ==
  /\ DOMAIN fs = {es[i].name : i \in {j \in 1..n : IsFile(es, j)}}
  /\ \A p \in DOMAIN fs : \E i \in 1..n : IsLast(es, n, p, i) /\ fs[p] = es[i].content
  /\ \A i \in 1..n : es[i].kind # "damaged"

\* What the loop of nextEntry makes of an entry.
ReadEntry(fs, e) ==
  IF e.kind = "dir" THEN fs ELSE Merge(fs, [p \in {e.name} |-> e.content])

\* rest is what is left of es after the first n.
Remaining(rest, es, n) ==
  /\ Len(rest) = Len(es) - n
  /\ \A i \in 1..Len(rest) : rest[i] = es[n + i]

\* Before the first entry.
LEMMA ReadNone ==
  ASSUME NEW es
  PROVE  ReadSoFar(NoFiles, es, 0)
  BY NoFilesTree DEF ReadSoFar

\* One entry more.
LEMMA ReadOne ==
  ASSUME NEW es \in Seq(TarEntries), NEW n \in 0..Len(es), n # Len(es), NEW fs, IsFileTree(fs),
         ReadSoFar(fs, es, n), es[n + 1].kind # "damaged"
  PROVE  ReadSoFar(ReadEntry(fs, es[n + 1]), es, n + 1)
  <1> DEFINE m == n + 1
             e == es[m]
             gs == ReadEntry(fs, e)
  <1>1. m \in 1..Len(es) /\ n \in Nat /\ m \notin 1..n /\ 1..m = 1..n \cup {m}
    OBVIOUS
  <1>2. e \in TarEntries
    BY <1>1
  <1>3. e.kind \in {"dir", "file", "link"} /\ e.content \in FileContents
    BY <1>2 DEF TarEntries
  <1>4. \A i \in 1..m : es[i].kind # "damaged"
    BY <1>1 DEF ReadSoFar
  <1> HIDE DEF m
  <1>5. CASE e.kind = "dir"
    <2>1. gs = fs /\ ~IsFile(es, m)
      BY <1>5 DEF ReadEntry, IsFile
    <2>2. DOMAIN gs = {es[i].name : i \in {j \in 1..m : IsFile(es, j)}}
      BY <1>1, <2>1 DEF ReadSoFar
    <2>3. \A p, i : IsLast(es, n, p, i) => IsLast(es, m, p, i)
      BY <1>1, <2>1 DEF IsLast
    <2>4. \A p \in DOMAIN gs : \E i \in 1..m : IsLast(es, m, p, i) /\ gs[p] = es[i].content
      BY <1>1, <2>1, <2>3 DEF ReadSoFar
    <2> QED BY <1>4, <2>2, <2>4 DEF ReadSoFar, m
  <1>6. CASE e.kind # "dir"
    <2>1. gs = Merge(fs, [p \in {e.name} |-> e.content]) /\ IsFile(es, m)
      BY <1>3, <1>6 DEF ReadEntry, IsFile
    <2>2. DOMAIN gs = DOMAIN fs \cup {e.name}
      BY <2>1 DEF Merge
    <2>3. DOMAIN gs = {es[i].name : i \in {j \in 1..m : IsFile(es, j)}}
      BY <1>1, <2>1, <2>2 DEF ReadSoFar
    <2>4. gs[e.name] = e.content /\ \A p \in DOMAIN fs \ {e.name} : gs[p] = fs[p]
      BY <2>1 DEF Merge
    <2>5. IsLast(es, m, e.name, m)
      BY <1>1, <2>1 DEF IsLast, m
    <2>6. \A p, i : p # e.name /\ IsLast(es, n, p, i) => IsLast(es, m, p, i)
      BY <1>1 DEF IsLast
    <2>7. \A p \in DOMAIN gs : \E i \in 1..m : IsLast(es, m, p, i) /\ gs[p] = es[i].content
      <3> TAKE p \in DOMAIN gs
      <3>1. CASE p = e.name
        BY <1>1, <2>4, <2>5, <3>1
      <3>2. CASE p # e.name
        <4>1. p \in DOMAIN fs /\ gs[p] = fs[p]
          BY <2>2, <2>4, <3>2
        <4>2. PICK i \in 1..n : IsLast(es, n, p, i) /\ fs[p] = es[i].content
          BY <4>1 DEF ReadSoFar
        <4> QED BY <1>1, <2>6, <3>2, <4>1, <4>2
      <3> QED BY <3>1, <3>2
    <2> QED BY <1>4, <2>3, <2>7 DEF ReadSoFar, m
  <1> QED BY <1>5, <1>6

\* After the last entry the loop has made what the tarball holds.
LEMMA ReadAll ==
  ASSUME NEW es \in Seq(TarEntries), NEW fs, IsFileTree(fs), ReadSoFar(fs, es, Len(es))
  PROVE  fs = TarContents(es) /\ \A i \in DOMAIN es : es[i].kind # "damaged"
  <1> DEFINE last(p) == CHOOSE i \in DOMAIN es :
                          /\ es[i].kind \in {"file", "link"} /\ es[i].name = p
                          /\ \A j \in DOMAIN es :
                               (es[j].kind \in {"file", "link"} /\ es[j].name = p) => j <= i
             names == {es[i].name : i \in {j \in DOMAIN es : es[j].kind \in {"file", "link"}}}
  <1>1. DOMAIN es = 1..Len(es) /\ Len(es) \in Nat
    OBVIOUS
  <1>2. TarContents(es) = [p \in names |-> es[last(p)].content]
    BY DEF TarContents
  <1>3. DOMAIN fs = names
    BY <1>1 DEF ReadSoFar, IsFile
  <1>4. ASSUME NEW p \in DOMAIN fs PROVE fs[p] = es[last(p)].content
    <2>1. PICK i \in 1..Len(es) : IsLast(es, Len(es), p, i) /\ fs[p] = es[i].content
      BY DEF ReadSoFar
    <2>2. /\ es[i].kind \in {"file", "link"} /\ es[i].name = p
          /\ \A j \in DOMAIN es : (es[j].kind \in {"file", "link"} /\ es[j].name = p) => j <= i
      BY <1>1, <2>1 DEF IsLast, IsFile
    <2>3. /\ last(p) \in DOMAIN es
          /\ es[last(p)].kind \in {"file", "link"} /\ es[last(p)].name = p
          /\ \A j \in DOMAIN es : (es[j].kind \in {"file", "link"} /\ es[j].name = p) => j <= last(p)
      BY <1>1, <2>2
    <2>4. last(p) = i
      <3> HIDE DEF last
      <3>1. last(p) <= i /\ i <= last(p)
        BY <1>1, <2>2, <2>3
      <3> QED BY <1>1, <2>3, <3>1
    <2> QED BY <2>1, <2>4
  <1> HIDE DEF last, names
  <1>5. fs = [p \in DOMAIN fs |-> fs[p]]
    BY DEF IsFileTree
  <1>6. fs = TarContents(es)
    BY <1>2, <1>3, <1>4, <1>5
  <1> QED BY <1>1, <1>6 DEF ReadSoFar

AfterFetch == {"group", "write", "bundle", "copy", "commit", "chown"}
AfterWrite == {"bundle", "copy", "commit", "chown"}

\* What has been fetched is, or will be, one version there was meanwhile.
FetchInv ==
  /\ pc \in FetchSteps => object \in seen
  /\ pc \in {"get", "open"} => files = NoFiles
  /\ pc \in {"open", "next"} => artifact \in seen
  /\ pc = "next" => /\ HasTarball(artifact)
                    /\ \E n \in 0..Len(TarOf(artifact)) :
                         /\ ReadSoFar(files, TarOf(artifact), n)
                         /\ Remaining(entries, TarOf(artifact), n)
  /\ pc \in AfterFetch \/ outcome = "ok" => \E o \in seen : Whole(o) /\ files = Contents(o)

\* The fetch.
LEMMA GetFetch ==
  ASSUME TypeInv, FetchInv, GetFiles, ~Fails
  PROVE  FetchInv'
  <1> USE DEF Goto
  <1>1. UNCHANGED provisionVars /\ UNCHANGED <<config, object, seen>>
    BY DEF GetFiles, getObject, pull, openTarball, nextEntry, sourceVars
  <1>2. pc \in FetchSteps /\ pc' \in {"group", "open", "next"} /\ outcome' # "ok" /\ object' \in seen'
    BY <1>1 DEF GetFiles, TypeInv, FetchSteps, FetchInv, provisionVars
  <1>3. (\A o : Whole(o)' <=> Whole(o)) /\ (\A o : Contents(o)' = Contents(o))
    BY <1>1 DEF Whole, Contents
  <1>4. CASE pc = "get" /\ getObject /\ Goto("group")
    <2>1. config.getter \in {"test", "configmap", "secret"}
      BY <1>4 DEF getObject, getters, TypeInv
    <2>2. files' = Contents(object)
      BY <1>4, <2>1 DEF getObject, Contents, configmapFiles, secretFiles
    <2>3. Whole(object)
      BY <1>4 DEF getObject, Whole
    <2> QED BY <1>1, <1>2, <1>3, <1>4, <2>2, <2>3 DEF FetchInv, FetchSteps, AfterFetch
  <1>5. CASE pc = "get" /\ pull /\ Goto("open")
    BY <1>1, <1>2, <1>5 DEF pull, FetchInv, AfterFetch
  <1>6. CASE pc = "open" /\ openTarball /\ Goto("next")
    <2>1. artifact' = artifact /\ HasTarball(artifact) /\ entries' = TarOf(artifact)
          /\ files' = NoFiles /\ artifact \in seen
      BY <1>6 DEF openTarball, FetchInv, TarOf
    <2>2. artifact \in Objects["oci"] \ {NoObject}
      BY <1>6 DEF TypeInv, TypeOK
    <2>3. TarOf(artifact) \in Seq(TarEntries)
      BY <2>1, <2>2, SourceConstantsOK DEF TarOf
    <2>4. ReadSoFar(files', TarOf(artifact), 0) /\ Remaining(entries', TarOf(artifact), 0)
      BY <2>1, <2>3, ReadNone DEF Remaining
    <2>5. 0 \in 0..Len(TarOf(artifact)) /\ HasTarball(artifact)' /\ TarOf(artifact)' = TarOf(artifact)
      BY <2>1, <2>3
    <2> QED BY <1>1, <1>2, <1>6, <2>1, <2>4, <2>5 DEF FetchInv, AfterFetch
  <1>7. CASE pc = "next"
    <2> DEFINE es == TarOf(artifact)
    <2>1. PICK n \in 0..Len(es) : ReadSoFar(files, es, n) /\ Remaining(entries, es, n)
      BY <1>7 DEF FetchInv
    <2>2. artifact \in Objects["oci"] \ {NoObject} /\ HasTarball(artifact) /\ artifact \in seen
          /\ config.getter = "oci"
      BY <1>7 DEF TypeInv, TypeOK, FetchInv
    <2>3. es \in Seq(TarEntries) /\ Len(es) \in Nat /\ entries \in Seq(TarEntries) /\ IsFileTree(files)
      BY <1>7, <2>2, SourceConstantsOK DEF TarOf, TypeInv, TypeOK
    <2>4. CASE nextEntry /\ UNCHANGED pc
      <3>1. entries # << >> /\ Len(entries) \in Nat \ {0} /\ Len(entries) = Len(es) - n
        BY <2>1, <2>3, <2>4 DEF nextEntry, Remaining
      <3>2. n # Len(es) /\ n + 1 \in 0..Len(es) /\ Head(entries) = es[n + 1]
        BY <2>1, <2>3, <3>1 DEF Remaining
      <3>3. es[n + 1].kind # "damaged" /\ files' = ReadEntry(files, es[n + 1])
            /\ entries' = Tail(entries) /\ artifact' = artifact
        BY <2>4, <3>2 DEF nextEntry, ReadEntry
      <3>4. ReadSoFar(files', es, n + 1)
        BY <2>1, <2>3, <3>2, <3>3, ReadOne
      <3>5. Len(Tail(entries)) = Len(entries) - 1
            /\ \A i \in 1..Len(Tail(entries)) : Tail(entries)[i] = entries[i + 1]
        BY <2>3, <3>1
      <3>6. Remaining(entries', es, n + 1)
        <4>1. Len(entries') = Len(es) - (n + 1)
          BY <2>3, <3>1, <3>3, <3>5
        <4>2. ASSUME NEW i \in 1..Len(entries') PROVE entries'[i] = es[(n + 1) + i]
          <5>1. i + 1 \in 1..Len(entries) /\ n + (i + 1) = (n + 1) + i
            BY <2>3, <3>1, <3>3, <3>5, <4>2
          <5>2. entries'[i] = entries[i + 1]
            BY <3>3, <3>5, <4>2
          <5>3. entries[i + 1] = es[n + (i + 1)]
            BY <2>1, <5>1 DEF Remaining
          <5> QED BY <5>1, <5>2, <5>3
        <4> QED BY <4>1, <4>2 DEF Remaining
      <3>7. HasTarball(artifact)' /\ TarOf(artifact)' = es
        BY <2>2, <3>3
      <3> QED BY <1>1, <1>2, <1>7, <2>2, <2>4, <3>2, <3>3, <3>4, <3>6, <3>7 DEF FetchInv, AfterFetch
    <2>5. CASE entries = << >> /\ Goto("group") /\ UNCHANGED sourceVars
      <3>1. Len(es) = n
        BY <2>1, <2>3, <2>5 DEF Remaining
      <3>2. files = TarContents(es) /\ \A i \in DOMAIN es : es[i].kind # "damaged"
        BY <2>1, <2>3, <3>1, ReadAll
      <3>3. Whole(artifact) /\ files = Contents(artifact)
        BY <2>2, <3>2 DEF Whole, Contents, TarOf
      <3> QED BY <1>1, <1>2, <1>3, <2>2, <2>5, <3>3 DEF FetchInv, FetchSteps, AfterFetch, sourceVars
    <2> QED BY <1>7, <2>4, <2>5 DEF GetFiles
  <1> QED BY <1>4, <1>5, <1>6, <1>7 DEF GetFiles

\* Every step.
LEMMA NextFetch ==
  ASSUME TypeInv, FetchInv, [Next]_vars
  PROVE  FetchInv'
  <1> USE DEF Goto
  <1>1. (UNCHANGED config) => (\A o : Whole(o)' <=> Whole(o)) /\ (\A o : Contents(o)' = Contents(o))
    BY DEF Whole, Contents
  <1>2. CASE UNCHANGED vars
    BY <1>1, <1>2 DEF vars, sourceVars, provisionVars, FetchInv
  <1>3. CASE Fails
    BY <1>3 DEF Fails, Finish, FetchInv, FetchSteps, AfterFetch
  <1>4. CASE start
    BY <1>4 DEF start, TypeInv, provisionVars, FetchInv, FetchSteps, AfterFetch
  <1>5. CASE Publish
    BY <1>5 DEF Publish, beginFetch, FetchInv, FetchSteps, AfterFetch
  <1>6. CASE Change
    <2>1. UNCHANGED <<config, artifact, entries, files, pc, outcome>>
      BY <1>6 DEF Change, Update, provisionVars
    <2>2. seen \subseteq seen' /\ (pc \in FetchSteps => object' \in seen')
      BY <1>6 DEF Change, Update
    <2>3. HasTarball(artifact)' = HasTarball(artifact) /\ TarOf(artifact)' = TarOf(artifact)
      BY <2>1
    <2> QED BY <1>1, <2>1, <2>2, <2>3 DEF FetchInv
  <1>7. CASE GetFiles
    BY <1>3, <1>7, GetFetch
  <1>8. CASE /\ chownDataDir \/ writePayload \/ createBundle \/ rehash \/ commit \/ chownFiles
             /\ ~Fails
    <2>1. UNCHANGED sourceVars /\ pc \in AfterFetch /\ (pc' \in AfterFetch \/ pc' = "idle")
      BY <1>8 DEF chownDataDir, writePayload, createBundle, rehash, commit, chownFiles, Finish, AfterFetch
    <2> QED BY <1>1, <2>1 DEF FetchInv, sourceVars, FetchSteps, AfterFetch
  <1> QED BY <1>2, <1>3, <1>4, <1>5, <1>6, <1>7, <1>8 DEF Next

\* The order of merges of different files does not matter.
LEMMA MergeApart ==
  ASSUME NEW t, NEW b, NEW r, DOMAIN r \cap DOMAIN Merge(t, b) = {}
  PROVE  Merge(Merge(t, b), r) = Merge(t, Merge(r, b))
  BY DEF Merge

\* The dirFuncs one after the other make what they make together.
LEMMA DirFuncsInTurn ==
  ASSUME NEW t
  PROVE  LET d == Merge(t, CreateCABundle(t))
         IN  Merge(d, OpenSSLRehash(d)) = Merge(t, DirFuncsForVolume(t))
  BY RehashTree, MergeApart DEF DirFuncsForVolume

\* The bundle when these files have been copied.
BundleOf(t, copied) == UNION {t[q] \cup {Separator} : q \in copied}

Filled(t, copied) == [p \in {<<Bundle>>} |-> BundleOf(t, copied)]

\* One file more.
LEMMA FillOne ==
  ASSUME NEW t, NEW copied, NEW q, NEW d, d = Merge(t, Filled(t, copied))
  PROVE  [d EXCEPT ![<<Bundle>>] = @ \cup t[q] \cup {Separator}] = Merge(t, Filled(t, copied \cup {q}))
  <1> DEFINE e == [d EXCEPT ![<<Bundle>>] = @ \cup t[q] \cup {Separator}]
             f == Merge(t, Filled(t, copied \cup {q}))
             more == BundleOf(t, copied) \cup t[q] \cup {Separator}
  <1>1. d = [p \in DOMAIN t \cup {<<Bundle>>} |->
               IF p = <<Bundle>> THEN BundleOf(t, copied) ELSE t[p]]
    BY DEF Merge, Filled
  <1>2. f = [p \in DOMAIN t \cup {<<Bundle>>} |->
               IF p = <<Bundle>> THEN BundleOf(t, copied \cup {q}) ELSE t[p]]
    BY DEF Merge, Filled
  <1>3. BundleOf(t, copied \cup {q}) = more
    <2>1. \A c, x : x \in BundleOf(t, c) <=> \E r \in c : x \in t[r] \/ x = Separator
      BY DEF BundleOf
    <2>2. \A x : x \in BundleOf(t, copied \cup {q}) <=> x \in more
      BY <2>1
    <2> HIDE DEF more
    <2> QED BY <2>2
  <1>4. e = [p \in DOMAIN t \cup {<<Bundle>>} |-> IF p = <<Bundle>> THEN more ELSE t[p]]
    BY <1>1
  <1> QED BY <1>2, <1>3, <1>4

ToCopy == TopLevel(payload) \ {<<Bundle>>}

\* What is in the new directory: the payload and the dirFuncs' work so far.
DirInv ==
  /\ pc \in AfterWrite \/ outcome = "ok" => payload \in CleanPayloads(files)
  /\ pc = "copy" =>
       /\ todo \subseteq ToCopy
       /\ dir = Merge(payload, Filled(payload, ToCopy \ todo))
  /\ pc = "commit" => dir = Merge(payload, DirFuncsForVolume(payload))
  /\ pc = "chown" \/ outcome = "ok" => live = Merge(payload, DirFuncsForVolume(payload))

\* Every step.
LEMMA NextDir ==
  ASSUME "read" \notin Faults, TypeInv, DirInv, [Next]_vars
  PROVE  DirInv'
  <1> USE DEF Goto, AfterWrite
  <1>1. (UNCHANGED payload) => ToCopy' = ToCopy
    BY DEF ToCopy, TopLevel
  <1>2. CASE UNCHANGED vars
    BY <1>1, <1>2 DEF vars, sourceVars, provisionVars, DirInv
  <1>3. CASE Fails
    BY <1>3 DEF Fails, Finish, DirInv
  <1>4. CASE start \/ (GetFiles /\ ~Fails) \/ (chownDataDir /\ ~Fails)
    <2>1. outcome' # "ok" /\ pc' \notin AfterWrite
      BY <1>4 DEF start, GetFiles, chownDataDir, TypeInv, provisionVars
    <2> QED BY <2>1 DEF DirInv
  <1>5. CASE Publish
    BY <1>5 DEF Publish, DirInv
  <1>6. CASE Change
    BY <1>1, <1>6 DEF Change, Update, provisionVars, DirInv
  <1>7. CASE writePayload /\ ~Fails
    BY <1>7 DEF writePayload, DirInv, TypeInv, sourceVars
  <1>8. CASE createBundle /\ ~Fails /\ pc = "bundle"
    <2>1. /\ pc' = "copy" /\ dir' = Merge(dir, [p \in {<<Bundle>>} |-> {}])
          /\ todo' = ToCopy /\ ToCopy' = ToCopy /\ dir = payload
          /\ UNCHANGED <<sourceVars, attr, payload, live, owned, outcome>> /\ outcome # "ok"
      BY <1>1, <1>8 DEF createBundle, ToCopy, TypeInv
    <2>2. BundleOf(payload, ToCopy \ todo') = {}
      BY <2>1 DEF BundleOf
    <2>3. dir' = Merge(payload, Filled(payload, ToCopy \ todo'))
      BY <2>1, <2>2 DEF Filled
    <2> QED BY <1>8, <2>1, <2>3 DEF DirInv, sourceVars
  <1>9. CASE createBundle /\ ~Fails /\ pc = "copy"
    <2>1. PICK p \in todo : /\ dir' = [dir EXCEPT ![<<Bundle>>] = @ \cup dir[p] \cup {Separator}]
                            /\ todo' = todo \ {p}
      BY <1>9 DEF createBundle, Fault
    <2>2. UNCHANGED <<sourceVars, pc, attr, payload, live, owned, outcome>> /\ ToCopy' = ToCopy
          /\ outcome # "ok"
      BY <1>1, <1>9 DEF createBundle, TypeInv
    <2>3. todo \subseteq ToCopy /\ dir = Merge(payload, Filled(payload, ToCopy \ todo))
      BY <1>9 DEF DirInv
    <2>4. dir[p] = payload[p]
      BY <2>1, <2>3 DEF Merge, Filled, ToCopy, TopLevel
    <2>5. ToCopy \ todo' = (ToCopy \ todo) \cup {p}
      BY <2>1, <2>3
    <2>6. [dir EXCEPT ![<<Bundle>>] = @ \cup payload[p] \cup {Separator}]
            = Merge(payload, Filled(payload, (ToCopy \ todo) \cup {p}))
      BY <2>3, FillOne
    <2>7. dir' = Merge(payload, Filled(payload, ToCopy \ todo'))
      BY <2>1, <2>4, <2>5, <2>6
    <2> QED BY <1>9, <2>1, <2>2, <2>3, <2>7 DEF DirInv, sourceVars
  <1>10. CASE rehash /\ ~Fails
    <2>1. /\ pc = "copy" /\ todo = {} /\ pc' = "commit" /\ dir' = Merge(dir, OpenSSLRehash(dir))
          /\ UNCHANGED <<sourceVars, attr, payload, todo, live, owned, outcome>> /\ outcome # "ok"
      BY <1>10 DEF rehash, TypeInv
    <2>2. Filled(payload, ToCopy \ todo) = CreateCABundle(payload)
      BY <2>1 DEF Filled, BundleOf, ToCopy, CreateCABundle
    <2>3. dir = Merge(payload, CreateCABundle(payload))
      BY <2>1, <2>2 DEF DirInv
    <2>4. dir' = Merge(payload, DirFuncsForVolume(payload))
      BY <2>1, <2>3, DirFuncsInTurn
    <2> QED BY <2>1, <2>4 DEF DirInv, sourceVars
  <1>11. CASE commit /\ ~Fails
    BY <1>11 DEF commit, DirInv, TypeInv, sourceVars
  <1>12. CASE chownFiles /\ ~Fails
    BY <1>12 DEF chownFiles, Finish, DirInv, sourceVars
  <1>13. createBundle => pc \in {"bundle", "copy"}
    BY DEF createBundle
  <1> QED BY <1>2, <1>3, <1>4, <1>5, <1>6, <1>7, <1>8, <1>9, <1>10, <1>11, <1>12, <1>13 DEF Next

(* A volume that was filled shows one version of the source, one there was   *)
(* while it was fetched: for any versions, tarballs, names and certificates, *)
(* and whatever others do to the source meanwhile.  The driver must be able  *)
(* to read back the files it has just written: createBundle does not notice  *)
(* when it cannot.                                                           *)
THEOREM OneVersion ==
  ASSUME "read" \notin Faults
  PROVE  Spec => []VolumeOfOneVersion
  <1>1. Init => FetchInv /\ DirInv
    BY DEF Init, FetchInv, DirInv, FetchSteps, AfterFetch, AfterWrite
  <1>2. TypeInv /\ FetchInv /\ DirInv /\ [Next]_vars => TypeInv' /\ FetchInv' /\ DirInv'
    BY NextType, NextFetch, NextDir
  <1>3. FetchInv /\ DirInv => VolumeOfOneVersion
    BY DEF FetchInv, DirInv, VolumeOfOneVersion
  <1> QED BY InitType, <1>1, <1>2, <1>3, PTL DEF Spec

=============================================================================
