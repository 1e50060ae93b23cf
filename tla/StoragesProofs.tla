--------------------------- MODULE StoragesProofs ---------------------------
(* Proofs about Storages: for any volumes, contexts, file names and payloads,*)
(* and any number of calls, where MemoryFS and Filesystem are alike and in   *)
(* which direction they differ.                                              *)
EXTENDS Storages, TLAPS

Empty == [n \in {} |-> {}]

\* The files of a volume of MemoryFS.
FilesOf(volume) == [n \in DOMAIN volume \ {MetadataFile} |-> volume[n]]

\* What a volume of Filesystem may show after these files were written.
Shown(files) == {Rendering(t) : t \in CleanPayloads(files)}

\* Metadata that can be read and belongs to the volume.
MemoryValid(s, v) == memRead(s, v) \in Metadata /\ memRead(s, v).id = v

\* A volume of Filesystem, which may have lost its metadata.
EntryOK(e, v) ==
  /\ e = [meta |-> e.meta, files |-> e.files]
  /\ e.meta = NoMetadata \/ (e.meta \in Metadata /\ e.meta.id = v)

DiskValid(d) == \A v \in DOMAIN d : EntryOK(d[v], v)

\* While there are managers each manages every volume there is, so that a volume
\* it writes to is a new one; a volume of Filesystem is one of MemoryFS, and one
\* of MemoryFS is one of Filesystem unless Filesystem returned an error for it.
\* Of a volume Filesystem could not remove only the shape is known.
StoresInv ==
  /\ DOMAIN memory \subseteq Volumes
  /\ DiskValid(disk)
  /\ \A v \in DOMAIN disk \ kept : disk[v].meta # NoMetadata
  /\ \A v \in DOMAIN memory \ shadowed : MemoryValid(memory, v)
  /\ running => memManaged = DOMAIN memory /\ diskManaged \ kept = DOMAIN disk \ kept
  /\ \A v \in DOMAIN disk \ (kept \cup shadowed) :
       v \in DOMAIN memory /\ memRead(memory, v) = disk[v].meta
  /\ \A v \in DOMAIN memory \cap Alike :
       v \in DOMAIN disk /\ disk[v].files \in Shown(FilesOf(memory[v]))

AnswersInv ==
  /\ memAnswer.volume \in Alike => memAnswer = diskAnswer
  /\ /\ diskAnswer.result = "ok" /\ diskAnswer.volume \notin kept \cup shadowed
     /\ running \/ shadowed = {}
     => memAnswer.result = "ok"

-----------------------------------------------------------------------------
(* The methods.                                                              *)

\* Metadata is made of the volume's id and the context.
LEMMA MetadataShape ==
  ASSUME NEW m \in Metadata
  PROVE  /\ m.id \in Volumes
         /\ m = [id |-> m.id, target |-> m.id, context |-> m.context]
         /\ m # NotFound /\ m # InvalidJSON /\ m # NoMetadata
  BY StoragesConstantsOK DEF Metadata

\* What was marshalled is read back.
LEMMA MarshalRoundTrip ==
  ASSUME NEW m \in Metadata
  PROVE  Mem!Unmarshal(Mem!Marshal(m)) = m
  BY DEF Mem!Unmarshal, Mem!Marshal

\* g is f with x at v.
Replaces(g, f, v, x) ==
  /\ DOMAIN g = DOMAIN f \cup {v}
  /\ g[v] = x
  /\ \A w \in DOMAIN f \ {v} : g[w] = f[w]

\* g and f differ at v at most.
Elsewhere(g, f, v) ==
  /\ DOMAIN g \ {v} = DOMAIN f \ {v}
  /\ \A w \in DOMAIN f \ {v} : g[w] = f[w]

\* MemoryFS puts a volume or a file into a map.
LEMMA PutReplaces ==
  ASSUME NEW s, NEW v, NEW a
  PROVE  Replaces(Mem!Put(s, v, a), s, v, a)
  BY DEF Replaces, Mem!Put

\* The metadata is put next to the files of a volume.
LEMMA PutMetadata ==
  ASSUME NEW s, NEW v, NEW volume, NEW m \in Metadata,
         Replaces(s, s, v, Mem!Put(volume, MetadataFile, Mem!Marshal(m)))
  PROVE  memRead(s, v) = m /\ FilesOf(s[v]) = FilesOf(volume)
  <1> DEFINE new == Mem!Put(volume, MetadataFile, Mem!Marshal(m))
  <1>1. Replaces(new, volume, MetadataFile, Mem!Marshal(m))
    BY PutReplaces
  <1>2. v \in DOMAIN s /\ s[v] = new
    BY DEF Replaces
  <1> HIDE DEF new
  <1>3. memRead(s, v) = m
    BY <1>1, <1>2, MarshalRoundTrip DEF memRead, Mem!ReadMetadata, Mem!HasMetadata, Replaces
  <1>4. FilesOf(new) = FilesOf(volume)
    BY <1>1 DEF FilesOf, Replaces
  <1> QED BY <1>2, <1>3, <1>4

\* What MemoryFS.RegisterMetadata does to its volume, and its answer.
MemRegistered(s, m, r) ==
  /\ Elsewhere(r.store, s, m.id)
  /\ m.id \notin DOMAIN s =>
       /\ r.answer = TRUE
       /\ r.store[m.id] = Mem!Put(Empty, MetadataFile, Mem!Marshal(m))
       /\ memRead(r.store, m.id) = m
  /\ m.id \in DOMAIN s /\ MemoryValid(s, m.id) =>
       /\ r.answer = (memRead(s, m.id) # m)
       /\ memRead(r.store, m.id) = m
       /\ FilesOf(r.store[m.id]) = FilesOf(s[m.id])
  /\ m.id \in DOMAIN r.store

LEMMA MemRegister ==
  ASSUME NEW s, NEW m \in Metadata, NEW r \in memRegister(s, m)
  PROVE  MemRegistered(s, m, r)
  <1> DEFINE v == m.id
             volume == IF v \in DOMAIN s THEN s[v] ELSE Empty
             put == Mem!Put(s, v, Mem!Put(volume, MetadataFile, Mem!Marshal(m)))
  <1>1. m = [id |-> v, target |-> v, context |-> m.context] /\ m # NotFound /\ m # InvalidJSON
    BY MetadataShape
  <1>2. r = IF Mem!ReadMetadata(s, v) = InvalidJSON THEN [store |-> s, answer |-> InvalidJSON]
            ELSE IF Mem!HasMetadata(s, v) /\ ~Mem!ContextChanged(s, m)
            THEN [store |-> s, answer |-> FALSE]
            ELSE [store |-> put, answer |-> TRUE]
    BY DEF memRegister, Mem!RegisterMetadata, Empty
  <1>3. /\ Replaces(put, s, v, Mem!Put(volume, MetadataFile, Mem!Marshal(m)))
        /\ memRead(put, v) = m /\ FilesOf(put[v]) = FilesOf(volume)
    <2>1. Replaces(put, s, v, Mem!Put(volume, MetadataFile, Mem!Marshal(m)))
      BY PutReplaces
    <2>2. Replaces(put, put, v, Mem!Put(volume, MetadataFile, Mem!Marshal(m)))
      <3> HIDE DEF put
      <3> QED BY <2>1 DEF Replaces
    <2> HIDE DEF put
    <2> QED BY <2>1, <2>2, PutMetadata
  <1> HIDE DEF put
  <1>4. CASE v \notin DOMAIN s
    <2>1. Mem!ReadMetadata(s, v) = NotFound /\ ~Mem!HasMetadata(s, v)
      BY <1>4 DEF Mem!ReadMetadata, Mem!HasMetadata
    <2>2. r = [store |-> put, answer |-> TRUE]
      BY <1>2, <2>1, StoragesConstantsOK
    <2> QED BY <1>3, <1>4, <2>2 DEF MemRegistered, Elsewhere, Replaces
  <1>5. CASE v \in DOMAIN s
    <2>1. Elsewhere(r.store, s, v) /\ v \in DOMAIN r.store
      BY <1>2, <1>3, <1>5 DEF Elsewhere, Replaces
    <2>2. ASSUME MemoryValid(s, v)
          PROVE  /\ r.answer = (memRead(s, v) # m) /\ memRead(r.store, v) = m
                 /\ FilesOf(r.store[v]) = FilesOf(s[v])
      <3> DEFINE old == memRead(s, v)
      <3>1. old \in Metadata /\ old.id = v /\ Mem!ReadMetadata(s, v) = old
        BY <2>2 DEF MemoryValid, memRead
      <3> HIDE DEF old
      <3>2. old = [id |-> v, target |-> v, context |-> old.context] /\ old # NotFound /\ old # InvalidJSON
        BY <3>1, MetadataShape
      <3>3. Mem!HasMetadata(s, v)
        BY <3>1, <3>2 DEF Mem!ReadMetadata
      <3>4. Mem!ContextChanged(s, m) <=> old # m
        BY <1>1, <3>1, <3>2 DEF Mem!ContextChanged
      <3>5. CASE old = m
        <4>1. r = [store |-> s, answer |-> FALSE]
          BY <1>2, <3>1, <3>2, <3>3, <3>4, <3>5
        <4> QED BY <4>1, <3>5 DEF old
      <3>6. CASE old # m
        <4>1. r = [store |-> put, answer |-> TRUE]
          BY <1>2, <3>1, <3>2, <3>3, <3>4, <3>6
        <4> QED BY <4>1, <1>3, <1>5, <3>6 DEF old
      <3> QED BY <3>5, <3>6
    <2> QED BY <1>5, <2>1, <2>2 DEF MemRegistered
  <1> QED BY <1>4, <1>5

\* What MemoryFS.WriteFiles does to a volume that holds the metadata alone.
MemWritten(s, m, files, w) ==
  /\ w.answer = TRUE
  /\ Elsewhere(w.store, s, m.id) /\ m.id \in DOMAIN w.store
  /\ MetadataFile \notin DOMAIN files =>
       memRead(w.store, m.id) = m /\ FilesOf(w.store[m.id]) = FilesOf(files)

LEMMA MemWrite ==
  ASSUME NEW s, NEW m \in Metadata, NEW files, NEW w \in memWrite(s, m, files),
         m.id \in DOMAIN s, s[m.id] = Mem!Put(Empty, MetadataFile, Mem!Marshal(m))
  PROVE  MemWritten(s, m, files, w)
  <1> DEFINE v == m.id
             new == Mem!AddFiles(s[v], files)
  <1>1. w = [store |-> Mem!Put(s, v, new), answer |-> TRUE]
    BY DEF memWrite, Mem!WriteFiles
  <1>2. Replaces(w.store, s, v, new)
    BY <1>1, PutReplaces
  <1>3. ASSUME MetadataFile \notin DOMAIN files
        PROVE  memRead(w.store, v) = m /\ FilesOf(w.store[v]) = FilesOf(files)
    <2>1. DOMAIN s[v] = {MetadataFile} /\ s[v][MetadataFile] = Mem!Marshal(m)
      BY DEF Mem!Put, Empty
    <2>2. /\ DOMAIN new = {MetadataFile} \cup DOMAIN files /\ new[MetadataFile] = Mem!Marshal(m)
          /\ \A n \in DOMAIN files : new[n] = files[n]
      BY <1>3, <2>1 DEF Mem!AddFiles
    <2>3. v \in DOMAIN w.store /\ w.store[v] = new
      BY <1>2 DEF Replaces
    <2> HIDE DEF new
    <2>4. memRead(w.store, v) = m
      BY <2>2, <2>3, MarshalRoundTrip DEF memRead, Mem!ReadMetadata, Mem!HasMetadata
    <2>5. FilesOf(new) = FilesOf(files)
      BY <1>3, <2>2 DEF FilesOf
    <2> QED BY <2>3, <2>4, <2>5
  <1> QED BY <1>1, <1>2, <1>3 DEF Replaces, Elsewhere, MemWritten

\* What Filesystem.RegisterMetadata does to its volume, and its answer.
DskRegistered(d, m, r) ==
  /\ Elsewhere(r.store, d, m.id)
  /\ m.id \in DOMAIN r.store => EntryOK(r.store[m.id], m.id)
  /\ r.answer \in BOOLEAN =>
       /\ r.answer = (m.id \in DOMAIN d => d[m.id].meta # m)
       /\ m.id \in DOMAIN r.store
       /\ r.store[m.id] = [meta |-> m, files |-> IF m.id \in DOMAIN d THEN d[m.id].files ELSE Empty]

\* New metadata and changed metadata come to the same, as only the context
\* changes.
LEMMA DskRegister ==
  ASSUME NEW d, DiskValid(d), NEW m \in Metadata, NEW r \in dskRegister(d, m)
  PROVE  DskRegistered(d, m, r)
  <1> DEFINE v == m.id
             made == Dsk!ensureVolumeDirectory(d, v)
             entry == IF v \in DOMAIN d THEN d[v] ELSE [meta |-> NoMetadata, files |-> Empty]
             existing == Dsk!ReadMetadata(d, v)
             written == IF existing = NotFound THEN m ELSE [existing EXCEPT !.context = m.context]
  <1>1. m = [id |-> v, target |-> v, context |-> m.context] /\ m # NotFound
    BY MetadataShape
  <1>2. Replaces(made, d, v, entry)
    BY DEF Replaces, Dsk!ensureVolumeDirectory, Dsk!NoFiles, Empty
  <1>3. existing # NotFound =>
          /\ v \in DOMAIN d /\ existing = d[v].meta /\ existing # NoMetadata
          /\ existing = [id |-> v, target |-> v, context |-> existing.context]
    <2>1. ASSUME existing # NotFound
          PROVE  v \in DOMAIN d /\ existing = d[v].meta /\ existing # NoMetadata
      BY <2>1 DEF Dsk!ReadMetadata
    <2> HIDE DEF existing
    <2>2. existing # NotFound => existing \in Metadata /\ existing.id = v
      BY <2>1 DEF DiskValid, EntryOK
    <2> QED BY <2>1, <2>2, MetadataShape
  <1>4. existing = NotFound => (v \in DOMAIN d => d[v].meta = NoMetadata)
    BY MetadataShape DEF Dsk!ReadMetadata, DiskValid, EntryOK
  <1>5. existing = [existing EXCEPT !.context = existing.context] \/ existing = NotFound
    <2> HIDE DEF existing
    <2> QED BY <1>3
  <1>6. written = m
    <2> HIDE DEF existing
    <2>1. CASE existing = NotFound
      BY <2>1
    <2>2. CASE existing # NotFound
      BY <1>1, <1>3, <2>2
    <2> QED BY <2>1, <2>2
  <1>7. r \in (IF existing = written THEN {[store |-> d, answer |-> FALSE]}
              ELSE {[store |-> Dsk!WriteMetadata(made, v, written), answer |-> TRUE],
                    [store |-> d, answer |-> Refused], [store |-> made, answer |-> Refused]})
    BY DEF dskRegister, Dsk!RegisterMetadata
  <1>8. EntryOK(entry, v) /\ (v \in DOMAIN d => entry = d[v])
        /\ entry.files = IF v \in DOMAIN d THEN d[v].files ELSE Empty
    BY DEF EntryOK, DiskValid
  <1>9. v \in DOMAIN d => EntryOK(d[v], v)
    BY DEF DiskValid
  <1> HIDE DEF made, entry, existing, written
  <1>10. Replaces(Dsk!WriteMetadata(made, v, m), d, v, [meta |-> m, files |-> entry.files])
    BY <1>2, <1>8 DEF Replaces, Dsk!WriteMetadata, EntryOK
  <1>11. EntryOK([meta |-> m, files |-> entry.files], v)
    BY DEF EntryOK
  <1>12. CASE r = [store |-> d, answer |-> FALSE] /\ existing = m
    BY <1>1, <1>3, <1>8, <1>9, <1>12 DEF DskRegistered, Elsewhere, EntryOK
  <1>13. CASE r = [store |-> Dsk!WriteMetadata(made, v, m), answer |-> TRUE] /\ existing # m
    <2>1. v \in DOMAIN d => d[v].meta # m
      BY <1>3, <1>4, <1>13, MetadataShape
    <2> QED BY <1>8, <1>10, <1>11, <1>13, <2>1 DEF DskRegistered, Elsewhere, Replaces
  <1>14. CASE r.answer = Refused /\ r.store \in {d, made}
    BY <1>2, <1>8, <1>9, <1>14, StoragesConstantsOK DEF DskRegistered, Elsewhere, Replaces
  <1> QED BY <1>6, <1>7, <1>12, <1>13, <1>14

\* The names of VolumeFiles, as FilesystemCalls sees them.
LEMMA RenderingSame ==
  ASSUME NEW t
  PROVE  Dsk!Rendering(t) = Rendering(t)
  BY DEF Dsk!Rendering, Rendering, Dsk!Merge, Merge, Dsk!DirFuncsForVolume, DirFuncsForVolume,
         Dsk!CreateCABundle, CreateCABundle, Dsk!OpenSSLRehash, OpenSSLRehash, Dsk!Rehash, Rehash,
         Dsk!TopLevel, TopLevel

LEMMA CleanPayloadsSame ==
  ASSUME NEW f
  PROVE  Dsk!CleanPayloads(f) = CleanPayloads(f)
  BY DEF Dsk!CleanPayloads, CleanPayloads, Dsk!Clean, Clean

\* What Filesystem.WriteFiles does to a volume that exists.
DskWritten(d, m, files, w) ==
  /\ Elsewhere(w.store, d, m.id) /\ m.id \in DOMAIN w.store
  /\ EntryOK(w.store[m.id], m.id)
  /\ w.answer \in {TRUE, Refused}
  /\ w.answer = TRUE =>
       \E x \in Shown(files) : w.store[m.id] = [meta |-> m, files |-> x]

LEMMA DskWrite ==
  ASSUME NEW d, NEW m \in Metadata, NEW files, NEW w \in dskWrite(d, m, files),
         m.id \in DOMAIN d, d[m.id] = [meta |-> m, files |-> d[m.id].files]
  PROVE  DskWritten(d, m, files, w)
  <1> DEFINE v == m.id
             made == Dsk!ensureVolumeDirectory(d, v)
             shown == IF Dsk!RefusesWrite(m, files) THEN {}
                      ELSE {Dsk!Rendering(t) : t \in Dsk!Writable(files)}
  <1>1. w \in {[store |-> Dsk!Commit(made, v, t), answer |-> a] :
                t \in shown, a \in {TRUE, Refused}} \cup {[store |-> made, answer |-> Refused]}
    BY DEF dskWrite, Dsk!WriteFiles
  <1>2. \A t \in shown : t \in Shown(files)
    <2>1. \A t \in Dsk!Writable(files) : t \in CleanPayloads(files)
      BY CleanPayloadsSame DEF Dsk!Writable
    <2> QED BY <2>1, RenderingSame DEF Shown
  <1>3. DOMAIN made = DOMAIN d /\ \A u \in DOMAIN d : made[u] = d[u]
    BY DEF Dsk!ensureVolumeDirectory
  <1> HIDE DEF made, shown
  <1>4. CASE w = [store |-> made, answer |-> Refused]
    <2>1. w.store[v] = d[v] /\ v \in DOMAIN w.store /\ Elsewhere(w.store, d, v)
      BY <1>3, <1>4 DEF Elsewhere
    <2>2. EntryOK(d[v], v)
      BY DEF EntryOK
    <2>3. w.answer = Refused /\ Refused # TRUE
      BY <1>4, StoragesConstantsOK
    <2> QED BY ONLY <2>1, <2>2, <2>3 DEF DskWritten
  <1>5. ASSUME NEW t \in shown, NEW a \in {TRUE, Refused},
               w = [store |-> Dsk!Commit(made, v, t), answer |-> a]
        PROVE  DskWritten(d, m, files, w)
    <2>1. w.store[v] = [meta |-> m, files |-> t] /\ v \in DOMAIN w.store /\ Elsewhere(w.store, d, v)
      BY <1>3, <1>5 DEF Elsewhere, Dsk!Commit
    <2>2. EntryOK([meta |-> m, files |-> t], v)
      BY DEF EntryOK
    <2>3. w.answer \in {TRUE, Refused} /\ t \in Shown(files)
      BY <1>2, <1>5
    <2> QED BY ONLY <2>1, <2>2, <2>3 DEF DskWritten
  <1> QED BY <1>1, <1>4, <1>5

\* RemoveVolume: MemoryFS removes the volume, Filesystem may leave some of it.
LEMMA MemRemove ==
  ASSUME NEW s, NEW v, NEW r \in memRemove(s, v)
  PROVE  Elsewhere(r.store, s, v) /\ v \notin DOMAIN r.store /\ r.answer = TRUE
  <1>1. r.store = [w \in DOMAIN s \ {v} |-> s[w]] /\ r.answer = TRUE
    BY DEF memRemove, Mem!RemoveVolume, Mem!Restrict
  <1> QED BY <1>1 DEF Elsewhere

DskRemoved(s, v, r) ==
  /\ Elsewhere(r.store, s, v)
  /\ v \in DOMAIN r.store => EntryOK(r.store[v], v)
  /\ v \notin DOMAIN r.store => r.answer = TRUE

LEMMA DskRemove ==
  ASSUME NEW s, NEW v, NEW r \in dskRemove(s, v), v \in DOMAIN s => EntryOK(s[v], v)
  PROVE  DskRemoved(s, v, r)
  <1> DEFINE gone == [store |-> Dsk!Restrict(s, DOMAIN s \ {v}), answer |-> TRUE]
  <1>1. r = gone \/ (v \in DOMAIN s /\ \E e \in Dsk!Remnants(s[v]) :
                        r = [store |-> [s EXCEPT ![v] = e], answer |-> Refused])
    BY DEF dskRemove, Dsk!RemoveVolume
  <1>2. CASE r = gone
    <2>1. r.store = [w \in DOMAIN s \ {v} |-> s[w]] /\ r.answer = TRUE
      BY <1>2 DEF Dsk!Restrict
    <2> QED BY <2>1 DEF DskRemoved, Elsewhere
  <1>3. ASSUME v \in DOMAIN s, NEW e \in Dsk!Remnants(s[v]),
               r = [store |-> [s EXCEPT ![v] = e], answer |-> Refused]
        PROVE  DskRemoved(s, v, r)
    <2>1. EntryOK(e, v)
      BY <1>3 DEF Dsk!Remnants, EntryOK
    <2> QED BY <1>3, <2>1 DEF DskRemoved, Elsewhere
  <1> QED BY <1>1, <1>2, <1>3

LEMMA ElsewhereTransitive ==
  ASSUME NEW f, NEW g, NEW h, NEW v, Elsewhere(f, g, v), Elsewhere(g, h, v)
  PROVE  Elsewhere(f, h, v)
  BY DEF Elsewhere

-----------------------------------------------------------------------------
(* A publish on each side.                                                   *)

\* On MemoryFS a volume that is there and can be read is left with the new
\* metadata, and one that is not is written unless the fetch fails.
MemPublished(m, files, fetched) ==
  LET v == m.id
  IN  /\ Elsewhere(memory', memory, v)
      /\ memManaged' = DOMAIN memory'
      /\ memAnswer'.volume = v
      /\ v \in DOMAIN memory /\ MemoryValid(memory, v) =>
           /\ memAnswer' = [volume |-> v, registered |-> memRead(memory, v) # m, result |-> "ok"]
           /\ v \in DOMAIN memory' /\ memRead(memory', v) = m
           /\ FilesOf(memory'[v]) = FilesOf(memory[v])
      /\ v \notin DOMAIN memory /\ ~fetched =>
           /\ memAnswer' = [volume |-> v, registered |-> TRUE, result |-> "fetch"]
           /\ v \notin DOMAIN memory'
      /\ v \notin DOMAIN memory /\ fetched =>
           /\ memAnswer' = [volume |-> v, registered |-> TRUE, result |-> "ok"]
           /\ v \in DOMAIN memory'
           /\ MetadataFile \notin DOMAIN files =>
                memRead(memory', v) = m /\ FilesOf(memory'[v]) = FilesOf(files)

LEMMA MemCleanup ==
  ASSUME NEW s, NEW v, NEW r, NEW e, memManaged = DOMAIN memory, Elsewhere(s, memory, v),
         OnMemory!cleanup(s, v, r, e)
  PROVE  /\ Elsewhere(memory', memory, v) /\ v \notin DOMAIN memory'
         /\ memManaged' = DOMAIN memory'
         /\ memAnswer' = [volume |-> v, registered |-> r, result |-> e]
  <1>1. PICK removed \in memRemove(s, v) :
          /\ memory' = removed.store /\ memManaged' = memManaged \ {v}
          /\ memAnswer' = [volume |-> v, registered |-> r, result |-> e]
    BY DEF OnMemory!cleanup, OnMemory!Answers
  <1>2. Elsewhere(memory', memory, v) /\ v \notin DOMAIN memory'
    BY <1>1, MemRemove, ElsewhereTransitive
  <1> QED BY <1>1, <1>2 DEF Elsewhere

LEMMA MemPublish ==
  ASSUME memManaged = DOMAIN memory, NEW m \in Metadata, NEW files, NEW fetched \in BOOLEAN,
         OnMemory!Publish(m, files, fetched)
  PROVE  MemPublished(m, files, fetched)
  <1> DEFINE v == m.id
  <1>1. PICK reg \in memRegister(memory, m) :
          \/ /\ reg.answer \notin BOOLEAN
             /\ OnMemory!cleanup(reg.store, v, reg.answer, "store")
          \/ /\ reg.answer \in BOOLEAN /\ v \in memManaged
             /\ memory' = reg.store /\ memManaged' = memManaged
             /\ OnMemory!Answers(v, reg.answer, "ok")
          \/ /\ reg.answer \in BOOLEAN /\ v \notin memManaged
             /\ ~IsMetadata(memRead(reg.store, v)) \/ ~fetched
             /\ OnMemory!cleanup(reg.store, v, reg.answer,
                  IF IsMetadata(memRead(reg.store, v)) THEN "fetch" ELSE "store")
          \/ /\ reg.answer \in BOOLEAN /\ v \notin memManaged
             /\ IsMetadata(memRead(reg.store, v)) /\ fetched
             /\ \E wrote \in memWrite(reg.store, memRead(reg.store, v), files) :
                  IF wrote.answer = TRUE
                  THEN /\ memory' = wrote.store /\ memManaged' = memManaged \cup {v}
                       /\ OnMemory!Answers(v, reg.answer, "ok")
                  ELSE OnMemory!cleanup(wrote.store, v, reg.answer, "store")
    BY DEF OnMemory!Publish
  <1>2. MemRegistered(memory, m, reg)
    BY MemRegister
  <1>3. Elsewhere(reg.store, memory, v) /\ v \in DOMAIN reg.store
    BY <1>2 DEF MemRegistered
  <1>4. CASE v \in DOMAIN memory
    <2>1. ASSUME reg.answer \notin BOOLEAN
          PROVE  MemPublished(m, files, fetched)
      <3>1. OnMemory!cleanup(reg.store, v, reg.answer, "store")
        BY <1>1, <2>1
      <3>2. ~MemoryValid(memory, v)
        BY <1>2, <1>4, <2>1 DEF MemRegistered
      <3>3. /\ Elsewhere(memory', memory, v) /\ v \notin DOMAIN memory'
            /\ memManaged' = DOMAIN memory' /\ memAnswer'.volume = v
        BY <1>3, <3>1, MemCleanup
      <3> QED BY <1>4, <3>2, <3>3 DEF MemPublished
    <2>2. ASSUME reg.answer \in BOOLEAN
          PROVE  MemPublished(m, files, fetched)
      <3>1. memory' = reg.store /\ memManaged' = memManaged
            /\ memAnswer' = [volume |-> v, registered |-> reg.answer, result |-> "ok"]
        BY <1>1, <1>4, <2>2 DEF OnMemory!Answers
      <3> QED BY <1>2, <1>3, <1>4, <3>1 DEF MemPublished, MemRegistered, Elsewhere
    <2> QED BY <2>1, <2>2
  <1>5. CASE v \notin DOMAIN memory
    <2>1. reg.answer = TRUE /\ reg.store[v] = Mem!Put(Empty, MetadataFile, Mem!Marshal(m))
          /\ memRead(reg.store, v) = m /\ IsMetadata(m)
      BY <1>2, <1>5 DEF MemRegistered, IsMetadata
    <2>2. CASE ~fetched
      <3>1. OnMemory!cleanup(reg.store, v, TRUE, "fetch")
        BY <1>1, <1>5, <2>1, <2>2
      <3>2. /\ Elsewhere(memory', memory, v) /\ v \notin DOMAIN memory'
            /\ memManaged' = DOMAIN memory'
            /\ memAnswer' = [volume |-> v, registered |-> TRUE, result |-> "fetch"]
        BY <1>3, <3>1, MemCleanup
      <3> QED BY <1>5, <2>2, <3>2 DEF MemPublished
    <2>3. CASE fetched
      <3>1. PICK wrote \in memWrite(reg.store, m, files) :
              IF wrote.answer = TRUE
              THEN /\ memory' = wrote.store /\ memManaged' = memManaged \cup {v}
                   /\ OnMemory!Answers(v, TRUE, "ok")
              ELSE OnMemory!cleanup(wrote.store, v, TRUE, "store")
        BY <1>1, <1>5, <2>1, <2>3
      <3>2. MemWritten(reg.store, m, files, wrote)
        BY <1>3, <2>1, MemWrite
      <3>3. memory' = wrote.store /\ memManaged' = memManaged \cup {v}
            /\ memAnswer' = [volume |-> v, registered |-> TRUE, result |-> "ok"]
        BY <3>1, <3>2 DEF OnMemory!Answers, MemWritten
      <3>4. Elsewhere(memory', memory, v)
        BY <1>3, <3>2, <3>3, ElsewhereTransitive DEF MemWritten
      <3>5. memManaged' = DOMAIN memory'
        BY <3>2, <3>3, <3>4 DEF Elsewhere, MemWritten
      <3> QED BY <1>5, <2>3, <3>2, <3>3, <3>4, <3>5 DEF MemPublished, MemWritten
    <2> QED BY <2>2, <2>3
  <1> QED BY <1>4, <1>5

\* On Filesystem an error removes the volume or some of it.  More is known when
\* the volume is managed or was not there.
DskPublished(m, files, fetched) ==
  LET v == m.id
      r == diskAnswer'
  IN  /\ Elsewhere(disk', disk, v)
      /\ diskManaged' \ {v} = diskManaged \ {v}
      /\ v \in DOMAIN disk' => EntryOK(disk'[v], v)
      /\ r = [volume |-> v, registered |-> r.registered, result |-> r.result]
      /\ r.result = "ok" => v \in diskManaged' /\ v \in DOMAIN disk' /\ disk'[v].meta = m
      /\ r.result # "ok" => v \notin diskManaged'
      /\ (v \in diskManaged <=> v \in DOMAIN disk) =>
           /\ r.result = "ok" =>
                /\ r.registered = (v \in DOMAIN disk => disk[v].meta # m)
                /\ v \in DOMAIN disk => disk'[v].files = disk[v].files
                /\ v \notin DOMAIN disk => fetched /\ disk'[v].files \in Shown(files)
           /\ r.result \notin {"ok", "store"} =>
                /\ r.registered = TRUE /\ r.result = "fetch"
                /\ v \notin DOMAIN disk /\ ~fetched

LEMMA DskCleanup ==
  ASSUME NEW s, NEW v, NEW r, NEW e, Elsewhere(s, disk, v), v \in DOMAIN s => EntryOK(s[v], v),
         OnDisk!cleanup(s, v, r, e)
  PROVE  /\ Elsewhere(disk', disk, v)
         /\ v \in DOMAIN disk' => EntryOK(disk'[v], v)
         /\ diskManaged' = diskManaged \ {v}
         /\ diskAnswer' = [volume |-> v, registered |-> r, result |-> e]
  <1>1. PICK removed \in dskRemove(s, v) :
          /\ disk' = removed.store /\ diskManaged' = diskManaged \ {v}
          /\ diskAnswer' = [volume |-> v, registered |-> r, result |-> e]
    BY DEF OnDisk!cleanup, OnDisk!Answers
  <1>2. DskRemoved(s, v, removed)
    BY DskRemove
  <1> QED BY <1>1, <1>2, ElsewhereTransitive DEF DskRemoved

LEMMA DskPublish ==
  ASSUME DiskValid(disk),
         NEW m \in Metadata, NEW files, NEW fetched \in BOOLEAN,
         OnDisk!Publish(m, files, fetched)
  PROVE  DskPublished(m, files, fetched)
  <1> DEFINE v == m.id
  <1>1. PICK reg \in dskRegister(disk, m) :
          \/ /\ reg.answer \notin BOOLEAN
             /\ OnDisk!cleanup(reg.store, v, reg.answer, "store")
          \/ /\ reg.answer \in BOOLEAN /\ v \in diskManaged
             /\ disk' = reg.store /\ diskManaged' = diskManaged
             /\ OnDisk!Answers(v, reg.answer, "ok")
          \/ /\ reg.answer \in BOOLEAN /\ v \notin diskManaged
             /\ ~IsMetadata(dskRead(reg.store, v)) \/ ~fetched
             /\ OnDisk!cleanup(reg.store, v, reg.answer,
                  IF IsMetadata(dskRead(reg.store, v)) THEN "fetch" ELSE "store")
          \/ /\ reg.answer \in BOOLEAN /\ v \notin diskManaged
             /\ IsMetadata(dskRead(reg.store, v)) /\ fetched
             /\ \E wrote \in dskWrite(reg.store, dskRead(reg.store, v), files) :
                  IF wrote.answer = TRUE
                  THEN /\ disk' = wrote.store /\ diskManaged' = diskManaged \cup {v}
                       /\ OnDisk!Answers(v, reg.answer, "ok")
                  ELSE OnDisk!cleanup(wrote.store, v, reg.answer, "store")
    BY DEF OnDisk!Publish
  <1>2. DskRegistered(disk, m, reg)
    BY DskRegister
  <1>3. Elsewhere(reg.store, disk, v) /\ (v \in DOMAIN reg.store => EntryOK(reg.store[v], v))
    BY <1>2 DEF DskRegistered
  <1>4. ASSUME NEW s, NEW a, Elsewhere(s, disk, v), v \in DOMAIN s => EntryOK(s[v], v),
               OnDisk!cleanup(s, v, a, "store")
        PROVE  DskPublished(m, files, fetched)
    <2>1. /\ Elsewhere(disk', disk, v) /\ (v \in DOMAIN disk' => EntryOK(disk'[v], v))
          /\ diskManaged' = diskManaged \ {v}
          /\ diskAnswer' = [volume |-> v, registered |-> a, result |-> "store"]
      BY <1>4, DskCleanup
    <2> QED BY ONLY <2>1 DEF DskPublished
  <1>5. CASE reg.answer \notin BOOLEAN
    BY <1>1, <1>3, <1>4, <1>5
  <1>6. CASE reg.answer \in BOOLEAN /\ v \in diskManaged
    <2>1. disk' = reg.store /\ diskManaged' = diskManaged
          /\ diskAnswer' = [volume |-> v, registered |-> reg.answer, result |-> "ok"]
      BY <1>1, <1>6 DEF OnDisk!Answers
    <2>2. v \in DOMAIN disk' /\ disk'[v].meta = m
          /\ (v \in DOMAIN disk => disk'[v].files = disk[v].files)
      BY <1>2, <1>6, <2>1 DEF DskRegistered
    <2>3. reg.answer = (v \in DOMAIN disk => disk[v].meta # m)
      BY <1>2, <1>6 DEF DskRegistered
    <2>4. /\ diskAnswer'.registered = reg.answer /\ diskAnswer'.result = "ok"
          /\ diskAnswer' = [volume |-> v, registered |-> diskAnswer'.registered, result |-> diskAnswer'.result]
      BY <2>1
    <2>5. Elsewhere(disk', disk, v) /\ EntryOK(disk'[v], v) /\ v \in diskManaged'
          /\ v \in diskManaged /\ diskManaged' \ {v} = diskManaged \ {v}
      BY <1>3, <1>6, <2>1, <2>2
    <2> QED BY ONLY <2>2, <2>3, <2>4, <2>5 DEF DskPublished
  <1>7. CASE reg.answer \in BOOLEAN /\ v \notin diskManaged
    <2>1. v \in DOMAIN reg.store /\ reg.store[v] = [meta |-> m, files |-> reg.store[v].files]
          /\ (v \notin DOMAIN disk => reg.answer = TRUE)
      BY <1>2, <1>7 DEF DskRegistered
    <2>2. dskRead(reg.store, v) = m /\ IsMetadata(m)
      BY <2>1, MetadataShape DEF dskRead, Dsk!ReadMetadata, IsMetadata
    <2>3. CASE ~fetched
      <3>1. OnDisk!cleanup(reg.store, v, reg.answer, "fetch")
        BY <1>1, <1>7, <2>2, <2>3
      <3>2. /\ Elsewhere(disk', disk, v) /\ (v \in DOMAIN disk' => EntryOK(disk'[v], v))
            /\ diskManaged' = diskManaged \ {v}
            /\ diskAnswer' = [volume |-> v, registered |-> reg.answer, result |-> "fetch"]
        BY <1>3, <3>1, DskCleanup
      <3> QED BY ONLY <1>7, <2>1, <2>3, <3>2 DEF DskPublished
    <2>4. CASE fetched
      <3>1. PICK wrote \in dskWrite(reg.store, m, files) :
              IF wrote.answer = TRUE
              THEN /\ disk' = wrote.store /\ diskManaged' = diskManaged \cup {v}
                   /\ OnDisk!Answers(v, reg.answer, "ok")
              ELSE OnDisk!cleanup(wrote.store, v, reg.answer, "store")
        BY <1>1, <1>7, <2>2, <2>4
      <3>2. DskWritten(reg.store, m, files, wrote)
        BY <2>1, DskWrite
      <3>3. Elsewhere(wrote.store, disk, v) /\ v \in DOMAIN wrote.store /\ EntryOK(wrote.store[v], v)
        BY <1>3, <3>2, ElsewhereTransitive DEF DskWritten
      <3>4. CASE wrote.answer # TRUE
        BY <1>4, <3>1, <3>3, <3>4
      <3>5. CASE wrote.answer = TRUE
        <4>1. disk' = wrote.store /\ diskManaged' = diskManaged \cup {v}
              /\ diskAnswer' = [volume |-> v, registered |-> reg.answer, result |-> "ok"]
          BY <3>1, <3>5 DEF OnDisk!Answers
        <4>2. PICK x \in Shown(files) : disk'[v] = [meta |-> m, files |-> x]
          BY <3>2, <3>5, <4>1 DEF DskWritten
        <4>3. disk'[v].files \in Shown(files) /\ disk'[v].meta = m
          BY <4>2
        <4>4. /\ diskAnswer'.registered = reg.answer /\ diskAnswer'.result = "ok"
              /\ diskAnswer' = [volume |-> v, registered |-> diskAnswer'.registered, result |-> diskAnswer'.result]
          BY <4>1
        <4>5. Elsewhere(disk', disk, v) /\ v \in DOMAIN disk' /\ EntryOK(disk'[v], v)
          BY <3>3, <4>1
        <4>6. v \in diskManaged' /\ v \notin diskManaged /\ diskManaged' \ {v} = diskManaged \ {v}
          BY <1>7, <4>1
        <4>7. v \notin DOMAIN disk => reg.answer = TRUE
          BY <2>1
        <4> QED BY ONLY <2>4, <4>3, <4>4, <4>5, <4>6, <4>7 DEF DskPublished
      <3> QED BY <3>4, <3>5
    <2> QED BY <2>3, <2>4
  <1> QED BY <1>5, <1>6, <1>7

-----------------------------------------------------------------------------
(* The two together.                                                         *)

\* The metadata of the other volumes is what it was.
LEMMA ReadElsewhere ==
  ASSUME NEW s, NEW t, NEW v, Elsewhere(t, s, v), NEW w, w # v
  PROVE  memRead(t, w) = memRead(s, w)
  BY DEF Elsewhere, memRead, Mem!ReadMetadata, Mem!HasMetadata

\* A payload without a metadata.json is all files.
LEMMA FilesOfPayload ==
  ASSUME NEW f, IsFileTree(f), MetadataFile \notin DOMAIN f
  PROVE  FilesOf(f) = f
  BY DEF FilesOf, IsFileTree

\* A step that is about one volume need only be looked at there.
OneVolume(v) ==
  /\ v \in Volumes
  /\ Elsewhere(memory', memory, v) /\ Elsewhere(disk', disk, v)
  /\ refused' \ {v} = refused \ {v} /\ shadowed' \ {v} = shadowed \ {v}
  /\ kept' \ {v} = kept \ {v} /\ diskManaged' \ {v} = diskManaged \ {v}
  /\ running /\ running' /\ memManaged' = DOMAIN memory'

VolumeInv(v) ==
  /\ v \in DOMAIN disk => EntryOK(disk[v], v)
  /\ v \in DOMAIN disk \ kept => disk[v].meta # NoMetadata
  /\ v \notin kept => (v \in diskManaged <=> v \in DOMAIN disk)
  /\ v \in DOMAIN memory \ shadowed => MemoryValid(memory, v)
  /\ v \in DOMAIN disk \ (kept \cup shadowed) =>
       v \in DOMAIN memory /\ memRead(memory, v) = disk[v].meta
  /\ v \in DOMAIN memory \cap Alike =>
       v \in DOMAIN disk /\ disk[v].files \in Shown(FilesOf(memory[v]))

LEMMA OneVolumeInv ==
  ASSUME StoresInv, NEW v, OneVolume(v), VolumeInv(v)'
  PROVE  StoresInv'
  <1>1. DOMAIN memory' \subseteq Volumes
    BY DEF StoresInv, OneVolume, Elsewhere
  <1>2. ASSUME NEW w, w # v
        PROVE  /\ w \in DOMAIN memory' <=> w \in DOMAIN memory
               /\ w \in DOMAIN memory => memory'[w] = memory[w]
               /\ w \in DOMAIN disk' <=> w \in DOMAIN disk
               /\ w \in DOMAIN disk => disk'[w] = disk[w]
               /\ w \in shadowed' <=> w \in shadowed
               /\ w \in kept' <=> w \in kept
               /\ w \in diskManaged' <=> w \in diskManaged
               /\ w \in Alike' <=> w \in Alike
               /\ memRead(memory', w) = memRead(memory, w)
    <2>1. memRead(memory', w) = memRead(memory, w)
      BY <1>2, ReadElsewhere DEF OneVolume
    <2> QED BY <1>2, <2>1 DEF OneVolume, Elsewhere, Alike
  <1>3. ASSUME NEW w \in DOMAIN disk'
        PROVE  EntryOK(disk'[w], w) /\ (w \notin kept' => disk'[w].meta # NoMetadata)
    <2>1. CASE w = v
      BY <2>1 DEF VolumeInv
    <2>2. CASE w # v
      BY <2>2, <1>2 DEF StoresInv, DiskValid
    <2> QED BY <2>1, <2>2
  <1>4. ASSUME NEW w \in DOMAIN memory' \ shadowed'
        PROVE  MemoryValid(memory', w)
    <2>1. CASE w = v
      BY <2>1, <1>4 DEF VolumeInv
    <2>2. CASE w # v
      BY <2>2, <1>2, <1>4 DEF StoresInv, MemoryValid
    <2> QED BY <2>1, <2>2
  <1>5. ASSUME NEW w \in DOMAIN disk' \ (kept' \cup shadowed')
        PROVE  w \in DOMAIN memory' /\ memRead(memory', w) = disk'[w].meta
    <2>1. CASE w = v
      BY <2>1, <1>5 DEF VolumeInv
    <2>2. CASE w # v
      BY <2>2, <1>2, <1>5 DEF StoresInv
    <2> QED BY <2>1, <2>2
  <1>6. ASSUME NEW w \in DOMAIN memory' \cap Alike'
        PROVE  w \in DOMAIN disk' /\ disk'[w].files \in Shown(FilesOf(memory'[w]))
    <2>1. CASE w = v
      BY <2>1, <1>6 DEF VolumeInv
    <2>2. CASE w # v
      BY <2>2, <1>2, <1>6 DEF StoresInv
    <2> QED BY <2>1, <2>2
  <1>7. diskManaged' \ kept' = DOMAIN disk' \ kept'
    <2> SUFFICES ASSUME NEW w, w \notin kept'
                 PROVE  w \in diskManaged' <=> w \in DOMAIN disk'
      OBVIOUS
    <2>1. CASE w = v
      BY <2>1 DEF VolumeInv
    <2>2. CASE w # v
      BY <2>2, <1>2 DEF StoresInv, OneVolume
    <2> QED BY <2>1, <2>2
  <1> QED BY <1>1, <1>3, <1>4, <1>5, <1>6, <1>7 DEF StoresInv, DiskValid, OneVolume

\* Publish.
LEMMA PublishInv ==
  ASSUME StoresInv, Publish
  PROVE  StoresInv' /\ AnswersInv'
  <1> PICK q \in Requests, fetched \in BOOLEAN :
             /\ OnMemory!Publish(q.meta, q.files, fetched)
             /\ OnDisk!Publish(q.meta, q.files, fetched)
             /\ refused' = IF diskAnswer'.result = "store" THEN refused \cup {q.meta.id} ELSE refused
             /\ kept' = IF diskAnswer'.result # "ok" /\ q.meta.id \in DOMAIN disk'
                        THEN kept \cup {q.meta.id} ELSE kept
             /\ shadowed' = IF q.meta.id \notin memManaged /\ fetched /\ MetadataFile \in DOMAIN q.files
                            THEN shadowed \cup {q.meta.id} ELSE shadowed
    BY DEF Publish
  <1> DEFINE m == q.meta
             files == q.files
             v == m.id
             r == diskAnswer'.result
  <1>0. m \in Metadata /\ IsFileTree(files)
    BY StoragesConstantsOK
  <1>1. /\ running /\ running' /\ memManaged = DOMAIN memory /\ DiskValid(disk)
        /\ diskManaged \ kept = DOMAIN disk \ kept
    BY DEF Publish, StoresInv
  <1>2. MemPublished(m, files, fetched)
    BY <1>0, <1>1, MemPublish
  <1>3. DskPublished(m, files, fetched)
    BY <1>0, <1>1, DskPublish
  <1>4. v \in Volumes /\ m # NoMetadata
    BY <1>0, MetadataShape
  <1>5. OneVolume(v)
    BY <1>1, <1>2, <1>3, <1>4 DEF OneVolume, MemPublished, DskPublished
  <1>6. /\ v \notin shadowed' => v \notin shadowed
        /\ v \notin kept' => v \notin kept /\ (v \in diskManaged <=> v \in DOMAIN disk)
    BY <1>1
  <1>7. v \in DOMAIN memory /\ v \notin shadowed' => MemoryValid(memory, v)
    BY <1>6 DEF StoresInv
  <1>8. v \in DOMAIN disk /\ v \notin kept' \cup shadowed' =>
          v \in DOMAIN memory /\ memRead(memory, v) = disk[v].meta
    BY <1>6 DEF StoresInv
  <1>9. v \notin DOMAIN memory /\ v \notin shadowed' /\ fetched => MetadataFile \notin DOMAIN files
    BY <1>1
  <1>10. v \in Alike' => v \in Alike /\ v \notin shadowed' /\ v \notin kept' /\ r # "store"
    BY DEF Alike
  <1>11. v \in DOMAIN memory /\ v \in Alike' =>
           v \in DOMAIN disk /\ disk[v].files \in Shown(FilesOf(memory[v]))
    BY <1>10 DEF StoresInv
  <1>12. v \in DOMAIN memory' \ shadowed' => memRead(memory', v) = m
    BY <1>2, <1>7, <1>9 DEF MemPublished
  <1>13. r = "ok" /\ v \notin kept' \cup shadowed' => v \in DOMAIN memory' /\ memAnswer'.result = "ok"
    BY <1>2, <1>3, <1>6, <1>7, <1>8 DEF MemPublished, DskPublished
  <1>14. /\ v \in DOMAIN disk' => EntryOK(disk'[v], v)
         /\ v \in DOMAIN disk' \ kept' => r = "ok" /\ disk'[v].meta = m
         /\ v \notin kept' => (v \in diskManaged' <=> v \in DOMAIN disk')
    BY <1>3 DEF DskPublished
  <1>15. v \in DOMAIN memory' /\ v \in Alike' =>
           v \in DOMAIN disk' /\ disk'[v].files \in Shown(FilesOf(memory'[v]))
    <2> SUFFICES ASSUME v \in DOMAIN memory', v \in Alike'
                 PROVE  v \in DOMAIN disk' /\ disk'[v].files \in Shown(FilesOf(memory'[v]))
      OBVIOUS
    <2>1. CASE v \in DOMAIN memory
      <3>1. FilesOf(memory'[v]) = FilesOf(memory[v])
        BY <1>2, <1>7, <1>10, <2>1 DEF MemPublished
      <3>2. v \in DOMAIN disk /\ disk[v].files \in Shown(FilesOf(memory[v]))
        BY <1>11, <2>1
      <3>3. r = "ok" /\ v \in DOMAIN disk' /\ disk'[v].files = disk[v].files
        BY <1>3, <1>6, <1>10, <3>2 DEF DskPublished
      <3> QED BY <3>1, <3>2, <3>3
    <2>2. CASE v \notin DOMAIN memory
      <3>1. fetched /\ v \notin DOMAIN disk
        BY <1>2, <1>8, <1>10, <2>2 DEF MemPublished
      <3>2. FilesOf(memory'[v]) = files
        BY <1>0, <1>2, <1>9, <1>10, <2>2, <3>1, FilesOfPayload DEF MemPublished
      <3>3. r = "ok"
        BY <1>3, <1>6, <1>10, <3>1 DEF DskPublished
      <3>4. v \in DOMAIN disk' /\ disk'[v].files \in Shown(files)
        BY <1>3, <1>6, <1>10, <3>1, <3>3 DEF DskPublished
      <3> QED BY <3>2, <3>4
    <2> QED BY <2>1, <2>2
  <1>16. StoresInv'
    <2>1. VolumeInv(v)'
      BY <1>0, <1>4, <1>12, <1>13, <1>14, <1>15 DEF VolumeInv, MemoryValid
    <2> QED BY <1>5, <2>1, OneVolumeInv
  <1>17. memAnswer'.volume \in Alike' => memAnswer' = diskAnswer'
    <2> SUFFICES ASSUME v \in Alike'
                 PROVE  memAnswer' = diskAnswer'
      BY <1>2 DEF MemPublished
    <2>1. CASE v \in DOMAIN memory
      <3>1. memAnswer' = [volume |-> v, registered |-> memRead(memory, v) # m, result |-> "ok"]
        BY <1>2, <1>7, <1>10, <2>1 DEF MemPublished
      <3>2. v \in DOMAIN disk /\ memRead(memory, v) = disk[v].meta
        BY <1>8, <1>10, <1>11, <2>1
      <3>3. diskAnswer' = [volume |-> v, registered |-> disk[v].meta # m, result |-> "ok"]
        <4>1. r = "ok" /\ diskAnswer'.registered = (disk[v].meta # m)
          BY <1>3, <1>6, <1>10, <3>2 DEF DskPublished
        <4> QED BY <1>3, <4>1 DEF DskPublished
      <3> QED BY <3>1, <3>2, <3>3
    <2>2. CASE v \notin DOMAIN memory
      <3>1. v \notin DOMAIN disk
        BY <1>8, <1>10, <2>2
      <3>2. CASE fetched
        <4>1. memAnswer' = [volume |-> v, registered |-> TRUE, result |-> "ok"]
          BY <1>2, <2>2, <3>2 DEF MemPublished
        <4>2. r = "ok" /\ diskAnswer'.registered = TRUE
          BY <1>3, <1>6, <1>10, <3>1, <3>2 DEF DskPublished
        <4> QED BY <1>3, <4>1, <4>2 DEF DskPublished
      <3>3. CASE ~fetched
        <4>1. memAnswer' = [volume |-> v, registered |-> TRUE, result |-> "fetch"]
          BY <1>2, <2>2, <3>3 DEF MemPublished
        <4>2. r = "fetch" /\ diskAnswer'.registered = TRUE
          BY <1>3, <1>6, <1>10, <3>1, <3>3 DEF DskPublished
        <4> QED BY <1>3, <4>1, <4>2 DEF DskPublished
      <3> QED BY <3>2, <3>3
    <2> QED BY <2>1, <2>2
  <1>18. AnswersInv'
    <2>1. diskAnswer'.volume = v
      BY <1>3 DEF DskPublished
    <2> QED BY <1>13, <1>17, <2>1 DEF AnswersInv, Alike
  <1> QED BY <1>16, <1>18

\* Unpublish.
LEMMA UnpublishInv ==
  ASSUME StoresInv, Unpublish
  PROVE  StoresInv' /\ AnswersInv'
  <1>1. PICK v \in Volumes :
          /\ OnMemory!Unpublish(v) /\ OnDisk!Unpublish(v)
          /\ refused' = refused \ {v} /\ shadowed' = shadowed \ {v}
          /\ kept' = IF v \in DOMAIN disk' THEN kept \cup {v} ELSE kept \ {v}
    BY DEF Unpublish
  <1>2. PICK gone \in memRemove(memory, v) :
          /\ memory' = gone.store /\ memManaged' = memManaged \ {v}
          /\ memAnswer' = [volume |-> v, registered |-> FALSE,
                           result |-> IF gone.answer = TRUE THEN "ok" ELSE "store"]
    BY <1>1 DEF OnMemory!Unpublish, OnMemory!Answers
  <1>3. PICK removed \in dskRemove(disk, v) :
          /\ disk' = removed.store /\ diskManaged' = diskManaged \ {v}
          /\ diskAnswer' = [volume |-> v, registered |-> FALSE,
                            result |-> IF removed.answer = TRUE THEN "ok" ELSE "store"]
    BY <1>1 DEF OnDisk!Unpublish, OnDisk!Answers
  <1>4. /\ Elsewhere(memory', memory, v) /\ v \notin DOMAIN memory'
        /\ memAnswer' = [volume |-> v, registered |-> FALSE, result |-> "ok"]
    BY <1>2, MemRemove
  <1>5. DskRemoved(disk, v, removed)
    BY DskRemove DEF StoresInv, DiskValid
  <1>6. OneVolume(v)
    <2>1. running /\ running' /\ memManaged = DOMAIN memory
      BY DEF StoresInv, Unpublish
    <2>2. memManaged' = DOMAIN memory' /\ diskManaged' \ {v} = diskManaged \ {v}
      BY <1>2, <1>3, <1>4, <2>1 DEF Elsewhere
    <2> QED BY <1>1, <1>3, <1>4, <1>5, <2>1, <2>2 DEF OneVolume, DskRemoved
  <1>7. VolumeInv(v)'
    BY <1>1, <1>3, <1>4, <1>5 DEF VolumeInv, DskRemoved
  <1>8. AnswersInv'
    <2>1. v \notin kept' => diskAnswer' = [volume |-> v, registered |-> FALSE, result |-> "ok"]
      BY <1>1, <1>3, <1>5 DEF DskRemoved
    <2> QED BY <1>4, <2>1 DEF AnswersInv, Alike
  <1> QED BY <1>6, <1>7, <1>8, OneVolumeInv

\* NewManager.
LEMMA NewManagerInv ==
  ASSUME StoresInv, NewManager
  PROVE  StoresInv' /\ AnswersInv'
  <1>1. /\ UNCHANGED <<memory, disk, refused, kept, shadowed>>
        /\ memManaged' = IF OnMemory!Starts THEN memList(memory) ELSE {}
        /\ diskManaged' = IF OnDisk!Starts THEN dskList(disk) ELSE {}
        /\ running' = (OnMemory!Starts /\ OnDisk!Starts)
        /\ memAnswer'.volume = NoVolume
        /\ memAnswer'.result = (IF OnMemory!Starts THEN "ok" ELSE "store")
    BY DEF NewManager, OnMemory!NewManager, OnDisk!NewManager, OnMemory!Answers, OnDisk!Answers
  <1>2. memList(memory) = DOMAIN memory
    BY DEF memList, Mem!ListVolumes
  <1>3. OnDisk!Starts => dskList(disk) = DOMAIN disk
    BY DEF OnDisk!Starts, dskList, Dsk!ListVolumes
  <1>4. running' => memManaged' = DOMAIN memory' /\ diskManaged' = DOMAIN disk'
    BY <1>1, <1>2, <1>3
  <1>5. StoresInv'
    BY <1>1, <1>4 DEF StoresInv, Alike
  <1>6. shadowed = {} => OnMemory!Starts
    BY <1>2, StoragesConstantsOK DEF OnMemory!Starts, StoresInv, MemoryValid, IsMetadata
  <1>7. NoVolume \notin Alike'
    BY StoragesConstantsOK DEF Alike
  <1>8. AnswersInv'
    BY <1>1, <1>6, <1>7 DEF AnswersInv
  <1> QED BY <1>5, <1>8

\* Every step.
LEMMA StoresNext ==
  ASSUME StoresInv, AnswersInv, [Next]_vars
  PROVE  StoresInv' /\ AnswersInv'
  <1>1. CASE UNCHANGED vars
    BY <1>1 DEF vars, StoresInv, AnswersInv, Alike
  <1>2. CASE Publish
    BY <1>2, PublishInv
  <1>3. CASE Unpublish
    BY <1>3, UnpublishInv
  <1>4. CASE Stop
    <2>1. UNCHANGED <<memory, disk, refused, kept, shadowed>> /\ ~running'
          /\ memAnswer' = [volume |-> NoVolume, registered |-> FALSE, result |-> "ok"]
          /\ diskAnswer' = [volume |-> NoVolume, registered |-> FALSE, result |-> "ok"]
      BY <1>4 DEF Stop, OnMemory!Stop, OnDisk!Stop, OnMemory!Answers, OnDisk!Answers
    <2>2. StoresInv'
      BY <2>1 DEF StoresInv, Alike
    <2> QED BY <2>1, <2>2 DEF AnswersInv
  <1>5. CASE NewManager
    BY <1>5, NewManagerInv
  <1> QED BY <1>1, <1>2, <1>3, <1>4, <1>5 DEF Next

\* Every state.
LEMMA StoresAlways == Spec => [](StoresInv /\ AnswersInv)
  <1>1. Init => StoresInv /\ AnswersInv
    BY DEF Init, StoresInv, AnswersInv, DiskValid, Mem!NewMemoryFS, Dsk!NewFilesystem, NoAnswer
  <1>2. StoresInv /\ AnswersInv /\ [Next]_vars => (StoresInv /\ AnswersInv)'
    BY StoresNext
  <1> QED BY <1>1, <1>2, PTL DEF Spec

(* Whatever calls are made, one after the other, and whatever Filesystem     *)
(* fails at: a volume for which it has returned no error and left nothing    *)
(* behind since the last unpublish, and to which no file metadata.json was   *)
(* written, is answered for alike by both stores and managed on both or on   *)
(* neither.                                                                  *)
THEOREM AnswerAlike == Spec => []SameAnswers
  <1>1. StoresInv /\ AnswersInv => SameAnswers
    BY DEF StoresInv, AnswersInv, SameAnswers, Alike
  <1> QED BY StoresAlways, <1>1, PTL

(* Such a volume has the same metadata in both, and Filesystem shows the     *)
(* rendering of the files MemoryFS holds, although MemoryFS.WriteFiles adds  *)
(* where Filesystem.WriteFiles replaces.                                     *)
THEOREM HoldAlike == Spec => []SameContents
  <1>1. ASSUME StoresInv, NEW v \in Alike
        PROVE  /\ memRead(memory, v) = dskRead(disk, v)
               /\ v \in DOMAIN memory <=> v \in DOMAIN disk
               /\ v \in DOMAIN disk =>
                    \E t \in CleanPayloads(Held(v)) : disk[v].files = Rendering(t)
    <2>1. v \in DOMAIN memory <=> v \in DOMAIN disk
      BY <1>1 DEF StoresInv, Alike
    <2>2. CASE v \in DOMAIN disk
      <3>1. memRead(memory, v) = disk[v].meta /\ disk[v].meta # NoMetadata
        BY <1>1, <2>2 DEF StoresInv, Alike
      <3>2. dskRead(disk, v) = disk[v].meta
        BY <2>2, <3>1 DEF dskRead, Dsk!ReadMetadata
      <3>3. Held(v) = FilesOf(memory[v])
        BY <2>1, <2>2 DEF Held, FilesOf, Mem!ReadFiles
      <3>4. disk[v].files \in Shown(FilesOf(memory[v]))
        BY <1>1, <2>1, <2>2 DEF StoresInv
      <3> QED BY <2>1, <2>2, <3>1, <3>2, <3>3, <3>4 DEF Shown
    <2>3. CASE v \notin DOMAIN disk
      <3>1. memRead(memory, v) = NotFound
        BY <2>1, <2>3 DEF memRead, Mem!ReadMetadata, Mem!HasMetadata
      <3>2. dskRead(disk, v) = NotFound
        BY <2>3 DEF dskRead, Dsk!ReadMetadata
      <3> QED BY <2>1, <2>3, <3>1, <3>2
    <2> QED BY <2>2, <2>3
  <1>2. StoresInv => SameContents
    BY <1>1 DEF SameContents
  <1> QED BY StoresAlways, <1>2, PTL

(* The errors of Filesystem go one way: MemoryFS lets succeed what Filesystem*)
(* does and has every volume it has, but for those written with a file       *)
(* metadata.json and those that Filesystem could not remove.                 *)
THEOREM LenientAlways == Spec => []MemoryLenient
  <1>1. ASSUME StoresInv, NEW v \in DOMAIN disk \ (kept \cup shadowed)
        PROVE  v \in DOMAIN memory /\ memRead(memory, v) = dskRead(disk, v)
    <2>1. v \in DOMAIN memory /\ memRead(memory, v) = disk[v].meta /\ disk[v].meta # NoMetadata
      BY <1>1 DEF StoresInv
    <2>2. dskRead(disk, v) = disk[v].meta
      BY <2>1 DEF dskRead, Dsk!ReadMetadata
    <2> QED BY <2>1, <2>2
  <1>2. StoresInv /\ AnswersInv => MemoryLenient
    BY <1>1 DEF AnswersInv, MemoryLenient
  <1> QED BY StoresAlways, <1>2, PTL

=============================================================================
