--------------------------- MODULE AtomicTidyProofs ---------------------------
(* Proofs about what AtomicWriter.Write leaves behind when its callers take    *)
(* turns and nothing has failed: the links of the live directory and no other, *)
(* and no old directory, except those of payloads that are found equal.        *)
EXTENDS AtomicWriterProofs, LinuxTLS

-----------------------------------------------------------------------------
(* The links.                                                                *)

\* The top-level names a reader finds through ..data.
Live == IF dataLink = NoTs THEN {} ELSE Tops(Files(tree[dataLink]))

\* Those there were before the call of w.
Before(w) == IF oldTS[w] = NoTs THEN {} ELSE Tops(Files(tree[oldTS[w]]))

\* Until its rename a call adds links of its own payload only.
LinksMine(w) ==
  /\ pc[w] \in PreCommit => oldTS[w] = dataLink
  /\ pc[w] \in {"mkdir", "write"} => visible \subseteq Live
  /\ pc[w] \in {"links", "symlink", "rename"} => visible \subseteq Live \cup Shown(payload[w])
  /\ pc[w] \in {"links", "symlink"} => names[w] \subseteq Shown(payload[w])
  /\ pc[w] = "symlink" => link[w] \in Shown(payload[w])

\* After it, the links its payload lacks are those it is going to remove.
StaleKnown(w) ==
  /\ pc[w] \in {"paths", "should"} => visible \subseteq Before(w) \cup Shown(payload[w])
  /\ pc[w] = "should" =>
       paths[w] = Entries(tree[oldTS[w]]) \ Entries(CleanPayload(payload[w]))
  /\ pc[w] = "prune" => lasterr[w] \/ visible \subseteq Shown(payload[w]) \cup names[w]
  /\ pc[w] = "rmOld" => /\ visible \subseteq Shown(payload[w])
                        /\ dataLink # NoTs
                        /\ tree[dataLink] = Render(payload[w])

\* The old directory is as an earlier call left it.
OldRendered(w) ==
  pc[w] \in {"paths", "should"} /\ oldTS[w] # NoTs =>
    \E p \in Payloads : tree[oldTS[w]] = Render(p)

TInv ==
  /\ (\A w \in Writers : pc[w] = "idle") => visible \subseteq Live
  /\ \A w \in Writers : LinksMine(w) /\ StaleKnown(w) /\ OldRendered(w)

\* Only the call that moves has anything to show.
LEMMA OneMoves ==
  ASSUME NEW w \in Writers, \A v \in Writers : v # w => pc'[v] = "idle",
         LinksMine(w)', StaleKnown(w)', OldRendered(w)',
         pc'[w] = "idle" => visible' \subseteq Live'
  PROVE  TInv'
  <1>1. ASSUME NEW v \in Writers, v # w PROVE (LinksMine(v) /\ StaleKnown(v) /\ OldRendered(v))'
    BY <1>1 DEF LinksMine, StaleKnown, OldRendered, PreCommit
  <1> QED BY <1>1 DEF TInv

\* A call that ends leaves nothing to show but the links.
LEMMA OneEnds ==
  ASSUME NEW w \in Writers, \A v \in Writers : pc'[v] = "idle", visible' \subseteq Live'
  PROVE  TInv'
  BY DEF TInv, LinksMine, StaleKnown, OldRendered, PreCommit

\* The paths to remove have every top-level name the payload lacks.
LEMMA StaleListed ==
  ASSUME NEW old, NEW t, NEW n, n \in Tops(Files(old)), n \notin Shown(t)
  PROVE  <<n>> \in Entries(old) \ Entries(CleanPayload(t))
  <1>1. <<n>> \in Entries(old)
    BY DEF Tops, Entries, Parent
  <1>2. ASSUME <<n>> \in Entries(CleanPayload(t)) PROVE FALSE
    <2>1. \E p \in Files(CleanPayload(t)) : n = p[1]
      BY <1>2 DEF Entries, Parent
    <2> QED BY <2>1, SameFiles DEF Shown, Tops
  <1> QED BY <1>1, <1>2

\* Every step of a call that is not the end of it with an error.
LEMMA StepTInv ==
  ASSUME IInv, VInv, TInv, Synchronized, tidy', NEW w \in Writers, Step(w)
  PROVE  TInv'
  <1>t. TypeOK
    BY DEF IInv
  <1>n. ~Return(w, "error") /\ ~Abort(w)
    BY DEF Return, Abort
  <1>w. LinksMine(w) /\ StaleKnown(w) /\ OldRendered(w)
    BY DEF TInv
  <1>l. /\ dataLink \in TsIds \cup {NoTs}
        /\ pc[w] \in Filling => ts[w] \in TsIds /\ ts[w] # dataLink /\ ts[w] # oldTS[w]
        /\ pc[w] \in PostCommit => oldTS[w] # dataLink
    BY DEF IInv, TypeOK, Private, OldRetired
  <1>o. pc[w] # "idle" => \A v \in Writers : v # w => pc[v] = "idle"
    BY DEF VInv, OneAtATime
  <1>g. ASSUME NEW label, Goto(w, label)
        PROVE  pc'[w] = label /\ (pc[w] # "idle" => \A v \in Writers : v # w => pc'[v] = "idle")
    BY <1>g, <1>o, <1>t DEF Goto, TypeOK
  <1>e. ASSUME Return(w, "ok"), pc[w] # "idle", visible' \subseteq Live' PROVE TInv'
    <2>1. \A v \in Writers : pc'[v] = "idle"
      BY <1>e, <1>g DEF Return
    <2> QED BY <1>e, <2>1, OneEnds
  <1>1. CASE \E p \in Payloads : Write(w, p)
    <2> PICK p \in Payloads : Write(w, p)
      BY <1>1
    <2>1. /\ \A v \in Writers : pc[v] = "idle"
          /\ Goto(w, "mkdir") /\ oldTS' = [oldTS EXCEPT ![w] = dataLink] /\ UNCHANGED disk
      BY <1>n DEF Write
    <2>2. pc'[w] = "mkdir" /\ (\A v \in Writers : v # w => pc'[v] = "idle") /\ oldTS'[w] = dataLink
      BY <2>1, <1>t DEF Goto, TypeOK
    <2>3. visible' \subseteq Live'
      BY <2>1 DEF TInv, Live, disk
    <2>4. LinksMine(w)' /\ StaleKnown(w)' /\ OldRendered(w)'
      BY <2>1, <2>2, <2>3 DEF LinksMine, StaleKnown, OldRendered, disk
    <2> QED BY <2>2, <2>4, OneMoves
  <1>2. CASE newTimestampDir(w)
    <2>1. pc[w] = "mkdir" /\ Goto(w, "write") /\ UNCHANGED <<visible, dataLink, tree, oldTS>>
      BY <1>2, <1>n DEF newTimestampDir
    <2>2. pc'[w] = "write" /\ \A v \in Writers : v # w => pc'[v] = "idle"
      BY <2>1, <1>g
    <2>3. LinksMine(w)' /\ StaleKnown(w)' /\ OldRendered(w)'
      BY <1>w, <2>1, <2>2 DEF LinksMine, StaleKnown, OldRendered, Live, PreCommit
    <2> QED BY <2>2, <2>3, OneMoves
  <1>3. CASE writePayloadToDir(w)
    <2>1. pc[w] = "write" /\ UNCHANGED <<visible, dataLink, pc, oldTS>>
      BY <1>3, <1>n DEF writePayloadToDir
    <2>2. dataLink # NoTs => tree'[dataLink] = tree[dataLink]
      BY <1>3, <1>n, <1>l, <1>t DEF writePayloadToDir, TypeOK, Filling
    <2>3. LinksMine(w)' /\ StaleKnown(w)' /\ OldRendered(w)'
      BY <1>w, <2>1, <2>2 DEF LinksMine, StaleKnown, OldRendered, Live, PreCommit
    <2> QED BY <1>o, <2>1, <2>3, OneMoves
  <1>4. CASE runDirFuncs(w)
    <2>1. /\ pc[w] = "write" /\ Goto(w, "links") /\ UNCHANGED <<visible, dataLink, payload, oldTS>>
          /\ names' = [names EXCEPT ![w] = Tops(Files(CleanPayload(payload[w])))]
      BY <1>4, <1>n DEF runDirFuncs
    <2>2. dataLink # NoTs => tree'[dataLink] = tree[dataLink]
      BY <1>4, <1>n, <1>l, <1>t DEF runDirFuncs, TypeOK, Filling
    <2>3. pc'[w] = "links" /\ \A v \in Writers : v # w => pc'[v] = "idle"
      BY <2>1, <1>g
    <2>4. names'[w] = Shown(payload'[w])
      BY <2>1, <1>t, SameFiles DEF TypeOK, Shown
    <2>5. LinksMine(w)' /\ StaleKnown(w)' /\ OldRendered(w)'
      BY <1>w, <2>1, <2>2, <2>3, <2>4 DEF LinksMine, StaleKnown, OldRendered, Live, PreCommit
    <2> QED BY <2>3, <2>5, OneMoves
  <1>5. CASE createUserVisibleFiles(w)
    <2>0. pc[w] \in {"links", "symlink"} /\ UNCHANGED <<dataLink, tree, payload, oldTS>>
      BY <1>5, <1>n DEF createUserVisibleFiles, disk
    <2>1. CASE /\ pc[w] = "links" /\ UNCHANGED <<pc, visible>>
               /\ \E n \in names[w] : names' = [names EXCEPT ![w] = @ \ {n}]
      <3>1. names'[w] \subseteq names[w]
        BY <2>1, <1>t DEF TypeOK
      <3>2. LinksMine(w)' /\ StaleKnown(w)' /\ OldRendered(w)'
        BY <1>w, <2>0, <2>1, <3>1 DEF LinksMine, StaleKnown, OldRendered, Live, PreCommit
      <3> QED BY <1>o, <2>1, <3>2, OneMoves
    <2>2. CASE /\ pc[w] = "links" /\ Goto(w, "symlink") /\ UNCHANGED visible
               /\ \E n \in names[w] : /\ names' = [names EXCEPT ![w] = @ \ {n}]
                                      /\ link' = [link EXCEPT ![w] = n]
      <3>1. names'[w] \subseteq names[w] /\ link'[w] \in names[w]
        BY <2>2, <1>t DEF TypeOK
      <3>2. pc'[w] = "symlink" /\ \A v \in Writers : v # w => pc'[v] = "idle"
        BY <2>2, <1>g
      <3>3. LinksMine(w)' /\ StaleKnown(w)' /\ OldRendered(w)'
        BY <1>w, <2>0, <2>2, <3>1, <3>2 DEF LinksMine, StaleKnown, OldRendered, Live, PreCommit
      <3> QED BY <3>2, <3>3, OneMoves
    <2>3. CASE pc[w] = "symlink" /\ visible' = visible \cup {link[w]} /\ Goto(w, "links") /\ UNCHANGED names
      <3>1. pc'[w] = "links" /\ \A v \in Writers : v # w => pc'[v] = "idle"
        BY <2>3, <1>g
      <3>2. LinksMine(w)' /\ StaleKnown(w)' /\ OldRendered(w)'
        BY <1>w, <2>0, <2>3, <3>1 DEF LinksMine, StaleKnown, OldRendered, Live, PreCommit
      <3> QED BY <3>1, <3>2, OneMoves
    <2> QED BY <1>5, <1>n, <2>1, <2>2, <2>3 DEF createUserVisibleFiles, disk
  <1>6. CASE symlinkTmp(w)
    <2>1. pc[w] = "links" /\ Goto(w, "rename") /\ UNCHANGED <<tree, dataLink, visible, locals>>
      BY <1>6, <1>n DEF symlinkTmp
    <2>2. pc'[w] = "rename" /\ \A v \in Writers : v # w => pc'[v] = "idle"
      BY <2>1, <1>g
    <2>3. LinksMine(w)' /\ StaleKnown(w)' /\ OldRendered(w)'
      BY <1>w, <2>1, <2>2 DEF LinksMine, StaleKnown, OldRendered, Live, PreCommit, locals
    <2> QED BY <2>2, <2>3, OneMoves
  <1>7. CASE rename(w)
    <2>1. pc[w] = "rename" /\ Goto(w, "paths") /\ UNCHANGED <<tree, visible, locals>>
      BY <1>7, <1>n DEF rename
    <2>2. pc'[w] = "paths" /\ \A v \in Writers : v # w => pc'[v] = "idle"
      BY <2>1, <1>g
    <2>3. oldTS'[w] = dataLink /\ Before(w)' = Live /\ payload' = payload
      BY <1>w, <2>1 DEF LinksMine, PreCommit, locals, Before, Live
    <2>4. OldRendered(w)'
      BY <2>1, <2>3 DEF OldRendered, IInv, LinkIntact
    <2>5. LinksMine(w)' /\ StaleKnown(w)'
      BY <1>w, <2>1, <2>2, <2>3 DEF LinksMine, StaleKnown, PreCommit
    <2> QED BY <2>2, <2>4, <2>5, OneMoves
  <1>8. CASE pathsToRemove(w)
    <2>0. pc[w] = "paths" /\ UNCHANGED disk /\ Live' = Live
      BY <1>8, <1>n DEF pathsToRemove, disk, Live
    <2>1. Live = Shown(payload[w])
      BY <2>0 DEF VInv, PruneSafe, Live, Shown
    <2>2. CASE oldTS[w] = NoTs
      <3>1. Return(w, "ok") /\ visible' \subseteq Live'
        BY <1>8, <1>w, <2>0, <2>1, <2>2 DEF pathsToRemove, StaleKnown, Before, disk
      <3> QED BY <1>e, <2>0, <3>1
    <2>3. CASE oldTS[w] # NoTs
      <3>1. /\ Goto(w, "should") /\ UNCHANGED <<payload, oldTS>>
            /\ paths'[w] = Entries(tree[oldTS[w]]) \ Entries(CleanPayload(payload[w]))
        BY <1>8, <2>3, <1>t DEF pathsToRemove, TypeOK
      <3>2. pc'[w] = "should" /\ \A v \in Writers : v # w => pc'[v] = "idle"
        BY <2>0, <3>1, <1>g
      <3>3. Before(w)' = Before(w)
        BY <2>0, <3>1 DEF Before, disk
      <3>4. LinksMine(w)' /\ StaleKnown(w)' /\ OldRendered(w)'
        BY <1>w, <2>0, <3>1, <3>2, <3>3 DEF LinksMine, StaleKnown, OldRendered, PreCommit, disk
      <3> QED BY <3>2, <3>4, OneMoves
    <2> QED BY <2>2, <2>3
  <1>9. CASE decideUpdate(w)
    <2>0. pc[w] = "should" /\ UNCHANGED disk /\ Live' = Live /\ oldTS[w] \in TsIds
      BY <1>9, <1>n DEF decideUpdate, disk, Live, IInv, OldNamed, PostCommit
    <2>1. Live = Shown(payload[w])
      BY <2>0 DEF VInv, PruneSafe, Live, Shown
    <2>2. Before(w) = Tops(Files(tree[oldTS[w]]))
      BY <2>0, ConstantsOK DEF Before
    <2>3. \A n \in visible : n \in Shown(payload[w]) \/ <<n>> \in paths[w]
      <3>1. SUFFICES ASSUME NEW n \in visible, n \notin Shown(payload[w]) PROVE <<n>> \in paths[w]
        OBVIOUS
      <3>2. n \in Tops(Files(tree[oldTS[w]]))
        BY <1>w, <2>0, <2>2, <3>1 DEF StaleKnown
      <3>3. paths[w] = Entries(tree[oldTS[w]]) \ Entries(CleanPayload(payload[w]))
        BY <1>w, <2>0 DEF StaleKnown
      <3> QED BY <3>1, <3>2, <3>3, StaleListed
    <2>4. CASE paths[w] = {} /\ Return(w, "ok")
      BY <1>e, <2>0, <2>1, <2>3, <2>4 DEF disk
    <2>5. CASE /\ Goto(w, "prune") /\ UNCHANGED payload
               /\ names' = [names EXCEPT ![w] = {n \in Names : <<n>> \in paths[w]}]
      <3>1. pc'[w] = "prune" /\ \A v \in Writers : v # w => pc'[v] = "idle"
        BY <2>0, <2>5, <1>g
      <3>2. names'[w] = {n \in Names : <<n>> \in paths[w]} /\ visible \subseteq Names
        BY <2>5, <1>t DEF TypeOK
      <3>3. visible' \subseteq Shown(payload'[w]) \cup names'[w]
        BY <2>0, <2>3, <2>5, <3>2 DEF disk
      <3>4. LinksMine(w)' /\ StaleKnown(w)' /\ OldRendered(w)'
        BY <3>1, <3>3 DEF LinksMine, StaleKnown, OldRendered, PreCommit
      <3> QED BY <3>1, <3>4, OneMoves
    <2> QED BY <1>9, <1>n, <2>4, <2>5 DEF decideUpdate
  <1>10. CASE removeUserVisiblePaths(w)
    <2>0. pc[w] = "prune" /\ UNCHANGED <<tree, dataLink, payload>>
      BY <1>10, <1>n DEF removeUserVisiblePaths, disk, locals
    <2>1. CASE UNCHANGED pc
      <3>1. PICK n \in names[w] :
              /\ names' = [names EXCEPT ![w] = @ \ {n}]
              /\ \/ visible' = visible \ {n} /\ UNCHANGED lasterr
                 \/ lasterr' = [lasterr EXCEPT ![w] = TRUE]
        BY <1>10, <1>n, <2>0, <2>1, <1>t DEF removeUserVisiblePaths, Goto, TypeOK
      <3>2. names'[w] = names[w] \ {n}
            /\ (lasterr'[w] \/ (visible' = visible \ {n} /\ lasterr'[w] = lasterr[w]))
        BY <3>1, <1>t DEF TypeOK
      <3>3. LinksMine(w)' /\ StaleKnown(w)' /\ OldRendered(w)'
        BY <1>w, <2>0, <2>1, <3>2 DEF LinksMine, StaleKnown, OldRendered, PreCommit
      <3> QED BY <1>o, <2>0, <2>1, <3>3, OneMoves
    <2>2. CASE names[w] = {} /\ ~lasterr[w] /\ Goto(w, "rmOld") /\ UNCHANGED disk
      <3>1. pc'[w] = "rmOld" /\ \A v \in Writers : v # w => pc'[v] = "idle"
        BY <2>0, <2>2, <1>g
      <3>2. dataLink # NoTs /\ tree[dataLink] = Render(payload[w])
        BY <2>0 DEF VInv, PruneSafe
      <3>3. LinksMine(w)' /\ StaleKnown(w)' /\ OldRendered(w)'
        BY <1>w, <2>0, <2>2, <3>1, <3>2 DEF LinksMine, StaleKnown, OldRendered, PreCommit, disk
      <3> QED BY <3>1, <3>3, OneMoves
    <2> QED BY <1>10, <1>n, <2>1, <2>2 DEF removeUserVisiblePaths
  <1>11. CASE removeOldDir(w)
    <2>0. pc[w] = "rmOld" /\ UNCHANGED <<dataLink, visible>>
          /\ dataLink # NoTs /\ tree[dataLink] = Render(payload[w])
      BY <1>11, <1>n, <1>w DEF removeOldDir, StaleKnown
    <2>1. tree'[dataLink] = tree[dataLink]
      BY <1>11, <2>0, <1>n, <1>l, <1>t DEF removeOldDir, RemoveDir, TypeOK, PostCommit
    <2>2. visible' \subseteq Live'
      BY <1>w, <2>0, <2>1 DEF StaleKnown, Live, Shown
    <2>3. CASE Return(w, "ok")
      BY <1>e, <2>0, <2>2, <2>3
    <2>4. CASE UNCHANGED <<pc, locals>>
      <3>1. LinksMine(w)' /\ StaleKnown(w)' /\ OldRendered(w)'
        BY <1>w, <2>0, <2>1, <2>4 DEF LinksMine, StaleKnown, OldRendered, PreCommit, locals
      <3> QED BY <1>o, <2>0, <2>4, <3>1, OneMoves
    <2> QED BY <1>11, <1>n, <2>3, <2>4 DEF removeOldDir
  <1> QED BY <1>1, <1>2, <1>3, <1>4, <1>5, <1>6, <1>7, <1>8, <1>9, <1>10, <1>11 DEF Step

\* What has failed stays failed.
LEMMA TidyStays ==
  ASSUME NEW w \in Writers, Step(w), tidy'
  PROVE  tidy
  BY DEF Step, Write, newTimestampDir, writePayloadToDir, runDirFuncs, createUserVisibleFiles,
         symlinkTmp, rename, pathsToRemove, decideUpdate, removeUserVisiblePaths, removeOldDir,
         Abort, Return

\* While callers take turns and nothing has failed.
LEMMA TurnsTInv == Spec => [](Synchronized /\ tidy => TInv)
  <1>1. Init => (Synchronized /\ tidy => TInv)
    BY DEF Init, TInv, LinksMine, StaleKnown, OldRendered, PreCommit, Live
  <1>2. IInv /\ (Synchronized => VInv) /\ (Synchronized /\ tidy => TInv) /\ [Next]_vars
          => (Synchronized /\ tidy => TInv)'
    <2> SUFFICES ASSUME IInv, Synchronized => VInv, tidy => TInv, Synchronized, tidy', [Next]_vars
                 PROVE  TInv'
      OBVIOUS
    <2>1. CASE Crash
      BY <2>1 DEF Crash
    <2>2. CASE UNCHANGED vars
      BY <2>2 DEF vars, disk, locals, TInv, LinksMine, StaleKnown, OldRendered, Live, Before
    <2>3. ASSUME NEW w \in Writers, Step(w) PROVE TInv'
      BY <2>3, TidyStays, StepTInv
    <2> QED BY <2>1, <2>2, <2>3 DEF Next
  <1> QED BY <1>1, <1>2, Inductive, TurnsVInv, PTL DEF Spec

(* When callers take turns and nothing has failed, a finished Write leaves   *)
(* exactly the links of the live directory, for any payloads and dirFuncs:   *)
(* whatever the old payload showed and the new one lacks has been removed,   *)
(* whichever of its three ways out the call has taken.                       *)
THEOREM LinksExact == Spec => []VisibleExact
  <1>1. (Synchronized => VInv) /\ (Synchronized /\ tidy => TInv) => VisibleExact
    BY DEF VInv, VisibleCovers, TInv, Live, VisibleExact
  <1> QED BY <1>1, TurnsVInv, TurnsTInv, PTL

-----------------------------------------------------------------------------
(* The old directories.                                                      *)

\* The driver's dirFuncs, and os.Create'd files are empty.
DriverDirFuncs ==
  /\ Empty = {}
  /\ \A t \in Payloads : NewFiles(t) = DirFuncsForVolume(t)

\* The directory of a payload to which the dirFuncs add nothing but empty files.
Bare(d) == \E p \in Payloads : tree[d] = Render(p) /\ Render(p) = CleanPayload(p)

\* A directory that is not live is bare, or it is the new or the old one of the
\* running call.
OthersBare ==
  \A d \in dirs \ {dataLink} :
    \/ Bare(d)
    \/ \E w \in Writers : \/ pc[w] \in Filling /\ d = ts[w]
                          \/ pc[w] \in PostCommit /\ d = oldTS[w]

\* The bundle always gets a name, and it is empty only when there was nothing to
\* put in: so a directory that is somebody's clean payload is its own.
LEMMA BundleTells ==
  ASSUME DriverDirFuncs, NEW p \in Payloads, NEW q \in Payloads, Render(q) = CleanPayload(p)
  PROVE  Render(q) = CleanPayload(q)
  <1> DEFINE bundle == <<Bundle>>
             sources == TopLevel(q) \ {bundle}
             d == Merge(q, CreateCABundle(q))
  <1>1. \A t : DOMAIN CreateCABundle(t) = {bundle}
    BY DEF CreateCABundle
  <1>2. \A t : bundle \in DOMAIN DirFuncsForVolume(t)
               /\ DirFuncsForVolume(t)[bundle] = CreateCABundle(t)[bundle]
    BY <1>1 DEF DirFuncsForVolume, Merge
  <1>3. CleanPayload(p)[bundle] = {}
    BY <1>2 DEF DriverDirFuncs, CleanPayload, Overlay, Files
  <1>4. Render(q)[bundle] = CreateCABundle(q)[bundle]
    BY <1>2 DEF DriverDirFuncs, Render, Overlay, Files
  <1>5. CreateCABundle(q)[bundle] = UNION {q[r] \cup {Separator} : r \in sources}
    BY DEF CreateCABundle
  <1>6. sources = {}
    <2>1. UNION {q[r] \cup {Separator} : r \in sources} = {}
      BY <1>3, <1>4, <1>5
    <2>2. ASSUME NEW r \in sources PROVE FALSE
      <3>1. Separator \in UNION {q[s] \cup {Separator} : s \in sources}
        BY <2>2
      <3> QED BY <2>1, <3>1
    <2> QED BY <2>2
  <1>7. d = [r \in DOMAIN q \cup {bundle} |-> IF r = bundle THEN {} ELSE q[r]]
    BY <1>1, <1>3, <1>4 DEF Merge
  <1>8. \A r \in TopLevel(d) : d[r] = {}
    BY <1>6, <1>7 DEF TopLevel
  <1>9. DOMAIN Rehash(d) = {}
    <2>1. {c \in Certs : \E r \in TopLevel(d) : d[r] \cap Certs = {c}} = {}
      BY <1>8
    <2> QED BY <2>1 DEF Rehash
  <1>10. DOMAIN OpenSSLRehash(d) = {}
    BY <1>9 DEF OpenSSLRehash
  <1>11. DOMAIN DirFuncsForVolume(q) = {bundle}
    BY <1>1, <1>10 DEF DirFuncsForVolume, Merge
  <1>12. DirFuncsForVolume(q)[bundle] = {}
    BY <1>2, <1>3, <1>4
  <1> QED BY <1>11, <1>12 DEF DriverDirFuncs, Render, CleanPayload, Overlay, Files

\* "No update required" is said of equal directories only.
LEMMA SameIsEqual ==
  ASSUME NEW old, NEW clean, old = [p \in Files(old) |-> old[p]], clean = [p \in Files(clean) |-> clean[p]],
         "same" \in shouldWritePayload(clean, old), Entries(old) \ Entries(clean) = {}
  PROVE  old = clean
  <1>1. \A p \in Files(clean) : ~Unreadable(old, p) /\ ~Differs(old, clean, p)
    BY DEF shouldWritePayload
  <1>2. \A p \in Files(clean) : p \in Files(old) /\ old[p] = clean[p]
    BY <1>1 DEF Differs
  <1>3. ASSUME NEW p \in Files(old) PROVE p \in Files(clean)
    <2>1. p \in Entries(clean)
      BY <1>3 DEF Entries
    <2>2. ASSUME NEW r \in Files(clean), p = Parent(r) PROVE p = r
      BY <1>1, <1>3, <2>2 DEF Unreadable, Clash
    <2> QED BY <2>1, <2>2 DEF Entries
  <1> QED BY <1>2, <1>3

\* Every step of a call that is not the end of it with an error.
LEMMA StepOthers ==
  ASSUME DriverDirFuncs, IInv, VInv, TInv, OthersBare, Synchronized, tidy', NEW w \in Writers, Step(w)
  PROVE  OthersBare'
  <1>t. TypeOK
    BY DEF IInv
  <1>n. ~Return(w, "error") /\ ~Abort(w)
    BY DEF Return, Abort
  <1>o. \A d \in dirs \ {dataLink} :
          pc[w] # "idle" => \/ Bare(d)
                            \/ pc[w] \in Filling /\ d = ts[w]
                            \/ pc[w] \in PostCommit /\ d = oldTS[w]
    BY DEF VInv, OneAtATime, OthersBare, Filling, PostCommit
  <1>l. pc[w] \in Filling => ts[w] \in TsIds /\ ts[w] # dataLink
    BY DEF IInv, TypeOK, Private
  <1>b. ASSUME NEW d, tree'[d] = tree[d], Bare(d) PROVE Bare(d)'
    BY <1>b DEF Bare
  <1>f. ASSUME pc[w] \in Filling, pc'[w] \in Filling, UNCHANGED <<dirs, dataLink, ts>>,
               \A d \in dirs \ {ts[w]} : tree'[d] = tree[d]
        PROVE  OthersBare'
    BY <1>f, <1>o, <1>b DEF OthersBare, Filling, PostCommit
  <1>p. ASSUME pc[w] \in PostCommit, pc'[w] \in PostCommit, UNCHANGED <<dirs, dataLink, oldTS>>,
               \A d \in dirs \ {oldTS[w]} : tree'[d] = tree[d]
        PROVE  OthersBare'
    BY <1>p, <1>o, <1>b DEF OthersBare, PostCommit, Filling
  <1>g. \A label : Goto(w, label) => pc'[w] = label
    BY <1>t DEF Goto, TypeOK
  <1>1. CASE \E p \in Payloads : Write(w, p)
    <2>1. (\A v \in Writers : pc[v] = "idle") /\ UNCHANGED disk
      BY <1>1, <1>n DEF Write
    <2>2. \A d \in dirs \ {dataLink} : Bare(d)
      BY <2>1 DEF OthersBare, Filling, PostCommit
    <2> QED BY <2>1, <2>2, <1>b DEF OthersBare, disk
  <1>2. CASE newTimestampDir(w)
    <2>1. PICK d \in FreshIds : /\ pc[w] = "mkdir" /\ dirs' = dirs \cup {d} /\ Goto(w, "write")
                                /\ ts' = [ts EXCEPT ![w] = d] /\ UNCHANGED <<tree, dataLink>>
      BY <1>2, <1>n DEF newTimestampDir
    <2>2. pc'[w] = "write" /\ ts'[w] = d
      BY <2>1, <1>g, <1>t DEF TypeOK
    <2>3. \A e \in dirs \ {dataLink} : Bare(e)'
      BY <2>1, <1>o, <1>b DEF Filling, PostCommit
    <2> QED BY <2>1, <2>2, <2>3 DEF OthersBare, Filling
  <1>3. CASE writePayloadToDir(w)
    <2>1. pc[w] = "write" /\ UNCHANGED <<dirs, dataLink, pc, ts>>
      BY <1>3, <1>n DEF writePayloadToDir
    <2>2. \A d \in dirs \ {ts[w]} : tree'[d] = tree[d]
      BY <1>3, <1>n, <1>t DEF writePayloadToDir, TypeOK
    <2> QED BY <1>f, <2>1, <2>2 DEF Filling
  <1>4. CASE runDirFuncs(w)
    <2>1. pc[w] = "write" /\ pc'[w] = "links" /\ UNCHANGED <<dirs, dataLink, ts>>
      BY <1>4, <1>n, <1>g DEF runDirFuncs
    <2>2. \A d \in dirs \ {ts[w]} : tree'[d] = tree[d]
      BY <1>4, <1>n, <1>t DEF runDirFuncs, TypeOK
    <2> QED BY <1>f, <2>1, <2>2 DEF Filling
  <1>5. CASE createUserVisibleFiles(w)
    BY <1>5, <1>n, <1>g, <1>f DEF createUserVisibleFiles, disk, Filling
  <1>6. CASE symlinkTmp(w)
    BY <1>6, <1>n, <1>g, <1>f DEF symlinkTmp, locals, Filling
  <1>7. CASE rename(w)
    <2>1. /\ pc[w] = "rename" /\ pc'[w] = "paths" /\ dataLink' = ts[w]
          /\ UNCHANGED <<dirs, tree, oldTS>>
      BY <1>7, <1>n, <1>g DEF rename, locals, IInv, TmpIsMine
    <2>2. oldTS'[w] = dataLink
      BY <2>1 DEF TInv, LinksMine, PreCommit
    <2>3. \A d \in dirs \ {dataLink, ts[w]} : Bare(d)'
      BY <2>1, <1>o, <1>b DEF PostCommit
    <2> QED BY <2>1, <2>2, <2>3 DEF OthersBare, PostCommit
  <1>8. CASE pathsToRemove(w)
    <2>0. pc[w] = "paths" /\ UNCHANGED <<dirs, tree, dataLink>>
      BY <1>8 DEF pathsToRemove, disk
    <2>1. CASE oldTS[w] = NoTs
      <3>1. \A d \in dirs \ {dataLink} : Bare(d)
        BY <2>0, <2>1, <1>o, <1>t, ConstantsOK DEF TypeOK, Filling
      <3> QED BY <2>0, <3>1, <1>b DEF OthersBare
    <2>2. CASE oldTS[w] # NoTs
      <3>1. pc'[w] = "should" /\ UNCHANGED oldTS
        BY <1>8, <2>2, <1>g DEF pathsToRemove
      <3> QED BY <2>0, <3>1, <1>p DEF PostCommit
    <2> QED BY <2>1, <2>2
  <1>9. CASE decideUpdate(w)
    <2> DEFINE clean == CleanPayload(payload[w])
               old == tree[oldTS[w]]
    <2>0. pc[w] = "should" /\ UNCHANGED <<dirs, tree, dataLink>> /\ oldTS[w] \in TsIds
          /\ payload[w] \in Payloads
      BY <1>9, <1>n DEF decideUpdate, disk, IInv, OldNamed, HasPayload, PostCommit
    <2>1. CASE Goto(w, "prune") /\ UNCHANGED oldTS
      BY <2>0, <2>1, <1>g, <1>p DEF PostCommit
    <2>2. CASE "same" \in shouldWritePayload(clean, old) /\ paths[w] = {}
      <3>1. old = [p \in Files(old) |-> old[p]] /\ clean = [p \in Files(clean) |-> clean[p]]
        BY <2>0, <1>t DEF TypeOK, IsTree, CleanPayload, Overlay, Files
      <3>2. Entries(old) \ Entries(clean) = {}
        BY <2>0, <2>2 DEF TInv, StaleKnown
      <3>3. old = clean
        BY <2>2, <3>1, <3>2, SameIsEqual
      <3>4. PICK p \in Payloads : old = Render(p)
        BY <2>0, ConstantsOK DEF TInv, OldRendered
      <3>5. Render(p) = CleanPayload(p)
        BY <2>0, <3>3, <3>4, BundleTells
      <3>6. Bare(oldTS[w])
        BY <3>4, <3>5 DEF Bare
      <3>7. \A d \in dirs \ {dataLink} : Bare(d)
        BY <2>0, <3>6, <1>o DEF Filling
      <3> QED BY <2>0, <3>7, <1>b DEF OthersBare
    <2> QED BY <1>9, <1>n, <2>1, <2>2 DEF decideUpdate
  <1>10. CASE removeUserVisiblePaths(w)
    BY <1>10, <1>n, <1>g, <1>p DEF removeUserVisiblePaths, disk, locals, PostCommit
  <1>11. CASE removeOldDir(w)
    <2>0. pc[w] = "rmOld" /\ UNCHANGED dataLink
      BY <1>11, <1>n DEF removeOldDir
    <2>1. \A d \in dirs \ {oldTS[w]} : tree'[d] = tree[d]
      BY <1>11, <1>n, <1>t DEF removeOldDir, RemoveDir, TypeOK
    <2>2. CASE UNCHANGED <<dirs, pc, locals>>
      BY <2>0, <2>1, <2>2, <1>p DEF locals, PostCommit
    <2>3. CASE dirs' = dirs \ {oldTS[w]}
      <3>1. \A d \in dirs' \ {dataLink'} : Bare(d)'
        BY <2>0, <2>1, <2>3, <1>o, <1>b DEF Filling
      <3> QED BY <3>1 DEF OthersBare
    <2> QED BY <1>11, <1>n, <2>2, <2>3 DEF removeOldDir, RemoveDir
  <1> QED BY <1>1, <1>2, <1>3, <1>4, <1>5, <1>6, <1>7, <1>8, <1>9, <1>10, <1>11 DEF Step

(* When callers take turns and nothing has failed, a finished Write with the *)
(* driver's dirFuncs leaves no old directory behind, except one to which the *)
(* dirFuncs added nothing but empty files: only such a directory is found    *)
(* equal when it is written again.                                           *)
THEOREM NothingLeft ==
  ASSUME DriverDirFuncs
  PROVE  Spec => []LeftoversBare
  <1>1. Init => (Synchronized /\ tidy => OthersBare)
    BY DEF Init, OthersBare
  <1>2. /\ IInv /\ (Synchronized => VInv) /\ (Synchronized /\ tidy => TInv)
        /\ (Synchronized /\ tidy => OthersBare) /\ [Next]_vars
        => (Synchronized /\ tidy => OthersBare)'
    <2> SUFFICES ASSUME IInv, Synchronized => VInv, tidy => TInv, tidy => OthersBare, Synchronized,
                        tidy', [Next]_vars
                 PROVE  OthersBare'
      OBVIOUS
    <2>1. CASE Crash
      BY <2>1 DEF Crash
    <2>2. CASE UNCHANGED vars
      BY <2>2 DEF vars, disk, locals, OthersBare, Bare
    <2>3. ASSUME NEW w \in Writers, Step(w) PROVE OthersBare'
      BY <2>3, TidyStays, StepOthers
    <2> QED BY <2>1, <2>2, <2>3 DEF Next
  <1>3. (Synchronized /\ tidy => OthersBare) => LeftoversBare
    BY DEF OthersBare, Bare, LeftoversBare, Filling, PostCommit
  <1> QED BY <1>1, <1>2, <1>3, Inductive, TurnsVInv, TurnsTInv, PTL DEF Spec

=============================================================================
