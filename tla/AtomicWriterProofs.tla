-------------------------- MODULE AtomicWriterProofs --------------------------
(* Proofs about AtomicWriter for any set of writers, directories, names,       *)
(* payloads and dirFuncs, with or without overlap, crashes and I/O errors.     *)
EXTENDS AtomicWriter, TLAPS

-----------------------------------------------------------------------------
(* The inductive invariant.                                                  *)

\* The calls that have a directory of their own which is not live yet.
Filling == {"write", "links", "symlink", "rename"}

\* What has been written when the files P are still missing.
Part(t, P) == [p \in Files(t) \ P |-> t[p]]

AbsentEmpty == \A d \in TsIds \ dirs : tree[d] = EmptyTree

HasPayload == \A w \in Writers : pc[w] # "idle" => payload[w] \in Payloads

IdleForgets == \A w \in Writers : pc[w] = "idle" => payload[w] = NoPayload

\* The directory of a running call is its own: no other call made it, no call
\* takes it for the old one, and ..data does not point to it.
Private ==
  \A w \in Writers :
    pc[w] \in Filling =>
      /\ ts[w] \in dirs
      /\ ts[w] # dataLink
      /\ \A v \in Writers : oldTS[v] # ts[w]
      /\ \A v \in Writers : v # w => ts[v] # ts[w]

Filled ==
  \A w \in Writers :
    /\ pc[w] = "write" => /\ paths[w] \subseteq Files(payload[w])
                          /\ tree[ts[w]] = Part(payload[w], paths[w])
    /\ pc[w] \in {"links", "symlink", "rename"} => tree[ts[w]] = Render(payload[w])

TmpIsMine == \A w \in Writers : pc[w] = "rename" => tmpLink = ts[w]

OldRetired ==
  \A w \in Writers : pc[w] \in PostCommit => oldTS[w] # dataLink

LinkNamed == \A w \in Writers : pc[w] = "symlink" => link[w] \in Names

OldNamed ==
  \A w \in Writers : pc[w] \in PostCommit \ {"paths"} => oldTS[w] \in TsIds

IInv == /\ TypeOK
        /\ AbsentEmpty
        /\ HasPayload
        /\ IdleForgets
        /\ Private
        /\ Filled
        /\ TmpIsMine
        /\ OldRetired
        /\ OldNamed
        /\ LinkNamed
        /\ LinkIntact

-----------------------------------------------------------------------------
(* Trees.                                                                    *)

\* The empty directory is a tree.
LEMMA EmptyTreeIsTree == IsTree(EmptyTree)
  BY DEF IsTree, EmptyTree, Files

\* Writing a file with a permitted content keeps a tree a tree.
LEMMA AddFileIsTree ==
  ASSUME NEW t, IsTree(t), NEW p \in Paths, NEW c \in Contents
  PROVE  IsTree(AddFile(t, p, c))
  BY DEF IsTree, AddFile, Files

\* Removing a file keeps a tree a tree.
LEMMA DropFileIsTree ==
  ASSUME NEW t, IsTree(t), NEW p
  PROVE  IsTree(DropFile(t, p))
  BY DEF IsTree, DropFile, Files

\* The directory the dirFuncs leave is a tree.
LEMMA RenderIsTree ==
  ASSUME NEW t \in Payloads
  PROVE  IsTree(Render(t))
  BY ConstantsOK DEF IsTree, Render, Overlay, Files

\* So is what dirFuncs that fail leave.
LEMMA PartRenderedIsTree ==
  ASSUME NEW t \in Payloads, NEW r \in PartRendered(t)
  PROVE  IsTree(r)
  <1> PICK made \in SUBSET Files(NewFiles(t)) : r = Overlay(t, [p \in made |-> NewFiles(t)[p]])
    BY DEF PartRendered
  <1> QED BY ConstantsOK DEF IsTree, Overlay, Files

\* A freshly made directory holds the part of a payload that is written when
\* every file is missing.
LEMMA PartNone ==
  ASSUME NEW t PROVE Part(t, Files(t)) = EmptyTree
  BY DEF Part, EmptyTree

\* Once no file is missing the directory holds the payload.
LEMMA PartAll ==
  ASSUME NEW t, IsTree(t) PROVE Part(t, {}) = t
  BY DEF Part, IsTree

\* Writing one missing file leaves one file less to write.
LEMMA PartAdd ==
  ASSUME NEW t, NEW P, P \subseteq Files(t), NEW p \in P
  PROVE  AddFile(Part(t, P), p, t[p]) = Part(t, P \ {p})
  <1> DEFINE f == AddFile(Part(t, P), p, t[p])
             g == Part(t, P \ {p})
  <1>1. DOMAIN f = DOMAIN g
    BY DEF AddFile, Part, Files
  <1>2. \A q \in DOMAIN g : f[q] = g[q]
    BY DEF AddFile, Part, Files
  <1>3. f = [q \in DOMAIN f |-> f[q]] /\ g = [q \in DOMAIN g |-> g[q]]
    BY DEF AddFile, Part
  <1> QED BY <1>1, <1>2, <1>3

\* A part of a payload is a tree.
LEMMA PartIsTree ==
  ASSUME NEW t, IsTree(t), NEW P PROVE IsTree(Part(t, P))
  BY DEF Part, IsTree, Files
-----------------------------------------------------------------------------
(* Each step preserves the invariant.                                        *)

\* The invariant holds at the start.
LEMMA InitIInv == Init => IInv
  <1> SUFFICES ASSUME Init PROVE IInv
    OBVIOUS
  <1> USE DEF Init
  <1>1. TypeOK
    BY EmptyTreeIsTree DEF TypeOK, PreCommit, PostCommit
  <1>2. AbsentEmpty /\ HasPayload /\ IdleForgets /\ LinkIntact
    BY DEF AbsentEmpty, HasPayload, IdleForgets, LinkIntact
  <1>3. Private /\ Filled /\ TmpIsMine /\ OldRetired /\ OldNamed /\ LinkNamed
    BY DEF Private, Filled, TmpIsMine, OldRetired, OldNamed, LinkNamed, Filling, PostCommit
  <1> QED BY <1>1, <1>2, <1>3 DEF IInv

\* An early return forgets the call's locals and touches no directory.
LEMMA AbortIInv ==
  ASSUME IInv, NEW w \in Writers, Abort(w)
  PROVE  IInv'
  <1> USE DEF Abort, Return, Goto, disk
  <1>1. TypeOK'
    BY DEF IInv, TypeOK
  <1>2. AbsentEmpty' /\ HasPayload' /\ IdleForgets' /\ LinkIntact'
    BY DEF IInv, TypeOK, AbsentEmpty, HasPayload, IdleForgets, LinkIntact
  <1>3. Private'
    BY ConstantsOK DEF IInv, TypeOK, Private, Filling
  <1>4. Filled' /\ TmpIsMine' /\ OldRetired' /\ OldNamed' /\ LinkNamed'
    BY DEF IInv, TypeOK, Filled, TmpIsMine, OldRetired, OldNamed, LinkNamed, Filling, PostCommit
  <1> QED BY <1>1, <1>2, <1>3, <1>4 DEF IInv

\* Write validates the payload and remembers where ..data points.
LEMMA WriteIInv ==
  ASSUME IInv, NEW w \in Writers, NEW p \in Payloads, Write(w, p)
  PROVE  IInv'
  <1>1. CASE Abort(w)
    BY <1>1, AbortIInv
  <1>2. CASE ~Abort(w)
    <2> USE <1>2 DEF Write, Goto, disk
    <2>1. TypeOK'
      BY DEF IInv, TypeOK, PreCommit
    <2>2. AbsentEmpty' /\ HasPayload' /\ IdleForgets' /\ LinkIntact'
      BY DEF IInv, TypeOK, AbsentEmpty, HasPayload, IdleForgets, LinkIntact
    <2>3. Private'
      BY ConstantsOK DEF IInv, TypeOK, Private, Filling
    <2>4. Filled'
      BY DEF IInv, TypeOK, Filled
    <2>5. TmpIsMine' /\ OldRetired' /\ OldNamed' /\ LinkNamed'
      BY DEF IInv, TypeOK, TmpIsMine, OldRetired, OldNamed, LinkNamed, PostCommit
    <2> QED BY <2>1, <2>2, <2>3, <2>4, <2>5 DEF IInv
  <1> QED BY <1>1, <1>2

\* newTimestampDir makes a directory nobody knows of: it is empty and private.
LEMMA newTimestampDirIInv ==
  ASSUME IInv, NEW w \in Writers, newTimestampDir(w)
  PROVE  IInv'
  <1> USE DEF Goto
  <1>1. CASE Abort(w)
    BY <1>1, AbortIInv
  <1>2. ASSUME NEW d \in FreshIds,
               dirs' = dirs \cup {d},
               ts' = [ts EXCEPT ![w] = d],
               paths' = [paths EXCEPT ![w] = Files(payload[w])],
               Goto(w, "write"), pc[w] = "mkdir",
               UNCHANGED <<tree, dataLink, tmpLink, visible, payload, oldTS,
                           names, link, lasterr, outcome, tidy>>
        PROVE  IInv'
    <2> USE <1>2
    <2>0. /\ d \in TsIds /\ d \notin dirs /\ d # dataLink /\ d # tmpLink
          /\ \A v \in Writers : ts[v] # d /\ oldTS[v] # d
      BY DEF FreshIds
    <2>1. payload[w] \in Payloads /\ Files(payload[w]) \subseteq Paths
      BY ConstantsOK DEF IInv, HasPayload, IsTree
    <2>2. TypeOK'
      BY <2>0, <2>1 DEF IInv, TypeOK, PreCommit
    <2>3. AbsentEmpty' /\ HasPayload' /\ IdleForgets' /\ LinkIntact'
      BY <2>0 DEF IInv, TypeOK, AbsentEmpty, HasPayload, IdleForgets, LinkIntact
    <2>4. Private'
      BY <2>0 DEF IInv, TypeOK, Private, Filling
    <2>5. tree[d] = Part(payload[w], Files(payload[w]))
      BY <2>0, PartNone DEF IInv, AbsentEmpty
    <2>6. Filled'
      BY <2>0, <2>5 DEF IInv, TypeOK, Filled
    <2>7. TmpIsMine' /\ OldRetired' /\ OldNamed' /\ LinkNamed'
      BY DEF IInv, TypeOK, TmpIsMine, OldRetired, OldNamed, LinkNamed, PostCommit
    <2> QED BY <2>2, <2>3, <2>4, <2>6, <2>7 DEF IInv
  <1>3. ASSUME NEW d \in FreshIds,
               Return(w, "error"),
               dirs' = dirs \cup {d},
               UNCHANGED <<tree, dataLink, tmpLink, visible>>
        PROVE  IInv'
    <2> USE <1>3 DEF Return
    <2>1. TypeOK'
      BY DEF IInv, TypeOK, FreshIds
    <2>2. AbsentEmpty' /\ HasPayload' /\ IdleForgets' /\ LinkIntact'
      BY DEF IInv, TypeOK, AbsentEmpty, HasPayload, IdleForgets, LinkIntact
    <2>3. Private'
      BY ConstantsOK DEF IInv, TypeOK, Private, Filling
    <2>4. Filled' /\ TmpIsMine' /\ OldRetired' /\ OldNamed' /\ LinkNamed'
      BY DEF IInv, TypeOK, Filled, TmpIsMine, OldRetired, OldNamed, LinkNamed, Filling, PostCommit
    <2> QED BY <2>1, <2>2, <2>3, <2>4 DEF IInv
  <1> QED BY <1>1, <1>2, <1>3 DEF newTimestampDir

\* writePayloadToDir adds one file to the call's own directory.
LEMMA writePayloadToDirIInv ==
  ASSUME IInv, NEW w \in Writers, writePayloadToDir(w)
  PROVE  IInv'
  <1>1. CASE Abort(w)
    BY <1>1, AbortIInv
  <1>2. ASSUME NEW p \in paths[w], pc[w] = "write",
               tree' = [tree EXCEPT ![ts[w]] = AddFile(@, p, payload[w][p])],
               paths' = [paths EXCEPT ![w] = @ \ {p}],
               UNCHANGED <<dirs, dataLink, tmpLink, visible, pc, payload, oldTS,
                           ts, names, link, lasterr, outcome, tidy>>
        PROVE  IInv'
    <2> USE <1>2
    <2>0. /\ payload[w] \in Payloads /\ IsTree(payload[w])
          /\ p \in Files(payload[w]) /\ p \in Paths /\ payload[w][p] \in Contents
          /\ ts[w] \in dirs /\ ts[w] \in TsIds /\ ts[w] # dataLink
          /\ tree[ts[w]] = Part(payload[w], paths[w])
          /\ paths[w] \subseteq Files(payload[w])
      BY ConstantsOK DEF IInv, HasPayload, IsTree, Filled, Private, Filling, TypeOK
    <2>1. tree'[ts[w]] = AddFile(tree[ts[w]], p, payload[w][p])
      BY <2>0 DEF IInv, TypeOK
    <2>2. tree'[ts[w]] = Part(payload[w], paths[w] \ {p})
      BY <2>0, <2>1, PartAdd
    <2>3. IsTree(tree'[ts[w]])
      BY <2>0, <2>1, AddFileIsTree DEF IInv, TypeOK
    <2>4. \A d \in TsIds : d # ts[w] => tree'[d] = tree[d]
      BY DEF IInv, TypeOK
    <2>5. TypeOK'
      BY <2>3, <2>4 DEF IInv, TypeOK
    <2>6. AbsentEmpty' /\ HasPayload' /\ IdleForgets' /\ LinkIntact'
      BY <2>0, <2>4 DEF IInv, TypeOK, AbsentEmpty, HasPayload, IdleForgets, LinkIntact
    <2>7. Private' /\ TmpIsMine' /\ OldRetired' /\ OldNamed' /\ LinkNamed'
      BY DEF IInv, TypeOK, Private, TmpIsMine, OldRetired, OldNamed, LinkNamed
    <2>8. Filled'
      <3> SUFFICES ASSUME NEW v \in Writers
                   PROVE  /\ pc'[v] = "write" =>
                               /\ paths'[v] \subseteq Files(payload'[v])
                               /\ tree'[ts'[v]] = Part(payload'[v], paths'[v])
                          /\ pc'[v] \in {"links", "symlink", "rename"} =>
                               tree'[ts'[v]] = Render(payload'[v])
        BY DEF Filled
      <3>1. CASE v = w
        BY <3>1, <2>0, <2>2 DEF IInv, TypeOK
      <3>2. CASE v # w
        <4>1. pc[v] \in Filling => ts[v] \in TsIds /\ ts[v] # ts[w]
          BY <3>2, <2>0 DEF IInv, TypeOK, Private, Filling
        <4>2. pc'[v] = pc[v] /\ paths'[v] = paths[v]
          BY <3>2 DEF IInv, TypeOK
        <4> QED BY <4>1, <4>2, <2>4 DEF IInv, Filled, Filling
      <3> QED BY <3>1, <3>2
    <2> QED BY <2>5, <2>6, <2>7, <2>8 DEF IInv
  <1> QED BY <1>1, <1>2 DEF writePayloadToDir

\* The dirFuncs complete the call's own directory.
LEMMA runDirFuncsIInv ==
  ASSUME IInv, NEW w \in Writers, runDirFuncs(w)
  PROVE  IInv'
  <1>1. ASSUME pc[w] = "write", paths[w] = {},
               tree' \in {[tree EXCEPT ![ts[w]] = t] : t \in PartRendered(tree[ts[w]])},
               Return(w, "error"),
               UNCHANGED <<dirs, dataLink, tmpLink, visible>>
        PROVE  IInv'
    <2> USE <1>1 DEF Return, Goto
    <2>0. /\ payload[w] \in Payloads /\ IsTree(payload[w])
          /\ ts[w] \in dirs /\ ts[w] \in TsIds /\ ts[w] # dataLink
          /\ tree[ts[w]] = Part(payload[w], paths[w])
      BY ConstantsOK DEF IInv, HasPayload, Filled, Private, Filling, TypeOK
    <2>1. IsTree(tree'[ts[w]])
      BY <2>0, PartAll, PartRenderedIsTree DEF IInv, TypeOK
    <2>2. DOMAIN tree' = TsIds /\ \A d \in TsIds : d # ts[w] => tree'[d] = tree[d]
      BY DEF IInv, TypeOK
    <2>3. TypeOK'
      BY <2>1, <2>2 DEF IInv, TypeOK
    <2>4. AbsentEmpty' /\ HasPayload' /\ IdleForgets' /\ LinkIntact'
      BY <2>0, <2>2 DEF IInv, TypeOK, AbsentEmpty, HasPayload, IdleForgets, LinkIntact
    <2>5. Private' /\ TmpIsMine' /\ OldRetired' /\ OldNamed' /\ LinkNamed'
      BY ConstantsOK DEF IInv, TypeOK, Private, TmpIsMine, OldRetired, OldNamed, LinkNamed, Filling,
                         PostCommit
    <2>6. \A v \in Writers : pc'[v] \in Filling => v # w /\ ts[v] \in TsIds /\ ts[v] # ts[w]
      BY <2>0 DEF IInv, TypeOK, Private, Filling
    <2>7. Filled'
      BY <2>2, <2>6 DEF IInv, TypeOK, Filled, Filling
    <2> QED BY <2>3, <2>4, <2>5, <2>7 DEF IInv
  <1>2. ASSUME pc[w] = "write", paths[w] = {},
               tree' = [tree EXCEPT ![ts[w]] = Render(@)],
               names' = [names EXCEPT ![w] = Tops(Files(CleanPayload(payload[w])))],
               Goto(w, "links"),
               UNCHANGED <<dirs, dataLink, tmpLink, visible, payload, oldTS, ts,
                           paths, link, lasterr, outcome, tidy>>
        PROVE  IInv'
    <2> USE <1>2 DEF Goto
    <2>0. /\ payload[w] \in Payloads /\ IsTree(payload[w])
          /\ ts[w] \in dirs /\ ts[w] \in TsIds /\ ts[w] # dataLink
          /\ tree[ts[w]] = Part(payload[w], paths[w])
      BY ConstantsOK DEF IInv, HasPayload, Filled, Private, Filling, TypeOK
    <2>1. tree'[ts[w]] = Render(payload[w])
      BY <2>0, PartAll DEF IInv, TypeOK
    <2>2. IsTree(tree'[ts[w]])
      BY <2>0, <2>1, RenderIsTree
    <2>3. \A d \in TsIds : d # ts[w] => tree'[d] = tree[d]
      BY DEF IInv, TypeOK
    <2>4. Tops(Files(CleanPayload(payload[w]))) \subseteq Names
      <3>1. Files(CleanPayload(payload[w])) \subseteq Paths
        BY <2>0, ConstantsOK DEF CleanPayload, Overlay, Files, IsTree
      <3>2. \A q \in Paths : q[1] \in Names
        BY DEF Paths
      <3> QED BY <3>1, <3>2 DEF Tops
    <2>5. TypeOK'
      BY <2>2, <2>3, <2>4 DEF IInv, TypeOK, PreCommit
    <2>6. AbsentEmpty' /\ HasPayload' /\ IdleForgets' /\ LinkIntact'
      BY <2>0, <2>3 DEF IInv, TypeOK, AbsentEmpty, HasPayload, IdleForgets, LinkIntact
    <2>7. Private' /\ TmpIsMine' /\ OldRetired' /\ OldNamed' /\ LinkNamed'
      BY DEF IInv, TypeOK, Private, TmpIsMine, OldRetired, OldNamed, LinkNamed, Filling, PostCommit
    <2>8. Filled'
      <3> SUFFICES ASSUME NEW v \in Writers
                   PROVE  /\ pc'[v] = "write" =>
                               /\ paths'[v] \subseteq Files(payload'[v])
                               /\ tree'[ts'[v]] = Part(payload'[v], paths'[v])
                          /\ pc'[v] \in {"links", "symlink", "rename"} =>
                               tree'[ts'[v]] = Render(payload'[v])
        BY DEF Filled
      <3>1. CASE v = w
        BY <3>1, <2>0, <2>1 DEF IInv, TypeOK
      <3>2. CASE v # w
        <4>1. pc[v] \in Filling => ts[v] \in TsIds /\ ts[v] # ts[w]
          BY <3>2, <2>0 DEF IInv, TypeOK, Private, Filling
        <4>2. pc'[v] = pc[v] /\ paths'[v] = paths[v]
          BY <3>2 DEF IInv, TypeOK
        <4> QED BY <4>1, <4>2, <2>3 DEF IInv, Filled, Filling
      <3> QED BY <3>1, <3>2
    <2> QED BY <2>5, <2>6, <2>7, <2>8 DEF IInv
  <1> QED BY <1>1, <1>2 DEF runDirFuncs

\* createUserVisibleFiles touches only the user-visible links.
LEMMA createUserVisibleFilesIInv ==
  ASSUME IInv, NEW w \in Writers, createUserVisibleFiles(w)
  PROVE  IInv'
  <1>1. CASE Abort(w)
    BY <1>1, AbortIInv
  <1>2. ASSUME NEW n \in names[w], pc[w] = "links",
               names' = [names EXCEPT ![w] = @ \ {n}],
               \/ UNCHANGED <<pc, link>>
               \/ Goto(w, "symlink") /\ link' = [link EXCEPT ![w] = n],
               UNCHANGED <<disk, payload, oldTS, ts, paths, lasterr, outcome, tidy>>
        PROVE  IInv'
    <2> USE <1>2 DEF Goto, disk
    <2>1. TypeOK'
      BY DEF IInv, TypeOK, PreCommit
    <2>2. AbsentEmpty' /\ HasPayload' /\ IdleForgets' /\ LinkIntact' /\ Private'
      BY DEF IInv, TypeOK, AbsentEmpty, HasPayload, IdleForgets, LinkIntact, Private, Filling
    <2>3. Filled'
      BY DEF IInv, TypeOK, Filled
    <2>4. TmpIsMine' /\ OldRetired' /\ OldNamed' /\ LinkNamed'
      BY DEF IInv, TypeOK, TmpIsMine, OldRetired, OldNamed, LinkNamed, PostCommit
    <2> QED BY <2>1, <2>2, <2>3, <2>4 DEF IInv
  <1>3. ASSUME pc[w] = "symlink", link[w] \notin visible,
               visible' = visible \cup {link[w]},
               link' = [link EXCEPT ![w] = NoName],
               Goto(w, "links"),
               UNCHANGED <<dirs, tree, dataLink, tmpLink, payload, oldTS, ts, paths,
                           names, lasterr, outcome, tidy>>
        PROVE  IInv'
    <2> USE <1>3 DEF Goto
    <2>1. TypeOK'
      BY DEF IInv, TypeOK, PreCommit, LinkNamed
    <2>2. AbsentEmpty' /\ HasPayload' /\ IdleForgets' /\ LinkIntact' /\ Private'
      BY DEF IInv, TypeOK, AbsentEmpty, HasPayload, IdleForgets, LinkIntact, Private, Filling
    <2>3. Filled'
      BY DEF IInv, TypeOK, Filled
    <2>4. TmpIsMine' /\ OldRetired' /\ OldNamed' /\ LinkNamed'
      BY DEF IInv, TypeOK, TmpIsMine, OldRetired, OldNamed, LinkNamed, PostCommit
    <2> QED BY <2>1, <2>2, <2>3, <2>4 DEF IInv
  <1> QED BY <1>1, <1>2, <1>3 DEF createUserVisibleFiles

\* A call that fails before the commit may remove its own directory: nothing
\* else refers to it.
LEMMA RemoveOwnIInv ==
  ASSUME IInv, NEW w \in Writers, pc[w] \in Filling,
         RemoveDir(ts[w]), Return(w, "error"),
         UNCHANGED <<dataLink, visible>>,
         tmpLink' = tmpLink \/ (pc[w] = "rename" /\ tmpLink' = NoTs)
  PROVE  IInv'
  <1> USE DEF Return, Goto, RemoveDir
  <1>0. ts[w] \in TsIds /\ ts[w] # dataLink
    BY DEF IInv, TypeOK, Private
  <1>1. /\ tree'[ts[w]] = EmptyTree
        /\ \A d \in TsIds : d # ts[w] => tree'[d] = tree[d]
    BY <1>0 DEF IInv, TypeOK
  <1>2. TypeOK'
    BY <1>0, <1>1, EmptyTreeIsTree DEF IInv, TypeOK
  <1>3. AbsentEmpty' /\ HasPayload' /\ IdleForgets' /\ LinkIntact'
    BY <1>0, <1>1 DEF IInv, TypeOK, AbsentEmpty, HasPayload, IdleForgets, LinkIntact
  <1>4. Private'
    BY <1>0, ConstantsOK DEF IInv, TypeOK, Private, Filling
  <1>5. Filled'
    <2> SUFFICES ASSUME NEW v \in Writers, v # w
                 PROVE  /\ pc[v] = "write" =>
                             /\ paths[v] \subseteq Files(payload[v])
                             /\ tree'[ts[v]] = Part(payload[v], paths[v])
                        /\ pc[v] \in {"links", "symlink", "rename"} =>
                             tree'[ts[v]] = Render(payload[v])
      BY DEF IInv, TypeOK, Filled
    <2>1. pc[v] \in Filling => ts[v] \in TsIds /\ ts[v] # ts[w]
      BY DEF IInv, TypeOK, Private, Filling
    <2> QED BY <2>1, <1>1 DEF IInv, Filled, Filling
  <1>6. TmpIsMine'
    \* two calls at "rename" would share ..data_tmp, hence a directory
    <2> SUFFICES ASSUME NEW v \in Writers, v # w, pc[v] = "rename"
                 PROVE  tmpLink' = ts[v]
      BY DEF IInv, TypeOK, TmpIsMine
    <2> QED BY DEF IInv, TmpIsMine, Private, Filling
  <1>7. OldRetired' /\ OldNamed' /\ LinkNamed'
    BY DEF IInv, TypeOK, OldRetired, OldNamed, LinkNamed, PostCommit
  <1> QED BY <1>2, <1>3, <1>4, <1>5, <1>6, <1>7 DEF IInv

\* Making ..data_tmp succeeds for one call at a time.
LEMMA symlinkTmpIInv ==
  ASSUME IInv, NEW w \in Writers, symlinkTmp(w)
  PROVE  IInv'
  <1>1. ASSUME pc[w] = "links", RemoveDir(ts[w]), Return(w, "error"),
               UNCHANGED <<dataLink, tmpLink, visible>>
        PROVE  IInv'
    BY <1>1, RemoveOwnIInv DEF Filling
  <1>2. ASSUME pc[w] = "links", tmpLink = NoTs, tmpLink' = ts[w], Goto(w, "rename"),
               UNCHANGED <<dirs, tree, dataLink, visible, locals, outcome, tidy>>
        PROVE  IInv'
    <2> USE <1>2 DEF Goto, locals
    <2>1. TypeOK'
      BY DEF IInv, TypeOK, PreCommit
    <2>2. AbsentEmpty' /\ HasPayload' /\ IdleForgets' /\ LinkIntact' /\ Private'
      BY DEF IInv, TypeOK, AbsentEmpty, HasPayload, IdleForgets, LinkIntact, Private, Filling
    <2>3. Filled'
      BY DEF IInv, TypeOK, Filled
    <2>4. TmpIsMine'
      \* no other call can be at "rename": ..data_tmp did not exist
      BY ConstantsOK DEF IInv, TypeOK, TmpIsMine, Private, Filling
    <2>5. OldRetired' /\ OldNamed' /\ LinkNamed'
      BY DEF IInv, TypeOK, OldRetired, OldNamed, LinkNamed, PostCommit
    <2> QED BY <2>1, <2>2, <2>3, <2>4, <2>5 DEF IInv
  <1> QED BY <1>1, <1>2 DEF symlinkTmp

\* The rename makes the call's own, complete directory the live one.
LEMMA renameIInv ==
  ASSUME IInv, NEW w \in Writers, rename(w)
  PROVE  IInv'
  <1>1. ASSUME pc[w] = "rename", tmpLink' \in {tmpLink, NoTs}, RemoveDir(ts[w]),
               Return(w, "error"), UNCHANGED <<dataLink, visible>>
        PROVE  IInv'
    BY <1>1, RemoveOwnIInv DEF Filling
  <1>2. ASSUME pc[w] = "rename", tmpLink' = NoTs, dataLink' = tmpLink,
               Goto(w, "paths"),
               UNCHANGED <<dirs, tree, visible, locals, outcome, tidy>>
        PROVE  IInv'
    <2> USE <1>2 DEF Goto, locals
    <2>0. /\ tmpLink = ts[w] /\ ts[w] \in dirs /\ ts[w] \in TsIds
          /\ tree[ts[w]] = Render(payload[w]) /\ payload[w] \in Payloads
          /\ \A v \in Writers : oldTS[v] # ts[w]
          /\ \A v \in Writers : v # w => ts[v] # ts[w]
      BY DEF IInv, TypeOK, TmpIsMine, Private, Filled, HasPayload, Filling
    <2>1. TypeOK'
      BY <2>0 DEF IInv, TypeOK, PostCommit
    <2>2. AbsentEmpty' /\ HasPayload' /\ IdleForgets' /\ LinkIntact'
      BY <2>0 DEF IInv, TypeOK, AbsentEmpty, HasPayload, IdleForgets, LinkIntact
    <2>3. Private'
      BY <2>0 DEF IInv, TypeOK, Private, Filling
    <2>4. Filled'
      BY DEF IInv, TypeOK, Filled
    <2>5. TmpIsMine'
      \* w was the only call at "rename"
      BY <2>0 DEF IInv, TypeOK, TmpIsMine
    <2>6. OldRetired'
      BY <2>0 DEF OldRetired
    <2>7. OldNamed' /\ LinkNamed'
      BY DEF IInv, TypeOK, OldNamed, LinkNamed, PostCommit
    <2> QED BY <2>1, <2>2, <2>3, <2>4, <2>5, <2>6, <2>7 DEF IInv
  <1> QED BY <1>1, <1>2 DEF rename

\* Steps after the commit that touch neither a directory nor ..data.
LEMMA ReturnIInv ==
  ASSUME IInv, NEW w \in Writers, NEW result \in {"ok", "error"},
         Return(w, result), UNCHANGED disk
  PROVE  IInv'
  <1> USE DEF Return, Goto, disk
  <1>1. TypeOK'
    BY DEF IInv, TypeOK
  <1>2. AbsentEmpty' /\ HasPayload' /\ IdleForgets' /\ LinkIntact'
    BY DEF IInv, TypeOK, AbsentEmpty, HasPayload, IdleForgets, LinkIntact
  <1>3. Private'
    BY ConstantsOK DEF IInv, TypeOK, Private, Filling
  <1>4. Filled' /\ TmpIsMine' /\ OldRetired' /\ OldNamed' /\ LinkNamed'
    BY DEF IInv, TypeOK, Filled, TmpIsMine, OldRetired, OldNamed, LinkNamed, Filling, PostCommit
  <1> QED BY <1>1, <1>2, <1>3, <1>4 DEF IInv

\* pathsToRemove only reads the old directory.
LEMMA pathsToRemoveIInv ==
  ASSUME IInv, NEW w \in Writers, pathsToRemove(w)
  PROVE  IInv'
  <1>1. CASE oldTS[w] = NoTs
    BY <1>1, ReturnIInv DEF pathsToRemove
  <1>2. CASE oldTS[w] # NoTs
    <2> USE <1>2 DEF pathsToRemove, Goto, disk
    <2>0. oldTS[w] \in TsIds
      BY DEF IInv, TypeOK
    <2>1. Entries(tree[oldTS[w]]) \subseteq Paths
      <3>1. Files(tree[oldTS[w]]) \subseteq Paths
        BY <2>0 DEF IInv, TypeOK, IsTree
      <3>2. \A p \in Paths : Parent(p) \in Paths
        BY DEF Paths, Parent
      <3> QED BY <3>1, <3>2 DEF Entries
    <2>2. TypeOK'
      BY <2>1 DEF IInv, TypeOK, PostCommit
    <2>3. AbsentEmpty' /\ HasPayload' /\ IdleForgets' /\ LinkIntact' /\ Private'
      BY DEF IInv, TypeOK, AbsentEmpty, HasPayload, IdleForgets, LinkIntact, Private, Filling
    <2>4. Filled'
      BY DEF IInv, TypeOK, Filled
    <2>5. TmpIsMine' /\ OldRetired' /\ OldNamed' /\ LinkNamed'
      BY <2>0 DEF IInv, TypeOK, TmpIsMine, OldRetired, OldNamed, LinkNamed, PostCommit
    <2> QED BY <2>2, <2>3, <2>4, <2>5 DEF IInv
  <1> QED BY <1>1, <1>2

\* The comparison with the old directory changes no directory.
LEMMA decideUpdateIInv ==
  ASSUME IInv, NEW w \in Writers, decideUpdate(w)
  PROVE  IInv'
  <1>1. CASE Abort(w)
    BY <1>1, AbortIInv
  <1>2. CASE Return(w, "ok") /\ UNCHANGED disk
    BY <1>2, ReturnIInv
  <1>3. ASSUME pc[w] = "should", Goto(w, "prune"),
               names' = [names EXCEPT ![w] = {n \in Names : <<n>> \in paths[w]}],
               UNCHANGED <<disk, payload, oldTS, ts, paths, link, lasterr,
                           outcome, tidy>>
        PROVE  IInv'
    <2> USE <1>3 DEF Goto, disk
    <2>1. TypeOK'
      BY DEF IInv, TypeOK, PostCommit
    <2>2. AbsentEmpty' /\ HasPayload' /\ IdleForgets' /\ LinkIntact' /\ Private'
      BY DEF IInv, TypeOK, AbsentEmpty, HasPayload, IdleForgets, LinkIntact, Private, Filling
    <2>3. Filled'
      BY DEF IInv, TypeOK, Filled
    <2>4. TmpIsMine' /\ OldRetired' /\ OldNamed' /\ LinkNamed'
      BY DEF IInv, TypeOK, TmpIsMine, OldRetired, OldNamed, LinkNamed, PostCommit
    <2> QED BY <2>1, <2>2, <2>3, <2>4 DEF IInv
  <1> QED BY <1>1, <1>2, <1>3 DEF decideUpdate

\* removeUserVisiblePaths touches only the user-visible links.
LEMMA removeUserVisiblePathsIInv ==
  ASSUME IInv, NEW w \in Writers, removeUserVisiblePaths(w)
  PROVE  IInv'
  <1>1. CASE Abort(w)
    BY <1>1, AbortIInv
  <1>2. ASSUME NEW n \in names[w], pc[w] = "prune",
               names' = [names EXCEPT ![w] = @ \ {n}],
               \/ visible' = visible \ {n} /\ UNCHANGED lasterr
               \/ lasterr' = [lasterr EXCEPT ![w] = TRUE] /\ UNCHANGED visible,
               UNCHANGED <<dirs, tree, dataLink, tmpLink, pc, payload, oldTS, ts,
                           paths, link, outcome, tidy>>
        PROVE  IInv'
    <2> USE <1>2
    <2>1. TypeOK'
      BY DEF IInv, TypeOK
    <2>2. AbsentEmpty' /\ HasPayload' /\ IdleForgets' /\ LinkIntact' /\ Private'
      BY DEF IInv, AbsentEmpty, HasPayload, IdleForgets, LinkIntact, Private
    <2>3. Filled' /\ TmpIsMine' /\ OldRetired' /\ OldNamed' /\ LinkNamed'
      BY DEF IInv, Filled, TmpIsMine, OldRetired, OldNamed, LinkNamed
    <2> QED BY <2>1, <2>2, <2>3 DEF IInv
  <1>3. ASSUME pc[w] = "prune", Goto(w, "rmOld"),
               UNCHANGED <<disk, locals, outcome, tidy>>
        PROVE  IInv'
    <2> USE <1>3 DEF Goto, disk, locals
    <2>1. TypeOK'
      BY DEF IInv, TypeOK, PostCommit
    <2>2. AbsentEmpty' /\ HasPayload' /\ IdleForgets' /\ LinkIntact' /\ Private'
      BY DEF IInv, TypeOK, AbsentEmpty, HasPayload, IdleForgets, LinkIntact, Private, Filling
    <2>3. Filled'
      BY DEF IInv, TypeOK, Filled
    <2>4. TmpIsMine' /\ OldRetired' /\ OldNamed' /\ LinkNamed'
      BY DEF IInv, TypeOK, TmpIsMine, OldRetired, OldNamed, LinkNamed, PostCommit
    <2> QED BY <2>1, <2>2, <2>3, <2>4 DEF IInv
  <1> QED BY <1>1, <1>2, <1>3 DEF removeUserVisiblePaths

\* What happens inside the old directory concerns neither ..data nor a call
\* that is filling a directory.
LEMMA OldTreeIInv ==
  ASSUME IInv, NEW w \in Writers, pc[w] = "rmOld",
         NEW t, IsTree(t), oldTS[w] \notin dirs => t = EmptyTree,
         tree' = [tree EXCEPT ![oldTS[w]] = t],
         UNCHANGED <<dirs, dataLink, tmpLink, visible, pc, locals, outcome, tidy>>
  PROVE  IInv'
  <1> USE DEF locals
  <1>0. /\ oldTS[w] \in TsIds /\ oldTS[w] # dataLink
        /\ tree'[oldTS[w]] = t
        /\ \A d \in TsIds : d # oldTS[w] => tree'[d] = tree[d]
    BY DEF IInv, TypeOK, OldNamed, OldRetired, PostCommit
  <1>1. TypeOK'
    BY <1>0 DEF IInv, TypeOK
  <1>2. AbsentEmpty' /\ HasPayload' /\ IdleForgets' /\ LinkIntact'
    BY <1>0 DEF IInv, TypeOK, AbsentEmpty, HasPayload, IdleForgets, LinkIntact
  <1>3. Private' /\ TmpIsMine' /\ OldRetired' /\ OldNamed' /\ LinkNamed'
    BY DEF IInv, Private, TmpIsMine, OldRetired, OldNamed, LinkNamed
  <1>4. Filled'
    BY <1>0 DEF IInv, TypeOK, Filled, Private, Filling
  <1> QED BY <1>1, <1>2, <1>3, <1>4 DEF IInv

\* The old directory is emptied and removed; it is not the live one.
LEMMA removeOldDirIInv ==
  ASSUME IInv, NEW w \in Writers, removeOldDir(w)
  PROVE  IInv'
  <1>0. pc[w] = "rmOld" /\ oldTS[w] \in TsIds /\ oldTS[w] # dataLink
    BY DEF removeOldDir, IInv, OldNamed, OldRetired, PostCommit
  <1>1. CASE Abort(w)
    BY <1>1, AbortIInv
  <1>2. ASSUME NEW p \in Files(tree[oldTS[w]]),
               tree' = [tree EXCEPT ![oldTS[w]] = DropFile(@, p)],
               UNCHANGED <<dirs, dataLink, tmpLink, visible, pc, locals, outcome, tidy>>
        PROVE  IInv'
    <2>1. IsTree(DropFile(tree[oldTS[w]], p))
      BY <1>0, DropFileIsTree DEF IInv, TypeOK
    <2>2. oldTS[w] \in dirs
      BY <1>0, <1>2 DEF IInv, AbsentEmpty, EmptyTree, Files
    <2>3. tree' = [tree EXCEPT ![oldTS[w]] = DropFile(tree[oldTS[w]], p)]
      BY <1>2
    <2> QED BY <1>0, <1>2, <2>1, <2>2, <2>3, OldTreeIInv
  <1>3. ASSUME RemoveDir(oldTS[w]), Return(w, "ok"),
               UNCHANGED <<dataLink, tmpLink, visible>>
        PROVE  IInv'
    <2> USE <1>3 DEF Return, Goto, RemoveDir
    <2>1. /\ tree'[oldTS[w]] = EmptyTree
          /\ \A d \in TsIds : d # oldTS[w] => tree'[d] = tree[d]
      BY <1>0 DEF IInv, TypeOK
    <2>2. TypeOK'
      BY <1>0, <2>1, EmptyTreeIsTree DEF IInv, TypeOK
    <2>3. AbsentEmpty' /\ HasPayload' /\ IdleForgets' /\ LinkIntact'
      BY <1>0, <2>1 DEF IInv, TypeOK, AbsentEmpty, HasPayload, IdleForgets, LinkIntact
    <2>4. Private'
      BY ConstantsOK DEF IInv, TypeOK, Private, Filling
    <2>5. Filled'
      <3> SUFFICES ASSUME NEW v \in Writers, v # w
                   PROVE  /\ pc[v] = "write" =>
                               /\ paths[v] \subseteq Files(payload[v])
                               /\ tree'[ts[v]] = Part(payload[v], paths[v])
                          /\ pc[v] \in {"links", "symlink", "rename"} =>
                               tree'[ts[v]] = Render(payload[v])
        BY DEF IInv, TypeOK, Filled
      <3>1. pc[v] \in Filling => ts[v] \in TsIds /\ ts[v] # oldTS[w]
        BY DEF IInv, TypeOK, Private, Filling
      <3> QED BY <3>1, <2>1 DEF IInv, Filled, Filling
    <2>6. TmpIsMine' /\ OldRetired' /\ OldNamed' /\ LinkNamed'
      BY DEF IInv, TypeOK, TmpIsMine, OldRetired, OldNamed, LinkNamed, PostCommit
    <2> QED BY <2>2, <2>3, <2>4, <2>5, <2>6 DEF IInv
  <1> QED BY <1>1, <1>2, <1>3 DEF removeOldDir

\* A crash forgets every call and leaves the directory as it is.
LEMMA CrashIInv ==
  ASSUME IInv, Crash
  PROVE  IInv'
  <1> USE DEF Crash, disk
  <1>1. TypeOK'
    BY DEF IInv, TypeOK
  <1>2. AbsentEmpty' /\ HasPayload' /\ IdleForgets' /\ LinkIntact'
    BY DEF IInv, AbsentEmpty, HasPayload, IdleForgets, LinkIntact
  <1>3. Private' /\ Filled' /\ TmpIsMine' /\ OldRetired' /\ OldNamed' /\ LinkNamed'
    BY DEF Private, Filled, TmpIsMine, OldRetired, OldNamed, LinkNamed, Filling, PostCommit
  <1> QED BY <1>1, <1>2, <1>3 DEF IInv

\* A stuttering step changes nothing.
LEMMA StutterIInv ==
  ASSUME IInv, UNCHANGED vars
  PROVE  IInv'
  <1> USE DEF vars, disk, locals
  <1>1. TypeOK'
    BY DEF IInv, TypeOK
  <1>2. AbsentEmpty' /\ HasPayload' /\ IdleForgets' /\ LinkIntact' /\ Private' /\ Filled'
    BY DEF IInv, AbsentEmpty, HasPayload, IdleForgets, LinkIntact, Private, Filled
  <1>3. TmpIsMine' /\ OldRetired' /\ OldNamed' /\ LinkNamed'
    BY DEF IInv, TmpIsMine, OldRetired, OldNamed, LinkNamed
  <1> QED BY <1>1, <1>2, <1>3 DEF IInv

\* The invariant is inductive: the argument is that a directory is private to
\* one call until its rename, and that after its rename a call only touches a
\* directory that ..data can no longer come to point to.
LEMMA NextIInv == IInv /\ [Next]_vars => IInv'
  <1> SUFFICES ASSUME IInv, [Next]_vars PROVE IInv'
    OBVIOUS
  <1>1. ASSUME NEW w \in Writers, Step(w) PROVE IInv'
    BY <1>1, WriteIInv, newTimestampDirIInv, writePayloadToDirIInv, runDirFuncsIInv,
       createUserVisibleFilesIInv, symlinkTmpIInv, renameIInv, pathsToRemoveIInv,
       decideUpdateIInv, removeUserVisiblePathsIInv, removeOldDirIInv
       DEF Step
  <1> QED BY <1>1, CrashIInv, StutterIInv DEF Next

\* The inductive invariant holds throughout every behaviour of Write.
THEOREM Inductive == Spec => []IInv
  BY InitIInv, NextIInv, PTL DEF Spec

-----------------------------------------------------------------------------
(* The results.                                                              *)

\* Every variable keeps its type; in particular every directory is a tree.
THEOREM TypeCorrect == Spec => []TypeOK
  <1>1. IInv => TypeOK
    BY DEF IInv
  <1> QED BY <1>1, Inductive, PTL

\* ..data never dangles and always shows one complete rendering, for any
\* number of callers, whatever overlaps, crashes or fails.
THEOREM LinkAlwaysIntact == Spec => []LinkIntact
  <1>1. IInv => LinkIntact
    BY DEF IInv
  <1> QED BY <1>1, Inductive, PTL

-----------------------------------------------------------------------------
(* Write implements AtomicProjection.                                        *)

\* The steps before and after the rename that leave ..data's directory alone
\* and keep the call on its side of the commit are stutters of the projection.
LEMMA QuietStep ==
  ASSUME TypeOK, NEW w \in Writers, NEW label, Goto(w, label),
         phaseOf(label) = phaseOf(pc[w]),
         UNCHANGED <<dataLink, payload, outcome>>,
         dataLink # NoTs => tree'[dataLink] = tree[dataLink]
  PROVE  UNCHANGED Projection!vars
  <1>1. [v \in Writers |-> phaseOf(pc[v])]' = [v \in Writers |-> phaseOf(pc[v])]
    BY DEF TypeOK, Goto
  <1> QED BY <1>1 DEF Projection!vars

\* Returning ends the call in the projection too; only a call past its rename
\* returns "ok".
LEMMA ReturnStep ==
  ASSUME TypeOK, NEW w \in Writers, NEW result \in {"ok", "error"}, Return(w, result),
         pc[w] # "idle", result = "ok" => pc[w] \in PostCommit,
         UNCHANGED dataLink,
         dataLink # NoTs => tree'[dataLink] = tree[dataLink]
  PROVE  Projection!Next
  <1>1. phaseOf(pc[w]) # "idle" /\ (result = "ok" => phaseOf(pc[w]) = "committed")
    BY DEF phaseOf, PreCommit, PostCommit
  <1>2. [v \in Writers |-> phaseOf(pc[v])]'
          = [[v \in Writers |-> phaseOf(pc[v])] EXCEPT ![w] = "idle"]
    <2>1. phaseOf("idle") = "idle"
      BY DEF phaseOf, PreCommit
    <2> QED BY <2>1 DEF TypeOK, Return, Goto
  <1>3. Projection!Return(w, result)
    BY <1>1, <1>2 DEF Projection!Return, Return
  <1> QED BY <1>3 DEF Projection!Next

\* An early return is a refused call, or the end of a call that failed.
LEMMA AbortStep ==
  ASSUME TypeOK, NEW w \in Writers, Abort(w), pc[w] # "idle"
  PROVE  Projection!Next
  BY ReturnStep DEF Abort, disk

\* A Write begins as a request, or is refused.
LEMMA WriteStep ==
  ASSUME IInv, NEW w \in Writers, NEW p \in Payloads, Write(w, p)
  PROVE  [Projection!Next]_(Projection!vars)
  <1>0. phaseOf("idle") = "idle" /\ phaseOf("mkdir") = "asked" /\ pc[w] = "idle"
    BY DEF phaseOf, PreCommit, Write
  <1>1. CASE ~Abort(w)
    <2>1. [v \in Writers |-> phaseOf(pc[v])]'
            = [[v \in Writers |-> phaseOf(pc[v])] EXCEPT ![w] = "asked"]
      BY <1>0, <1>1 DEF IInv, TypeOK, Write, Goto
    <2>2. Projection!Ask(w, p)
      BY <1>0, <1>1, <2>1 DEF Write, disk, Projection!Ask
    <2> QED BY <2>2 DEF Projection!Next
  <1>2. CASE Abort(w)
    <2>1. [v \in Writers |-> phaseOf(pc[v])]' = [v \in Writers |-> phaseOf(pc[v])]
      BY <1>0, <1>2 DEF IInv, TypeOK, Write, Abort, Return, Goto
    <2>2. payload' = payload
      <3>1. payload[w] = NoPayload
        BY <1>0 DEF IInv, IdleForgets
      <3> QED BY <3>1, <1>2 DEF IInv, TypeOK, Write, Abort, Return
    <2>3. Projection!Reject(w)
      BY <1>0, <1>2, <2>1, <2>2 DEF Write, Abort, Return, disk, Projection!Reject
    <2> QED BY <2>3 DEF Projection!Next
  <1> QED BY <1>1, <1>2

\* The rename is the commit: it shows the complete rendering of the call's
\* own payload.
LEMMA RenameStep ==
  ASSUME IInv, NEW w \in Writers, pc[w] = "rename", dataLink' = tmpLink,
         Goto(w, "paths"), UNCHANGED <<tree, locals, outcome>>
  PROVE  Projection!Next
  <1>0. phaseOf("rename") = "asked" /\ phaseOf("paths") = "committed"
    BY DEF phaseOf, PreCommit
  <1>1. [v \in Writers |-> phaseOf(pc[v])]'
          = [[v \in Writers |-> phaseOf(pc[v])] EXCEPT ![w] = "committed"]
    BY <1>0 DEF IInv, TypeOK, Goto
  <1>2. dataLink' # NoTs /\ tree'[dataLink'] = Render(payload[w])
    BY ConstantsOK DEF IInv, TypeOK, TmpIsMine, Private, Filled, Filling
  <1>3. Projection!Commit(w)
    BY <1>0, <1>1, <1>2 DEF Projection!Commit, locals
  <1> QED BY <1>3 DEF Projection!Next

\* Every step of Write is a step of the projection or a stutter.
LEMMA StepRefines ==
  ASSUME IInv, NEW w \in Writers, Step(w)
  PROVE  [Projection!Next]_(Projection!vars)
  <1>t. TypeOK
    BY DEF IInv
  <1>p. /\ phaseOf("mkdir") = "asked" /\ phaseOf("write") = "asked"
        /\ phaseOf("links") = "asked" /\ phaseOf("symlink") = "asked"
        /\ phaseOf("rename") = "asked" /\ phaseOf("paths") = "committed"
        /\ phaseOf("should") = "committed" /\ phaseOf("prune") = "committed"
        /\ phaseOf("rmOld") = "committed"
    BY DEF phaseOf, PreCommit
  <1>l. /\ dataLink \in TsIds \cup {NoTs}
        /\ pc[w] \in Filling => ts[w] \in TsIds /\ ts[w] # dataLink
        /\ pc[w] \in PostCommit => oldTS[w] # dataLink
    BY DEF IInv, TypeOK, Private, OldRetired
  <1>s. \A label \in {pc[w]} : Goto(w, label) <=> pc' = pc
    BY DEF IInv, TypeOK, Goto
  <1>1. CASE \E p \in Payloads : Write(w, p)
    BY <1>1, WriteStep
  <1>2. CASE newTimestampDir(w)
    BY <1>2, <1>t, <1>p, AbortStep, ReturnStep, QuietStep DEF newTimestampDir
  <1>3. CASE writePayloadToDir(w)
    <2>1. CASE Abort(w)
      BY <1>3, <2>1, <1>t, AbortStep DEF writePayloadToDir
    <2>2. CASE ~Abort(w)
      <3>1. \A d \in TsIds : d # ts[w] => tree'[d] = tree[d]
        BY <1>3, <2>2 DEF writePayloadToDir, IInv, TypeOK
      <3>2. dataLink # NoTs => tree'[dataLink] = tree[dataLink]
        BY <1>3, <1>l, <3>1 DEF writePayloadToDir, Filling
      <3> QED BY <1>3, <2>2, <3>2, <1>t, <1>s, QuietStep DEF writePayloadToDir
    <2> QED BY <2>1, <2>2
  <1>4. CASE runDirFuncs(w)
    <2>1. \A d \in TsIds : d # ts[w] => tree'[d] = tree[d]
      BY <1>4 DEF runDirFuncs, IInv, TypeOK
    <2>2. dataLink # NoTs => tree'[dataLink] = tree[dataLink]
      BY <1>4, <1>l, <2>1 DEF runDirFuncs, Filling
    <2>3. CASE Return(w, "error")
      BY <1>4, <2>2, <2>3, <1>t, ReturnStep DEF runDirFuncs
    <2>4. CASE ~Return(w, "error")
      BY <1>4, <2>2, <2>4, <1>t, <1>p, QuietStep DEF runDirFuncs
    <2> QED BY <2>3, <2>4
  <1>5. CASE createUserVisibleFiles(w)
    <2>1. CASE Abort(w)
      BY <1>5, <2>1, <1>t, AbortStep DEF createUserVisibleFiles
    <2>2. CASE ~Abort(w)
      <3>1. UNCHANGED <<dataLink, tree, payload, outcome>>
        BY <1>5, <2>2 DEF createUserVisibleFiles, disk
      <3>2. \E label \in {"links", "symlink"} :
               Goto(w, label) /\ pc[w] \in {"links", "symlink"}
        BY <1>5, <2>2, <1>s DEF createUserVisibleFiles
      <3> QED BY <3>1, <3>2, <1>t, <1>p, QuietStep
    <2> QED BY <2>1, <2>2
  <1>6. CASE symlinkTmp(w)
    <2>1. ASSUME RemoveDir(ts[w]), Return(w, "error"), UNCHANGED dataLink,
                 pc[w] = "links"
          PROVE  Projection!Next
      <3>1. dataLink # NoTs => tree'[dataLink] = tree[dataLink]
        BY <2>1, <1>l DEF RemoveDir, IInv, TypeOK, Filling
      <3> QED BY <2>1, <3>1, <1>t, ReturnStep
    <2>2. ASSUME Goto(w, "rename"), pc[w] = "links",
                 UNCHANGED <<tree, dataLink, locals, outcome>>
          PROVE  UNCHANGED Projection!vars
      BY <2>2, <1>t, <1>p, QuietStep DEF locals
    <2> QED BY <1>6, <2>1, <2>2 DEF symlinkTmp
  <1>7. CASE rename(w)
    <2>1. ASSUME RemoveDir(ts[w]), Return(w, "error"), UNCHANGED dataLink,
                 pc[w] = "rename"
          PROVE  Projection!Next
      <3>1. dataLink # NoTs => tree'[dataLink] = tree[dataLink]
        BY <2>1, <1>l DEF RemoveDir, IInv, TypeOK, Filling
      <3> QED BY <2>1, <3>1, <1>t, ReturnStep
    <2> QED BY <1>7, <2>1, RenameStep DEF rename
  <1>8. CASE pathsToRemove(w)
    <2>1. CASE oldTS[w] = NoTs
      BY <1>8, <2>1, <1>t, ReturnStep DEF pathsToRemove, disk, PostCommit
    <2>2. CASE oldTS[w] # NoTs
      BY <1>8, <2>2, <1>t, <1>p, QuietStep DEF pathsToRemove, disk
    <2> QED BY <2>1, <2>2
  <1>9. CASE decideUpdate(w)
    <2>1. ASSUME pc[w] = "should", Return(w, "ok"), UNCHANGED disk
          PROVE  Projection!Next
      BY <2>1, <1>t, ReturnStep DEF disk, PostCommit
    <2>2. ASSUME pc[w] = "should", Goto(w, "prune"),
                 UNCHANGED <<disk, payload, outcome>>
          PROVE  UNCHANGED Projection!vars
      BY <2>2, <1>t, <1>p, QuietStep DEF disk
    <2>3. ASSUME pc[w] = "should", Abort(w) PROVE Projection!Next
      BY <2>3, <1>t, AbortStep
    <2> QED BY <1>9, <2>1, <2>2, <2>3 DEF decideUpdate
  <1>10. CASE removeUserVisiblePaths(w)
    <2>1. CASE Abort(w)
      BY <1>10, <2>1, <1>t, AbortStep DEF removeUserVisiblePaths
    <2>2. CASE ~Abort(w)
      <3>1. UNCHANGED <<dataLink, tree, payload, outcome>>
        BY <1>10, <2>2 DEF removeUserVisiblePaths, disk, locals
      <3>2. \E label \in {"prune", "rmOld"} : Goto(w, label) /\ pc[w] = "prune"
        BY <1>10, <2>2, <1>s DEF removeUserVisiblePaths
      <3> QED BY <3>1, <3>2, <1>t, <1>p, QuietStep
    <2> QED BY <2>1, <2>2
  <1>11. CASE removeOldDir(w)
    <2>0. pc[w] = "rmOld"
      BY <1>11 DEF removeOldDir
    <2>1. CASE Abort(w)
      BY <2>0, <2>1, <1>t, AbortStep
    <2>2. CASE ~Abort(w)
      <3>1. UNCHANGED dataLink /\ (dataLink # NoTs => tree'[dataLink] = tree[dataLink])
        BY <1>11, <2>0, <2>2, <1>l DEF removeOldDir, RemoveDir, IInv, TypeOK, PostCommit
      <3>2. ASSUME UNCHANGED <<pc, locals, outcome>> PROVE UNCHANGED Projection!vars
        BY <3>1, <3>2, <1>t, <1>s, QuietStep DEF locals
      <3>3. ASSUME Return(w, "ok") PROVE Projection!Next
        BY <3>1, <3>3, <2>0, <1>t, ReturnStep DEF PostCommit
      <3> QED BY <1>11, <2>2, <3>2, <3>3 DEF removeOldDir
    <2> QED BY <2>1, <2>2
  <1> QED BY <1>1, <1>2, <1>3, <1>4, <1>5, <1>6, <1>7, <1>8, <1>9, <1>10, <1>11 DEF Step

\* Write implements its abstract specification: every call takes effect at
\* most once, in the one step of its rename, with the complete rendering of
\* its own payload, and never returns nil without having taken effect.
THEOREM WriteImplementsProjection == Spec => ImplementsProjection
  <1>1. Init => Projection!Init
    <2>1. phaseOf("idle") = "idle"
      BY DEF phaseOf, PreCommit
    <2> QED BY <2>1 DEF Init, Projection!Init
  <1>2. IInv /\ [Next]_vars => [Projection!Next]_(Projection!vars)
    <2> SUFFICES ASSUME IInv, [Next]_vars
                 PROVE  [Projection!Next]_(Projection!vars)
      OBVIOUS
    <2>1. CASE Crash
      <3>1. phaseOf("idle") = "idle"
        BY DEF phaseOf, PreCommit
      <3>2. Projection!Crash
        BY <2>1, <3>1 DEF Crash, disk, Projection!Crash
      <3> QED BY <3>2 DEF Projection!Next
    <2>2. CASE UNCHANGED vars
      BY <2>2 DEF vars, disk, locals, Projection!vars
    <2> QED BY <2>1, <2>2, StepRefines DEF Next
  <1> QED BY <1>1, <1>2, Inductive, PTL DEF ImplementsProjection, Projection!Spec, Spec

-----------------------------------------------------------------------------
(* When callers take turns, the live directory stays reachable.              *)

Shown(t) == Tops(Files(Render(t)))

OneAtATime ==
  \A v, w \in Writers : pc[v] # "idle" /\ pc[w] # "idle" => v = w

\* What the links lack is exactly what the call still has to make.
LinksPending ==
  \A w \in Writers :
    /\ pc[w] = "links" => Shown(payload[w]) \subseteq visible \cup names[w]
    /\ pc[w] = "symlink" => Shown(payload[w]) \subseteq visible \cup names[w] \cup {link[w]}
    /\ pc[w] = "rename" => Shown(payload[w]) \subseteq visible

\* After its rename a call only prunes names the live directory lacks.
PruneSafe ==
  \A w \in Writers :
    /\ pc[w] \in {"paths", "should", "prune"} => /\ dataLink # NoTs
                                                 /\ tree[dataLink] = Render(payload[w])
    /\ pc[w] = "should" => \A n \in Names : <<n>> \in paths[w] => n \notin Shown(payload[w])
    /\ pc[w] = "prune" => names[w] \cap Shown(payload[w]) = {}

VInv == OneAtATime /\ LinksPending /\ PruneSafe /\ VisibleCovers

\* cleanPayload and the new directory have the same files.
LEMMA SameFiles ==
  ASSUME NEW t PROVE Files(CleanPayload(t)) = Files(Render(t))
  BY DEF CleanPayload, Render, Overlay, Files

\* A top-level name of the new payload is never among the paths to remove.
LEMMA EntriesCover ==
  ASSUME NEW t, NEW n, n \in Shown(t) PROVE <<n>> \in Entries(CleanPayload(t))
  BY SameFiles DEF Shown, Tops, Entries, Parent

\* Ending a call without touching links, ..data or its directory is harmless.
LEMMA EndVInv ==
  ASSUME TypeOK, VInv, NEW w \in Writers, NEW result, Return(w, result),
         Synchronized, pc[w] # "idle",
         UNCHANGED <<visible, dataLink>>,
         dataLink # NoTs => tree'[dataLink] = tree[dataLink]
  PROVE  VInv'
  <1> USE DEF Return, Goto
  <1>1. OneAtATime'
    BY DEF VInv, TypeOK, OneAtATime
  <1>2. \A v \in Writers : pc'[v] = "idle"
    BY DEF VInv, TypeOK, OneAtATime
  <1>3. LinksPending' /\ PruneSafe'
    BY <1>2 DEF LinksPending, PruneSafe
  <1>4. VisibleCovers'
    BY DEF VInv, VisibleCovers
  <1> QED BY <1>1, <1>3, <1>4 DEF VInv

\* A step of one call, with the others idle, that moves it to another label.
LEMMA MoveVInv ==
  ASSUME TypeOK, VInv, Synchronized, NEW w \in Writers, pc[w] # "idle", NEW label,
         Goto(w, label)
  PROVE  /\ OneAtATime'
         /\ pc'[w] = label
         /\ \A v \in Writers : v # w => pc'[v] = "idle"
  BY DEF VInv, TypeOK, OneAtATime, Goto

\* Every step of a synchronized caller preserves the reachability invariant.
LEMMA StepVInv ==
  ASSUME IInv, IInv', VInv, Synchronized, NEW w \in Writers, Step(w)
  PROVE  VInv'
  <1>t. TypeOK
    BY DEF IInv
  <1>l. /\ dataLink \in TsIds \cup {NoTs}
        /\ pc[w] \in Filling => ts[w] \in TsIds /\ ts[w] # dataLink
        /\ pc[w] \in PostCommit => oldTS[w] # dataLink
    BY DEF IInv, TypeOK, Private, OldRetired
  <1>a. ASSUME Abort(w), pc[w] # "idle" PROVE VInv'
    BY <1>a, <1>t, EndVInv DEF Abort, disk
  <1>1. CASE \E p \in Payloads : Write(w, p)
    <2> PICK p \in Payloads : Write(w, p)
      BY <1>1
    <2>1. \A v \in Writers : pc[v] = "idle"
      BY DEF Write
    <2>2. \A v \in Writers : pc'[v] \in {"idle", "mkdir"} /\ (v # w => pc'[v] = "idle")
      BY <2>1, <1>t DEF Write, Abort, Return, Goto, TypeOK
    <2>3. OneAtATime' /\ LinksPending' /\ PruneSafe'
      BY <2>2 DEF OneAtATime, LinksPending, PruneSafe
    <2>4. VisibleCovers'
      BY DEF Write, Abort, disk, VInv, VisibleCovers
    <2> QED BY <2>3, <2>4 DEF VInv
  <1>2. CASE newTimestampDir(w)
    <2>0. pc[w] = "mkdir" /\ UNCHANGED <<visible, dataLink, tree>>
      BY <1>2 DEF newTimestampDir, Abort, disk
    <2>1. ASSUME NEW result, Return(w, result) PROVE VInv'
      BY <2>0, <2>1, <1>t, EndVInv
    <2>2. ASSUME Goto(w, "write") PROVE VInv'
      <3>1. OneAtATime' /\ \A v \in Writers : pc'[v] \in {"idle", "write"}
        BY <2>0, <2>2, <1>t, MoveVInv
      <3> QED BY <2>0, <3>1 DEF VInv, LinksPending, PruneSafe, VisibleCovers
    <2> QED BY <1>2, <2>1, <2>2 DEF newTimestampDir, Abort
  <1>3. CASE writePayloadToDir(w)
    <2>1. CASE Abort(w)
      BY <1>3, <2>1, <1>a DEF writePayloadToDir
    <2>2. CASE ~Abort(w)
      <3>0. pc[w] = "write" /\ UNCHANGED <<visible, dataLink, pc>>
        BY <1>3, <2>2 DEF writePayloadToDir
      <3>1. dataLink # NoTs => tree'[dataLink] = tree[dataLink]
        BY <1>3, <2>2, <1>l, <1>t DEF writePayloadToDir, TypeOK, Filling
      <3>2. \A v \in Writers : v # w => pc[v] = "idle"
        BY <3>0 DEF VInv, OneAtATime
      <3>3. OneAtATime' /\ LinksPending' /\ PruneSafe'
        BY <3>0, <3>2 DEF VInv, OneAtATime, LinksPending, PruneSafe
      <3> QED BY <3>0, <3>1, <3>3 DEF VInv, VisibleCovers
    <2> QED BY <2>1, <2>2
  <1>4. CASE runDirFuncs(w)
    <2>0. dataLink # NoTs => tree'[dataLink] = tree[dataLink]
      BY <1>4, <1>l, <1>t DEF runDirFuncs, TypeOK, Filling
    <2>1. CASE Return(w, "error")
      BY <1>4, <2>0, <2>1, <1>t, EndVInv DEF runDirFuncs
    <2>2. CASE ~Return(w, "error")
      <3>0. /\ pc[w] = "write" /\ Goto(w, "links") /\ UNCHANGED <<visible, dataLink, payload>>
            /\ names' = [names EXCEPT ![w] = Tops(Files(CleanPayload(payload[w])))]
        BY <1>4, <2>2 DEF runDirFuncs
      <3>2. OneAtATime' /\ pc'[w] = "links" /\ \A v \in Writers : v # w => pc'[v] = "idle"
        BY <3>0, <1>t, MoveVInv
      <3>3. names'[w] = Shown(payload'[w])
        BY <3>0, <1>t, SameFiles DEF TypeOK, Shown
      <3>4. LinksPending' /\ PruneSafe'
        BY <3>2, <3>3 DEF LinksPending, PruneSafe
      <3> QED BY <2>0, <3>0, <3>2, <3>4 DEF VInv, VisibleCovers
    <2> QED BY <2>1, <2>2
  <1>5. CASE createUserVisibleFiles(w)
    <2>0. pc[w] # "idle"
      BY <1>5 DEF createUserVisibleFiles
    <2>1. CASE Abort(w)
      BY <2>0, <2>1, <1>a
    <2>2. ASSUME NEW n \in names[w], pc[w] = "links", n \in visible,
                 names' = [names EXCEPT ![w] = @ \ {n}],
                 UNCHANGED <<pc, link, disk, payload>>
          PROVE  VInv'
      <3>1. \A v \in Writers : v # w => pc[v] = "idle"
        BY <2>2 DEF VInv, OneAtATime
      <3>2. LinksPending'
        BY <2>2, <3>1, <1>t DEF VInv, TypeOK, LinksPending, disk
      <3> QED BY <2>2, <3>1, <3>2 DEF VInv, OneAtATime, PruneSafe, VisibleCovers, disk
    <2>3. ASSUME NEW n \in names[w], pc[w] = "links",
                 names' = [names EXCEPT ![w] = @ \ {n}],
                 Goto(w, "symlink"), link' = [link EXCEPT ![w] = n],
                 UNCHANGED <<disk, payload>>
          PROVE  VInv'
      <3>1. OneAtATime' /\ pc'[w] = "symlink" /\ \A v \in Writers : v # w => pc'[v] = "idle"
        BY <2>3, <1>t, MoveVInv
      <3>2. LinksPending'
        BY <2>3, <3>1, <1>t DEF VInv, TypeOK, LinksPending, disk
      <3> QED BY <2>3, <3>1, <3>2 DEF VInv, PruneSafe, VisibleCovers, disk
    <2>4. ASSUME pc[w] = "symlink", visible' = visible \cup {link[w]}, Goto(w, "links"),
                 UNCHANGED <<tree, dataLink, payload, names>>
          PROVE  VInv'
      <3>1. OneAtATime' /\ pc'[w] = "links" /\ \A v \in Writers : v # w => pc'[v] = "idle"
        BY <2>4, <1>t, MoveVInv
      <3>2. LinksPending'
        BY <2>4, <3>1 DEF VInv, LinksPending
      <3> QED BY <2>4, <3>1, <3>2 DEF VInv, PruneSafe, VisibleCovers
    <2> QED BY <1>5, <2>1, <2>2, <2>3, <2>4 DEF createUserVisibleFiles
  <1>6. CASE symlinkTmp(w)
    <2>1. ASSUME RemoveDir(ts[w]), Return(w, "error"), UNCHANGED <<dataLink, visible>>,
                 pc[w] = "links"
          PROVE  VInv'
      <3>1. dataLink # NoTs => tree'[dataLink] = tree[dataLink]
        BY <2>1, <1>l, <1>t DEF RemoveDir, TypeOK, Filling
      <3> QED BY <2>1, <3>1, <1>t, EndVInv
    <2>2. ASSUME Goto(w, "rename"), pc[w] = "links", names[w] = {},
                 UNCHANGED <<tree, dataLink, visible, locals>>
          PROVE  VInv'
      <3>1. OneAtATime' /\ pc'[w] = "rename" /\ \A v \in Writers : v # w => pc'[v] = "idle"
        BY <2>2, <1>t, MoveVInv
      <3> QED BY <2>2, <3>1 DEF VInv, LinksPending, PruneSafe, VisibleCovers, locals
    <2> QED BY <1>6, <2>1, <2>2 DEF symlinkTmp
  <1>7. CASE rename(w)
    <2>1. ASSUME RemoveDir(ts[w]), Return(w, "error"), UNCHANGED <<dataLink, visible>>,
                 pc[w] = "rename"
          PROVE  VInv'
      <3>1. dataLink # NoTs => tree'[dataLink] = tree[dataLink]
        BY <2>1, <1>l, <1>t DEF RemoveDir, TypeOK, Filling
      <3> QED BY <2>1, <3>1, <1>t, EndVInv
    <2>2. ASSUME Goto(w, "paths"), pc[w] = "rename", dataLink' = tmpLink,
                 UNCHANGED <<tree, visible, locals>>
          PROVE  VInv'
      <3>1. OneAtATime' /\ pc'[w] = "paths" /\ \A v \in Writers : v # w => pc'[v] = "idle"
        BY <2>2, <1>t, MoveVInv
      <3>2. dataLink' # NoTs /\ tree'[dataLink'] = Render(payload[w])
        <4>1. tmpLink = ts[w] /\ ts[w] \in TsIds /\ tree[ts[w]] = Render(payload[w])
          BY <2>2 DEF IInv, TypeOK, TmpIsMine, Private, Filled, Filling
        <4> QED BY <2>2, <4>1, ConstantsOK
      <3>3. LinksPending' /\ PruneSafe'
        BY <2>2, <3>1, <3>2 DEF LinksPending, PruneSafe, locals
      <3>4. VisibleCovers'
        BY <2>2, <3>2 DEF VInv, LinksPending, VisibleCovers, Shown
      <3> QED BY <3>1, <3>3, <3>4 DEF VInv
    <2> QED BY <1>7, <2>1, <2>2 DEF rename
  <1>8. CASE pathsToRemove(w)
    <2>1. CASE oldTS[w] = NoTs
      BY <1>8, <2>1, <1>t, EndVInv DEF pathsToRemove, disk
    <2>2. CASE oldTS[w] # NoTs
      <3>0. /\ pc[w] = "paths" /\ Goto(w, "should") /\ UNCHANGED <<disk, payload, names>>
            /\ paths'[w] \cap Entries(CleanPayload(payload[w])) = {}
        BY <1>8, <2>2, <1>t DEF pathsToRemove, TypeOK
      <3>1. OneAtATime' /\ pc'[w] = "should" /\ \A v \in Writers : v # w => pc'[v] = "idle"
        BY <3>0, <1>t, MoveVInv
      <3>2. \A n \in Names : <<n>> \in paths'[w] => n \notin Shown(payload[w])
        BY <3>0, EntriesCover
      <3> QED BY <3>0, <3>1, <3>2 DEF VInv, LinksPending, PruneSafe, VisibleCovers, disk
    <2> QED BY <2>1, <2>2
  <1>9. CASE decideUpdate(w)
    <2>0. pc[w] = "should"
      BY <1>9 DEF decideUpdate
    <2>1. CASE Abort(w)
      BY <2>0, <2>1, <1>a
    <2>2. ASSUME Return(w, "ok"), UNCHANGED disk PROVE VInv'
      BY <2>0, <2>2, <1>t, EndVInv DEF disk
    <2>3. ASSUME Goto(w, "prune"), UNCHANGED <<disk, payload>>,
                 names' = [names EXCEPT ![w] = {n \in Names : <<n>> \in paths[w]}]
          PROVE  VInv'
      <3>1. OneAtATime' /\ pc'[w] = "prune" /\ \A v \in Writers : v # w => pc'[v] = "idle"
        BY <2>0, <2>3, <1>t, MoveVInv
      <3>2. names'[w] \cap Shown(payload[w]) = {}
        BY <2>0, <2>3, <1>t DEF VInv, PruneSafe, TypeOK
      <3> QED BY <2>0, <2>3, <3>1, <3>2 DEF VInv, LinksPending, PruneSafe, VisibleCovers, disk
    <2> QED BY <1>9, <2>1, <2>2, <2>3 DEF decideUpdate
  <1>10. CASE removeUserVisiblePaths(w)
    <2>0. pc[w] = "prune"
      BY <1>10 DEF removeUserVisiblePaths
    <2>1. CASE Abort(w)
      BY <2>0, <2>1, <1>a
    <2>2. ASSUME NEW n \in names[w], names' = [names EXCEPT ![w] = @ \ {n}],
                 visible' = visible \ {n} \/ visible' = visible,
                 UNCHANGED <<tree, dataLink, pc, payload, paths>>
          PROVE  VInv'
      <3>1. \A v \in Writers : v # w => pc[v] = "idle"
        BY <2>0 DEF VInv, OneAtATime
      <3>2. /\ dataLink # NoTs /\ tree[dataLink] = Render(payload[w])
            /\ n \notin Shown(payload[w])
        BY <2>0, <2>2 DEF VInv, PruneSafe
      <3>3. VisibleCovers'
        BY <2>2, <3>2 DEF VInv, VisibleCovers, Shown
      <3>4. PruneSafe' /\ LinksPending' /\ OneAtATime'
        BY <2>0, <2>2, <3>1, <1>t DEF VInv, TypeOK, PruneSafe, LinksPending, OneAtATime
      <3> QED BY <3>3, <3>4 DEF VInv
    <2>3. ASSUME Goto(w, "rmOld"), UNCHANGED disk PROVE VInv'
      <3>1. OneAtATime' /\ pc'[w] = "rmOld" /\ \A v \in Writers : v # w => pc'[v] = "idle"
        BY <2>0, <2>3, <1>t, MoveVInv
      <3> QED BY <2>3, <3>1 DEF VInv, LinksPending, PruneSafe, VisibleCovers, disk
    <2> QED BY <1>10, <2>1, <2>2, <2>3 DEF removeUserVisiblePaths
  <1>11. CASE removeOldDir(w)
    <2>0. pc[w] = "rmOld"
      BY <1>11 DEF removeOldDir
    <2>1. CASE Abort(w)
      BY <2>0, <2>1, <1>a
    <2>2. CASE ~Abort(w)
      <3>1. /\ UNCHANGED <<visible, dataLink>>
            /\ dataLink # NoTs => tree'[dataLink] = tree[dataLink]
        BY <1>11, <2>0, <2>2, <1>l, <1>t DEF removeOldDir, RemoveDir, TypeOK, PostCommit
      <3>2. ASSUME UNCHANGED pc PROVE VInv'
        <4>1. \A v \in Writers : v # w => pc[v] = "idle"
          BY <2>0 DEF VInv, OneAtATime
        <4> QED BY <3>1, <3>2, <2>0, <4>1
                DEF VInv, OneAtATime, LinksPending, PruneSafe, VisibleCovers
      <3>3. ASSUME Return(w, "ok") PROVE VInv'
        BY <3>1, <3>3, <2>0, <1>t, EndVInv
      <3> QED BY <1>11, <2>2, <3>2, <3>3 DEF removeOldDir
    <2> QED BY <2>1, <2>2
  <1> QED BY <1>1, <1>2, <1>3, <1>4, <1>5, <1>6, <1>7, <1>8, <1>9, <1>10, <1>11 DEF Step

\* When callers take turns the reachability invariant always holds.
LEMMA TurnsVInv == Spec => [](Synchronized => VInv)
  <1>1. Init => (Synchronized => VInv)
    BY DEF Init, VInv, OneAtATime, LinksPending, PruneSafe, VisibleCovers
  <1>2. IInv /\ IInv' /\ (Synchronized => VInv) /\ [Next]_vars => (Synchronized => VInv)'
    <2> SUFFICES ASSUME IInv, IInv', VInv, Synchronized, [Next]_vars PROVE VInv'
      OBVIOUS
    <2>1. CASE Crash
      BY <2>1 DEF Crash, disk, VInv, OneAtATime, LinksPending, PruneSafe, VisibleCovers
    <2>2. CASE UNCHANGED vars
      BY <2>2 DEF vars, disk, locals, VInv, OneAtATime, LinksPending, PruneSafe, VisibleCovers
    <2> QED BY <2>1, <2>2, StepVInv DEF Next
  <1> QED BY <1>1, <1>2, Inductive, PTL DEF Spec

\* When callers take turns every name of the live directory has its link at
\* every moment, through crashes and failed calls.
THEOREM LiveAlwaysVisible == Spec => []VisibleCovers
  <1>1. (Synchronized => VInv) => VisibleCovers
    BY DEF VInv, VisibleCovers
  <1> QED BY <1>1, TurnsVInv, PTL
=============================================================================
