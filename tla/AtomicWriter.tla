---------------------------- MODULE AtomicWriter ----------------------------
(* pkg/util/atomic_writer.go: AtomicWriter.Write projects a payload into a   *)
(* target directory through a timestamped directory, a "..data" link that is *)
(* renamed into place, and one user-visible link per top-level name.         *)
(*                                                                           *)
(* A step is one file-system call, or a run of calls on things no other      *)
(* process can see.  Several processes may be inside Write at once unless    *)
(* Synchronized says that the callers take turns; the process may crash      *)
(* between any two steps (the directory stays); any call may fail.           *)
EXTENDS Integers, Sequences, FiniteSets

CONSTANTS Writers,       \* calls of Write that may run at the same time
          TsIds,         \* timestamped directories the file system has room for
          NoTs,          \* "" : no timestamped directory
          Names,         \* path elements
          DotNames,      \* the elements that begin with ".."
          DotDot,        \* ".." itself
          Contents,      \* file contents
          Empty,         \* the content of an empty file
          Payloads,      \* the payloads callers write
          NoPayload,
          NoContent,
          NewFiles(_),   \* the files the dirFuncs make in a directory (LinuxTLS)
          Synchronized,  \* BOOLEAN: callers never overlap
          Crashes,       \* BOOLEAN: the process may crash
          IOErrors       \* BOOLEAN: making, writing, renaming, removing or
                         \* comparing files may fail, or reading ..data

-----------------------------------------------------------------------------
(* Directory trees: functions from the paths of regular files to contents.   *)

Paths == {<<n>> : n \in Names} \cup {<<n, m>> : n \in Names, m \in Names}

Files(t) == DOMAIN t

IsTree(t) == /\ t = [p \in Files(t) |-> t[p]]
             /\ Files(t) \subseteq Paths
             /\ \A p \in Files(t) : t[p] \in Contents

EmptyTree == [p \in {} |-> Empty]

Parent(p) == <<p[1]>>           \* the top-level entry a path lies in

Tops(P) == {p[1] : p \in P}

\* Mutant: the subpaths of the payload are forgotten.
Entries_FilesOnly(t) == Files(t)

\* Every file and directory of the tree: what filepath.Walk visits, and the
\* subpaths pathsToRemove adds for the payload.
Entries(t) == Files(t) \cup {Parent(p) : p \in Files(t)}

\* A file stands where the other path needs a directory.
Clash(p, q) == p # q /\ (q = Parent(p) \/ p = Parent(q))

Overlay(t, new) ==
  [p \in Files(t) \cup Files(new) |-> IF p \in Files(new) THEN new[p] ELSE t[p]]

AddFile(t, p, c) == [q \in Files(t) \cup {p} |-> IF q = p THEN c ELSE t[q]]

DropFile(t, p) == [q \in Files(t) \ {p} |-> t[q]]

ASSUME ConstantsOK ==
  /\ NoTs \notin TsIds
  /\ DotNames \subseteq Names
  /\ Empty \in Contents
  /\ NoPayload \notin Payloads
  /\ \A t \in Payloads : IsTree(t) /\ IsTree(NewFiles(t))
  /\ {Synchronized, Crashes, IOErrors} \subseteq BOOLEAN

\* The directory after the dirFuncs have run in it.
Render(t) == Overlay(t, NewFiles(t))

\* What a dirFunc that fails may leave: some of the files.
PartRendered(t) ==
  {Overlay(t, [p \in made |-> NewFiles(t)[p]]) : made \in SUBSET Files(NewFiles(t))}

\* cleanPayload after the dirFuncs: their files are added with no data.
CleanPayload(t) ==
  Overlay(t, [p \in Files(NewFiles(t)) |-> Empty])

\* ".." is refused anywhere, a longer name that begins with ".." in front.
validatePath(p) == p[1] \notin DotNames /\ \A i \in DOMAIN p : p[i] # DotDot

validatePayload(t) == \A p \in Files(t) : validatePath(p)

-----------------------------------------------------------------------------
VARIABLES dirs,      \* the timestamped directories that exist
          tree,      \* tree[d]: the files in d
          dataLink,  \* where ..data points
          tmpLink,   \* where ..data_tmp points
          visible,   \* the user-visible links <name> -> ..data/<name>
          pc,        \* pc[w]: the next step of w's call
          payload,   \* payload[w]: the argument
          oldTS,     \* oldTS[w]: what ..data was when the call began
          ts,        \* ts[w]: the directory the call made
          paths,     \* paths[w]: files still to write, later pathsToRemove
          names,     \* names[w]: links still to create, later to remove
          link,      \* link[w]: the link found missing, about to be created
          lasterr,   \* lasterr[w]: a link could not be removed
          outcome,   \* outcome[w]: what the last finished call returned
          tidy       \* history: no crash and no failed call so far

disk == <<dirs, tree, dataLink, tmpLink, visible>>
locals == <<payload, oldTS, ts, paths, names, link, lasterr>>
vars == <<disk, pc, locals, outcome, tidy>>

PreCommit  == {"mkdir", "write", "links", "symlink", "rename"}
PostCommit == {"paths", "should", "prune", "rmOld"}
NoName     == "none"

Init ==
  /\ dirs = {}
  /\ tree = [d \in TsIds |-> EmptyTree]
  /\ dataLink = NoTs
  /\ tmpLink = NoTs
  /\ visible = {}
  /\ pc = [w \in Writers |-> "idle"]
  /\ payload = [w \in Writers |-> NoPayload]
  /\ oldTS = [w \in Writers |-> NoTs]
  /\ ts = [w \in Writers |-> NoTs]
  /\ paths = [w \in Writers |-> {}]
  /\ names = [w \in Writers |-> {}]
  /\ link = [w \in Writers |-> NoName]
  /\ lasterr = [w \in Writers |-> FALSE]
  /\ outcome = [w \in Writers |-> "none"]
  /\ tidy = TRUE

Goto(w, label) == pc' = [pc EXCEPT ![w] = label]

Return(w, result) ==
  /\ Goto(w, "idle")
  /\ payload' = [payload EXCEPT ![w] = NoPayload]
  /\ oldTS' = [oldTS EXCEPT ![w] = NoTs]
  /\ ts' = [ts EXCEPT ![w] = NoTs]
  /\ paths' = [paths EXCEPT ![w] = {}]
  /\ names' = [names EXCEPT ![w] = {}]
  /\ link' = [link EXCEPT ![w] = NoName]
  /\ lasterr' = [lasterr EXCEPT ![w] = FALSE]
  /\ outcome' = [outcome EXCEPT ![w] = result]
  /\ tidy' = (tidy /\ result = "ok")

\* An early return that leaves the directory as it is.
Abort(w) == Return(w, "error") /\ UNCHANGED disk

\* os.RemoveAll of one timestamped directory.
RemoveDir(d) ==
  /\ dirs' = dirs \ {d}
  /\ tree' = [tree EXCEPT ![d] = EmptyTree]

(* (1), (2) validate the payload, read ..data.                               *)
Write(w, p) ==
  /\ pc[w] = "idle"
  /\ Synchronized => \A v \in Writers : pc[v] = "idle"
  /\ \/ /\ validatePayload(p)
        /\ Goto(w, "mkdir")
        /\ payload' = [payload EXCEPT ![w] = p]
        /\ oldTS' = [oldTS EXCEPT ![w] = dataLink]
        /\ outcome' = [outcome EXCEPT ![w] = "none"]
        /\ UNCHANGED <<disk, ts, paths, names, link, lasterr, tidy>>
     \/ (~validatePayload(p) \/ IOErrors) /\ Abort(w)

\* Mutant: the name is the time alone, so a name may come back.
FreshIds_Reused == TsIds \ (dirs \cup {dataLink, tmpLink})

\* os.MkdirTemp never returns a name that is in use or remembered.
FreshIds == TsIds \ (dirs \cup {dataLink, tmpLink}
                     \cup {ts[w] : w \in Writers} \cup {oldTS[w] : w \in Writers})

newTimestampDir(w) ==
  /\ pc[w] = "mkdir"
  /\ \/ \E d \in FreshIds :
          /\ dirs' = dirs \cup {d}
          /\ ts' = [ts EXCEPT ![w] = d]
          /\ paths' = [paths EXCEPT ![w] = Files(payload[w])]
          /\ Goto(w, "write")
          /\ UNCHANGED <<tree, dataLink, tmpLink, visible, payload, oldTS,
                         names, link, lasterr, outcome, tidy>>
     \/ (FreshIds = {} \/ IOErrors) /\ Abort(w)    \* no space left
     \/ IOErrors /\ \E d \in FreshIds :    \* chmod fails: the directory stays
          /\ Return(w, "error")
          /\ dirs' = dirs \cup {d}
          /\ UNCHANGED <<tree, dataLink, tmpLink, visible>>

(* One file of the payload, in any order (payload is a Go map).              *)
writePayloadToDir(w) ==
  /\ pc[w] = "write"
  /\ \E p \in paths[w] :
       \/ /\ \A q \in Files(tree[ts[w]]) : ~Clash(p, q)
          /\ tree' = [tree EXCEPT ![ts[w]] = AddFile(@, p, payload[w][p])]
          /\ paths' = [paths EXCEPT ![w] = @ \ {p}]
          /\ UNCHANGED <<dirs, dataLink, tmpLink, visible, pc, payload, oldTS,
                         ts, names, link, lasterr, outcome, tidy>>
       \/ /\ IOErrors \/ \E q \in Files(tree[ts[w]]) : Clash(p, q)
          /\ Abort(w)

\* Mutant: the error of a dirFunc is dropped.
runDirFuncs_IgnoreError(w) ==
  /\ pc[w] = "write"
  /\ paths[w] = {}
  /\ tree' \in {tree} \cup {[tree EXCEPT ![ts[w]] = Render(@)]}
  /\ names' = [names EXCEPT ![w] = Tops(Files(CleanPayload(payload[w])))]
  /\ Goto(w, "links")
  /\ UNCHANGED <<dirs, dataLink, tmpLink, visible, payload, oldTS, ts, paths, link,
                 lasterr, outcome, tidy>>

(* The dirFuncs work in the new directory, which nothing points to yet.  What*)
(* they return, the bundle's name and hash links, validatePath never refuses.*)
runDirFuncs(w) ==
  /\ pc[w] = "write"
  /\ paths[w] = {}
  /\ \/ /\ tree' = [tree EXCEPT ![ts[w]] = Render(@)]
        /\ names' = [names EXCEPT ![w] = Tops(Files(CleanPayload(payload[w])))]
        /\ Goto(w, "links")
        /\ UNCHANGED <<dirs, dataLink, tmpLink, visible, payload, oldTS, ts,
                       paths, link, lasterr, outcome, tidy>>
     \/ /\ IOErrors              \* what was made so far stays
        /\ tree' \in {[tree EXCEPT ![ts[w]] = t] : t \in PartRendered(tree[ts[w]])}
        /\ Return(w, "error")
        /\ UNCHANGED <<dirs, dataLink, tmpLink, visible>>

\* Mutant: the missing link's name is shadowed and lost.
createUserVisibleFiles_Shadowed(w) ==
  \/ /\ pc[w] = "links"
     /\ \E n \in names[w] :
          /\ names' = [names EXCEPT ![w] = @ \ {n}]
          /\ IF n \in visible THEN UNCHANGED pc ELSE Goto(w, "symlink")
     /\ UNCHANGED <<disk, payload, oldTS, ts, paths, link, lasterr, outcome, tidy>>
  \/ /\ pc[w] = "symlink"
     /\ visible' = visible \cup {link[w]}
     /\ Goto(w, "links")
     /\ UNCHANGED <<dirs, tree, dataLink, tmpLink, locals, outcome, tidy>>

(* Readlink of one user-visible name, then Symlink if it was missing.        *)
createUserVisibleFiles(w) ==
  \/ /\ pc[w] = "links"
     /\ \E n \in names[w] :
          /\ names' = [names EXCEPT ![w] = @ \ {n}]
          /\ IF n \in visible
             THEN UNCHANGED <<pc, link>>
             ELSE Goto(w, "symlink") /\ link' = [link EXCEPT ![w] = n]
     /\ UNCHANGED <<disk, payload, oldTS, ts, paths, lasterr, outcome, tidy>>
  \/ /\ pc[w] = "symlink"
     /\ link[w] \notin visible
     /\ visible' = visible \cup {link[w]}
     /\ link' = [link EXCEPT ![w] = NoName]
     /\ Goto(w, "links")
     /\ UNCHANGED <<dirs, tree, dataLink, tmpLink, payload, oldTS, ts, paths,
                    names, lasterr, outcome, tidy>>
  \/ /\ pc[w] = "symlink"                  \* EEXIST, or the call fails
     /\ link[w] \in visible \/ IOErrors
     /\ Abort(w)

\* Mutant: an existing ..data_tmp is replaced.
symlinkTmp_Replace(w) ==
  /\ pc[w] = "links"
  /\ names[w] = {}
  /\ tmpLink' = ts[w]
  /\ Goto(w, "rename")
  /\ UNCHANGED <<dirs, tree, dataLink, visible, locals, outcome, tidy>>

\* Mutant: an existing ..data_tmp is taken for "nothing to do".
symlinkTmp_Quiet(w) ==
  /\ pc[w] = "links"
  /\ names[w] = {}
  /\ \/ /\ tmpLink = NoTs
        /\ tmpLink' = ts[w]
        /\ Goto(w, "rename")
        /\ UNCHANGED <<dirs, tree, dataLink, visible, locals, outcome, tidy>>
     \/ /\ tmpLink # NoTs
        /\ RemoveDir(ts[w])
        /\ Return(w, "ok")
        /\ UNCHANGED <<dataLink, tmpLink, visible>>

(* (7) ..data_tmp; if it exists the new directory is removed again.          *)
symlinkTmp(w) ==
  /\ pc[w] = "links"
  /\ names[w] = {}
  /\ \/ /\ tmpLink = NoTs
        /\ tmpLink' = ts[w]
        /\ Goto(w, "rename")
        /\ UNCHANGED <<dirs, tree, dataLink, visible, locals, outcome, tidy>>
     \/ /\ tmpLink # NoTs \/ IOErrors
        /\ RemoveDir(ts[w])
        /\ Return(w, "error")
        /\ UNCHANGED <<dataLink, tmpLink, visible>>

(* (8) rename(..data_tmp, ..data): the commit point.  If it fails, so may    *)
(* the removal of ..data_tmp.                                                *)
rename(w) ==
  /\ pc[w] = "rename"
  /\ \/ /\ dataLink' = tmpLink
        /\ tmpLink' = NoTs
        /\ Goto(w, "paths")
        /\ UNCHANGED <<dirs, tree, visible, locals, outcome, tidy>>
     \/ /\ IOErrors
        /\ tmpLink' \in {tmpLink, NoTs}
        /\ RemoveDir(ts[w])
        /\ Return(w, "error")
        /\ UNCHANGED <<dataLink, visible>>

(* (9) what the old directory has and the payload has not.  Without an old   *)
(* directory there is nothing left to do.                                    *)
pathsToRemove(w) ==
  /\ pc[w] = "paths"
  /\ IF oldTS[w] = NoTs
     THEN Return(w, "ok") /\ UNCHANGED disk
     ELSE /\ paths' = [paths EXCEPT ![w] =
                         Entries(tree[oldTS[w]]) \ Entries(CleanPayload(payload[w]))]
          /\ Goto(w, "should")
          /\ UNCHANGED <<disk, payload, oldTS, ts, names, link, lasterr,
                         outcome, tidy>>

\* Reading p in the old tree fails: p is a directory there, or lies below a file.
Unreadable(old, p) == \E q \in Files(old) : Clash(p, q)

Differs(old, clean, p) ==
  ~Unreadable(old, p) /\ (p \in Files(old) => old[p] # clean[p])

\* Go ranges over the payload in any order and stops at the first verdict.
shouldWritePayload(clean, old) ==
  LET errors == \E p \in Files(clean) : Unreadable(old, p)
      writes == \E p \in Files(clean) : Differs(old, clean, p)
  IN  (IF errors \/ IOErrors THEN {"error"} ELSE {})
        \cup (IF writes THEN {"write"} ELSE {})
        \cup (IF errors \/ writes THEN {} ELSE {"same"})

\* Mutant: "no update required" without looking at the paths to remove.
decideUpdate_NoPaths(w) ==
  /\ pc[w] = "should"
  /\ \E verdict \in shouldWritePayload(CleanPayload(payload[w]), tree[oldTS[w]]) :
       \/ verdict = "error" /\ Abort(w)
       \/ verdict = "same" /\ Return(w, "ok") /\ UNCHANGED disk
       \/ /\ verdict = "write"
          /\ names' = [names EXCEPT ![w] = {n \in Names : <<n>> \in paths[w]}]
          /\ Goto(w, "prune")
          /\ UNCHANGED <<disk, payload, oldTS, ts, paths, link, lasterr,
                         outcome, tidy>>

(* (10) the comparison comes after the commit; "no update required" returns  *)
(* here, with the old directory still in place.                              *)
decideUpdate(w) ==
  /\ pc[w] = "should"
  /\ \E verdict \in shouldWritePayload(CleanPayload(payload[w]), tree[oldTS[w]]) :
       \/ verdict = "error" /\ Abort(w)
       \/ verdict = "same" /\ paths[w] = {} /\ Return(w, "ok") /\ UNCHANGED disk
       \/ /\ verdict = "write" \/ (verdict = "same" /\ paths[w] # {})
          /\ names' = [names EXCEPT ![w] = {n \in Names : <<n>> \in paths[w]}]
          /\ Goto(w, "prune")
          /\ UNCHANGED <<disk, payload, oldTS, ts, paths, link, lasterr,
                         outcome, tidy>>

(* (11) only top-level links are removed; a failure is remembered.           *)
removeUserVisiblePaths(w) ==
  /\ pc[w] = "prune"
  /\ \/ \E n \in names[w] :
          /\ names' = [names EXCEPT ![w] = @ \ {n}]
          /\ \/ /\ n \in visible
                /\ visible' = visible \ {n}
                /\ UNCHANGED lasterr
             \/ /\ n \notin visible \/ IOErrors
                /\ lasterr' = [lasterr EXCEPT ![w] = TRUE]
                /\ UNCHANGED visible
          /\ UNCHANGED <<dirs, tree, dataLink, tmpLink, pc, payload, oldTS, ts,
                         paths, link, outcome, tidy>>
     \/ /\ names[w] = {} /\ lasterr[w]
        /\ Abort(w)
     \/ /\ names[w] = {} /\ ~lasterr[w]
        /\ Goto(w, "rmOld")
        /\ UNCHANGED <<disk, locals, outcome, tidy>>

\* Mutant: the old directory stays.
removeOldDir_Kept(w) == pc[w] = "rmOld" /\ Return(w, "ok") /\ UNCHANGED disk

(* (12) os.RemoveAll of the old directory, entry by entry.                   *)
removeOldDir(w) ==
  /\ pc[w] = "rmOld"
  /\ \/ \E p \in Files(tree[oldTS[w]]) :
          /\ tree' = [tree EXCEPT ![oldTS[w]] = DropFile(@, p)]
          /\ UNCHANGED <<dirs, dataLink, tmpLink, visible, pc, locals, outcome, tidy>>
     \/ /\ tree[oldTS[w]] = EmptyTree
        /\ RemoveDir(oldTS[w])
        /\ Return(w, "ok")
        /\ UNCHANGED <<dataLink, tmpLink, visible>>
     \/ IOErrors /\ Abort(w)

(* The process dies; what is on the (in-memory) file system stays.           *)
Crash ==
  /\ Crashes
  /\ \E w \in Writers : pc[w] # "idle"
  /\ pc' = [w \in Writers |-> "idle"]
  /\ payload' = [w \in Writers |-> NoPayload]
  /\ oldTS' = [w \in Writers |-> NoTs]
  /\ ts' = [w \in Writers |-> NoTs]
  /\ paths' = [w \in Writers |-> {}]
  /\ names' = [w \in Writers |-> {}]
  /\ link' = [w \in Writers |-> NoName]
  /\ lasterr' = [w \in Writers |-> FALSE]
  /\ outcome' = [w \in Writers |-> "none"]
  /\ tidy' = FALSE
  /\ UNCHANGED disk

Step(w) ==
  \/ \E p \in Payloads : Write(w, p)
  \/ newTimestampDir(w)
  \/ writePayloadToDir(w)
  \/ runDirFuncs(w)
  \/ createUserVisibleFiles(w)
  \/ symlinkTmp(w)
  \/ rename(w)
  \/ pathsToRemove(w)
  \/ decideUpdate(w)
  \/ removeUserVisiblePaths(w)
  \/ removeOldDir(w)

Next == (\E w \in Writers : Step(w)) \/ Crash

Spec == Init /\ [][Next]_vars
-----------------------------------------------------------------------------
TypeOK ==
  /\ dirs \subseteq TsIds
  /\ tree = [d \in TsIds |-> tree[d]]
  /\ \A d \in TsIds : IsTree(tree[d])
  /\ dataLink \in TsIds \cup {NoTs}
  /\ tmpLink \in TsIds \cup {NoTs}
  /\ visible \subseteq Names
  /\ pc \in [Writers -> {"idle"} \cup PreCommit \cup PostCommit]
  /\ payload \in [Writers -> Payloads \cup {NoPayload}]
  /\ oldTS \in [Writers -> TsIds \cup {NoTs}]
  /\ ts \in [Writers -> TsIds \cup {NoTs}]
  /\ paths \in [Writers -> SUBSET Paths]
  /\ names \in [Writers -> SUBSET Names]
  /\ link \in [Writers -> Names \cup {NoName}]
  /\ lasterr \in [Writers -> BOOLEAN]
  /\ outcome \in [Writers -> {"none", "ok", "error"}]
  /\ tidy \in BOOLEAN

(* ..data never dangles and never shows a half-written or half-removed       *)
(* directory: it points to an existing directory that holds the complete     *)
(* rendering of some payload, at every moment, whatever fails, crashes or    *)
(* overlaps.                                                                 *)
LinkIntact ==
  dataLink # NoTs => /\ dataLink \in dirs
                     /\ \E p \in Payloads : tree[dataLink] = Render(p)

(* When callers take turns, every top-level name of the live directory is    *)
(* reachable through its user-visible link at every moment: links are made   *)
(* before the rename and only names the new directory lacks are pruned,      *)
(* even by a call that meets what a crash or a failure left behind.          *)
VisibleCovers ==
  (Synchronized /\ dataLink # NoTs) => Tops(Files(tree[dataLink])) \subseteq visible

(* When callers take turns and nothing has failed, a finished Write leaves   *)
(* exactly the links of the live directory: no link of an earlier payload    *)
(* dangles.                                                                  *)
VisibleExact ==
  (Synchronized /\ tidy /\ \A w \in Writers : pc[w] = "idle")
    => visible = IF dataLink = NoTs THEN {} ELSE Tops(Files(tree[dataLink]))

(* And it leaves no old directory behind.  The one exception is a payload    *)
(* that gives its files with none of the dirFuncs' own holding anything: it  *)
(* is found equal when it is written again, and "no update required" returns *)
(* after the rename and before the removal.                                  *)
LeftoversBare ==
  (Synchronized /\ tidy /\ \A w \in Writers : pc[w] = "idle") =>
    \A d \in dirs \ {dataLink} :
      \E p \in Payloads : tree[d] = Render(p) /\ Render(p) = CleanPayload(p)

(* Write implements AtomicProjection: each call takes effect in one step,    *)
(* the rename, at most once, with the complete rendering of its own payload; *)
(* a call that returns nil has taken effect.                                 *)
phaseOf(label) ==
  CASE label = "idle" -> "idle"
    [] label \in PreCommit -> "asked"
    [] OTHER -> "committed"

Projection == INSTANCE AtomicProjection WITH
  content <- IF dataLink = NoTs THEN NoContent ELSE tree[dataLink],
  phase   <- [w \in Writers |-> phaseOf(pc[w])],
  request <- payload

ImplementsProjection == Projection!Spec
=============================================================================
