---------------------------- MODULE VolumeFiles -----------------------------
(* What Filesystem.WriteFiles and AtomicWriter.Write make of the group and   *)
(* the files they are given, as operators: what is refused, the clean names  *)
(* and what the volume shows in the end.  Provision takes the steps of one   *)
(* write, FilesystemCalls the write as a whole.                              *)
EXTENDS LinuxTLS

CONSTANTS NoAttr, BadAttr, \* no such attribute; one that is not an integer
          FixedFSGroup,    \* a gid or Nil
          KeyDefined,      \* BOOLEAN: FSGroupVolumeAttributeKey is set
          Nil, Invalid,    \* no group; an error
          GidWidth,        \* bound: bits of a gid (32 in the system)
          DotNames,        \* the elements that begin with ".."
          DotDot,          \* ".." itself
          TmpLink          \* "..data_tmp"

MaxGid == 2^GidWidth - 1

fsGroupForMetadata(a) ==
  CASE FixedFSGroup # Nil                                -> FixedFSGroup
    [] FixedFSGroup = Nil /\ (~KeyDefined \/ a = NoAttr) -> Nil
    [] OTHER -> IF a # BadAttr /\ a > 0 /\ a <= MaxGid THEN a ELSE Invalid

\* filepath.Clean, of a relative name without "..".
Clean(p) == SelectSeq(p, LAMBDA e : e # ".")

\* The first element is looked at before the name is cleaned.
validatePath(p) == p[1] \notin DotNames /\ \A i \in DOMAIN p : p[i] # DotDot

\* Mutant: the names stay as they are.
CleanPayloads_Raw(fs) == {fs}

\* Two names that are the same when cleaned: either may win, a Go map has no
\* order.
CleanPayloads(fs) ==
  LET names == {Clean(p) : p \in DOMAIN fs}
  IN  {t \in [names -> {fs[p] : p \in DOMAIN fs}] :
         \A q \in names : \E p \in DOMAIN fs : Clean(p) = q /\ t[q] = fs[p]}

\* A file stands where another one needs a directory.
Clashes(t) == \E p, q \in DOMAIN t : Len(p) < Len(q) /\ p = SubSeq(q, 1, Len(p))

\* os.Create cannot make the bundle where there is a directory of that name.
BundleBlocked(t) == \E p \in DOMAIN t : p[1] = Bundle /\ p # <<Bundle>>

\* A file that has the name of the link which is to be renamed is linked for the
\* users before that link is made.
TmpTaken(t) == \E p \in DOMAIN t : p[1] = TmpLink

\* What the volume shows.
Rendering(t) == Merge(t, DirFuncsForVolume(t))
=============================================================================
