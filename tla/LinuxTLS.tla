------------------------------ MODULE LinuxTLS ------------------------------
(* pkg/linuxtls: the functions AtomicWriter.Write runs in a new directory.   *)
(* A directory is a function from paths (sequences of names) to contents; a  *)
(* content is the set of what a file holds: certificates, and the separator  *)
(* CreateCABundle puts after each file it copies.                            *)
EXTENDS Integers, Sequences

CONSTANTS Certs,       \* the certificates that occur
          Separator,   \* the blank lines between the files of the bundle
          Bundle,      \* "ca-certificates.crt"
          HashName     \* HashName[c]: the name of openssl's link for c

ASSUME SeparatorOK == Separator \notin Certs

FileContents == SUBSET (Certs \cup {Separator})

IsFileTree(t) == t \in [DOMAIN t -> FileContents]

\* The files of new on top of those of t.
Merge(t, new) ==
  [p \in DOMAIN t \cup DOMAIN new |-> IF p \in DOMAIN new THEN new[p] ELSE t[p]]

TopLevel(t) == {p \in DOMAIN t : Len(p) = 1}

\* Creates (or truncates) the bundle, then copies every other top-level file
\* into it; subdirectories are skipped.
CreateCABundle(t) ==
  LET sources == TopLevel(t) \ {<<Bundle>>}
  IN  [p \in {<<Bundle>>} |-> UNION {t[q] \cup {Separator} : q \in sources}]

\* openssl rehash links <hash> to each top-level file with one certificate.
Rehash(t) ==
  LET linked == {c \in Certs : \E p \in TopLevel(t) : t[p] \cap Certs = {c}}
  IN  [p \in {<<HashName[c]>> : c \in linked} |->
         {CHOOSE c \in linked : <<HashName[c]>> = p}]

\* The files that were not there before openssl ran.
OpenSSLRehash(t) ==
  LET links == Rehash(t)
  IN  [p \in DOMAIN links \ DOMAIN t |-> links[p]]

\* The dirFuncs run one after the other, each in the directory the ones
\* before it left; together they make these files.
DirFuncsForVolume(t) ==
  LET bundle == CreateCABundle(t)
  IN  Merge(OpenSSLRehash(Merge(t, bundle)), bundle)
=============================================================================
