--------------------------- MODULE MCAtomicWriter ---------------------------
(* AtomicWriter with the driver's dirFuncs on small directories: two source  *)
(* names, one nested name, two certificates.                                 *)
EXTENDS AtomicWriter, LinuxTLS, TLC

MCBundle   == "bundle"
MCCerts    == {"c1", "c2"}
MCHashName == [c \in MCCerts |-> IF c = "c1" THEN "h1" ELSE "h2"]
MCNames    == {"a", "b", "..x", "..", "bundle", "h1", "h2"}

NoFiles == [p \in {} |-> {}]
FileA1  == [p \in {<<"a">>} |-> {"c1"}]
FileB2  == [p \in {<<"b">>} |-> {"c2"}]
Both    == [p \in {<<"a">>, <<"b">>} |-> IF p = <<"a">> THEN {"c1"} ELSE {"c2"}]
Nested  == [p \in {<<"a", "..x">>} |-> {"c1"}]
Clashes == [p \in {<<"a">>, <<"a", "b">>} |-> {"c1"}]
Dotted  == [p \in {<<"..x">>} |-> {"c1"}]

\* An empty config map, one file, two files, a file replaced by a directory,
\* a payload that cannot be written and one that is refused.
MCPayloads == {NoFiles, FileA1, Both, Nested, Clashes, Dotted}

\* The same without the payloads that fail, for the overlapping callers.
MCPayloadsOverlap == {FileA1, FileB2}

WriterSymmetry == Permutations(Writers)
IdSymmetry     == Permutations(TsIds)
OverlapSymmetry == Permutations(Writers) \cup Permutations(TsIds)
=============================================================================
