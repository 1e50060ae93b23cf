----------------------------- MODULE MCStorages -----------------------------
(* Storages with files that come, go and change and with everything that     *)
(* Filesystem refuses.                                                       *)
EXTENDS Storages

CONSTANTS v1, v2, c1, c2

MCCerts    == {c1, c2}
MCHashName == [c \in MCCerts |-> IF c = c1 THEN "h1" ELSE "h2"]
MCMetadataFile == <<"metadata.json">>

Files(paths, c) == [p \in paths |-> {c}]

\* A file under two spellings of its name next to one of the bundle's; one of
\* the metadata's name; a file where a directory is needed; a refused name.
Payloads ==
  {[p \in {<<"b">>, <<".", "b">>, <<"bundle">>} |-> IF p = <<"b">> THEN {c1} ELSE {c2}],
   Files({<<"metadata.json">>}, c1),
   Files({<<"a">>, <<"a", "b">>}, c1),
   Files({<<"..x">>}, c1)}

\* A context that is taken and one that is refused.
MCContexts == {[fsGroup |-> 1], [fsGroup |-> BadAttr]}

\* Everything for one volume; the other is there to keep a manager from starting.
MCRequests ==
  {[meta |-> [id |-> v1, target |-> v1, context |-> k], files |-> f] : k \in MCContexts, f \in Payloads}
  \cup {[meta |-> [id |-> v2, target |-> v2, context |-> [fsGroup |-> 1]],
         files |-> Files({<<"metadata.json">>}, c1)]}
=============================================================================
