---------------------------- MODULE MCProvision -----------------------------
(* Provision on two certificates, with a source object of each kind.         *)
EXTENDS Provision

MCCerts    == {"c1", "c2"}
MCHashName == [c \in MCCerts |-> IF c = "c1" THEN "h1" ELSE "h2"]

File(n, c) == [p \in {n} |-> c]

MCTestFiles == File(<<"a">>, {})

\* An unknown getter, configurations that do not split in two, a reference that
\* does not parse, and the rest.
MCConfigs == {[getter |-> "http"], [getter |-> "test"],
              [getter |-> "configmap", parts |-> 3], [getter |-> "configmap", parts |-> 2],
              [getter |-> "secret", parts |-> 1], [getter |-> "secret", parts |-> 2],
              [getter |-> "oci", parses |-> FALSE], [getter |-> "oci", parses |-> TRUE]}

ConfigMaps ==
  {[data |-> File(<<"a">>, {"c1"}), binaryData |-> File(<<"b">>, {"c2"})],
   [data |-> File(<<"a">>, {"c2"}), binaryData |-> NoFiles],
   [data |-> File(<<"bundle">>, {"c1"}), binaryData |-> File(<<"a">>, {"c2"})]}

Secrets == {[data |-> File(<<"a">>, {"c1"})], [data |-> File(<<"a">>, {"c1", "c2"})]}

Entry(n, k, c) == [name |-> n, kind |-> k, content |-> c]
Layer(t, es) == [type |-> t, gzipped |-> TRUE, entries |-> es]

\* A directory, a name twice, the same name in two spellings, a link; a nested
\* file; a damaged tarball; names that are refused, that pass because of a "."
\* before them, one of these the writer's own, that clash, or that take the
\* bundle's place; no tarball; one that is not compressed as it says.
Artifacts ==
  {[layers |-> <<Layer("other", << >>),
                 Layer("tar", <<Entry(<<"d">>, "dir", {}), Entry(<<"a">>, "file", {"c1"}),
                                Entry(<<"a">>, "file", {"c2"}),
                                Entry(<<".", "a">>, "file", {"c1"}),
                                Entry(<<"l">>, "link", {})>>),
                 Layer("tar", <<Entry(<<"b">>, "file", {"c1"})>>)>>],
   [layers |-> <<Layer("tar+gzip", <<Entry(<<"a">>, "file", {"c1"}),
                                     Entry(<<"d", "b">>, "file", {"c2"})>>)>>],
   [layers |-> <<Layer("tar", <<Entry(<<"a">>, "file", {"c1"}), Entry(<<"b">>, "damaged", {}),
                                Entry(<<"c">>, "file", {"c2"})>>)>>],
   [layers |-> <<Layer("tar", <<Entry(<<"..x">>, "file", {"c1"})>>)>>],
   [layers |-> <<Layer("tar", <<Entry(<<".", "..x">>, "file", {"c1"})>>)>>],
   [layers |-> <<Layer("tar", <<Entry(<<".", "..tmp">>, "file", {"c1"})>>)>>],
   [layers |-> <<Layer("tar", <<Entry(<<"a">>, "file", {"c1"}),
                                Entry(<<"a", "b">>, "file", {"c1"})>>)>>],
   [layers |-> <<Layer("tar", <<Entry(<<"bundle", "b">>, "file", {"c1"})>>)>>],
   [layers |-> <<Layer("other", << >>)>>],
   [layers |-> <<[type |-> "tar+gzip", gzipped |-> FALSE, entries |-> << >>]>>]}

MCObjects ==
  [g \in {"http", "configmap", "secret", "oci", "test"} |->
     CASE g = "configmap" -> ConfigMaps \cup {NoObject}
       [] g = "secret"    -> Secrets \cup {NoObject}
       [] g = "oci"       -> Artifacts \cup {NoObject}
       [] OTHER           -> {NoObject}]

\* Around both ends of a 3-bit gid.
MCAttributes == {NoAttr, BadAttr} \cup {0 - 1, 0, 1, 6, 7, 8}
=============================================================================
