---- MODULE MCNetworkLoader ----
(* Instances of NetworkLoader for TLC. *)
EXTENDS NetworkLoader

\* The networks of two releases, a manifest that names a file twice, and one
\* whose last entry is malformed.
MCManifests == {<<"old">>, <<"new", "old">>, <<"new", "new">>, <<"old", "odd">>}
====
