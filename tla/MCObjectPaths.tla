---------------------------- MODULE MCObjectPaths ----------------------------
(* Instances of ObjectPaths for TLC: the paths /, /a and /a/b. *)
EXTENDS ObjectPaths

MCPath == {"/", "/a", "/a/b"}

MCUp == [p \in MCPath |-> CASE p = "/" -> {"/"}
                            [] p = "/a" -> {"/a", "/"}
                            [] p = "/a/b" -> MCPath]
=============================================================================
