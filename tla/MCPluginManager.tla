------------------------- MODULE MCPluginManager -------------------------
(* Small instances of PluginManager: two library files, at most one thread.   *)
EXTENDS PluginManager

CONSTANT w1

MCLibs == {1, 2}

\* The plugins of the repository implement both interfaces.
BothKinds == [l \in Libs |-> {"logger", "edl"}]
\* The sample of the README implements EdlInterface only.
EdlOnly == [l \in Libs |-> {"edl"}]

MCTypes == {"cmx", "fcp", "unknown"}
MCName  == [l \in Libs |-> IF l = 1 THEN "cmx" ELSE "fcp"]

NoneCopied == {}
OneCopied  == {2}

NoWorkers == {}
OneWorker == {w1}

=============================================================================
