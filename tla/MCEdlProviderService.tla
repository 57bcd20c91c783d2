------------------------ MODULE MCEdlProviderService ------------------------
(* Small instances of the service: one or two plugins, two pool threads, two  *)
(* clients.                                                                   *)
EXTENDS EdlProviderService

CONSTANTS w1, w2, c1, c2

OneLib    == {1}
TwoLibs   == {1, 2}
\* The plugins of the repository implement both interfaces.
BothKinds == [l \in Libs |-> {"logger", "edl"}]
\* The sample of the README implements EdlInterface only.
MixedKinds == [l \in Libs |-> IF l = 1 THEN {"logger", "edl"} ELSE {"edl"}]
OneType   == {"cmx"}
AllTypes  == {"cmx", "fcp", "unknown"}
MCName    == [l \in Libs |-> IF l = 1 THEN "cmx" ELSE "fcp"]
NoneCopied == {}
AllCopied  == {1, 2}

TwoWorkers == {w1, w2}
TwoClients == {c1, c2}
NoneSilent == {}
OneSilent  == {c2}

Request(op, t) == [op |-> op, type |-> t, clips |-> TRUE, rate |-> TRUE, ends |-> "none"]

GetInstalled == [Request("getInstalledEdls", "cmx") EXCEPT !.clips = FALSE, !.rate = FALSE]
GetEdl(t)    == Request("getEdl", t)
OddRate      == [Request("getEdlDouble", "cmx") EXCEPT !.rate = FALSE]
BadMarks     == [Request("getEdlDouble", "cmx") EXCEPT !.ends = "MARKIN_BIGGER_THAN_MARKOUT"]
Malformed    == [Request("malformed", "cmx") EXCEPT !.clips = FALSE, !.rate = FALSE]
\* The request README.md shows as the minimal one.
Minimal      == [Request("getEdlDouble", "cmx") EXCEPT !.clips = FALSE]

GoodRequests == {GetInstalled, GetEdl("cmx")}
AllRequests  == GoodRequests \cup {GetEdl("unknown"), OddRate, BadMarks, Malformed, Minimal}
FewRequests  == {GetEdl("cmx"), Malformed}
OneMinimal   == {Minimal}

=============================================================================
