------------------------ MODULE MCConfigurationReader ------------------------
(* Two files; the elements of EdlProviderConfig.xsd that lead to the port,    *)
(* which the schema requires.                                                 *)
EXTENDS ConfigurationReader

CONSTANTS f1, f2

MCFiles    == {f1, f2}
MCElements == {"EdlProvider", "Service", "Port"}
MCAbove    == [e \in MCElements |->
                 CASE e = "EdlProvider" -> {e}
                   [] e = "Service" -> {"EdlProvider", e}
                   [] e = "Port" -> MCElements]
MCValues   == {"8080"}

Whole == [e \in MCElements |-> IF e = "Port" THEN "8080" ELSE Nothing]
Bare  == [e \in {"EdlProvider"} |-> Nothing]

\* A configuration, one the schema refuses, one that is cut off, and no text.
MCTexts == {[doc |-> Whole, wellFormed |-> TRUE], [doc |-> Bare, wellFormed |-> TRUE],
            [doc |-> Bare, wellFormed |-> FALSE], Empty}

HasPort(d) == DOMAIN d = MCElements /\ d["Port"] # Nothing

=============================================================================
