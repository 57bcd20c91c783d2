---------------------------- MODULE EdlContract ----------------------------
(* What the SOAP service promises a client, with no threads, sockets or       *)
(* libraries in it: a catalogue of EDL types is published once, and every     *)
(* request gets at most one answer, an answer its own request and that        *)
(* catalogue permit.                                                          *)
EXTENDS Naturals, Sequences

CONSTANTS Clients, Requests, Types, Unsent

VARIABLES
    published,  \* whether the catalogue is known
    catalogue,  \* the EDL types the service offers
    sent,       \* sent[c]: the request of client c, Unsent before it asks
    got         \* got[c]: the answers client c was given

contractVars == <<published, catalogue, sent, got>>

Answer(kind, body) == [kind |-> kind, body |-> body]

\* What the schemas say each fault means (EDLProvider.xsd: "MarkIn bigger than
\* MarkOut."; baseMediaService.xsd for the last two: "Invalid request parameters.",
\* "System internal error.").
Meaning ==
    [EXT_S00_0002 |-> "UNSUPPORTED_FRAME_RATE",
     EXT_S00_0003 |-> "REQUIRED_VALUE",
     EXT_S00_0004 |-> "MARKIN_BIGGER_THAN_MARKOUT",
     EXT_S00_0005 |-> "MARK_INOUT_OUTSIDE_DURATION",
     EXT_S00_0006 |-> "GENERIC",
     DAT_S00_0006 |-> "invalid_argument",
     INF_S00_0003 |-> "unknown"]

\* What a getEdl of an offered type comes to: the EDL, or the fault that says what
\* the request's EDL ends in.
Outcome(r) ==
    IF r.ends = "none" THEN {Answer("edl", {r.type})}
    ELSE {Answer(f, {}) : f \in {g \in DOMAIN Meaning : Meaning[g] = r.ends}}

\* The faults that say something of the request are only given when it is so.
Permitted(r, offered) ==
    CASE r.op = "malformed" -> {Answer("SOAP_FAULT", {})}
      [] r.op = "getInstalledEdls" -> {Answer("edls", offered)}
      [] r.op = "getEdlDouble" /\ ~r.rate -> {Answer("EXT_S00_0002", {})}
      [] OTHER -> IF r.type \in offered
                  THEN Outcome(r) ELSE {Answer("EXT_S00_0001", {})}

Init ==
    /\ published = FALSE /\ catalogue = {}
    /\ sent = [c \in Clients |-> Unsent]
    /\ got = [c \in Clients |-> <<>>]

Publish ==
    /\ ~published /\ published' = TRUE
    /\ catalogue' \in SUBSET Types
    /\ UNCHANGED <<sent, got>>

Ask(c) ==
    /\ sent[c] = Unsent
    /\ \E r \in Requests : sent' = [sent EXCEPT ![c] = r]
    /\ UNCHANGED <<published, catalogue, got>>

Reply(c) ==
    /\ published /\ sent[c] # Unsent /\ got[c] = <<>>
    /\ \E a \in Permitted(sent[c], catalogue) : got' = [got EXCEPT ![c] = <<a>>]
    /\ UNCHANGED <<published, catalogue, sent>>

Next == Publish \/ \E c \in Clients : Ask(c) \/ Reply(c)

Spec == Init /\ [][Next]_contractVars

=============================================================================
