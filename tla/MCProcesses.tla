------------------------ MODULE MCProcesses ------------------------
(* Processes for TLC: the browser broker and a renderer under the   *)
(* host, on their two production routes.                                    *)
EXTENDS Processes

MCKinds == {"Host", "BrowserBroker", "Renderer"}

MCRoutes == ProductionRoutes \cap
            ({"BrowserBroker", "Renderer"} \X {"BrowserBroker", "Renderer"})

MCRestart == [k \in MCKinds |-> ProductionRestart[k]]

\* Enough for a full channel that takes a message again, and one the other way.
MCMaxMessages == [r \in MCRoutes |-> IF r[1] = "BrowserBroker" THEN 3 ELSE 1]

MCIds == {"q1", "q2"}

Envelope(src, dst, id, current, payload) ==
    [ currentVersion |-> current, request_id |-> id, source |-> src,
      destination |-> dst, payload |-> payload ]

MCEnvelopes ==
    { Envelope("BrowserBroker", "Renderer", "q1", TRUE,
               [type |-> "Request", rawSecret |-> FALSE]),
      Envelope("BrowserBroker", "Renderer", "q2", TRUE, [type |-> "Cancel"]),
      Envelope("BrowserBroker", "Renderer", "q2", TRUE,
               [type |-> "Request", rawSecret |-> TRUE]),
      Envelope("Renderer", "BrowserBroker", "q1", TRUE,
               [type |-> "Response", rawSecret |-> FALSE]),
      Envelope("Renderer", "BrowserBroker", "q1", TRUE,
               [type |-> "Handshake", currentVersion |-> FALSE]),
      Envelope("Renderer", "BrowserBroker", "q2", FALSE, [type |-> "CrashNotice"]),
      Envelope("Renderer", "CredentialBroker", "q2", TRUE,
               [type |-> "Request", rawSecret |-> FALSE]) }
===========================================================================
