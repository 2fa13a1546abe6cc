--------------------------- MODULE MCWebhookDelivery ---------------------------
(* Instances of WebhookDelivery for TLC. *)
EXTENDS WebhookDelivery, TLC

CONSTANTS e1, h1, h2, w1, w2

OneEvent   == {e1}
OneHook    == {h1}
TwoHooks   == {h1, h2}
OneWorker  == {w1}
TwoWorkers == {w1, w2}

NoFaults   == {}
Lossy      == {"flush", "crash"}
Throwing   == {"throw"}
AllFaults  == FaultKinds

\* Worker slots are interchangeable, and so are the organization's webhooks
WorkerSymmetry == Permutations(TwoWorkers)
HookSymmetry   == Permutations(TwoHooks)

================================================================================
