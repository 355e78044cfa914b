---------------------------- MODULE KeyAgreement ----------------------------
(***************************************************************************)
(* What the session handshake promises, without messages, retries or       *)
(* timers.  The server offers keys, the client adopts an offered key, the  *)
(* server activates an adopted one, the client takes it for confirmed.     *)
(* Each key goes through these stages at most once, and the server never   *)
(* changes keys behind the back of a client that holds a confirmed one.    *)
(* Either side may lose its key at any time.                               *)
(***************************************************************************)
CONSTANTS Keys, NoKey

VARIABLES offered, adopted, activated,   \* keys that have reached the stage
          clientKey, serverKey,          \* keys transmitted under, or NoKey
          confirmed                      \* the client trusts its key

agreementVars == <<offered, adopted, activated, clientKey, serverKey, confirmed>>

Init ==
  /\ offered = {} /\ adopted = {} /\ activated = {}
  /\ clientKey = NoKey /\ serverKey = NoKey
  /\ confirmed = FALSE

Offer(k) ==
  /\ k \notin offered
  /\ offered' = offered \cup {k}
  /\ UNCHANGED <<adopted, activated, clientKey, serverKey, confirmed>>

Adopt(k) ==
  /\ k \in offered \ adopted
  /\ adopted' = adopted \cup {k}
  /\ clientKey' = k
  /\ confirmed' = FALSE
  /\ UNCHANGED <<offered, activated, serverKey>>

Activate(k) ==
  /\ k \in adopted \ activated
  /\ ~ confirmed
  /\ activated' = activated \cup {k}
  /\ serverKey' = k
  /\ UNCHANGED <<offered, adopted, clientKey, confirmed>>

Confirm ==
  /\ clientKey \in activated
  /\ serverKey \in {clientKey, NoKey}
  /\ confirmed' = TRUE
  /\ UNCHANGED <<offered, adopted, activated, clientKey, serverKey>>

ClientLoses ==
  /\ clientKey' = NoKey
  /\ confirmed' = FALSE
  /\ UNCHANGED <<offered, adopted, activated, serverKey>>

ServerLoses ==
  /\ serverKey' = NoKey
  /\ UNCHANGED <<offered, adopted, activated, clientKey, confirmed>>

Next ==
  \/ \E k \in Keys : Offer(k) \/ Adopt(k) \/ Activate(k)
  \/ Confirm
  \/ ClientLoses
  \/ ServerLoses

Spec == Init /\ [][Next]_agreementVars

=============================================================================
