----------------------------- MODULE KeyProofs -----------------------------
(***************************************************************************)
(* The theorems about keys, packets and nonces of a session, from the      *)
(* invariants of the traffic (TrafficProofs) and of the nonce history      *)
(* (NonceProofs), and the law of the replay window (PartProofs).           *)
(***************************************************************************)
EXTENDS TrafficProofs, NonceProofs, PartProofs

LEMMA WindowLawHolds == WindowLaw
<1>1. IsWindow({})
  BY WindowSizeAssumption, FS_EmptySet DEF IsWindow
<1> QED
  BY <1>1, WindowRetains DEF WindowLaw

LEMMA TrafficStarts == Init => TrafficInv
BY WindowLawHolds, TrafficInit

LEMMA TrafficLasts ==
  ASSUME ~ Timely
  PROVE  TrafficInv /\ [Next]_vars => TrafficInv'
BY WindowLawHolds, TrafficStep

LEMMA TrafficAlways ==
  ASSUME ~ Timely
  PROVE  Spec => []TrafficInv
BY TrafficLasts, TrafficStarts, PTL DEF Spec

(* Over a network that forgets nothing the handshake implements            *)
(* KeyAgreement, whatever the intervals and bounds: every key is offered,  *)
(* adopted and activated once at most and in that order, and the server    *)
(* activates none while the client takes its own for confirmed, through    *)
(* rollbacks, restarts and repeated, late or reordered messages.           *)
THEOREM AgreementImplemented ==
  ASSUME ~ Timely
  PROVE  Spec => ImplementsKeyAgreement
<1>1. Init => Agreement!Init
  BY DEF Init, Agreement!Init, FreshClient, FreshServer, NoSession, KeysSent
<1>2. TrafficInv /\ [Next]_vars => [Agreement!Next]_(Agreement!agreementVars)
  BY StageStep DEF AbstractStep
<1>3. QED
  BY <1>1, <1>2, TrafficAlways, PTL DEF Spec, ImplementsKeyAgreement, Agreement!Spec

(* No counter is used for two packets of one key: what was sent under a    *)
(* key that an end transmits with is numbered below its next counter,      *)
(* whatever handshake messages are repeated (session.hpp:222, :363).       *)
THEOREM CountersFresh ==
  ASSUME ~ Timely
  PROVE  Spec => []CountersNotReused
<1>1. TrafficInv => CountersNotReused
  BY DEF TrafficInv, EndInv, Packets, CountersNotReused
<1>2. QED
  BY <1>1, TrafficAlways, PTL

(* Whatever the size of the window and however the network repeats and     *)
(* reorders: no packet is handed up twice, across rekeying and its         *)
(* overlap, and the server hands up none of a session that it has not      *)
(* acknowledged (session.hpp:439, :448).                                   *)
THEOREM DeliveredRight ==
  ASSUME ~ Timely
  PROVE  Spec => []DeliverySound
<1>1. ASSUME TrafficInv PROVE DeliveredOnce
  BY <1>1 DEF TrafficInv, Once, DeliveredOnce
<1>2. ASSUME TrafficInv PROVE NoDataBeforeConfirm
  <2>1. SUFFICES ASSUME NEW id \in PacketIds, deliveries[id] > 0, id[2] = "client"
                 PROVE  ConfirmAckMsg(id[1]) \in net
    BY DEF NoDataBeforeConfirm
  <2>2. id[1] \in KeysSent("confirm_ack")
    BY <1>2, <2>1 DEF TrafficInv, EndInv
  <2>3. PICK m \in net : m.type = "confirm_ack" /\ m.key = id[1]
    BY <2>2 DEF KeysSent
  <2>4. m \in KeyRecords
    BY <1>2, <2>3, ReceivedType DEF TrafficInv, AgreementInv, TypeOK
  <2>5. m = ConfirmAckMsg(id[1])
    BY <2>3, <2>4 DEF KeyRecords, ConfirmAckMsg
  <2>6. QED
    BY <2>3, <2>5
<1>3. TrafficInv => DeliverySound
  BY <1>1, <1>2 DEF DeliverySound
<1>4. QED
  BY <1>3, TrafficAlways, PTL

(* After a rekey the old key moves neither the UDP peer nor metadata: the  *)
(* peer is the one of the key in use, and what the previous session hands  *)
(* up is data (session.hpp:417, :440, :452).                               *)
THEOREM OldKeysCarryData ==
  ASSUME ~ Timely
  PROVE  Spec => OldKeysLimited
<1>1. TrafficInv /\ PeerOfActive' /\ [Next]_vars => [OldKeyLimit]_vars
  BY MetaStep DEF OldKeyLimit
<1>2. QED
  BY <1>1, TrafficAlways, PeerFollowsKey, PTL DEF Spec, OldKeysLimited

(* Whatever the window, the capacity and the clock readings: a nonce is    *)
(* answered once by each incarnation of the server, and its two indexes    *)
(* agree within the capacity (session.hpp:259-273, :304-316).              *)
THEOREM NoncesAnsweredOnce ==
  ASSUME ~ Timely
  PROVE  Spec => []NonceHistorySound
<1>1. Init => NonceInv
  BY AgreementInit, NonceInvInit
<1>2. NonceInv /\ [Next]_vars => NonceInv'
  BY AgreementStep, NonceInvStep DEF NonceInv
<1> QED
  BY <1>1, <1>2, NonceInvSound, PTL DEF Spec

=============================================================================
