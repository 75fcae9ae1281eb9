--------------------------- MODULE NodeMessages ---------------------------
(***************************************************************************)
(* The messages that nodes exchange to connect to one another, to be       *)
(* introduced by a broker, to relay driver objects and to delegate         *)
(* allocation of memory.  Every message is a record that keeps the fields  *)
(* a receiver's decision can depend on.  "ends" is the set of driver       *)
(* transports the message carries; protocol versions, features, padding    *)
(* and memory objects are left out, because one version of the protocol    *)
(* is modelled and a memory object given to both sides is always valid.    *)
(***************************************************************************)

ConnectFromBrokerToNonBroker(broker, receiver, portals) ==
  [type |-> "ConnectFromBrokerToNonBroker", broker_name |-> broker,
   receiver_name |-> receiver, num_initial_portals |-> portals, ends |-> {}]

ConnectFromNonBrokerToBroker(portals) ==
  [type |-> "ConnectFromNonBrokerToBroker",
   num_initial_portals |-> portals, ends |-> {}]

ReferNonBroker(id, portals, end) ==
  [type |-> "ReferNonBroker", referral_id |-> id,
   num_initial_portals |-> portals, transport |-> end, ends |-> {end}]

ConnectToReferredBroker(portals) ==
  [type |-> "ConnectToReferredBroker",
   num_initial_portals |-> portals, ends |-> {}]

ConnectToReferredNonBroker(name, broker, referrer, portals, end) ==
  [type |-> "ConnectToReferredNonBroker", name |-> name,
   broker_name |-> broker, referrer_name |-> referrer,
   num_initial_portals |-> portals, transport |-> end, ends |-> {end}]

NonBrokerReferralAccepted(id, portals, name, end) ==
  [type |-> "NonBrokerReferralAccepted", referral_id |-> id,
   num_initial_portals |-> portals, name |-> name, transport |-> end,
   ends |-> {end}]

NonBrokerReferralRejected(id) ==
  [type |-> "NonBrokerReferralRejected", referral_id |-> id, ends |-> {}]

ConnectFromBrokerToBroker(name, portals) ==
  [type |-> "ConnectFromBrokerToBroker", name |-> name,
   num_initial_portals |-> portals, ends |-> {}]

RequestIntroduction(name) ==
  [type |-> "RequestIntroduction", name |-> name, ends |-> {}]

AcceptIntroduction(name, side, rtype, end) ==
  [type |-> "AcceptIntroduction", name |-> name, link_side |-> side,
   remote_node_type |-> rtype, transport |-> end, ends |-> {end}]

RejectIntroduction(name) ==
  [type |-> "RejectIntroduction", name |-> name, ends |-> {}]

RequestIndirectIntroduction(source, target) ==
  [type |-> "RequestIndirectIntroduction", source_node |-> source,
   target_node |-> target, ends |-> {}]

\* The one relayable message of the model: it stands for AddBlockBuffer and
\* AcceptParcelDriverObjects, the two messages DispatchRelayedMessage takes.
DriverObjects(id) ==
  [type |-> "DriverObjects", id |-> id, ends |-> {}]

RequestMemory(size) ==
  [type |-> "RequestMemory", size |-> size, ends |-> {}]

ProvideMemory(size) ==
  [type |-> "ProvideMemory", size |-> size, ends |-> {}]

RelayMessage(destination, data) ==
  [type |-> "RelayMessage", destination |-> destination, data |-> data,
   ends |-> {}]

AcceptRelayedMessage(source, data) ==
  [type |-> "AcceptRelayedMessage", source |-> source, data |-> data,
   ends |-> {}]
============================================================================
