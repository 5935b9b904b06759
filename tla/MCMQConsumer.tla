---------------------------- MODULE MCMQConsumer ----------------------------
(***************************************************************************)
(* An instance of MQConsumer for TLC: two reports of one machine, one log  *)
(* that is published twice, once with an event_id and once with only the   *)
(* AMQP message_id, a log of a legacy producer that has neither, and a     *)
(* message of an unknown kind.                                             *)
(***************************************************************************)
EXTENDS MQConsumer

CONSTANTS os1, event1, digest1, digest2, digest3

StateMsg == [kind |-> "state", key |-> os1, eventId |-> None, messageId |-> None, digest |-> None]
LogMsg(eventId, messageId, digest) ==
  [kind |-> "log", key |-> None, eventId |-> eventId, messageId |-> messageId, digest |-> digest]
BadMsg == [kind |-> "unknown", key |-> None, eventId |-> None, messageId |-> None, digest |-> None]

MCMessage == << StateMsg, StateMsg,
                LogMsg(event1, None, digest1), LogMsg(None, event1, digest2),
                LogMsg(None, None, digest3),
                BadMsg >>

=============================================================================
