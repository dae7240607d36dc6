-------------------------- MODULE MCKafkaConsumer ---------------------------
(* KafkaConsumer as its configurations check it. *)
EXTENDS KafkaConsumer
=============================================================================
