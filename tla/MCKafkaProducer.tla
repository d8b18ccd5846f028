-------------------------- MODULE MCKafkaProducer --------------------------
(* Instance of KafkaProducer for TLC: single publishes and batches of two.  *)
EXTENDS KafkaProducer

=============================================================================
