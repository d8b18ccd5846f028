---------------------------- MODULE MCSubscriber ----------------------------
(* Instance of Subscriber for TLC.                                          *)
EXTENDS Subscriber

=============================================================================
