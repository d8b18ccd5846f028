---------------------------- MODULE MCSdkClient ----------------------------
(* Instance of SdkClient for TLC: every mix of valid and invalid messages.  *)
EXTENDS SdkClient

=============================================================================
