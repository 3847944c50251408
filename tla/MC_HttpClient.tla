---------------------------- MODULE MC_HttpClient ----------------------------
(* Every list of up to two webhooks: enough for one webhook's block to     *)
(* reach the transport another webhook uses, and for a later block to      *)
(* overwrite an earlier one's CA.                                          *)
EXTENDS HttpClient

MC_MaxWebhooks == 2
=============================================================================
