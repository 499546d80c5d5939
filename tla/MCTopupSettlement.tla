-------------------------- MODULE MCTopupSettlement --------------------------
(* Two intents of one customer.  The older one is an invoice checkout that *)
(* is never paid, so it fills the sweep's batch of one until it expires;   *)
(* the younger is a deposit or an invoice checkout and may be declined and *)
(* paid.  One webhook process, one portal process and the sweep serve it.  *)
EXTENDS TopupSettlement
=============================================================================
