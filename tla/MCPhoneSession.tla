--------------------------- MODULE MCPhoneSession ---------------------------
(* One phone of one house, a person with a PIN and one without. *)
EXTENDS PhoneSession
=============================================================================
