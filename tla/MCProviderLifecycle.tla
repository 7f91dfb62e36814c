------------------------ MODULE MCProviderLifecycle ------------------------
(* Three tasks on one provider; more pool objects than calls. *)
EXTENDS ProviderLifecycle

CONSTANTS t1, t2, t3

MCTask == {t1, t2, t3}
MCPool == 1..5
=============================================================================
