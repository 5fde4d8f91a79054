------------------------------ MODULE MCAcme --------------------------------
(***************************************************************************)
(* Instances of Acme for TLC: a certificate with two names, of which     *)
(* the first is the zone.                                                  *)
(***************************************************************************)
EXTENDS AcmeProps

CONSTANTS d1, d2

TwoNames == <<d1, d2>>

===============================================================================
