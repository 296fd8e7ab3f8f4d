---------------------------- MODULE MCEtlStream -----------------------------
(***************************************************************************)
(* Three lines in all, of every kind there is; an object may bear a tenant *)
(* of its own, or a number that lies between two float64.                  *)
(***************************************************************************)
EXTENDS EtlStream

CONSTANTS t1, t2, big, near

SomeObjects == {[level |-> big], [tenant |-> t2]}
Nearest == [v \in {t1, t2, big, near} |-> IF v = big THEN near ELSE v]
ErrorObject == [error |-> t2]
=============================================================================
