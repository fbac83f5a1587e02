---------------------------- MODULE MCHostInstall ----------------------------
(* Two shells that ship one bundle, which runs on the host, and a third, of  *)
(* a rebuild at the same version, that ships one which does not.            *)
EXTENDS HostInstall

CONSTANTS i1, i2, i3, b1, b2

Shipped == [i \in Installs |-> IF i = i3 THEN b2 ELSE b1]
=============================================================================
