--------------------------- MODULE MCWorkspaceLease ---------------------------
(* One start command, and runs that end while a reconciliation works.      *)
EXTENDS WorkspaceLease, TLC

CONSTANTS s1, h1, t1

TheCommand == t1 :> s1
Overlapping == {[threads |-> {t1}, aging |-> FALSE, overlap |-> TRUE]}
===============================================================================
