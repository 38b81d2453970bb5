--------------------------- MODULE MCBrokerCatalogue ---------------------------
(* BrokerCatalogue.cfg: two pods of one name and two services without an   *)
(* address of their own. BrokerCataloguePolicy.cfg: two pods that have     *)
(* different names, and no services.                                       *)
EXTENDS BrokerCatalogue, TLC

CONSTANTS p1, p2, s1, s2

SharedKeys == [o \in Objects |-> IF o \in Pods THEN "web" ELSE "None"]
OwnNames == (p1 :> "web") @@ (p2 :> "db")
================================================================================
