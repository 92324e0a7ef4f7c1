-------------------------- MODULE MCCatalogRefresh --------------------------
(* Three revisions, the second published twice with different bytes and     *)
(* once under another update URL, which still serves an older catalog.      *)
EXTENDS CatalogRefresh

CONSTANTS c1, c2, c2again, c3, u1, u2

MCCatalog == {c1, c2, c2again, c3}
MCRev     == [c \in MCCatalog |-> CASE c = c1 -> 1 [] c = c3 -> 3 [] OTHER -> 2]
MCUrl     == {u1, u2}
MCUrlOf   == [c \in MCCatalog |-> IF c = c2 THEN u2 ELSE u1]
MCServes  == [u \in MCUrl |-> IF u = u1 THEN MCCatalog ELSE {c1, c2}]
MCSeeds   == {c1}
=============================================================================
