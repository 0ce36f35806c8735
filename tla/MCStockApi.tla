----------------------------- MODULE MCStockApi -----------------------------
(***************************************************************************)
(* Instances of StockApi for TLC: two clients, a viewer, one channel, and  *)
(* three items of the catalog.  Butter has the brand and the category of   *)
(* dahi and would beat the other dahi but for the matching of kinds.       *)
(***************************************************************************)
EXTENDS StockApi, TLC

MCCategory == [i \in Items |-> "fresh-dairy"]
MCBrand == ("dahi" :> "Amul") @@ ("dahi-sub" :> "Mother Dairy") @@ ("butter" :> "Amul")
MCPrice == ("dahi" :> 45) @@ ("dahi-sub" :> 50) @@ ("butter" :> 56)
MCKind  == ("dahi" :> "dahi") @@ ("dahi-sub" :> "dahi") @@ ("butter" :> "other")
MCStockLevels == {-1, 0, 2}

=============================================================================
