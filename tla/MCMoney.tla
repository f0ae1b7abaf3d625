------------------------------- MODULE MCMoney -------------------------------
(***************************************************************************)
(* Instances of Money for TLC: two locks that are a step-up pair, and two  *)
(* panels of which one's name is inside the other's.  Prices are those of  *)
(* scripts/seed_pricing.py scaled down, the panel's with an edit.          *)
(***************************************************************************)
EXTENDS Money

MCProducts == {"base", "premium", "six", "six dimmer"}
MCNames == MCProducts \cup {"Golden six"}

MCRows == [n \in MCNames |->
    CASE n = "six dimmer" -> <<"six dimmer", "six">>
      [] n = "Golden six" -> <<"six">>
      [] OTHER -> <<n>>]

MCPrices == [p \in MCProducts |->
    CASE p = "base" -> {[unit |-> 180, fee |-> 15]}
      [] p = "premium" -> {[unit |-> 280, fee |-> 15]}
      [] p = "six" -> {[unit |-> 42, fee |-> 4], [unit |-> 45, fee |-> 3]}
      [] p = "six dimmer" -> {[unit |-> 48, fee |-> 4]}]

MCOffers == [o \in {"NONE", "FESTIVE5", "BUNDLE8", "BUNDLE10", "PROJECT12"} |->
    CASE o = "NONE" -> [pct |-> 0, lines |-> 0, subtotal |-> 0]
      [] o = "FESTIVE5" -> [pct |-> 5, lines |-> 1, subtotal |-> 0]
      [] o = "BUNDLE8" -> [pct |-> 8, lines |-> 2, subtotal |-> 0]
      [] o = "BUNDLE10" -> [pct |-> 10, lines |-> 3, subtotal |-> 0]
      [] o = "PROJECT12" -> [pct |-> 12, lines |-> 2, subtotal |-> 420]]

MCUpgrades == [p \in {"base"} |-> "premium"]

\* Bound: up to two entries, equal names included; three is above MaxQty.
MCRequests ==
    {<<[name |-> n, qty |-> q]>> : n \in MCNames, q \in {1, 3}}
    \cup {<<[name |-> n, qty |-> q], [name |-> m, qty |-> 1]>> :
            n \in MCNames, m \in MCNames, q \in {1, 3}}

\* The instance is one that the theorems about Money speak of.
ASSUME Typical == PricesApart /\ TiersAreNear
=============================================================================
