-------------------------------- MODULE Money --------------------------------
(***************************************************************************)
(* What an order costs.  The model proposes names, quantities and an offer *)
(* id; code prices them from products_pricing, applies the offer, checks   *)
(* the result against the money guardrail and shows it.  Taps re-price the *)
(* order, the mint block checks it against the catalogue again, and        *)
(* meanwhile an operator edits the catalogue.                              *)
(*                                                                         *)
(* Amounts are integers in the smallest unit; percentages are whole, as in *)
(* the registry.  The line totals that the code stores are computed here.  *)
(***************************************************************************)
EXTENDS Integers, SequencesExt

CONSTANTS
    Products,    \* canonical catalogue names
    Names,       \* the strings a model may write, Products among them
    Rows,        \* the rows a name may resolve to, best match first
    Prices,      \* the prices each product may have
    Offers,      \* the registry: percentage, least lines, least subtotal
    Upgrades,    \* the step-up pairs: product -> dearer product
    Requests,    \* what the model may propose: sequences of [name, qty]
    MaxPct,      \* MAX_DISCOUNT_PCT
    MaxQty,      \* MAX_LINE_QTY
    MinAmount,   \* RAZORPAY_MIN_AMOUNT
    MaxAmount,   \* RAZORPAY_MAX_AMOUNT
    MaxProposals,\* bound: orders the model builds
    MaxEdits     \* bound: edits of the catalogue

None == "NONE"         \* no offer
NoProduct == "none"
NoOrder == [lines |-> <<>>]
Price == [unit : Nat, fee : Nat]

ASSUME NamesResolve ==
    /\ Products \subseteq Names /\ NoProduct \notin Names
    /\ Rows \in [Names -> Seq(Products)]
    /\ \A p \in Products : Rows[p] # <<>> /\ Rows[p][1] = p
ASSUME PricesArePrices ==
    \A p \in Products : Prices[p] # {} /\ Prices[p] \subseteq Price
ASSUME RegistryHasNone ==
    /\ Offers \in [DOMAIN Offers -> [pct : 0 .. 100, lines : Nat, subtotal : Nat]]
    /\ None \in DOMAIN Offers /\ Offers[None].pct = 0
ASSUME UpgradesArePairs ==
    DOMAIN Upgrades \subseteq Products /\ \A p \in DOMAIN Upgrades : Upgrades[p] \in Products
ASSUME LimitsAreNaturals ==
    /\ MaxPct \in 0 .. 100 /\ MaxQty \in Nat \ {0}
    /\ MinAmount \in Nat /\ MaxAmount \in Nat
    /\ MaxProposals \in Nat /\ MaxEdits \in Nat
    /\ \A r \in Requests : r \in Seq([name : Names, qty : Nat \ {0}])

VARIABLES
    catalogue,   \* products_pricing: each product's price and is_active
    order,       \* pending_order
    link,        \* "none", or how the latest link was checked when minted
    proposals,
    edits

vars == <<catalogue, order, link, proposals, edits>>

Line == [sku : Products, qty : 1 .. MaxQty, unit : Nat, fee : Nat]
Order == [lines : Seq(Line) \ {<<>>}, offer : DOMAIN Offers, pct : 0 .. MaxPct,
          subtotal : Nat, discount : Nat, amount : Nat,
          extra : {NoProduct} \cup Products,
          better : {NoProduct} \cup DOMAIN Upgrades]

\* The variables' types: lines carry canonical names and quantities in range.
TypeOK ==
    /\ catalogue \in [Products -> [price : Price, active : BOOLEAN]]
    /\ order = NoOrder \/ order \in Order
    /\ link \in {"none", "repriced", "unpriced"}
    /\ proposals \in 0 .. MaxProposals
    /\ edits \in 0 .. MaxEdits

-----------------------------------------------------------------------------
\* Looking up prices

\* The active rows a name finds: exact, then normalised, then the longest
\* catalogue name inside it.
Active(name) == {i \in DOMAIN Rows[name] : catalogue[Rows[name][i]].active}
Resolves(name) == Active(name) # {}

Found(name) == LET p == Rows[name][Min(Active(name))] IN
    [sku |-> p, unit |-> catalogue[p].price.unit, fee |-> catalogue[p].price.fee]

Lookup(names) == [n \in {m \in names : Resolves(m)} |-> Found(n)]

Skus(lines) == {lines[i].sku : i \in DOMAIN lines}

\* The map sales.py builds from an order's own lines: the last line wins.
Own(lines) ==
    [p \in Skus(lines) |-> lines[Max({i \in DOMAIN lines : lines[i].sku = p})]]

-----------------------------------------------------------------------------
\* discounts.py

SumOf(lines, F(_)) == SumFunction([i \in DOMAIN lines |-> F(lines[i])])
Subtotal(lines) == SumOf(lines, LAMBDA l : (l.unit + l.fee) * l.qty)
Fees(lines) == SumOf(lines, LAMBDA l : l.fee * l.qty)

Percent(n, pct) == (n * pct + 50) \div 100

\* The strings requested, in the order of first mention, and how many of each.
Mentioned(raw) ==
    FoldLeft(LAMBDA seen, it : IF Contains(seen, it.name) THEN seen ELSE Append(seen, it.name),
             <<>>, raw)
Wanted(raw, name) == SumOf(raw, LAMBDA it : IF it.name = name THEN it.qty ELSE 0)

\* One clamped quantity per requested string.
Merged(raw) ==
    [i \in DOMAIN Mentioned(raw) |->
        LET name == Mentioned(raw)[i]
        IN  [name |-> name, qty |-> Min({Wanted(raw, name), MaxQty})]]

\* price_line_items: what resolved, at the trusted price, under its own name.
PriceLines(raw, trusted) ==
    FoldLeft(LAMBDA lines, it :
                IF it.name \notin DOMAIN trusted THEN lines
                ELSE LET t == trusted[it.name] IN Append(lines,
                        [sku |-> t.sku, qty |-> it.qty, unit |-> t.unit, fee |-> t.fee]),
             <<>>, Merged(raw))

Effective(o) == Min({Offers[o].pct, MaxPct})

Entitled(lines, o) ==
    /\ Len(lines) >= Offers[o].lines
    /\ Subtotal(lines) >= Offers[o].subtotal

\* Mutant: the discount is taken on the fees as well.
ApplyOfferToFees(lines, o) ==
    LET pct == IF Entitled(lines, o) THEN Effective(o) ELSE 0
        discount == Percent(Subtotal(lines), pct)
    IN  [lines |-> lines, offer |-> IF pct > 0 THEN o ELSE None, pct |-> pct,
         subtotal |-> Subtotal(lines), discount |-> discount,
         amount |-> Subtotal(lines) - discount,
         extra |-> NoProduct, better |-> NoProduct]

\* apply_offer: fees are never discounted.
ApplyOffer(lines, o) ==
    LET pct == IF Entitled(lines, o) THEN Effective(o) ELSE 0
        discount == Percent(Subtotal(lines) - Fees(lines), pct)
    IN  [lines |-> lines, offer |-> IF pct > 0 THEN o ELSE None, pct |-> pct,
         subtotal |-> Subtotal(lines), discount |-> discount,
         amount |-> Subtotal(lines) - discount,
         extra |-> NoProduct, better |-> NoProduct]

Dearest(os) == CHOOSE o \in os : \A q \in os : Effective(q) <= Effective(o)

\* Mutant: the least subtotal is forgotten.
BestMutant(lines) ==
    LET good == {o \in DOMAIN Offers : Effective(o) > 0 /\ Len(lines) >= Offers[o].lines}
    IN  IF good = {} THEN None ELSE Dearest(good)

\* best_eligible_offer, None where nothing gives anything.
Best(lines) ==
    LET good == {o \in DOMAIN Offers : Effective(o) > 0 /\ Entitled(lines, o)}
    IN  IF good = {} THEN None ELSE Dearest(good)

-----------------------------------------------------------------------------
\* next_offer_hint

\* How far an offer is: products and money short of it.
ShortOf(lines, o) ==
    [products |-> Max({Offers[o].lines - Len(lines), 0}),
     money |-> Max({Offers[o].subtotal - Subtotal(lines), 0})]

\* The same distance relative to the order in hand, as a fraction.
Effort(lines, o) == LET s == ShortOf(lines, o) IN
    IF s.products > 0 THEN [over |-> s.products, under |-> Len(lines)]
                      ELSE [over |-> s.money, under |-> Max({Subtotal(lines), 1})]

Nudges(lines) ==
    {o \in DOMAIN Offers :
        /\ Effective(o) > Effective(Best(lines))
        /\ LET s == ShortOf(lines, o) IN (s.products > 0) # (s.money > 0)
        /\ Effort(lines, o).over <= Effort(lines, o).under}

\* The nearest better tier: least effort, then the better rate.
Nearest(lines) == CHOOSE o \in Nudges(lines) : \A q \in Nudges(lines) :
    LET a == Effort(lines, o)  b == Effort(lines, q) IN
    \/ a.over * b.under < b.over * a.under
    \/ a.over * b.under = b.over * a.under /\ Effective(o) >= Effective(q)

\* Would a further product earn a better rate?  Then the pairing may be shown.
PairingPays(lines) ==
    Nudges(lines) # {} /\ ShortOf(lines, Nearest(lines)).products > 0

-----------------------------------------------------------------------------
\* The money guardrail

\* Equal to the paisa: the code compares floats with a tolerance of 0.01.
Near(a, b) == a - b \in -1 .. 1

InBand(amount) == amount >= MinAmount /\ amount <= MaxAmount

\* validate_payment_request; an empty trusted is the code's None, and skips the
\* comparison with the catalogue.
Allowed(o, trusted) ==
    LET value == Subtotal(o.lines) - Fees(o.lines) IN
    /\ o.lines # <<>>
    /\ \A i \in DOMAIN o.lines : LET l == o.lines[i] IN
          /\ l.qty \in 1 .. MaxQty
          /\ l.unit > 0
          /\ DOMAIN trusted # {} =>
                /\ l.sku \in DOMAIN trusted
                /\ Near(trusted[l.sku].unit, l.unit) /\ Near(trusted[l.sku].fee, l.fee)
    /\ Near(o.subtotal, Subtotal(o.lines))
    /\ o.pct <= MaxPct
    /\ Near(o.discount, Percent(value, o.pct))
    /\ o.discount <= value + 1
    /\ Near(o.amount, Subtotal(o.lines) - o.discount)
    /\ InBand(o.amount)

-----------------------------------------------------------------------------
\* Suggestions the code lets through

\* Mutant: the name the model wrote is kept, not the catalogue's.
PairingsMutant(lines) ==
    IF PairingPays(lines)
      THEN {m \in Names : Resolves(m)} \ Skus(lines)
      ELSE {}

\* _validate_complement: a priced product not in the order, with a rate to earn.
Pairings(lines) ==
    IF PairingPays(lines)
      THEN {Found(n).sku : n \in {m \in Names : Resolves(m)}} \ Skus(lines)
      ELSE {}

\* _validate_upgrade: lines with a registered, active, dearer step-up.
StepUps(lines) ==
    {p \in Skus(lines) \cap DOMAIN Upgrades : LET to == Upgrades[p] IN
        /\ catalogue[to].active
        /\ to \notin Skus(lines)
        /\ Found(to).unit + Found(to).fee > Own(lines)[p].unit + Own(lines)[p].fee}

-----------------------------------------------------------------------------
\* Building and re-pricing the order

\* _advance stores the order and lets it be minted (again).
Show(o) == order' = o /\ link' = "none"

\* _build_pending_order.  Wording may drop any suggestion.  The prices looked up
\* are the lines' own.
Propose ==
    /\ proposals < MaxProposals
    /\ \E raw \in Requests, o \in DOMAIN Offers :
         LET names == {raw[i].name : i \in DOMAIN raw}
             lines == PriceLines(raw, Lookup(names))
             new == ApplyOffer(lines, o)
         IN  /\ lines # <<>>
             /\ Allowed(new, Own(lines))
             /\ \E extra \in {NoProduct} \cup Pairings(lines),
                   better \in {NoProduct} \cup StepUps(lines) :
                  Show([new EXCEPT !.extra = extra, !.better = better])
    /\ proposals' = proposals + 1
    /\ UNCHANGED <<catalogue, edits>>

\* _reprice_with_best_offer: the same lines and prices, the best offer.
ApplyBest ==
    LET new == ApplyOffer(order.lines, Best(order.lines)) IN
    /\ order # NoOrder
    /\ Best(order.lines) # None
    /\ Allowed(new, Own(order.lines))
    /\ Show([new EXCEPT !.extra = order.extra, !.better = order.better])
    /\ UNCHANGED <<catalogue, proposals, edits>>

\* The order's own lines as a proposal, with the product new in place of old.
Again(lines, old, new) ==
    [i \in DOMAIN lines |-> [name |-> IF lines[i].sku = old THEN new ELSE lines[i].sku,
                             qty |-> lines[i].qty]]

\* Prices the order has, and one looked up now.
With(lines, p) ==
    [n \in Skus(lines) \cup {p} |-> IF n = p THEN Found(p) ELSE Own(lines)[n]]

Grown == PriceLines(Append(Again(order.lines, NoProduct, NoProduct), [name |-> order.extra, qty |-> 1]),
                    With(order.lines, order.extra))

\* Mutant: the enlarged order does not go through the guardrail.
AddUnchecked ==
    /\ order # NoOrder
    /\ order.extra # NoProduct
    /\ Resolves(order.extra)
    /\ Len(Grown) > Len(order.lines)
    /\ Show([ApplyOffer(Grown, Best(Grown)) EXCEPT !.better = order.better])
    /\ UNCHANGED <<catalogue, proposals, edits>>

\* Mutant: the enlarged order keeps the offer it had.
AddSameOffer ==
    /\ order # NoOrder
    /\ order.extra # NoProduct
    /\ Resolves(order.extra)
    /\ Len(Grown) > Len(order.lines)
    /\ LET new == ApplyOffer(Grown, order.offer) IN
         /\ Allowed(new, Own(Grown))
         /\ Show([new EXCEPT !.better = order.better])
    /\ UNCHANGED <<catalogue, proposals, edits>>

\* _add_complement_to_order
AddComplement ==
    /\ order # NoOrder
    /\ order.extra # NoProduct
    /\ Resolves(order.extra)
    /\ Len(Grown) > Len(order.lines)
    /\ LET new == ApplyOffer(Grown, Best(Grown)) IN
         /\ Allowed(new, Own(Grown))
         /\ Show([new EXCEPT !.better = order.better])
    /\ UNCHANGED <<catalogue, proposals, edits>>

\* The add tap fails, or the lookup does: the order stays without the pairing.
AddRefused ==
    /\ order # NoOrder
    /\ order.extra # NoProduct
    /\ order' = [order EXCEPT !.extra = NoProduct]
    /\ UNCHANGED <<catalogue, link, proposals, edits>>

Swapped == LET to == Upgrades[order.better] IN
    PriceLines(Again(order.lines, order.better, to), With(order.lines, to))

\* _swap_upgrade_in_order
SwapUpgrade ==
    /\ order # NoOrder
    /\ order.better \in Skus(order.lines)
    /\ Resolves(Upgrades[order.better])
    /\ Len(Swapped) = Len(order.lines)
    /\ LET new == ApplyOffer(Swapped, Best(Swapped)) IN
         /\ Allowed(new, Own(Swapped))
         /\ Show([new EXCEPT !.extra = order.extra])
    /\ UNCHANGED <<catalogue, proposals, edits>>

\* The swap fails, or there is none: the order is shown again without it.
SwapRefused ==
    /\ order # NoOrder
    /\ Show([order EXCEPT !.better = NoProduct])
    /\ UNCHANGED <<catalogue, proposals, edits>>

-----------------------------------------------------------------------------
\* Minting, and the catalogue's own life

\* Mutant: the order's own prices are trusted.
MintOwn ==
    /\ order # NoOrder
    /\ link = "none"
    /\ Allowed(order, Own(order.lines))
    /\ link' = "repriced"
    /\ UNCHANGED <<catalogue, order, proposals, edits>>

\* _process_checkout: checked against what the catalogue says now.
Mint ==
    /\ order # NoOrder
    /\ link = "none"
    /\ Allowed(order, Lookup(Skus(order.lines)))
    /\ link' = "repriced"
    /\ UNCHANGED <<catalogue, order, proposals, edits>>

\* The lookup raised: only the arithmetic is checked.
MintUnpriced ==
    /\ order # NoOrder
    /\ link = "none"
    /\ Allowed(order, <<>>)
    /\ link' = "unpriced"
    /\ UNCHANGED <<catalogue, order, proposals, edits>>

\* External: somebody edits products_pricing.
EditCatalogue ==
    /\ edits < MaxEdits
    /\ \E p \in Products : \E price \in Prices[p], active \in BOOLEAN :
         LET row == [price |-> price, active |-> active]
         IN  /\ row # catalogue[p]
             /\ catalogue' = [catalogue EXCEPT ![p] = row]
    /\ edits' = edits + 1
    /\ UNCHANGED <<order, link, proposals>>

Init ==
    /\ catalogue \in [Products -> [price : UNION {Prices[p] : p \in Products}, active : {TRUE}]]
    /\ \A p \in Products : catalogue[p].price \in Prices[p]
    /\ order = NoOrder
    /\ link = "none"
    /\ proposals = 0
    /\ edits = 0

Next ==
    \/ Propose \/ ApplyBest
    \/ AddComplement \/ AddRefused \/ SwapUpgrade \/ SwapRefused
    \/ Mint \/ MintUnpriced
    \/ EditCatalogue

Spec == Init /\ [][Next]_vars

-----------------------------------------------------------------------------
\* What two of the theorems ask of the price list and of the registry

\* No price a product may have is within the guardrail's tolerance of another
\* that its name may be looked up at.
PricesApart ==
    \A p \in Products : \A i \in DOMAIN Rows[p] :
        \A a \in Prices[p], b \in Prices[Rows[p][i]] :
            Near(b.unit, a.unit) /\ Near(b.fee, a.fee) => Rows[p][i] = p /\ b = a

\* No tier of the registry needs more than three products, so the nearest tier
\* that products earn is one product away.
TiersAreNear == \A o \in DOMAIN Offers : Offers[o].lines <= 3

-----------------------------------------------------------------------------
\* Properties

\* An order at today's prices.
IsCurrent(o) == \A i \in DOMAIN o.lines :
    LET p == o.lines[i].sku IN
    /\ catalogue[p].active
    /\ catalogue[p].price = [unit |-> o.lines[i].unit, fee |-> o.lines[i].fee]

\* What is quoted can be paid: as long as the catalogue has not moved under it,
\* the guardrail at mint time accepts whatever the taps have made of the order.
QuoteIsPayable ==
    order # NoOrder /\ IsCurrent(order) => Allowed(order, Lookup(Skus(order.lines)))

\* discounts.py and guardrails.py compute an order's money twice.  They agree,
\* for every offer, on every order reached, up to the limits on the amount.
ArithmeticAgrees ==
    order # NoOrder => \A o \in DOMAIN Offers :
        LET new == ApplyOffer(order.lines, o)
        IN  InBand(new.amount) => Allowed(new, Own(order.lines))

\* "That's the best offer this order qualifies for": after the apply tap no
\* offer in the registry would make the same lines cheaper.
ApplyIsBest ==
    [][ApplyBest => \A o \in DOMAIN Offers :
          order'.amount <= ApplyOffer(order.lines, o).amount]_vars

\* "Adding it takes this order to N% off": when the add tap works, it does, also
\* after swaps and edits made since the pairing was chosen.
AddKeepsItsPromise ==
    [][AddComplement /\ PairingPays(order.lines) =>
          order'.pct >= Effective(Nearest(order.lines))]_vars

\* The amount the catalogue gives for the order's lines and offer now.
AmountNow(o) ==
    LET lines == [i \in DOMAIN o.lines |->
            LET p == o.lines[i].sku
            IN  [o.lines[i] EXCEPT !.unit = catalogue[p].price.unit,
                                   !.fee = catalogue[p].price.fee]]
    IN  ApplyOffer(lines, o.offer).amount

ChargesCatalogue(o) ==
    /\ \A p \in Skus(o.lines) : catalogue[p].active
    /\ o.amount = AmountNow(o)

\* A mint that could look prices up charges what the catalogue says at that
\* moment, discount and entitlement included, and sells nothing that was
\* retired, provided anything of the order is still sold.
ChargesWhatTheCatalogueSays ==
    [][link' = "repriced" /\ link # "repriced"
          /\ (\E p \in Skus(order.lines) : catalogue[p].active)
       => ChargesCatalogue(order)]_vars
=============================================================================
