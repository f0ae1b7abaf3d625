SPECIFICATION Spec
CONSTANTS
    Products <- MCProducts
    Names <- MCNames
    Rows <- MCRows
    Prices <- MCPrices
    Offers <- MCOffers
    Upgrades <- MCUpgrades
    Requests <- MCRequests
    MaxPct = 11
    MaxQty = 2
    MinAmount = 45
    MaxAmount = 600
    MaxProposals = 1
    MaxEdits = 1
CHECK_DEADLOCK FALSE
INVARIANTS
    TypeOK
    QuoteIsPayable
    ArithmeticAgrees
PROPERTIES
    ApplyIsBest
    AddKeepsItsPromise
    ChargesWhatTheCatalogueSays
