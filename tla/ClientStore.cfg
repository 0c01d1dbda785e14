CONSTANTS
    monthly = monthly
    yearly = yearly
    Products <- MCProducts
    NoProduct = NoProduct
    MaxAttempts = 3
    MaxTroubles = 2
SPECIFICATION FairSpec
 
PROPERTIES PurchasesAreAnswered
