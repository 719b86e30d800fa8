------------------------- MODULE MCMarketLifecycle -------------------------
EXTENDS MarketLifecycle
CONSTANTS m1, m2, r1, r2
=============================================================================
