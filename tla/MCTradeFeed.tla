---------------------------- MODULE MCTradeFeed ----------------------------
EXTENDS TradeFeed
CONSTANTS c1, c2, t1, t2, t3, m1, m2, all

\* c1 watches every market and c2 only m2, where t2 and t3 are.
MCWatch == [c \in Clients |-> IF c = c1 THEN all ELSE m2]
MCMarket == [t \in Trades |-> IF t = t1 THEN m1 ELSE m2]
=============================================================================
