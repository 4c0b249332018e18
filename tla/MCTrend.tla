------------------------------ MODULE MCTrend ------------------------------
EXTENDS Trend
=============================================================================
