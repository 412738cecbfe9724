---------------------------- MODULE MCGateCalls ----------------------------
EXTENDS BrokerInvariant, TLC
CONSTANTS a, b
=============================================================================
