----------------------------- MODULE MCRewards ------------------------------
EXTENDS Rewards

CONSTANTS v1, v2, v3

TwoHosts == <<v1, v2>>
ThreeHosts == <<v1, v2, v3>>
=============================================================================
