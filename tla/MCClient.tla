------------------------------ MODULE MCClient ------------------------------
EXTENDS Client

CONSTANTS h1, h2, h3

ThreeHosts == <<h1, h2, h3>>
=============================================================================
