--------------------------- MODULE MCBlockchainApp ---------------------------
EXTENDS Votings

CONSTANTS v1, v2, alice, bob

MCElectorates == {{alice}}
MCLargeElectorates == {{v1, alice, bob}}
=============================================================================
