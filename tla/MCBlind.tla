------------------------------ MODULE MCBlind ------------------------------
EXTENDS BlindReveal
CONSTANTS c1, c2
MCCaseOrder == <<c1, c2>>
MCPairs == {{c1, c2}}
=============================================================================
