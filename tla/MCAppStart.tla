----------------------------- MODULE MCAppStart -----------------------------
EXTENDS AppStart

MCMasks == (SUBSET Core) \ {{}}
=============================================================================
