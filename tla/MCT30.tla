-------------------------------- MODULE MCT30 --------------------------------
EXTENDS T30
=============================================================================
