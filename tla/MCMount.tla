------------------------------ MODULE MCMount ------------------------------
EXTENDS Mount
=============================================================================
