------------------------------ MODULE MCVolume ------------------------------
EXTENDS Volume

MCDeviceSizes == 5 .. 64
MCInodeCounts == {0, 3, 9}
=============================================================================
