---------------------------- MODULE MCInodeList ----------------------------
EXTENDS InodeList
=============================================================================
