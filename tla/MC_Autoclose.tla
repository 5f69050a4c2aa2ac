---------------------------- MODULE MC_Autoclose ----------------------------
EXTENDS Autoclose
=============================================================================
