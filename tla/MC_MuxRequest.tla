---------------------------- MODULE MC_MuxRequest ----------------------------
EXTENDS MuxRequest

CONSTANTS noErr

=============================================================================
