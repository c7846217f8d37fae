---------------------------- MODULE MCSilentPeer ----------------------------
EXTENDS SilentPeer, MCLacpPort
=============================================================================
