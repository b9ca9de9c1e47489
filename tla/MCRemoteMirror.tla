--------------------------- MODULE MCRemoteMirror ---------------------------
EXTENDS RemoteMirror
=============================================================================
