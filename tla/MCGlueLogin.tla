---------------------------- MODULE MCGlueLogin ----------------------------
EXTENDS GlueLogin
=============================================================================
