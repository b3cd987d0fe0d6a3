----------------------------- MODULE MCScreens -----------------------------
EXTENDS ScreenProperties
=============================================================================
