------------------------------ MODULE MCVoice ------------------------------
EXTENDS Voice
=============================================================================
