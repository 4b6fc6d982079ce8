-------------------------------- MODULE MCForLoop ------------------------------
EXTENDS ForLoop
================================================================================
