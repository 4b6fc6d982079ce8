-------------------------------- MODULE MCTyping -------------------------------
EXTENDS Typing
================================================================================
