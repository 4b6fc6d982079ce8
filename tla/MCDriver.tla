-------------------------------- MODULE MCDriver -------------------------------
EXTENDS Driver

MCCases == <<"bubble_sort", "factorial">>
================================================================================
