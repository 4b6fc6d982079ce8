----------------------------- MODULE MCInternTable -----------------------------
(* Entries of three bytes: texts around that length, which share their     *)
(* beginnings, and one that fills the buffer of six.                       *)
EXTENDS InternTable

a == 97
MCIdentifiers ==
    {<<a>>, <<65>>, <<a, a>>, <<a, a, a>>, <<a, a, 98>>, <<a, a, a, a>>,
     <<a, a, a, 98, a>>, <<a, a, a, a, a, a>>}
MCReals      == {<<46, 52>>, <<52, 46, 52>>, <<52, 46, 52, 52>>}
MCCharacters == {a, 46}
MCStrings    == {<< >>, <<52>>, <<a, a>>}
================================================================================
