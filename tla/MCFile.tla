-------------------------------- MODULE MCFile --------------------------------
(***************************************************************************)
(* Dictionaries for File: with tail and user data, each of entries of      *)
(* several lengths and of none, with one of both, and with neither.        *)
(***************************************************************************)
EXTENDS File

Plain == [header |-> 0, cells |-> <<11, 12>>, tail |-> <<>>, data |-> <<>>]
Tailed == [header |-> 1, cells |-> <<13>>, tail |-> <<<<21, 22>>, <<23>>>>,
           data |-> <<>>]
WithData == [header |-> 2, cells |-> <<14, 15>>, tail |-> <<>>,
             data |-> <<<<>>, <<31, 32>>>>]
Both == [header |-> 3, cells |-> <<16, 17>>, tail |-> <<<<24, 25>>>>,
         data |-> <<<<33>>, <<>>>>]
NoSuffixes == [Both EXCEPT !.tail = <<>>]

MCDictionaries == {Plain, Tailed, WithData, Both, NoSuffixes}

===============================================================================
