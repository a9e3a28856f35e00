---------------------------- MODULE MCBlockBody ----------------------------
(* Blocks of up to five of two transactions, and longer ones: one transaction *)
(* repeated, with or without another one at the end.                          *)
EXTENDS BlockBody, TLC

CONSTANTS s   \* a key of an object that stands where a list should

\* 10 sorts before 2 as a string.
MCIntOrder  == <<2, 10>>
MCTextOrder == <<10, 2>>

One    == [keys |-> {2}, type |-> "str"]
Number == [keys |-> {2, 10}, type |-> "int"]
String == [keys |-> {2, 10}, type |-> "str"]
Mixed  == [keys |-> {2, 10}, type |-> "mixed"]

MCTx == {One, Number, String, Mixed}

MCData == {<<2>>, <<2, 10>>, <<10, 2>>}

Short == UNION {[1 .. n -> {One, Number}] : n \in 0 .. 5}

Long == {[i \in 1 .. n |-> IF i = n THEN last ELSE One] :
            n \in {7, 9}, last \in {One, Number}}

MCTxLists == Short \cup Long \cup {<<String>>, <<Number, String>>, <<One, Mixed>>}

MCItem == {<<s>>}

MCDamaged ==
    {None, Junk, Json("null", <<>>), Json("scalar", <<>>),
     Json("items", <<>>), Json("list", <<>>)}
        \cup {Json("items", <<text>>) : text \in MCItem}
        \cup {Json("list", <<text>>) : text \in MCData}
=============================================================================
