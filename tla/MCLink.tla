------------------------------- MODULE MCLink -------------------------------
(* An instance of Link for TLC: a command of each type.  The cuts in the    *)
(* cfg are within the header and to the length of the shortest frame.       *)
EXTENDS Link

MCPayloads ==
  <<[type |-> "New", id |-> 7, account |-> 1, instrument |-> 2, price |-> 3, quantity |-> 4,
     side |-> "Sell", tif |-> "Ioc"],
    [type |-> "Replace", id |-> 7, account |-> 1, instrument |-> 2, price |-> 5,
     quantity |-> 6],
    [type |-> "Cancel", id |-> 7, account |-> 1, instrument |-> 2]>>
=============================================================================
