------------------------------- MODULE MCLog -------------------------------
(* Two loads for the log, chosen at the start: two calls that change one of *)
(* two blocks each to different values, beside one that changes none; and a *)
(* large write beside small ones, where only the number of blocks matters.  *)
EXTENDS Log

CONSTANTS Few,                   \* the blocks of the first load
          Large, Small, Least,   \* the blocks of the three calls of the second
          Writer, Other          \* two of the calls

VARIABLE load

Calls(first, second, third) == [o \in Op |-> CASE o = Writer -> first [] o = Other -> second [] OTHER -> third]

Loads == { [block |-> Calls(Few, Few, {}), val |-> Val, most |-> 1],
           [block |-> Calls(Large, Small, Least), val |-> {Zero}, most |-> OpBlocks] }

Within == /\ \A b \in Block : cache[b] \in load.val \cup {None}
          /\ \A o \in Op : wrote[o] \subseteq load.block[o] /\ Cardinality(wrote[o]) <= load.most

MCInit == Init /\ load \in Loads

MCNext == Next /\ UNCHANGED load /\ Within'

MCSpec == MCInit /\ [][MCNext]_<<vars, load>> /\ Fairness
=============================================================================
