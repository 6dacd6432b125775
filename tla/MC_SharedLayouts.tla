--------------------------- MODULE MC_SharedLayouts ---------------------------
(* Tiles of 4 to 16 rows and 16 to 128 columns of 8- to 64-bit elements for *)
(* makeGemmABLayout, and the Volta tiles of the crosswise, congruous and   *)
(* padded cases.                                                           *)
EXTENDS SharedLayouts

MCRequests ==
    [stride : {4, 8, 16}, continuous : {16, 32, 64, 128}, element_size : {8, 16, 32, 64},
     kfactor : {0, 1, 2}]

MCVoltaRequests ==
    {[stride |-> 32, continuous |-> 32, is_a |-> TRUE, kfactor |-> 2],
     [stride |-> 16, continuous |-> 32, is_a |-> FALSE, kfactor |-> 2],
     [stride |-> 4, continuous |-> 64, is_a |-> TRUE, kfactor |-> 1],
     [stride |-> 8, continuous |-> 64, is_a |-> FALSE, kfactor |-> 1],
     [stride |-> 8, continuous |-> 32, is_a |-> TRUE, kfactor |-> 1]}

=============================================================================
