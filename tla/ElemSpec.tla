------------------------------ MODULE ElemSpec ------------------------------
(***************************************************************************)
(* What a T.copy or T.fill promises the kernel it runs in, whatever the  *)
(* lowering: once issued, the destination buffer's elements are written   *)
(* one at a time, in any order, each only with the value Meaning gives    *)
(* it, and eventually every element it names holds that value.  Nothing   *)
(* outside the region, and nothing outside the buffer, is written.        *)
(***************************************************************************)
EXTENDS CopyRegions

CONSTANT Copies     \* the copy and fill calls a kernel may issue

VARIABLES
    call,   \* the copy issued, or NoCall
    mem     \* the destination buffer: element -> value or Unwritten

vars == <<call, mem>>

NoCall == [kind |-> "none"]
Unwritten == [tag |-> "unwritten", at |-> <<>>]

Init ==
    /\ call = NoCall
    /\ mem = <<>>

Issue ==
    \E c \in Copies :
        /\ call = NoCall
        /\ call' = c
        /\ mem' = [p \in Box(c.dst_shape) |-> Unwritten]

Write ==
    /\ call # NoCall
    /\ \E s \in Meaning(call) :
        /\ mem[s.dst] # s.val
        /\ mem' = [mem EXCEPT ![s.dst] = s.val]
        /\ UNCHANGED call

Next == Issue \/ Write

\* A call, once issued, keeps writing until it is complete.
Spec == Init /\ [][Next]_vars /\ WF_vars(Write)

=============================================================================
