---------------------------- MODULE MCReceiverApp ----------------------------
(* Sizes for the model checking of ReceiverApp.                            *)
EXTENDS ReceiverApp

MCCoded == {[w |-> 16, h |-> 10]}
MCCanvas == [w |-> 12, h |-> 9]
MCScreens == {[w |-> 10, h |-> 13]}
=============================================================================
