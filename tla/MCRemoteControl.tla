-------------------------- MODULE MCRemoteControl --------------------------
(* A verb of each shape: one debugger request, two in a row, or none.       *)
EXTENDS RemoteControlInv
MCRequests ==
  {[verb |-> "cmd", todo |-> <<"info">>], [verb |-> "memmark", todo |-> <<"m1">>], [verb |-> "capture", todo |-> <<"info", "m2">>],
   [verb |-> "continue", todo |-> <<>>], [verb |-> "stop", todo |-> <<>>]}
MCScript == <<"read", "write", "reg">>
=============================================================================
