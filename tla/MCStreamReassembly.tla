------------------------- MODULE MCStreamReassembly -------------------------
(* Model checking of StreamReassembly: the two directions of a connection   *)
(* with channel 7 in the clear and channel 8 secured, another connection    *)
(* whose channel 7 is secured, and in another file the addresses of the     *)
(* first again, with channel 7 secured.  The body of the server's second    *)
(* message looks like a header.                                             *)
EXTENDS StreamReassembly

MCConnection ==
  [server |-> "plain", client |-> "plain", other |-> "secured", later |-> "plain"]
MCWire ==
  [server |-> <<Open, 3, 7, Msg, 5, 7, Open, 4, Msg, 3, 8>>,
   client |-> <<Msg, 4, 7, 0>>,
   other |-> <<Msg, 3, 7>>,
   later |-> <<Msg, 3, 7>>]
MCEnds ==
  [server |-> {0, 3, 8, 11}, client |-> {0, 4}, other |-> {0, 3}, later |-> {0, 3}]
MCIsn == [server |-> 8, client |-> 3, other |-> 0, later |-> 0]
MCFiles == {{"server", "client", "other"}, {"later"}}
MCSecured == {<<"server", 8>>, <<"other", 7>>, <<"later", 7>>}
=============================================================================
