---------------------------- MODULE MCHistories ----------------------------
(***************************************************************************)
(* Instances of Histories for TLC.                                         *)
(***************************************************************************)
EXTENDS Histories

\* Values a change may carry: two subsidies, both modes, one set of selection
\* parameters, two settlement windows.
SomeValues ==
  [reward |-> {4, 6}, mode |-> {Trusted, ProtocolSelection}, selection |-> {1}, settlement |-> {1, 2}]
FirstValues == [reward |-> 4, mode |-> Trusted, selection |-> 1, settlement |-> 2]

=============================================================================
