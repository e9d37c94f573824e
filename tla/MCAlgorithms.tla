---------------------------- MODULE MCAlgorithms ----------------------------
(***************************************************************************)
(* The two algorithms over small inputs: a question about the emission or  *)
(* one about a Selection, never both.                                      *)
(***************************************************************************)
EXTENDS MCEmission, Selection

CONSTANTS t, e1, e2

VARIABLE question

\* Scores that collide for some draw IDs and change with every observed block.
MCTicketHash(hash, id) ==
  LET entries == hash[5]
      weight == [i \in DOMAIN entries |->
                   entries[i].hash + (IF entries[i].proposer = e1 THEN 1 ELSE 0)]
  IN (id * (1 + FoldFunction(+, 0, weight))) % 3

MCCandidateLists == {<<>>, <<3>>, <<1, 3>>, <<1, 2, 3>>, <<1, 2, 3, 4, 5>>, <<2, 1>>, <<2, 2>>}
MCEpochStarts == {[start |-> 1, next |-> 5], [start |-> 1, next |-> 6], [start |-> 4, next |-> 8]}
MCBeaconParams ==
  [offset : {0, 1, 2}, window : {0, 2, 3}, minBlocks : {0, 1, 2}, minProposers : {1, 2}]
MCLimits ==
  {[rate |-> r, slotMax |-> s, protocolMax |-> 2] : r \in {1, 2}, s \in {1, 3}}
    \cup {[rate |-> 3, slotMax |-> 1, protocolMax |-> 2]}

EmissionQuestion ==
  /\ question = "emission"
  /\ Init
  /\ rules = CHOOSE r \in [epochs : EpochStarts, beacon : BeaconParams, limits : Limits] : TRUE
  /\ height = 0 /\ observed = <<>> /\ candidates = <<>> /\ committed = 0 /\ published = 0

SelectionQuestion ==
  /\ question = "selection"
  /\ SelectionInit
  /\ max = 1 /\ initial = 0 /\ start = 0 /\ cumulative = 0 /\ blocks = 0

AlgorithmsNext ==
  \/ question = "emission" /\ Next /\ UNCHANGED <<question, selectionVars>>
  \/ question = "selection" /\ SelectionNext /\ UNCHANGED <<question, vars>>

AlgorithmsSpec ==
  (EmissionQuestion \/ SelectionQuestion) /\ [][AlgorithmsNext]_<<question, vars, selectionVars>>
=============================================================================
