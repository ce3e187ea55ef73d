---------------------------- MODULE MCMessageLog ----------------------------
(* MessageLog for TLC: incoming messages are interchangeable, and each     *)
(* backend has the faults it is looked at under.                           *)
EXTENDS MessageLog, TLC

Symmetry == Permutations(Keys \ Own)

\* The card is looked at under failing rewrites, SPIFFS under power cuts.
EachWriteFaults ==
    [b \in Backends |-> IF b = "sd" THEN {"append", "header", "fullHeader"}
                                    ELSE {"append", "header"}]
EachReplaceFaults ==
    [b \in Backends |-> IF b = "sd" THEN {"refused", "both", "pending"} ELSE {}]
Once == [b \in Backends |-> IF b = "sd" THEN 0 ELSE 1]

\* A full store whose header cannot be written, and no other fault.
FullHeader == [b \in Backends |-> {"fullHeader"}]
NoFaults   == [b \in Backends |-> {}]
Never      == [b \in Backends |-> 0]
=============================================================================
