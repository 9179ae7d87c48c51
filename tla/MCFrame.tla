------------------------------ MODULE MCFrame ------------------------------
(* Small instances of Frame: the values that the setters are called with. *)
EXTENDS Frame

\* n data words whose bytes are all different from their neighbours.
Words(n) == [i \in 1 .. n |-> (256 * (16 + i) + 160 + i)]

\* Values as in frame_tester's main, one that needs all eight bits of general,
\* and data of the lengths around the loop's bound.
CodecInputs ==
    [registerAddress |-> {1}, readWriteCommand |-> {}, lengthCode |-> {13},
     chipAddress |-> {}, engineAddress |-> {},
     data |-> {Words(n) : n \in {2, 10, 11, 12, 13, 14}},
     general |-> {200}, cnt |-> {3}, completion |-> {TRUE},
     completionWithConditional |-> {}]

\* Every field, and a frame with as many words as its length code says.
LineInputs ==
    [registerAddress |-> {1}, readWriteCommand |-> {TRUE}, lengthCode |-> {2},
     chipAddress |-> {18}, engineAddress |-> {1023}, data |-> {Words(2), Words(13)},
     general |-> {15}, cnt |-> {3}, completion |-> {TRUE},
     completionWithConditional |-> {TRUE}]

LineMasks == {1, 16, 129, 255}
=============================================================================
