---------------------------- MODULE MCZmqServer ----------------------------
(* Small instances of ZmqServer: scaled-down integer ranges and documents. *)
EXTENDS ZmqServer

Absent == [kind |-> "absent", n |-> 0]
Other == [kind |-> "other", n |-> 0]
Num(k) == [kind |-> "number", n |-> k]

\* {"command": c, "parameters": {}}
Plain(c) ==
    [text |-> "object", command |-> c, parameters |-> "object",
     bus |-> Absent, address |-> Absent, reg |-> Absent, val |-> Absent,
     memory |-> Absent]

Read(b, a, r) ==
    [Plain("read_i2c_register") EXCEPT !.bus = Num(b), !.address = Num(a),
                                       !.reg = Num(r)]
Write(b, a, r, v) ==
    [Plain("write_i2c_register") EXCEPT !.bus = Num(b), !.address = Num(a),
                                        !.reg = Num(r), !.val = Num(v)]
ReadMemory(kind, k) ==
    [Plain("read_memory_address") EXCEPT !.memory = [kind |-> kind, n |-> k]]

Malformed == [Plain("absent") EXCEPT !.text = "malformed"]
Array == [Plain("absent") EXCEPT !.text = "nonobject"]
NoParameters == [Plain("read_i2c_register") EXCEPT !.parameters = "absent"]
TextBus == [Read(1, 1, 1) EXCEPT !.bus = Other]

\* ByteSpace is 4 and IntHalf 8 here: 15 is -1 as an int, 7 is 3 as a byte.
AllDocuments ==
    {Plain("get_app_version"), Plain("unknown"), Plain("nonstring"),
     Malformed, Array, NoParameters, TextBus,
     Read(1, 1, 1), Read(1, 2, 1), Read(1, 5, 1), Read(2, 1, 1), Read(-6, 1, 1),
     Read(15, 1, 1), Write(1, 1, 1, 7), Write(1, 5, 1, 2), Plain("write_i2c_register"),
     Plain("read_disk_usage"), Plain("read_memory_usage"),
     ReadMemory("absent", 0), ReadMemory("garbage", 0), ReadMemory("other", 0),
     ReadMemory("text", 6), ReadMemory("text", 13)}

\* Two registers, values that differ in and beyond the low byte, the register
\* number taken beyond the low byte too, and a device that is not there.
RegisterDocuments ==
    {Read(1, 1, 1), Read(1, 1, 2), Write(1, 1, 1, 7), Write(1, 1, 5, 2),
     Write(1, 1, 2, 1), Write(1, 2, 1, 1), Plain("get_app_version")}

ValidJson == {Plain("get_app_version"), NoParameters}

OneDevice == {<<1, 1>>}
Contents == [a \in 0 .. 7 |-> (3 * a + 1) % 4]
=============================================================================
