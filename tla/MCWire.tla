-------------------------------- MODULE MCWire --------------------------------
(* Requests for checking Wire: in each protocol some that are served, some *)
(* that look nothing up, some that are refused, and one whose lengths do   *)
(* not add up, from a client or from what takes itself for a server.       *)
EXTENDS Wire

Line(words) == [kind |-> "line", words |-> words]
PacketOf(magic, opcode, extras, key, value) ==
    [kind |-> "packet", magic |-> magic, opcode |-> opcode,
     extras |-> extras, key |-> key, value |-> value]
Request(opcode, extras, key, value) ==
    PacketOf("request", opcode, extras, key, value)

MCNumbers == {"60"}
MCFlags == {"v", "k"}

MCLines ==
    {Line(<<>>), Line(<<"get", "k">>), Line(<<"gat", "60", "k">>),
     Line(<<"touch", "k", "60">>), Line(<<"mg", "k", "v">>), Line(<<"mg", "k", "z">>),
     Line(<<"mn">>), Line(<<"quit">>)}

MCPackets ==
    {Request("GET", 0, 1, 0), Request("STAT", 0, 0, 0),
     Request("DELETE", 0, 1, 0), Request("QUIT", 0, 0, 0),
     Request("SET", 1, 1, 1), Request("GET", 0, 2, -1),
     PacketOf("response", "GET", 0, 2, -1)}

MCRequests == MCLines \cup MCPackets
=============================================================================
