----------------------------- MODULE MCFieldbus -----------------------------
(* Small plants.  The worlds are alternatives, so their states add up.       *)
EXTENDS Fieldbus

Reg(dir, type, kind, addr, count, scale, offset, init) ==
    [dir |-> dir, type |-> type, kind |-> kind, addr |-> addr, count |-> count,
     scale |-> scale, offset |-> offset, bit |-> -1, order |-> "big-endian", words |-> 1, init |-> init]
Upp(dir, type, cmd, decoder, init) ==
    [dir |-> dir, type |-> type, cmd |-> cmd, decoder |-> decoder, channel |-> "none",
     count |-> 1, init |-> init]
Device(proto, path, slave, fields) == [proto |-> proto, link |-> path, slave |-> slave, fields |-> fields]
World(bound, port, order, devs) == [maxFaults |-> bound, port |-> port, order |-> order, devs |-> devs]

\* Two slaves on one line; the first takes two requests of the same function,
\* one of them for a bit, the second has its bytes the other way round.
Meter == <<Reg("in", "INT", "holding", 0, 2, 0, 0, 7),
           [Reg("in", "BOOL", "holding", 5, 1, 0, 0, 8) EXCEPT !.bit = 2]>>
Counter == <<[Reg("in", "UINT", "holding", 1, 1, 0, 0, 9) EXCEPT !.order = "little-endian"]>>
RtuPair == World(1, "p", <<"d1", "d2">>,
    "d1" :> Device("rtu", "p", 1, Meter) @@ "d2" :> Device("rtu", "p", 2, Counter))

\* One slave with outputs of two kinds, one of them with a scale and an offset.
Drive == <<Reg("in", "BOOL", "discrete", 4, 1, 0, 0, 1), Reg("in", "INT", "virtual", 2, 1, 0, 0, 0),
           Reg("out", "BOOL", "coil", 0, 1, 0, 0, 0), Reg("out", "REAL", "holding", 1, 1, 5000, -5000, 1)>>
RtuDrive == World(1, "p", <<"d1">>, "d1" :> Device("rtu", "p", 1, Drive))

\* A pyrometer with a settable emissivity, and a broadcast that switches lasers.
Pyrometer == <<Upp("inout", "LREAL", "em", "u16_dec_milli", 300), Upp("in", "REAL", "ms", "temp_5d_tenth", 12345)>>
Lasers == <<Upp("out", "BOOL", "la", "bool_digit", 0)>>
UppPyrometer == World(1, "p", <<"d1">>, "d1" :> Device("upp", "p", 1, Pyrometer))
UppBroadcast == World(1, "p", <<"d1">>, "d1" :> Device("upp", "p", 99, Lasers))

\* Both protocols on one line, the slave number being the code of the digit 0.
MixedLine == World(1, "p", <<"d1", "d2">>,
    "d1" :> Device("rtu", "p", 48, Counter) @@
    "d2" :> Device("upp", "p", 98, <<Upp("in", "REAL", "ms", "temp_5d_tenth", 12345)>>))

\* A TCP device: an array whose elements have two words each, coils and a register
\* that are written.
Remote == <<[Reg("in", "UINT", "holding", 0, 2, 0, 0, 3) EXCEPT !.words = 2], Reg("out", "BOOL", "coil", 0, 2, 0, 0, 0),
            Reg("out", "INT", "holding", 5, 1, 0, 0, 0)>>
TcpPlant == World(2, "", <<"d1">>, "d1" :> Device("tcp", "h", 1, Remote))

\* A simulated device beside blocks whose configuration is refused.
Simulated == <<Upp("in", "BOOL", "x", "text", 0), Upp("inout", "BOOL", "y", "text", 0), Upp("out", "BOOL", "z", "text", 0)>>
Unbound == <<Upp("out", "BOOL", "ms", "bool_digit", 0)>>
SimPlant == World(1, "", <<"d1", "d2">>,
    "d1" :> Device("sim", "", 0, Simulated) @@ "d2" :> Device("tcp", "", 1, Remote))
NoLinks == World(1, "", <<"d1", "d2">>,
    "d1" :> Device("rtu", "", 1, Drive) @@ "d2" :> Device("upp", "", 1, Lasers))
BadSlaves == World(1, "p", <<"d1", "d2">>,
    "d1" :> Device("rtu", "p", 256, Drive) @@ "d2" :> Device("upp", "p", 100, Lasers))
BadProfile == World(1, "p", <<"d1">>, "d1" :> Device("upp", "p", 1, Unbound))

MCWorlds == {RtuPair, RtuDrive, UppPyrometer, UppBroadcast, MixedLine,
             TcpPlant, SimPlant, NoLinks, BadSlaves, BadProfile}
MCSamples == [BOOL |-> <<0, 1>>, INT |-> <<0, 3>>, REAL |-> <<0, 5000>>, LREAL |-> <<0, 5006>>]
=============================================================================
