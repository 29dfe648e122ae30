--------------------------- MODULE FieldbusCodec ---------------------------
(* The pure part of the device drivers: how a device profile becomes the     *)
(* slots of a function block, the requests of one poll (batches of adjacent  *)
(* Modbus registers, UPP commands), how values are converted on the way and  *)
(* how an answer is recognised.                                              *)
(*                                                                           *)
(* A value is a record [t, v]; REALs are counted in ten-thousandths, so that *)
(* the scale and the offset of a register are integers too, and a value may  *)
(* be finer than the thousandths that UPP sends.  A frame is a record *)
(* of the parts the parsers look at and of the length it has on the wire.    *)
EXTENDS Integers, Sequences, SequencesExt, FiniteSets, FiniteSetsExt, Functions

----------------------------------------------------------------------------
\* Profiles.  A Modbus field has a register (kind, addr, scale, offset, bit,
\* order, words; bit -1 stands for none), a UPP field a command, a decoder and a
\* channel; count > 1 makes it an array.

RegisterKinds == {"coil", "discrete", "holding", "input", "virtual"}
UnsignedTypes == {"USINT", "UINT", "UDINT", "ULINT", "BYTE", "WORD", "DWORD", "LWORD"}
SignedTypes == {"SINT", "INT", "DINT", "LINT"}
RealTypes == {"REAL", "LREAL"}
FieldTypes == {"BOOL", "STRING", "TIME"} \cup UnsignedTypes \cup SignedTypes \cup RealTypes

ByteOrders == {"big-endian", "little-endian"}

\* Registers, addresses and parameters have 16 bits.
WordSize == 65536
Word == 0..(WordSize - 1)

Inputs == {"in", "inout"}
Outputs == {"out", "inout"}
IsInput(f) == f.dir \in Inputs
IsOutput(f) == f.dir \in Outputs
ElementCount(f) == IF f.count > 1 THEN f.count ELSE 1

None == [t |-> "None", v |-> 0]
Value(t, v) == [t |-> t, v |-> v]
VarType(type) ==
    CASE type = "BOOL" -> "Bool"
      [] type \in UnsignedTypes -> "UInt"
      [] type \in RealTypes -> "Real"
      [] type = "STRING" -> "String"
      [] type = "TIME" -> "Time"
      [] OTHER -> "Int"

\* Where a field starts in the flat list of values, counted from 0.
FieldOffset(fields, i) ==
    LET sum[k \in 0..(i - 1)] == IF k = 0 THEN 0 ELSE sum[k - 1] + ElementCount(fields[k])
    IN sum[i - 1]

TotalValues(fields) == FieldOffset(fields, Len(fields) + 1)

\* The field that the n-th value belongs to.
FieldAt(fields, n) ==
    Max({i \in 1..Len(fields) : FieldOffset(fields, i) < n})
DefaultValues(fields) ==
    [n \in 1..TotalValues(fields) |-> Value(VarType(fields[FieldAt(fields, n)].type), 0)]

----------------------------------------------------------------------------
\* Function block slots: the layout the compiler sees, and the slot numbers
\* that are written into each driver.

SimulatedSlots == <<"refresh_rate", "connected", "error_code", "io_cycles", "last_response_ms">>
RtuSlots == <<"link", "slave_id", "refresh_rate", "timeout", "preamble", "connected",
              "error_code", "errors_count", "io_cycles", "last_response_ms">>
UppSlots == <<"link", "device_id", "refresh_rate", "timeout", "cooldown", "connected",
              "error_code", "errors_count", "io_cycles", "last_response_ms">>
TcpSlots == <<"host", "port", "unit_id", "refresh_rate", "connected",
              "error_code", "io_cycles", "last_response_ms">>
FixedSlots(proto) ==
    CASE proto = "sim" -> SimulatedSlots
      [] proto = "rtu" -> RtuSlots
      [] proto = "upp" -> UppSlots
      [] proto = "tcp" -> TcpSlots

\* Array fields are stored inline, one slot for each element.
MemorySlot(proto, fields, i) == Len(FixedSlots(proto)) + FieldOffset(fields, i)
DriverSlot(proto, fields, i) ==
    CASE proto = "sim" -> 5 + (i - 1)
      [] proto = "rtu" -> 10 + FieldOffset(fields, i)
      [] proto = "upp" -> 10 + (i - 1)
      [] proto = "tcp" -> 8 + FieldOffset(fields, i)
DriverDiagnostics(proto) ==
    CASE proto = "sim" -> <<1, 2>>
      [] proto \in {"rtu", "upp"} -> <<5, 6>>
      [] proto = "tcp" -> <<4, 5>>

----------------------------------------------------------------------------
\* Modbus: registers, batches and requests.

\* A set of numbers as an ascending sequence: the k-th has k members up to it.
InOrder(S) == [k \in 1..Cardinality(S) |-> CHOOSE n \in S : Cardinality({m \in S : m <= n}) = k]

\* The register of the n-th value.  The elements of an array are one address
\* apart, however many words the profile gives each of them.
Register(fields, n) ==
    LET i == FieldAt(fields, n)
        f == fields[i]
    IN [io |-> n, addr |-> (f.addr + (n - FieldOffset(fields, i)) - 1) % WordSize,
        kind |-> f.kind, type |-> f.type, scale |-> f.scale, offset |-> f.offset,
        bit |-> f.bit, order |-> f.order, words |-> f.words]
Address(r) == <<r.kind, r.addr>>
Selected(fields, directions) ==
    {n \in 1..TotalValues(fields) : fields[FieldAt(fields, n)].dir \in directions}
ExpandRegisters(fields, directions) ==
    LET numbers == InOrder(Selected(fields, directions))
    IN [k \in 1..Len(numbers) |-> Register(fields, numbers[k])]

\* mutant of Follows: the address of the next register is not compared.
FollowsKind(regs, i, k) == regs[k].kind = regs[i].kind
Follows(regs, i, k) ==
    /\ regs[k].kind = regs[i].kind
    /\ regs[k].addr = (regs[i].addr + (k - i)) % WordSize

\* The end of the batch that starts at i.
BatchEnd(regs, i) ==
    Max({e \in i..Len(regs) : \A k \in i..e : Follows(regs, i, k)})

ReadFunction(kind) ==
    CASE kind = "coil" -> 1 [] kind = "discrete" -> 2 [] kind = "holding" -> 3 [] kind = "input" -> 4
WriteFunction(kind, n) ==
    CASE kind = "coil" /\ n = 1 -> 5 [] kind = "holding" /\ n = 1 -> 6
      [] kind = "coil" /\ n # 1 -> 15 [] OTHER -> 16
IsReadFunction(fc) == fc \in 1..4
IsBitFunction(fc) == fc \in {1, 2}

\* A request over the registers i..BatchEnd; rest is the list it was cut from.
Batch(regs, i, fc, vals) ==
    [fc |-> fc, addr |-> regs[i].addr, n |-> BatchEnd(regs, i) - i + 1,
     rest |-> SubSeq(regs, i, Len(regs)), vals |-> vals, sendable |-> TRUE]

\* Where the loops of the two passes start a batch: at a register that does not
\* follow the one before it.
BatchStarts(regs, kinds) ==
    {k \in 1..Len(regs) : regs[k].kind \in kinds /\ (k = 1 \/ ~Follows(regs, k - 1, k))}

ReadBatched(regs) ==
    LET starts == InOrder(BatchStarts(regs, RegisterKinds \ {"virtual"}))
    IN [b \in 1..Len(starts) |-> Batch(regs, starts[b], ReadFunction(regs[starts[b]].kind), <<>>)]

Clamp(x, lo, hi) == IF x < lo THEN lo ELSE IF x > hi THEN hi ELSE x
Abs(x) == IF x < 0 THEN -x ELSE x
Truncate(x, y) ==
    IF (x < 0) <=> (y < 0) THEN Abs(x) \div Abs(y) ELSE -(Abs(x) \div Abs(y))
AsBool(value) == value.v # 0

\* Scale 0 stands for a register without a scale.  Neither conversion looks at
\* the bit, the byte order or the number of words of the register.
RegisterToValue(raw, r) ==
    LET scaled == (IF r.scale = 0 THEN raw * 10000 ELSE raw * r.scale) + r.offset
    IN CASE r.type = "BOOL" -> Value("Bool", IF raw # 0 THEN 1 ELSE 0)
         [] r.type \in RealTypes -> Value("Real", scaled)
         [] r.type \in UnsignedTypes -> Value("UInt", Max({0, Truncate(scaled, 10000)}))
         [] OTHER -> Value("Int", Truncate(scaled, 10000))
ValueToRegister(value, r) ==
    LET number == IF value.t = "Real" THEN value.v
                  ELSE IF value.t \in {"Bool", "Int", "UInt"} THEN value.v * 10000 ELSE 0
        unscaled == Truncate(number - r.offset, IF r.scale = 0 THEN 10000 ELSE r.scale)
    IN Clamp(unscaled, 0, WordSize - 1)
\* Bits are Booleans, whatever the type of the field.
IsBit(r) == r.kind \in {"coil", "discrete"}
FromRaw(raw, r) == IF IsBit(r) THEN Value("Bool", IF raw # 0 THEN 1 ELSE 0) ELSE RegisterToValue(raw, r)
ToRaw(value, r) ==
    IF r.kind = "coil" THEN IF AsBool(value) THEN 1 ELSE 0 ELSE ValueToRegister(value, r)

WriteBatched(regs, values) ==
    LET starts == InOrder(BatchStarts(regs, {"coil", "holding"}))
    IN [b \in 1..Len(starts) |->
            LET i == starts[b]
                n == BatchEnd(regs, i) - i + 1
            IN Batch(regs, i, WriteFunction(regs[i].kind, n), [j \in 1..n |-> ToRaw(values[regs[i + j - 1].io], regs[i + j - 1])])]

\* Bytes of data in an answer to a read of n registers or bits.
ByteCount(fc, n) == IF IsBitFunction(fc) THEN (n + 7) \div 8 ELSE 2 * n

\* What the drivers take out of the data of an answer.
ExtractRegisters(f) == IF IsBitFunction(f.fc) THEN <<>> ELSE f.data
ExtractCoils(f, n) ==
    [j \in 1..Min({n, 8 * f.bytes}) |-> IF j <= Len(f.data) THEN f.data[j] ELSE 0]

----------------------------------------------------------------------------
\* Recognising a Modbus answer.

ErrOk == 0
ErrTimeout == 10
ErrCrc == 11
ErrSlaveMismatch == 12
ErrFcMismatch == 13
ErrModbusException == 14
ErrOther == 15

\* The length the RTU parser waits for.
FrameTotal(f) == IF f.exc THEN 5 ELSE IF IsReadFunction(f.fc) THEN 3 + f.bytes + 2 ELSE 8

\* mutant of RtuFrameParse: an answer of any slave is taken.
RtuFrameParseAny(slave, req, f) ==
    IF f.fc # req.fc THEN ErrFcMismatch ELSE IF f.len < FrameTotal(f) THEN ErrTimeout ELSE ErrOk
RtuFrameParse(slave, req, f) ==
    CASE f.from # slave -> ErrSlaveMismatch
      [] f.from = slave /\ f.fc # req.fc -> ErrFcMismatch
      [] f.from = slave /\ f.fc = req.fc /\ f.len < FrameTotal(f) -> ErrTimeout
      [] OTHER -> ErrOk
VerifyCrc(f) == f.crc
ParseResponse(f) ==
    IF ~VerifyCrc(f) THEN ErrCrc ELSE IF f.exc THEN ErrModbusException ELSE ErrOk
RtuOutcome(slave, req, f) ==
    IF RtuFrameParse(slave, req, f) # ErrOk THEN RtuFrameParse(slave, req, f) ELSE ParseResponse(f)

\* The header gives the length; neither the transaction nor the function is compared.
TcpOutcome(f) == IF f.exc THEN ErrModbusException ELSE ErrOk

\* Combines the results of the two passes of a poll.
CombineCycleErrors(readErr, writeErr) == IF writeErr # ErrOk THEN writeErr ELSE readErr

----------------------------------------------------------------------------
\* UPP: commands, their parameters and their answers.

ReadCommands == {"em", "et", "ev", "dw", "aw", "ez", "lz", "fh", "ka", "la", "ga", "mb", "me",
                 "ms", "ek", "tm", "gt", "tr", "sn", "bn", "na", "pa", "ve", "vs", "vc"}
LimitsQueries == {"em?", "et?", "ev?", "dw?", "aw?", "ez?", "lz?", "ka?", "ga?", "br?"}
WriteKinds == {"em", "et", "ev", "dw", "aw", "ez", "lz", "fh", "ka", "la", "as", "ga", "br",
               "m1", "m2", "lx"}
Decoders == {"temp_5d_tenth", "temp_pair_5d_tenth", "temp_3d_int", "u16_dec_4", "u16_dec",
             "u16_dec_milli", "enum_1", "enum_response_time", "enum_op_mode", "enum_1_wide",
             "enum_clear_peak", "bool_digit", "hex_pair_8", "range_pair", "ack", "text"}
ResolveDecoder(f) ==
    /\ f.decoder \in Decoders
    /\ f.decoder = "temp_pair_5d_tenth" => f.channel \in {"one_channel", "ratio"}
Resolves(f) ==
    /\ f.cmd \in ReadCommands \cup LimitsQueries
    /\ IsOutput(f) => f.cmd \in WriteKinds
    /\ ResolveDecoder(f)

MaxMilli == 10 * (WordSize - 1)
\* mutant of RealToMilli: the value is cut off and not rounded.
RealToMilliCut(value) ==
    CASE value.t = "Real" /\ value.v \in 0..MaxMilli -> Value("Param", value.v \div 10)
      [] value.t = "Int" /\ value.v \in 0..65 -> Value("Param", value.v * 1000)
      [] OTHER -> None
\* Rounds to thousandths; 65.535 is the largest that is sent.
RealToMilli(value) ==
    CASE value.t = "Real" /\ value.v \in 0..MaxMilli -> Value("Param", (value.v + 5) \div 10)
      [] value.t = "Int" /\ value.v \in 0..65 -> Value("Param", value.v * 1000)
      [] OTHER -> None
IntAsU8(value) ==
    IF value.t \in {"Int", "UInt", "Bool"} /\ value.v \in 0..255 THEN Value("Param", value.v) ELSE None
BoolAsU8(value) ==
    IF value.t \in {"Bool", "Int"} /\ value.v \in {0, 1} THEN Value("Param", value.v) ELSE None
BuildWriteCommand(kind, value) ==
    CASE kind \in {"em", "et", "ev"} -> RealToMilli(value)
      [] kind = "la" -> BoolAsU8(value)
      [] kind = "m1" -> None
      [] kind \in {"m2", "lx"} -> Value("Param", 0)
      [] OTHER -> IntAsU8(value)

\* The values the encoder lets through, and the digits it sends.
ParameterRange(kind) ==
    CASE kind \in {"em", "et"} -> 50..1000
      [] kind = "ev" -> 800..1200
      [] kind \in {"dw", "ga"} -> 0..99
      [] kind = "aw" -> 2..50
      [] kind = "ez" -> 0..6
      [] kind = "lz" -> 0..9
      [] kind \in {"fh", "la", "as"} -> 0..1
      [] kind = "ka" -> 0..3
      [] kind = "br" -> (0..8) \ {7}
      [] OTHER -> {0}
EncodeRequest(kind, value) ==
    LET param == BuildWriteCommand(kind, value)
    IN param # None /\ param.v \in ParameterRange(kind)
ParameterDigits(kind) ==
    CASE kind \in {"em", "et", "ev"} -> 4
      [] kind \in {"dw", "aw", "ga"} -> 2
      [] kind \in {"m2", "lx"} -> 0
      [] OTHER -> 1

\* Writes repeat their two letters in the answer, and limits queries may.
Mnemonic(cmd) ==
    CASE cmd = "em?" -> "em" [] cmd = "et?" -> "et" [] cmd = "ev?" -> "ev" [] cmd = "dw?" -> "dw"
      [] cmd = "aw?" -> "aw" [] cmd = "ez?" -> "ez" [] cmd = "lz?" -> "lz" [] cmd = "ka?" -> "ka"
      [] cmd = "ga?" -> "ga" [] cmd = "br?" -> "br" [] OTHER -> cmd
EchoesCommand(req) == \/ req.cmd \in LimitsQueries
                      \/ req.write /\ req.cmd \notin {"m2", "lx"}
StripCommandEcho(req, f) ==
    IF EchoesCommand(req) /\ f.echo = Mnemonic(req.cmd) THEN f.bytes - 2 ELSE f.bytes

\* Digits a decoder accepts (0: any number) and the variant it produces.
DecoderDigits(dec) ==
    CASE dec = "temp_5d_tenth" -> 5 [] dec = "temp_pair_5d_tenth" -> 10
      [] dec = "temp_3d_int" -> 3 [] dec \in {"u16_dec_4", "u16_dec", "u16_dec_milli"} -> 4
      [] dec \in {"hex_pair_8", "range_pair"} -> 8 [] dec = "ack" -> 2
      [] dec = "text" -> 0 [] OTHER -> 1
DecodedVariant(dec) ==
    CASE dec \in {"temp_5d_tenth", "temp_pair_5d_tenth"} -> "Temperature"
      [] dec = "temp_3d_int" -> "InternalTemp"
      [] dec \in {"u16_dec_4", "u16_dec"} -> "UInt"
      [] dec = "u16_dec_milli" -> "Per1000"
      [] dec = "bool_digit" -> "Bool"
      [] dec \in {"hex_pair_8", "range_pair"} -> "HexPair"
      [] dec = "ack" -> "Ack" [] dec = "text" -> "Text" [] OTHER -> "Enum"
Decode(dec, digits, raw) ==
    IF \/ DecoderDigits(dec) \notin {0, digits}
       \/ dec \in {"bool_digit", "ack"} /\ raw \notin {0, 1} THEN None
    ELSE CASE DecodedVariant(dec) = "Temperature" -> Value("Temperature", raw * 1000)
           [] DecodedVariant(dec) = "InternalTemp" -> Value("InternalTemp", raw * 10000)
           [] OTHER -> Value(DecodedVariant(dec), raw)
\* None when the variant does not fit the type of the field.
DecodedToValue(d, type) ==
    CASE d.t \in {"Temperature", "InternalTemp"} /\ type \in RealTypes -> Value("Real", d.v)
      [] d.t \in {"Temperature", "InternalTemp"} /\ type \in SignedTypes \ {"SINT"} -> Value("Int", d.v \div 10000)
      [] d.t = "UInt" /\ type \in UnsignedTypes \ {"BYTE"} -> Value("UInt", d.v)
      [] d.t = "UInt" /\ type \in SignedTypes -> Value("Int", d.v)
      [] d.t = "UInt" /\ type \in RealTypes -> Value("Real", d.v * 10000)
      [] d.t = "Per1000" /\ type \in RealTypes -> Value("Real", d.v * 10)
      [] d.t = "Enum" /\ type \in SignedTypes -> Value("Int", d.v)
      [] d.t = "Enum" /\ type \in {"USINT", "UINT", "UDINT", "ULINT"} -> Value("UInt", d.v)
      [] d.t \in {"Bool", "Ack"} /\ type = "BOOL" -> Value("Bool", d.v)
      [] d.t = "Text" /\ type = "STRING" -> Value("String", d.v)
      [] OTHER -> None

ResolveAddress(n) == n \in 0..99
ExpectsResponse(addr) == addr # 99
AddressesMatch(expected, got) == IF expected = 98 THEN got \in 0..97 ELSE expected = got

UppTimeout == 1
UppAddressMismatch == 2
UppBadResponse == 3
UppOutOfRange == 4

\* A frame that lost its end has no terminator.
UppFrameParse(f) == f.len = f.bytes + 3
UppTransaction(addr, f) ==
    CASE ~UppFrameParse(f) -> UppTimeout
      [] UppFrameParse(f) /\ ~AddressesMatch(addr, f.from) -> UppAddressMismatch
      [] OTHER -> ErrOk
UppTransact(addr, req, f) ==
    CASE UppTransaction(addr, f) # ErrOk -> UppTransaction(addr, f)
      [] /\ UppTransaction(addr, f) = ErrOk /\ ~req.write
         /\ Decode(req.decoder, StripCommandEcho(req, f), f.data[1]) = None -> UppBadResponse
      [] OTHER -> ErrOk
=============================================================================
