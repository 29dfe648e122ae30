------------------------------ MODULE Fieldbus ------------------------------
(* The scan thread and the I/O threads of the device function blocks.        *)
(*                                                                           *)
(* The program calls its SerialLink and then each device block once in every *)
(* scan.  A device block never talks to the device: it leaves its outputs in *)
(* a shared IoState and takes the inputs that were last read.  One bus       *)
(* thread for the serial port polls all Modbus RTU and UPP devices of the    *)
(* port in turn, holding the device list for the whole round; each Modbus    *)
(* TCP device has a thread of its own.  A poll is a sequence of requests     *)
(* over a line that may lose, damage or delay answers.  The devices          *)
(* themselves are external.                                                  *)
(*                                                                           *)
(* Time is left out: a deadline may pass whenever no answer is under way, or *)
(* at the price of one fault when the answer is only slow.                   *)
EXTENDS FieldbusCodec, TLC

CONSTANTS
    Worlds,     \* the plants to consider: devices, call order, port of the SerialLink,
                \* and maxFaults, the bound on faults of line, devices and port
    Samples,    \* the values a program assigns: for each type two numbers
    MaxLate     \* bound on how many requests later an answer still arrives

\* What the profile reader and the configuration let through.
ProfileField(proto, f) ==
    /\ f.dir \in {"in", "out", "inout"} /\ f.type \in FieldTypes
    /\ f.count \in Nat /\ f.init \in Word
    /\ proto \in {"rtu", "tcp"} =>
        /\ f.kind \in RegisterKinds /\ f.addr \in Nat /\ f.scale \in Int /\ f.offset \in Int
        /\ f.bit \in -1..255 /\ f.order \in ByteOrders /\ f.words \in 0..255
    /\ proto = "upp" => f.cmd \in STRING /\ f.decoder \in STRING
Plant(w) ==
    /\ w.maxFaults \in Nat
    /\ w.order \in Seq(DOMAIN w.devs) /\ w.order # <<>>
    /\ "bus" \notin DOMAIN w.devs /\ "none" \notin DOMAIN w.devs
    /\ \A d \in DOMAIN w.devs :
        /\ w.devs[d].proto \in {"sim", "rtu", "tcp", "upp"} /\ w.devs[d].slave \in Int
        /\ Len(w.devs[d].fields) \in Nat
        /\ \A i \in 1..Len(w.devs[d].fields) : ProfileField(w.devs[d].proto, w.devs[d].fields[i])
ASSUME WorldsAssumption == \A w \in Worlds : Plant(w)
\* The program has numbers to assign to the fields that are outputs.
ASSUME SamplesAssumption ==
    \A w \in Worlds : \A d \in DOMAIN w.devs : \A i \in 1..Len(w.devs[d].fields) :
        IsOutput(w.devs[d].fields[i]) => \A k \in 1..2 : Samples[w.devs[d].fields[i].type][k] \in Int

VARIABLES
    world,      \* the plant of this behaviour
    scan,       \* the scan thread: [pc, i], i the device it is at
    prog,       \* prog[d]: the fields of the device block [vals, conn, err]
    link,       \* the SerialLink block [open, conn, err]
    reg,        \* devices whose block has registered or started its thread
    io,         \* io[d]: the shared IoState [read, write, conn, err]
    thr,        \* thr[t]: the I/O threads
    air,        \* air[t]: answers on their way to thread t
    up,         \* up[t]: the TCP stream of t exists
    dev,        \* dev[d]: registers of the device (external)
    faults,     \* faults so far
    seen        \* seen[d]: what the last poll stored [got, own]

vars == <<world, scan, prog, link, reg, io, thr, air, up, dev, faults, seen>>

Dev(d) == world.devs[d]
Devices == DOMAIN world.devs
Fields(d) == Dev(d).fields
Serial(d) == Dev(d).proto \in {"rtu", "upp"}
Bus == "bus"
Threads == {Bus} \cup {d \in Devices : Dev(d).proto = "tcp"}
ThreadOf(d) == IF Serial(d) THEN Bus ELSE d
Indices(d) == 1..TotalValues(Fields(d))
FieldOf(d, n) == Fields(d)[FieldAt(Fields(d), n)]
InputIndices(d) == {n \in Indices(d) : IsInput(FieldOf(d, n))}
OutputIndices(d) == {n \in Indices(d) : IsOutput(FieldOf(d, n))}

\* Registers and commands by the name the device knows them under.
CellOf(d, n) ==
    IF Dev(d).proto \in {"upp", "sim"} THEN FieldOf(d, n).cmd ELSE Address(Register(Fields(d), n))

NoThread == [pc |-> "off", left |-> <<>>, polled |-> {}, dev |-> "none", ops |-> <<>>, snap |-> <<>>,
             news |-> <<>>, readErr |-> ErrOk, writeErr |-> ErrOk, try |-> 1, own |-> TRUE,
             denied |-> {}, any |-> FALSE]

ProfileFails(fields) == \E i \in 1..Len(fields) : ~Resolves(fields[i])

Init ==
    /\ world \in Worlds
    /\ scan = [pc |-> "start", i |-> 1]
    /\ prog = [d \in Devices |-> [vals |-> DefaultValues(Fields(d)), conn |-> FALSE, err |-> 0]]
    /\ link = [open |-> FALSE, conn |-> FALSE, err |-> 0]
    /\ reg = {}
    /\ io = [d \in Devices |->
                [read |-> DefaultValues(Fields(d)),
                 write |-> IF Dev(d).proto = "upp" THEN [n \in Indices(d) |-> None]
                           ELSE DefaultValues(Fields(d)),
                 conn |-> FALSE,
                 err |-> IF Dev(d).proto = "upp" /\ ProfileFails(Fields(d)) THEN 102 ELSE 0]]
    /\ thr = [t \in Threads |-> NoThread]
    /\ air = [t \in Threads |-> <<>>]
    /\ up = [t \in Threads |-> FALSE]
    /\ dev = [d \in Devices |->
                [c \in {CellOf(d, n) : n \in Indices(d)} |->
                    FieldOf(d, CHOOSE n \in Indices(d) : CellOf(d, n) = c).init]]
    /\ faults = 0
    /\ seen = [d \in Devices |-> [got |-> {}, own |-> FALSE]]

Fault == faults < world.maxFaults /\ faults' = faults + 1

----------------------------------------------------------------------------
\* The scan thread.

HasLink == \E d \in Devices : Serial(d)
At(pc) == scan.pc = pc
Current == world.order[scan.i]
Goto(pc) == scan' = [scan EXCEPT !.pc = pc]
NextDevice ==
    scan' = IF scan.i = Len(world.order) THEN [pc |-> "start", i |-> 1]
            ELSE [pc |-> "exec", i |-> scan.i + 1]

\* The program assigns its outputs, all from the same sample, or leaves them;
\* sample 0 is what they hold before the first assignment.
Sample(type, k) == Value(VarType(type), IF k = 0 THEN 0 ELSE Samples[type][k])
Sampled(d, k) ==
    [n \in Indices(d) |->
        IF n \in OutputIndices(d) THEN Sample(FieldOf(d, n).type, k) ELSE prog[d].vals[n]]
Assign ==
    \/ UNCHANGED prog
    \/ \E k \in 1..2 : prog' = [d \in Devices |-> [prog[d] EXCEPT !.vals = Sampled(d, k)]]

\* SerialLink: opens the port in the first call that can, then reports.
LinkUnconfigured ==
    /\ ~link.open /\ world.port = ""
    /\ link' = [link EXCEPT !.conn = FALSE, !.err = 1]
    /\ UNCHANGED faults
LinkOpens ==
    /\ ~link.open /\ world.port # ""
    /\ link' = [open |-> TRUE, conn |-> TRUE, err |-> 0]
    /\ UNCHANGED faults
LinkFails ==
    /\ ~link.open /\ world.port # ""
    /\ link' = [link EXCEPT !.conn = FALSE, !.err = 2]
    /\ Fault
LinkReports ==
    /\ link.open
    /\ UNCHANGED <<link, faults>>
ExecLink ==
    IF HasLink THEN LinkUnconfigured \/ LinkOpens \/ LinkFails \/ LinkReports
    ELSE UNCHANGED <<link, faults>>

\* A scan begins: the assignments are the program's own and no other thread
\* sees them, so they and the call of the SerialLink are one step.
ScanStart ==
    /\ At("start") /\ Assign /\ ExecLink /\ Goto("exec")
    /\ UNCHANGED <<world, reg, io, thr, air, up, dev, seen>>

\* Early returns of the device blocks.
RtuConfigError(d) == IF Dev(d).link = "" THEN 1 ELSE IF Dev(d).slave % 256 = 0 THEN 2 ELSE 0
UppConfigError(d) ==
    IF ProfileFails(Fields(d)) THEN 102
    ELSE IF Dev(d).link = "" THEN 100 ELSE IF ~ResolveAddress(Dev(d).slave) THEN 101 ELSE 0
TcpConfigError(d) == IF Dev(d).link = "" THEN 1 ELSE 0
ConfigError(d) ==
    CASE Dev(d).proto = "rtu" -> RtuConfigError(d)
      [] Dev(d).proto = "upp" -> UppConfigError(d)
      [] Dev(d).proto = "tcp" -> TcpConfigError(d)
      [] OTHER -> 0

ExecRejected ==
    /\ At("exec") /\ ConfigError(Current) # 0
    /\ prog' = [prog EXCEPT ![Current].conn = FALSE, ![Current].err = ConfigError(Current)]
    /\ NextDevice
    /\ UNCHANGED <<world, link, reg, io, thr, air, up, dev, faults, seen>>

\* The bus thread keeps the list of devices locked for a whole round.
\* mutant of ListLocked: the list stays locked while the thread sleeps.
ListLockedAsleep == thr[Bus].pc \notin {"off", "wait", "idle"}
ListLocked == thr[Bus].pc \notin {"off", "wait", "idle", "sleep"}

\* A mutex whose holder panicked makes the scan thread panic too.
Poisoned(d) == thr[ThreadOf(d)].pc = "dead" /\ thr[ThreadOf(d)].dev = d

RegisterSerial(d) ==
    /\ ~ListLocked \/ thr[Bus].pc = "dead"
    /\ IF thr[Bus].pc = "dead" THEN UNCHANGED <<reg, thr>> /\ Goto("dead")
       ELSE /\ reg' = reg \cup {d}
            /\ thr' = [thr EXCEPT ![Bus].pc = IF @ = "off" THEN "wait" ELSE @]
            /\ Goto("queue")
StartTcp(d) ==
    /\ reg' = reg \cup {d}
    /\ thr' = [thr EXCEPT ![d].pc = "idle"]
    /\ Goto("queue")
ExecRegister ==
    /\ At("exec") /\ ConfigError(Current) = 0
    /\ Dev(Current).proto # "sim" /\ Current \notin reg
    /\ IF Serial(Current) THEN RegisterSerial(Current) ELSE StartTcp(Current)
    /\ UNCHANGED <<world, prog, link, io, air, up, dev, faults, seen>>

\* RTU and TCP leave every output, whether it changed or not.
\* mutant of QueueOutputs: only outputs that differ from what was last read.
QueueOutputsChanged(d) ==
    [n \in Indices(d) |->
        IF n \in OutputIndices(d) /\ prog[d].vals[n] # io[d].read[n] THEN prog[d].vals[n]
        ELSE io[d].write[n]]
QueueOutputs(d) ==
    [n \in Indices(d) |-> IF n \in OutputIndices(d) THEN prog[d].vals[n] ELSE io[d].write[n]]
\* UPP leaves the outputs that differ from what was last read.
ValuesEqual(a, b) == a = b /\ a.t # "None"
QueueChanges(d) ==
    [n \in Indices(d) |->
        IF n \in OutputIndices(d) /\ ~ValuesEqual(prog[d].vals[n], io[d].read[n])
        THEN prog[d].vals[n] ELSE io[d].write[n]]
ExecQueue ==
    /\ \/ At("queue")
       \/ At("exec") /\ Current \in reg
    /\ IF Poisoned(Current) THEN Goto("dead") /\ UNCHANGED io
       ELSE /\ io' = [io EXCEPT ![Current].write =
                        IF Dev(Current).proto = "upp" THEN QueueChanges(Current)
                        ELSE QueueOutputs(Current)]
            /\ Goto("copy")
    /\ UNCHANGED <<world, prog, link, reg, thr, air, up, dev, faults, seen>>

\* RTU and TCP copy the inputs; UPP copies every field.
CopyInputs(d) ==
    [n \in Indices(d) |-> IF n \in InputIndices(d) THEN io[d].read[n] ELSE prog[d].vals[n]]
CopyAll(d) == io[d].read
ExecCopy ==
    /\ At("copy")
    /\ IF Poisoned(Current) THEN Goto("dead") /\ UNCHANGED prog
       ELSE /\ prog' = [prog EXCEPT ![Current] =
                [vals |-> IF Dev(Current).proto = "upp" THEN CopyAll(Current) ELSE CopyInputs(Current),
                 conn |-> io[Current].conn, err |-> io[Current].err]]
            /\ NextDevice
    /\ UNCHANGED <<world, link, reg, io, thr, air, up, dev, faults, seen>>

\* A simulated device: inputs from the shared map, then outputs into it, at once.
SimulatedInputs(d) ==
    [n \in Indices(d) |->
        IF n \in InputIndices(d) THEN Value(VarType(FieldOf(d, n).type), dev[d][CellOf(d, n)])
        ELSE prog[d].vals[n]]
SimulatedOutputs(d, vals) ==
    [c \in DOMAIN dev[d] |->
        LET n == CHOOSE k \in Indices(d) : CellOf(d, k) = c
        IN IF n \in OutputIndices(d) THEN vals[n].v ELSE dev[d][c]]
ExecSimulated ==
    /\ At("exec") /\ Dev(Current).proto = "sim"
    /\ prog' = [prog EXCEPT ![Current] = [vals |-> SimulatedInputs(Current), conn |-> TRUE, err |-> 0]]
    /\ dev' = [dev EXCEPT ![Current] = SimulatedOutputs(Current, SimulatedInputs(Current))]
    /\ NextDevice
    /\ UNCHANGED <<world, link, reg, io, thr, air, up, faults, seen>>
\* The web page of a simulated device sets a field that is not an output.
SetInput ==
    \E d \in Devices, x \in {0, 1} :
        /\ Dev(d).proto = "sim"
        /\ \E n \in InputIndices(d) : dev' = [dev EXCEPT ![d][CellOf(d, n)] = x]
        /\ UNCHANGED <<world, scan, prog, link, reg, io, thr, air, up, faults, seen>>

ScanNext == ScanStart \/ ExecRejected \/ ExecQueue \/ ExecCopy \/ ExecSimulated

----------------------------------------------------------------------------
\* The bus thread between polls.

BusStart ==
    /\ thr[Bus].pc = "wait" /\ link.open
    /\ thr' = [thr EXCEPT ![Bus].pc = "idle"]
    /\ UNCHANGED <<world, scan, prog, link, reg, io, air, up, dev, faults, seen>>
BusRound ==
    /\ thr[Bus].pc \in {"idle", "sleep"}
    /\ thr' = [thr EXCEPT ![Bus].pc = "round",
                          ![Bus].left = SelectSeq(world.order, LAMBDA d : d \in reg /\ Serial(d))]
    /\ UNCHANGED <<world, scan, prog, link, reg, io, air, up, dev, faults, seen>>
\* Not due yet; a device that was never polled always is.
SkipDevice ==
    /\ thr[Bus].pc = "round" /\ thr[Bus].left # <<>>
    /\ Head(thr[Bus].left) \in thr[Bus].polled
    /\ thr' = [thr EXCEPT ![Bus].left = Tail(@)]
    /\ UNCHANGED <<world, scan, prog, link, reg, io, air, up, dev, faults, seen>>
\* The thread sleeps only after a round in which no device was due; otherwise
\* it takes the list again at once.
RoundEnd ==
    /\ thr[Bus].pc = "round" /\ thr[Bus].left = <<>>
    /\ thr' = [thr EXCEPT ![Bus].pc = IF thr[Bus].any THEN "idle" ELSE "sleep", ![Bus].any = FALSE]
    /\ UNCHANGED <<world, scan, prog, link, reg, io, air, up, dev, faults, seen>>

\* The thread of a TCP device connects before it polls.
TcpConnect(t) ==
    /\ t # Bus /\ thr[t].pc = "idle" /\ ~up[t]
    /\ \/ up' = [up EXCEPT ![t] = TRUE] /\ UNCHANGED <<io, faults>>
       \/ /\ io' = [io EXCEPT ![t].conn = FALSE, ![t].err = 2]
          /\ Fault /\ UNCHANGED up
    /\ UNCHANGED <<world, scan, prog, link, reg, thr, air, dev, seen>>

----------------------------------------------------------------------------
\* One poll.

\* Modbus: all reads, then all writes of the outputs found at the start.
ModbusRequests(d) ==
    ReadBatched(ExpandRegisters(Fields(d), Inputs))
      \o WriteBatched(ExpandRegisters(Fields(d), Outputs), io[d].write)
\* UPP: the writes that are pending, then all reads.
UppWrite(d, n, value) ==
    [cmd |-> FieldOf(d, n).cmd, write |-> TRUE, io |-> n, decoder |-> FieldOf(d, n).decoder,
     vals |-> <<BuildWriteCommand(FieldOf(d, n).cmd, value).v>>,
     sendable |-> EncodeRequest(FieldOf(d, n).cmd, value)]
UppRead(d, n) ==
    [cmd |-> FieldOf(d, n).cmd, write |-> FALSE, io |-> n, decoder |-> FieldOf(d, n).decoder,
     vals |-> <<>>, sendable |-> TRUE]
UppRequests(d) ==
    LET writes == InOrder({n \in OutputIndices(d) : io[d].write[n] # None})
        reads == InOrder(InputIndices(d))
    IN [k \in 1..Len(writes) |-> UppWrite(d, writes[k], io[d].write[writes[k]])]
         \o [k \in 1..Len(reads) |-> UppRead(d, reads[k])]
\* The TCP driver has its own copy of the two passes.
TcpReads(d) == ReadBatched(ExpandRegisters(Fields(d), Inputs))
TcpWrites(d) == WriteBatched(ExpandRegisters(Fields(d), Outputs), io[d].write)
Requests(d) ==
    CASE Dev(d).proto = "rtu" -> ModbusRequests(d)
      [] Dev(d).proto = "tcp" -> TcpReads(d) \o TcpWrites(d)
      [] Dev(d).proto = "upp" -> UppRequests(d)

IsWrite(d, op) == IF Dev(d).proto = "upp" THEN op.write ELSE ~IsReadFunction(op.fc)
Step(ops) == IF ops = <<>> THEN "end" ELSE "send"

PollStart(d) ==
    LET t == ThreadOf(d)
    IN /\ d \in reg
       /\ IF t = Bus THEN thr[t].pc = "round" /\ thr[t].left # <<>> /\ Head(thr[t].left) = d
          ELSE thr[t].pc = "idle" /\ up[t]
       /\ thr' = [thr EXCEPT ![t] = [@ EXCEPT !.pc = Step(Requests(d)), !.dev = d, !.ops = Requests(d),
                    !.snap = io[d].write, !.news = [n \in Indices(d) |-> None],
                    !.readErr = ErrOk, !.writeErr = ErrOk, !.try = 1, !.own = TRUE, !.denied = {}]]
       /\ io' = IF Dev(d).proto = "upp" THEN [io EXCEPT ![d].write = [n \in Indices(d) |-> None]] ELSE io
       /\ seen' = [seen EXCEPT ![d].got = {}]
       /\ UNCHANGED <<world, scan, prog, link, reg, air, up, dev, faults>>

\* The result of the request at hand, and on to the next one.
\* mutant of AfterOp: the remaining writes take the outputs of the moment.
AfterOpFresh(t, err) ==
    LET d == thr[t].dev
        op == Head(thr[t].ops)
        all == ModbusRequests(d)
        rest == IF Dev(d).proto = "upp" THEN Tail(thr[t].ops)
                ELSE SubSeq(all, Len(all) - Len(thr[t].ops) + 2, Len(all))
        last == [thr[t] EXCEPT !.ops = rest, !.pc = Step(rest), !.try = 1]
    IN IF err = ErrOk THEN last
       ELSE IF IsWrite(d, op) THEN [last EXCEPT !.writeErr = err]
       ELSE [last EXCEPT !.readErr = err]
AfterOp(t, err) ==
    LET op == Head(thr[t].ops)
        last == [thr[t] EXCEPT !.ops = Tail(@), !.pc = Step(Tail(thr[t].ops)), !.try = 1]
    IN IF err = ErrOk THEN last
       ELSE IF IsWrite(thr[t].dev, op) THEN [last EXCEPT !.writeErr = err]
       ELSE [last EXCEPT !.readErr = err]

\* External: what a device does with a request and what it answers.
AnswerDigits(cmd) ==
    CASE cmd \in {"em", "et", "ev", "tr"} -> 4 [] cmd \in {"ms", "tm", "sn"} -> 5
      [] cmd \in {"dw", "aw", "ga"} -> 2 [] cmd \in {"ez", "lz", "fh", "ka", "la"} -> 1
      [] cmd = "gt" -> 3 [] cmd = "ek" -> 10 [] cmd \in {"bn", "ve"} -> 6 [] OTHER -> 8
Executed(d, op) ==
    IF ~IsWrite(d, op) THEN dev[d]
    ELSE IF Dev(d).proto = "upp" THEN [dev[d] EXCEPT ![op.cmd] = op.vals[1]]
    ELSE [c \in DOMAIN dev[d] |->
            IF \E j \in 1..op.n : c = Address(op.rest[j])
            THEN op.vals[CHOOSE j \in 1..op.n : c = Address(op.rest[j])]
            ELSE dev[d][c]]
ModbusAnswer(d, op, refused) ==
    LET data == IF IsReadFunction(op.fc) /\ ~refused
                THEN [j \in 1..op.n |-> dev[d][Address(op.rest[j])]] ELSE <<>>
        bytes == IF data = <<>> THEN 0 ELSE ByteCount(op.fc, op.n)
    IN [from |-> Dev(d).slave, fc |-> op.fc, addr |-> op.addr, exc |-> refused, data |-> data,
        bytes |-> bytes, crc |-> TRUE, late |-> 0,
        len |-> IF refused THEN 5 ELSE IF IsReadFunction(op.fc) THEN 5 + bytes ELSE 8]
\* A device that is asked under the global address answers under its own.
OwnAddress(d) == IF Dev(d).slave = 98 THEN 0 ELSE Dev(d).slave
\* A refused write is answered with the two letters "no".
UppAnswer(d, op, refused) ==
    LET digits == IF refused THEN 2
                  ELSE IF op.write THEN 2 + ParameterDigits(op.cmd) ELSE AnswerDigits(op.cmd)
    IN [from |-> OwnAddress(d), cmd |-> op.cmd,
        echo |-> IF op.write /\ EchoesCommand(op) /\ ~refused THEN op.cmd ELSE "",
        data |-> IF refused THEN <<0>> ELSE IF op.write THEN op.vals ELSE <<dev[d][op.cmd]>>,
        bytes |-> digits, len |-> digits + 3, late |-> 0, no |-> refused]
Answer(d, op, refused) ==
    IF Dev(d).proto = "upp" THEN UppAnswer(d, op, refused) ELSE ModbusAnswer(d, op, refused)

\* Sending: late answers that are already there are thrown away (serial line only).
\* An answer is late by the number of requests sent since its own.
LateAnswers(t) ==
    [k \in 1..Len(air[t]) |-> [air[t][k] EXCEPT !.late = @ + 1]]
Remaining(t) ==
    IF t = Bus
    THEN {[k \in 1..Cardinality(kept) |-> LateAnswers(t)[InOrder(kept)[k]]] :
            kept \in SUBSET {k \in 1..Len(air[t]) : LateAnswers(t)[k].late <= MaxLate}}
    ELSE {LateAnswers(t)}
TxSend(t) ==
    /\ thr[t].pc = "send" /\ Head(thr[t].ops).sendable
    /\ t # Bus => up[t]
    /\ LET d == thr[t].dev
           op == Head(thr[t].ops)
           silent == Dev(d).proto = "upp" /\ ~ExpectsResponse(Dev(d).slave)
       IN /\ \E late \in Remaining(t) :
                \/ /\ dev' = [dev EXCEPT ![d] = Executed(d, op)]
                   /\ air' = [air EXCEPT ![t] = IF silent THEN late ELSE Append(late, Answer(d, op, FALSE))]
                   /\ UNCHANGED faults
                \/ /\ Dev(d).proto = "upp" => op.write /\ ~silent
                   /\ air' = [air EXCEPT ![t] = Append(late, Answer(d, op, TRUE))]
                   /\ Fault /\ UNCHANGED dev
                \/ air' = [air EXCEPT ![t] = late] /\ Fault /\ UNCHANGED dev
                \/ /\ air' = [air EXCEPT ![t] = late]
                   /\ dev' = [dev EXCEPT ![d] = Executed(d, op)] /\ Fault
          /\ thr' = [thr EXCEPT ![t] =
                IF silent THEN AfterOp(t, IF op.write THEN ErrOk ELSE UppBadResponse)
                ELSE [@ EXCEPT !.pc = "recv"]]
    /\ UNCHANGED <<world, scan, prog, link, reg, io, up, seen>>
\* A value the encoder refuses is not sent.
TxRefused(t) ==
    /\ thr[t].pc = "send" /\ ~Head(thr[t].ops).sendable
    /\ thr' = [thr EXCEPT ![t] = AfterOp(t, UppOutOfRange)]
    /\ UNCHANGED <<world, scan, prog, link, reg, io, air, up, dev, faults, seen>>

\* Storing what a read brought.
\* A register answer is spread over the list from the start of the batch; an
\* answer that is longer than the rest of the list ends the thread.
Extracted(op, f) == IF IsBitFunction(op.fc) THEN ExtractCoils(f, op.n) ELSE ExtractRegisters(f)
Stored(d, op, data) ==
    [n \in Indices(d) |->
        IF \E j \in 1..Len(data) : op.rest[j].io = n
        THEN LET j == CHOOSE j \in 1..Len(data) : op.rest[j].io = n
             IN FromRaw(data[j], op.rest[j])
        ELSE io[d].read[n]]
\* Of these, the ones that hold the register they are named after.
Genuine(op, f, data) ==
    {op.rest[j].io : j \in {k \in 1..Len(data) :
        f.fc = ReadFunction(op.rest[k].kind) /\ (f.addr + k - 1) % WordSize = op.rest[k].addr}}
StoreRead(t, d, op, f) ==
    LET data == Extracted(op, f)
        touched == {op.rest[j].io : j \in 1..Len(data)}
    IN IF Len(data) > Len(op.rest)
       THEN /\ thr' = [thr EXCEPT ![t].pc = "dead"]
            /\ UNCHANGED <<io, seen>>
       ELSE /\ io' = [io EXCEPT ![d].read = Stored(d, op, data)]
            /\ seen' = [seen EXCEPT ![d].got = (@ \ touched) \cup Genuine(op, f, data)]
            /\ thr' = [thr EXCEPT ![t] = [AfterOp(t, ErrOk) EXCEPT !.own = @ /\ f.late = 0]]
\* The answer to a UPP write is not looked at: "no" is as good as the echo.
Accept(t, d, op, f) ==
    IF Dev(d).proto = "upp"
    THEN LET value == DecodedToValue(Decode(op.decoder, StripCommandEcho(op, f), f.data[1]), FieldOf(d, op.io).type)
         IN /\ thr' = [thr EXCEPT ![t] =
                [AfterOp(t, ErrOk) EXCEPT !.own = @ /\ f.late = 0,
                    !.denied = IF f.no THEN @ \cup {op.io} ELSE @,
                    !.news = IF op.write THEN @ ELSE [@ EXCEPT ![op.io] = value]]]
            /\ seen' = IF ~op.write /\ f.cmd = op.cmd /\ value # None
                       THEN [seen EXCEPT ![d].got = @ \cup {op.io}] ELSE seen
            /\ UNCHANGED io
    ELSE IF IsReadFunction(op.fc) THEN StoreRead(t, d, op, f)
    ELSE /\ thr' = [thr EXCEPT ![t] = [AfterOp(t, ErrOk) EXCEPT !.own = @ /\ f.late = 0]]
         /\ UNCHANGED <<io, seen>>

\* On a line with devices of both protocols a frame of the other one is never
\* taken: its second byte is no function, or no digit of an address.
Foreign(d, f) == IF Dev(d).proto = "upp" THEN "cmd" \notin DOMAIN f ELSE "cmd" \in DOMAIN f
ForeignOutcome(d, f) ==
    IF Dev(d).proto = "upp" THEN UppTimeout
    ELSE IF Dev(d).slave = 48 + f.from \div 10 THEN ErrFcMismatch ELSE ErrSlaveMismatch
Outcome(d, op, f) ==
    CASE Foreign(d, f) -> ForeignOutcome(d, f)
      [] ~Foreign(d, f) /\ Dev(d).proto = "rtu" -> RtuOutcome(Dev(d).slave, op, f)
      [] ~Foreign(d, f) /\ Dev(d).proto = "tcp" -> TcpOutcome(f)
      [] ~Foreign(d, f) /\ Dev(d).proto = "upp" -> UppTransact(Dev(d).slave, op, f)

\* A serial line hands over whichever frame comes next, a stream the oldest.
Arriving(t) == IF t = Bus THEN 1..Len(air[t]) ELSE {1}
\* The first frame that arrives, as it was sent or damaged, decides.
Damages(f) == {[f EXCEPT !.len = @ - 1]} \cup IF "crc" \in DOMAIN f THEN {[f EXCEPT !.crc = FALSE]} ELSE {}
TxResult(t) ==
    /\ thr[t].pc = "recv" /\ air[t] # <<>>
    /\ \E k \in Arriving(t) :
        \E f \in {air[t][k]} \cup IF t = Bus THEN Damages(air[t][k]) ELSE {} :
            /\ air' = [air EXCEPT ![t] = RemoveAt(@, k)]
            /\ IF f = air[t][k] THEN UNCHANGED faults ELSE Fault
            /\ LET d == thr[t].dev
                   op == Head(thr[t].ops)
               IN IF Outcome(d, op, f) = ErrOk THEN Accept(t, d, op, f)
                  ELSE /\ thr' = [thr EXCEPT ![t] = AfterOp(t, Outcome(d, op, f))]
                       /\ UNCHANGED <<io, seen>>
    /\ UNCHANGED <<world, scan, prog, link, reg, up, dev>>

\* The deadline passes; TCP tries once more over a new stream.
Underway(t) == \E k \in 1..Len(air[t]) : air[t][k].late = 0
TimedOut(t) ==
    IF t # Bus /\ thr[t].try = 1 THEN [thr[t] EXCEPT !.pc = "retry"]
    ELSE AfterOp(t, IF Dev(thr[t].dev).proto = "upp" THEN UppTimeout ELSE ErrTimeout)
TxTimeout(t) ==
    /\ thr[t].pc = "recv"
    /\ IF Underway(t) THEN Fault ELSE UNCHANGED faults
    /\ thr' = [thr EXCEPT ![t] = TimedOut(t)]
    /\ UNCHANGED <<world, scan, prog, link, reg, io, air, up, dev, seen>>
TxNotConnected(t) ==
    /\ t # Bus /\ thr[t].pc = "send" /\ ~up[t]
    /\ thr' = [thr EXCEPT ![t].pc = "retry"]
    /\ UNCHANGED <<world, scan, prog, link, reg, io, air, up, dev, faults, seen>>
Reconnect(t) ==
    /\ thr[t].pc = "retry"
    /\ air' = [air EXCEPT ![t] = <<>>]
    /\ \/ /\ up' = [up EXCEPT ![t] = TRUE]
          /\ thr' = [thr EXCEPT ![t].pc = "send", ![t].try = 2]
          /\ UNCHANGED faults
       \/ /\ up' = [up EXCEPT ![t] = FALSE]
          /\ thr' = [thr EXCEPT ![t] = AfterOp(t, ErrTimeout)]
          /\ Fault
    /\ UNCHANGED <<world, scan, prog, link, reg, io, dev, seen>>

\* The end of a poll: diagnostics, and for UPP the values read.
PollError(d, th) ==
    CASE Dev(d).proto = "rtu" -> CombineCycleErrors(th.readErr, th.writeErr)
      [] Dev(d).proto = "tcp" -> IF th.readErr # ErrOk \/ th.writeErr # ErrOk THEN 10 ELSE 0
      [] Dev(d).proto = "upp" -> IF th.readErr # ErrOk THEN th.readErr ELSE th.writeErr
Published(old, new) == [n \in DOMAIN old |-> IF new[n] = None THEN old[n] ELSE new[n]]
PollEnd(t) ==
    LET d == thr[t].dev
        err == PollError(d, thr[t])
    IN /\ thr[t].pc = "end"
       /\ io' = [io EXCEPT ![d] = [@ EXCEPT
                    !.read = IF Dev(d).proto = "upp" THEN Published(io[d].read, thr[t].news) ELSE io[d].read,
                    !.conn = (err = ErrOk), !.err = err]]
       /\ seen' = [seen EXCEPT ![d].own = thr[t].own]
       /\ IF t = Bus
          THEN /\ thr' = [thr EXCEPT ![t] = [NoThread EXCEPT !.pc = "round", !.left = Tail(thr[t].left),
                                                             !.polled = thr[t].polled \cup {d}, !.any = TRUE]]
               /\ UNCHANGED <<up, air>>
          ELSE /\ thr' = [thr EXCEPT ![t] = [NoThread EXCEPT !.pc = "idle"]]
               /\ up' = [up EXCEPT ![t] = (err = ErrOk)]
               /\ air' = [air EXCEPT ![t] = IF err = ErrOk THEN @ ELSE <<>>]
       /\ UNCHANGED <<world, scan, prog, link, reg, dev, faults>>

ThreadStep(t) ==
    \/ TcpConnect(t) \/ TxSend(t) \/ TxRefused(t) \/ TxResult(t) \/ TxTimeout(t)
    \/ TxNotConnected(t) \/ Reconnect(t) \/ PollEnd(t)
BusStep == BusStart \/ BusRound \/ SkipDevice \/ RoundEnd

Next ==
    \/ ScanNext \/ ExecRegister \/ SetInput \/ BusStep
    \/ \E d \in Devices : PollStart(d)
    \/ \E t \in Threads : ThreadStep(t)

Spec == Init /\ [][Next]_vars

\* The threads run; a device that is passed over again and again is due in the
\* end.  Nothing makes a mutex fair: a thread that waits for the list gets it
\* when the bus thread has not started or sleeps again and again, but not from
\* one that takes the list again as soon as it has released it.
\* Weak fairness is written []<>~Ready \/ []<>Step and strong fairness
\* <>[]~Ready \/ []<>Step, with the enabling conditions spelt out.
AllDevices == UNION {DOMAIN w.devs : w \in Worlds}
Registering ==
    At("exec") /\ ConfigError(Current) = 0 /\ Dev(Current).proto # "sim" /\ Current \notin reg
ScanReady == ~At("dead") /\ ~Registering
RegisterReady == Registering /\ (Serial(Current) => ~ListLocked /\ thr[Bus].pc # "idle")
BusReady ==
    \/ thr[Bus].pc = "wait" /\ link.open
    \/ thr[Bus].pc \in {"idle", "sleep", "round"}
PollReady(d) ==
    /\ d \in Devices /\ Dev(d).proto # "sim"
    /\ IF Serial(d) THEN thr[Bus].pc = "round" /\ thr[Bus].left # <<>> /\ Head(thr[Bus].left) = d
       ELSE thr[d].pc = "idle" /\ up[d]
PollBegins(d) == PollReady(d) /\ thr'[ThreadOf(d)].dev = d
ThreadReady(t) ==
    /\ t \in Threads
    /\ \/ thr[t].pc \in {"send", "recv", "retry", "end"}
       \/ t # Bus /\ thr[t].pc = "idle" /\ ~up[t]
ThreadMoves(t) == t \in Threads /\ (thr'[t] # thr[t] \/ up'[t] # up[t])
Fairness ==
    /\ []<>~ScanReady \/ []<><<ScanReady /\ scan' # scan>>_vars
    /\ <>[]~RegisterReady \/ []<><<RegisterReady /\ scan' # scan>>_vars
    /\ []<>~BusReady \/ []<><<BusReady /\ thr'[Bus] # thr[Bus]>>_vars
    /\ \A d \in AllDevices :
        <>[]~PollReady(d) \/ []<><<PollBegins(d)>>_vars
    /\ \A t \in AllDevices \cup {Bus} :
        []<>~ThreadReady(t) \/ []<><<ThreadReady(t) /\ ThreadMoves(t)>>_vars
FairSpec == Spec /\ Fairness
----------------------------------------------------------------------------
(* Type invariant: the fields of a block, the shared state and the devices   *)
(* hold values of the declared types; a thread polls a registered device.    *)
(* What a Modbus driver reads has the type of its conversion, which is the   *)
(* declared one unless a bit is not declared BOOL or a register is declared  *)
(* STRING or TIME.                                                           *)
HasType(d, n, value) ==
    /\ value.v \in Int
    /\ \/ value.t = VarType(FieldOf(d, n).type)
       \/ Dev(d).proto \in {"rtu", "tcp"} /\ value.t = FromRaw(0, Register(Fields(d), n)).t
FieldbusTypeOK ==
    /\ world \in Worlds
    /\ scan.pc \in {"start", "exec", "queue", "copy", "dead"} /\ scan.i \in 1..Len(world.order)
    /\ faults \in 0..world.maxFaults
    /\ reg \subseteq Devices
    /\ link.open \in BOOLEAN /\ link.conn \in BOOLEAN /\ link.err \in 0..3
    /\ \A d \in Devices :
        /\ \A n \in Indices(d) : HasType(d, n, prog[d].vals[n]) /\ HasType(d, n, io[d].read[n])
        /\ \A n \in Indices(d) :
            HasType(d, n, io[d].write[n]) \/ (Dev(d).proto = "upp" /\ io[d].write[n] = None)
        /\ io[d].conn \in BOOLEAN /\ prog[d].conn \in BOOLEAN
        /\ io[d].conn => io[d].err = 0
        /\ seen[d].got \subseteq InputIndices(d)
        /\ \A c \in DOMAIN dev[d] : dev[d][c] \in IF Dev(d).proto = "sim" THEN Int ELSE Word
    /\ \A t \in Threads :
        /\ thr[t].pc \in {"off", "wait", "idle", "sleep", "round", "send", "recv", "retry", "end", "dead"}
        /\ thr[t].dev # "none" => thr[t].dev \in reg /\ ThreadOf(thr[t].dev) = t
        /\ thr[t].pc \in {"send", "recv", "retry"} => thr[t].ops # <<>>

(* The slot numbers written into the drivers are those of the layout the     *)
(* compiler was given: fixed fields first, then the profile fields, arrays   *)
(* stored inline.  The simulated and the UPP driver count fields and not     *)
(* elements; they agree only while no field is an array.                     *)
SlotsAgree ==
    \A d \in Devices :
        LET proto == Dev(d).proto
        IN /\ \A i \in 1..Len(Fields(d)) :
                \/ DriverSlot(proto, Fields(d), i) = MemorySlot(proto, Fields(d), i)
                \/ proto \in {"sim", "upp"} /\ \E k \in 1..i : ElementCount(Fields(d)[k]) > 1
           /\ FixedSlots(proto)[DriverDiagnostics(proto)[1] + 1] = "connected"
           /\ FixedSlots(proto)[DriverDiagnostics(proto)[2] + 1] = "error_code"

(* The batches of a poll ask for every register of the profile that can be   *)
(* read or written exactly once, under its own address and kind, and for     *)
(* nothing else.                                                             *)
Covers(regs, ops, kinds, Function(_, _)) ==
    /\ \A r \in ToSet(regs) :
        Cardinality({p \in (1..Len(ops)) \X (1..Len(regs)) :
                        p[2] <= ops[p[1]].n /\ ops[p[1]].rest[p[2]].io = r.io})
            = IF r.kind \in kinds THEN 1 ELSE 0
    /\ \A b \in 1..Len(ops) : \A j \in 1..ops[b].n :
        /\ ops[b].rest[j].addr = (ops[b].addr + j - 1) % WordSize
        /\ Function(ops[b].rest[j].kind, ops[b].n) = ops[b].fc
RequestsCoverProfile ==
    \A d \in Devices : Dev(d).proto \in {"rtu", "tcp"} =>
        LET inputs == ExpandRegisters(Fields(d), Inputs)
            outputs == ExpandRegisters(Fields(d), Outputs)
        IN /\ Covers(inputs, ReadBatched(inputs), RegisterKinds \ {"virtual"}, LAMBDA k, n : ReadFunction(k))
           /\ Covers(outputs, WriteBatched(outputs, io[d].write), {"coil", "holding"}, WriteFunction)

(* What the profile's documentation promises of element j of field f: the    *)
(* words it occupies, and the value of a word that is read.                  *)
DeclaredWords(f, j) == {(f.addr + j * f.words + k) % WordSize : k \in 0..(f.words - 1)}
SwapBytes(raw) == (raw % 256) * 256 + raw \div 256
DeclaredValue(f, raw) ==
    LET word == IF f.order = "little-endian" THEN SwapBytes(raw) ELSE raw
    IN RegisterToValue(IF f.bit = -1 THEN word ELSE (word \div 2^f.bit) % 2, f)

(* A field with one big-endian word and no bit is served as declared.  Every *)
(* other field is served as if it were such a field: one word is asked for,  *)
(* at the address plus the number of the element, its bytes are not swapped  *)
(* and no bit is picked.  Hence of a field of two words half of each element *)
(* is never asked for.                                                       *)
PlainWord(f) == [addr |-> f.addr, type |-> f.type, scale |-> f.scale, offset |-> f.offset,
                 bit |-> -1, order |-> "big-endian", words |-> 1]
Probes == {0, 1, 256}
OptionsIgnored ==
    \A d \in Devices : Dev(d).proto \in {"rtu", "tcp"} =>
        \A n \in Indices(d) :
            LET f == FieldOf(d, n)
                r == Register(Fields(d), n)
                j == n - FieldOffset(Fields(d), FieldAt(Fields(d), n)) - 1
            IN ~IsBit(r) => /\ DeclaredWords(PlainWord(f), j) = {r.addr}
                            /\ \A raw \in Probes : FromRaw(raw, r) = DeclaredValue(PlainWord(f), raw)
                            /\ f.words > 1 => DeclaredWords(f, j) # {r.addr}

(* The profile is served: types and slots agree with it, the requests cover  *)
(* it, and its registers are those declared, with the named exceptions.      *)
ProfileServed == FieldbusTypeOK /\ SlotsAgree /\ RequestsCoverProfile /\ OptionsIgnored

(* When a device is reported as connected, its last poll read every input,   *)
(* and each from an answer about that very register or command.  On a serial *)
(* line this needs answers that can be told apart, because the parsers       *)
(* compare the slave and the function (UPP: the address and the number of    *)
(* digits) and nothing that names the request; and UPP passes over a value   *)
(* that does not fit the type of the field, without an error.                *)
Polling(d) == thr[ThreadOf(d)].dev = d
Readable(d) == {n \in InputIndices(d) : Dev(d).proto = "upp" \/ FieldOf(d, n).kind # "virtual"}
SlavesApart(d) ==
    \A e \in Devices \ {d} :
        /\ Dev(d).proto = "rtu" /\ Dev(e).proto = "rtu" => Dev(e).slave # Dev(d).slave
        /\ Dev(d).proto = "upp" /\ Dev(e).proto = "upp" => ~AddressesMatch(Dev(d).slave, OwnAddress(e))
AnswersApart(d) ==
    /\ Dev(d).proto = "rtu" =>
        LET ops == ReadBatched(ExpandRegisters(Fields(d), Inputs))
        IN \A a, b \in 1..Len(ops) : ops[a].fc = ops[b].fc => a = b
    /\ Dev(d).proto = "upp" =>
        \A m \in InputIndices(d), n \in Indices(d) :
            LET digits == DecoderDigits(FieldOf(d, m).decoder)
                cmd == FieldOf(d, n).cmd
            IN /\ cmd # FieldOf(d, m).cmd => digits \notin {0, AnswerDigits(cmd)}
               /\ n \in OutputIndices(d) => /\ digits \notin {0, 2, 2 + ParameterDigits(cmd)}
                                            /\ Mnemonic(FieldOf(d, m).cmd) = cmd =>
                                                 cmd = FieldOf(d, m).cmd \/ digits # ParameterDigits(cmd)
Decodable(d) ==
    Dev(d).proto = "upp" =>
        \A n \in InputIndices(d) :
            DecodedToValue(Value(DecodedVariant(FieldOf(d, n).decoder), 0), FieldOf(d, n).type) # None
ConnectedMeansRead ==
    \A d \in Devices : (/\ Dev(d).proto # "sim"
                        /\ io[d].conn
                        /\ ~Polling(d)
                        /\ SlavesApart(d) /\ AnswersApart(d) /\ Decodable(d)) => seen[d].got = Readable(d)

(* After a poll without errors that took no late answer, the outputs of a    *)
(* Modbus device are those of one scan: never the coil of one and the        *)
(* register of another, although the program went on meanwhile.  A profile   *)
(* that gives one register to two outputs keeps only the later of them.      *)
Written(d) ==
    {r \in ToSet(ExpandRegisters(Fields(d), {"out"})) : r.kind \in {"coil", "holding"}}
OutputsApart(d) ==
    \A q, r \in ToSet(ExpandRegisters(Fields(d), Outputs)) : Address(q) = Address(r) => q = r
OutputsFromOneScan ==
    \A d \in Devices : (/\ Dev(d).proto \in {"rtu", "tcp"}
                        /\ OutputsApart(d)
                        /\ io[d].conn
                        /\ ~Polling(d)
                        /\ seen[d].own) =>
        \E k \in 0..2 : \A r \in Written(d) : dev[d][Address(r)] = ToRaw(Sample(r.type, k), r)

(* UPP writes before it reads: a poll without errors that took no late       *)
(* answer publishes, for a field it wrote, what the device then holds, and   *)
(* that is the value the program had assigned, a REAL rounded to             *)
(* thousandths.  The one exception is a write that the device refused: the   *)
(* poll reports no error for it, and the program finds its value replaced by *)
(* the one the device has kept.  The field must be the only output with its  *)
(* command, and its decoder and type those that suit what the command        *)
(* writes.                                                                   *)
Suited(f) ==
    \/ f.cmd \in {"em", "et", "ev"} /\ f.decoder = "u16_dec_milli" /\ f.type \in RealTypes
    \/ f.cmd \in {"fh", "la"} /\ f.decoder = "bool_digit" /\ f.type = "BOOL"
    \/ /\ f.cmd \in {"ez", "lz", "fh", "ka", "la"} /\ DecodedVariant(f.decoder) = "Enum" /\ f.decoder \in Decoders
       /\ f.type \in SignedTypes \cup {"USINT", "UINT", "UDINT", "ULINT"}
Settable(d) ==
    {n \in InputIndices(d) \cap OutputIndices(d) :
        /\ Suited(FieldOf(d, n))
        /\ \A m \in OutputIndices(d) : FieldOf(d, m).cmd = FieldOf(d, n).cmd => m = n}
Held(d, n, content) ==
    DecodedToValue(Decode(FieldOf(d, n).decoder, AnswerDigits(FieldOf(d, n).cmd), content[FieldOf(d, n).cmd]),
                   FieldOf(d, n).type)
CameBack(got, sent) ==
    IF sent.t = "Real" THEN got.t = "Real" /\ got.v % 10 = 0 /\ Abs(got.v - sent.v) <= 5 ELSE got = sent
ReadBack ==
    [][ \A d \in Devices :
          (/\ Dev(d).proto = "upp" /\ Polling(d) /\ thr[Bus].pc = "end" /\ ~Polling(d)'
           /\ thr[Bus].own /\ io'[d].conn)
          => \A n \in Settable(d) : thr[Bus].snap[n] # None =>
                /\ io'[d].read[n] = Held(d, n, dev[d])
                /\ n \notin thr[Bus].denied => CameBack(io'[d].read[n], thr[Bus].snap[n]) ]_vars

(* The program keeps scanning, whatever the devices do: a block waits for    *)
(* the bus thread only while it registers.  There are two exceptions.  One   *)
(* is an I/O thread that ended while it stored a late answer with more       *)
(* registers than were asked for: its locks are poisoned.  The other is a    *)
(* bus on which some device is due in every round, as when a round takes     *)
(* longer than a refresh interval: the thread never sleeps, and a block that *)
(* is still to register may wait for the list for ever, and the scan with it.*)
Starved == Registering /\ Serial(Current) /\ thr[Bus].pc \notin {"off", "wait", "sleep"}
ScanReturns ==
    []<>(scan.pc = "start") \/ <>(\E t \in Threads : thr[t].pc = "dead") \/ <>[]Starved

(* An output that the program leaves alone reaches the device, once the      *)
(* faults end, also after lost requests, refusals and broken connections,    *)
(* unless the scan itself is starved.                                        *)
WrittenOutputs(d) ==
    IF d \in Devices /\ Dev(d).proto \in {"rtu", "tcp"} /\ ConfigError(d) = 0
    THEN {n \in OutputIndices(d) : FieldOf(d, n).dir = "out" /\ FieldOf(d, n).kind \in {"coil", "holding"}}
    ELSE {}
Reached(d) ==
    \A n \in WrittenOutputs(d) :
        FromRaw(dev[d][CellOf(d, n)], Register(Fields(d), n)) = prog[d].vals[n]
Reassigned(d) == \E n \in WrittenOutputs(d) : prog'[d].vals[n] # prog[d].vals[n]
OutputsArrive ==
    \A d \in AllDevices : []<><<Reassigned(d)>>_vars \/ <>[]Reached(d) \/ <>[]Starved
=============================================================================
