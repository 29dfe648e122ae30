-------------------------- MODULE DapAttachProofs --------------------------
(***************************************************************************)
(* Proofs about DapAttach: one remote debug session, for any number of     *)
(* client requests.                                                        *)
(***************************************************************************)
EXTENDS DapAttach, FiniteSetTheorems, SequenceTheorems, TLAPS

-----------------------------------------------------------------------------
(* Messages in a channel.  The invariants say of a channel that it holds   *)
(* no message of some kind, exactly one, or how many; the lemmas say how   *)
(* sending (Append) and receiving (Tail) change that.                      *)

\* no message of one of the kinds ops
Without(s, ops) == \A i \in DOMAIN s : s[i].op \notin ops

\* one message of the kinds ops, and behind it none of the kinds all
EndsWith(s, ops, all) ==
  \E i \in DOMAIN s :
    /\ s[i].op \in ops
    /\ \A j \in DOMAIN s : j < i => s[j].op \notin ops
    /\ \A j \in DOMAIN s : j > i => s[j].op \notin all

\* behind every message of kind op, no message of the kinds ops
Behind(s, op, ops) ==
  \A i, j \in DOMAIN s : s[i].op = op /\ i < j => s[j].op \notin ops

\* every message of kind op is about query n
Tagged(s, op, n) == \A i \in DOMAIN s : s[i].op = op => s[i].query = n

Positions(s, ops) == {i \in DOMAIN s : s[i].op \in ops}
Count(s, ops) == Cardinality(Positions(s, ops))

\* Sending to a channel.
LEMMA SendProperties ==
  ASSUME NEW T, NEW s \in Seq(T), NEW e \in T
  PROVE  /\ Append(s, e) \in Seq(T)
         /\ DOMAIN Append(s, e) = DOMAIN s \cup {Len(s) + 1}
         /\ \A i \in DOMAIN s : Append(s, e)[i] = s[i] /\ i < Len(s) + 1
         /\ Append(s, e)[Len(s) + 1] = e
         /\ Len(s) + 1 \notin DOMAIN s
         /\ s \o <<e>> = Append(s, e)
  OBVIOUS

\* Receiving from a channel.
LEMMA ReceiveProperties ==
  ASSUME NEW T, NEW s \in Seq(T), s # <<>>
  PROVE  /\ Tail(s) \in Seq(T) /\ Head(s) \in T /\ Head(s) = s[1]
         /\ 1 \in DOMAIN s
         /\ \A i \in DOMAIN Tail(s) : i + 1 \in DOMAIN s /\ Tail(s)[i] = s[i + 1] /\ i + 1 > 1
         /\ \A i \in DOMAIN s : i = 1 \/ (i - 1 \in DOMAIN Tail(s) /\ Tail(s)[i - 1] = s[i])
         /\ DOMAIN s \subseteq Nat /\ DOMAIN Tail(s) \subseteq Nat
  OBVIOUS

LEMMA WithoutAppend ==
  ASSUME NEW T, NEW s \in Seq(T), NEW e \in T, NEW ops
  PROVE  Without(Append(s, e), ops) <=> Without(s, ops) /\ e.op \notin ops
  BY SendProperties DEF Without

LEMMA WithoutTail ==
  ASSUME NEW T, NEW s \in Seq(T), s # <<>>, NEW ops
  PROVE  Without(s, ops) <=> Head(s).op \notin ops /\ Without(Tail(s), ops)
<1>1. ASSUME Without(s, ops) PROVE Head(s).op \notin ops /\ Without(Tail(s), ops)
  BY <1>1, ReceiveProperties DEF Without
<1>2. ASSUME Head(s).op \notin ops, Without(Tail(s), ops) PROVE Without(s, ops)
  <2> SUFFICES ASSUME NEW i \in DOMAIN s PROVE s[i].op \notin ops
    BY DEF Without
  <2>1. CASE i = 1
    BY <1>2, <2>1, ReceiveProperties
  <2>2. CASE i # 1
    BY <1>2, <2>2, ReceiveProperties DEF Without
  <2>3. QED
    BY <2>1, <2>2
<1>3. QED
  BY <1>1, <1>2

LEMMA EndsWithAppend ==
  ASSUME NEW T, NEW s \in Seq(T), NEW e \in T, NEW ops, NEW all
  PROVE  /\ EndsWith(s, ops, all) /\ e.op \notin all => EndsWith(Append(s, e), ops, all)
         /\ Without(s, ops) /\ e.op \in ops => EndsWith(Append(s, e), ops, all)
<1>1. ASSUME EndsWith(s, ops, all), e.op \notin all
      PROVE  EndsWith(Append(s, e), ops, all)
  <2>1. PICK i \in DOMAIN s :
          /\ s[i].op \in ops
          /\ \A j \in DOMAIN s : j < i => s[j].op \notin ops
          /\ \A j \in DOMAIN s : j > i => s[j].op \notin all
    BY <1>1 DEF EndsWith
  <2>2. i \in DOMAIN Append(s, e) /\ Append(s, e)[i].op \in ops
    BY <2>1, SendProperties
  <2>3. \A j \in DOMAIN Append(s, e) : j < i => Append(s, e)[j].op \notin ops
    BY <2>1, SendProperties
  <2>4. \A j \in DOMAIN Append(s, e) : j > i => Append(s, e)[j].op \notin all
    BY <1>1, <2>1, SendProperties
  <2>5. QED
    BY <2>2, <2>3, <2>4 DEF EndsWith
<1>2. ASSUME Without(s, ops), e.op \in ops
      PROVE  EndsWith(Append(s, e), ops, all)
  <2>1. Len(s) + 1 \in DOMAIN Append(s, e) /\ Append(s, e)[Len(s) + 1].op \in ops
    BY <1>2, SendProperties
  <2>2. \A j \in DOMAIN Append(s, e) : j < Len(s) + 1 => Append(s, e)[j].op \notin ops
    BY <1>2, SendProperties DEF Without
  <2>3. \A j \in DOMAIN Append(s, e) : ~(j > Len(s) + 1)
    BY SendProperties
  <2>4. QED
    BY <2>1, <2>2, <2>3 DEF EndsWith
<1>3. QED
  BY <1>1, <1>2

LEMMA EndsWithTail ==
  ASSUME NEW T, NEW s \in Seq(T), s # <<>>, NEW ops, NEW all, EndsWith(s, ops, all)
  PROVE  /\ Head(s).op \in ops => Without(Tail(s), all)
         /\ Head(s).op \notin ops => EndsWith(Tail(s), ops, all)
<1>1. PICK i \in DOMAIN s :
        /\ s[i].op \in ops
        /\ \A j \in DOMAIN s : j < i => s[j].op \notin ops
        /\ \A j \in DOMAIN s : j > i => s[j].op \notin all
  BY DEF EndsWith
<1>2. ASSUME Head(s).op \in ops PROVE Without(Tail(s), all)
  <2>1. i = 1
    BY <1>1, <1>2, ReceiveProperties
  <2>2. QED
    BY <1>1, <2>1, ReceiveProperties DEF Without
<1>3. ASSUME Head(s).op \notin ops PROVE EndsWith(Tail(s), ops, all)
  <2>1. i # 1
    BY <1>1, <1>3, ReceiveProperties
  <2>2. i - 1 \in DOMAIN Tail(s) /\ Tail(s)[i - 1].op \in ops
    BY <1>1, <2>1, ReceiveProperties
  <2>3. \A j \in DOMAIN Tail(s) : j < i - 1 => Tail(s)[j].op \notin ops
    BY <1>1, ReceiveProperties
  <2>4. \A j \in DOMAIN Tail(s) : j > i - 1 => Tail(s)[j].op \notin all
    BY <1>1, ReceiveProperties
  <2>5. QED
    BY <2>2, <2>3, <2>4 DEF EndsWith
<1>4. QED
  BY <1>2, <1>3

LEMMA BehindChannel ==
  ASSUME NEW T, NEW s \in Seq(T), NEW op, NEW ops, Behind(s, op, ops)
  PROVE  /\ \A e \in T : e.op \notin ops \/ Without(s, {op}) => Behind(Append(s, e), op, ops)
         /\ s # <<>> => Behind(Tail(s), op, ops)
         /\ s # <<>> /\ Head(s).op = op => Without(Tail(s), ops)
<1>1. ASSUME NEW e \in T, e.op \notin ops \/ Without(s, {op})
      PROVE  Behind(Append(s, e), op, ops)
  BY <1>1, SendProperties DEF Behind, Without
<1>2. ASSUME s # <<>> PROVE Behind(Tail(s), op, ops)
  BY <1>2, ReceiveProperties DEF Behind
<1>3. ASSUME s # <<>>, Head(s).op = op PROVE Without(Tail(s), ops)
  BY <1>3, ReceiveProperties DEF Behind, Without
<1>4. QED
  BY <1>1, <1>2, <1>3

LEMMA TaggedAppend ==
  ASSUME NEW T, NEW s \in Seq(T), NEW e \in T, NEW op, NEW n,
         Tagged(s, op, n), e.op = op => e.query = n
  PROVE  Tagged(Append(s, e), op, n)
  BY SendProperties DEF Tagged

LEMMA TaggedTail ==
  ASSUME NEW T, NEW s \in Seq(T), s # <<>>, NEW op, NEW n, Tagged(s, op, n)
  PROVE  /\ Tagged(Tail(s), op, n)
         /\ Head(s).op = op => Head(s).query = n
  BY ReceiveProperties DEF Tagged

LEMMA TaggedNone ==
  ASSUME NEW s, NEW op, NEW n, Without(s, {op})
  PROVE  Tagged(s, op, n)
  BY DEF Tagged, Without

-----------------------------------------------------------------------------
(* Counting the messages of a kind *)

\* The positions of the messages of a kind are finitely many.
LEMMA PositionsFinite ==
  ASSUME NEW T, NEW s \in Seq(T), NEW ops
  PROVE  IsFiniteSet(Positions(s, ops)) /\ Count(s, ops) \in Nat
<1>1. IsFiniteSet(1..Len(s))
  BY FS_Interval
<1>2. Positions(s, ops) \subseteq 1..Len(s)
  BY DEF Positions
<1>3. QED
  BY <1>1, <1>2, FS_Subset, FS_CardinalityType DEF Count

LEMMA CountAppend ==
  ASSUME NEW T, NEW s \in Seq(T), NEW e \in T, NEW ops
  PROVE  Count(Append(s, e), ops) = IF e.op \in ops THEN Count(s, ops) + 1 ELSE Count(s, ops)
<1>1. CASE e.op \in ops
  <2>1. Positions(Append(s, e), ops) = Positions(s, ops) \cup {Len(s) + 1}
    BY <1>1, SendProperties DEF Positions
  <2>2. Len(s) + 1 \notin Positions(s, ops)
    BY SendProperties DEF Positions
  <2>3. QED
    BY <1>1, <2>1, <2>2, PositionsFinite, FS_AddElement DEF Count
<1>2. CASE e.op \notin ops
  <2>1. Positions(Append(s, e), ops) = Positions(s, ops)
    BY <1>2, SendProperties DEF Positions
  <2>2. QED
    BY <1>2, <2>1 DEF Count
<1>3. QED
  BY <1>1, <1>2

LEMMA CountTail ==
  ASSUME NEW T, NEW s \in Seq(T), s # <<>>, NEW ops
  PROVE  Count(s, ops) = IF Head(s).op \in ops THEN Count(Tail(s), ops) + 1
                                               ELSE Count(Tail(s), ops)
<1> DEFINE P == Positions(s, ops)
           Q == Positions(Tail(s), ops)
           shift == [i \in P \ {1} |-> i - 1]
<1>1. IsFiniteSet(P) /\ IsFiniteSet(Q) /\ Cardinality(P) \in Nat
  BY PositionsFinite, ReceiveProperties DEF Count
<1>2. Cardinality(P \ {1}) = Cardinality(Q)
  <2>1. shift \in [P \ {1} -> Q]
    BY ReceiveProperties DEF Positions
  <2>2. \A x, y \in P \ {1} : shift[x] = shift[y] => x = y
    BY ReceiveProperties DEF Positions
  <2>3. \A q \in Q : \E x \in P \ {1} : shift[x] = q
    <3> SUFFICES ASSUME NEW q \in Q PROVE \E x \in P \ {1} : shift[x] = q
      OBVIOUS
    <3>1. q \in DOMAIN Tail(s) /\ q \in Nat /\ Tail(s)[q].op \in ops
      BY ReceiveProperties DEF Positions
    <3>2. q + 1 \in DOMAIN s /\ s[q + 1] = Tail(s)[q] /\ q + 1 # 1 /\ (q + 1) - 1 = q
      BY <3>1, ReceiveProperties
    <3>3. q + 1 \in P \ {1}
      BY <3>1, <3>2 DEF Positions
    <3>4. QED
      BY <3>2, <3>3
  <2>4. shift \in Bijection(P \ {1}, Q)
    BY <2>1, <2>2, <2>3 DEF Bijection, Injection, IsInjective, Surjection
  <2>5. ExistsBijection(P \ {1}, Q)
    BY <2>4 DEF ExistsBijection
  <2>6. IsFiniteSet(P \ {1})
    BY <1>1, FS_RemoveElement
  <2>7. QED
    BY <2>5, <2>6, FS_Bijection
<1>3. CASE Head(s).op \in ops
  <2>1. 1 \in P
    BY <1>3, ReceiveProperties DEF Positions
  <2>2. Cardinality(P \ {1}) = Cardinality(P) - 1
    BY <1>1, <2>1, FS_RemoveElement
  <2>3. QED
    BY <1>1, <1>2, <1>3, <2>2 DEF Count
<1>4. CASE Head(s).op \notin ops
  <2>1. P \ {1} = P
    BY <1>4, ReceiveProperties DEF Positions
  <2>2. QED
    BY <1>2, <1>4, <2>1 DEF Count
<1>5. QED
  BY <1>3, <1>4

-----------------------------------------------------------------------------
(* The inductive invariants *)

\* no request is answered twice, and no query is numbered past the last
\* request: a request is in the channel, being waited for, swallowed by a
\* wait, or answered
CountInv ==
  /\ open <= sent
  /\ Count(input, Requests) + (IF handler = "wait" THEN 1 ELSE 0) <= open
  /\ asked + Count(input, {"query"}) <= sent

Signals == {"Stopped", "Resumed"}
Gos == {"Continue", "Step"}

\* the engine's last word is a Stopped that the handler has not read yet
StopUnderWay ==
  \/ EndsWith(input, {"Stopped"}, Signals) /\ Without(evq, Signals)
  \/ Without(input, {"Stopped"}) /\ EndsWith(evq, {"Stopped"}, Signals)

\* the engine runs, and nothing on its way says otherwise
EngineRuns ==
  /\ ~halted /\ ~isPaused
  /\ Without(input, {"Stopped"}) /\ Without(evq, {"Stopped"})
  /\ Without(cmdq, Gos)

\* the engine is halted, and the handler is about to learn it
HaltUntold ==
  /\ halted /\ ~isPaused
  /\ StopUnderWay
  /\ Without(cmdq, Gos)

\* the engine is halted, and the handler knows
HaltKnown ==
  /\ halted /\ isPaused
  /\ Without(input, Signals) /\ Without(evq, Signals)
  /\ Without(cmdq, Gos)

\* the engine is halted, and the one command to go on is on its way
HaltEnding ==
  /\ halted /\ ~isPaused
  /\ Without(input, Signals) /\ Without(evq, Signals)
  /\ EndsWith(cmdq, Gos, Gos)

SyncInv ==
  attached /\ handler # "ended" =>
    /\ Without(input, {"Detached"}) /\ Without(evq, {"Detached"})
    /\ EngineRuns \/ HaltUntold \/ HaltKnown \/ HaltEnding

\* the last message of the reader thread is its closing notice, and so is
\* the last message of the event thread
ClosingInv ==
  /\ ~attached => cmdq = <<>>
  /\ ~watching => ~attached /\ evq = <<>>
  /\ client = "up" => Without(input, {"DapDisconnected"})
  /\ watching => Without(input, {"EngineDisconnected"})
  /\ Behind(input, "DapDisconnected", Requests)
  /\ Behind(input, "EngineDisconnected", Events)

\* no query and no answer is on its way
NoQuery ==
  Without(cmdq, {"Query"}) /\ Without(evq, {"Answer"}) /\ Without(input, {"Answer"})

\* at most one query, or its answer, is on its way
OneQuery ==
  \/ NoQuery
  \/ EndsWith(cmdq, {"Query"}, {"Query"}) /\ Without(evq, {"Answer"}) /\ Without(input, {"Answer"})
  \/ Without(cmdq, {"Query"}) /\ EndsWith(evq, {"Answer"}, {"Answer"}) /\ Without(input, {"Answer"})
  \/ Without(cmdq, {"Query"}) /\ Without(evq, {"Answer"}) /\ EndsWith(input, {"Answer"}, {"Answer"})

\* ... and it is about the last query asked
Waiting ==
  /\ OneQuery
  /\ Tagged(cmdq, "Query", asked)
  /\ Tagged(evq, "Answer", asked)
  /\ Tagged(input, "Answer", asked)

\* as long as no wait has timed out, a query is sent only when none is on
\* its way; the one waited for is the last one asked
FreshInv ==
  ~late =>
    /\ handler = "recv" => NoQuery \/ (client = "dropped" /\ Without(input, Requests))
    /\ handler = "wait" => Waiting

-----------------------------------------------------------------------------
(* Type correctness *)

InputMsgs == [op : Requests \cup Events \cup Closings, query : Numbers]
EventMsgs == [op : Events, query : Numbers]
CommandMsgs == [op : DebugCommands, query : Numbers]

\* Messages are records of their kind and the query they are about.
LEMMA MsgShape ==
  /\ \A ops : \A op \in ops, q \in Numbers :
       Msg(op, q) \in [op : ops, query : Numbers] /\ Msg(op, q).op = op /\ Msg(op, q).query = q
  /\ 0 \in Numbers
  /\ EventMsgs \subseteq InputMsgs
  /\ \A m \in InputMsgs : m.op \in Events => m \in EventMsgs
  BY DapAssumption DEF DapAssumption, Msg, Numbers, EventMsgs, InputMsgs

\* Sending to the engine keeps the command channel well-typed.
LEMMA SendToType ==
  ASSUME TypeOK, NEW cmds \in Seq(CommandMsgs), SendTo(cmds)
  PROVE  cmdq' \in Seq(CommandMsgs)
  BY DEF SendTo, TypeOK, CommandMsgs

\* A command sent while attached is the last of the channel.
LEMMA SendToOne ==
  ASSUME TypeOK, NEW op \in DebugCommands, NEW q \in Numbers, SendTo(<<Msg(op, q)>>)
  PROVE  /\ cmdq' \in Seq(CommandMsgs)
         /\ Msg(op, q) \in CommandMsgs
         /\ attached => cmdq' = Append(cmdq, Msg(op, q))
         /\ ~attached => cmdq' = cmdq
<1>1. Msg(op, q) \in CommandMsgs
  BY MsgShape DEF CommandMsgs
<1>2. cmdq \in Seq(CommandMsgs)
  BY DEF TypeOK, CommandMsgs
<1>3. cmdq \o <<Msg(op, q)>> = Append(cmdq, Msg(op, q)) /\ Append(cmdq, Msg(op, q)) \in Seq(CommandMsgs)
  BY <1>1, <1>2, SendProperties
<1>4. QED
  BY <1>1, <1>2, <1>3 DEF SendTo

\* The handler ends with one or two commands to the engine.
LEMMA EndType ==
  ASSUME TypeOK, End(<<>>) \/ End(<<Msg("Disconnect", 0)>>)
  PROVE  cmdq' \in Seq(CommandMsgs) /\ handler' = "ended"
<1>1. Msg("Disconnect", 0) \in CommandMsgs
  BY MsgShape DEF CommandMsgs, DebugCommands
<1>2. ASSUME NEW cmds \in Seq(CommandMsgs), End(cmds)
      PROVE  cmdq' \in Seq(CommandMsgs) /\ handler' = "ended"
  <2>1. cmds \o <<Msg("Disconnect", 0)>> \in Seq(CommandMsgs)
    BY <1>1
  <2>2. QED
    BY <1>2, <2>1, SendToType DEF End
<1>3. <<>> \in Seq(CommandMsgs) /\ <<Msg("Disconnect", 0)>> \in Seq(CommandMsgs)
  BY <1>1
<1>4. QED
  BY <1>2, <1>3

\* What the main loop takes is a typed message.
LEMMA TakeInput ==
  ASSUME TypeOK, NEW ops, Take(ops)
  PROVE  /\ input \in Seq(InputMsgs) /\ input # <<>>
         /\ Head(input) \in InputMsgs /\ Head(input).op \in ops
         /\ input' = Tail(input) /\ input' \in Seq(InputMsgs)
<1>1. input \in Seq(InputMsgs) /\ input # <<>>
  BY DEF Take, TypeOK, InputMsgs
<1>2. QED
  BY <1>1, ReceiveProperties DEF Take

\* What the engine reads is a typed command.
LEMMA ReadCommand ==
  ASSUME TypeOK, NEW ops, Ready(ops)
  PROVE  /\ attached
         /\ cmdq \in Seq(CommandMsgs) /\ cmdq # <<>>
         /\ Head(cmdq) \in CommandMsgs /\ Head(cmdq).op \in ops
         /\ Head(cmdq).query \in Numbers
         /\ Tail(cmdq) \in Seq(CommandMsgs)
<1>1. cmdq \in Seq(CommandMsgs) /\ cmdq # <<>>
  BY DEF Ready, TypeOK, CommandMsgs
<1>2. Head(cmdq) \in CommandMsgs /\ Tail(cmdq) \in Seq(CommandMsgs)
  BY <1>1, ReceiveProperties
<1>3. QED
  BY <1>1, <1>2 DEF Ready, CommandMsgs

\* How the count of requests moves with the input channel.
LEMMA CountInput ==
  ASSUME TypeOK
  PROVE  /\ Count(input, Requests) \in Nat /\ Count(input, {"query"}) \in Nat
         /\ \A m \in InputMsgs : input' = Append(input, m) =>
              /\ Count(input', Requests) = IF m.op \in Requests THEN Count(input, Requests) + 1
                                                                ELSE Count(input, Requests)
              /\ Count(input', {"query"}) = IF m.op = "query" THEN Count(input, {"query"}) + 1
                                                              ELSE Count(input, {"query"})
         /\ \A ops : Take(ops) =>
              /\ Count(input', Requests) \in Nat /\ Count(input', {"query"}) \in Nat
              /\ Count(input, Requests) = IF Head(input).op \in Requests THEN Count(input', Requests) + 1
                                                                         ELSE Count(input', Requests)
              /\ Count(input, {"query"}) = IF Head(input).op = "query" THEN Count(input', {"query"}) + 1
                                                                       ELSE Count(input', {"query"})
<1>1. input \in Seq(InputMsgs)
  BY DEF TypeOK, InputMsgs
<1>2. ASSUME NEW m \in InputMsgs, NEW ops
      PROVE  Count(Append(input, m), ops) = IF m.op \in ops THEN Count(input, ops) + 1
                                                            ELSE Count(input, ops)
  BY <1>1, CountAppend
<1>3. ASSUME input # <<>>, NEW ops
      PROVE  /\ Count(input, ops) = IF Head(input).op \in ops THEN Count(Tail(input), ops) + 1
                                                              ELSE Count(Tail(input), ops)
             /\ Count(Tail(input), ops) \in Nat
  <2>1. Tail(input) \in Seq(InputMsgs)
    BY <1>1, <1>3, ReceiveProperties
  <2>2. Count(Tail(input), ops) \in Nat
    BY <2>1, PositionsFinite
  <2>3. QED
    BY <1>1, <1>3, <2>2, CountTail
<1>4. Count(input, Requests) \in Nat /\ Count(input, {"query"}) \in Nat
  BY <1>1, PositionsFinite
<1>5. ASSUME NEW m \in InputMsgs, input' = Append(input, m)
      PROVE  /\ Count(input', Requests) = IF m.op \in Requests THEN Count(input, Requests) + 1
                                                               ELSE Count(input, Requests)
             /\ Count(input', {"query"}) = IF m.op = "query" THEN Count(input, {"query"}) + 1
                                                             ELSE Count(input, {"query"})
  <2>1. m.op \in {"query"} <=> m.op = "query"
    OBVIOUS
  <2>2. QED
    BY <1>2, <1>5, <2>1
<1>6. ASSUME input # <<>>, input' = Tail(input)
      PROVE  /\ Count(input', Requests) \in Nat /\ Count(input', {"query"}) \in Nat
             /\ Count(input, Requests) = IF Head(input).op \in Requests THEN Count(input', Requests) + 1
                                                                        ELSE Count(input', Requests)
             /\ Count(input, {"query"}) = IF Head(input).op = "query" THEN Count(input', {"query"}) + 1
                                                                      ELSE Count(input', {"query"})
  <2>1. Head(input).op \in {"query"} <=> Head(input).op = "query"
    OBVIOUS
  <2>2. QED
    BY <1>3, <1>6, <2>1
<1>7. QED
  BY <1>4, <1>5, <1>6 DEF Take

TypeInv == TypeOK /\ CountInv

LEMMA TypeInit == Init => TypeInv
<1> SUFFICES ASSUME Init PROVE TypeInv
  OBVIOUS
<1>1. TypeOK
  <2>1. /\ watching \in BOOLEAN /\ isPaused \in BOOLEAN /\ late \in BOOLEAN
        /\ attached \in BOOLEAN /\ halted \in BOOLEAN /\ bps \in BOOLEAN
    BY Zenon DEF Init
  <2>2. QED
    BY <2>1, MsgShape DEF Init, TypeOK
<1>2. Count(<<>>, Requests) = 0 /\ Count(<<>>, {"query"}) = 0
  BY FS_EmptySet DEF Count, Positions
<1>3. CountInv
  BY <1>2 DEF Init, CountInv
<1>4. QED
  BY <1>1, <1>3 DEF TypeInv

\* A step of the client or of a feeding thread.
LEMMA TypeFeed ==
  ASSUME TypeInv, (\E op \in Requests : ClientRequest(op)) \/ ClientDrop
                    \/ ForwardEvent \/ EventThreadEnds
  PROVE  TypeInv'
<1> USE DEF clientVars, handlerVars, engineVars
<1>0. TypeOK /\ CountInv /\ input \in Seq(InputMsgs) /\ MaxRequests \in Nat
  BY DapAssumption DEF DapAssumption, TypeInv, TypeOK, InputMsgs
<1>1. ASSUME NEW op \in Requests, ClientRequest(op) PROVE TypeInv'
  <2>1. Msg(op, 0) \in InputMsgs /\ Msg(op, 0).op = op
    BY MsgShape DEF InputMsgs
  <2>2. input' = Append(input, Msg(op, 0)) /\ input' \in Seq(InputMsgs)
    BY <1>0, <1>1, <2>1, SendProperties DEF ClientRequest
  <2>3. CountInv' /\ open' \in Numbers /\ sent' \in Numbers
    <3>1. /\ Count(input', Requests) = Count(input, Requests) + 1
          /\ Count(input', {"query"}) \in {Count(input, {"query"}), Count(input, {"query"}) + 1}
          /\ Count(input, Requests) \in Nat /\ Count(input, {"query"}) \in Nat
      BY <1>0, <2>1, <2>2, CountInput
    <3>2. /\ sent < MaxRequests /\ sent' = sent + 1 /\ open' = open + 1
          /\ UNCHANGED <<handler, asked>>
      BY <1>1 DEF ClientRequest
    <3>3. sent \in Nat /\ open \in Nat /\ asked \in Nat
      BY <1>0 DEF TypeOK, Numbers
    <3>4. QED
      BY <1>0, <3>1, <3>2, <3>3 DEF CountInv, Numbers
  <2>4. TypeOK'
    BY <1>0, <1>1, <2>2, <2>3 DEF ClientRequest, TypeOK, InputMsgs
  <2>5. QED
    BY <2>3, <2>4 DEF TypeInv
<1>2. ASSUME NEW m \in InputMsgs, m.op \notin Requests, m.op # "query",
             input' = Append(input, m),
             UNCHANGED <<sent, open, handler, asked>>
      PROVE  input' \in Seq(InputMsgs) /\ CountInv'
  BY <1>0, <1>2, CountInput, SendProperties DEF CountInv
<1>3. CASE ClientDrop
  <2>1. Msg("DapDisconnected", 0) \in InputMsgs /\ Msg("DapDisconnected", 0).op = "DapDisconnected"
    BY MsgShape DEF InputMsgs, Closings
  <2>2. input' \in Seq(InputMsgs) /\ CountInv'
    BY <1>2, <1>3, <2>1 DEF ClientDrop, Requests
  <2>3. TypeOK'
    BY <1>0, <1>3, <2>2 DEF ClientDrop, TypeOK, InputMsgs
  <2>4. QED
    BY <2>2, <2>3 DEF TypeInv
<1>4. CASE ForwardEvent
  <2>1. evq \in Seq(EventMsgs) /\ evq # <<>>
    BY <1>0, <1>4 DEF ForwardEvent, TypeOK, EventMsgs
  <2>2. Head(evq) \in EventMsgs /\ Tail(evq) \in Seq(EventMsgs)
    BY <2>1, ReceiveProperties
  <2>3. Head(evq) \in InputMsgs /\ Head(evq).op \notin Requests /\ Head(evq).op # "query"
    BY <2>2, MsgShape DEF EventMsgs, Events, Requests
  <2>4. input' \in Seq(InputMsgs) /\ CountInv'
    BY <1>2, <1>4, <2>3 DEF ForwardEvent
  <2>5. TypeOK'
    BY <1>0, <1>4, <2>2, <2>4 DEF ForwardEvent, TypeOK, InputMsgs, EventMsgs
  <2>6. QED
    BY <2>4, <2>5 DEF TypeInv
<1>5. CASE EventThreadEnds
  <2>1. /\ Msg("EngineDisconnected", 0) \in InputMsgs
        /\ Msg("EngineDisconnected", 0).op = "EngineDisconnected"
    BY MsgShape DEF InputMsgs, Closings
  <2>2. input' \in Seq(InputMsgs) /\ CountInv'
    BY <1>2, <1>5, <2>1 DEF EventThreadEnds, Requests
  <2>3. watching' \in BOOLEAN
    BY <1>5, Zenon DEF EventThreadEnds
  <2>4. TypeOK'
    BY <1>0, <1>5, <2>2, <2>3 DEF EventThreadEnds, TypeOK, InputMsgs
  <2>5. QED
    BY <2>2, <2>4 DEF TypeInv
<1>6. QED
  BY <1>1, <1>3, <1>4, <1>5

\* The room a message taken from the input channel leaves for the counters.
LEMMA CountTake ==
  ASSUME TypeInv, NEW ops, Take(ops)
  PROVE  /\ Count(input', Requests) \in Nat /\ Count(input', {"query"}) \in Nat
         /\ sent \in Nat /\ open \in Nat /\ asked \in Nat /\ MaxRequests \in Nat
         /\ sent <= MaxRequests /\ open <= sent
         /\ Count(input', Requests) + (IF handler = "wait" THEN 1 ELSE 0)
              + (IF Head(input).op \in Requests THEN 1 ELSE 0) <= open
         /\ asked + Count(input', {"query"})
              + (IF Head(input).op = "query" THEN 1 ELSE 0) <= sent
<1>1. /\ Count(input', Requests) \in Nat /\ Count(input', {"query"}) \in Nat
      /\ Count(input, Requests) = IF Head(input).op \in Requests THEN Count(input', Requests) + 1
                                                                 ELSE Count(input', Requests)
      /\ Count(input, {"query"}) = IF Head(input).op = "query" THEN Count(input', {"query"}) + 1
                                                               ELSE Count(input', {"query"})
  BY CountInput DEF TypeInv
<1>2. /\ sent \in Nat /\ open \in Nat /\ asked \in Nat /\ MaxRequests \in Nat
      /\ sent <= MaxRequests /\ open <= sent
  BY DapAssumption DEF DapAssumption, TypeInv, TypeOK, CountInv, Numbers
<1>3. /\ Count(input, Requests) + (IF handler = "wait" THEN 1 ELSE 0) <= open
      /\ asked + Count(input, {"query"}) <= sent
  BY DEF TypeInv, CountInv
<1>4. QED
  BY <1>1, <1>2, <1>3

\* A step of the main loop or of a wait.
LEMMA TypeHandler ==
  ASSUME TypeInv, Handler
  PROVE  TypeInv'
<1> USE DEF clientVars, handlerVars, engineVars
<1>0. TypeOK /\ CountInv /\ MaxRequests \in Nat
  BY DapAssumption DEF DapAssumption, TypeInv
<1>1. CASE HandleGo
  <2>1. /\ Take({"continue", "step"}) /\ handler = "recv" /\ open' = open - 1
        /\ UNCHANGED <<sent, asked, handler>>
    BY <1>1 DEF HandleGo, Respond
  <2>2. input' \in Seq(InputMsgs) /\ Head(input).op \in {"continue", "step"}
    BY <1>0, <2>1, TakeInput
  <2>3. CountInv' /\ open' \in Numbers
    BY <2>1, <2>2, CountTake DEF CountInv, Numbers, Requests
  <2>4. cmdq' \in Seq(CommandMsgs)
    BY <1>0, <1>1, SendToOne, MsgShape DEF HandleGo, DebugCommands, TypeOK, CommandMsgs
  <2>5. isPaused' \in BOOLEAN
    BY <1>1, Zenon DEF HandleGo
  <2>6. TypeOK'
    BY <1>0, <1>1, <2>2, <2>3, <2>4, <2>5 DEF HandleGo, TypeOK, InputMsgs, CommandMsgs
  <2>7. QED
    BY <2>3, <2>6 DEF TypeInv
<1>2. CASE HandleForward
  <2>1. /\ Take({"pause", "setBreakpoints", "plain"}) /\ handler = "recv" /\ open' = open - 1
        /\ UNCHANGED <<sent, asked, handler>>
    BY <1>2 DEF HandleForward, Respond
  <2>2. input' \in Seq(InputMsgs) /\ Head(input).op \in {"pause", "setBreakpoints", "plain"}
    BY <1>0, <2>1, TakeInput
  <2>3. CountInv' /\ open' \in Numbers
    BY <2>1, <2>2, CountTake DEF CountInv, Numbers, Requests
  <2>4. cmdq' \in Seq(CommandMsgs)
    <3>1. \/ SendTo(<<Msg("Pause", 0)>>)
          \/ SendTo(<<Msg("SetBreakpoints", 0)>>)
          \/ UNCHANGED cmdq
      BY <1>2, <2>2 DEF HandleForward
    <3>2. QED
      BY <1>0, <3>1, SendToOne, MsgShape DEF DebugCommands, TypeOK, CommandMsgs
  <2>5. TypeOK'
    BY <1>0, <1>2, <2>2, <2>3, <2>4 DEF HandleForward, TypeOK, InputMsgs, CommandMsgs
  <2>6. QED
    BY <2>3, <2>5 DEF TypeInv
<1>3. CASE HandleQuery
  <2>1. Take({"query"}) /\ handler = "recv" /\ UNCHANGED sent
    BY <1>3 DEF HandleQuery
  <2>2. input' \in Seq(InputMsgs) /\ Head(input).op = "query" /\ "query" \in Requests
    BY <1>0, <2>1, TakeInput DEF Requests
  <2>3. CASE isPaused
    <3>1. asked' = asked + 1 /\ handler' = "wait" /\ UNCHANGED open
      BY <1>3, <2>3 DEF HandleQuery
    <3>2. CountInv' /\ asked + 1 \in Numbers
      BY <2>1, <2>2, <3>1, CountTake DEF CountInv, Numbers
    <3>3. cmdq' \in Seq(CommandMsgs)
      BY <1>0, <1>3, <2>3, <3>2, SendToOne DEF HandleQuery, DebugCommands
    <3>4. TypeOK'
      BY <1>0, <1>3, <2>2, <3>1, <3>2, <3>3 DEF HandleQuery, TypeOK, InputMsgs, CommandMsgs
    <3>5. QED
      BY <3>2, <3>4 DEF TypeInv
  <2>4. CASE ~isPaused
    <3>1. UNCHANGED <<asked, handler, cmdq>> /\ open' = open - 1
      BY <1>3, <2>4 DEF HandleQuery, Respond
    <3>2. CountInv' /\ open' \in Numbers
      BY <2>1, <2>2, <3>1, CountTake DEF CountInv, Numbers
    <3>3. TypeOK'
      BY <1>0, <1>3, <2>2, <3>1, <3>2 DEF HandleQuery, TypeOK, InputMsgs
    <3>4. QED
      BY <3>2, <3>3 DEF TypeInv
  <2>5. QED
    BY <2>3, <2>4
<1>4. CASE HandleDisconnect
  <2>1. /\ Take({"disconnect"}) /\ handler = "recv" /\ open' = open - 1
        /\ UNCHANGED <<sent, asked>>
    BY <1>4 DEF HandleDisconnect, Respond
  <2>2. input' \in Seq(InputMsgs) /\ Head(input).op = "disconnect"
    BY <1>0, <2>1, TakeInput
  <2>3. cmdq' \in Seq(CommandMsgs) /\ handler' = "ended"
    BY <1>0, <1>4, EndType DEF HandleDisconnect
  <2>4. CountInv' /\ open' \in Numbers
    BY <2>1, <2>2, <2>3, CountTake DEF CountInv, Numbers, Requests
  <2>5. TypeOK'
    BY <1>0, <1>4, <2>2, <2>3, <2>4 DEF HandleDisconnect, TypeOK, InputMsgs, CommandMsgs
  <2>6. QED
    BY <2>4, <2>5 DEF TypeInv
<1>5. CASE HandleClosing
  <2>1. cmdq' \in Seq(CommandMsgs) /\ handler' = "ended"
    BY <1>0, <1>5, EndType DEF HandleClosing
  <2>2. handler = "recv" /\ UNCHANGED <<sent, asked, open>>
    BY <1>5 DEF HandleClosing
  <2>3. CASE Take(Closings)
    <3>1. input' \in Seq(InputMsgs) /\ Head(input).op \in Closings
      BY <1>0, <2>3, TakeInput
    <3>2. CountInv'
      BY <2>1, <2>2, <2>3, <3>1, CountTake DEF CountInv, Numbers, Requests, Closings
    <3>3. TypeOK'
      BY <1>0, <1>5, <2>1, <3>1 DEF HandleClosing, TypeOK, InputMsgs, CommandMsgs
    <3>4. QED
      BY <3>2, <3>3 DEF TypeInv
  <2>4. CASE UNCHANGED input
    <3>1. CountInv'
      BY <1>0, <2>1, <2>2, <2>4, CountInput DEF CountInv, TypeOK, Numbers
    <3>2. TypeOK'
      BY <1>0, <1>5, <2>1, <2>4 DEF HandleClosing, TypeOK, CommandMsgs
    <3>3. QED
      BY <3>1, <3>2 DEF TypeInv
  <2>5. QED
    BY <1>5, <2>3, <2>4 DEF HandleClosing
<1>6. ASSUME NEW op, EngineEvent(op) PROVE isPaused' \in BOOLEAN
  <2>1. isPaused \in BOOLEAN
    BY <1>0 DEF TypeOK
  <2>2. isPaused' = TRUE \/ isPaused' = FALSE \/ isPaused' = isPaused
    BY <1>6 DEF EngineEvent
  <2>3. QED
    BY <2>1, <2>2, Zenon
<1>7. CASE HandleEvent \/ WaitEvent
  <2>1. Take(Events) /\ UNCHANGED <<sent, asked, open, handler>>
    BY <1>7 DEF HandleEvent, WaitEvent, Take
  <2>2. input' \in Seq(InputMsgs) /\ Head(input).op \in Events
    BY <1>0, <2>1, TakeInput
  <2>3. CountInv'
    BY <2>1, <2>2, CountTake DEF CountInv, Numbers, Requests, Events
  <2>4. isPaused' \in BOOLEAN
    BY <1>6, <1>7 DEF HandleEvent, WaitEvent
  <2>5. TypeOK'
    BY <1>0, <1>7, <2>2, <2>4 DEF HandleEvent, WaitEvent, TypeOK, InputMsgs
  <2>6. QED
    BY <2>3, <2>5 DEF TypeInv
<1>8. CASE WaitAnswer
  <2>1. /\ Take({"Answer"}) /\ handler = "wait" /\ handler' = "recv" /\ open' = open - 1
        /\ UNCHANGED <<sent, asked>>
    BY <1>8 DEF WaitAnswer, Respond
  <2>2. input' \in Seq(InputMsgs) /\ Head(input).op = "Answer" /\ Head(input) \in InputMsgs
    BY <1>0, <2>1, TakeInput
  <2>3. CountInv' /\ open' \in Numbers
    BY <2>1, <2>2, CountTake DEF CountInv, Numbers, Requests
  <2>4. answer' \in Numbers
    BY <1>8, <2>2 DEF WaitAnswer, InputMsgs
  <2>5. TypeOK'
    BY <1>0, <1>8, <2>2, <2>3, <2>4 DEF WaitAnswer, TypeOK, InputMsgs
  <2>6. QED
    BY <2>3, <2>5 DEF TypeInv
<1>9. CASE WaitRequest
  <2>1. Take(Requests) /\ UNCHANGED <<sent, asked, open, handler>>
    BY <1>9 DEF WaitRequest
  <2>2. input' \in Seq(InputMsgs) /\ Head(input).op \in Requests
    BY <1>0, <2>1, TakeInput
  <2>3. CountInv'
    BY <2>1, <2>2, CountTake DEF CountInv, Numbers
  <2>4. TypeOK'
    BY <1>0, <1>9, <2>2 DEF WaitRequest, TypeOK, InputMsgs
  <2>5. QED
    BY <2>3, <2>4 DEF TypeInv
<1>10. CASE WaitClosing
  <2>1. /\ Take(Closings) /\ handler = "wait" /\ handler' = "recv" /\ open' = open - 1
        /\ UNCHANGED <<sent, asked>>
    BY <1>10 DEF WaitClosing, Respond
  <2>2. input' \in Seq(InputMsgs) /\ Head(input).op \in Closings
    BY <1>0, <2>1, TakeInput
  <2>3. CountInv' /\ open' \in Numbers
    BY <2>1, <2>2, CountTake DEF CountInv, Numbers, Requests, Closings
  <2>4. TypeOK'
    BY <1>0, <1>10, <2>2, <2>3 DEF WaitClosing, TypeOK, InputMsgs
  <2>5. QED
    BY <2>3, <2>4 DEF TypeInv
<1>11. CASE WaitTimeout
  <2>1. /\ handler = "wait" /\ handler' = "recv" /\ open' = open - 1
        /\ UNCHANGED <<sent, asked, input>>
    BY <1>11 DEF WaitTimeout, Respond
  <2>2. CountInv' /\ open' \in Numbers
    BY <1>0, <2>1, CountInput DEF CountInv, TypeOK, Numbers
  <2>3. late' \in BOOLEAN
    BY <1>11, Zenon DEF WaitTimeout
  <2>4. TypeOK'
    BY <1>0, <1>11, <2>2, <2>3 DEF WaitTimeout, TypeOK
  <2>5. QED
    BY <2>2, <2>4 DEF TypeInv
<1>12. QED
  BY <1>1, <1>2, <1>3, <1>4, <1>5, <1>7, <1>8, <1>9, <1>10, <1>11 DEF Handler

EngineSteps == Engine \/ EngineHalts \/ EngineStops \/ PausedSwap

\* What a step of the engine leaves alone, and what it may send.
LEMMA EngineShape ==
  ASSUME TypeOK, EngineSteps
  PROVE  /\ UNCHANGED <<clientVars, open, input, watching, handlerVars>>
         /\ cmdq' \in Seq(CommandMsgs)
         /\ \/ UNCHANGED evq
            \/ \E op \in Events, q \in Numbers : evq' = Append(evq, Msg(op, q))
<1>1. cmdq \in Seq(CommandMsgs) /\ <<>> \in Seq(CommandMsgs) /\ 0 \in Numbers
  BY MsgShape DEF TypeOK, CommandMsgs
<1>2. CASE DrainCommand
  BY <1>2, ReadCommand DEF DrainCommand, Read
<1>3. CASE DrainDisconnect
  BY <1>1, <1>3 DEF DrainDisconnect, DropSession, Events
<1>4. CASE EngineHalts
  BY <1>1, <1>4 DEF EngineHalts, Events
<1>5. CASE PausedResume
  <2>1. cmdq' \in Seq(CommandMsgs)
    BY <1>5, ReadCommand DEF PausedResume, Read
  <2>2. UNCHANGED evq \/ evq' = Append(evq, Msg("Resumed", 0))
    BY <1>5 DEF PausedResume
  <2>3. QED
    BY <1>1, <1>5, <2>1, <2>2 DEF PausedResume, Events
<1>6. CASE PausedServe
  <2>1. cmdq' \in Seq(CommandMsgs) /\ Head(cmdq).query \in Numbers
    BY <1>6, ReadCommand DEF PausedServe, Read
  <2>2. UNCHANGED evq \/ evq' = Append(evq, Msg("Answer", Head(cmdq).query))
    BY <1>6 DEF PausedServe
  <2>3. QED
    BY <1>6, <2>1, <2>2 DEF PausedServe, Events
<1>7. CASE PausedDetach
  BY <1>1, <1>7 DEF PausedDetach, DropSession
<1>8. CASE PausedSwap
  BY <1>1, <1>8 DEF PausedSwap, DropSession, Events
<1>9. CASE EngineStops
  BY <1>1, <1>9 DEF EngineStops, DropSession
<1>10. QED
  BY <1>2, <1>3, <1>4, <1>5, <1>6, <1>7, <1>8, <1>9 DEF EngineSteps, Engine

\* A step of the engine.
LEMMA TypeEngine ==
  ASSUME TypeInv, EngineSteps
  PROVE  TypeInv'
<1> USE DEF clientVars, handlerVars, engineVars
<1>0. TypeOK /\ CountInv
  BY DEF TypeInv
<1>1. /\ UNCHANGED <<clientVars, open, input, watching, handlerVars>>
      /\ cmdq' \in Seq(CommandMsgs)
  BY <1>0, EngineShape
<1>2. evq' \in Seq(EventMsgs)
  <2>1. evq \in Seq(EventMsgs)
    BY <1>0 DEF TypeOK, EventMsgs
  <2>2. ASSUME NEW op \in Events, NEW q \in Numbers, evq' = Append(evq, Msg(op, q))
        PROVE  evq' \in Seq(EventMsgs)
    BY <2>1, <2>2, MsgShape, SendProperties DEF EventMsgs
  <2>3. QED
    BY <1>0, <2>1, <2>2, EngineShape
<1>3. mode' \in {"Continue", "Step", "Paused"}
  <2>1. CASE DrainCommand
    BY <1>0, <2>1 DEF DrainCommand, TypeOK
  <2>2. CASE PausedResume
    BY <1>0, <2>2, ReadCommand DEF PausedResume, Read
  <2>3. CASE mode' = "Continue" \/ mode' = "Paused" \/ UNCHANGED mode
    BY <1>0, <2>3 DEF TypeOK
  <2>4. QED
    BY <2>1, <2>2, <2>3 DEF EngineSteps, Engine, DrainDisconnect, PausedDetach, PausedServe, PausedSwap,
       EngineStops, EngineHalts, DropSession
<1>4. attached' \in BOOLEAN /\ halted' \in BOOLEAN /\ bps' \in BOOLEAN
  <2>1. attached \in BOOLEAN /\ halted \in BOOLEAN /\ bps \in BOOLEAN
    BY <1>0 DEF TypeOK
  <2>2. CASE DrainCommand
    BY <2>1, <2>2, Zenon DEF DrainCommand, SetBreakpoints
  <2>3. CASE DropSession
    BY <2>3, Zenon DEF DropSession
  <2>4. CASE EngineHalts
    BY <2>1, <2>4, Zenon DEF EngineHalts
  <2>5. CASE PausedResume
    BY <2>1, <2>5, Zenon DEF PausedResume
  <2>6. CASE PausedServe
    BY <2>1, <2>6, Zenon DEF PausedServe, SetBreakpoints
  <2>7. QED
    BY <2>2, <2>3, <2>4, <2>5, <2>6 DEF EngineSteps, Engine, DrainDisconnect, PausedDetach, PausedSwap,
       EngineStops
<1>5. TypeOK'
  BY <1>0, <1>1, <1>2, <1>3, <1>4 DEF TypeOK, EventMsgs, CommandMsgs
<1>6. CountInv'
  BY <1>0, <1>1 DEF CountInv
<1>7. QED
  BY <1>5, <1>6 DEF TypeInv

LEMMA TypeNext == TypeInv /\ [Next]_vars => TypeInv'
<1> SUFFICES ASSUME TypeInv, [Next]_vars PROVE TypeInv'
  OBVIOUS
<1>1. CASE UNCHANGED vars
  BY <1>1 DEF vars, clientVars, handlerVars, engineVars, TypeInv, TypeOK, CountInv
<1>2. QED
  BY <1>1, TypeFeed, TypeHandler, TypeEngine DEF Next, EngineSteps

-----------------------------------------------------------------------------
(* The handler and the engine agree *)

\* Where the three channels are after each kind of step, in the terms of
\* the lemmas on channels.
LEMMA Channels ==
  ASSUME TypeOK
  PROVE  /\ input \in Seq(InputMsgs) /\ cmdq \in Seq(CommandMsgs) /\ evq \in Seq(EventMsgs)
         /\ \A m \in EventMsgs : m.op \in Events
         /\ \A m \in CommandMsgs : m.op \in DebugCommands
  BY DEF TypeOK, InputMsgs, CommandMsgs, EventMsgs

\* An event moved from the event channel to the input channel is still in
\* flight, behind what was in flight before.
LEMMA Forwarded ==
  ASSUME TypeOK, ForwardEvent, NEW ops
  PROVE  /\ Without(input, ops) /\ Without(evq, ops) => Without(input', ops) /\ Without(evq', ops)
         /\ \A all : Without(input, ops) /\ EndsWith(evq, ops, all)
               => \/ EndsWith(input', ops, all) /\ Without(evq', all)
                  \/ Without(input', ops) /\ EndsWith(evq', ops, all)
         /\ \A all : EndsWith(input, ops, all) /\ Without(evq, all)
               => EndsWith(input', ops, all) /\ Without(evq', all)
<1>1. /\ input \in Seq(InputMsgs) /\ evq \in Seq(EventMsgs) /\ evq # <<>>
      /\ input' = Append(input, Head(evq)) /\ evq' = Tail(evq)
      /\ Head(evq) \in EventMsgs /\ Head(evq) \in InputMsgs
  BY Channels, ReceiveProperties, MsgShape DEF ForwardEvent
<1>2. ASSUME NEW kinds
      PROVE  /\ Without(input', kinds) <=> Without(input, kinds) /\ Head(evq).op \notin kinds
             /\ Without(evq, kinds) <=> Head(evq).op \notin kinds /\ Without(evq', kinds)
  BY <1>1, WithoutAppend, WithoutTail
<1>3. ASSUME NEW all
      PROVE  /\ EndsWith(input, ops, all) /\ Head(evq).op \notin all => EndsWith(input', ops, all)
             /\ Without(input, ops) /\ Head(evq).op \in ops => EndsWith(input', ops, all)
             /\ EndsWith(evq, ops, all) /\ Head(evq).op \in ops => Without(evq', all)
             /\ EndsWith(evq, ops, all) /\ Head(evq).op \notin ops => EndsWith(evq', ops, all)
  BY <1>1, EndsWithAppend, EndsWithTail
<1>4. QED
  BY <1>2, <1>3

\* What is left in the input channel once a message is taken.
LEMMA Taken ==
  ASSUME TypeOK, NEW kinds, Take(kinds), NEW ops
  PROVE  /\ Head(input).op \in kinds
         /\ Without(input, ops) <=> Head(input).op \notin ops /\ Without(input', ops)
         /\ \A all : EndsWith(input, ops, all) =>
              /\ Head(input).op \in ops => Without(input', all)
              /\ Head(input).op \notin ops => EndsWith(input', ops, all)
<1>1. /\ input \in Seq(InputMsgs) /\ input # <<>> /\ input' = Tail(input)
      /\ Head(input).op \in kinds
  BY TakeInput
<1>2. QED
  BY <1>1, WithoutTail, EndsWithTail

\* What is left in the command channel once the engine read a command.
LEMMA WasRead ==
  ASSUME TypeOK, NEW kinds, Read(kinds), NEW ops
  PROVE  /\ Head(cmdq).op \in kinds
         /\ Without(cmdq, ops) <=> Head(cmdq).op \notin ops /\ Without(cmdq', ops)
         /\ \A all : EndsWith(cmdq, ops, all) =>
              /\ Head(cmdq).op \in ops => Without(cmdq', all)
              /\ Head(cmdq).op \notin ops => EndsWith(cmdq', ops, all)
<1>1. /\ cmdq \in Seq(CommandMsgs) /\ cmdq # <<>> /\ cmdq' = Tail(cmdq)
      /\ Head(cmdq).op \in kinds
  BY ReadCommand DEF Read
<1>2. QED
  BY <1>1, WithoutTail, EndsWithTail

\* What a command sent while attached adds to the command channel.
LEMMA Sent ==
  ASSUME TypeOK, attached, NEW op \in DebugCommands, NEW q \in Numbers,
         SendTo(<<Msg(op, q)>>), NEW ops
  PROVE  /\ Without(cmdq', ops) <=> Without(cmdq, ops) /\ op \notin ops
         /\ \A all : EndsWith(cmdq, ops, all) /\ op \notin all => EndsWith(cmdq', ops, all)
         /\ \A all : Without(cmdq, ops) /\ op \in ops => EndsWith(cmdq', ops, all)
<1>1. /\ cmdq \in Seq(CommandMsgs) /\ Msg(op, q) \in CommandMsgs /\ Msg(op, q).op = op
      /\ cmdq' = Append(cmdq, Msg(op, q))
  BY Channels, SendToOne, MsgShape
<1>2. QED
  BY <1>1, WithoutAppend, EndsWithAppend

\* What an event the engine sends adds to the event channel.
LEMMA Emitted ==
  ASSUME TypeOK, NEW op \in Events, NEW q \in Numbers,
         evq' = Append(evq, Msg(op, q)), NEW ops
  PROVE  /\ Without(evq', ops) <=> Without(evq, ops) /\ op \notin ops
         /\ \A all : EndsWith(evq, ops, all) /\ op \notin all => EndsWith(evq', ops, all)
         /\ \A all : Without(evq, ops) /\ op \in ops => EndsWith(evq', ops, all)
<1>1. evq \in Seq(EventMsgs) /\ Msg(op, q) \in EventMsgs /\ Msg(op, q).op = op
  BY Channels, MsgShape DEF EventMsgs
<1>2. QED
  BY <1>1, WithoutAppend, EndsWithAppend

\* The reader thread's messages are no events.
LEMMA Fed ==
  ASSUME TypeOK, NEW op \in Requests \cup Closings, input' = Append(input, Msg(op, 0)), NEW ops
  PROVE  /\ Without(input', ops) <=> Without(input, ops) /\ op \notin ops
         /\ \A all : EndsWith(input, ops, all) /\ op \notin all => EndsWith(input', ops, all)
<1>1. input \in Seq(InputMsgs) /\ Msg(op, 0) \in InputMsgs /\ Msg(op, 0).op = op
  BY Channels, MsgShape DEF InputMsgs
<1>2. QED
  BY <1>1, WithoutAppend, EndsWithAppend

\* A channel without the kinds all is without some of them.
LEMMA WithoutFewer ==
  ASSUME NEW s, NEW ops, NEW all, ops \subseteq all, Without(s, all)
  PROVE  Without(s, ops)
  BY DEF Without

LEMMA SyncFeed ==
  ASSUME TypeOK, SyncInv, attached, handler # "ended",
         (\E op \in Requests : ClientRequest(op)) \/ ClientDrop \/ ForwardEvent \/ EventThreadEnds
  PROVE  SyncInv'
<1> USE DEF clientVars, handlerVars, engineVars
<1>1. ASSUME NEW op \in Requests \cup Closings, input' = Append(input, Msg(op, 0)),
             UNCHANGED <<evq, cmdq, handler, isPaused, attached, halted>>
      PROVE  SyncInv'
  <2>1. op \notin {"Stopped"} /\ op \notin Signals /\ op \notin {"Detached"}
    BY DEF Requests, Closings, Signals
  <2>2. /\ Without(input, {"Stopped"}) => Without(input', {"Stopped"})
        /\ Without(input, {"Detached"}) => Without(input', {"Detached"})
        /\ Without(input, Signals) => Without(input', Signals)
        /\ EndsWith(input, {"Stopped"}, Signals) => EndsWith(input', {"Stopped"}, Signals)
    BY <1>1, <2>1, Fed
  <2>3. QED
    BY <1>1, <2>2 DEF SyncInv, EngineRuns, HaltUntold, HaltKnown, HaltEnding, StopUnderWay
<1>2. CASE ForwardEvent
  <2>1. /\ Without(input, {"Stopped"}) /\ Without(evq, {"Stopped"})
             => Without(input', {"Stopped"}) /\ Without(evq', {"Stopped"})
        /\ Without(input, {"Detached"}) /\ Without(evq, {"Detached"})
             => Without(input', {"Detached"}) /\ Without(evq', {"Detached"})
        /\ Without(input, Signals) /\ Without(evq, Signals)
             => Without(input', Signals) /\ Without(evq', Signals)
        /\ StopUnderWay => StopUnderWay'
    BY <1>2, Forwarded DEF StopUnderWay
  <2>2. UNCHANGED <<cmdq, handler, isPaused, attached, halted>>
    BY <1>2 DEF ForwardEvent
  <2>3. QED
    BY <2>1, <2>2 DEF SyncInv, EngineRuns, HaltUntold, HaltKnown, HaltEnding
<1>3. ASSUME NEW op \in Requests, ClientRequest(op) PROVE SyncInv'
  BY <1>1, <1>3 DEF ClientRequest
<1>4. CASE ClientDrop
  BY <1>1, <1>4 DEF ClientDrop, Closings
<1>5. CASE EventThreadEnds
  BY <1>5 DEF EventThreadEnds
<1>6. QED
  BY <1>2, <1>3, <1>4, <1>5

LEMMA SyncHandler ==
  ASSUME TypeInv, SyncInv, attached, handler # "ended", Handler
  PROVE  SyncInv'
<1> USE DEF clientVars, handlerVars, engineVars
<1> TypeOK
  BY DEF TypeInv
<1> DEFINE Same(ops) == Without(input, ops) => Without(input', ops)
<1>0. 0 \in Numbers
  BY MsgShape
<1>1. ASSUME NEW kinds, Take(kinds)
      PROVE  /\ Same({"Stopped"}) /\ Same({"Detached"}) /\ Same(Signals)
             /\ Head(input).op # "Stopped" /\ EndsWith(input, {"Stopped"}, Signals)
                  => EndsWith(input', {"Stopped"}, Signals)
  BY <1>1, Taken
<1>2. ASSUME NEW kinds, Take(kinds), "Stopped" \notin kinds,
             UNCHANGED <<evq, halted, attached>>, isPaused' <=> isPaused,
             Without(cmdq, Gos) => Without(cmdq', Gos),
             EndsWith(cmdq, Gos, Gos) => EndsWith(cmdq', Gos, Gos)
      PROVE  SyncInv'
  <2>1. Head(input).op # "Stopped"
    BY <1>2, Taken
  <2>2. QED
    BY <1>1, <1>2, <2>1 DEF SyncInv, EngineRuns, HaltUntold, HaltKnown, HaltEnding, StopUnderWay
<1>3. CASE HandleGo
  <2>1. Take({"continue", "step"}) /\ ~isPaused' /\ UNCHANGED <<evq, halted, attached>>
    BY <1>3 DEF HandleGo
  <2>2. CASE isPaused
    <3>1. HaltKnown
      BY <2>2 DEF SyncInv, EngineRuns, HaltUntold, HaltKnown, HaltEnding
    <3>2. PICK op \in Gos : SendTo(<<Msg(op, 0)>>)
      BY <1>3, <2>2 DEF HandleGo, Gos
    <3>3. op \in DebugCommands
      BY DEF Gos, DebugCommands
    <3>4. EndsWith(cmdq', Gos, Gos)
      BY <1>0, <3>1, <3>2, <3>3, Sent DEF HaltKnown
    <3>5. HaltEnding'
      BY <1>1, <2>1, <3>1, <3>4 DEF HaltKnown, HaltEnding
    <3>6. QED
      BY <1>1, <2>1, <3>5 DEF SyncInv
  <2>3. CASE ~isPaused
    <3>1. UNCHANGED cmdq
      BY <1>3, <2>3 DEF HandleGo
    <3>2. QED
      BY <1>2, <2>1, <2>3, <3>1
  <2>4. QED
    BY <2>2, <2>3
<1>4. ASSUME NEW op \in DebugCommands, NEW q \in Numbers, SendTo(<<Msg(op, q)>>), op \notin Gos
      PROVE  /\ Without(cmdq, Gos) => Without(cmdq', Gos)
             /\ EndsWith(cmdq, Gos, Gos) => EndsWith(cmdq', Gos, Gos)
  BY <1>4, Sent
<1>5. CASE HandleForward
  <2>1. Take({"pause", "setBreakpoints", "plain"}) /\ UNCHANGED <<evq, isPaused, halted, attached>>
    BY <1>5 DEF HandleForward
  <2>2. \/ SendTo(<<Msg("Pause", 0)>>)
        \/ SendTo(<<Msg("SetBreakpoints", 0)>>)
        \/ UNCHANGED cmdq
    BY <1>5, <2>1, Taken DEF HandleForward
  <2>3. /\ Without(cmdq, Gos) => Without(cmdq', Gos)
        /\ EndsWith(cmdq, Gos, Gos) => EndsWith(cmdq', Gos, Gos)
    BY <1>0, <1>4, <2>2 DEF DebugCommands, Gos
  <2>4. QED
    BY <1>2, <2>1, <2>3
<1>6. CASE HandleQuery
  <2>1. Take({"query"}) /\ UNCHANGED <<evq, isPaused, halted, attached>>
    BY <1>6 DEF HandleQuery
  <2>2. UNCHANGED cmdq \/ SendTo(<<Msg("Query", asked + 1)>>)
    BY <1>6 DEF HandleQuery
  <2>3. /\ Without(cmdq, Gos) => Without(cmdq', Gos)
        /\ EndsWith(cmdq, Gos, Gos) => EndsWith(cmdq', Gos, Gos)
    <3>1. asked + 1 \in Numbers
      <4>1. Head(input).op = "query"
        BY <2>1, Taken
      <4>2. QED
        BY <2>1, <4>1, CountTake DEF Numbers
    <3>2. QED
      BY <1>4, <2>2, <3>1 DEF DebugCommands, Gos
  <2>4. QED
    BY <1>2, <2>1, <2>3
<1>7. CASE HandleDisconnect \/ HandleClosing
  BY <1>7 DEF HandleDisconnect, HandleClosing, End, SyncInv
<1>8. CASE HandleEvent \/ WaitEvent
  <2>1. /\ Take(Events) /\ EngineEvent(Head(input).op)
        /\ UNCHANGED <<evq, cmdq, halted, attached>>
    BY <1>8 DEF HandleEvent, WaitEvent, Take
  <2>2. Head(input).op \in Events
    BY <2>1, Taken
  <2>3. Head(input).op # "Detached"
    BY <2>1, Taken DEF SyncInv
  <2>4. CASE Head(input).op = "Stopped"
    <3>1. isPaused'
      BY <2>1, <2>4 DEF EngineEvent
    <3>2. ~Without(input, {"Stopped"}) /\ ~Without(input, Signals)
      BY <2>1, <2>4, Taken DEF Signals
    <3>3. HaltUntold /\ EndsWith(input, {"Stopped"}, Signals) /\ Without(evq, Signals)
      BY <3>2 DEF SyncInv, EngineRuns, HaltUntold, HaltKnown, HaltEnding, StopUnderWay
    <3>4. Without(input', Signals)
      BY <2>1, <2>4, <3>3, Taken
    <3>5. HaltKnown'
      BY <2>1, <3>1, <3>3, <3>4 DEF HaltKnown, HaltUntold
    <3>6. QED
      BY <1>1, <2>1, <3>5 DEF SyncInv
  <2>5. CASE Head(input).op = "Resumed"
    <3>1. ~isPaused'
      BY <2>1, <2>5 DEF EngineEvent
    <3>2. ~Without(input, Signals)
      BY <2>1, <2>5, Taken DEF Signals
    <3>3. EngineRuns \/ HaltUntold
      BY <3>2 DEF SyncInv, HaltKnown, HaltEnding
    <3>4. EngineRuns' \/ HaltUntold'
      BY <1>1, <2>1, <2>5, <3>1, <3>3 DEF EngineRuns, HaltUntold, StopUnderWay
    <3>5. QED
      BY <1>1, <2>1, <3>4 DEF SyncInv
  <2>6. CASE Head(input).op = "Answer"
    <3>1. UNCHANGED isPaused
      BY <2>1, <2>6 DEF EngineEvent
    <3>2. QED
      BY <1>1, <2>1, <2>6, <3>1
      DEF SyncInv, EngineRuns, HaltUntold, HaltKnown, HaltEnding, StopUnderWay
  <2>7. QED
    BY <2>2, <2>3, <2>4, <2>5, <2>6 DEF Events
<1>9. CASE WaitAnswer \/ WaitRequest \/ WaitClosing
  <2>1. Take({"Answer"}) \/ Take(Requests) \/ Take(Closings)
    BY <1>9 DEF WaitAnswer, WaitRequest, WaitClosing
  <2>2. UNCHANGED <<evq, cmdq, isPaused, halted, attached>>
    BY <1>9 DEF WaitAnswer, WaitRequest, WaitClosing
  <2>3. QED
    BY <1>2, <2>1, <2>2 DEF Requests, Closings
<1>10. CASE WaitTimeout
  BY <1>10 DEF WaitTimeout, SyncInv, EngineRuns, HaltUntold, HaltKnown, HaltEnding, StopUnderWay
<1>11. QED
  BY <1>3, <1>5, <1>6, <1>7, <1>8, <1>9, <1>10 DEF Handler

LEMMA SyncEngine ==
  ASSUME TypeOK, SyncInv, attached, handler # "ended", EngineSteps
  PROVE  SyncInv'
<1> USE DEF clientVars, handlerVars, engineVars
<1>0. 0 \in Numbers
  BY MsgShape
<1>1. CASE DropSession
  BY <1>1 DEF DropSession, SyncInv
<1>2. CASE DrainCommand
  <2>1. /\ ~halted /\ Read(DebugCommands \ {"Disconnect"})
        /\ UNCHANGED <<input, evq, isPaused, handler, attached, halted>>
    BY <1>2 DEF DrainCommand
  <2>2. EngineRuns
    BY <2>1 DEF SyncInv, HaltUntold, HaltKnown, HaltEnding
  <2>3. Without(cmdq', Gos)
    BY <2>1, <2>2, WasRead DEF EngineRuns
  <2>4. QED
    BY <2>1, <2>2, <2>3 DEF SyncInv, EngineRuns
<1>3. CASE EngineHalts
  <2>1. /\ ~halted /\ halted' /\ evq' = Append(evq, Msg("Stopped", 0))
        /\ UNCHANGED <<input, cmdq, isPaused, handler, attached>>
    BY <1>3 DEF EngineHalts
  <2>2. EngineRuns
    BY <2>1 DEF SyncInv, HaltUntold, HaltKnown, HaltEnding
  <2>3. EndsWith(evq', {"Stopped"}, Signals)
    BY <1>0, <2>1, <2>2, Emitted DEF EngineRuns, Events
  <2>4. Without(evq', {"Detached"})
    BY <1>0, <2>1, Emitted DEF SyncInv, Events
  <2>5. HaltUntold'
    BY <2>1, <2>2, <2>3 DEF EngineRuns, HaltUntold, StopUnderWay
  <2>6. QED
    BY <2>1, <2>4, <2>5 DEF SyncInv
<1>4. CASE PausedResume
  <2>1. /\ halted /\ ~halted' /\ Read({"Continue", "Step"})
        /\ UNCHANGED <<input, isPaused, handler, attached>>
    BY <1>4 DEF PausedResume
  <2>2. HaltEnding
    <3>1. ~Without(cmdq, Gos)
      BY <2>1, WasRead DEF Gos
    <3>2. QED
      BY <3>1 DEF SyncInv, EngineRuns, HaltUntold, HaltKnown
  <2>3. Without(cmdq', Gos)
    BY <2>1, <2>2, WasRead DEF HaltEnding, Gos
  <2>4. Without(input', {"Stopped"}) /\ Without(evq, {"Stopped"})
    BY <2>1, <2>2, WithoutFewer DEF HaltEnding, Signals
  <2>5. Without(evq', {"Stopped"}) /\ Without(evq', {"Detached"})
    <3>1. UNCHANGED evq \/ evq' = Append(evq, Msg("Resumed", 0))
      BY <1>4 DEF PausedResume
    <3>2. "Resumed" \in Events /\ "Resumed" \notin {"Stopped"} /\ "Resumed" \notin {"Detached"}
      BY DEF Events
    <3>3. Without(evq, {"Detached"})
      BY DEF SyncInv
    <3>4. QED
      BY <1>0, <2>4, <3>1, <3>2, <3>3, Emitted
  <2>6. EngineRuns'
    BY <2>1, <2>2, <2>3, <2>4, <2>5 DEF EngineRuns, HaltEnding
  <2>7. QED
    BY <2>1, <2>5, <2>6 DEF SyncInv
<1>5. CASE PausedServe
  <2>1. /\ halted /\ halted' /\ Read({"Query", "SetBreakpoints", "Pause"})
        /\ UNCHANGED <<input, isPaused, handler, attached>>
    BY <1>5 DEF PausedServe
  <2>2. Head(cmdq).op \notin Gos /\ Head(cmdq).query \in Numbers
    BY <2>1, ReadCommand DEF Read, Gos
  <2>3. /\ Without(cmdq, Gos) => Without(cmdq', Gos)
        /\ EndsWith(cmdq, Gos, Gos) => EndsWith(cmdq', Gos, Gos)
    BY <2>1, <2>2, WasRead
  <2>4. /\ Without(evq, {"Detached"}) => Without(evq', {"Detached"})
        /\ Without(evq, Signals) => Without(evq', Signals)
        /\ EndsWith(evq, {"Stopped"}, Signals) => EndsWith(evq', {"Stopped"}, Signals)
    <3>1. UNCHANGED evq \/ evq' = Append(evq, Msg("Answer", Head(cmdq).query))
      BY <1>5 DEF PausedServe
    <3>2. "Answer" \in Events /\ "Answer" \notin {"Detached"} /\ "Answer" \notin Signals
      BY DEF Events, Signals
    <3>3. QED
      BY <2>2, <3>1, <3>2, Emitted
  <2>5. QED
    BY <2>1, <2>3, <2>4 DEF SyncInv, EngineRuns, HaltUntold, HaltKnown, HaltEnding, StopUnderWay
<1>6. QED
  BY <1>1, <1>2, <1>3, <1>4, <1>5 DEF EngineSteps, Engine, DrainDisconnect, PausedDetach,
     PausedSwap, EngineStops

LEMMA SyncNext == TypeInv /\ SyncInv /\ [Next]_vars => SyncInv'
<1> SUFFICES ASSUME TypeInv, SyncInv, [Next]_vars, attached', handler' # "ended" PROVE SyncInv'
  BY DEF SyncInv
<1> TypeOK
  BY DEF TypeInv
<1> USE DEF clientVars, handlerVars, engineVars
<1>1. CASE UNCHANGED vars
  BY <1>1 DEF vars, SyncInv, EngineRuns, HaltUntold, HaltKnown, HaltEnding, StopUnderWay
<1>2. CASE Next
  <2>1. attached /\ handler # "ended"
    <3>1. CASE EngineSteps
      BY <3>1, EngineShape DEF EngineSteps, Engine, DrainCommand, DrainDisconnect, EngineHalts,
         PausedResume, PausedServe, PausedDetach, PausedSwap, EngineStops, DropSession
    <3>2. CASE Handler
      BY <3>2 DEF Handler, HandleGo, HandleForward, HandleQuery, HandleDisconnect, HandleClosing,
         HandleEvent, WaitAnswer, WaitEvent, WaitRequest, WaitClosing, WaitTimeout
    <3>3. ASSUME UNCHANGED <<handlerVars, engineVars>> PROVE attached /\ handler # "ended"
      BY <3>3
    <3>4. QED
      BY <1>2, <3>1, <3>2, <3>3 DEF Next, EngineSteps, ClientRequest, ClientDrop, ForwardEvent,
         EventThreadEnds
  <2>2. QED
    BY <1>2, <2>1, SyncFeed, SyncHandler, SyncEngine DEF Next, EngineSteps
<1>3. QED
  BY <1>1, <1>2

(* The debug handler and the engine stay in sync: whenever every message   *)
(* has been read, is_paused tells whether the engine is halted, however    *)
(* requests, stops, resumes, queries, timeouts and lost connections were   *)
(* interleaved (dap_attach_handler.rs, handle_engine_event and the guards  *)
(* on continue and step).                                                  *)
THEOREM InSyncHolds == Spec => []InSync
<1>1. Init => TypeInv /\ SyncInv
  <2>1. Init => SyncInv
    BY DEF Init, SyncInv, EngineRuns, Without
  <2>2. QED
    BY <2>1, TypeInit
<1>2. (TypeInv /\ SyncInv) /\ [Next]_vars => (TypeInv /\ SyncInv)'
  BY TypeNext, SyncNext DEF TypeInv
<1>3. TypeInv /\ SyncInv => InSync
  <2> SUFFICES ASSUME TypeOK, SyncInv, Quiet, attached PROVE isPaused = halted
    BY DEF TypeInv, InSync
  <2>1. EngineRuns \/ HaltKnown
    BY DEF SyncInv, HaltUntold, HaltEnding, StopUnderWay, EndsWith, Quiet
  <2>2. isPaused \in BOOLEAN /\ halted \in BOOLEAN
    BY DEF TypeOK
  <2>3. isPaused <=> halted
    BY <2>1 DEF EngineRuns, HaltKnown
  <2>4. QED
    BY <2>2, <2>3
<1>4. QED
  BY <1>1, <1>2, <1>3, PTL DEF Spec

-----------------------------------------------------------------------------
(* Answers are fresh *)

LEMMA ClosingNext == TypeOK /\ ClosingInv /\ [Next]_vars => ClosingInv'
<1> SUFFICES ASSUME TypeOK, ClosingInv, [Next]_vars PROVE ClosingInv'
  OBVIOUS
<1> USE DEF clientVars, handlerVars, engineVars
<1>0. input \in Seq(InputMsgs)
  BY Channels
<1>1. ASSUME NEW op \in Requests \cup Closings, input' = Append(input, Msg(op, 0))
      PROVE  /\ \A k, kinds : Behind(input, k, kinds) /\ (op \notin kinds \/ Without(input, {k}))
                                => Behind(input', k, kinds)
             /\ \A k : Without(input, {k}) /\ op # k => Without(input', {k})
  <2>1. Msg(op, 0) \in InputMsgs /\ Msg(op, 0).op = op
    BY MsgShape DEF InputMsgs
  <2>2. QED
    BY <1>0, <1>1, <2>1, BehindChannel, WithoutAppend
<1>2. ASSUME NEW op \in Requests, ClientRequest(op) PROVE ClosingInv'
  <2>1. op # "DapDisconnected" /\ op # "EngineDisconnected" /\ op \notin Events
    BY DEF Requests, Events
  <2>2. client = "up" /\ input' = Append(input, Msg(op, 0))
        /\ UNCHANGED <<client, cmdq, evq, watching, attached>>
    BY <1>2 DEF ClientRequest
  <2>3. QED
    BY <1>1, <2>1, <2>2 DEF ClosingInv
<1>3. CASE ClientDrop
  <2>1. "DapDisconnected" \in Closings /\ "DapDisconnected" \notin Events
        /\ "DapDisconnected" \notin Requests
    BY DEF Closings, Events, Requests
  <2>2. client' = "dropped" /\ input' = Append(input, Msg("DapDisconnected", 0))
        /\ UNCHANGED <<cmdq, evq, watching, attached>>
    BY <1>3 DEF ClientDrop
  <2>3. QED
    BY <1>1, <2>1, <2>2 DEF ClosingInv
<1>4. CASE ForwardEvent
  <2>1. evq \in Seq(EventMsgs) /\ evq # <<>>
    BY <1>4, Channels DEF ForwardEvent
  <2>2. Head(evq) \in InputMsgs /\ Head(evq).op \in Events
    BY <2>1, ReceiveProperties, MsgShape, Channels
  <2>3. Head(evq).op \notin Requests /\ Head(evq).op \notin {"DapDisconnected"}
        /\ Head(evq).op \notin {"EngineDisconnected"}
    BY <2>2 DEF Events, Requests
  <2>4. watching /\ input' = Append(input, Head(evq)) /\ UNCHANGED <<client, cmdq, watching, attached>>
    BY <1>4 DEF ForwardEvent
  <2>5. /\ Without(input, {"DapDisconnected"}) => Without(input', {"DapDisconnected"})
        /\ Without(input, {"EngineDisconnected"}) => Without(input', {"EngineDisconnected"})
    BY <1>0, <2>2, <2>3, <2>4, WithoutAppend
  <2>6. /\ Behind(input', "DapDisconnected", Requests)
        /\ Behind(input', "EngineDisconnected", Events)
    BY <1>0, <2>2, <2>3, <2>4, BehindChannel DEF ClosingInv
  <2>7. QED
    BY <2>4, <2>5, <2>6 DEF ClosingInv
<1>5. CASE EventThreadEnds
  <2>1. "EngineDisconnected" \in Closings /\ "EngineDisconnected" \notin Events
        /\ "EngineDisconnected" \notin Requests
    BY DEF Closings, Events, Requests
  <2>2. /\ evq = <<>> /\ ~attached /\ watching /\ ~watching'
        /\ input' = Append(input, Msg("EngineDisconnected", 0))
        /\ UNCHANGED <<client, cmdq, evq, attached>>
    BY <1>5 DEF EventThreadEnds
  <2>3. QED
    BY <1>1, <2>1, <2>2 DEF ClosingInv
<1>6. CASE Handler
  <2>1. UNCHANGED input \/ \E kinds : Take(kinds)
    BY <1>6 DEF Handler, HandleGo, HandleForward, HandleQuery, HandleDisconnect, HandleClosing,
       HandleEvent, WaitAnswer, WaitEvent, WaitRequest, WaitClosing, WaitTimeout
  <2>2. UNCHANGED <<client, evq, watching, attached>>
    BY <1>6 DEF Handler, HandleGo, HandleForward, HandleQuery, HandleDisconnect, HandleClosing,
       HandleEvent, WaitAnswer, WaitEvent, WaitRequest, WaitClosing, WaitTimeout
  <2>3. ~attached => UNCHANGED cmdq
    <3>1. UNCHANGED cmdq \/ \E cmds : SendTo(cmds)
      BY <1>6 DEF Handler, HandleGo, HandleForward, HandleQuery, HandleDisconnect, HandleClosing,
         HandleEvent, WaitAnswer, WaitEvent, WaitRequest, WaitClosing, WaitTimeout, End
    <3>2. QED
      BY <3>1 DEF SendTo
  <2>4. ASSUME NEW kinds, Take(kinds)
        PROVE  /\ \A k : Without(input, {k}) => Without(input', {k})
               /\ \A k, ops : Behind(input, k, ops) => Behind(input', k, ops)
    <3>1. input # <<>> /\ input' = Tail(input)
      BY <2>4 DEF Take
    <3>2. QED
      BY <1>0, <2>4, <3>1, Taken, BehindChannel
  <2>5. QED
    BY <2>1, <2>2, <2>3, <2>4 DEF ClosingInv
<1>7. CASE EngineSteps
  <2>1. UNCHANGED <<client, input, watching>>
    BY <1>7, EngineShape
  <2>2. ~attached' => cmdq' = <<>>
    BY <1>7 DEF ClosingInv, EngineSteps, Engine, DrainCommand, DrainDisconnect, EngineHalts,
       PausedResume, PausedServe, PausedDetach, PausedSwap, EngineStops, DropSession, Read, Ready
  <2>3. ~attached => UNCHANGED <<attached, evq>>
    <3>1. ASSUME ~attached PROVE PausedDetach
      BY <1>7, <3>1 DEF EngineSteps, Engine, DrainCommand, DrainDisconnect, EngineHalts,
         PausedResume, PausedServe, PausedSwap, EngineStops, Read, Ready
    <3>2. ASSUME ~attached PROVE attached' = attached
      <4>1. attached \in BOOLEAN /\ attached' = FALSE
        BY <3>1, <3>2 DEF PausedDetach, DropSession, TypeOK
      <4>2. QED
        BY <3>2, <4>1
    <3>3. QED
      BY <3>1, <3>2 DEF PausedDetach
  <2>4. QED
    BY <2>1, <2>2, <2>3 DEF ClosingInv
<1>8. CASE UNCHANGED vars
  BY <1>8 DEF vars, ClosingInv
<1>9. QED
  BY <1>2, <1>3, <1>4, <1>5, <1>6, <1>7, <1>8 DEF Next, EngineSteps

LEMMA FreshFeed ==
  ASSUME TypeOK, ClosingInv, FreshInv, ~late,
         (\E op \in Requests : ClientRequest(op)) \/ ClientDrop \/ ForwardEvent \/ EventThreadEnds
  PROVE  FreshInv'
<1> USE DEF clientVars, handlerVars, engineVars
<1>0. UNCHANGED <<late, handler, asked, cmdq>>
  BY DEF ClientRequest, ClientDrop, ForwardEvent, EventThreadEnds
<1>1. CASE ForwardEvent
  <2>1. /\ NoQuery => NoQuery'
        /\ OneQuery => OneQuery'
    <3>1. /\ Without(input, {"Answer"}) /\ Without(evq, {"Answer"})
               => Without(input', {"Answer"}) /\ Without(evq', {"Answer"})
          /\ Without(input, {"Answer"}) /\ EndsWith(evq, {"Answer"}, {"Answer"})
               => \/ EndsWith(input', {"Answer"}, {"Answer"}) /\ Without(evq', {"Answer"})
                  \/ Without(input', {"Answer"}) /\ EndsWith(evq', {"Answer"}, {"Answer"})
          /\ EndsWith(input, {"Answer"}, {"Answer"}) /\ Without(evq, {"Answer"})
               => EndsWith(input', {"Answer"}, {"Answer"}) /\ Without(evq', {"Answer"})
      BY <1>1, Forwarded
    <3>2. QED
      BY <1>0, <3>1 DEF NoQuery, OneQuery
  <2>2. /\ input \in Seq(InputMsgs) /\ evq \in Seq(EventMsgs) /\ evq # <<>>
        /\ input' = Append(input, Head(evq)) /\ evq' = Tail(evq) /\ UNCHANGED client
        /\ Head(evq) \in InputMsgs /\ Head(evq).op \in Events
    BY <1>1, Channels, ReceiveProperties, MsgShape DEF ForwardEvent
  <2>3. Tagged(evq, "Answer", asked) /\ Tagged(input, "Answer", asked)
          => Tagged(evq', "Answer", asked) /\ Tagged(input', "Answer", asked)
    BY <2>2, TaggedAppend, TaggedTail
  <2>4. Without(input, Requests) => Without(input', Requests)
    <3>1. Head(evq).op \notin Requests
      BY <2>2 DEF Events, Requests
    <3>2. QED
      BY <2>2, <3>1, WithoutAppend
  <2>5. QED
    BY <1>0, <2>1, <2>2, <2>3, <2>4 DEF FreshInv, Waiting
<1>2. ASSUME NEW op \in Requests \cup Closings, input' = Append(input, Msg(op, 0)), UNCHANGED evq,
             client = "dropped" => op \notin Requests /\ UNCHANGED client
      PROVE  FreshInv'
  <2>1. op # "Answer"
    BY DEF Requests, Closings
  <2>2. input \in Seq(InputMsgs) /\ Msg(op, 0) \in InputMsgs /\ Msg(op, 0).op = op
    BY Channels, MsgShape DEF InputMsgs
  <2>3. /\ Without(input, {"Answer"}) => Without(input', {"Answer"})
        /\ EndsWith(input, {"Answer"}, {"Answer"}) => EndsWith(input', {"Answer"}, {"Answer"})
        /\ client = "dropped" /\ Without(input, Requests) => Without(input', Requests)
    BY <1>2, <2>1, Fed
  <2>4. Tagged(input, "Answer", asked) => Tagged(input', "Answer", asked)
    BY <1>2, <2>1, <2>2, TaggedAppend
  <2>5. QED
    BY <1>0, <1>2, <2>3, <2>4 DEF FreshInv, Waiting, NoQuery, OneQuery
<1>3. ASSUME NEW op \in Requests, ClientRequest(op) PROVE FreshInv'
  BY <1>2, <1>3 DEF ClientRequest
<1>4. CASE ClientDrop
  BY <1>2, <1>4 DEF ClientDrop, Closings
<1>5. CASE EventThreadEnds
  BY <1>2, <1>5 DEF EventThreadEnds, Closings, Requests
<1>6. QED
  BY <1>1, <1>3, <1>4, <1>5

LEMMA FreshEngine ==
  ASSUME TypeOK, ClosingInv, FreshInv, ~late, EngineSteps
  PROVE  FreshInv'
<1> USE DEF clientVars, handlerVars, engineVars
<1>0. UNCHANGED <<late, handler, asked, client, input>>
  BY EngineShape
<1>00. cmdq \in Seq(CommandMsgs) /\ evq \in Seq(EventMsgs)
  BY Channels
<1>1. ASSUME NoQuery => NoQuery', Waiting => Waiting' PROVE FreshInv'
  BY <1>0, <1>1 DEF FreshInv, Waiting
\* events other than answers change nothing
<1>2. ASSUME NEW op \in Events, NEW q \in Numbers, evq' = Append(evq, Msg(op, q)), op # "Answer"
      PROVE  /\ Without(evq, {"Answer"}) => Without(evq', {"Answer"})
             /\ EndsWith(evq, {"Answer"}, {"Answer"}) => EndsWith(evq', {"Answer"}, {"Answer"})
             /\ Tagged(evq, "Answer", asked) => Tagged(evq', "Answer", asked)
  <2>1. Msg(op, q) \in EventMsgs /\ Msg(op, q).op = op
    BY MsgShape DEF EventMsgs
  <2>2. QED
    BY <1>00, <1>2, <2>1, Emitted, TaggedAppend
<1>3. ASSUME UNCHANGED evq \/ \E op \in Events \ {"Answer"} : evq' = Append(evq, Msg(op, 0)),
             \/ cmdq' = <<>>
             \/ UNCHANGED cmdq
             \/ \E kinds : Read(kinds)
      PROVE  FreshInv'
  <2>1. /\ Without(evq, {"Answer"}) => Without(evq', {"Answer"})
        /\ EndsWith(evq, {"Answer"}, {"Answer"}) => EndsWith(evq', {"Answer"}, {"Answer"})
        /\ Tagged(evq, "Answer", asked) => Tagged(evq', "Answer", asked)
    <3>1. 0 \in Numbers
      BY MsgShape
    <3>2. QED
      BY <1>2, <1>3, <3>1
  <2>2. /\ Without(cmdq, {"Query"}) => Without(cmdq', {"Query"})
        /\ EndsWith(cmdq, {"Query"}, {"Query"})
             => EndsWith(cmdq', {"Query"}, {"Query"}) \/ Without(cmdq', {"Query"})
        /\ Tagged(cmdq, "Query", asked) => Tagged(cmdq', "Query", asked)
    <3>1. CASE cmdq' = <<>>
      BY <3>1 DEF Without, Tagged
    <3>2. ASSUME NEW kinds, Read(kinds)
          PROVE  /\ Without(cmdq, {"Query"}) => Without(cmdq', {"Query"})
                 /\ EndsWith(cmdq, {"Query"}, {"Query"})
                      => EndsWith(cmdq', {"Query"}, {"Query"}) \/ Without(cmdq', {"Query"})
                 /\ Tagged(cmdq, "Query", asked) => Tagged(cmdq', "Query", asked)
      BY <1>00, <3>2, WasRead, TaggedTail DEF Read, Ready
    <3>3. QED
      BY <1>3, <3>1, <3>2
  <2>3. QED
    BY <1>0, <1>1, <2>1, <2>2 DEF NoQuery, OneQuery, Waiting
<1>4. CASE PausedServe /\ Head(cmdq).op = "Query"
  <2>1. /\ Read({"Query", "SetBreakpoints", "Pause"})
        /\ evq' = Append(evq, Msg("Answer", Head(cmdq).query))
    BY <1>4 DEF PausedServe
  <2>2. /\ cmdq # <<>> /\ cmdq' = Tail(cmdq) /\ Head(cmdq).query \in Numbers
    BY <2>1, ReadCommand DEF Read
  <2>3. ~Without(cmdq, {"Query"})
    BY <1>4, <2>1, WasRead
  <2>4. EndsWith(cmdq, {"Query"}, {"Query"}) => Without(cmdq', {"Query"})
    BY <1>4, <2>1, WasRead
  <2>5. Without(evq, {"Answer"}) => EndsWith(evq', {"Answer"}, {"Answer"})
    BY <2>1, <2>2, Emitted DEF Events
  <2>6. OneQuery => OneQuery'
    BY <1>0, <2>3, <2>4, <2>5 DEF OneQuery, NoQuery
  <2>7. Tagged(cmdq, "Query", asked) => Head(cmdq).query = asked /\ Tagged(cmdq', "Query", asked)
    BY <1>00, <1>4, <2>2, TaggedTail
  <2>8. ASSUME Tagged(cmdq, "Query", asked), Tagged(evq, "Answer", asked)
        PROVE  Tagged(evq', "Answer", asked)
    <3>1. /\ Msg("Answer", Head(cmdq).query) \in EventMsgs
          /\ Msg("Answer", Head(cmdq).query).query = Head(cmdq).query
      BY <2>2, MsgShape DEF EventMsgs, Events
    <3>2. QED
      BY <1>00, <2>1, <2>7, <2>8, <3>1, TaggedAppend
  <2>9. QED
    BY <1>0, <1>1, <2>3, <2>6, <2>7, <2>8 DEF NoQuery, Waiting
<1>5. CASE PausedServe /\ Head(cmdq).op # "Query"
  BY <1>3, <1>5 DEF PausedServe
<1>6. CASE DrainCommand
  BY <1>3, <1>6 DEF DrainCommand
<1>7. CASE DrainDisconnect \/ PausedSwap
  BY <1>3, <1>7 DEF DrainDisconnect, PausedSwap, DropSession, Events
<1>8. CASE EngineHalts
  BY <1>3, <1>8 DEF EngineHalts, Events
<1>9. CASE PausedResume
  <2>1. Read({"Continue", "Step"}) /\ (UNCHANGED evq \/ evq' = Append(evq, Msg("Resumed", 0)))
    BY <1>9 DEF PausedResume
  <2>2. QED
    BY <1>3, <2>1 DEF Events
<1>10. CASE PausedDetach \/ EngineStops
  BY <1>3, <1>10 DEF PausedDetach, EngineStops, DropSession
<1>11. QED
  BY <1>4, <1>5, <1>6, <1>7, <1>8, <1>9, <1>10 DEF EngineSteps, Engine

LEMMA FreshHandler ==
  ASSUME TypeInv, ClosingInv, FreshInv, ~late, Handler
  PROVE  /\ FreshInv'
         /\ answer' # answer => answer' = asked
<1> USE DEF clientVars, handlerVars, engineVars
<1> TypeOK
  BY DEF TypeInv
<1>0. /\ UNCHANGED <<client, evq, attached>>
      /\ input \in Seq(InputMsgs) /\ cmdq \in Seq(CommandMsgs)
  BY Channels DEF Handler, HandleGo, HandleForward, HandleQuery, HandleDisconnect, HandleClosing,
       HandleEvent, WaitAnswer, WaitEvent, WaitRequest, WaitClosing, WaitTimeout
<1>1. ASSUME NEW kinds, Take(kinds)
      PROVE  /\ Without(input, {"Answer"}) => Without(input', {"Answer"})
             /\ Without(input, Requests) => Without(input', Requests)
             /\ "Answer" \notin kinds /\ EndsWith(input, {"Answer"}, {"Answer"})
                  => EndsWith(input', {"Answer"}, {"Answer"})
             /\ Tagged(input, "Answer", asked) => Tagged(input', "Answer", asked)
  <2>1. input # <<>> /\ input' = Tail(input) /\ Head(input).op \in kinds
    BY <1>1, TakeInput
  <2>2. Tagged(input, "Answer", asked) => Tagged(input', "Answer", asked)
    BY <1>0, <2>1, TaggedTail
  <2>3. QED
    BY <1>1, <2>1, <2>2, Taken
\* the main loop after anything but a query
<1>2. ASSUME handler = "recv", handler' \in {"recv", "ended"}, NEW kinds, Take(kinds),
             UNCHANGED cmdq \/ \E op \in DebugCommands \ {"Query"} : SendTo(<<Msg(op, 0)>>)
      PROVE  FreshInv'
  <2>1. Without(cmdq, {"Query"}) => Without(cmdq', {"Query"})
    <3>1. ASSUME NEW op \in DebugCommands \ {"Query"}, SendTo(<<Msg(op, 0)>>)
          PROVE  Without(cmdq, {"Query"}) => Without(cmdq', {"Query"})
      <4>1. 0 \in Numbers
        BY MsgShape
      <4>2. CASE attached
        BY <3>1, <4>1, <4>2, Sent
      <4>3. CASE ~attached
        BY <3>1, <4>3 DEF SendTo
      <4>4. QED
        BY <4>2, <4>3
    <3>2. QED
      BY <1>2, <3>1
  <2>2. QED
    BY <1>0, <1>1, <1>2, <2>1 DEF FreshInv, Waiting, NoQuery
<1>3. CASE HandleGo
  <2>1. handler = "recv" /\ Take({"continue", "step"}) /\ UNCHANGED <<handler, answer>>
    BY <1>3 DEF HandleGo
  <2>2. UNCHANGED cmdq \/ SendTo(<<Msg("Step", 0)>>) \/ SendTo(<<Msg("Continue", 0)>>)
    BY <1>3 DEF HandleGo
  <2>3. QED
    BY <1>2, <2>1, <2>2 DEF DebugCommands
<1>4. CASE HandleForward
  <2>1. handler = "recv" /\ Take({"pause", "setBreakpoints", "plain"}) /\ UNCHANGED <<handler, answer>>
    BY <1>4 DEF HandleForward
  <2>2. \/ SendTo(<<Msg("Pause", 0)>>)
        \/ SendTo(<<Msg("SetBreakpoints", 0)>>)
        \/ UNCHANGED cmdq
    BY <1>4, <2>1, Taken DEF HandleForward
  <2>3. QED
    BY <1>2, <2>1, <2>2 DEF DebugCommands
<1>5. CASE HandleQuery /\ isPaused
  <2>1. /\ handler = "recv" /\ Take({"query"}) /\ UNCHANGED answer
        /\ asked' = asked + 1 /\ handler' = "wait" /\ SendTo(<<Msg("Query", asked + 1)>>)
    BY <1>5 DEF HandleQuery
  <2>2. Head(input).op = "query" /\ "query" \in Requests
    BY <2>1, Taken DEF Requests
  <2>3. asked + 1 \in Numbers
    BY <2>1, <2>2, CountTake DEF Numbers
  <2>4. NoQuery
    BY <2>1, <2>2, Taken DEF FreshInv, Waiting
  <2>5. Without(input', {"Answer"})
    BY <1>1, <2>1, <2>4 DEF NoQuery
  <2>6. EndsWith(cmdq', {"Query"}, {"Query"}) \/ Without(cmdq', {"Query"})
    <3>1. CASE attached
      BY <2>1, <2>3, <2>4, <3>1, Sent DEF NoQuery, DebugCommands
    <3>2. CASE ~attached
      BY <2>1, <2>4, <3>2 DEF NoQuery, SendTo
    <3>3. QED
      BY <3>1, <3>2
  <2>7. Tagged(cmdq', "Query", asked')
    <3>1. Tagged(cmdq, "Query", asked + 1)
      BY <2>4, TaggedNone DEF NoQuery
    <3>2. Msg("Query", asked + 1) \in CommandMsgs /\ Msg("Query", asked + 1).query = asked + 1
      BY <2>3, MsgShape DEF CommandMsgs, DebugCommands
    <3>3. cmdq' = cmdq \/ cmdq' = Append(cmdq, Msg("Query", asked + 1))
      BY <2>1, <2>3, SendToOne DEF DebugCommands
    <3>4. QED
      BY <1>0, <2>1, <3>1, <3>2, <3>3, TaggedAppend
  <2>8. Tagged(evq', "Answer", asked') /\ Tagged(input', "Answer", asked')
    BY <1>0, <2>4, <2>5 DEF NoQuery, Tagged, Without
  <2>9. QED
    BY <1>0, <2>1, <2>4, <2>5, <2>6, <2>7, <2>8 DEF FreshInv, Waiting, NoQuery, OneQuery
<1>6. CASE HandleQuery /\ ~isPaused
  BY <1>2, <1>6 DEF HandleQuery
<1>7. CASE HandleDisconnect \/ HandleClosing
  BY <1>7 DEF HandleDisconnect, HandleClosing, End, FreshInv, Waiting
<1>8. CASE HandleEvent
  BY <1>2, <1>8 DEF HandleEvent
<1>9. CASE WaitAnswer
  <2>1. /\ handler = "wait" /\ Take({"Answer"}) /\ answer' = Head(input).query
        /\ handler' = "recv" /\ UNCHANGED cmdq
    BY <1>9 DEF WaitAnswer
  <2>2. Head(input).op = "Answer" /\ ~Without(input, {"Answer"}) /\ input # <<>>
    BY <2>1, Taken DEF Take
  <2>3. /\ EndsWith(input, {"Answer"}, {"Answer"})
        /\ Without(cmdq, {"Query"}) /\ Without(evq, {"Answer"})
    BY <2>1, <2>2 DEF FreshInv, Waiting, OneQuery, NoQuery
  <2>4. Without(input', {"Answer"})
    BY <2>1, <2>2, <2>3, Taken
  <2>5. Head(input).query = asked
    BY <1>0, <2>1, <2>2, TaggedTail DEF FreshInv, Waiting
  <2>6. QED
    BY <1>0, <2>1, <2>3, <2>4, <2>5 DEF FreshInv, Waiting, NoQuery
<1>10. CASE WaitEvent \/ WaitRequest
  <2>1. Take(Events \ {"Answer"}) \/ Take(Requests)
    BY <1>10 DEF WaitEvent, WaitRequest
  <2>2. "Answer" \notin Requests
    BY DEF Requests
  <2>3. handler = "wait" /\ UNCHANGED <<handler, asked, answer, cmdq>>
    BY <1>10 DEF WaitEvent, WaitRequest
  <2>4. QED
    BY <1>0, <1>1, <2>1, <2>2, <2>3 DEF FreshInv, Waiting, NoQuery, OneQuery
<1>11. CASE WaitClosing
  <2>1. handler = "wait" /\ Take(Closings) /\ handler' = "recv" /\ UNCHANGED <<cmdq, answer>>
    BY <1>11 DEF WaitClosing
  <2>2. input # <<>> /\ input' = Tail(input) /\ Head(input).op \in Closings
    BY <2>1, TakeInput
  <2>3. CASE Head(input).op = "DapDisconnected"
    <3>1. Without(input', Requests)
      BY <1>0, <2>2, <2>3, BehindChannel DEF ClosingInv
    <3>2. client # "up"
      BY <2>1, <2>3, Taken DEF ClosingInv
    <3>3. client' = "dropped"
      BY <1>0, <3>2 DEF TypeOK
    <3>4. QED
      BY <2>1, <3>1, <3>3 DEF FreshInv, Waiting
  <2>4. CASE Head(input).op = "EngineDisconnected"
    <3>1. ~Without(input, {"EngineDisconnected"})
      BY <2>1, <2>4, Taken
    <3>2. evq = <<>> /\ cmdq = <<>>
      BY <3>1 DEF ClosingInv
    <3>3. Without(input', Events)
      BY <1>0, <2>2, <2>4, BehindChannel DEF ClosingInv
    <3>4. Without(input', {"Answer"})
      BY <3>3, WithoutFewer DEF Events
    <3>5. NoQuery'
      BY <1>0, <2>1, <3>2, <3>4 DEF NoQuery, Without
    <3>6. QED
      BY <2>1, <3>5 DEF FreshInv, Waiting
  <2>5. QED
    BY <2>2, <2>3, <2>4 DEF Closings
<1>12. CASE WaitTimeout
  BY <1>12 DEF WaitTimeout, FreshInv, Waiting
<1>13. QED
  BY <1>3, <1>4, <1>5, <1>6, <1>7, <1>8, <1>9, <1>10, <1>11, <1>12 DEF Handler,
     HandleDisconnect, HandleClosing, HandleEvent, HandleQuery, WaitTimeout

\* Once a wait has timed out, nothing is promised any more.
LEMMA FreshNext ==
  TypeInv /\ ClosingInv /\ FreshInv /\ [Next]_vars
    => FreshInv' /\ [~late /\ answer' # answer => answer' = asked]_vars
<1> SUFFICES ASSUME TypeInv, ClosingInv, FreshInv, [Next]_vars
             PROVE  FreshInv' /\ (~late /\ answer' # answer => answer' = asked)
  OBVIOUS
<1> USE DEF clientVars, handlerVars, engineVars
<1>0. TypeOK
  BY DEF TypeInv
<1>1. CASE UNCHANGED vars
  BY <1>1 DEF vars, FreshInv, Waiting, NoQuery, OneQuery
<1>2. CASE late
  <2>1. late'
    BY <1>1, <1>2, EngineShape, <1>0 DEF vars, Next, EngineSteps, Handler, ClientRequest, ClientDrop, ForwardEvent,
       EventThreadEnds, HandleGo, HandleForward, HandleQuery, HandleDisconnect, HandleClosing,
       HandleEvent, WaitAnswer, WaitEvent, WaitRequest, WaitClosing, WaitTimeout
  <2>2. QED
    BY <1>2, <2>1 DEF FreshInv, Waiting
<1>3. CASE ~late /\ Next
  <2>1. CASE Handler
    BY <1>3, <2>1, FreshHandler
  <2>2. CASE ~Handler
    <3>1. UNCHANGED answer
      BY <1>0, <1>3, <2>2, EngineShape DEF Next, EngineSteps, ClientRequest, ClientDrop, ForwardEvent,
         EventThreadEnds
    <3>2. QED
      BY <1>0, <1>3, <2>2, <3>1, FreshFeed, FreshEngine DEF Next, EngineSteps
  <2>3. QED
    BY <2>1, <2>2
<1>4. QED
  BY <1>1, <1>2, <1>3

(* Until a wait has timed out, an inspection request is answered with the  *)
(* engine's response to that very request: no request, event or closing    *)
(* notice that arrives in between leaves an older response in the channel  *)
(* to be taken for it (wait_for_engine_response).                          *)
THEOREM FreshAnswersHold == Spec => FreshAnswers
<1>1. Init => TypeInv /\ ClosingInv /\ FreshInv
  <2>1. Init => ClosingInv
    BY DEF Init, ClosingInv, Without, Behind
  <2>2. Init => FreshInv
    BY DEF Init, FreshInv, Waiting, NoQuery, Without
  <2>3. QED
    BY <2>1, <2>2, TypeInit
<1>2. TypeInv /\ ClosingInv /\ FreshInv /\ [Next]_vars
        => (TypeInv /\ ClosingInv /\ FreshInv)'
  BY TypeNext, ClosingNext, FreshNext DEF TypeInv
<1>3. QED
  BY <1>1, <1>2, FreshNext, PTL DEF Spec, FreshAnswers

=============================================================================
