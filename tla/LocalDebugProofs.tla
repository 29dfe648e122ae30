-------------------------- MODULE LocalDebugProofs --------------------------
(***************************************************************************)
(* Proofs about the local debug adapter, for every compiled program, every *)
(* set of files and breakpoints, any cycle cap and instruction limit, and  *)
(* any number of requests.                                                 *)
(***************************************************************************)
EXTENDS LocalDebug, WellFoundedInduction, TLAPS

-----------------------------------------------------------------------------
(* Sums of line and file lengths.  Facts for all lengths are shown by the  *)
(* least counterexample.                                                   *)

(* A set of numbers that is not empty has a least element.                 *)
LEMMA LeastNumber ==
  ASSUME NEW S, S \subseteq Nat, S # {}
  PROVE  \E n \in S : \A m \in S : n <= m
  <1> DEFINE R == OpToRel(<, Nat)
  <1>1. \E x \in S : \A y \in S : ~(<<y, x>> \in R)
    BY NatLessThanWellFounded, WFMin
  <1>2. PICK x \in S : \A y \in S : ~(<<y, x>> \in R)
    BY <1>1
  <1>3. \A y \in S : ~(y < x)
    BY <1>2 DEF OpToRel
  <1> QED
    BY <1>3

(* The running sums of s up to n.                                          *)
IsSums(g, s, n) == g = [i \in 0..n |-> IF i = 0 THEN 0 ELSE g[i - 1] + s[i]]

(* The running sums exist for every length.                                *)
LEMMA SumsExist ==
  ASSUME NEW s, NEW n \in Nat
  PROVE  \E g : IsSums(g, s, n)
  <1> DEFINE Bad == {k \in Nat : ~\E g : IsSums(g, s, k)}
  <1> SUFFICES ASSUME Bad # {} PROVE FALSE
    OBVIOUS
  <1>1. PICK k \in Bad : \A m \in Bad : k <= m
    BY LeastNumber
  <1>2. CASE k = 0
    <2> DEFINE h == [i \in 0..0 |-> 0]
    <2>1. IsSums(h, s, 0)
      BY DEF IsSums
    <2> QED
      BY <1>2, <2>1
  <1>3. CASE k # 0
    <2>1. k - 1 \in Nat /\ k - 1 \notin Bad
      BY <1>1, <1>3
    <2>2. PICK g : IsSums(g, s, k - 1)
      BY <2>1
    <2> DEFINE h == [i \in 0..k |-> IF i = k THEN g[k - 1] + s[k] ELSE g[i]]
    <2>3. ASSUME NEW i \in 0..k PROVE h[i] = IF i = 0 THEN 0 ELSE h[i - 1] + s[i]
      <3>1. CASE i = k
        BY <1>3, <2>1, <3>1
      <3>2. CASE i # k
        <4>1. i \in 0..(k - 1) /\ h[i] = g[i]
          BY <2>1, <3>2
        <4>2. g[i] = IF i = 0 THEN 0 ELSE g[i - 1] + s[i]
          BY <2>2, <4>1 DEF IsSums
        <4>3. i # 0 => h[i - 1] = g[i - 1]
          BY <2>1, <4>1
        <4> QED
          BY <4>1, <4>2, <4>3
      <3> QED
        BY <3>1, <3>2
    <2>4. h = [i \in 0..k |-> h[i]]
      OBVIOUS
    <2>5. IsSums(h, s, k)
      BY <2>3, <2>4 DEF IsSums
    <2> QED
      BY <2>5
  <1> QED
    BY <1>2, <1>3

(* The running sums up to m and up to n agree.                             *)
LEMMA SumsAgree ==
  ASSUME NEW s, NEW m \in Nat, NEW n \in Nat, m <= n,
         NEW g, NEW h, IsSums(g, s, m), IsSums(h, s, n)
  PROVE  \A i \in 0..m : g[i] = h[i]
  <1> DEFINE Bad == {i \in 0..m : g[i] # h[i]}
  <1> SUFFICES ASSUME Bad # {} PROVE FALSE
    OBVIOUS
  <1>0. Bad \subseteq Nat
    OBVIOUS
  <1>1. PICK k \in Bad : \A i \in Bad : k <= i
    BY <1>0, LeastNumber
  <1>2. /\ g[k] = IF k = 0 THEN 0 ELSE g[k - 1] + s[k]
        /\ h[k] = IF k = 0 THEN 0 ELSE h[k - 1] + s[k]
    BY DEF IsSums
  <1>3. k # 0
    BY <1>2
  <1>4. k - 1 \in 0..m /\ k - 1 \notin Bad
    BY <1>1, <1>3
  <1> QED
    BY <1>2, <1>3, <1>4

(* What Sum computes.                                                      *)
LEMMA SumIs ==
  ASSUME NEW s, NEW n \in Nat, NEW g, IsSums(g, s, n)
  PROVE  Sum(s, n) = g[n]
  <1> DEFINE h == CHOOSE x : x = [i \in 0..n |-> IF i = 0 THEN 0 ELSE x[i - 1] + s[i]]
  <1>1. Sum(s, n) = h[n]
    BY DEF Sum
  <1>2. \E x : x = [i \in 0..n |-> IF i = 0 THEN 0 ELSE x[i - 1] + s[i]]
    BY DEF IsSums
  <1>3. h = [i \in 0..n |-> IF i = 0 THEN 0 ELSE h[i - 1] + s[i]]
    BY <1>2, Zenon
  <1> HIDE DEF h
  <1>4. IsSums(h, s, n)
    BY <1>3 DEF IsSums
  <1> QED
    BY <1>1, <1>4, SumsAgree

(* Sum's recursion.                                                        *)
LEMMA SumStep ==
  ASSUME NEW s
  PROVE  /\ Sum(s, 0) = 0
         /\ \A n \in Nat : n > 0 => Sum(s, n) = Sum(s, n - 1) + s[n]
  <1>1. Sum(s, 0) = 0
    <2>1. PICK g : IsSums(g, s, 0)
      BY SumsExist
    <2>2. g[0] = 0
      BY <2>1 DEF IsSums
    <2>3. Sum(s, 0) = g[0]
      BY <2>1, SumIs
    <2> QED
      BY <2>2, <2>3
  <1>2. ASSUME NEW n \in Nat, n > 0 PROVE Sum(s, n) = Sum(s, n - 1) + s[n]
    <2>0. n - 1 \in Nat /\ n - 1 <= n /\ n - 1 \in 0..(n - 1)
      BY <1>2
    <2>1. PICK g : IsSums(g, s, n)
      BY SumsExist
    <2>2. PICK h : IsSums(h, s, n - 1)
      BY <2>0, SumsExist
    <2>3. Sum(s, n) = g[n] /\ Sum(s, n - 1) = h[n - 1]
      BY <2>0, <2>1, <2>2, SumIs
    <2>4. h[n - 1] = g[n - 1]
      BY <2>0, <2>1, <2>2, SumsAgree
    <2>5. g[n] = g[n - 1] + s[n]
      BY <1>2, <2>1 DEF IsSums
    <2> QED
      BY <2>3, <2>4, <2>5
  <1> QED
    BY <1>1, <1>2

(* Sums of numbers are numbers and grow.                                   *)
LEMMA SumNat ==
  ASSUME NEW N \in Nat, NEW s, \A i \in 1..N : s[i] \in Nat
  PROVE  \A n \in 0..N : Sum(s, n) \in Nat
  <1> DEFINE Bad == {n \in 0..N : Sum(s, n) \notin Nat}
  <1> SUFFICES ASSUME Bad # {} PROVE FALSE
    OBVIOUS
  <1>0. Bad \subseteq Nat
    OBVIOUS
  <1>1. PICK k \in Bad : \A i \in Bad : k <= i
    BY <1>0, LeastNumber
  <1>2. k # 0
    BY SumStep
  <1>3. k - 1 \in 0..N /\ k - 1 \notin Bad /\ k \in 1..N
    BY <1>1, <1>2
  <1> QED
    BY <1>2, <1>3, SumStep

LEMMA SumGrows ==
  ASSUME NEW N \in Nat, NEW s, \A i \in 1..N : s[i] \in Nat,
         NEW a \in 0..N, NEW b \in 0..N, a <= b
  PROVE  Sum(s, a) <= Sum(s, b)
  <1> DEFINE Bad == {n \in 0..N : a <= n /\ ~(Sum(s, a) <= Sum(s, n))}
  <1> SUFFICES ASSUME Bad # {} PROVE FALSE
    OBVIOUS
  <1>0. Bad \subseteq Nat /\ \A n \in 0..N : Sum(s, n) \in Nat
    BY SumNat
  <1>1. PICK k \in Bad : \A i \in Bad : k <= i
    BY <1>0, LeastNumber
  <1>2. k # a
    BY <1>0
  <1>3. k - 1 \in 0..N /\ k - 1 \notin Bad /\ k \in 1..N /\ a <= k - 1
    BY <1>1, <1>2
  <1>4. Sum(s, k) = Sum(s, k - 1) + s[k]
    BY <1>3, SumStep
  <1> QED
    BY <1>0, <1>3, <1>4

-----------------------------------------------------------------------------
(* Lines and offsets *)

(* A file's offsets start where those of the files before it end.          *)
LEMMA FileRange ==
  ASSUME NEW file \in 1..Len(Files)
  PROVE  /\ VirtualOffset(file) \in Nat \ {0} /\ Length(file) \in Nat
         /\ \A g \in 1..Len(Files) :
              g > file => VirtualOffset(file) + Length(file) <= VirtualOffset(g)
  <1> DEFINE L == [i \in 1..Len(Files) |-> Length(i)]
  <1>1. Len(Files) \in Nat /\ StdlibLength \in Nat \ {0}
    BY PositionsAssumption, LocalDebugAssumption
  <1>2. \A f \in 1..Len(Files) : Length(f) \in Nat
    <2> SUFFICES ASSUME NEW f \in 1..Len(Files) PROVE Length(f) \in Nat
      OBVIOUS
    <2>1. Len(Files[f]) \in Nat /\ \A l \in 1..Len(Files[f]) : Files[f][l] \in Nat
      BY PositionsAssumption
    <2>2. Len(Files[f]) \in 0..Len(Files[f])
      BY <2>1
    <2> QED
      BY <2>1, <2>2, SumNat DEF Length
  <1>3. \A i \in 1..Len(Files) : L[i] \in Nat /\ L[i] = Length(i)
    BY <1>2
  <1>4. \A f \in 1..Len(Files) : VirtualOffset(f) = StdlibLength + Sum(L, f - 1)
    BY DEF VirtualOffset
  <1> HIDE DEF L
  <1>5. \A n \in 0..Len(Files) : Sum(L, n) \in Nat
    BY <1>1, <1>3, SumNat
  <1>6. Sum(L, file) = Sum(L, file - 1) + Length(file)
    <2>1. file \in Nat /\ file > 0
      BY <1>1
    <2> QED
      BY <1>3, <2>1, SumStep
  <1>7. ASSUME NEW g \in 1..Len(Files), g > file
        PROVE  Sum(L, file) <= Sum(L, g - 1)
    <2>1. file \in 0..Len(Files) /\ g - 1 \in 0..Len(Files) /\ file <= g - 1
      BY <1>1, <1>7
    <2> QED
      BY <1>1, <1>3, <2>1, SumGrows
  <1>8. file - 1 \in 0..Len(Files) /\ file \in 0..Len(Files)
    BY <1>1
  <1>9. VirtualOffset(file) \in Nat \ {0} /\ Length(file) \in Nat
    BY <1>1, <1>2, <1>4, <1>5, <1>8
  <1>10. ASSUME NEW g \in 1..Len(Files), g > file
         PROVE  VirtualOffset(file) + Length(file) <= VirtualOffset(g)
    <2>1. g - 1 \in 0..Len(Files)
      BY <1>1
    <2>2. /\ Sum(L, file - 1) \in Nat /\ Sum(L, file) \in Nat /\ Sum(L, g - 1) \in Nat
          /\ Length(file) \in Nat /\ StdlibLength \in Nat
      BY <1>1, <1>2, <1>5, <1>8, <2>1
    <2> QED
      BY <1>4, <1>6, <1>7, <1>10, <2>2
  <1> QED
    BY <1>9, <1>10

LEMMA OffsetInLine ==
  ASSUME NEW v \in Nat, NEW a \in Nat, NEW b \in Nat, NEW c \in Nat, NEW k \in Nat,
         b = a + k, b <= c, NEW x \in (v + a)..(v + a + k - 1)
  PROVE  x \in v..(v + c - 1) /\ a <= x - v /\ x - v < b
  OBVIOUS

(* The offsets of a line are the file's and no other line's.               *)
LEMMA LineOf ==
  ASSUME NEW file \in 1..Len(Files), NEW line \in 1..Len(Files[file]),
         NEW src \in LineRange(file, line)
  PROVE  /\ src \in VirtualOffset(file)..(VirtualOffset(file) + Length(file) - 1)
         /\ line \in 1..Len(Files[file])
         /\ Sum(Files[file], line - 1) <= src - VirtualOffset(file)
         /\ \A k \in 1..Len(Files[file]) :
              Sum(Files[file], k - 1) <= src - VirtualOffset(file) => k <= line
  <1> DEFINE s == Files[file]
             N == Len(Files[file])
             v == VirtualOffset(file)
  <1>1. N \in Nat /\ (\A i \in 1..N : s[i] \in Nat) /\ v \in Nat
    BY PositionsAssumption, FileRange
  <1>2. src \in (v + Sum(s, line - 1))..(v + Sum(s, line - 1) + s[line] - 1)
    BY DEF LineRange
  <1>3. Length(file) = Sum(s, N)
    BY DEF Length
  <1> HIDE DEF s, N, v
  <1>4. line \in 1..N
    BY DEF N
  <1>5. \A n \in 0..N : Sum(s, n) \in Nat
    BY <1>1, SumNat
  <1>6. line - 1 \in 0..N /\ line \in 0..N /\ N \in 0..N
    BY <1>1, <1>4
  <1>7. Sum(s, line) = Sum(s, line - 1) + s[line]
    BY <1>1, <1>4, SumStep
  <1>8. Sum(s, line) <= Sum(s, N)
    <2>1. line <= N
      BY <1>1, <1>4
    <2> QED
      BY <1>1, <1>6, <2>1, SumGrows
  <1>9. /\ Sum(s, line - 1) \in Nat /\ Sum(s, line) \in Nat /\ Sum(s, N) \in Nat
        /\ s[line] \in Nat
    BY <1>1, <1>4, <1>5, <1>6
  <1>10. src \in v..(v + Sum(s, N) - 1) /\ Sum(s, line - 1) <= src - v /\ src - v < Sum(s, line)
    <2> DEFINE a == Sum(s, line - 1)
               b == Sum(s, line)
               c == Sum(s, N)
               k == s[line]
    <2>1. /\ v \in Nat /\ a \in Nat /\ b \in Nat /\ c \in Nat /\ k \in Nat
          /\ b = a + k /\ b <= c /\ src \in (v + a)..(v + a + k - 1)
      BY <1>1, <1>2, <1>7, <1>8, <1>9
    <2> HIDE DEF a, b, c, k
    <2>2. src \in v..(v + c - 1) /\ a <= src - v /\ src - v < b
      BY <2>1, OffsetInLine
    <2> QED
      BY <2>2 DEF a, b, c
  <1>11. ASSUME NEW k \in 1..N, Sum(s, k - 1) <= src - v PROVE k <= line
    <2> SUFFICES ASSUME k > line PROVE FALSE
      BY <1>1, <1>4
    <2>1. k - 1 \in 0..N /\ line <= k - 1
      BY <1>1, <1>4
    <2>2. Sum(s, line) <= Sum(s, k - 1) /\ Sum(s, k - 1) \in Nat
      BY <1>1, <1>5, <1>6, <2>1, SumGrows
    <2> QED
      BY <1>1, <1>9, <1>10, <1>11, <2>2
  <1> QED
    BY <1>3, <1>4, <1>10, <1>11 DEF s, N, v

(* set_line_breakpoints sets offsets in the line.                          *)
LEMMA LineBreakpointInLine ==
  ASSUME NEW file, NEW line, NEW src \in LineBreakpoint(file, line)
  PROVE  line \in 1..Len(Files[file]) /\ src \in LineRange(file, line) /\ src > 0
  <1> DEFINE all == UNION {{f} \X (1..Len(Functions[f].code)) : f \in 1..Len(Functions)}
             in == {i \in all : /\ Functions[i[1]].file = file
                               /\ line \in 1..Len(Files[file])
                               /\ Functions[i[1]].code[i[2]].src > 0
                               /\ Functions[i[1]].code[i[2]].src \in LineRange(file, line)}
             first == CHOOSE i \in in : \A j \in in : i = j \/ Before(i, j)
  <1>1. in # {} /\ src = Functions[first[1]].code[first[2]].src
    BY DEF LineBreakpoint
  <1>2. \A i \in in : i = <<i[1], i[2]>> /\ i[1] \in Nat /\ i[2] \in Nat
    <2> SUFFICES ASSUME NEW i \in in PROVE i = <<i[1], i[2]>> /\ i[1] \in Nat /\ i[2] \in Nat
      OBVIOUS
    <2>1. PICK f \in 1..Len(Functions) : i \in {f} \X (1..Len(Functions[f].code))
      OBVIOUS
    <2> QED
      BY <2>1
  <1> HIDE DEF in
  <1>3. \E i \in in : \A j \in in : i = j \/ Before(i, j)
    <2> DEFINE F == {i[1] : i \in in}
    <2>1. F \subseteq Nat /\ F # {}
      BY <1>1, <1>2
    <2>2. PICK f \in F : \A g \in F : f <= g
      BY <2>1, LeastNumber
    <2> DEFINE P == {i[2] : i \in {k \in in : k[1] = f}}
    <2>3. P \subseteq Nat /\ P # {}
      BY <1>2, <2>2
    <2>4. PICK p \in P : \A q \in P : p <= q
      BY <2>3, LeastNumber
    <2>5. PICK i \in in : i[1] = f /\ i[2] = p
      BY <2>4
    <2>6. ASSUME NEW j \in in PROVE i = j \/ Before(i, j)
      <3>1. f <= j[1] /\ f \in Nat /\ j[1] \in Nat /\ j[2] \in Nat /\ p \in Nat
        BY <1>2, <2>1, <2>2, <2>3, <2>4
      <3>2. CASE f = j[1]
        <4>1. p <= j[2]
          BY <2>4, <3>2
        <4>2. p = j[2] => i = j
          BY <1>2, <2>5, <3>2
        <4> QED
          BY <2>5, <3>1, <3>2, <4>1, <4>2 DEF Before
      <3>3. CASE f # j[1]
        BY <2>5, <3>1, <3>3 DEF Before
      <3> QED
        BY <3>2, <3>3
    <2> QED
      BY <2>6
  <1>4. first \in in
    BY <1>3
  <1> QED
    BY <1>1, <1>4 DEF in

(* handle_stack_trace shows a breakpoint that was hit at a line on which   *)
(* the client has set it, in that line's file.                             *)
LEMMA BreakpointShown ==
  ASSUME NEW p, NEW frame, frame.f \in 1..Len(Functions),
         frame.pc \in 1..Len(Functions[frame.f].code),
         Functions[frame.f].code[frame.pc].src \in Breakpoints(p)
  PROVE  FrameLine(frame)[2] \in p[FrameLine(frame)[1]]
  <1> DEFINE src == Functions[frame.f].code[frame.pc].src
             g == Functions[frame.f].file
  <1>1. PICK file \in 1..Len(Files) : \E l \in p[file] : src \in LineBreakpoint(file, l)
    <2>1. src \in UNION {UNION {LineBreakpoint(f, l) : l \in p[f]} : f \in 1..Len(Files)}
      BY DEF Breakpoints
    <2> HIDE DEF src
    <2>2. PICK f \in 1..Len(Files) : src \in UNION {LineBreakpoint(f, l) : l \in p[f]}
      BY <2>1
    <2> QED
      BY <2>2
  <1>2. PICK line \in p[file] : src \in LineBreakpoint(file, line)
    BY <1>1
  <1>3. line \in 1..Len(Files[file]) /\ src \in LineRange(file, line) /\ src > 0
    BY <1>2, LineBreakpointInLine
  <1>4. /\ g \in 1..Len(Files)
        /\ src \in VirtualOffset(g)..(VirtualOffset(g) + Length(g) - 1)
    BY <1>3, PositionsAssumption
  <1> HIDE DEF src, g
  <1>5. src \in VirtualOffset(file)..(VirtualOffset(file) + Length(file) - 1)
    BY <1>3, LineOf
  <1>6. g = file
    <2>1. /\ VirtualOffset(g) \in Nat /\ Length(g) \in Nat
          /\ VirtualOffset(file) \in Nat /\ Length(file) \in Nat
          /\ file > g => VirtualOffset(g) + Length(g) <= VirtualOffset(file)
          /\ g > file => VirtualOffset(file) + Length(file) <= VirtualOffset(g)
      BY <1>4, FileRange
    <2> QED
      BY <1>4, <1>5, <2>1
  <1> DEFINE s == Files[file]
             local == src - VirtualOffset(file)
             before == {l \in 1..Len(s) : Sum(s, l - 1) <= local}
  <1>7. FrameLine(frame) = <<file, CHOOSE l \in before : \A k \in before : k <= l>>
    <2>1. ~(src < VirtualOffset(file))
      BY <1>5, FileRange
    <2> QED
      BY <1>6, <2>1 DEF FrameLine, src, g
  <1>8. line \in before /\ \A k \in before : k <= line
    BY <1>3, LineOf
  <1>9. \A l \in before : (\A k \in before : k <= l) => l = line
    <2>1. Len(s) \in Nat
      BY PositionsAssumption
    <2>2. before \subseteq Nat
      BY <2>1
    <2> HIDE DEF before
    <2> QED
      BY <1>8, <2>2
  <1>10. (CHOOSE l \in before : \A k \in before : k <= l) = line
    BY <1>8, <1>9
  <1>11. FrameLine(frame) = <<file, line>>
    BY <1>7, <1>10, Zenon
  <1> QED
    BY <1>11

-----------------------------------------------------------------------------
(* The debug state and the stack *)

Reasons == {"none", "Step", "Breakpoint", "PauseRequest"}
DebugStates == [mode : Resumes \cup {"Paused"}, depth : Nat, src : Nat, last : Nat, reason : Reasons]
Runs == [mode : Resumes \cup {"none"}, cycles : 0..SafetyCycleCap, pause : BOOLEAN, gone : BOOLEAN]
Notes == [mode : Resumes \cup {"none"}, depth : Nat, src : Nat, here : BOOLEAN, passed : SUBSET Nat, hit : Nat]
Frames == [f : 1..Len(Functions), pc : Nat, slot : Nat]
CodeLength(frame) == Len(Functions[frame.f].code)

(* should_pause first forgets the last breakpoint, at another statement.   *)
LEMMA MovedIs ==
  ASSUME NEW d \in DebugStates, NEW src \in Nat
  PROVE  /\ Moved(d, src) \in DebugStates
         /\ Moved(d, src).mode = d.mode /\ Moved(d, src).depth = d.depth
         /\ Moved(d, src).src = d.src /\ Moved(d, src).reason = d.reason
         /\ Moved(d, src).last = IF src > 0 /\ src # d.last THEN 0 ELSE d.last
  BY DEF Moved, DebugStates

(* What follows from should_pause's answer, whatever the mode.             *)
LEMMA ShouldPauseIs ==
  ASSUME NEW d \in DebugStates, NEW src \in Nat, NEW depth \in Nat
  PROVE  LET r == ShouldPause(d, src, depth)
         IN  /\ r \in Reasons
             /\ r = "Breakpoint" => src > 0 /\ src \in bps /\ src # d.last
             /\ r = "Step" => \/ d.mode = "StepIn" /\ src # d.src
                              \/ d.mode = "StepOver" /\ src # d.src /\ depth <= d.depth
                              \/ d.mode = "StepOut"
             /\ r = "none" =>
                  /\ d.mode # "Paused"
                  /\ d.mode = "StepIn" => ~(src > 0 /\ src # d.src)
                  /\ d.mode = "StepOver" => ~(depth <= d.depth /\ src > 0 /\ src # d.src)
                  /\ d.mode = "StepOut" => ~(depth < d.depth)
                  /\ d.mode # "StepIn" => ~(src > 0 /\ src \in bps /\ src # d.last)
  <1> DEFINE new == src > 0 /\ src # d.src
             r == ShouldPause(d, src, depth)
  <1>1. CASE d.mode = "Paused"
    <2>1. r = "PauseRequest"
      BY <1>1, Zenon DEF ShouldPause
    <2> QED
      BY <1>1, <2>1 DEF Reasons
  <1>2. CASE d.mode = "StepIn"
    <2>1. r = IF new THEN "Step" ELSE "none"
      BY <1>2, Zenon DEF ShouldPause
    <2> QED
      BY <1>2, <2>1 DEF Reasons
  <1>3. CASE d.mode = "StepOver"
    <2>1. r = IF depth <= d.depth /\ new THEN "Step" ELSE CheckBreakpoint(d, src)
      BY <1>3, Zenon DEF ShouldPause
    <2> QED
      BY <1>3, <2>1 DEF Reasons, CheckBreakpoint
  <1>4. CASE d.mode = "StepOut"
    <2>1. r = IF depth < d.depth THEN "Step" ELSE CheckBreakpoint(d, src)
      BY <1>4, Zenon DEF ShouldPause
    <2> QED
      BY <1>4, <2>1 DEF Reasons, CheckBreakpoint
  <1>5. CASE d.mode = "Continue"
    <2>1. r = CheckBreakpoint(d, src)
      BY <1>5, Zenon DEF ShouldPause
    <2> QED
      BY <1>5, <2>1 DEF Reasons, CheckBreakpoint
  <1> QED
    BY <1>1, <1>2, <1>3, <1>4, <1>5 DEF DebugStates, Resumes

(* Every frame is at an instruction of its function.                       *)
ValidStack(s) == s \in Seq(Frames) /\ \A i \in 1..Len(s) : s[i].pc \in 1..CodeLength(s[i])

(* The top frame and what the compiler guarantees of its instruction.      *)
LEMMA TopIs ==
  ASSUME ValidStack(stack), stack # <<>>
  PROVE  /\ Depth \in Nat \ {0} /\ Top \in Frames /\ Top.pc \in 1..CodeLength(Top)
         /\ Ins.src \in Nat
         /\ Ins.op # "ret" => Top.pc + 1 \in 1..CodeLength(Top)
         /\ Ins.op = "jump" => Ins.to \in 1..CodeLength(Top)
         /\ Ins.op = "call" => Frame(Ins.to, NoSlot) \in Frames
         /\ Ins.op = "callfb" => Frame(Functions[Top.f].fbs[Ins.slot], Ins.slot) \in Frames
  <1>1. Depth \in Nat \ {0} /\ Top \in Frames /\ Top.pc \in 1..CodeLength(Top)
    BY DEF ValidStack, Depth, Top
  <1>2. Top.f \in 1..Len(Functions) /\ Top.pc \in 1..Len(Functions[Top.f].code)
    BY <1>1 DEF Frames, CodeLength
  <1>3. /\ Ins.src \in Nat
        /\ Len(Functions[Top.f].code) \in Nat
        /\ Ins.op # "ret" => Top.pc < Len(Functions[Top.f].code)
        /\ Ins.op = "jump" => Ins.to \in 1..Len(Functions[Top.f].code)
        /\ Ins.op = "call" => Ins.to \in 1..Len(Functions)
        /\ Ins.op = "callfb" => Ins.slot \in 1..Len(Functions[Top.f].fbs)
    BY <1>2, FunctionsAssumption DEF Ins
  <1>4. Ins.op = "callfb" => Functions[Top.f].fbs[Ins.slot] \in 1..Len(Functions) /\ Ins.slot \in Nat
    BY <1>2, <1>3, FunctionsAssumption
  <1> QED
    BY <1>1, <1>2, <1>3, <1>4 DEF Frames, Frame, NoSlot, CodeLength

LEMMA GotoValid ==
  ASSUME ValidStack(stack), stack # <<>>, NEW pc \in 1..CodeLength(Top)
  PROVE  ValidStack(Goto(pc)) /\ Len(Goto(pc)) = Depth
  <1>1. Depth \in 1..Len(stack) /\ Depth = Len(stack) /\ Top \in Frames /\ pc \in Nat
    BY TopIs DEF Depth
  <1>2. Goto(pc) = [stack EXCEPT ![Depth] = [Top EXCEPT !.pc = pc]]
    BY DEF Goto, Top
  <1>3. [Top EXCEPT !.pc = pc] \in Frames /\ [Top EXCEPT !.pc = pc].f = Top.f
        /\ [Top EXCEPT !.pc = pc].pc = pc
    BY <1>1 DEF Frames
  <1>4. Goto(pc) \in Seq(Frames) /\ Len(Goto(pc)) = Len(stack)
    BY <1>1, <1>2, <1>3 DEF ValidStack
  <1>5. ASSUME NEW i \in 1..Len(stack) PROVE Goto(pc)[i].pc \in 1..CodeLength(Goto(pc)[i])
    <2>1. CASE i = Depth
      BY <1>1, <1>2, <1>3, <2>1 DEF ValidStack, CodeLength
    <2>2. CASE i # Depth
      BY <1>1, <1>2, <2>2 DEF ValidStack
    <2> QED
      BY <2>1, <2>2
  <1> QED
    BY <1>1, <1>4, <1>5 DEF ValidStack

LEMMA PushValid ==
  ASSUME NEW s, ValidStack(s), NEW frame \in Frames, frame.pc = 1
  PROVE  ValidStack(Append(s, frame)) /\ Append(s, frame) # <<>>
  <1>1. Append(s, frame) \in Seq(Frames) /\ Len(Append(s, frame)) = Len(s) + 1 /\ Len(s) \in Nat
    BY DEF ValidStack
  <1>2. 1 \in 1..CodeLength(frame)
    BY FunctionsAssumption DEF Frames, CodeLength
  <1> QED
    BY <1>1, <1>2 DEF ValidStack

LEMMA PopValid ==
  ASSUME NEW s, ValidStack(s), s # <<>>
  PROVE  ValidStack(SubSeq(s, 1, Len(s) - 1))
  BY DEF ValidStack

(* The first program of the module exists: the entry point is one.         *)
LEMMA ProgramIs == Program \in 1..Len(Functions)
  <1> DEFINE S == {f \in 1..Len(Functions) : Functions[f].kind = "program"}
  <1>1. EntryPoint \in S /\ S \subseteq Nat
    BY LocalDebugAssumption
  <1>2. PICK f \in S : \A g \in S : f <= g
    BY <1>1, LeastNumber
  <1>3. f \in 1..Len(Functions) /\ Functions[f].kind = "program"
        /\ \A g \in 1..(f - 1) : Functions[g].kind # "program"
    BY <1>2, FunctionsAssumption
  <1> QED
    BY <1>3 DEF Program

LEMMA FirstFrame ==
  ASSUME NEW f \in 1..Len(Functions)
  PROVE  ValidStack(<<Frame(f, NoSlot)>>)
  <1>1. Frame(f, NoSlot) \in Frames /\ Frame(f, NoSlot).pc = 1
    BY DEF Frame, Frames, NoSlot
  <1>2. 1 \in 1..CodeLength(Frame(f, NoSlot))
    BY FunctionsAssumption DEF Frame, CodeLength
  <1> QED
    BY <1>1, <1>2 DEF ValidStack

-----------------------------------------------------------------------------
(* Types, the channel and who waits for whom *)

(* resume_execution is at work.                                            *)
InRun == phase \in {"start", "run", "poll", "sleep", "capped"}

(* Frames are at instructions until the instruction limit ends the run;    *)
(* between cycles of a run the stack is empty.                             *)
TypeInv ==
  /\ dbg \in DebugStates /\ run \in Runs /\ seen \in Notes
  /\ stack \in Seq(Frames)
  /\ \A i \in 1..Depth : stack[i].pc \in 1..(CodeLength(stack[i]) + 1)
  /\ client # "terminated" => ValidStack(stack)
  /\ phase \in {"recv", "entry", "start", "run", "poll", "sleep", "capped", "drain", "exited"}
  /\ client \in {"init", "stopped", "running", "failed", "terminated"}
  /\ InRun => client = "running" /\ run.mode \in Resumes
  /\ phase \in {"poll", "sleep", "capped"} => stack = <<>>

(* A client resumes only a stopped program, once, and launches only once:  *)
(* what it may send depends on what it was told.                           *)
ChannelInv ==
  /\ chan \in Seq(Requests) /\ deferred \in Seq(Requests)
  /\ phase = "entry" => client = "init" /\ chan = <<>>
  /\ client = "init" => phase \in {"recv", "entry"} /\ seen.mode = "none" /\ Len(chan) <= 1
  /\ phase \in {"recv", "entry"} => deferred = <<>>
  /\ \A i \in 1..Len(chan) : chan[i].c = "Launch" <=> client = "init"
  /\ \A i \in 1..Len(chan) : chan[i].c \in Resumes => client = "stopped"
  /\ \A i, j \in 1..Len(chan) : chan[i].c \in Resumes /\ chan[j].c \in Resumes => i = j

AdapterInv == TypeInv /\ ChannelInv

(* handle_request outside launch and resume sets breakpoints, pauses, or   *)
(* hands out references.                                                   *)
LEMMA HandleRequestIs ==
  ASSUME NEW q, HandleRequest(q)
  PROVE  \/ q.c = "SetBreakpoints" /\ HandleSetBreakpoints(q) /\ UNCHANGED <<dbg, refs>>
         \/ q.c = "Pause" /\ dbg' = Pause(dbg) /\ UNCHANGED <<bps, pend, refs>>
         \/ /\ q.c \notin {"SetBreakpoints", "Pause"} /\ UNCHANGED <<dbg, bps, pend>>
            /\ HandleScopes \/ HandleVariables(q.ref) \/ HandleEvaluate \/ refs' = refs
  <1>1. CASE q.c = "SetBreakpoints"
    BY <1>1, Zenon DEF HandleRequest
  <1>2. CASE q.c = "Pause"
    BY <1>2, Zenon DEF HandleRequest
  <1>3. CASE q.c = "Scopes"
    BY <1>3, Zenon DEF HandleRequest
  <1>4. CASE q.c = "Variables"
    BY <1>4, Zenon DEF HandleRequest
  <1>5. CASE q.c = "Evaluate"
    BY <1>5, Zenon DEF HandleRequest
  <1>6. CASE q.c \notin {"SetBreakpoints", "Pause", "Scopes", "Variables", "Evaluate"}
    <2>1. UNCHANGED <<dbg, bps, pend, refs>>
      BY <1>6, Zenon DEF HandleRequest
    <2> QED
      BY <1>6, <2>1
  <1> QED
    BY <1>1, <1>2, <1>3, <1>4, <1>5, <1>6

(* Of the debug state, handle_request changes the mode and the reason.     *)
LEMMA HandleRequestDebug ==
  ASSUME dbg \in DebugStates, NEW q, HandleRequest(q)
  PROVE  /\ dbg' \in DebugStates
         /\ dbg'.last = dbg.last /\ dbg'.src = dbg.src /\ dbg'.depth = dbg.depth
         /\ \/ dbg' = dbg /\ q.c # "Pause"
            \/ dbg'.mode = "Paused" /\ dbg'.reason = "PauseRequest" /\ q.c = "Pause"
  <1>1. CASE q.c = "Pause" /\ dbg' = Pause(dbg)
    BY <1>1 DEF Pause, DebugStates, Reasons
  <1>2. CASE q.c # "Pause" /\ dbg' = dbg
    BY <1>2
  <1> QED
    BY <1>1, <1>2, HandleRequestIs

(* The position a client resumes from.                                     *)
LEMMA SourceOffsetIs ==
  ASSUME ValidStack(stack)
  PROVE  SourceOffset \in Nat
  BY TopIs DEF SourceOffset

LEMMA ResumeTyped ==
  ASSUME NEW d \in DebugStates, NEW mode \in Resumes, NEW depth \in Nat, NEW src \in Nat
  PROVE  LET r == ResumeWithSource(d, mode, depth, src)
         IN  /\ r \in DebugStates
             /\ r.mode = mode /\ r.depth = depth /\ r.src = src
             /\ r.last = d.last /\ r.reason = "none"
  BY DEF ResumeWithSource, Resume, DebugStates, Reasons

(* The cycle that starts on an empty stack: paused at once, or in the      *)
(* mode of the run with no statement to step away from.                    *)
LEMMA FreshCycleIs ==
  ASSUME dbg \in DebugStates, run.mode \in Resumes, FreshCycle
  PROVE  /\ stack' = <<Frame(Program, NoSlot)>> /\ ValidStack(stack') /\ stack' # <<>>
         /\ dbg' \in DebugStates /\ dbg'.last = dbg.last
         /\ \/ dbg.mode = "Paused" /\ dbg' = dbg
            \/ /\ dbg.mode # "Paused" /\ dbg'.mode = run.mode /\ dbg'.depth = 0 /\ dbg'.src = 0
               /\ dbg'.reason = "none"
  <1>1. stack' = <<Frame(Program, NoSlot)>> /\ ValidStack(stack')
    BY ProgramIs, FirstFrame DEF FreshCycle
  <1>2. CASE dbg.mode = "Paused"
    BY <1>1, <1>2 DEF FreshCycle
  <1>3. CASE dbg.mode # "Paused"
    <2>1. dbg' = ResumeWithSource(dbg, run.mode, 0, 0)
      BY <1>3 DEF FreshCycle
    <2> QED
      BY <1>1, <1>3, <2>1, ResumeTyped
  <1> QED
    BY <1>2, <1>3

(* While the machine executes, its stack is valid.                         *)
LEMMA ExecutingIs ==
  ASSUME AdapterInv, Executing
  PROVE  /\ ValidStack(stack) /\ stack # <<>>
         /\ client = (IF phase = "entry" THEN "init" ELSE "running")
         /\ Depth \in Nat \ {0} /\ Ins.src \in Nat
         /\ dbg \in DebugStates /\ Moved(dbg, Ins.src) \in DebugStates
  <1>1. client = (IF phase = "entry" THEN "init" ELSE "running") /\ stack # <<>>
    BY DEF AdapterInv, TypeInv, ChannelInv, Executing, InRun
  <1>2. ValidStack(stack) /\ dbg \in DebugStates
    BY <1>1 DEF AdapterInv, TypeInv
  <1> QED
    BY <1>1, <1>2, TopIs, MovedIs

(* One instruction: the stack stays valid.                                 *)
LEMMA ExecuteStack ==
  ASSUME AdapterInv, Execute
  PROVE  ValidStack(stack')
  <1>1. Executing
    BY DEF Execute
  <1>2. ValidStack(stack) /\ stack # <<>>
    BY <1>1, ExecutingIs
  <1>3. CASE Ins.op = "op" /\ stack' = Goto(Top.pc + 1)
    BY <1>2, <1>3, TopIs, GotoValid
  <1>4. CASE Ins.op = "jump" /\ \E pc \in {Top.pc + 1, Ins.to} : stack' = Goto(pc)
    <2>1. PICK pc \in {Top.pc + 1, Ins.to} : stack' = Goto(pc)
      BY <1>4
    <2>2. pc \in 1..CodeLength(Top)
      BY <1>2, <1>4, TopIs
    <2> QED
      BY <1>2, <2>1, <2>2, GotoValid
  <1>5. CASE Ins.op = "call" /\ stack' = Append(Goto(Top.pc + 1), Frame(Ins.to, NoSlot))
    <2>1. ValidStack(Goto(Top.pc + 1)) /\ Frame(Ins.to, NoSlot) \in Frames
      BY <1>2, <1>5, TopIs, GotoValid
    <2>2. Frame(Ins.to, NoSlot).pc = 1
      BY DEF Frame
    <2> QED
      BY <1>5, <2>1, <2>2, PushValid
  <1>6. CASE /\ Ins.op = "callfb"
             /\ stack' = Append(Goto(Top.pc + 1), Frame(Functions[Top.f].fbs[Ins.slot], Ins.slot))
    <2>1. /\ ValidStack(Goto(Top.pc + 1))
          /\ Frame(Functions[Top.f].fbs[Ins.slot], Ins.slot) \in Frames
      BY <1>2, <1>6, TopIs, GotoValid
    <2>2. Frame(Functions[Top.f].fbs[Ins.slot], Ins.slot).pc = 1
      BY DEF Frame
    <2> QED
      BY <1>6, <2>1, <2>2, PushValid
  <1>7. CASE Ins.op = "ret" /\ stack' = SubSeq(stack, 1, Depth - 1)
    BY <1>2, <1>7, PopValid DEF Depth
  <1> QED
    BY <1>3, <1>4, <1>5, <1>6, <1>7 DEF Execute

(* The note taken of an instruction.                                       *)
LEMMA NoteIs ==
  ASSUME AdapterInv, Executing
  PROVE  /\ Note \in Notes
         /\ Note.mode = seen.mode /\ Note.depth = seen.depth /\ Note.src = seen.src
         /\ Note.hit = IF Ins.src > 0 /\ Ins.src # seen.hit THEN 0 ELSE seen.hit
         /\ \/ Note.passed = seen.passed
            \/ Ins.src > 0 /\ StepConcerns /\ Note.passed = seen.passed \cup {Ins.src}
  <1> DEFINE passed == IF Begins /\ StepConcerns /\ ~seen.here THEN seen.passed \cup {Ins.src} ELSE seen.passed
             hit == IF Ins.src > 0 /\ Ins.src # seen.hit THEN 0 ELSE seen.hit
  <1>1. seen \in Notes /\ Ins.src \in Nat
    BY ExecutingIs DEF AdapterInv, TypeInv
  <1>2. Note = [seen EXCEPT !.here = FALSE, !.passed = passed, !.hit = hit]
    BY DEF Note
  <1>3. hit \in Nat
    BY <1>1 DEF Notes
  <1>4. passed \in SUBSET Nat
    BY <1>1 DEF Notes
  <1>5. passed = seen.passed \/ (Ins.src > 0 /\ StepConcerns /\ passed = seen.passed \cup {Ins.src})
    BY DEF Begins
  <1> HIDE DEF passed, hit
  <1>6. /\ Note \in Notes
        /\ Note.mode = seen.mode /\ Note.depth = seen.depth /\ Note.src = seen.src
        /\ Note.passed = passed /\ Note.hit = hit
    BY <1>1, <1>2, <1>3, <1>4 DEF Notes
  <1> QED
    BY <1>5, <1>6 DEF hit

(* The note taken of a stop.                                               *)
LEMMA HaltNote ==
  ASSUME AdapterInv, Halt
  PROVE  /\ seen' \in Notes
         /\ seen'.mode = seen.mode /\ seen'.depth = seen.depth /\ seen'.src = seen.src
         /\ seen'.passed = seen.passed
  <1> DEFINE hit == IF ShouldPause(Moved(dbg, Ins.src), Ins.src, Depth) = "Breakpoint" THEN Ins.src ELSE seen.hit
  <1>1. Executing /\ seen' = [seen EXCEPT !.hit = hit]
    BY DEF Halt
  <1>2. seen \in Notes /\ Ins.src \in Nat
    BY <1>1, ExecutingIs DEF AdapterInv, TypeInv
  <1>3. hit \in Nat
    BY <1>2 DEF Notes
  <1> HIDE DEF hit
  <1> QED
    BY <1>1, <1>2, <1>3 DEF Notes

LEMMA AppendTyped ==
  ASSUME NEW T, NEW s \in Seq(T), NEW x \in T
  PROVE  Append(s, x) \in Seq(T)
  OBVIOUS

(* Where a poll of the channel between two cycles leads.                   *)
LEMMA PollDoneIs ==
  ASSUME PollDone
  PROVE  \/ run.pause /\ phase' = "drain" /\ client' = "stopped"
         \/ ~run.pause /\ phase' = "drain" /\ client' = client
         \/ ~run.pause /\ phase' \in {"sleep", "capped"} /\ client' = client
  <1>1. CASE run.pause
    BY <1>1, Zenon DEF PollDone
  <1>2. CASE ~run.pause /\ run.gone
    BY <1>2, Zenon DEF PollDone
  <1>3. CASE ~run.pause /\ ~run.gone
    BY <1>3, Zenon DEF PollDone
  <1> QED
    BY <1>1, <1>2, <1>3

(* A step that leaves the stack and the notes alone keeps the types when   *)
(* the phase and the client's knowledge fit.                               *)
LEMMA TypeKept ==
  ASSUME TypeInv, UNCHANGED stack, seen' \in Notes, dbg' \in DebugStates, run' \in Runs,
         phase' \in {"recv", "entry", "start", "run", "poll", "sleep", "capped", "drain", "exited"},
         client' \in {"init", "stopped", "running", "failed", "terminated"},
         client = "terminated" => client' = "terminated",
         InRun' => client' = "running" /\ run'.mode \in Resumes,
         phase' \in {"poll", "sleep", "capped"} => stack = <<>>
  PROVE  TypeInv'
  BY DEF TypeInv, Depth, ValidStack, CodeLength

(* Types are kept by every step.                                           *)
LEMMA TypeStep ==
  ASSUME AdapterInv, [Next]_vars
  PROVE  TypeInv'
  <1> USE DEF AdapterInv, machine
  <1> TypeInv /\ ChannelInv
    OBVIOUS
  <1>0. /\ dbg \in DebugStates /\ run \in Runs /\ seen \in Notes
        /\ phase \in {"recv", "entry", "start", "run", "poll", "sleep", "capped", "drain", "exited"}
        /\ client \in {"init", "stopped", "running", "failed", "terminated"}
        /\ InRun => client = "running" /\ run.mode \in Resumes
        /\ phase \in {"poll", "sleep", "capped"} => stack = <<>>
    BY DEF TypeInv
  <1>1. ASSUME UNCHANGED <<phase, client, stack, seen, run>>, dbg' \in DebugStates PROVE TypeInv'
    BY <1>0, <1>1, TypeKept DEF InRun
  <1>2. ASSUME NEW q \in Requests, Send(q) PROVE TypeInv'
    BY <1>0, <1>1, <1>2 DEF Send
  <1>3. CASE Receive
    <2>1. CASE Head(chan).c = "Launch" /\ LaunchFails
      <3>1. client = "init"
        BY <1>3, <2>1 DEF Receive, ChannelInv
      <3>2. /\ UNCHANGED <<stack, seen, dbg, run>> /\ client' = "failed" /\ phase' = "recv"
        BY <2>1 DEF LaunchFails
      <3> QED
        BY <1>0, <3>1, <3>2, TypeKept DEF InRun
    <2>2. CASE HandleLaunch
      <3>1. /\ stack' = <<Frame(EntryPoint, NoSlot)>> /\ dbg' = Resume(NewDebugState, "StepIn", 0)
            /\ phase' = "entry" /\ UNCHANGED <<client, seen, run>>
        BY <2>2 DEF HandleLaunch
      <3>2. ValidStack(stack')
        BY <3>1, FirstFrame, LocalDebugAssumption
      <3>3. stack' \in Seq(Frames) /\ \A i \in 1..Len(stack') : stack'[i].pc \in 1..(CodeLength(stack'[i]) + 1)
        <4>1. stack'[1].f = EntryPoint /\ Len(stack') = 1 /\ stack'[1].pc = 1
          BY <3>1 DEF Frame
        <4>2. Len(Functions[EntryPoint].code) \in Nat
          BY LocalDebugAssumption, FunctionsAssumption
        <4> QED
          BY <3>2, <4>1, <4>2 DEF ValidStack, CodeLength
      <3>4. dbg' \in DebugStates
        BY <3>1 DEF Resume, NewDebugState, DebugStates, Resumes, Reasons
      <3> QED
        BY <1>0, <3>1, <3>2, <3>3, <3>4 DEF TypeInv, InRun, Depth, ValidStack, CodeLength
    <2>3. CASE /\ HandleRequest(Head(chan))
               /\ phase' = IF Head(chan).c = "Disconnect" THEN "exited" ELSE "recv"
               /\ UNCHANGED <<machine, client, seen, run>>
      <3>1. dbg' \in DebugStates
        BY <1>0, <2>3, HandleRequestDebug
      <3> QED
        BY <1>0, <2>3, <3>1, TypeKept DEF InRun
    <2> QED
      BY <1>3, <2>1, <2>2, <2>3 DEF Receive
  <1>4. CASE ReceiveResume
    <2>1. client = "stopped" /\ Head(chan).c \in Resumes
      BY <1>4 DEF ReceiveResume, ChannelInv
    <2>2. ValidStack(stack) /\ Depth \in Nat /\ SourceOffset \in Nat
      BY <2>1, SourceOffsetIs DEF TypeInv, Depth, ValidStack
    <2>3. dbg' \in DebugStates
      BY <1>0, <1>4, <2>1, <2>2, ResumeTyped DEF ReceiveResume
    <2>4. run' \in Runs /\ run'.mode \in Resumes
      <3>1. run' = [NoRun EXCEPT !.mode = Head(chan).c] /\ NoRun \in Runs
        BY <1>4, LocalDebugAssumption DEF ReceiveResume, NoRun, Runs
      <3> QED
        BY <2>1, <3>1 DEF Runs
    <2>5. seen' \in Notes
      <3>1. seen.hit \in Nat /\ (stack # <<>>) \in BOOLEAN
        BY <1>0 DEF Notes
      <3> QED
        BY <1>4, <2>1, <2>2, <3>1 DEF ReceiveResume, Notes
    <2>6. UNCHANGED stack /\ phase' = "start" /\ client' = "running"
      BY <1>4 DEF ReceiveResume
    <2> QED
      BY <2>2, <2>3, <2>4, <2>5, <2>6 DEF TypeInv, InRun, Depth, ValidStack, CodeLength
  <1>5. CASE StepIteration
    <2>1. phase = "start" /\ client = "running" /\ run.mode \in Resumes /\ phase' = "run"
          /\ UNCHANGED <<client, run, seen>>
      BY <1>0, <1>5 DEF StepIteration, InRun
    <2>2. CASE stack # <<>>
      BY <1>0, <1>5, <2>1, <2>2, TypeKept DEF StepIteration, InRun
    <2>3. CASE stack = <<>>
      <3>1. ValidStack(stack') /\ dbg' \in DebugStates /\ stack' = <<Frame(Program, NoSlot)>>
        BY <1>0, <1>5, <2>1, <2>3, FreshCycleIs DEF StepIteration
      <3>2. Len(Functions[Program].code) \in Nat
        BY ProgramIs, FunctionsAssumption
      <3>3. \A i \in 1..Len(stack') : stack'[i].pc \in 1..(CodeLength(stack'[i]) + 1)
        BY <3>1, <3>2 DEF Frame, CodeLength
      <3> QED
        BY <1>0, <2>1, <3>1, <3>3 DEF TypeInv, InRun, Depth, ValidStack, CodeLength
    <2> QED
      BY <2>2, <2>3
  <1>6. CASE CycleCompleted
    <2>1. CASE phase = "entry"
      <3>1. client = "init"
        BY <2>1 DEF ChannelInv
      <3>2. phase' = "recv" /\ client' = "stopped" /\ UNCHANGED <<run, dbg, stack, seen>>
        BY <1>6, <2>1 DEF CycleCompleted
      <3> QED
        BY <1>0, <3>1, <3>2, TypeKept DEF InRun
    <2>2. CASE phase = "run"
      <3>1. /\ phase' = (IF run.mode = "Continue" THEN "poll" ELSE "start")
            /\ run' = [run EXCEPT !.cycles = IF @ < SafetyCycleCap THEN @ + 1 ELSE @,
                                  !.mode = IF @ = "Continue" THEN @ ELSE "StepIn"]
            /\ UNCHANGED <<client, dbg, stack, seen>> /\ stack = <<>>
        BY <1>6, <2>2 DEF CycleCompleted
      <3>2. client = "running" /\ run.mode \in Resumes
        BY <1>0, <2>2 DEF InRun
      <3>3. (IF run.cycles < SafetyCycleCap THEN run.cycles + 1 ELSE run.cycles) \in 0..SafetyCycleCap
        BY <1>0, LocalDebugAssumption DEF Runs
      <3>4. (IF run.mode = "Continue" THEN run.mode ELSE "StepIn") \in Resumes
        BY DEF Resumes
      <3>5. run' \in Runs /\ run'.mode \in Resumes
        BY <1>0, <3>1, <3>3, <3>4 DEF Runs
      <3> QED
        BY <1>0, <3>1, <3>2, <3>5, TypeKept DEF InRun
    <2> QED
      BY <1>6, <2>1, <2>2 DEF CycleCompleted
  <1>7. CASE Halt
    <2> DEFINE d == Moved(dbg, Ins.src)
               r == ShouldPause(d, Ins.src, Depth)
    <2>1. Executing /\ dbg' = [MarkPaused(d, r) EXCEPT !.last = IF r = "Breakpoint" THEN Ins.src ELSE @]
      BY <1>7 DEF Halt
    <2>2. d \in DebugStates /\ Ins.src \in Nat /\ Depth \in Nat /\ client # "terminated"
      BY <2>1, ExecutingIs
    <2>3. r \in Reasons
      BY <2>2, ShouldPauseIs
    <2> HIDE DEF d, r
    <2>4. MarkPaused(d, r) \in DebugStates
      BY <2>2, <2>3 DEF MarkPaused, DebugStates
    <2>5. dbg' \in DebugStates
      BY <2>1, <2>2, <2>4 DEF DebugStates
    <2>6. phase' \in {"recv", "drain"} /\ client' = "stopped" /\ UNCHANGED <<stack, run>> /\ seen' \in Notes
      BY <1>7, HaltNote DEF Halt
    <2> QED
      BY <1>0, <2>2, <2>5, <2>6, TypeKept DEF InRun
  <1>8. CASE Execute
    <2>1. Executing /\ UNCHANGED <<phase, client, run>> /\ seen' = Note /\ dbg' = Moved(dbg, Ins.src)
      BY <1>8 DEF Execute
    <2>2. ValidStack(stack') /\ dbg' \in DebugStates /\ seen' \in Notes
      BY <1>8, <2>1, ExecuteStack, ExecutingIs, NoteIs
    <2>3. phase \in {"entry", "run"}
      BY <2>1 DEF Executing
    <2>4. stack' \in Seq(Frames) /\ \A i \in 1..Len(stack') : stack'[i].pc \in 1..(CodeLength(stack'[i]) + 1)
      <3> SUFFICES ASSUME NEW i \in 1..Len(stack')
                   PROVE  stack'[i].pc \in 1..(CodeLength(stack'[i]) + 1)
        BY <2>2 DEF ValidStack
      <3>1. stack'[i] \in Frames /\ stack'[i].pc \in 1..CodeLength(stack'[i])
        BY <2>2 DEF ValidStack
      <3>2. CodeLength(stack'[i]) \in Nat
        BY <3>1, FunctionsAssumption DEF Frames, CodeLength
      <3> QED
        BY <3>1, <3>2
    <2> QED
      BY <1>0, <2>1, <2>2, <2>3, <2>4 DEF TypeInv, InRun, Depth, ValidStack, CodeLength
  <1>9. CASE ExecutionLimit
    <2>1. Executing /\ dbg' = Moved(dbg, Ins.src) /\ stack' = Goto(Top.pc + 1)
          /\ phase' = "drain" /\ client' = "terminated" /\ UNCHANGED <<run, seen>>
      BY <1>9 DEF ExecutionLimit
    <2>2. ValidStack(stack) /\ stack # <<>> /\ dbg' \in DebugStates
      BY <2>1, ExecutingIs
    <2>3. /\ Depth \in 1..Len(stack) /\ Depth = Len(stack) /\ Top \in Frames /\ Top.pc \in 1..CodeLength(Top)
          /\ \A i \in 1..Len(stack) : stack[i].pc \in 1..(CodeLength(stack[i]) + 1)
      BY <2>2, TopIs DEF Depth, TypeInv
    <2>4. CodeLength(Top) \in Nat
      BY <2>3, FunctionsAssumption DEF Frames, CodeLength
    <2>5. stack' = [stack EXCEPT ![Depth] = [Top EXCEPT !.pc = Top.pc + 1]]
      BY <2>1 DEF Goto, Top
    <2>6. /\ [Top EXCEPT !.pc = Top.pc + 1] \in Frames
          /\ [Top EXCEPT !.pc = Top.pc + 1].f = Top.f /\ [Top EXCEPT !.pc = Top.pc + 1].pc = Top.pc + 1
      BY <2>3 DEF Frames
    <2>7. stack' \in Seq(Frames) /\ Len(stack') = Len(stack)
      BY <2>2, <2>3, <2>5, <2>6 DEF ValidStack
    <2>8. ASSUME NEW i \in 1..Len(stack) PROVE stack'[i].pc \in 1..(CodeLength(stack'[i]) + 1)
      <3>1. CASE i = Depth
        <4>1. stack'[i] = [Top EXCEPT !.pc = Top.pc + 1]
          BY <2>2, <2>3, <2>5, <3>1 DEF ValidStack
        <4>2. CodeLength(stack'[i]) = CodeLength(Top)
          BY <2>6, <4>1 DEF CodeLength
        <4> QED
          BY <2>3, <2>4, <2>6, <4>1, <4>2
      <3>2. CASE i # Depth
        BY <2>2, <2>3, <2>5, <3>2 DEF ValidStack
      <3> QED
        BY <3>1, <3>2
    <2> QED
      BY <1>0, <2>1, <2>2, <2>7, <2>8 DEF TypeInv, InRun, Depth, CodeLength
  <1>10. CASE InflightRequest
    <2>1. dbg' \in DebugStates
      <3>1. CASE UNCHANGED dbg
        BY <1>0, <3>1
      <3>2. CASE HandleRequest(Head(chan))
        BY <1>0, <3>2, HandleRequestDebug
      <3> QED
        BY <1>10, <3>1, <3>2 DEF InflightRequest
    <2>2. UNCHANGED <<phase, client, stack, seen>>
      BY <1>10 DEF InflightRequest
    <2>3. run' \in Runs /\ run'.mode = run.mode
      <3> DEFINE p == run.pause \/ Head(chan).c = "Pause"
                 g == run.gone \/ Head(chan).c = "Disconnect"
      <3>1. run' = [run EXCEPT !.pause = p, !.gone = g]
        BY <1>10 DEF InflightRequest
      <3>2. p \in BOOLEAN /\ g \in BOOLEAN
        OBVIOUS
      <3> HIDE DEF p, g
      <3> QED
        BY <1>0, <3>1, <3>2 DEF Runs
    <2> QED
      BY <1>0, <2>1, <2>2, <2>3, TypeKept DEF InRun
  <1>11. CASE PollDone \/ SleepDone
    <2>1. phase \in {"poll", "sleep"} /\ client = "running" /\ run.mode \in Resumes /\ stack = <<>>
      BY <1>0, <1>11 DEF PollDone, SleepDone, InRun
    <2>2. run' = [run EXCEPT !.pause = FALSE, !.gone = FALSE] /\ UNCHANGED <<dbg, stack, seen>>
      BY <1>11 DEF PollDone, SleepDone
    <2>3. run' \in Runs /\ run'.mode = run.mode
      BY <1>0, <2>2 DEF Runs
    <2>4. \/ phase' = "drain" /\ client' \in {"stopped", client}
          \/ phase' \in {"start", "sleep", "capped"} /\ client' = client
      <3>1. CASE SleepDone
        BY <3>1 DEF SleepDone
      <3>2. CASE PollDone
        BY <3>2, PollDoneIs
      <3> QED
        BY <1>11, <3>1, <3>2
    <2> QED
      BY <1>0, <2>1, <2>2, <2>3, <2>4, TypeKept DEF InRun
  <1>12. CASE CycleCap
    <2>1. client = "running" /\ run.mode \in Resumes
      BY <1>0, <1>12 DEF CycleCap, InRun
    <2>2. /\ \/ phase' = "drain" /\ client' = "terminated"
             \/ phase' = "start" /\ client' = client
          /\ UNCHANGED <<dbg, stack, seen, run>>
      BY <1>12 DEF CycleCap
    <2> QED
      BY <1>0, <2>1, <2>2, TypeKept DEF InRun
  <1>13. CASE HandleDeferred
    <2>1. phase' \in {"recv", "drain", "exited"} /\ UNCHANGED <<client, stack, seen>> /\ run' = NoRun
      BY <1>13 DEF HandleDeferred
    <2>2. run' \in Runs
      BY <2>1, LocalDebugAssumption DEF NoRun, Runs
    <2>3. dbg' \in DebugStates
      <3>1. CASE HandleRequest(Head(deferred))
        BY <1>0, <3>1, HandleRequestDebug
      <3>2. CASE UNCHANGED dbg
        BY <1>0, <3>2
      <3> QED
        BY <1>13, <3>1, <3>2 DEF HandleDeferred
    <2> QED
      BY <1>0, <2>1, <2>2, <2>3, TypeKept DEF InRun
  <1>14. CASE UNCHANGED vars
    BY <1>0, <1>1, <1>14 DEF vars
  <1> QED
    BY <1>2, <1>3, <1>4, <1>5, <1>6, <1>7, <1>8, <1>9, <1>10, <1>11, <1>12, <1>13, <1>14 DEF Next

(* Only a launch is sent first and only then, and a resume request only to *)
(* a stopped program for which none is under way.                          *)
LEMMA AllowedIs ==
  ASSUME NEW q \in Requests, Allowed(q)
  PROVE  /\ q.c = "Launch" <=> client = "init"
         /\ q.c \in Resumes => client = "stopped" /\ Waiting \cap Resumes = {}
  <1> USE DEF Resumes
  <1>1. q.c \in {"Launch", "Pause", "Disconnect", "Scopes", "Variables", "Evaluate", "SetBreakpoints"} \cup Resumes
    BY DEF Requests
  <1>2. CASE q.c = "Launch"
    <2>1. client = "init"
      BY <1>2, Zenon DEF Allowed
    <2> QED
      BY <1>2, <2>1
  <1>3. CASE q.c \in Resumes
    <2>1. client = "stopped" /\ Waiting \cap Resumes = {} /\ q.c # "Launch"
      <3>1. q.c # "Launch"
        BY <1>3
      <3> QED
        BY <1>3, <3>1, Zenon DEF Allowed
    <2> QED
      BY <2>1
  <1>4. CASE q.c = "Pause"
    <2>1. client = "running"
      BY <1>4, Zenon DEF Allowed
    <2> QED
      BY <1>4, <2>1
  <1>5. CASE q.c \in {"Scopes", "Variables"}
    <2>1. client = "stopped"
      <3>1. q.c \notin Resumes /\ q.c # "Launch" /\ q.c # "Pause"
        BY <1>5
      <3> QED
        BY <1>5, <3>1, Zenon DEF Allowed
    <2> QED
      BY <1>5, <2>1
  <1>6. CASE q.c \in {"SetBreakpoints", "Evaluate"}
    <2>1. client \in {"stopped", "running"}
      <3>1. q.c \notin Resumes /\ q.c # "Launch" /\ q.c # "Pause" /\ q.c \notin {"Scopes", "Variables"}
        BY <1>6
      <3> QED
        BY <1>6, <3>1, Zenon DEF Allowed
    <2> QED
      BY <1>6, <2>1
  <1>7. CASE q.c = "Disconnect"
    <2>1. client # "init"
      BY <1>7, Zenon DEF Allowed
    <2> QED
      BY <1>7, <2>1
  <1> QED
    BY <1>1, <1>2, <1>3, <1>4, <1>5, <1>6, <1>7

(* The channel keeps the client's promises.                                *)
LEMMA ChannelStep ==
  ASSUME AdapterInv, [Next]_vars
  PROVE  ChannelInv'
  <1> USE DEF AdapterInv, machine
  <1> TypeInv /\ ChannelInv
    OBVIOUS
  <1>0. chan \in Seq(Requests) /\ deferred \in Seq(Requests) /\ seen \in Notes
    BY DEF ChannelInv, TypeInv
  <1>1. ASSUME UNCHANGED chan, client # "init", client' # "init", phase' # "entry",
               client = "stopped" => client' = "stopped",
               deferred' \in Seq(Requests), phase' = "recv" => deferred' = <<>>
        PROVE  ChannelInv'
    BY <1>0, <1>1 DEF ChannelInv
  <1>2. ASSUME NEW q \in Requests, Send(q) PROVE ChannelInv'
    <2>1. /\ chan' = Append(chan, q) /\ q.c \notin Waiting /\ Allowed(q)
          /\ UNCHANGED <<phase, client, deferred, seen>> /\ phase \in {"recv", "poll", "sleep"}
      BY <1>2 DEF Send
    <2>2. /\ q.c = "Launch" <=> client = "init"
          /\ q.c \in Resumes => client = "stopped" /\ Waiting \cap Resumes = {}
      BY <2>1, AllowedIs
    <2>3. \A i \in 1..Len(chan) : chan[i].c \in Waiting
      BY DEF Waiting
    <2>4. /\ chan' \in Seq(Requests) /\ Len(chan') = Len(chan) + 1 /\ Len(chan) \in Nat
          /\ \A i \in 1..Len(chan) : chan'[i] = chan[i]
          /\ chan'[Len(chan) + 1] = q
      BY <1>0, <2>1
    <2>5. \A i \in 1..Len(chan') : i \in 1..Len(chan) \/ i = Len(chan) + 1
      BY <2>4
    <2>6. client = "init" => Len(chan') <= 1
      <3> SUFFICES ASSUME client = "init", Len(chan) > 0 PROVE FALSE
        BY <2>4
      <3>1. 1 \in 1..Len(chan)
        BY <2>4
      <3>2. chan[1].c = "Launch"
        BY <3>1 DEF ChannelInv
      <3> QED
        BY <2>1, <2>2, <2>3, <3>1, <3>2
    <2>7. \A i \in 1..Len(chan') : chan'[i].c = "Launch" <=> client = "init"
      BY <2>2, <2>4, <2>5 DEF ChannelInv
    <2>8. \A i \in 1..Len(chan') : chan'[i].c \in Resumes => client = "stopped"
      BY <2>2, <2>4, <2>5 DEF ChannelInv
    <2>9. ASSUME NEW i \in 1..Len(chan'), NEW j \in 1..Len(chan'),
                 chan'[i].c \in Resumes, chan'[j].c \in Resumes
          PROVE  i = j
      <3>1. q.c \in Resumes => \A k \in 1..Len(chan) : chan[k].c \notin Resumes
        BY <2>2, <2>3
      <3> QED
        BY <2>4, <2>5, <2>9, <3>1 DEF ChannelInv
    <2>10. phase # "entry"
      BY <2>1
    <2> QED
      BY <1>0, <2>1, <2>4, <2>6, <2>7, <2>8, <2>9, <2>10 DEF ChannelInv
  <1>3. ASSUME phase = "recv", chan # <<>>, chan' = Tail(chan), UNCHANGED <<seen, deferred>>,
               client # "init", client' # "init", client' = "stopped" \/ Head(chan).c \in Resumes \/ client' = client,
               phase' # "entry"
        PROVE  ChannelInv'
    <2>1. /\ chan' \in Seq(Requests) /\ Len(chan') = Len(chan) - 1 /\ Len(chan) \in Nat
          /\ \A i \in 1..Len(chan') : chan'[i] = chan[i + 1] /\ i + 1 \in 1..Len(chan)
          /\ 1 \in 1..Len(chan) /\ chan[1] = Head(chan)
      BY <1>0, <1>3
    <2>2. \A i \in 1..Len(chan') : chan'[i].c # "Launch"
      BY <1>3, <2>1 DEF ChannelInv
    <2>3. ASSUME NEW i \in 1..Len(chan'), chan'[i].c \in Resumes PROVE client' = "stopped"
      <3>1. chan[i + 1].c \in Resumes /\ i + 1 \in 1..Len(chan) /\ i + 1 # 1
        BY <2>1, <2>3
      <3>2. Head(chan).c \notin Resumes
        BY <2>1, <3>1 DEF ChannelInv
      <3>3. client = "stopped"
        BY <3>1 DEF ChannelInv
      <3> QED
        BY <1>3, <3>2, <3>3
    <2>4. ASSUME NEW i \in 1..Len(chan'), NEW j \in 1..Len(chan'),
                 chan'[i].c \in Resumes, chan'[j].c \in Resumes
          PROVE  i = j
      <3>1. i + 1 = j + 1
        BY <2>1, <2>4 DEF ChannelInv
      <3> QED
        BY <2>1, <3>1
    <2>5. deferred' = <<>>
      BY <1>3 DEF ChannelInv
    <2> QED
      BY <1>0, <1>3, <2>1, <2>2, <2>3, <2>4, <2>5 DEF ChannelInv
  <1>4. CASE Receive
    <2>1. phase = "recv" /\ chan # <<>> /\ chan' = Tail(chan) /\ UNCHANGED <<sent, deferred>>
      BY <1>4 DEF Receive
    <2>2. Len(chan) \in Nat /\ 1 \in 1..Len(chan) /\ chan[1] = Head(chan)
      BY <1>0, <2>1
    <2>3. CASE Head(chan).c = "Launch" /\ (LaunchFails \/ HandleLaunch)
      <3>1. client = "init" /\ Len(chan) <= 1 /\ seen.mode = "none"
        BY <2>2, <2>3 DEF ChannelInv
      <3>2. chan' = <<>>
        BY <1>0, <2>1, <2>2, <3>1
      <3>3. deferred' = <<>> /\ UNCHANGED seen
        BY <2>1, <2>3 DEF ChannelInv, LaunchFails, HandleLaunch
      <3>4. (client' = "failed" /\ phase' = "recv") \/ (client' = client /\ phase' = "entry")
        BY <2>3 DEF LaunchFails, HandleLaunch
      <3> QED
        BY <3>1, <3>2, <3>3, <3>4 DEF ChannelInv
    <2>4. CASE /\ Head(chan).c \notin Resumes \cup {"Launch"}
               /\ phase' = IF Head(chan).c = "Disconnect" THEN "exited" ELSE "recv"
               /\ UNCHANGED <<machine, client, seen, run>>
      <3>1. client # "init"
        BY <2>2, <2>4 DEF ChannelInv
      <3> QED
        BY <1>3, <2>1, <2>4, <3>1
    <2> QED
      BY <1>4, <2>3, <2>4 DEF Receive
  <1>5. CASE ReceiveResume
    <2>1. /\ phase = "recv" /\ chan # <<>> /\ chan' = Tail(chan) /\ UNCHANGED deferred
          /\ Head(chan).c \in Resumes /\ client' = "running" /\ phase' = "start"
      BY <1>5 DEF ReceiveResume
    <2>2. /\ chan' \in Seq(Requests) /\ Len(chan') = Len(chan) - 1 /\ Len(chan) \in Nat
          /\ \A i \in 1..Len(chan') : chan'[i] = chan[i + 1] /\ i + 1 \in 1..Len(chan) /\ i + 1 # 1
          /\ 1 \in 1..Len(chan) /\ chan[1] = Head(chan)
      BY <1>0, <2>1
    <2>3. client # "init"
      BY <2>1, <2>2 DEF ChannelInv, Resumes
    <2>4. \A i \in 1..Len(chan') : chan'[i].c # "Launch" /\ chan'[i].c \notin Resumes
      BY <2>1, <2>2, <2>3 DEF ChannelInv
    <2> QED
      BY <1>0, <2>1, <2>2, <2>4 DEF ChannelInv
  <1>6. ASSUME phase \in {"start", "run", "poll", "sleep", "capped"} PROVE client = "running"
    BY <1>6 DEF TypeInv, InRun
  <1>7. CASE StepIteration
    BY <1>0, <1>1, <1>6, <1>7 DEF StepIteration
  <1>8. CASE CycleCompleted \/ Halt
    <2>1. CASE phase = "entry"
      <3>1. client = "init" /\ chan = <<>> /\ deferred = <<>>
        BY <2>1 DEF ChannelInv
      <3>2. phase' = "recv" /\ client' = "stopped" /\ UNCHANGED <<chan, deferred>>
        BY <1>8, <2>1 DEF CycleCompleted, Halt
      <3> QED
        BY <3>1, <3>2 DEF ChannelInv
    <2>2. CASE phase = "run"
      <3>1. phase' \in {"poll", "start", "drain"} /\ client' \in {client, "stopped"}
            /\ UNCHANGED <<chan, deferred>>
        BY <1>8, <2>2 DEF CycleCompleted, Halt
      <3> QED
        BY <1>0, <1>1, <1>6, <2>2, <3>1
    <2> QED
      BY <1>8, <2>1, <2>2 DEF CycleCompleted, Halt, Executing
  <1>9. CASE Execute
    <2>1. Executing /\ UNCHANGED <<phase, chan, client, deferred>> /\ seen' = Note
      BY <1>9 DEF Execute
    <2>2. seen'.mode = seen.mode
      BY <2>1, NoteIs
    <2> QED
      BY <1>0, <2>1, <2>2 DEF ChannelInv
  <1>10. CASE ExecutionLimit
    BY <1>0, <1>1, <1>6, <1>10 DEF ExecutionLimit
  <1>11. CASE InflightRequest
    <2>1. client = "running" /\ phase \in {"poll", "sleep"} /\ chan # <<>> /\ chan' = Tail(chan)
          /\ UNCHANGED <<phase, client, seen>>
      BY <1>6, <1>11 DEF InflightRequest
    <2>2. /\ chan' \in Seq(Requests) /\ Head(chan) \in Requests /\ Len(chan) \in Nat
          /\ Len(chan') = Len(chan) - 1
          /\ \A i \in 1..Len(chan') : chan'[i] = chan[i + 1] /\ i + 1 \in 1..Len(chan)
      BY <1>0, <2>1
    <2>3. deferred' \in Seq(Requests)
      <3>1. deferred' = deferred \/ deferred' = Append(deferred, Head(chan))
        BY <1>11 DEF InflightRequest
      <3> QED
        BY <1>0, <2>2, <3>1, AppendTyped
    <2>4. \A i \in 1..Len(chan') : chan'[i].c # "Launch" /\ chan'[i].c \notin Resumes
      BY <2>1, <2>2 DEF ChannelInv
    <2> QED
      BY <2>1, <2>2, <2>3, <2>4 DEF ChannelInv
  <1>12. CASE PollDone \/ SleepDone \/ CycleCap
    <2>1. client = "running" /\ UNCHANGED <<chan, deferred, seen>>
      BY <1>6, <1>12 DEF PollDone, SleepDone, CycleCap
    <2>2. client' \in {"running", "stopped", "terminated"} /\ phase' \in {"drain", "start", "sleep", "capped"}
      <3>1. CASE SleepDone \/ CycleCap
        BY <2>1, <3>1 DEF SleepDone, CycleCap
      <3>2. CASE PollDone
        BY <2>1, <3>2, PollDoneIs
      <3> QED
        BY <1>12, <3>1, <3>2
    <2> QED
      BY <1>0, <1>1, <2>1, <2>2
  <1>13. CASE HandleDeferred
    <2>1. phase = "drain" /\ UNCHANGED <<chan, client, seen>>
      BY <1>13 DEF HandleDeferred
    <2>2. client # "init"
      BY <2>1 DEF ChannelInv
    <2>3. \/ deferred = <<>> /\ phase' = "recv" /\ deferred' = deferred
          \/ deferred # <<>> /\ deferred' = Tail(deferred) /\ phase' \in {"exited", "drain"}
      BY <1>13, <2>1 DEF HandleDeferred
    <2>4. deferred' \in Seq(Requests)
      BY <1>0, <2>3
    <2> QED
      BY <1>1, <2>1, <2>2, <2>3, <2>4
  <1>14. CASE UNCHANGED vars
    BY <1>14 DEF vars, ChannelInv
  <1> QED
    BY <1>2, <1>4, <1>5, <1>7, <1>8, <1>9, <1>10, <1>11, <1>12, <1>13, <1>14 DEF Next

(* The types and the channel hold throughout a session.                    *)
LEMMA AdapterHolds == Spec => []AdapterInv
  <1>1. Init => AdapterInv
    <2> SUFFICES ASSUME Init PROVE AdapterInv
      OBVIOUS
    <2> USE DEF Init
    <2>1. dbg \in DebugStates
      BY DEF NewDebugState, DebugStates, Resumes, Reasons
    <2>2. run \in Runs /\ seen \in Notes
      BY LocalDebugAssumption DEF NoRun, Runs, NotSeen, Notes
    <2>3. stack \in Seq(Frames) /\ Len(stack) = 0 /\ chan \in Seq(Requests) /\ Len(chan) = 0
          /\ deferred \in Seq(Requests)
      OBVIOUS
    <2>4. seen.mode = "none"
      BY DEF NotSeen
    <2> QED
      BY <2>1, <2>2, <2>3, <2>4 DEF AdapterInv, TypeInv, ChannelInv, InRun, ValidStack, Depth
  <1>2. AdapterInv /\ [Next]_vars => AdapterInv'
    BY TypeStep, ChannelStep DEF AdapterInv
  <1> QED
    BY <1>1, <1>2, PTL DEF Spec

-----------------------------------------------------------------------------
(* Pause *)

HasPause(d) == \E i \in 1..Len(d) : d[i].c = "Pause"

(* A pause taken from the channel and not yet answered: the machine is     *)
(* marked paused, the loop knows of it while it looks into the channel,    *)
(* and when it goes on there is a frame to stop in.                        *)
PauseInv ==
  InRun /\ HasPause(deferred) =>
    /\ dbg.mode = "Paused"
    /\ phase \in {"poll", "sleep"} => run.pause
    /\ phase # "capped"
    /\ phase = "run" => stack # <<>>

LEMMA PauseStep ==
  ASSUME AdapterInv, PauseInv, [Next]_vars
  PROVE  PauseInv'
  <1> USE DEF machine
  <1>0. /\ dbg \in DebugStates /\ run \in Runs /\ chan \in Seq(Requests) /\ deferred \in Seq(Requests)
        /\ phase \in {"recv", "entry"} => deferred = <<>>
    BY DEF AdapterInv, TypeInv, ChannelInv
  <1>1. ASSUME phase' \in {"recv", "entry", "drain", "exited"} PROVE PauseInv'
    BY <1>1 DEF PauseInv, InRun
  <1>2. ASSUME NEW q \in Requests, Send(q) PROVE PauseInv'
    BY <1>2 DEF Send, PauseInv, InRun
  <1>3. CASE Receive
    <2>1. phase' \in {"recv", "entry", "exited"}
      BY <1>3 DEF Receive, LaunchFails, HandleLaunch
    <2> QED
      BY <1>1, <2>1
  <1>4. CASE ReceiveResume
    <2>1. deferred' = <<>>
      BY <1>0, <1>4 DEF ReceiveResume
    <2> QED
      BY <2>1 DEF PauseInv, HasPause
  <1>5. CASE StepIteration
    <2>1. phase = "start" /\ phase' = "run" /\ UNCHANGED <<run, deferred>>
      BY <1>5 DEF StepIteration
    <2>2. run.mode \in Resumes
      BY <2>1 DEF AdapterInv, TypeInv, InRun
    <2>3. stack' # <<>> /\ (dbg.mode = "Paused" => dbg'.mode = "Paused")
      <3>1. CASE stack # <<>>
        BY <1>5, <3>1 DEF StepIteration
      <3>2. CASE stack = <<>>
        BY <1>0, <1>5, <2>2, <3>2, FreshCycleIs DEF StepIteration
      <3> QED
        BY <3>1, <3>2
    <2> QED
      BY <2>1, <2>3 DEF PauseInv, InRun
  <1>6. CASE CycleCompleted
    <2>1. CASE phase = "entry"
      BY <1>1, <1>6, <2>1 DEF CycleCompleted
    <2>2. CASE phase = "run"
      <3>1. stack = <<>> /\ UNCHANGED deferred
        BY <1>6, <2>2 DEF CycleCompleted
      <3> QED
        BY <2>2, <3>1 DEF PauseInv, InRun
    <2> QED
      BY <1>6, <2>1, <2>2 DEF CycleCompleted
  <1>7. CASE Halt \/ ExecutionLimit
    <2>1. phase' \in {"recv", "drain"}
      BY <1>7 DEF Halt, ExecutionLimit
    <2> QED
      BY <1>1, <2>1
  <1>8. CASE Execute
    <2>1. Executing /\ ShouldPause(Moved(dbg, Ins.src), Ins.src, Depth) = "none"
          /\ UNCHANGED <<phase, deferred>>
      BY <1>8 DEF Execute
    <2>2. Moved(dbg, Ins.src) \in DebugStates /\ Ins.src \in Nat /\ Depth \in Nat
      BY <2>1, ExecutingIs
    <2>3. Moved(dbg, Ins.src).mode # "Paused"
      BY <2>1, <2>2, ShouldPauseIs
    <2>4. dbg.mode # "Paused"
      BY <1>0, <2>2, <2>3, MovedIs
    <2> QED
      BY <2>1, <2>4 DEF PauseInv, InRun
  <1>9. CASE InflightRequest
    <2> DEFINE q == Head(chan)
    <2>1. /\ phase \in {"poll", "sleep"} /\ UNCHANGED phase
          /\ run' = [run EXCEPT !.pause = @ \/ q.c = "Pause", !.gone = @ \/ q.c = "Disconnect"]
          /\ deferred' = deferred \/ deferred' = Append(deferred, q)
      BY <1>9 DEF InflightRequest
    <2>2. run'.pause = (run.pause \/ q.c = "Pause")
      BY <1>0, <2>1 DEF Runs
    <2>3. CASE q.c = "Pause"
      <3>1. HandleRequest(q)
        BY <1>9, <2>3 DEF InflightRequest
      <3>2. dbg'.mode = "Paused"
        BY <1>0, <2>3, <3>1, HandleRequestDebug
      <3> QED
        BY <2>1, <2>2, <2>3, <3>2 DEF PauseInv
    <2>4. CASE q.c # "Pause"
      <3>1. dbg' = dbg
        <4>1. HandleRequest(q) \/ UNCHANGED dbg
          BY <1>9 DEF InflightRequest
        <4> QED
          BY <1>0, <2>4, <4>1, HandleRequestDebug
      <3>2. HasPause(deferred') => HasPause(deferred)
        <4>1. CASE deferred' = deferred
          BY <4>1
        <4>2. CASE deferred' = Append(deferred, q)
          BY <1>0, <2>4, <4>2 DEF HasPause
        <4> QED
          BY <2>1, <4>1, <4>2
      <3> QED
        BY <2>1, <2>2, <3>1, <3>2 DEF PauseInv, InRun
    <2> QED
      BY <2>3, <2>4
  <1>10. CASE PollDone
    <2>1. phase = "poll" /\ UNCHANGED <<dbg, deferred>>
      BY <1>10 DEF PollDone
    <2>2. ~run.pause \/ phase' = "drain"
      BY <1>10, PollDoneIs
    <2> QED
      BY <1>1, <2>1, <2>2 DEF PauseInv, InRun
  <1>11. CASE SleepDone \/ CycleCap
    <2>1. /\ phase \in {"sleep", "capped"} /\ UNCHANGED <<dbg, deferred>>
          /\ phase' \in {"start", "capped", "drain"}
          /\ phase' = "capped" => phase = "sleep" /\ ~run.pause
      BY <1>11 DEF SleepDone, CycleCap
    <2> QED
      BY <1>1, <2>1 DEF PauseInv, InRun
  <1>12. CASE HandleDeferred
    <2>1. phase' \in {"recv", "drain", "exited"}
      BY <1>12 DEF HandleDeferred
    <2> QED
      BY <1>1, <2>1
  <1>13. CASE UNCHANGED vars
    BY <1>13 DEF vars, PauseInv, InRun
  <1> QED
    BY <1>2, <1>3, <1>4, <1>5, <1>6, <1>7, <1>8, <1>9, <1>10, <1>11, <1>12, <1>13 DEF Next

(* Only a completed cycle raises the count of cycles.                      *)
LEMMA CyclesRise ==
  ASSUME AdapterInv, [Next]_vars, run'.cycles > run.cycles
  PROVE  phase = "run" /\ stack = <<>>
  <1>0. run \in Runs /\ run.cycles \in Nat /\ ~(run.cycles > run.cycles) /\ ~(0 > run.cycles)
    BY LocalDebugAssumption DEF AdapterInv, TypeInv, Runs
  <1>1. CASE run'.cycles = run.cycles \/ run'.cycles = 0
    BY <1>0, <1>1
  <1>2. ASSUME run' = run PROVE FALSE
    BY <1>0, <1>2
  <1>3. CASE CycleCompleted
    BY <1>2, <1>3 DEF CycleCompleted
  <1>4. CASE ReceiveResume \/ HandleDeferred
    BY <1>0, <1>4 DEF ReceiveResume, HandleDeferred, NoRun
  <1>5. CASE InflightRequest \/ PollDone \/ SleepDone
    <2>1. \/ run' = [run EXCEPT !.pause = @ \/ Head(chan).c = "Pause", !.gone = @ \/ Head(chan).c = "Disconnect"]
          \/ run' = [run EXCEPT !.pause = FALSE, !.gone = FALSE]
      BY <1>5 DEF InflightRequest, PollDone, SleepDone
    <2>2. run'.cycles = run.cycles
      BY <1>0, <2>1 DEF Runs
    <2> QED
      BY <1>0, <2>2
  <1>6. CASE Receive
    <2>1. run' = run
      BY <1>6 DEF Receive, LaunchFails, HandleLaunch
    <2> QED
      BY <1>2, <2>1
  <1>7. CASE StepIteration \/ Halt \/ Execute \/ ExecutionLimit \/ CycleCap \/ UNCHANGED vars
    BY <1>2, <1>7 DEF StepIteration, Halt, Execute, ExecutionLimit, CycleCap, vars
  <1>8. ASSUME NEW q \in Requests, Send(q) PROVE FALSE
    BY <1>2, <1>8 DEF Send
  <1> QED
    BY <1>3, <1>4, <1>5, <1>6, <1>7, <1>8 DEF Next

(* However the client's Pause reaches the adapter, between two cycles or   *)
(* during the sleep, no scan cycle completes after it was taken from the   *)
(* channel: the fresh cycle of step_one_dap_iteration stops before its     *)
(* first instruction.                                                      *)
THEOREM PauseStopsRunHolds == Spec => PauseStopsRun
  <1>1. Init => PauseInv
    BY DEF Init, PauseInv, InRun
  <1>2. AdapterInv /\ PauseInv /\ [Next]_vars
          => (run'.cycles > run.cycles => \A i \in 1..Len(deferred) : deferred[i].c # "Pause")
    BY CyclesRise DEF PauseInv, HasPause, InRun
  <1>3. Spec => []PauseInv
    <2>1. AdapterInv /\ PauseInv /\ [Next]_vars => PauseInv'
      BY PauseStep
    <2> QED
      BY <1>1, <2>1, AdapterHolds, PTL DEF Spec
  <1> QED
    BY <1>2, <1>3, AdapterHolds, PTL DEF Spec, PauseStopsRun

-----------------------------------------------------------------------------
(* Stepping *)

(* The debug state carries out the client's step: as it was asked for, or, *)
(* after the cycle has ended on the way, as a step into the first          *)
(* statement of the next one.                                              *)
Following ==
  /\ run.cycles = 0 => dbg.mode = seen.mode /\ dbg.depth = seen.depth /\ dbg.src = seen.src
  /\ run.cycles > 0 => dbg.src = 0 /\ (seen.mode # "Continue" => dbg.mode = "StepIn")

StepInv ==
  /\ seen.passed \subseteq StepPasses
  /\ InRun =>
       /\ run.mode = IF run.cycles = 0 \/ seen.mode = "Continue" THEN seen.mode ELSE "StepIn"
       /\ phase = "start" /\ stack = <<>> /\ run.cycles = 0 => seen.depth = 0 /\ seen.src = 0
       /\ dbg.reason \in {"none", "PauseRequest"}
  /\ phase \in {"poll", "sleep", "capped"} => run.mode = "Continue" /\ run.cycles > 0
  /\ phase \in {"start", "run"} /\ stack # <<>> /\ dbg.mode # "Paused" => Following

(* What a step may pass depends on the request alone.                      *)
LEMMA StepPassesIs ==
  /\ seen.mode = "StepOver" /\ seen.depth = 0 => StepPasses = Nat
  /\ seen.mode = "StepOut" => StepPasses = {}
  /\ seen.mode # "StepOut" /\ ~(seen.mode = "StepOver" /\ seen.depth = 0) => StepPasses = {seen.src}
  <1>1. ASSUME seen.mode = "StepOver" /\ seen.depth = 0 PROVE StepPasses = Nat
    BY <1>1, Zenon DEF StepPasses
  <1>2. ASSUME seen.mode = "StepOut" PROVE StepPasses = {}
    BY <1>2 DEF StepPasses
  <1>3. ASSUME seen.mode # "StepOut" /\ ~(seen.mode = "StepOver" /\ seen.depth = 0)
        PROVE  StepPasses = {seen.src}
    BY <1>3 DEF StepPasses
  <1> QED
    BY <1>1, <1>2, <1>3

(* A request that stays the same allows the same statements to be passed.  *)
LEMMA StepPassesKept ==
  ASSUME seen'.mode = seen.mode, seen'.depth = seen.depth, seen'.src = seen.src
  PROVE  StepPasses' = StepPasses
  BY DEF StepPasses

(* What is known when should_pause lets an instruction through.            *)
LEMMA LetThrough ==
  ASSUME AdapterInv, Execute
  PROVE  /\ Executing /\ Ins.src \in Nat /\ Depth \in Nat
         /\ dbg \in DebugStates /\ dbg' \in DebugStates
         /\ dbg'.mode = dbg.mode /\ dbg'.depth = dbg.depth /\ dbg'.src = dbg.src
         /\ dbg'.reason = dbg.reason
         /\ dbg'.last = IF Ins.src > 0 /\ Ins.src # dbg.last THEN 0 ELSE dbg.last
         /\ dbg.mode # "Paused"
         /\ dbg.mode = "StepIn" => ~(Ins.src > 0 /\ Ins.src # dbg.src)
         /\ dbg.mode = "StepOver" => ~(Depth <= dbg.depth /\ Ins.src > 0 /\ Ins.src # dbg.src)
         /\ dbg.mode = "StepOut" => ~(Depth < dbg.depth)
         /\ dbg.mode # "StepIn" => ~(Ins.src > 0 /\ Ins.src \in bps /\ Ins.src # dbg'.last)
  <1>1. /\ Executing /\ dbg' = Moved(dbg, Ins.src)
        /\ ShouldPause(dbg', Ins.src, Depth) = "none"
    BY DEF Execute
  <1>2. dbg \in DebugStates /\ dbg' \in DebugStates /\ Ins.src \in Nat /\ Depth \in Nat
    BY <1>1, ExecutingIs
  <1>3. /\ dbg'.mode = dbg.mode /\ dbg'.depth = dbg.depth /\ dbg'.src = dbg.src
        /\ dbg'.reason = dbg.reason
        /\ dbg'.last = IF Ins.src > 0 /\ Ins.src # dbg.last THEN 0 ELSE dbg.last
    BY <1>1, <1>2, MovedIs
  <1>4. /\ dbg'.mode # "Paused"
        /\ dbg'.mode = "StepIn" => ~(Ins.src > 0 /\ Ins.src # dbg'.src)
        /\ dbg'.mode = "StepOver" => ~(Depth <= dbg'.depth /\ Ins.src > 0 /\ Ins.src # dbg'.src)
        /\ dbg'.mode = "StepOut" => ~(Depth < dbg'.depth)
        /\ dbg'.mode # "StepIn" => ~(Ins.src > 0 /\ Ins.src \in bps /\ Ins.src # dbg'.last)
    BY <1>1, <1>2, ShouldPauseIs
  <1> QED
    BY <1>1, <1>2, <1>3, <1>4

(* An instruction let through begins no statement the step had to stop at. *)
LEMMA NothingPassed ==
  ASSUME AdapterInv, StepInv, Execute
  PROVE  Note.passed \subseteq StepPasses
  <1>1. /\ Executing /\ Ins.src \in Nat /\ Depth \in Nat /\ dbg.mode # "Paused"
        /\ dbg.mode = "StepIn" => ~(Ins.src > 0 /\ Ins.src # dbg.src)
        /\ dbg.mode = "StepOver" => ~(Depth <= dbg.depth /\ Ins.src > 0 /\ Ins.src # dbg.src)
        /\ dbg.mode = "StepOut" => ~(Depth < dbg.depth)
    BY LetThrough
  <1>2. seen.passed \subseteq StepPasses /\ seen.depth \in Nat /\ run.cycles \in Nat
    BY LocalDebugAssumption DEF StepInv, AdapterInv, TypeInv, Notes, Runs
  <1>3. seen.mode = "none" \/ Following
    BY <1>1 DEF Executing, StepInv, AdapterInv, ChannelInv
  <1>4. ASSUME Ins.src > 0, StepConcerns PROVE Ins.src \in StepPasses
    <2>1. run.cycles = 0
      BY <1>1, <1>2, <1>3, <1>4 DEF Following, StepConcerns
    <2>2. dbg.mode = seen.mode /\ dbg.depth = seen.depth /\ dbg.src = seen.src
      BY <1>3, <1>4, <2>1 DEF Following, StepConcerns
    <2>3. CASE seen.mode = "StepOver" /\ seen.depth = 0
      BY <1>1, <2>3, StepPassesIs
    <2>4. CASE ~(seen.mode = "StepOver" /\ seen.depth = 0)
      <3>1. seen.mode # "StepOut" /\ Ins.src = seen.src
        BY <1>1, <1>2, <1>4, <2>2, <2>4 DEF StepConcerns
      <3> QED
        BY <2>4, <3>1, StepPassesIs
    <2> QED
      BY <2>3, <2>4
  <1> QED
    BY <1>1, <1>2, <1>4, NoteIs

LEMMA StepInvStep ==
  ASSUME AdapterInv, StepInv, [Next]_vars
  PROVE  StepInv'
  <1> USE DEF machine
  <1>0. /\ dbg \in DebugStates /\ run \in Runs /\ seen \in Notes /\ seen.passed \subseteq StepPasses
        /\ phase \in {"poll", "sleep", "capped"} => stack = <<>> /\ run.mode = "Continue" /\ run.cycles > 0
        /\ InRun => run.mode \in Resumes /\ dbg.reason \in {"none", "PauseRequest"}
    BY DEF AdapterInv, TypeInv, StepInv
  <1>1. ASSUME phase' \in {"recv", "entry", "drain", "exited"}, UNCHANGED seen PROVE StepInv'
    BY <1>0, <1>1, StepPassesKept DEF StepInv, InRun
  <1>2. ASSUME NEW q \in Requests, Send(q) PROVE StepInv'
    BY <1>2, StepPassesKept DEF Send, StepInv, InRun, Following
  <1>3. CASE Receive
    <2>1. phase' \in {"recv", "entry", "exited"} /\ UNCHANGED seen
      BY <1>3 DEF Receive, LaunchFails, HandleLaunch
    <2> QED
      BY <1>1, <2>1
  <1>4. CASE ReceiveResume
    <2>1. /\ Head(chan).c \in Resumes /\ phase' = "start" /\ UNCHANGED stack /\ chan # <<>>
          /\ dbg' = ResumeWithSource(dbg, Head(chan).c, Depth, SourceOffset)
          /\ run' = [NoRun EXCEPT !.mode = Head(chan).c]
          /\ seen'.mode = Head(chan).c /\ seen'.depth = Depth /\ seen'.src = SourceOffset
          /\ seen'.passed = {}
      BY <1>4 DEF ReceiveResume
    <2>2. client = "stopped"
      BY <1>4, <2>1 DEF ReceiveResume, AdapterInv, ChannelInv
    <2>3. Depth \in Nat /\ SourceOffset \in Nat /\ (stack = <<>> => Depth = 0 /\ SourceOffset = 0)
      BY <2>2, SourceOffsetIs DEF AdapterInv, TypeInv, ValidStack, Depth, SourceOffset
    <2>4. dbg'.mode = Head(chan).c /\ dbg'.depth = Depth /\ dbg'.src = SourceOffset /\ dbg'.reason = "none"
      BY <1>0, <2>1, <2>3, ResumeTyped
    <2>5. run'.mode = Head(chan).c /\ run'.cycles = 0
      BY <2>1 DEF NoRun
    <2>6. Following'
      BY <2>1, <2>4, <2>5 DEF Following
    <2> QED
      BY <2>1, <2>3, <2>4, <2>5, <2>6 DEF StepInv, InRun
  <1>5. CASE StepIteration
    <2>1. phase = "start" /\ phase' = "run" /\ UNCHANGED <<run, seen>>
      BY <1>5 DEF StepIteration
    <2>2. CASE stack # <<>>
      <3>1. UNCHANGED <<dbg, stack>>
        BY <1>5, <2>2 DEF StepIteration
      <3> QED
        BY <2>1, <2>2, <3>1, StepPassesKept DEF StepInv, InRun, Following
    <2>3. CASE stack = <<>>
      <3>1. \/ dbg'.mode = "Paused" /\ dbg' = dbg
            \/ dbg'.mode = run.mode /\ dbg'.depth = 0 /\ dbg'.src = 0 /\ dbg'.reason = "none"
        BY <1>0, <1>5, <2>1, <2>3, FreshCycleIs DEF StepIteration, InRun
      <3>2. /\ run.mode = IF run.cycles = 0 \/ seen.mode = "Continue" THEN seen.mode ELSE "StepIn"
            /\ run.cycles = 0 => seen.depth = 0 /\ seen.src = 0
        BY <2>1, <2>3 DEF StepInv, InRun
      <3>3. run.cycles \in Nat
        BY <1>0, LocalDebugAssumption DEF Runs
      <3>4. dbg'.mode = "Paused" \/ Following'
        BY <2>1, <3>1, <3>2, <3>3 DEF Following
      <3>5. dbg'.reason \in {"none", "PauseRequest"}
        BY <1>0, <2>1, <3>1 DEF InRun
      <3> QED
        BY <1>0, <2>1, <3>2, <3>4, <3>5, StepPassesKept DEF StepInv, InRun
    <2> QED
      BY <2>2, <2>3
  <1>6. CASE CycleCompleted
    <2>1. CASE phase = "entry"
      BY <1>1, <1>6, <2>1 DEF CycleCompleted
    <2>2. CASE phase = "run"
      <3>1. /\ stack = <<>> /\ UNCHANGED <<seen, stack, dbg>>
            /\ phase' = (IF run.mode = "Continue" THEN "poll" ELSE "start")
            /\ run' = [run EXCEPT !.cycles = IF @ < SafetyCycleCap THEN @ + 1 ELSE @,
                                  !.mode = IF @ = "Continue" THEN @ ELSE "StepIn"]
        BY <1>6, <2>2 DEF CycleCompleted
      <3>2. run'.mode = (IF run.mode = "Continue" THEN "Continue" ELSE "StepIn") /\ run'.cycles > 0
        BY <1>0, <3>1, LocalDebugAssumption DEF Runs
      <3>3. /\ run.mode = IF run.cycles = 0 \/ seen.mode = "Continue" THEN seen.mode ELSE "StepIn"
            /\ dbg.reason \in {"none", "PauseRequest"}
        BY <2>2 DEF StepInv, InRun
      <3>4. run'.mode = IF seen.mode = "Continue" THEN "Continue" ELSE "StepIn"
        BY <3>2, <3>3
      <3> QED
        BY <1>0, <3>1, <3>2, <3>3, <3>4, StepPassesKept DEF StepInv, InRun
    <2> QED
      BY <1>6, <2>1, <2>2 DEF CycleCompleted
  <1>7. CASE Halt
    <2>1. phase' \in {"recv", "drain"}
      BY <1>7 DEF Halt
    <2> QED
      BY <1>0, <1>7, <2>1, HaltNote, StepPassesKept DEF StepInv, InRun
  <1>8. CASE ExecutionLimit
    BY <1>1, <1>8 DEF ExecutionLimit
  <1>9. CASE Execute
    <2>1. /\ Executing /\ UNCHANGED <<phase, run>> /\ seen' = Note
          /\ dbg'.mode = dbg.mode /\ dbg'.depth = dbg.depth /\ dbg'.src = dbg.src /\ dbg'.reason = dbg.reason
      BY <1>9, LetThrough DEF Execute
    <2>2. seen'.mode = seen.mode /\ seen'.depth = seen.depth /\ seen'.src = seen.src
      BY <2>1, NoteIs
    <2>3. seen'.passed \subseteq StepPasses'
      BY <1>9, <2>1, <2>2, NothingPassed, StepPassesKept
    <2>4. phase \in {"entry", "run"} /\ stack # <<>>
      BY <2>1 DEF Executing
    <2>5. phase = "run" /\ dbg.mode # "Paused" => Following'
      BY <2>1, <2>2, <2>4 DEF StepInv, Following
    <2> QED
      BY <2>1, <2>2, <2>3, <2>4, <2>5 DEF StepInv, InRun
  <1>10. CASE InflightRequest \/ PollDone \/ SleepDone
    <2>1. /\ phase \in {"poll", "sleep"} /\ UNCHANGED <<stack, seen>>
          /\ \/ run' = [run EXCEPT !.pause = @ \/ Head(chan).c = "Pause", !.gone = @ \/ Head(chan).c = "Disconnect"]
             \/ run' = [run EXCEPT !.pause = FALSE, !.gone = FALSE]
      BY <1>10 DEF InflightRequest, PollDone, SleepDone
    <2>2. run'.mode = run.mode /\ run'.cycles = run.cycles
      BY <1>0, <2>1 DEF Runs
    <2>3. dbg'.reason \in {"none", "PauseRequest"}
      <3>1. dbg.reason \in {"none", "PauseRequest"}
        BY <1>0, <2>1 DEF InRun
      <3>2. CASE InflightRequest
        BY <1>0, <3>1, <3>2, HandleRequestDebug DEF InflightRequest
      <3>3. CASE UNCHANGED dbg
        BY <3>1, <3>3
      <3> QED
        BY <1>10, <3>2, <3>3 DEF PollDone, SleepDone
    <2>4. run.mode = (IF run.cycles = 0 \/ seen.mode = "Continue" THEN seen.mode ELSE "StepIn")
      BY <2>1 DEF StepInv, InRun
    <2> QED
      BY <1>0, <2>1, <2>2, <2>3, <2>4, StepPassesKept DEF StepInv, InRun
  <1>11. CASE CycleCap
    <2>1. phase = "capped" /\ phase' \in {"drain", "start"} /\ UNCHANGED <<stack, seen, run, dbg>>
      BY <1>11 DEF CycleCap
    <2>2. run.mode = (IF run.cycles = 0 \/ seen.mode = "Continue" THEN seen.mode ELSE "StepIn")
      BY <2>1 DEF StepInv, InRun
    <2> QED
      BY <1>0, <2>1, <2>2, StepPassesKept DEF StepInv, InRun
  <1>12. CASE HandleDeferred
    <2>1. phase' \in {"recv", "drain", "exited"} /\ UNCHANGED seen
      BY <1>12 DEF HandleDeferred
    <2> QED
      BY <1>1, <2>1
  <1>13. CASE UNCHANGED vars
    BY <1>13, StepPassesKept DEF vars, StepInv, InRun, Following
  <1> QED
    BY <1>2, <1>3, <1>4, <1>5, <1>6, <1>7, <1>8, <1>9, <1>10, <1>11, <1>12, <1>13 DEF Next

(* The debug state a stop leaves behind.                                   *)
LEMMA HaltIs ==
  ASSUME AdapterInv, Halt
  PROVE  /\ Executing /\ Ins.src \in Nat /\ dbg \in DebugStates
         /\ dbg'.reason = "Breakpoint" => Ins.src > 0 /\ Ins.src \in bps /\ Ins.src # dbg.last
         /\ dbg'.reason = "Step" => \/ dbg.mode = "StepIn" /\ Ins.src # dbg.src
                                    \/ dbg.mode = "StepOver" /\ Ins.src # dbg.src /\ Depth <= dbg.depth
                                    \/ dbg.mode = "StepOut"
         /\ dbg'.last = IF dbg'.reason = "Breakpoint" THEN Ins.src
                        ELSE IF Ins.src > 0 /\ Ins.src # dbg.last THEN 0 ELSE dbg.last
         /\ seen'.hit = IF dbg'.reason = "Breakpoint" THEN Ins.src ELSE seen.hit
  <1> DEFINE d == Moved(dbg, Ins.src)
             r == ShouldPause(d, Ins.src, Depth)
  <1>1. Executing /\ dbg' = [MarkPaused(d, r) EXCEPT !.last = IF r = "Breakpoint" THEN Ins.src ELSE @]
    BY DEF Halt
  <1>2. d \in DebugStates /\ dbg \in DebugStates /\ Ins.src \in Nat /\ Depth \in Nat
    BY <1>1, ExecutingIs
  <1>3. /\ r \in Reasons /\ (r = "Breakpoint" => Ins.src > 0 /\ Ins.src \in bps /\ Ins.src # d.last)
        /\ r = "Step" => \/ d.mode = "StepIn" /\ Ins.src # d.src
                         \/ d.mode = "StepOver" /\ Ins.src # d.src /\ Depth <= d.depth
                         \/ d.mode = "StepOut"
    BY <1>2, ShouldPauseIs
  <1>4. /\ d.last = IF Ins.src > 0 /\ Ins.src # dbg.last THEN 0 ELSE dbg.last
        /\ d.mode = dbg.mode /\ d.src = dbg.src /\ d.depth = dbg.depth
    BY <1>2, MovedIs
  <1> HIDE DEF d, r
  <1>5. MarkPaused(d, r) \in DebugStates /\ MarkPaused(d, r).last = d.last /\ MarkPaused(d, r).reason = r
    BY <1>2, <1>3 DEF MarkPaused, DebugStates
  <1>6. dbg'.reason = r /\ dbg'.last = IF r = "Breakpoint" THEN Ins.src ELSE d.last
    BY <1>1, <1>2, <1>5 DEF DebugStates
  <1>7. seen \in Notes
    BY DEF AdapterInv, TypeInv
  <1>8. seen'.hit = IF r = "Breakpoint" THEN Ins.src ELSE seen.hit
    <2>1. seen' = [seen EXCEPT !.hit = IF r = "Breakpoint" THEN Ins.src ELSE @]
      BY DEF Halt, r, d
    <2> QED
      BY <1>7, <2>1 DEF Notes
  <1> QED
    BY <1>1, <1>2, <1>3, <1>4, <1>6, <1>8

(* A run that stops at a statement was halted there.                       *)
LEMMA StopHalts ==
  ASSUME AdapterInv, StepInv, [Next]_vars, client = "running", client' = "stopped",
         dbg'.reason \in {"Step", "Breakpoint"}
  PROVE  Halt
  <1>1. client' # client /\ client # "init"
    OBVIOUS
  <1>2. ASSUME NEW q \in Requests, Send(q) PROVE FALSE
    BY <1>1, <1>2 DEF Send
  <1>3. CASE Receive
    BY <1>1, <1>3 DEF Receive, LaunchFails, HandleLaunch
  <1>4. CASE CycleCompleted
    <2>1. phase = "entry"
      BY <1>1, <1>4 DEF CycleCompleted
    <2> QED
      BY <1>1, <2>1 DEF AdapterInv, ChannelInv
  <1>5. CASE PollDone
    BY <1>5 DEF PollDone, StepInv, InRun
  <1>6. CASE ReceiveResume \/ StepIteration \/ Execute \/ ExecutionLimit \/ InflightRequest \/ SleepDone
             \/ CycleCap \/ HandleDeferred \/ UNCHANGED vars
    BY <1>1, <1>6 DEF ReceiveResume, StepIteration, Execute, ExecutionLimit, InflightRequest, SleepDone,
       CycleCap, HandleDeferred, vars
  <1> QED
    BY <1>2, <1>3, <1>4, <1>5, <1>6 DEF Next

LEMMA StepInvHolds == Spec => []StepInv
  <1>1. Init => StepInv
    BY DEF Init, NotSeen, StepInv, InRun
  <1>2. AdapterInv /\ StepInv /\ [Next]_vars => StepInv'
    BY StepInvStep
  <1> QED
    BY <1>1, <1>2, AdapterHolds, PTL DEF Spec

(* A step stops at the next statement it is about, whatever calls, returns,*)
(* jumps and cycle ends lie on the way, and the wrap-around of             *)
(* resume_execution does not lose it.  What it does pass is exactly this:  *)
(* further executions of the statement it starts at, which it never stops  *)
(* at within the cycle, and, over from between two cycles, a whole cycle   *)
(* (should_pause compares offsets and depths only).                        *)
THEOREM StepSkipsNothingHolds == Spec => StepSkipsNothing
  <1>1. ASSUME AdapterInv, StepInv, [Next]_vars, client = "running", client' = "stopped"
        PROVE  /\ seen.passed \subseteq StepPasses
               /\ (dbg'.reason = "Step" /\ run.cycles = 0 /\ seen.mode # "StepOut")
                    => Ins.src # seen.src /\ (seen.mode = "StepOver" => seen.depth > 0)
    <2>1. seen.passed \subseteq StepPasses
      BY <1>1 DEF StepInv
    <2>2. ASSUME dbg'.reason = "Step", run.cycles = 0, seen.mode # "StepOut"
          PROVE  Ins.src # seen.src /\ (seen.mode = "StepOver" => seen.depth > 0)
      <3>1. Halt
        BY <1>1, <2>2, StopHalts
      <3>2. /\ Executing
            /\ \/ dbg.mode = "StepIn" /\ Ins.src # dbg.src
               \/ dbg.mode = "StepOver" /\ Ins.src # dbg.src /\ Depth <= dbg.depth
               \/ dbg.mode = "StepOut"
        BY <1>1, <2>2, <3>1, HaltIs
      <3>3. phase = "run" /\ Depth \in Nat \ {0} /\ dbg.depth \in Nat
        BY <1>1, <3>2, ExecutingIs DEF Executing, DebugStates
      <3>4. dbg.mode = seen.mode /\ dbg.depth = seen.depth /\ dbg.src = seen.src
        BY <1>1, <2>2, <3>2, <3>3 DEF StepInv, Following, Executing
      <3> QED
        BY <2>2, <3>2, <3>3, <3>4
    <2> QED
      BY <2>1, <2>2
  <1> QED
    BY <1>1, AdapterHolds, StepInvHolds, PTL DEF Spec, StepSkipsNothing

-----------------------------------------------------------------------------
(* Breakpoints *)

(* The suppressed breakpoint is the one hit last; at a stop at another     *)
(* statement it is forgotten before that statement is executed.            *)
BreakInv ==
  /\ count \in Nat
  /\ bps \subseteq Breakpoints(pend)
  /\ client = "init" => seen.hit = 0
  /\ client # "terminated" =>
       \/ dbg.last = seen.hit
       \/ dbg.last = 0 /\ SourceOffset > 0 /\ SourceOffset # seen.hit

(* Offsets with a breakpoint are positive.                                 *)
LEMMA BreakpointsPositive ==
  ASSUME NEW p, NEW src \in Breakpoints(p)
  PROVE  src > 0
  <1>1. PICK f \in 1..Len(Files) : src \in UNION {LineBreakpoint(f, l) : l \in p[f]}
    BY DEF Breakpoints
  <1>2. PICK l \in p[f] : src \in LineBreakpoint(f, l)
    BY <1>1
  <1> QED
    BY <1>2, LineBreakpointInLine

(* handle_request replaces all breakpoints or none.                        *)
LEMMA HandleRequestBreakpoints ==
  ASSUME NEW q, HandleRequest(q), bps \subseteq Breakpoints(pend)
  PROVE  bps' \subseteq Breakpoints(pend')
  <1>1. CASE UNCHANGED <<bps, pend>>
    BY <1>1
  <1>2. CASE HandleSetBreakpoints(q)
    BY <1>2 DEF HandleSetBreakpoints
  <1> QED
    BY <1>1, <1>2, HandleRequestIs

LEMMA BreakStep ==
  ASSUME AdapterInv, BreakInv, [Next]_vars
  PROVE  BreakInv'
  <1> USE DEF machine
  <1>0. /\ dbg \in DebugStates /\ run \in Runs /\ seen \in Notes /\ count \in Nat
        /\ bps \subseteq Breakpoints(pend)
        /\ InRun => client = "running" /\ run.mode \in Resumes
        /\ phase \in {"poll", "sleep", "capped"} => stack = <<>>
    BY DEF AdapterInv, TypeInv, BreakInv
  <1>1. ASSUME UNCHANGED <<stack, count, seen>>, dbg'.last = dbg.last,
               client' = "init" => client = "init", client = "terminated" => client' = "terminated",
               bps' \subseteq Breakpoints(pend')
        PROVE  BreakInv'
    <2>1. SourceOffset' = SourceOffset
      BY <1>1 DEF SourceOffset, Ins, Top, Depth
    <2> QED
      BY <1>1, <2>1 DEF BreakInv
  <1>2. ASSUME NEW q, HandleRequest(q), UNCHANGED <<stack, count, seen, client>>
        PROVE  BreakInv'
    <2>1. bps' \subseteq Breakpoints(pend')
      BY <1>0, <1>2, HandleRequestBreakpoints
    <2>2. dbg'.last = dbg.last
      BY <1>0, <1>2, HandleRequestDebug
    <2> QED
      BY <1>1, <1>2, <2>1, <2>2
  <1>3. ASSUME NEW q \in Requests, Send(q) PROVE BreakInv'
    BY <1>0, <1>1, <1>3 DEF Send
  <1>4. CASE Receive
    <2>1. phase = "recv" /\ chan # <<>>
      BY <1>4 DEF Receive
    <2>2. CASE Head(chan).c = "Launch" /\ LaunchFails
      <3>1. client = "init"
        BY <2>1, <2>2 DEF AdapterInv, ChannelInv
      <3> QED
        BY <1>0, <1>1, <2>2, <3>1 DEF LaunchFails
    <2>3. CASE Head(chan).c = "Launch" /\ HandleLaunch
      <3>1. client = "init"
        BY <2>1, <2>3 DEF AdapterInv, ChannelInv
      <3>2. /\ count' = 0 /\ dbg' = Resume(NewDebugState, "StepIn", 0) /\ bps' = {}
            /\ UNCHANGED <<client, seen>>
        BY <2>3 DEF HandleLaunch
      <3>3. dbg'.last = 0
        BY <3>2 DEF Resume, NewDebugState
      <3>4. seen.hit = 0
        BY <3>1 DEF BreakInv
      <3> QED
        BY <3>2, <3>3, <3>4 DEF BreakInv
    <2>4. CASE /\ HandleRequest(Head(chan))
               /\ phase' = IF Head(chan).c = "Disconnect" THEN "exited" ELSE "recv"
               /\ UNCHANGED <<machine, client, seen, run>>
      BY <1>2, <2>4
    <2> QED
      BY <1>4, <2>2, <2>3, <2>4 DEF Receive
  <1>5. CASE ReceiveResume
    <2>1. /\ Head(chan).c \in Resumes /\ client' = "running" /\ chan # <<>>
          /\ seen'.hit = seen.hit /\ UNCHANGED <<stack, count, bps, pend>>
          /\ dbg' = ResumeWithSource(dbg, Head(chan).c, Depth, SourceOffset)
      BY <1>5 DEF ReceiveResume
    <2>2. client = "stopped"
      BY <1>5, <2>1 DEF ReceiveResume, AdapterInv, ChannelInv
    <2>3. dbg'.last = dbg.last
      BY <1>0, <2>1 DEF ResumeWithSource, Resume, DebugStates
    <2>4. SourceOffset' = SourceOffset
      BY <2>1 DEF SourceOffset, Ins, Top, Depth
    <2> QED
      BY <1>0, <2>1, <2>2, <2>3, <2>4 DEF BreakInv
  <1>6. CASE StepIteration
    <2>1. phase = "start" /\ UNCHANGED <<client, run, seen, bps, pend>>
      BY <1>6 DEF StepIteration
    <2>2. client = "running"
      BY <1>0, <2>1 DEF InRun
    <2>3. CASE stack # <<>>
      BY <1>0, <1>1, <1>6, <2>1, <2>3 DEF StepIteration
    <2>4. CASE stack = <<>>
      <3>1. count' = 0
        BY <1>6, <2>4 DEF StepIteration, FreshCycle
      <3>2. dbg'.last = dbg.last
        BY <1>0, <1>6, <2>1, <2>4, FreshCycleIs DEF StepIteration, InRun
      <3>3. SourceOffset = 0
        BY <2>4 DEF SourceOffset
      <3>4. dbg.last = seen.hit
        BY <2>2, <3>3 DEF BreakInv
      <3> QED
        BY <1>0, <2>1, <2>2, <3>1, <3>2, <3>4 DEF BreakInv
    <2> QED
      BY <2>3, <2>4
  <1>7. CASE CycleCompleted
    <2>1. UNCHANGED <<stack, count, dbg, seen, bps, pend>> /\ client' \in {client, "stopped"}
      BY <1>7 DEF CycleCompleted
    <2>2. phase = "entry" \/ client = "running"
      BY <1>0, <1>7 DEF CycleCompleted, InRun
    <2>3. client # "terminated"
      BY <2>2 DEF AdapterInv, ChannelInv
    <2> QED
      BY <1>0, <1>1, <2>1, <2>3
  <1>8. CASE Halt
    <2>1. /\ Executing /\ Ins.src \in Nat
          /\ dbg'.reason = "Breakpoint" => Ins.src > 0
          /\ dbg'.last = IF dbg'.reason = "Breakpoint" THEN Ins.src
                         ELSE IF Ins.src > 0 /\ Ins.src # dbg.last THEN 0 ELSE dbg.last
          /\ seen'.hit = IF dbg'.reason = "Breakpoint" THEN Ins.src ELSE seen.hit
      BY <1>8, HaltIs
    <2>2. UNCHANGED <<stack, count, bps, pend>> /\ client' = "stopped"
      BY <1>8 DEF Halt
    <2>3. SourceOffset' = Ins.src /\ SourceOffset = Ins.src
      BY <2>1, <2>2 DEF SourceOffset, Executing, Ins, Top, Depth
    <2>4. client # "terminated"
      BY <2>1, ExecutingIs
    <2>5. \/ dbg.last = seen.hit
          \/ dbg.last = 0 /\ Ins.src > 0 /\ Ins.src # seen.hit
      BY <2>3, <2>4 DEF BreakInv
    <2> QED
      BY <1>0, <2>1, <2>2, <2>3, <2>5 DEF BreakInv
  <1>9. CASE Execute
    <2>1. UNCHANGED <<phase, client, bps, pend>> /\ seen' = Note /\ count' = count + 1
      BY <1>9 DEF Execute
    <2>2. /\ Executing /\ Ins.src \in Nat
          /\ dbg'.last = IF Ins.src > 0 /\ Ins.src # dbg.last THEN 0 ELSE dbg.last
      BY <1>9, LetThrough
    <2>3. seen'.hit = IF Ins.src > 0 /\ Ins.src # seen.hit THEN 0 ELSE seen.hit
      BY <2>1, <2>2, NoteIs
    <2>4. client # "terminated"
      BY <2>2, ExecutingIs
    <2>5. SourceOffset = Ins.src
      BY <2>2 DEF SourceOffset, Executing
    <2>6. dbg'.last = seen'.hit
      BY <2>2, <2>3, <2>4, <2>5 DEF BreakInv
    <2>7. client = "init" => seen'.hit = 0
      BY <2>3 DEF BreakInv
    <2> QED
      BY <1>0, <2>1, <2>6, <2>7 DEF BreakInv
  <1>10. CASE ExecutionLimit
    <2>1. client' = "terminated" /\ UNCHANGED <<count, bps, pend>>
      BY <1>10 DEF ExecutionLimit
    <2> QED
      BY <1>0, <2>1 DEF BreakInv
  <1>11. CASE InflightRequest
    <2>1. UNCHANGED <<client, stack, count, seen>>
      BY <1>11 DEF InflightRequest
    <2>2. CASE HandleRequest(Head(chan))
      BY <1>2, <2>1, <2>2
    <2>3. CASE UNCHANGED <<dbg, bps, pend>>
      BY <1>0, <1>1, <2>1, <2>3
    <2> QED
      BY <1>11, <2>2, <2>3 DEF InflightRequest
  <1>12. CASE PollDone
    <2>1. phase = "poll" /\ UNCHANGED <<stack, count, dbg, seen, bps, pend>>
      BY <1>12 DEF PollDone
    <2>2. client' \in {client, "stopped"}
      BY <1>12, PollDoneIs
    <2>3. client = "running"
      BY <1>0, <2>1 DEF InRun
    <2> QED
      BY <1>0, <1>1, <2>1, <2>2, <2>3
  <1>13. CASE SleepDone \/ CycleCap
    <2>1. UNCHANGED <<stack, count, dbg, seen, bps, pend>> /\ client' \in {client, "terminated"}
      BY <1>13 DEF SleepDone, CycleCap
    <2> QED
      BY <1>0, <1>1, <2>1
  <1>14. CASE HandleDeferred
    <2>1. UNCHANGED <<client, stack, count, seen>>
      BY <1>14 DEF HandleDeferred
    <2>2. CASE HandleRequest(Head(deferred))
      BY <1>2, <2>1, <2>2
    <2>3. CASE UNCHANGED <<dbg, bps, pend>>
      BY <1>0, <1>1, <2>1, <2>3
    <2> QED
      BY <1>14, <2>2, <2>3 DEF HandleDeferred
  <1>15. CASE UNCHANGED vars
    BY <1>0, <1>1, <1>15 DEF vars
  <1> QED
    BY <1>3, <1>4, <1>5, <1>6, <1>7, <1>8, <1>9, <1>10, <1>11, <1>12, <1>13, <1>14, <1>15 DEF Next

(* An instruction at a breakpoint is let through only when it belongs to   *)
(* the statement of the breakpoint hit last or to the one a step into      *)
(* starts at.                                                              *)
LEMMA BreakpointLetThrough ==
  ASSUME AdapterInv, StepInv, BreakInv, Execute, phase = "run", Ins.src \in bps
  PROVE  Ins.src = seen.hit \/ (seen.mode = "StepIn" /\ Ins.src = seen.src)
  <1>1. /\ Executing /\ Ins.src \in Nat /\ dbg.mode # "Paused"
        /\ dbg'.last = IF Ins.src > 0 /\ Ins.src # dbg.last THEN 0 ELSE dbg.last
        /\ dbg.mode = "StepIn" => ~(Ins.src > 0 /\ Ins.src # dbg.src)
        /\ dbg.mode # "StepIn" => ~(Ins.src > 0 /\ Ins.src \in bps /\ Ins.src # dbg'.last)
    BY LetThrough
  <1>2. Ins.src > 0
    BY BreakpointsPositive DEF BreakInv
  <1>3. SourceOffset = Ins.src /\ client # "terminated" /\ run.cycles \in Nat
    BY <1>1, ExecutingIs, LocalDebugAssumption DEF SourceOffset, Executing, AdapterInv, TypeInv, Runs
  <1>4. dbg.mode = "StepIn" /\ dbg.src > 0 => seen.mode = "StepIn" /\ dbg.src = seen.src
    BY <1>1, <1>3 DEF StepInv, Following, Executing
  <1>5. dbg.last = seen.hit \/ dbg.last = 0
    BY <1>3 DEF BreakInv
  <1> QED
    BY <1>1, <1>2, <1>4, <1>5

(* In a run only Execute counts an instruction.                            *)
LEMMA OnlyExecuteCounts ==
  ASSUME AdapterInv, BreakInv, [Next]_vars, phase = "run", count' = count + 1, stack' # stack
  PROVE  Execute
  <1>1. count \in Nat /\ count' # count
    BY DEF BreakInv
  <1>2. ASSUME NEW q \in Requests, Send(q) PROVE FALSE
    BY <1>2 DEF Send
  <1> QED
    BY <1>1, <1>2 DEF Next, Receive, ReceiveResume, StepIteration, CycleCompleted, Halt, ExecutionLimit,
       InflightRequest, PollDone, SleepDone, CycleCap, HandleDeferred, vars, machine

(* Breakpoints stop execution: whatever was set, stepped or paused before, *)
(* no statement with a breakpoint is executed without a stop but the one   *)
(* of the last breakpoint stop, which is not stopped at again before       *)
(* another is executed, and the one a step into starts at; and a stop at a *)
(* breakpoint is shown on a line for which the client has set one, in that *)
(* line's file, for any text of the library and the project's files.       *)
THEOREM BreakpointsStopHolds == Spec => BreakpointsStop
  <1>1. Init => BreakInv
    BY DEF Init, BreakInv, NewDebugState, NotSeen
  <1>2. AdapterInv /\ BreakInv /\ [Next]_vars => BreakInv'
    BY BreakStep
  <1>3. ASSUME AdapterInv, StepInv, BreakInv, [Next]_vars
        PROVE  /\ (stack' # stack /\ count' = count + 1 /\ phase = "run" /\ Ins.src \in bps)
                    => Ins.src = seen.hit \/ (seen.mode = "StepIn" /\ Ins.src = seen.src)
               /\ (client = "running" /\ client' = "stopped" /\ dbg'.reason = "Breakpoint")
                    => Ins.src # seen.hit /\ FrameLine(Top)[2] \in pend[FrameLine(Top)[1]]
    <2>1. (stack' # stack /\ count' = count + 1 /\ phase = "run" /\ Ins.src \in bps)
            => Ins.src = seen.hit \/ (seen.mode = "StepIn" /\ Ins.src = seen.src)
      BY <1>3, OnlyExecuteCounts, BreakpointLetThrough
    <2>2. ASSUME client = "running", client' = "stopped", dbg'.reason = "Breakpoint"
          PROVE  Ins.src # seen.hit /\ FrameLine(Top)[2] \in pend[FrameLine(Top)[1]]
      <3>1. Halt
        BY <1>3, <2>2, StopHalts
      <3>2. Executing /\ Ins.src \in Breakpoints(pend) /\ Ins.src # dbg.last
        BY <1>3, <2>2, <3>1, HaltIs DEF BreakInv
      <3>3. ValidStack(stack) /\ stack # <<>>
        BY <1>3, <3>2, ExecutingIs
      <3>4. Top.f \in 1..Len(Functions) /\ Top.pc \in 1..Len(Functions[Top.f].code)
        BY <3>3, TopIs DEF Frames, CodeLength
      <3>5. FrameLine(Top)[2] \in pend[FrameLine(Top)[1]]
        BY <3>2, <3>4, BreakpointShown DEF Ins
      <3>6. SourceOffset = Ins.src
        BY <3>3 DEF SourceOffset
      <3>7. Ins.src # seen.hit
        BY <1>3, <2>2, <3>2, <3>6 DEF BreakInv
      <3> QED
        BY <3>5, <3>7
    <2> QED
      BY <2>1, <2>2
  <1> QED
    BY <1>1, <1>2, <1>3, AdapterHolds, StepInvHolds, PTL DEF Spec, BreakpointsStop

-----------------------------------------------------------------------------
(* References to instances *)

(* A key of the machine's instance map and a reference handed out to the   *)
(* client both name the function block declared in that slot of the caller.*)
InstInv ==
  /\ \A k \in DOMAIN inst : inst[k] = Functions[k[1][2]].fbs[k[2]]
  /\ refs = [next |-> refs.next, globals |-> refs.globals, fbs |-> refs.fbs]
  /\ \A id \in DOMAIN refs.fbs : refs.fbs[id].f = Functions[refs.fbs[id].caller[2]].fbs[refs.fbs[id].slot]

(* References as the adapter hands them out.                               *)
GoodRefs(r) == \A id \in DOMAIN r : r[id].f = Functions[r[id].caller[2]].fbs[r[id].slot]

LEMMA InsertGood ==
  ASSUME NEW r, NEW new, GoodRefs(r), GoodRefs(new)
  PROVE  GoodRefs(Insert(r, new))
  BY DEF GoodRefs, Insert

(* The references of a frame or an instance of the function the caller     *)
(* identity names.                                                         *)
LEMMA FbRefsGood ==
  ASSUME NEW slot, NEW f, NEW id
  PROVE  GoodRefs(FbRefs(<<slot, f>>, f, id))
  BY DEF GoodRefs, FbRefs

LEMMA AddRefsGood ==
  ASSUME InstInv, NEW r, GoodRefs(r), refs' = AddRefs(r), inst' = inst
  PROVE  InstInv'
  <1>1. GoodRefs(refs.fbs) /\ refs = [next |-> refs.next, globals |-> refs.globals, fbs |-> refs.fbs]
    BY DEF InstInv, GoodRefs
  <1>2. GoodRefs(Insert(refs.fbs, r))
    BY <1>1, InsertGood
  <1>3. refs' = [next |-> refs.next + Cardinality(DOMAIN r), globals |-> refs.globals,
                 fbs |-> Insert(refs.fbs, r)]
    BY <1>1 DEF AddRefs
  <1> QED
    BY <1>2, <1>3 DEF InstInv, GoodRefs

(* Every request that hands out references hands out good ones.            *)
LEMMA HandleRequestRefs ==
  ASSUME InstInv, NEW q, HandleRequest(q), inst' = inst
  PROVE  InstInv'
  <1>1. ASSUME refs' = refs PROVE InstInv'
    BY <1>1 DEF InstInv
  <1>2. CASE HandleScopes
    <2>1. refs' = [next |-> refs.next + 2, globals |-> refs.globals \cup {refs.next + 1}, fbs |-> refs.fbs]
      BY <1>2 DEF HandleScopes, InstInv
    <2> QED
      BY <2>1 DEF InstInv
  <1>3. CASE HandleVariables(q.ref)
    <2>1. CASE q.ref \in DOMAIN refs.fbs
      <3> DEFINE r == refs.fbs[q.ref]
      <3>1. refs' = AddRefs(FbRefs(NestedCaller(r), r.f, refs.next))
        BY <1>3, <2>1, Zenon DEF HandleVariables
      <3>2. GoodRefs(FbRefs(NestedCaller(r), r.f, refs.next))
        BY FbRefsGood DEF NestedCaller
      <3> QED
        BY <3>1, <3>2, AddRefsGood
    <2>2. CASE q.ref \notin DOMAIN refs.fbs /\ q.ref \notin refs.globals /\ stack # <<>>
      <3>1. refs' = AddRefs(FbRefs(CallerIdentity, Top.f, refs.next))
        BY <1>3, <2>2, Zenon DEF HandleVariables
      <3>2. GoodRefs(FbRefs(CallerIdentity, Top.f, refs.next))
        BY FbRefsGood DEF CallerIdentity
      <3> QED
        BY <3>1, <3>2, AddRefsGood
    <2>3. CASE q.ref \notin DOMAIN refs.fbs /\ ~(q.ref \notin refs.globals /\ stack # <<>>)
      <3>1. refs' = refs
        BY <1>3, <2>3, Zenon DEF HandleVariables
      <3> QED
        BY <1>1, <3>1
    <2> QED
      BY <2>1, <2>2, <2>3
  <1>4. CASE HandleEvaluate
    <2>1. CASE stack # <<>> /\ Functions[Top.f].fbs # <<>>
      <3> DEFINE new == [i \in {refs.next} |->
                           [caller |-> CallerIdentity, slot |-> 1, f |-> Functions[Top.f].fbs[1]]]
      <3>1. refs' = [next |-> refs.next + 1, globals |-> refs.globals, fbs |-> Insert(refs.fbs, new)]
        BY <1>4, <2>1 DEF HandleEvaluate, InstInv
      <3>2. GoodRefs(new) /\ GoodRefs(refs.fbs)
        BY DEF GoodRefs, CallerIdentity, InstInv
      <3>3. GoodRefs(Insert(refs.fbs, new))
        BY <3>2, InsertGood
      <3> QED
        BY <3>1, <3>3 DEF InstInv, GoodRefs
    <2>2. CASE ~(stack # <<>> /\ Functions[Top.f].fbs # <<>>)
      BY <1>1, <1>4, <2>2 DEF HandleEvaluate
    <2> QED
      BY <2>1, <2>2
  <1> QED
    BY <1>1, <1>2, <1>3, <1>4, HandleRequestIs

LEMMA InstStep ==
  ASSUME InstInv, [Next]_vars
  PROVE  InstInv'
  <1> USE DEF machine
  <1>1. ASSUME UNCHANGED <<inst, refs>> PROVE InstInv'
    BY <1>1 DEF InstInv
  <1>2. ASSUME NEW q \in Requests, Send(q) PROVE InstInv'
    BY <1>1, <1>2 DEF Send
  <1>3. CASE Receive
    <2>1. CASE LaunchFails
      BY <1>1, <2>1 DEF LaunchFails
    <2>2. CASE HandleLaunch
      BY <2>2 DEF HandleLaunch, InstInv
    <2>3. CASE HandleRequest(Head(chan)) /\ UNCHANGED machine
      BY <2>3, HandleRequestRefs
    <2> QED
      BY <1>3, <2>1, <2>2, <2>3 DEF Receive
  <1>4. CASE ReceiveResume
    <2>1. refs' = [next |-> refs.next, globals |-> {}, fbs |-> <<>>] /\ UNCHANGED inst
      BY <1>4 DEF ReceiveResume, InstInv
    <2> QED
      BY <2>1 DEF InstInv
  <1>5. CASE Execute
    <2>1. CASE inst' = inst
      BY <1>1, <1>5, <2>1 DEF Execute
    <2>2. CASE inst' = Insert(inst, [k \in {<<CallerIdentity, Ins.slot>>} |-> Functions[Top.f].fbs[Ins.slot]])
      <3>1. \A k \in DOMAIN inst' : inst'[k] = Functions[k[1][2]].fbs[k[2]]
        BY <2>2 DEF Insert, CallerIdentity, InstInv
      <3> QED
        BY <1>5, <3>1 DEF Execute, InstInv
    <2> QED
      BY <1>5, <2>1, <2>2 DEF Execute
  <1>6. CASE InflightRequest
    <2>1. CASE HandleRequest(Head(chan))
      BY <1>6, <2>1, HandleRequestRefs DEF InflightRequest
    <2>2. CASE UNCHANGED refs
      BY <1>1, <1>6, <2>2 DEF InflightRequest
    <2> QED
      BY <1>6, <2>1, <2>2 DEF InflightRequest
  <1>7. CASE HandleDeferred
    <2>1. CASE HandleRequest(Head(deferred))
      BY <1>7, <2>1, HandleRequestRefs DEF HandleDeferred
    <2>2. CASE UNCHANGED refs
      BY <1>1, <1>7, <2>2 DEF HandleDeferred
    <2> QED
      BY <1>7, <2>1, <2>2 DEF HandleDeferred
  <1>8. CASE \/ StepIteration \/ CycleCompleted \/ Halt \/ ExecutionLimit \/ PollDone \/ SleepDone
             \/ CycleCap \/ UNCHANGED vars
    BY <1>1, <1>8 DEF StepIteration, CycleCompleted, Halt, ExecutionLimit, PollDone, SleepDone, CycleCap, vars
  <1> QED
    BY <1>2, <1>3, <1>4, <1>5, <1>6, <1>7, <1>8 DEF Next

(* The fields the client is shown for an instance are those of the block   *)
(* whose state the machine keeps under the key that was built for it,      *)
(* however deep the nesting and however often references were handed out.  *)
THEOREM RefsNameInstancesHolds == Spec => []RefsNameInstances
  <1>1. Init => InstInv
    BY DEF Init, InstInv
  <1>2. InstInv /\ [Next]_vars => InstInv'
    BY InstStep
  <1>3. AdapterInv /\ InstInv => RefsNameInstances
    <2> SUFFICES ASSUME AdapterInv, InstInv PROVE RefsNameInstances
      OBVIOUS
    <2>1. LocalTypeOK
      BY DEF AdapterInv, TypeInv, LocalTypeOK, DebugStates, Runs, CodeLength, InRun
    <2>2. ASSUME NEW id \in DOMAIN refs.fbs,
                 <<refs.fbs[id].caller, refs.fbs[id].slot>> \in DOMAIN inst
          PROVE  inst[<<refs.fbs[id].caller, refs.fbs[id].slot>>] = refs.fbs[id].f
      BY <2>2 DEF InstInv
    <2> QED
      BY <2>1, <2>2 DEF RefsNameInstances
  <1> QED
    BY <1>1, <1>2, <1>3, AdapterHolds, PTL DEF Spec

=============================================================================
