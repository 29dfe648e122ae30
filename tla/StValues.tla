------------------------------ MODULE StValues ------------------------------
(***************************************************************************)
(* The runtime values of the virtual machine (st-ir: Value, VarType,       *)
(* IntWidth) and the pure operations its instructions apply to them        *)
(* (st-engine/src/vm.rs).  A value is a tuple whose first component is its *)
(* kind.  A BOOL is 0 or 1, a REAL counts halves, a STRING is a sequence   *)
(* of character codes, and a TIME, DATE, TOD or DT counts ticks of which   *)
(* TicksPerDay stand for the 86_400_000 milliseconds of a day.  A type is  *)
(* a record whose field b is its base name.                                *)
(***************************************************************************)
EXTENDS Integers, Sequences, FiniteSets

CONSTANT TicksPerDay

ASSUME TicksAssumption == TicksPerDay \in Nat \ {0}

BoolV(b) == <<"bool", IF b THEN 1 ELSE 0>>
IntV(i) == <<"int", i>>
UIntV(i) == <<"uint", i>>
RealV(h) == <<"real", h>>
StrV(s) == <<"str", s>>
TimeV(t) == <<"time", t>>
NullV == <<"null", 0>>
VoidV == <<"void", 0>>

Numeric(v) == v[1] \in {"int", "uint", "bool", "real", "time"}

\* Division and remainder of i64, which truncate towards zero.
TDiv(a, b) ==
    LET q == (IF a < 0 THEN -a ELSE a) \div (IF b < 0 THEN -b ELSE b)
    IN  IF (a < 0) = (b < 0) THEN q ELSE -q
TRem(a, b) == a - TDiv(a, b) * b

AsBool(v) == Numeric(v) /\ v[2] # 0

AsInt(v) ==
    IF v[1] = "real" THEN TDiv(v[2], 2)
    ELSE IF Numeric(v) THEN v[2] ELSE 0

\* A BOOL is not a number to as_real: it reads as 0.0.
AsReal(v) ==
    CASE v[1] = "real" -> v[2]
      [] v[1] \in {"int", "uint", "time"} -> 2 * v[2]
      [] OTHER -> 0

AsStr(v) == IF v[1] = "str" THEN v[2] ELSE <<>>

Signed == {"SINT", "INT"}
Unsigned == {"USINT", "UINT", "BYTE"}
TimeTypes == {"TIME", "DATE", "TOD", "DT"}
\* mutant of Width: every integer slot is as wide as an INT
WidthOfInt(ty) == 16

Width(ty) == IF ty.b \in {"SINT", "USINT", "BYTE"} THEN 8 ELSE 16

DefaultFor(ty) ==
    CASE ty.b = "BOOL" -> BoolV(FALSE)
      [] ty.b \in Signed -> IntV(0)
      [] ty.b \in Unsigned -> UIntV(0)
      [] ty.b = "REAL" -> RealV(0)
      [] ty.b = "STRING" -> StrV(<<>>)
      [] ty.b \in TimeTypes -> TimeV(0)
      [] ty.b = "REF" -> NullV
      [] OTHER -> VoidV

\* Two's complement wrap of n to w bits, and the reinterpretation as signed.
WrapU(n, w) == n % (2 ^ w)
WrapS(n, w) == ((n + 2 ^ (w - 1)) % (2 ^ w)) - 2 ^ (w - 1)

NarrowValue(v, ty) ==
    IF v[1] \notin {"int", "uint"} THEN v
    ELSE CASE ty.b \in Signed -> IntV(WrapS(v[2], Width(ty)))
           [] ty.b \in Unsigned -> UIntV(WrapU(v[2], Width(ty)))
           [] OTHER -> v

-----------------------------------------------------------------------------
(* Arithmetic, comparison and logic *)

Among(l, r, kind) == kind \in {l[1], r[1]}

RealOp(op, a, b) ==
    CASE op = "Add" -> a + b
      [] op = "Sub" -> a - b
      [] op = "Mul" -> TDiv(a * b, 2)
      [] op = "Div" -> TDiv(2 * a, b)

IntOp(op, a, b) ==
    CASE op = "Add" -> a + b
      [] op = "Sub" -> a - b
      [] op = "Mul" -> a * b
      [] op = "Div" -> TDiv(a, b)

ArithOp(op, l, r) ==
    CASE Among(l, r, "real") -> RealV(RealOp(op, AsReal(l), AsReal(r)))
      [] Among(l, r, "time") /\ ~Among(l, r, "real") -> TimeV(IntOp(op, AsInt(l), AsInt(r)))
      [] OTHER -> IntV(IntOp(op, AsInt(l), AsInt(r)))

\* Div refuses an integer zero, Mod any zero.
DividesByZero(op, r) ==
    \/ op = "Div" /\ AsInt(r) = 0 /\ r[1] \in {"int", "uint"}
    \/ op = "Mod" /\ AsInt(r) = 0

Compare(op, a, b) ==
    CASE op = "CmpEq" -> a = b
      [] op = "CmpNe" -> a # b
      [] op = "CmpLt" -> a < b
      [] op = "CmpGt" -> a > b
      [] op = "CmpLe" -> a <= b
      [] op = "CmpGe" -> a >= b

CmpOp(op, l, r) ==
    CASE l[1] = "null" /\ r[1] = "null" -> Compare(op, 0, 0)
      [] {l[1], r[1]} = {"null", "ref"} -> Compare(op, 1, 0)
      [] l[1] = "ref" /\ r[1] = "ref" -> Compare(op, IF l = r THEN 0 ELSE 1, 0)
      [] Among(l, r, "real") -> Compare(op, AsReal(l), AsReal(r))
      [] OTHER -> Compare(op, AsInt(l), AsInt(r))

LogicOp(op, l, r) ==
    CASE op = "And" -> BoolV(AsBool(l) /\ AsBool(r))
      [] op = "Or" -> BoolV(AsBool(l) \/ AsBool(r))
      [] op = "Xor" -> BoolV(AsBool(l) # AsBool(r))

NegOf(v) == IF v[1] = "real" THEN RealV(-v[2]) ELSE IntV(-AsInt(v))

-----------------------------------------------------------------------------
(* Partial access: bits and bytes of an integer *)

ExtractBit(v, i) == BoolV((AsInt(v) \div 2 ^ i) % 2 = 1)

InsertBit(v, i, b) ==
    LET old == (AsInt(v) \div 2 ^ i) % 2
        new == IF AsBool(b) THEN 1 ELSE 0
    IN  IntV(AsInt(v) + (new - old) * 2 ^ i)

ExtractPartial(v, i, bits) == IntV((AsInt(v) \div 2 ^ (i * bits)) % (2 ^ bits))

InsertPartial(v, i, bits, n) ==
    LET old == (AsInt(v) \div 2 ^ (i * bits)) % (2 ^ bits)
    IN  IntV(AsInt(v) + ((AsInt(n) % (2 ^ bits)) - old) * 2 ^ (i * bits))

-----------------------------------------------------------------------------
(* Dates and times of day *)

Floor(t) == t - (t % TicksPerDay)

ConvertOp(op, v) ==
    CASE op = "ToInt" -> IntV(AsInt(v))
      [] op = "ToReal" -> RealV(AsReal(v))
      [] op = "ToBool" -> BoolV(AsBool(v))
      [] op = "ToTime" -> TimeV(AsInt(v))
      [] op \in {"ToTod", "DtExtractTod"} -> TimeV(AsInt(v) % TicksPerDay)
      [] op = "DtExtractDate" -> TimeV(Floor(AsInt(v)))
      [] op = "DayOfWeek" -> IntV(((AsInt(v) \div TicksPerDay) + 4) % 7)
      [] op = "StringLen" -> IntV(Len(AsStr(v)))

\* ymd_to_epoch_ms: days since 1970-01-01 by the civil calendar, in ticks.
YmdToEpoch(year, month, day) ==
    LET y == IF month <= 2 THEN year - 1 ELSE year
        m == IF month <= 2 THEN month + 9 ELSE month - 3
        days == 365 * y + (y \div 4) - (y \div 100) + (y \div 400)
                  + ((m * 306 + 5) \div 10) + (day - 1) - 719468
    IN  days * TicksPerDay

-----------------------------------------------------------------------------
(* Strings: positions count from 1, out of range arguments are clamped *)

Least(a, b) == IF a < b THEN a ELSE b
Greatest(a, b) == IF a > b THEN a ELSE b
Clamp(n, s) == Least(Greatest(n, 0), Len(s))

LeftOf(s, n) == SubSeq(s, 1, Clamp(n, s))
RightOf(s, n) == SubSeq(s, Len(s) - Clamp(n, s) + 1, Len(s))

OutOfRange(s, len, pos) == pos < 1 \/ len <= 0 \/ pos > Len(s)

MidOf(s, len, pos) ==
    IF OutOfRange(s, len, pos) THEN <<>>
    ELSE SubSeq(s, pos, Least(pos - 1 + len, Len(s)))

InsertString(s, t, pos) ==
    LET cut == Clamp(pos, s) IN SubSeq(s, 1, cut) \o t \o SubSeq(s, cut + 1, Len(s))

DeleteFrom(s, len, pos) ==
    IF OutOfRange(s, len, pos) THEN s
    ELSE SubSeq(s, 1, pos - 1) \o SubSeq(s, Least(pos - 1 + len, Len(s)) + 1, Len(s))

ReplaceIn(s, t, len, pos) ==
    LET cut == IF pos < 1 THEN 0 ELSE Least(pos - 1, Len(s))
        end == Least(cut + Greatest(len, 0), Len(s))
    IN  SubSeq(s, 1, cut) \o t \o SubSeq(s, end + 1, Len(s))

\* 1-based position of the first match, 0 when there is none.
FindIn(s, t) ==
    LET at == {i \in 1..Len(s) : i + Len(t) - 1 <= Len(s)
                                  /\ SubSeq(s, i, i + Len(t) - 1) = t}
    IN  IF t = <<>> \/ at = {} THEN 0 ELSE CHOOSE i \in at : \A j \in at : i <= j

StringOp(op, a) ==
    CASE op = "StringConcat" -> StrV(AsStr(a[1]) \o AsStr(a[2]))
      [] op = "StringLeft" -> StrV(LeftOf(AsStr(a[1]), AsInt(a[2])))
      [] op = "StringRight" -> StrV(RightOf(AsStr(a[1]), AsInt(a[2])))
      [] op = "StringFind" -> IntV(FindIn(AsStr(a[1]), AsStr(a[2])))
      [] op = "StringMid" -> StrV(MidOf(AsStr(a[1]), AsInt(a[2]), AsInt(a[3])))
      [] op = "StringInsert" -> StrV(InsertString(AsStr(a[1]), AsStr(a[2]), AsInt(a[3])))
      [] op = "StringDelete" -> StrV(DeleteFrom(AsStr(a[1]), AsInt(a[2]), AsInt(a[3])))
      [] op = "StringReplace" ->
            StrV(ReplaceIn(AsStr(a[1]), AsStr(a[2]), AsInt(a[3]), AsInt(a[4])))
=============================================================================
