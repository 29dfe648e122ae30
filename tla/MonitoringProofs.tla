-------------------------- MODULE MonitoringProofs --------------------------
(***************************************************************************)
(* Proofs about Monitoring, for any programs, any settings, any number of  *)
(* clients and any integer widths: what an OPC UA client has written comes *)
(* back.                                                                   *)
(***************************************************************************)
EXTENDS Monitoring, FiniteSetTheorems, SequenceTheorems, WellFoundedInduction, TLAPS

-----------------------------------------------------------------------------
(* Numbers *)

(* A set of numbers that is not empty has a least element.                 *)
LEMMA LeastNumber ==
  ASSUME NEW S, S \subseteq Nat, S # {}
  PROVE  \E n \in S : \A m \in S : n <= m
  <1> DEFINE R == OpToRel(<, Nat)
  <1>1. \E x \in S : \A y \in S : ~(<<y, x>> \in R)
    BY NatLessThanWellFounded, WFMin
  <1>2. PICK x \in S : \A y \in S : ~(<<y, x>> \in R)
    BY <1>1
  <1>3. \A y \in S : ~(y < x)
    BY <1>2 DEF OpToRel
  <1> QED
    BY <1>3

LEMMA Remainder ==
  ASSUME NEW m \in Nat, NEW n \in Nat, n < m
  PROVE  n % m = n
  OBVIOUS

\* A number in the range of a type is not changed by its width.
LEMMA InRange ==
  ASSUME NEW h \in Nat, h > 0, NEW n \in Int
  PROVE  /\ -h <= n /\ n < h => Signed(n, h) = n
         /\ 0 <= n /\ n < 2 * h => Unsigned(n, h) = n
  <1>1. ASSUME -h <= n, n < h PROVE Signed(n, h) = n
    <2>1. (n + h) % (2 * h) = n + h
      BY <1>1, Remainder
    <2> QED
      BY <2>1 DEF Signed
  <1>2. ASSUME 0 <= n, n < 2 * h PROVE Unsigned(n, h) = n
    BY <1>2, Remainder DEF Unsigned
  <1> QED
    BY <1>1, <1>2

LEMMA HalfIs ==
  \A ty : Half(ty) \in Nat /\ 1 < Half(ty) /\ Half(ty) <= LongHalf
  BY WidthsAssumption DEF Half

-----------------------------------------------------------------------------
(* From a variant to a text, a value, a text and a variant *)

\* What the code makes of a written value that a variable of type ty holds.
Returned(v, ty) ==
  ParseValueToVariant(FormatValue(NarrowValue(ParseValueString(VariantToValueString(v)), ty)), ty)

Distorted(v, ty) ==
  \/ v.type \in LongUnsigned /\ v.n > LongMax
  \/ v.type \in {"Float", "Double"} /\ v.n % 2 # 0
  \/ v.type = "String" /\ v.form \in {"true", "short", "fixed", "digits"}
  \/ v.type = "String" /\ v.form = "int" /\ ~ InLong(v.n)
  \/ v.type = "String" /\ ty # "STRING"

LEMMA TypeNames ==
  ASSUME NEW ty
  PROVE  /\ IecTypeToOpcuaDataType(ty) = "Boolean" => ty = "BOOL"
         /\ IecTypeToOpcuaDataType(ty) = "Float" => ty = "REAL"
         /\ IecTypeToOpcuaDataType(ty) = "Double" => ty = "LREAL"
         /\ IecTypeToOpcuaDataType(ty) = "Int64" => ty = "TIME"
         /\ IsSigned(IecTypeToOpcuaDataType(ty)) => IsSigned(ty) /\ IecTypeToOpcuaDataType(ty) = ty
         /\ IsUnsigned(IecTypeToOpcuaDataType(ty)) => IsUnsigned(ty) /\ IecTypeToOpcuaDataType(ty) = ty
         /\ IecTypeToOpcuaDataType(ty) = "String" =>
              ~IsSigned(ty) /\ ~IsUnsigned(ty) /\ ty \notin {"BOOL", "REAL", "LREAL", "TIME"}
  BY DEF IecTypeToOpcuaDataType, IsSigned, IsUnsigned, ShortSigned, ShortUnsigned, LongUnsigned

\* An integer in the signed range is a number, in every type but for the width.
LEMMA WholeText ==
  ASSUME NEW n \in Int, InLong(n)
  PROVE  ParseValueString(Text("int", n)) = Value("Int", "int", n)
  BY DEF ParseValueString, Text

LEMMA ReturnedBoolean ==
  ASSUME NEW v, IsVariant(v), NEW ty, v.type = IecTypeToOpcuaDataType(ty), v.type = "Boolean"
  PROVE  Returned(v, ty) = v
  <1>1. ty = "BOOL" /\ v.form \in {"TRUE", "FALSE"} /\ v.n = 0 /\ v = Variant(v.type, v.form, v.n)
    BY TypeNames DEF IsVariant, IsSigned, IsUnsigned, ShortSigned, ShortUnsigned, LongUnsigned
  <1>2. VariantToValueString(v) = Text(v.form, 0)
    BY <1>1 DEF VariantToValueString
  <1>3. ParseValueString(Text(v.form, 0)) = Value("Bool", v.form, 0)
    BY <1>1 DEF ParseValueString, Text
  <1>4. NarrowValue(Value("Bool", v.form, 0), ty) = Value("Bool", v.form, 0)
    BY DEF NarrowValue, Value
  <1>5. FormatValue(Value("Bool", v.form, 0)) = Text(v.form, 0)
    BY DEF FormatValue, Value
  <1>6. ParseValueToVariant(Text(v.form, 0), ty) = Variant("Boolean", v.form, 0)
    BY <1>1 DEF ParseValueToVariant, Text, IecTypeToOpcuaDataType
  <1> QED
    BY <1>1, <1>2, <1>3, <1>4, <1>5, <1>6 DEF Returned

LEMMA ReturnedString ==
  ASSUME NEW v, IsVariant(v), NEW ty, v.type = IecTypeToOpcuaDataType(ty), v.type = "String", ~Distorted(v, ty)
  PROVE  Returned(v, ty) = v
  <1> DEFINE t == Text(v.form, v.n)
             x == ParseValueString(t)
  <1>1. v = Variant("String", v.form, v.n) /\ v.n \in Int /\ v.form \notin {"true", "short", "fixed", "digits"}
        /\ (v.form = "int" => InLong(v.n)) /\ ty = "STRING"
    BY DEF IsVariant, Distorted
  <1>2. VariantToValueString(v) = t
    BY DEF VariantToValueString
  <1>3. /\ x.kind \in {"Bool", "Int", "String"} /\ x.form = v.form /\ x.n = v.n
        /\ DOMAIN x = {"kind", "form", "n"}
    BY <1>1 DEF ParseValueString, Text, Value
  <1>4. NarrowValue(x, ty) = x
    BY <1>1 DEF NarrowValue, IsSigned, IsUnsigned, ShortSigned, ShortUnsigned, LongUnsigned
  <1>5. FormatValue(x).form = v.form /\ FormatValue(x).n = v.n
    <2>1. FormatValue(x) \in {Text(v.form, v.n), [Text(v.form, v.n) EXCEPT !.quoted = TRUE]}
      BY <1>3 DEF FormatValue
    <2> QED
      BY <2>1 DEF Text
  <1>6. \A y : ParseValueToVariant(y, ty) = Variant("String", y.form, y.n)
    BY <1>1 DEF ParseValueToVariant, ParseString, IsSigned, IsUnsigned, ShortSigned, ShortUnsigned, LongUnsigned
  <1> HIDE DEF x, t
  <1> QED
    BY <1>1, <1>2, <1>4, <1>5, <1>6 DEF Returned, x

LEMMA ReturnedReal ==
  ASSUME NEW v, IsVariant(v), NEW ty, v.type = IecTypeToOpcuaDataType(ty), v.type \in {"Float", "Double"}, ~Distorted(v, ty)
  PROVE  Returned(v, ty) = v
  <1> DEFINE x == ParseValueString(VariantToValueString(v))
  <1>1. /\ v = Variant(v.type, "number", v.n) /\ v.n \in Int /\ v.n % 2 = 0 /\ ty \in {"REAL", "LREAL"}
    BY TypeNames DEF IsVariant, Distorted, IsSigned, IsUnsigned, ShortSigned, ShortUnsigned, LongUnsigned
  <1>2. x = Value("Real", "real", v.n) \/ (v.n % 4 = 0 /\ x = Value("Int", "int", v.n \div 4))
    <2>1. CASE v.n % 4 = 0
      <3>1. VariantToValueString(v) = Text("int", v.n \div 4)
        BY <2>1 DEF VariantToValueString
      <3>2. (v.n \div 4) * 4 = v.n
        BY <1>1, <2>1
      <3>3. x \in {Value("Int", "int", v.n \div 4), Value("Real", "real", (v.n \div 4) * 4)}
        BY <3>1 DEF ParseValueString, Text
      <3> QED
        BY <2>1, <3>2, <3>3
    <2>2. CASE v.n % 4 # 0
      <3>1. VariantToValueString(v) = Text("short", v.n)
        BY <2>2 DEF VariantToValueString
      <3> QED
        BY <3>1 DEF ParseValueString, Text
    <2> QED
      BY <2>1, <2>2
  <1> HIDE DEF x
  <1>3. NarrowValue(x, ty) = x
    BY <1>1 DEF NarrowValue, IsSigned, IsUnsigned, ShortSigned, ShortUnsigned, LongUnsigned
  <1>4. ParseF64(FormatValue(x)) = v.n
    <2>1. CASE x = Value("Real", "real", v.n)
      <3>1. FormatValue(x) = Text("fixed", v.n)
        BY <1>1, <2>1 DEF FormatValue, Value
      <3> QED
        BY <3>1 DEF ParseF64, Text
    <2>2. CASE v.n % 4 = 0 /\ x = Value("Int", "int", v.n \div 4)
      <3>1. FormatValue(x) = Text("int", v.n \div 4)
        BY <2>2 DEF FormatValue, Value
      <3>2. (v.n \div 4) * 4 = v.n
        BY <1>1, <2>2
      <3> QED
        BY <3>1, <3>2 DEF ParseF64, Text
    <2> QED
      BY <1>2, <2>1, <2>2
  <1>5. \A y : ParseValueToVariant(y, ty) = Variant(v.type, "number", ParseF64(y))
    BY <1>1 DEF ParseValueToVariant, IsSigned, IsUnsigned, ShortSigned, ShortUnsigned, LongUnsigned
  <1> QED
    BY <1>1, <1>3, <1>4, <1>5 DEF Returned, x

LEMMA ReturnedWhole ==
  ASSUME NEW v, IsVariant(v), NEW ty, v.type = IecTypeToOpcuaDataType(ty),
         v.type = "Int64" \/ IsSigned(v.type) \/ IsUnsigned(v.type), ~Distorted(v, ty)
  PROVE  Returned(v, ty) = v
  <1>1. v = Variant(v.type, "number", v.n) /\ v.n \in Int /\ VariantToValueString(v) = Text("int", v.n)
    BY DEF IsVariant, VariantToValueString, IsSigned, IsUnsigned, ShortSigned, ShortUnsigned, LongUnsigned
  <1>2. CASE v.type = "Int64"
    <2>1. ty = "TIME" /\ InLong(v.n)
      BY <1>2, TypeNames DEF IsVariant, IsSigned, IsUnsigned, ShortSigned, ShortUnsigned, LongUnsigned
    <2>2. ParseValueString(Text("int", v.n)) = Value("Int", "int", v.n)
      BY <1>1, <2>1, WholeText
    <2>3. NarrowValue(Value("Int", "int", v.n), ty) = Value("Int", "int", v.n)
      BY <2>1 DEF NarrowValue, IsSigned, IsUnsigned, ShortSigned, ShortUnsigned, LongUnsigned
    <2>4. FormatValue(Value("Int", "int", v.n)) = Text("int", v.n)
      BY DEF FormatValue, Value
    <2>5. ParseValueToVariant(Text("int", v.n), ty) = Variant("Int64", "number", v.n)
      BY <2>1 DEF ParseValueToVariant, ParseTimeString, Text, IecTypeToOpcuaDataType, IsSigned, IsUnsigned,
                  ShortSigned, ShortUnsigned, LongUnsigned
    <2> QED
      BY <1>1, <1>2, <2>2, <2>3, <2>4, <2>5 DEF Returned
  <1>3. CASE IsSigned(v.type)
    <2>1. IsSigned(ty) /\ ty = v.type /\ v.n \in -Half(ty)..(Half(ty) - 1)
      BY <1>3, TypeNames DEF IsVariant, IsSigned, IsUnsigned, ShortSigned, ShortUnsigned, LongUnsigned
    <2>2. InLong(v.n) /\ Signed(v.n, Half(ty)) = v.n
      BY <2>1, HalfIs, InRange, WidthsAssumption DEF InLong, LongMax
    <2>3. ParseValueString(Text("int", v.n)) = Value("Int", "int", v.n)
      BY <1>1, <2>2, WholeText
    <2>4. NarrowValue(Value("Int", "int", v.n), ty) = Value("Int", "int", v.n)
      BY <2>1, <2>2 DEF NarrowValue, Value
    <2>5. FormatValue(Value("Int", "int", v.n)) = Text("int", v.n)
      BY DEF FormatValue, Value
    <2>6. ParseI64(Text("int", v.n)) = v.n
      BY <2>2 DEF ParseI64, Text
    <2>7. \A y : ParseValueToVariant(y, ty) = Variant(v.type, "number", Signed(ParseI64(y), Half(ty)))
      BY <2>1 DEF ParseValueToVariant, IsSigned, IsUnsigned, ShortSigned, ShortUnsigned, LongUnsigned
    <2> QED
      BY <1>1, <2>2, <2>3, <2>4, <2>5, <2>6, <2>7 DEF Returned
  <1>4. CASE IsUnsigned(v.type)
    <2>1. IsUnsigned(ty) /\ ty = v.type /\ v.n \in 0..(2 * Half(ty) - 1) /\ ~IsSigned(ty)
      BY <1>4, TypeNames DEF IsVariant, IsSigned, IsUnsigned, ShortSigned, ShortUnsigned, LongUnsigned
    <2>2. InLong(v.n)
      <3>1. CASE ty \in LongUnsigned
        BY <2>1, <3>1, WidthsAssumption DEF Distorted, InLong, LongMax
      <3>2. CASE ty \in ShortUnsigned
        BY <2>1, <3>2, WidthsAssumption DEF InLong, LongMax, Half
      <3> QED
        BY <2>1, <3>1, <3>2 DEF IsUnsigned
    <2>3. Unsigned(v.n, Half(ty)) = v.n
      BY <2>1, HalfIs, InRange
    <2>4. ParseValueString(Text("int", v.n)) = Value("Int", "int", v.n)
      BY <1>1, <2>2, WholeText
    <2>5. NarrowValue(Value("Int", "int", v.n), ty) = Value("UInt", "int", v.n)
      BY <2>1, <2>3 DEF NarrowValue, Value
    <2>6. FormatValue(Value("UInt", "int", v.n)) = Text("int", v.n)
      BY DEF FormatValue, Value
    <2>7. ParseU64(Text("int", v.n)) = v.n
      BY <2>1 DEF ParseU64, Text
    <2>8. \A y : ParseValueToVariant(y, ty) = Variant(v.type, "number", Unsigned(ParseU64(y), Half(ty)))
      BY <2>1 DEF ParseValueToVariant, IsSigned, IsUnsigned, ShortSigned, ShortUnsigned, LongUnsigned
    <2> QED
      BY <1>1, <2>3, <2>4, <2>5, <2>6, <2>7, <2>8 DEF Returned
  <1> QED
    BY <1>2, <1>3, <1>4

LEMMA WriteComesBack ==
  ASSUME NEW v, IsVariant(v), NEW ty, v.type = IecTypeToOpcuaDataType(ty), ~Distorted(v, ty)
  PROVE  Returned(v, ty) = v
  BY ReturnedBoolean, ReturnedString, ReturnedReal, ReturnedWhole DEF IsVariant

\* What a client writes to an INT fits, and so does not need the width of one.
LEMMA IntFits ==
  ASSUME NEW v, IsVariant(v), v.type = "INT"
  PROVE  LET x == ParseValueString(VariantToValueString(v)) IN NarrowValue(x, "INT") = x
  <1>1. v.n \in Int /\ VariantToValueString(v) = Text("int", v.n)
    BY DEF IsVariant, VariantToValueString
  <1>2. IsSigned("INT") /\ v.n \in -Half("INT")..(Half("INT") - 1)
    BY DEF IsVariant, IsSigned, IsUnsigned, ShortSigned, ShortUnsigned, LongUnsigned
  <1>3. InLong(v.n) /\ Signed(v.n, Half("INT")) = v.n
    BY <1>1, <1>2, HalfIs, InRange, WidthsAssumption DEF InLong, LongMax
  <1>4. ParseValueString(Text("int", v.n)) = Value("Int", "int", v.n)
    BY <1>1, <1>3, WholeText
  <1>5. NarrowValue(Value("Int", "int", v.n), "INT") = Value("Int", "int", v.n)
    BY <1>2, <1>3 DEF NarrowValue, Value
  <1> QED
    BY <1>1, <1>4, <1>5

-----------------------------------------------------------------------------
(* The fields of blocks *)

Segments(p) == {Field(f.n) : f \in UNION {ToSet(p.types[of]) : of \in DOMAIN p.types}}

\* One level of BlockFields from the one below it.
Level(p, n, below) ==
  [of \in DOMAIN p.types |->
     {[path |-> <<Field(p.types[of][j].n)>>, slot |-> <<of, j>>] : j \in DOMAIN p.types[of]} \union
     IF n = 0 THEN {}
     ELSE UNION {{[path |-> <<Field(f.n)>> \o g.path, slot |-> g.slot] : g \in below[f.of]} :
                    f \in {f \in ToSet(p.types[of]) : f.ty = "FB"}}]
Levels(p, N, F) == F = [n \in 0..N |-> Level(p, n, F[n - 1])]

\* The levels can be built one upon the other, to any depth.
LEMMA LevelsExist ==
  ASSUME NEW p PROVE \A N \in Nat : \E F : Levels(p, N, F)
  <1> SUFFICES ASSUME NEW M \in Nat, ~ \E F : Levels(p, M, F) PROVE FALSE
    OBVIOUS
  <1> DEFINE S == {N \in Nat : ~ \E F : Levels(p, N, F)}
  <1>1. PICK N \in S : \A m \in S : N <= m
    BY LeastNumber
  <1>2. CASE N = 0
    <2> DEFINE F == [n \in 0..0 |-> Level(p, 0, p)]
    <2>1. \A a, b : Level(p, 0, a) = Level(p, 0, b)
      BY DEF Level
    <2>2. \A n \in 0..0 : n = 0
      OBVIOUS
    <2>3. \A n \in 0..0 : F[n] = Level(p, n, F[n - 1])
      <3> SUFFICES ASSUME NEW n \in 0..0 PROVE F[n] = Level(p, n, F[n - 1])
        OBVIOUS
      <3>1. n = 0 /\ F[n] = Level(p, 0, p)
        OBVIOUS
      <3> HIDE DEF F
      <3> QED
        BY <2>1, <3>1
    <2>4. Levels(p, 0, F)
      <3>1. F = [n \in 0..0 |-> F[n]]
        OBVIOUS
      <3> HIDE DEF F
      <3> QED
        BY <2>3, <3>1 DEF Levels
    <2> QED
      BY <1>1, <1>2, <2>4
  <1>3. CASE N # 0
    <2>1. N - 1 \in Nat /\ N - 1 \notin S
      BY <1>1, <1>3
    <2>2. PICK G : Levels(p, N - 1, G)
      BY <2>1
    <2> DEFINE F == [n \in 0..N |-> IF n = N THEN Level(p, N, G[N - 1]) ELSE G[n]]
    <2>3. \A n \in 0..(N - 1) : F[n] = G[n] /\ G[n] = Level(p, n, G[n - 1])
      <3>1. \A n \in 0..(N - 1) : G[n] = Level(p, n, G[n - 1])
        BY <2>2 DEF Levels
      <3>2. \A n \in 0..(N - 1) : n \in 0..N /\ n # N
        BY <2>1
      <3>3. \A n \in 0..(N - 1) : F[n] = G[n]
        BY <3>2
      <3> HIDE DEF F
      <3> QED
        BY <3>1, <3>3
    <2>4. ASSUME NEW n \in 0..N PROVE F[n] = Level(p, n, F[n - 1])
      <3>1. CASE n = N
        <4>1. F[N] = Level(p, N, G[N - 1]) /\ F[N - 1] = G[N - 1]
          BY <1>1, <1>3
        <4> HIDE DEF F
        <4> QED
          BY <3>1, <4>1
      <3>2. CASE n # N /\ n # 0
        <4>1. n \in 0..(N - 1) /\ n - 1 \in 0..(N - 1)
          BY <1>1, <3>2
        <4> HIDE DEF F
        <4> QED
          BY <2>3, <4>1
      <3>3. CASE n # N /\ n = 0
        <4>1. \A a, b : Level(p, 0, a) = Level(p, 0, b)
          BY DEF Level
        <4>2. 0 \in 0..(N - 1)
          BY <2>1
        <4> HIDE DEF F
        <4>3. F[0] = Level(p, 0, G[0 - 1])
          BY <2>3, <4>2
        <4> QED
          BY <3>3, <4>1, <4>3
      <3> QED
        BY <3>1, <3>2, <3>3
    <2>5. Levels(p, N, F)
      <3>1. F = [n \in 0..N |-> F[n]]
        OBVIOUS
      <3> HIDE DEF F
      <3> QED
        BY <2>4, <3>1 DEF Levels
    <2> QED
      BY <1>1, <2>5
  <1> QED
    BY <1>2, <1>3

\* A path of one segment leads to a field of the block itself.
OwnField(p, fb, g) ==
  \E j \in DOMAIN p.types[fb] : g.path = <<Field(p.types[fb][j].n)>> /\ g.slot = <<fb, j>>

\* The path of a field is not empty.
LEMMA PathIs ==
  ASSUME NEW p, Declared(p), NEW fb \in DOMAIN p.types, NEW g \in BlockFields(p)[fb]
  PROVE  g.path \in Seq(Segments(p)) /\ Len(g.path) >= 1 /\ (Len(g.path) = 1 => OwnField(p, fb, g))
  <1> DEFINE D == Depth(p)
             F == CHOOSE f : f = [n \in 0..D |-> Level(p, n, f[n - 1])]
             Pathed(of, h) == h.path \in Seq(Segments(p)) /\ Len(h.path) >= 1 /\ (Len(h.path) = 1 => OwnField(p, of, h))
             S == {n \in Nat : n <= D /\ ~ \A of \in DOMAIN p.types : \A x \in F[n][of] : Pathed(of, x)}
  <1>1. D \in Nat
    BY FS_CardinalityType DEF Depth, Declared
  <1>2. F = [n \in 0..D |-> Level(p, n, F[n - 1])]
    <2>1. \E f : f = [n \in 0..D |-> Level(p, n, f[n - 1])]
      BY <1>1, LevelsExist DEF Levels
    <2> QED
      BY <2>1, Zenon
  <1>3. BlockFields(p) = F[D]
    BY Zenon DEF BlockFields, Level
  <1> HIDE DEF F, D
  <1>4. S = {}
    <2> SUFFICES ASSUME S # {} PROVE FALSE
      OBVIOUS
    <2>1. PICK n \in S : \A m \in S : n <= m
      BY LeastNumber
    <2>2. n \in 0..D /\ F[n] = Level(p, n, F[n - 1])
      BY <1>1, <1>2, <2>1
    <2>3a. PICK of \in DOMAIN p.types : \E x \in F[n][of] : ~Pathed(of, x)
      BY <2>1
    <2>3. PICK x \in F[n][of] : ~Pathed(of, x)
      BY <2>3a
    <2>4. \/ \E j \in DOMAIN p.types[of] : x = [path |-> <<Field(p.types[of][j].n)>>, slot |-> <<of, j>>]
          \/ /\ n # 0
             /\ \E f \in {f \in ToSet(p.types[of]) : f.ty = "FB"} : \E h \in F[n - 1][f.of] :
                  x = [path |-> <<Field(f.n)>> \o h.path, slot |-> h.slot]
      <3>1. F[n][of] = {[path |-> <<Field(p.types[of][j].n)>>, slot |-> <<of, j>>] : j \in DOMAIN p.types[of]} \union
                       IF n = 0 THEN {}
                       ELSE UNION {{[path |-> <<Field(f.n)>> \o h.path, slot |-> h.slot] : h \in F[n - 1][f.of]} :
                                      f \in {f \in ToSet(p.types[of]) : f.ty = "FB"}}
        BY <2>2, Zenon DEF Level
      <3> HIDE DEF S
      <3>2. CASE n = 0
        <4>1. F[n][of] = {[path |-> <<Field(p.types[of][j].n)>>, slot |-> <<of, j>>] : j \in DOMAIN p.types[of]} \union {}
          BY <3>1, <3>2, Zenon
        <4> QED
          BY <2>3, <4>1, Zenon
      <3>3. CASE n # 0
        <4>1. F[n][of] = {[path |-> <<Field(p.types[of][j].n)>>, slot |-> <<of, j>>] : j \in DOMAIN p.types[of]} \union
                         UNION {{[path |-> <<Field(f.n)>> \o h.path, slot |-> h.slot] : h \in F[n - 1][f.of]} :
                                   f \in {f \in ToSet(p.types[of]) : f.ty = "FB"}}
          BY <3>1, <3>3, Zenon
        <4> DEFINE B(f) == {[path |-> <<Field(f.n)>> \o h.path, slot |-> h.slot] : h \in F[n - 1][f.of]}
                   T == {f \in ToSet(p.types[of]) : f.ty = "FB"}
        <4>2. \/ x \in {[path |-> <<Field(p.types[of][j].n)>>, slot |-> <<of, j>>] : j \in DOMAIN p.types[of]}
              \/ x \in UNION {B(f) : f \in T}
          BY <2>3, <4>1, Zenon
        <4>3. ASSUME x \in UNION {B(f) : f \in T} PROVE \E f \in T : x \in B(f)
          <5> HIDE DEF B, T
          <5> QED
            BY <4>3, Zenon
        <4>4. \A f : x \in B(f) => \E h \in F[n - 1][f.of] : x = [path |-> <<Field(f.n)>> \o h.path, slot |-> h.slot]
          BY Zenon
        <4>5. CASE x \in {[path |-> <<Field(p.types[of][j].n)>>, slot |-> <<of, j>>] : j \in DOMAIN p.types[of]}
          BY <4>5, Zenon
        <4>6. CASE x \in UNION {B(f) : f \in T}
          <5>1. PICK f \in T : x \in B(f)
            BY <4>3, <4>6
          <5>2. \E h \in F[n - 1][f.of] : x = [path |-> <<Field(f.n)>> \o h.path, slot |-> h.slot]
            BY <4>4, <5>1
          <5> QED
            BY <3>3, <5>2, Zenon
        <4> QED
          BY <4>2, <4>5, <4>6
      <3> QED
        BY <3>2, <3>3
    <2>5. \A f \in ToSet(p.types[of]) : Field(f.n) \in Segments(p)
      BY DEF Segments
    <2>6. CASE \E j \in DOMAIN p.types[of] : x = [path |-> <<Field(p.types[of][j].n)>>, slot |-> <<of, j>>]
      <3>1. PICK j \in DOMAIN p.types[of] : x = [path |-> <<Field(p.types[of][j].n)>>, slot |-> <<of, j>>]
        BY <2>6
      <3>2. p.types[of][j] \in ToSet(p.types[of])
        BY DEF ToSet
      <3>3. Field(p.types[of][j].n) \in Segments(p)
        BY <2>5, <3>2
      <3>4. x.path = <<Field(p.types[of][j].n)>> /\ x.slot = <<of, j>>
        <4> HIDE DEF S
        <4>1. \A a, b : [path |-> a, slot |-> b].path = a /\ [path |-> a, slot |-> b].slot = b
          OBVIOUS
        <4> QED
          BY <3>1, <4>1
      <3> HIDE DEF S
      <3>5. x.path \in Seq(Segments(p)) /\ Len(x.path) >= 1
        BY <3>3, <3>4
      <3>6. OwnField(p, of, x)
        BY <3>4, Zenon DEF OwnField
      <3> QED
        BY <2>3, <3>5, <3>6
    <2>7. CASE /\ n # 0
               /\ \E f \in {f \in ToSet(p.types[of]) : f.ty = "FB"} : \E h \in F[n - 1][f.of] :
                    x = [path |-> <<Field(f.n)>> \o h.path, slot |-> h.slot]
      <3>0. PICK f \in {f \in ToSet(p.types[of]) : f.ty = "FB"} :
              \E h \in F[n - 1][f.of] : x = [path |-> <<Field(f.n)>> \o h.path, slot |-> h.slot]
        BY <2>7
      <3>a. PICK h \in F[n - 1][f.of] : x = [path |-> <<Field(f.n)>> \o h.path, slot |-> h.slot]
        BY <3>0
      <3>1. x.path = <<Field(f.n)>> \o h.path
        <4> HIDE DEF S
        <4>1. \A a, b : [path |-> a, slot |-> b].path = a
          OBVIOUS
        <4> QED
          BY <3>a, <4>1
      <3>2. f.of \in DOMAIN p.types
        BY <3>0 DEF Declared
      <3>3. Field(f.n) \in Segments(p)
        BY <2>5
      <3>4. n - 1 \in Nat /\ n - 1 <= D /\ n - 1 \notin S
        BY <1>1, <2>1, <2>7
      <3>5. Pathed(f.of, h)
        BY <3>a, <3>2, <3>4
      <3> HIDE DEF S
      <3>6. x.path \in Seq(Segments(p)) /\ Len(x.path) >= 2
        BY <3>1, <3>3, <3>5
      <3>7. Len(x.path) \in Nat
        BY <3>6
      <3>8. \A k \in Nat : k >= 2 => k >= 1 /\ k # 1
        OBVIOUS
      <3> QED
        BY <2>3, <3>6, <3>7, <3>8, Zenon
    <2> QED
      BY <2>4, <2>6, <2>7
  <1> QED
    BY <1>1, <1>3, <1>4

-----------------------------------------------------------------------------
(* What is shown of a forced variable *)

\* The forced value is shown with the width of a type, be it the type that is
\* told or a compound for which INT is told.
ShownAs(m, v) ==
  \E ty : /\ v.ty = ty \/ (ty \in Compounds /\ v.ty = "INT")
          /\ v.value = FormatValue(NarrowValue(m.forced[v.name].value, ty))

LEMMA ShownIs ==
  ASSUME NEW m, NEW p, NEW name, NEW ty, NEW keep, name \in DOMAIN m.forced, Forceable(p, name)
  PROVE  ShownAs(m, Shown(m, p, name, ty, keep))
  <1> DEFINE v == Shown(m, p, name, ty, keep)
  <1>1. v.name = name /\ v.ty = DisplayedType(ty) /\ v.value = FormatValue(NarrowValue(m.forced[name].value, ty))
    BY DEF Shown, Variable, Stored
  <1>2. DisplayedType(ty) = ty \/ (ty \in Compounds /\ DisplayedType(ty) = "INT")
    BY DEF DisplayedType
  <1> HIDE DEF v
  <1>3. ShownAs(m, v)
    BY <1>1, <1>2 DEF ShownAs
  <1> QED
    BY <1>3 DEF v

\* A field of a block, as its own index in the state of the block shows it.
LEMMA FieldIs ==
  ASSUME NEW m, NEW p, NEW of, NEW j, NEW name, NEW keep, name \in DOMAIN m.forced, Forceable(p, name), m.ran,
         p.types[of][j].ty # "ARRAY", WithinState(p, of, j, 0)
  PROVE  ShownAs(m, Variable(m, name, p.types[of][j].ty, FormatValue(FieldValue(m, p, of, j, name, 0)), keep))
  <1> DEFINE ty == p.types[of][j].ty
             v == Variable(m, name, ty, FormatValue(FieldValue(m, p, of, j, name, 0)), keep)
  <1>1. FieldValue(m, p, of, j, name, 0) = NarrowValue(m.forced[name].value, ty)
    BY DEF FieldValue
  <1>2. v.name = name /\ v.ty = ty /\ v.value = FormatValue(NarrowValue(m.forced[name].value, ty))
    BY <1>1 DEF Variable
  <1> HIDE DEF v
  <1>3. ShownAs(m, v)
    BY <1>2 DEF ShownAs
  <1> QED
    BY <1>3 DEF v

LEMMA VariableIs ==
  ASSUME NEW m, NEW p, Declared(p), NEW v \in MonitorableVariables(m, p), v.name \in DOMAIN m.forced,
         Forceable(p, v.name), m.ran \/ ~InInstance(p, v.name), ~OutOfReach(p, v.name)
  PROVE  ShownAs(m, v)
  <1> DEFINE Good == ShownAs(m, v)
             pou == p.pous[1]
  <1>1. ASSUME NEW name, NEW ty, NEW keep, v = Shown(m, p, name, ty, keep) PROVE Good
    <2>1. v.name = name
      BY <1>1 DEF Shown, Variable
    <2> QED
      BY <1>1, <2>1, ShownIs
  <1> HIDE DEF Good
  <1>2. ASSUME v \in GlobalVariables(m, p) PROVE Good
    BY <1>1, <1>2 DEF GlobalVariables
  <1>3. ASSUME NEW s \in ToSet(pou.slots), v \in SnapshotLocal(m, p, pou, s) PROVE Good
    <2> DEFINE name == <<Field(pou.n), Field(s.n)>>
    <2>a. Len(name) = 2 /\ name[2] = Field(s.n)
      OBVIOUS
    <2>b. \A t \in ToSet(pou.slots) : Field(t.n) = Field(s.n) => t = s
      BY DEF Declared, Field
    <2>c. Len(v.name) = 1 \/ Len(v.name) = 2 \/ Len(v.name) = 3
      <3>1. \A q : Len(<<q>>) = 1
        OBVIOUS
      <3> QED
        BY <3>1, Zenon DEF Forceable
    <2>1. ASSUME v.name = name, s.ty \in Compounds PROVE FALSE
      <3> HIDE DEF name
      <3>1. \A q : Len(<<q>>) = 1
        OBVIOUS
      <3>2. PICK t \in ToSet(pou.slots) : name[2] = Field(t.n) /\ t.ty \notin Compounds
        BY <2>1, <2>a, <3>1 DEF Forceable
      <3> QED
        BY <2>1, <2>a, <2>b, <3>2
    <2>2. CASE s.ty = "FB"
      <3>1. v = Parent(m, name, s.of, s.keep) \/ v \in SnapshotFbFields(m, p, s.of, name, s.keep)
        BY <1>3, <2>2 DEF SnapshotLocal
      <3>2. ASSUME v = Parent(m, name, s.of, s.keep) PROVE Good
        BY <2>1, <2>2, <3>2 DEF Parent, Variable, Compounds
      <3>3. ASSUME v \in SnapshotFbFields(m, p, s.of, name, s.keep) PROVE Good
        <4>1. PICK g \in BlockFields(p)[s.of] :
                LET of == g.slot[1]
                    j == g.slot[2]
                    ty == p.types[of][j].ty
                IN \/ v \in SnapshotFbArray(m, p, of, j, name \o g.path, s.keep)
                   \/ /\ ty # "ARRAY"
                      /\ v = Variable(m, name \o g.path, ty,
                                      FormatValue(FieldValue(m, p, of, j, name \o g.path, 0)), s.keep)
          BY <3>3 DEF SnapshotFbFields
        <4> DEFINE of == g.slot[1]
                   j == g.slot[2]
                   ty == p.types[of][j].ty
        <4>2. g.path \in Seq(Segments(p)) /\ Len(g.path) >= 1 /\ (Len(g.path) = 1 => OwnField(p, s.of, g))
          BY <1>3, <2>2, <4>1, PathIs DEF Declared
        <4>3. /\ Len(name \o g.path) = 2 + Len(g.path) /\ (name \o g.path)[2] = Field(s.n)
              /\ (name \o g.path)[3] = g.path[1] /\ Len(g.path) \in Nat
              /\ \A e : Len(Append(name \o g.path, e)) = 3 + Len(g.path)
          BY <4>2
        <4>4. ASSUME v \in SnapshotFbArray(m, p, of, j, name \o g.path, s.keep) PROVE Good
          <5>1. \E e : v.name = Append(name \o g.path, e)
            <6>1. PICK e, text : v = Variable(m, Append(name \o g.path, e), "Array(type)", text, s.keep)
              BY <4>4, Zenon DEF SnapshotFbArray
            <6>2. v.name = Append(name \o g.path, e)
              BY <6>1 DEF Variable
            <6> QED
              BY <6>2
          <5>2. Len(v.name) = 3 + Len(g.path)
            BY <4>3, <5>1
          <5> QED
            BY <2>c, <4>2, <4>3, <5>2
        <4>5. ASSUME ty # "ARRAY",
                     v = Variable(m, name \o g.path, ty, FormatValue(FieldValue(m, p, of, j, name \o g.path, 0)), s.keep)
              PROVE  Good
          <5>1. v.name = name \o g.path
            BY <4>5 DEF Variable
          <5>2. Len(g.path) = 1
            <6>1. Len(v.name) = 2 + Len(g.path)
              BY <4>3, <5>1, Zenon
            <6>2. \A k \in Nat : k >= 1 /\ (2 + k = 1 \/ 2 + k = 2 \/ 2 + k = 3) => k = 1
              OBVIOUS
            <6> QED
              BY <2>c, <4>2, <4>3, <6>1, <6>2, Zenon
          <5>3. Len(v.name) = 3 /\ v.name[2] = Field(s.n) /\ v.name[3] = g.path[1]
            BY <4>3, <5>1, <5>2
          <5>4. m.ran
            BY <1>3, <2>2, <5>3 DEF InInstance
          <5>5. PICK i \in DOMAIN p.types[s.of] : g.path = <<Field(p.types[s.of][i].n)>> /\ g.slot = <<s.of, i>>
            BY <4>2, <5>2 DEF OwnField
          <5>6. of = s.of /\ j = i /\ v.name[3] = Field(p.types[s.of][i].n)
            BY <5>3, <5>5
          <5>7. WithinState(p, s.of, i, 0)
            BY <1>3, <2>2, <5>3, <5>6 DEF OutOfReach
          <5>8. ShownAs(m, v)
            BY <4>5, <5>1, <5>4, <5>6, <5>7, FieldIs
          <5> QED
            BY <5>8 DEF Good
        <4> QED
          BY <4>1, <4>4, <4>5
      <3> QED
        BY <3>1, <3>2, <3>3
    <2>3. CASE s.ty = "STRUCT"
      <3>1. v = Parent(m, name, s.of, s.keep) \/ v \in SnapshotStructFields(m, p, s, name)
        BY <1>3, <2>3 DEF SnapshotLocal
      <3>2. ASSUME v = Parent(m, name, s.of, s.keep) PROVE Good
        BY <2>1, <2>3, <3>2 DEF Parent, Variable, Compounds
      <3>3. ASSUME v \in SnapshotStructFields(m, p, s, name) PROVE Good
        <4>1. PICK f \in ToSet(p.types[s.of]) : v = ShownOnceStored(m, p, Append(name, Field(f.n)), f.ty, s.keep)
          BY <3>3 DEF SnapshotStructFields
        <4>2. v.name = Append(name, Field(f.n))
          BY <4>1 DEF ShownOnceStored, Shown, Variable
        <4>3. Len(v.name) = 3 /\ v.name[2] = Field(s.n)
          BY <4>2
        <4>4. m.ran
          BY <1>3, <2>3, <4>3 DEF InInstance
        <4> QED
          BY <1>1, <4>1, <4>4 DEF ShownOnceStored
      <3> QED
        BY <3>1, <3>2, <3>3
    <2>4. CASE s.ty = "ARRAY"
      <3>1. v = Parent(m, name, "ARRAY", s.keep) \/ v \in SnapshotArrayElements(m, p, s, name)
        BY <1>3, <2>4 DEF SnapshotLocal
      <3>2. ASSUME v = Parent(m, name, "ARRAY", s.keep) PROVE Good
        BY <2>1, <2>4, <3>2 DEF Parent, Variable, Compounds
      <3>3. ASSUME v \in SnapshotArrayElements(m, p, s, name) PROVE FALSE
        <4>1. PICK k : v = ShownOnceStored(m, p, Append(name, Elem(k)), s.of, s.keep)
          BY <3>3 DEF SnapshotArrayElements
        <4>2. v.name = Append(name, Elem(k))
          BY <4>1 DEF ShownOnceStored, Shown, Variable
        <4>3. Len(v.name) = 3 /\ v.name[2] = Field(s.n)
          BY <4>2
        <4>4. \A q : Len(<<q>>) = 1
          OBVIOUS
        <4>5. PICK t \in ToSet(pou.slots) : v.name[2] = Field(t.n) /\ t.ty \in {"FB", "STRUCT"}
          BY <4>3, <4>4 DEF Forceable
        <4> QED
          BY <2>4, <2>b, <4>3, <4>5
      <3> QED
        BY <3>1, <3>2, <3>3
    <2>5. CASE s.ty \notin {"FB", "STRUCT", "ARRAY"}
      <3>1. s.ty # "CLASS" /\ v = Shown(m, p, name, s.ty, s.keep)
        BY <1>3, <2>5 DEF SnapshotLocal
      <3> QED
        BY <1>1, <3>1
    <2> QED
      BY <2>2, <2>3, <2>4, <2>5
  <1>4. v \in GlobalVariables(m, p) \/ \E s \in ToSet(pou.slots) : v \in SnapshotLocal(m, p, pou, s)
    BY DEF MonitorableVariables
  <1> QED
    BY <1>2, <1>3, <1>4 DEF Good

-----------------------------------------------------------------------------
(* What a client wrote, on its way to the nodes *)

Written == {NoVariant} \union {w[2] : w \in set.writes}
Names == {<<>>} \union {f[1] : f \in set.forces} \union {w[1] : w \in set.writes}
Texts == {Text(None, 0)} \union {f[2] : f \in set.forces} \union {VariantToValueString(w[2]) : w \in set.writes}

\* A command that forces what a client wrote carries the text of that value.
Commands ==
  {c \in [op : {"force", "unforce", "change", "stop", "reset"}, by : Clients \union {None},
          prog : set.progs \union {None}, name : Names, text : Texts, from : Written] :
     /\ c.op = "force" /\ c.from # NoVariant => c.text = VariantToValueString(c.from)
     /\ c.op = "change" => c.prog \in set.progs}

\* A forced value that goes back to a client is the text of that client, parsed.
Traced(forced) ==
  \A id \in DOMAIN forced :
    /\ forced[id].from \in Written
    /\ forced[id].from # NoVariant => forced[id].value = ParseValueString(VariantToValueString(forced[id].from))

Machine(m) ==
  /\ m = [prog |-> m.prog, ran |-> m.ran, forced |-> m.forced]
  /\ m.prog \in set.progs \union {None}
  /\ Traced(m.forced)

Node(id, node) ==
  /\ node = [ty |-> node.ty, val |-> node.val, from |-> node.from, of |-> node.of, as |-> node.as]
  /\ node.from # NoVariant =>
       \/ node.val = node.from
       \/ node.from.type # IecTypeToOpcuaDataType(node.as)
       \/ Lossy(Decl[node.of], id, node.from, node.as)

RuntimeTraced(r) ==
  /\ r = [status |-> r.status, catalog |-> r.catalog, seen |-> r.seen]
  /\ Machine(r.seen)
  /\ r.seen.prog # None => r.seen.ran = set.calls

ServerTraced(o) ==
  /\ o = [pc |-> o.pc, prev |-> o.prev, tracked |-> o.tracked, nodes |-> o.nodes,
          status |-> o.status, tasks |-> o.tasks, raced |-> o.raced]
  /\ o.tasks \subseteq Commands
  /\ \A id \in DOMAIN o.nodes : Node(id, o.nodes[id])

Inv ==
  /\ set \in Settings
  /\ RuntimeTraced(rt)
  /\ Machine(eng)
  /\ cmds \in Seq(Commands)
  /\ ServerTraced(opc)

\* No step changes the setting, and so what may be written and forced.
LEMMA Kept ==
  ASSUME set \in Settings, UNCHANGED set, RuntimeTraced(rt'), Machine(eng'), cmds' \in Seq(Commands),
         ServerTraced(opc')
  PROVE  Inv'
  <1>1. Written' = Written /\ Names' = Names /\ Texts' = Texts
    BY DEF Written, Names, Texts
  <1>2. Commands' = Commands
    BY <1>1 DEF Commands
  <1>3. Machine(eng)'
    BY <1>1 DEF Machine, Traced
  <1>4. RuntimeTraced(rt)'
    BY <1>1 DEF RuntimeTraced, Machine, Traced
  <1>5. ServerTraced(opc)'
    <2>1. /\ opc' = [pc |-> opc'.pc, prev |-> opc'.prev, tracked |-> opc'.tracked, nodes |-> opc'.nodes,
                     status |-> opc'.status, tasks |-> opc'.tasks, raced |-> opc'.raced]
          /\ opc'.tasks \subseteq Commands
      BY DEF ServerTraced
    <2>2. ASSUME NEW id \in DOMAIN opc'.nodes PROVE Node(id, opc.nodes[id])'
      <3>1. Node(id, opc'.nodes[id])
        BY DEF ServerTraced
      <3> QED
        BY <3>1 DEF Node, Lossy
    <2> QED
      BY <1>2, <2>1, <2>2 DEF ServerTraced
  <1> QED
    BY <1>2, <1>3, <1>4, <1>5 DEF Inv

LEMMA NoMachineTraced == Machine(NoMachine) /\ NoMachine.prog = None
  BY DEF Machine, NoMachine, Traced

LEMMA InitTraced == Init => Inv
  <1> SUFFICES ASSUME Init PROVE Inv
    OBVIOUS
  <1>1. set \in Settings /\ Machine(eng)
    BY NoMachineTraced DEF Init
  <1>2. RuntimeTraced(rt)
    BY NoMachineTraced DEF Init, RuntimeTraced
  <1>3. cmds \in Seq(Commands)
    BY DEF Init
  <1>4. ServerTraced(opc)
    BY DEF Init, ServerTraced
  <1> QED
    BY <1>1, <1>2, <1>3, <1>4 DEF Inv

\* --- Commands --------------------------------------------------------------

LEMMA CommandIs ==
  ASSUME NEW op \in {"stop", "reset", "unforce"}, NEW by \in Clients \union {None}
  PROVE  Command(op, by) \in Commands
  BY DEF Command, Commands, Written, Names, Texts

LEMMA ForceIs ==
  ASSUME NEW f \in set.forces, NEW by \in Clients \union {None}
  PROVE  ForceVariable(f[1], f[2], NoVariant, by) \in Commands /\ UnforceVariable(f[1], by) \in Commands
  <1>1. f[1] \in Names /\ f[2] \in Texts /\ NoVariant \in Written /\ None \in set.progs \union {None}
        /\ Text(None, 0) \in Texts
    BY DEF Names, Texts, Written
  <1> QED
    BY <1>1 DEF ForceVariable, UnforceVariable, Command, Commands

LEMMA WriteIs ==
  ASSUME NEW w \in set.writes
  PROVE  ForceVariable(w[1], VariantToValueString(w[2]), w[2], None) \in Commands
  <1>1. w[1] \in Names /\ VariantToValueString(w[2]) \in Texts /\ w[2] \in Written /\ None \in set.progs \union {None}
    BY DEF Names, Texts, Written
  <1> QED
    BY <1>1 DEF ForceVariable, Command, Commands

LEMMA ChangeIs ==
  ASSUME NEW p \in set.progs
  PROVE  [Command("change", None) EXCEPT !.prog = p] \in Commands
  BY DEF Command, Commands, Written, Names, Texts

LEMMA SentIs ==
  ASSUME Inv, NEW c \in Commands, Send(c)
  PROVE  cmds' \in Seq(Commands)
  BY DEF Send, Inv

\* A step that only sends a command or leaves the machine alone.
LEMMA Aside ==
  ASSUME Inv, UNCHANGED <<set, rt, eng, opc>>, cmds' \in Seq(Commands)
  PROVE  Inv'
  BY Kept DEF Inv

LEMMA ClientStep ==
  ASSUME Inv, UNCHANGED <<set, rt, eng, cmds, opc>>
  PROVE  Inv'
  BY Aside DEF Inv

\* --- The runtime thread ------------------------------------------------------

LEMMA ForceTraced ==
  ASSUME Inv, NEW cmd \in Commands, cmd.op = "force"
  PROVE  Machine(HandleForce(cmd))
  <1> DEFINE e == HandleForce(cmd)
             new == [value |-> ParseValueString(cmd.text), from |-> cmd.from]
             f == [n \in DOMAIN eng.forced \union {cmd.name} |-> IF n = cmd.name THEN new ELSE eng.forced[n]]
  <1>1. eng = [prog |-> eng.prog, ran |-> eng.ran, forced |-> eng.forced]
        /\ eng.prog \in set.progs \union {None} /\ Traced(eng.forced)
    BY DEF Inv, Machine
  <1>2. e = [prog |-> eng.prog, ran |-> eng.ran, forced |-> f]
    BY <1>1 DEF HandleForce
  <1>3. new.from \in Written /\ (new.from # NoVariant => new.value = ParseValueString(VariantToValueString(new.from)))
    BY DEF Commands
  <1>4. Traced(f)
    BY <1>1, <1>3 DEF Traced
  <1> HIDE DEF f, e
  <1> QED
    BY <1>1, <1>2, <1>4 DEF Machine, e

LEMMA ApplyTraced ==
  ASSUME Inv, NEW cmd \in Commands, NEW paused \in BOOLEAN
  PROVE  Machine(Apply(cmd, paused))
  <1>1. eng = [prog |-> eng.prog, ran |-> eng.ran, forced |-> eng.forced]
        /\ eng.prog \in set.progs \union {None} /\ Traced(eng.forced) /\ Machine(eng)
    BY DEF Inv, Machine
  <1>2. CASE cmd.op = "force"
    BY <1>2, ForceTraced DEF Apply
  <1>3. CASE cmd.op = "unforce"
    <2> DEFINE f == Restrict(eng.forced, DOMAIN eng.forced \ {cmd.name})
    <2>1. Apply(cmd, paused) = [prog |-> eng.prog, ran |-> eng.ran, forced |-> f]
      BY <1>1, <1>3 DEF Apply
    <2>2. Traced(f)
      BY <1>1 DEF Traced, Restrict
    <2> HIDE DEF f
    <2> QED
      BY <1>1, <2>1, <2>2 DEF Machine
  <1>4. CASE cmd.op = "change" /\ ~paused
    <2>1. Apply(cmd, paused) = [prog |-> cmd.prog, ran |-> eng.ran, forced |-> eng.forced]
      BY <1>1, <1>4 DEF Apply
    <2>2. cmd.prog \in set.progs
      BY <1>4 DEF Commands
    <2> QED
      BY <1>1, <2>1, <2>2 DEF Machine
  <1>5. CASE cmd.op \notin {"force", "unforce"} /\ ~(cmd.op = "change" /\ ~paused)
    BY <1>1, <1>5 DEF Apply
  <1> QED
    BY <1>2, <1>3, <1>4, <1>5

LEMMA RuntimeFields ==
  ASSUME Inv
  PROVE  /\ set \in Settings
         /\ rt = [status |-> rt.status, catalog |-> rt.catalog, seen |-> rt.seen]
         /\ Machine(rt.seen) /\ (rt.seen.prog # None => rt.seen.ran = set.calls)
         /\ Machine(eng) /\ eng = [prog |-> eng.prog, ran |-> eng.ran, forced |-> eng.forced]
         /\ cmds \in Seq(Commands) /\ ServerTraced(opc)
  BY DEF Inv, RuntimeTraced, Machine

LEMMA StatusStep ==
  ASSUME Inv, UNCHANGED <<set, eng, opc>>, cmds' \in Seq(Commands), NEW s, NEW c,
         rt' = [status |-> s, catalog |-> c, seen |-> rt.seen]
  PROVE  Inv'
  <1>1. RuntimeTraced(rt')
    BY RuntimeFields DEF RuntimeTraced
  <1> QED
    BY <1>1, RuntimeFields, Kept

LEMMA RuntimeSteps ==
  ASSUME Inv, EngineReady \/ RunCycle \/ CycleFails \/ CycleHalts \/ Resume \/ Notify \/ Poll \/ PollEmpty \/ Exit \/ IdleCommand
  PROVE  Inv'
  <1>1. CASE EngineReady
    <2>1. rt' = [status |-> "Running", catalog |-> eng.prog, seen |-> rt.seen]
      BY <1>1, RuntimeFields DEF EngineReady
    <2> QED
      BY <1>1, <2>1, RuntimeFields, StatusStep DEF EngineReady
  <1>2. CASE RunCycle
    <2>1. eng' = [prog |-> eng.prog, ran |-> set.calls, forced |-> eng.forced]
      BY <1>2, RuntimeFields DEF RunCycle
    <2>2. rt' = [status |-> rt.status, catalog |-> rt.catalog, seen |-> eng']
      BY <1>2, RuntimeFields DEF RunCycle
    <2>3. Machine(eng')
      BY <2>1, RuntimeFields DEF Machine
    <2>4. eng'.ran = set.calls
      BY <2>1
    <2>5. RuntimeTraced(rt')
      BY <2>2, <2>3, <2>4 DEF RuntimeTraced
    <2> QED
      BY <1>2, <2>3, <2>5, RuntimeFields, Kept DEF RunCycle
  <1>3. CASE CycleFails
    BY <1>3, ClientStep DEF CycleFails
  <1>4. CASE CycleHalts
    <2>1. rt' = [status |-> "DebugPaused", catalog |-> rt.catalog, seen |-> rt.seen]
      BY <1>4, RuntimeFields DEF CycleHalts
    <2> QED
      BY <1>4, <2>1, RuntimeFields, StatusStep DEF CycleHalts
  <1>5. CASE Resume
    <2>1. rt' = [status |-> "Running", catalog |-> rt.catalog, seen |-> rt.seen]
      BY <1>5, RuntimeFields DEF Resume
    <2> QED
      BY <1>5, <2>1, RuntimeFields, StatusStep DEF Resume
  <1>6. CASE Notify
    BY <1>6, ClientStep DEF Notify
  <1>7. CASE Poll
    <2>1. Head(cmds) \in Commands /\ Tail(cmds) \in Seq(Commands)
      BY <1>7, RuntimeFields DEF Poll
    <2>2. Machine(Apply(Head(cmds), pc = "paused"))
      BY <2>1, ApplyTraced
    <2>3. Machine(eng') /\ cmds' \in Seq(Commands) /\ UNCHANGED <<set, opc>>
      BY <1>7, <2>1, <2>2 DEF Poll
    <2>4. PICK c : rt' = [rt EXCEPT !.catalog = c]
      BY <1>7 DEF Poll
    <2>5. rt' = [status |-> rt.status, catalog |-> c, seen |-> rt.seen]
      BY <2>4, RuntimeFields
    <2>6. RuntimeTraced(rt')
      BY <2>5, RuntimeFields DEF RuntimeTraced
    <2> QED
      BY <2>3, <2>6, RuntimeFields, Kept
  <1>8. CASE PollEmpty
    BY <1>8, ClientStep DEF PollEmpty
  <1>9. CASE Exit
    <2>1. PICK s : rt' = [status |-> s, catalog |-> None, seen |-> NoMachine]
      BY <1>9 DEF Exit
    <2>2. RuntimeTraced(rt') /\ Machine(eng')
      BY <1>9, <2>1, NoMachineTraced DEF RuntimeTraced, Exit
    <2> QED
      BY <1>9, <2>2, RuntimeFields, Kept DEF Exit
  <1>10. CASE IdleCommand
    <2>1. cmds' \in Seq(Commands)
      BY <1>10, RuntimeFields DEF IdleCommand
    <2> QED
      BY <1>10, <2>1, Aside DEF IdleCommand
  <1> QED
    BY <1>1, <1>2, <1>3, <1>4, <1>5, <1>6, <1>7, <1>8, <1>9, <1>10

LEMMA StartStep ==
  ASSUME Inv, NEW p \in set.progs, Start(p)
  PROVE  Inv'
  <1>1. rt' = [status |-> "Starting", catalog |-> rt.catalog, seen |-> rt.seen]
    BY RuntimeFields DEF Start
  <1>2. eng' = [prog |-> p, ran |-> FALSE, forced |-> <<>>]
    BY DEF Start, NoMachine
  <1>3. Machine(eng')
    BY <1>2 DEF Machine, Traced
  <1>4. RuntimeTraced(rt')
    BY <1>1, RuntimeFields DEF RuntimeTraced
  <1> QED
    BY <1>3, <1>4, RuntimeFields, Kept DEF Start

\* --- The OPC UA server ---------------------------------------------------------

\* Every value copied after a cycle says whether its name is forced.
LEMMA FlagIs ==
  ASSUME NEW m, NEW p, NEW v \in MonitorableVariables(m, p)
  PROVE  v.forced <=> v.name \in DOMAIN m.forced
  <1> DEFINE Good == v.forced <=> v.name \in DOMAIN m.forced
             pou == p.pous[1]
  <1>1. ASSUME NEW name, NEW ty, NEW text, NEW keep, v = Variable(m, name, ty, text, keep) PROVE Good
    BY <1>1 DEF Variable
  <1>2. ASSUME NEW name, NEW ty, NEW keep, v = Shown(m, p, name, ty, keep) PROVE Good
    BY <1>1, <1>2 DEF Shown
  <1>3. ASSUME NEW name, NEW ty, NEW keep, v = Parent(m, name, ty, keep) PROVE Good
    BY <1>1, <1>3 DEF Parent
  <1> HIDE DEF Good
  <1>4. ASSUME v \in GlobalVariables(m, p) PROVE Good
    BY <1>2, <1>4 DEF GlobalVariables
  <1>5. ASSUME NEW s \in ToSet(pou.slots), v \in SnapshotLocal(m, p, pou, s) PROVE Good
    <2> DEFINE name == <<Field(pou.n), Field(s.n)>>
    <2>1. CASE s.ty = "FB"
      <3>1. v = Parent(m, name, s.of, s.keep) \/ v \in SnapshotFbFields(m, p, s.of, name, s.keep)
        BY <1>5, <2>1 DEF SnapshotLocal
      <3>2. CASE v \in SnapshotFbFields(m, p, s.of, name, s.keep)
        <4>1. PICK g \in BlockFields(p)[s.of] :
                \/ v \in SnapshotFbArray(m, p, g.slot[1], g.slot[2], name \o g.path, s.keep)
                \/ \E ty, text : v = Variable(m, name \o g.path, ty, text, s.keep)
          BY <3>2 DEF SnapshotFbFields
        <4>2. CASE v \in SnapshotFbArray(m, p, g.slot[1], g.slot[2], name \o g.path, s.keep)
          <5>1. PICK e, text : v = Variable(m, Append(name \o g.path, e), "Array(type)", text, s.keep)
            BY <4>2, Zenon DEF SnapshotFbArray
          <5> QED
            BY <1>1, <5>1
        <4> QED
          BY <1>1, <4>1, <4>2
      <3> QED
        BY <1>3, <3>1, <3>2
    <2>2. CASE s.ty = "STRUCT"
      <3>1. v = Parent(m, name, s.of, s.keep) \/ v \in SnapshotStructFields(m, p, s, name)
        BY <1>5, <2>2 DEF SnapshotLocal
      <3> QED
        BY <1>1, <1>2, <1>3, <3>1 DEF SnapshotStructFields, ShownOnceStored
    <2>3. CASE s.ty = "ARRAY"
      <3>1. v = Parent(m, name, "ARRAY", s.keep) \/ v \in SnapshotArrayElements(m, p, s, name)
        BY <1>5, <2>3 DEF SnapshotLocal
      <3> QED
        BY <1>1, <1>2, <1>3, <3>1 DEF SnapshotArrayElements, ShownOnceStored
    <2>4. CASE s.ty \notin {"FB", "STRUCT", "ARRAY"}
      <3>1. v = Shown(m, p, name, s.ty, s.keep)
        BY <1>5, <2>4 DEF SnapshotLocal
      <3> QED
        BY <1>2, <3>1
    <2> QED
      BY <2>1, <2>2, <2>3, <2>4
  <1>6. v \in GlobalVariables(m, p) \/ \E s \in ToSet(pou.slots) : v \in SnapshotLocal(m, p, pou, s)
    BY DEF MonitorableVariables
  <1> QED
    BY <1>4, <1>5, <1>6 DEF Good

\* What a client wrote and the cycle copied is what the node gets.
LEMMA NodeGets ==
  ASSUME Inv, NEW v \in AllVariables(rt.seen), v.forced, rt.seen.forced[v.name].from # NoVariant
  PROVE  LET from == rt.seen.forced[v.name].from
         IN \/ ParseValueToVariant(v.value, v.ty) = from
            \/ from.type # IecTypeToOpcuaDataType(v.ty)
            \/ Lossy(Decl[rt.seen.prog], v.name, from, v.ty)
  <1> DEFINE m == rt.seen
             p == Decl[m.prog]
             from == m.forced[v.name].from
  <1> SUFFICES ASSUME from.type = IecTypeToOpcuaDataType(v.ty), ~Lossy(p, v.name, from, v.ty)
               PROVE  ParseValueToVariant(v.value, v.ty) = from
    OBVIOUS
  <1>1. m.prog \in set.progs /\ v \in MonitorableVariables(m, p)
    BY RuntimeFields DEF AllVariables, Machine
  <1>2. Declared(p)
    BY <1>1, RuntimeFields, DeclAssumption
  <1>3. v.name \in DOMAIN m.forced
    BY <1>1, FlagIs
  <1>4. Traced(m.forced)
    BY RuntimeFields DEF Machine
  <1>5. from \in Written /\ m.forced[v.name].value = ParseValueString(VariantToValueString(from))
    BY <1>3, <1>4 DEF Traced
  <1>6. IsVariant(from)
    BY <1>5, RuntimeFields, WritesAssumption DEF Written
  <1>7. /\ Forceable(p, v.name) /\ ~Distorted(from, v.ty) /\ ~OutOfReach(p, v.name)
        /\ ~InInstance(p, v.name) \/ set.calls
    BY DEF Lossy, Distorted
  <1>8. m.ran = set.calls
    <2>1. None \notin set.progs
      BY RuntimeFields, DeclAssumption DEF None
    <2> QED
      BY <1>1, <2>1, RuntimeFields
  <1>9. m.ran \/ ~InInstance(p, v.name)
    BY <1>7, <1>8
  <1>10. v.value = FormatValue(NarrowValue(m.forced[v.name].value, v.ty))
    <2>1. ShownAs(m, v)
      BY <1>1, <1>2, <1>3, <1>7, <1>9, VariableIs
    <2>2. PICK ty : /\ v.ty = ty \/ (ty \in Compounds /\ v.ty = "INT")
                    /\ v.value = FormatValue(NarrowValue(m.forced[v.name].value, ty))
      BY <2>1 DEF ShownAs
    <2>3. CASE ty \in Compounds /\ v.ty = "INT"
      <3>1. \A x : NarrowValue(x, ty) = x
        BY <2>3 DEF NarrowValue, Compounds, IsSigned, IsUnsigned, ShortSigned, ShortUnsigned, LongUnsigned
      <3>2. from.type = "INT"
        BY <2>3 DEF IecTypeToOpcuaDataType, IsSigned, ShortSigned
      <3>3. NarrowValue(m.forced[v.name].value, "INT") = m.forced[v.name].value
        BY <1>5, <1>6, <3>2, IntFits
      <3> QED
        BY <2>2, <2>3, <3>1, <3>3
    <2> QED
      BY <2>2, <2>3
  <1>11. Returned(from, v.ty) = from
    BY <1>6, <1>7, WriteComesBack
  <1> QED
    BY <1>5, <1>10, <1>11 DEF Returned

LEMMA ServerFields ==
  ASSUME Inv
  PROVE  /\ opc = [pc |-> opc.pc, prev |-> opc.prev, tracked |-> opc.tracked, nodes |-> opc.nodes,
                   status |-> opc.status, tasks |-> opc.tasks, raced |-> opc.raced]
         /\ opc.tasks \subseteq Commands
         /\ \A id \in DOMAIN opc.nodes : Node(id, opc.nodes[id])
  BY DEF Inv, ServerTraced

LEMMA FreshTraced ==
  ASSUME NEW catalog
  PROVE  \A id \in DOMAIN FreshNodes(catalog) : Node(id, FreshNodes(catalog)[id])
  BY DEF FreshNodes, Node

LEMMA RebuiltTraced ==
  ASSUME Inv, NEW catalog
  PROVE  \A id \in DOMAIN RebuildAddressSpace(catalog) : Node(id, RebuildAddressSpace(catalog)[id])
  <1> DEFINE fresh == FreshNodes(catalog)
             kept == DOMAIN opc.nodes \ opc.tracked
  <1>1. \A id \in DOMAIN fresh : Node(id, fresh[id])
    BY FreshTraced
  <1>2. RebuildAddressSpace(catalog) = [id \in kept \union DOMAIN fresh |-> IF id \in kept THEN opc.nodes[id] ELSE fresh[id]]
    BY DEF RebuildAddressSpace
  <1> HIDE DEF fresh
  <1> QED
    BY <1>1, <1>2, ServerFields

LEMMA UpdatedTraced ==
  ASSUME Inv
  PROVE  \A id \in DOMAIN UpdateNodeValues(opc.nodes, rt.seen) : Node(id, UpdateNodeValues(opc.nodes, rt.seen)[id])
  <1> DEFINE nodes == opc.nodes
             m == rt.seen
             mine(id) == {v \in AllVariables(m) : v.name = id}
             U == UpdateNodeValues(nodes, m)
  <1>1. DOMAIN U = DOMAIN nodes
    BY DEF UpdateNodeValues
  <1> SUFFICES ASSUME NEW id \in DOMAIN nodes PROVE Node(id, U[id])
    BY <1>1
  <1> DEFINE v == CHOOSE v \in mine(id) : TRUE
  <1>2. CASE mine(id) = {} \/ nodes[id].ty = "folder"
    <2>1. U[id] = nodes[id]
      BY <1>2 DEF UpdateNodeValues
    <2> QED
      BY <2>1, ServerFields
  <1>3. CASE mine(id) # {} /\ nodes[id].ty # "folder"
    <2>1. v \in AllVariables(m) /\ v.name = id
      BY <1>3
    <2>2. U[id] = [nodes[id] EXCEPT !.val = ParseValueToVariant(v.value, v.ty),
                                    !.from = IF v.forced THEN m.forced[id].from ELSE NoVariant,
                                    !.of = m.prog, !.as = v.ty]
      BY <1>3 DEF UpdateNodeValues
    <2>3. nodes[id] = [ty |-> nodes[id].ty, val |-> nodes[id].val, from |-> nodes[id].from,
                       of |-> nodes[id].of, as |-> nodes[id].as]
      BY ServerFields DEF Node
    <2> HIDE DEF v, U
    <2> DEFINE from == IF v.forced THEN m.forced[id].from ELSE NoVariant
    <2>4. U[id] = [ty |-> nodes[id].ty, val |-> ParseValueToVariant(v.value, v.ty), from |-> from,
                   of |-> m.prog, as |-> v.ty]
      BY <2>2, <2>3
    <2>5. from # NoVariant => v.forced /\ from = m.forced[v.name].from
      BY <2>1
    <2> HIDE DEF from
    <2>6. from # NoVariant =>
            \/ ParseValueToVariant(v.value, v.ty) = from
            \/ from.type # IecTypeToOpcuaDataType(v.ty)
            \/ Lossy(Decl[m.prog], id, from, v.ty)
      BY <2>1, <2>5, NodeGets
    <2> QED
      BY <2>4, <2>6 DEF Node
  <1> QED
    BY <1>2, <1>3

LEMMA NodesStep ==
  ASSUME Inv, UNCHANGED <<set, rt, eng, cmds>>,
         opc' = [pc |-> opc'.pc, prev |-> opc'.prev, tracked |-> opc'.tracked, nodes |-> opc'.nodes,
                 status |-> opc'.status, tasks |-> opc'.tasks, raced |-> opc'.raced],
         opc'.tasks \subseteq Commands, \A id \in DOMAIN opc'.nodes : Node(id, opc'.nodes[id])
  PROVE  Inv'
  BY Kept DEF Inv, ServerTraced

LEMMA ServerSteps ==
  ASSUME Inv, OpcBuild \/ SyncStart \/ SyncCatalog \/ SyncValues \/ SyncStatus
  PROVE  Inv'
  <1> DEFINE Shape(o) == o = [pc |-> o.pc, prev |-> o.prev, tracked |-> o.tracked, nodes |-> o.nodes,
                              status |-> o.status, tasks |-> o.tasks, raced |-> o.raced]
  <1>1. CASE OpcBuild
    <2> DEFINE N == FreshNodes(Catalog(rt.catalog))
    <2>1. opc' = [opc EXCEPT !.pc = "start", !.nodes = N, !.prev = rt.catalog]
      BY <1>1 DEF OpcBuild
    <2>2. \A id \in DOMAIN N : Node(id, N[id])
      BY FreshTraced
    <2> HIDE DEF N
    <2>3. Shape(opc') /\ opc'.nodes = N /\ opc'.tasks = opc.tasks
      BY <2>1, ServerFields
    <2> QED
      BY <1>1, <2>2, <2>3, ServerFields, NodesStep DEF OpcBuild
  <1>2. CASE SyncStart
    <2>1. Shape(opc') /\ opc'.nodes = opc.nodes /\ opc'.tasks = opc.tasks
      BY <1>2, ServerFields DEF SyncStart
    <2> QED
      BY <1>2, <2>1, ServerFields, NodesStep DEF SyncStart
  <1>3. CASE SyncCatalog
    <2> DEFINE N == RebuildAddressSpace(Catalog(rt.catalog))
    <2>1. \A id \in DOMAIN N : Node(id, N[id])
      BY RebuiltTraced
    <2>2. \/ opc' = [opc EXCEPT !.pc = "values", !.nodes = N, !.status = "Idle",
                                !.tracked = TrackedIds(Catalog(rt.catalog)), !.prev = rt.catalog]
          \/ opc' = [opc EXCEPT !.pc = "values"]
      BY <1>3 DEF SyncCatalog
    <2> HIDE DEF N
    <2>3. Shape(opc') /\ opc'.nodes \in {N, opc.nodes} /\ opc'.tasks = opc.tasks
      BY <2>2, ServerFields
    <2> QED
      BY <1>3, <2>1, <2>3, ServerFields, NodesStep DEF SyncCatalog
  <1>4. CASE SyncValues
    <2> DEFINE N == UpdateNodeValues(opc.nodes, rt.seen)
    <2>1. opc' = [opc EXCEPT !.pc = "status", !.nodes = N]
      BY <1>4 DEF SyncValues
    <2>2. \A id \in DOMAIN N : Node(id, N[id])
      BY UpdatedTraced
    <2> HIDE DEF N
    <2>3. Shape(opc') /\ opc'.nodes = N /\ opc'.tasks = opc.tasks
      BY <2>1, ServerFields
    <2> QED
      BY <1>4, <2>2, <2>3, ServerFields, NodesStep DEF SyncValues
  <1>5. CASE SyncStatus
    <2>1. Shape(opc') /\ opc'.nodes = opc.nodes /\ opc'.tasks = opc.tasks
      BY <1>5, ServerFields DEF SyncStatus
    <2> QED
      BY <1>5, <2>1, ServerFields, NodesStep DEF SyncStatus
  <1> QED
    BY <1>1, <1>2, <1>3, <1>4, <1>5

LEMMA WriteStep ==
  ASSUME Inv, NEW w \in set.writes, OpcWrite(w[1], w[2])
  PROVE  Inv'
  <1> DEFINE c == ForceVariable(w[1], VariantToValueString(w[2]), w[2], None)
  <1>1. c \in Commands
    BY WriteIs
  <1>2. opc' = [opc EXCEPT !.tasks = opc.tasks \union {c}]
    BY DEF OpcWrite
  <1> HIDE DEF c
  <1>3. /\ opc' = [pc |-> opc'.pc, prev |-> opc'.prev, tracked |-> opc'.tracked, nodes |-> opc'.nodes,
                   status |-> opc'.status, tasks |-> opc'.tasks, raced |-> opc'.raced]
        /\ opc'.nodes = opc.nodes /\ opc'.tasks = opc.tasks \union {c}
    BY <1>2, ServerFields
  <1> QED
    BY <1>1, <1>3, ServerFields, NodesStep DEF OpcWrite

LEMMA TaskStep ==
  ASSUME Inv, OpcTask
  PROVE  Inv'
  <1>1. PICK t \in opc.tasks : Send(t) /\ opc' = [opc EXCEPT !.tasks = @ \ {t}] /\ UNCHANGED <<set, rt, eng, pc, ws>>
    BY DEF OpcTask
  <1>2. cmds' \in Seq(Commands)
    BY <1>1, ServerFields, SentIs
  <1>3. ServerTraced(opc')
    BY <1>1, ServerFields DEF ServerTraced
  <1> QED
    BY <1>1, <1>2, <1>3, RuntimeFields, Kept DEF Inv

\* --- Clients -------------------------------------------------------------------

LEMMA SendSteps ==
  ASSUME Inv
  PROVE  /\ SendStop => Inv'
         /\ \A p \in set.progs : SendChange(p) => Inv'
         /\ \A f \in set.forces : HttpForce(f[1], f[2]) \/ HttpUnforce(f[1]) => Inv'
         /\ \A c \in Clients : WsResetStats(c) => Inv'
         /\ \A c \in Clients : \A f \in set.forces : WsForce(c, f[1], f[2]) \/ WsUnforce(c, f[1]) => Inv'
  <1>1. ASSUME NEW x \in Commands, Send(x), UNCHANGED <<set, rt, eng, opc>> PROVE Inv'
    BY <1>1, SentIs, Aside
  <1>2. SendStop => Inv'
    BY <1>1, CommandIs DEF SendStop
  <1>3. ASSUME NEW p \in set.progs, SendChange(p) PROVE Inv'
    BY <1>1, <1>3, ChangeIs DEF SendChange
  <1>4. ASSUME NEW f \in set.forces, HttpForce(f[1], f[2]) PROVE Inv'
    BY <1>1, <1>4, ForceIs DEF HttpForce
  <1>5. ASSUME NEW f \in set.forces, HttpUnforce(f[1]) PROVE Inv'
    BY <1>1, <1>5, ForceIs DEF HttpUnforce
  <1>6. ASSUME NEW c \in Clients, WsResetStats(c) PROVE Inv'
    BY <1>1, <1>6, CommandIs DEF WsResetStats
  <1>7. ASSUME NEW c \in Clients, NEW f \in set.forces, WsForce(c, f[1], f[2]) PROVE Inv'
    BY <1>1, <1>7, ForceIs DEF WsForce
  <1>8. ASSUME NEW c \in Clients, NEW f \in set.forces, WsUnforce(c, f[1]) PROVE Inv'
    BY <1>1, <1>8, ForceIs DEF WsUnforce
  <1> QED
    BY <1>2, <1>3, <1>4, <1>5, <1>6, <1>7, <1>8

LEMMA ClientSteps ==
  ASSUME Inv, NEW c \in Clients,
         \/ Connect(c) \/ Disconnect(c) \/ PushStep(c) \/ ThrottleEnds(c)
         \/ \E n \in set.watch : Subscribe(c, n) \/ Unsubscribe(c, n)
  PROVE  Inv'
  <1>1. UNCHANGED <<set, rt, eng, cmds, opc>>
    BY DEF Connect, Disconnect, PushStep, PushReceive, PushLagged, PushSkip, PushBuild, PushSend,
           ThrottleEnds, Subscribe, Unsubscribe
  <1> QED
    BY <1>1, ClientStep

LEMMA NextTraced == Inv /\ [Next]_vars => Inv'
  <1> SUFFICES ASSUME Inv, [Next]_vars PROVE Inv'
    OBVIOUS
  <1>1. CASE UNCHANGED vars
    BY <1>1, ClientStep DEF vars
  <1>2. CASE Next
    <2>1. ASSUME NEW p \in set.progs, Start(p) \/ SendChange(p) PROVE Inv'
      BY <2>1, StartStep, SendSteps
    <2>2. CASE SendStop \/ CycleFails \/ CycleHalts \/ Resume \/ Runtime
      BY <2>2, SendSteps, RuntimeSteps DEF Runtime
    <2>3. ASSUME NEW f \in set.forces, HttpForce(f[1], f[2]) \/ HttpUnforce(f[1]) PROVE Inv'
      BY <2>3, SendSteps
    <2>4. ASSUME NEW c \in Clients,
                 \/ Connect(c) \/ Disconnect(c) \/ WsResetStats(c)
                 \/ \E n \in set.watch : Subscribe(c, n) \/ Unsubscribe(c, n)
                 \/ \E f \in set.forces : WsForce(c, f[1], f[2]) \/ WsUnforce(c, f[1])
                 \/ PushStep(c) \/ ThrottleEnds(c)
          PROVE  Inv'
      BY <2>4, SendSteps, ClientSteps
    <2>5. CASE Sync \/ OpcTask
      BY <2>5, ServerSteps, TaskStep DEF Sync
    <2>6. ASSUME NEW w \in set.writes, OpcWrite(w[1], w[2]) PROVE Inv'
      BY <2>6, WriteStep
    <2> QED
      BY <1>2, <2>1, <2>2, <2>3, <2>4, <2>5, <2>6 DEF Next
  <1> QED
    BY <1>1, <1>2

(* What an OPC UA client has written (write_handler.rs) comes back to its    *)
(* node: as the text that variant_to_value_string makes of it, the value     *)
(* that parse_value_string makes of that in handle_force, the narrower value *)
(* that is stored, and what format_value and parse_value_to_variant          *)
(* (value_sync.rs) make of the copy after a cycle.  Whatever the programs,   *)
(* the forces of other clients, the changes of program in between and the    *)
(* order in which the writes of one client reach the runtime, a node never   *)
(* shows as a client's write a value that the client did not write, but for  *)
(* the writes that Lossy lists and for a variable whose type has changed.    *)
THEOREM WritesComeBack == Spec => []WritesReadBack
  <1>1. Inv => WritesReadBack
    BY DEF Inv, ServerTraced, Node, WritesReadBack
  <1> QED
    BY <1>1, InitTraced, NextTraced, PTL DEF Spec

=============================================================================
