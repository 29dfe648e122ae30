---------------------------- MODULE MonitorViews ----------------------------
(* What monitoring clients see of a program's variables: the catalog, the    *)
(* values copied after each cycle, the update built for a subscription, and  *)
(* the nodes and values of the OPC UA server.                                *)
(*                                                                           *)
(* A name is a sequence of segments, fields and array elements; upper and    *)
(* lower case are one.  A text is known by its form: the forms are the ones  *)
(* that some parser of the code tells apart.  A real number is an integer    *)
(* count of quarters: whole numbers are the multiples of four, and what six  *)
(* decimals can show are the even ones.                                      *)
EXTENDS Integers, Sequences, SequencesExt, FiniteSets, Functions

CONSTANTS
    LongHalf,   \* half the number of values of LINT and ULINT, 2^63
    ShortHalf,  \* the same for every shorter integer type
    Beginnings  \* pairs <<a, b>> of field names where the text b begins with a

ASSUME WidthsAssumption == /\ LongHalf \in Nat /\ ShortHalf \in Nat
                           /\ 1 < ShortHalf /\ 2 * ShortHalf <= LongHalf

Field(f) == <<f, 0>>
Elem(k) == <<"[]", k>>
IsElem(segment) == segment[1] = "[]"

\* A declared variable: name, type, the type or element type it is made of,
\* bounds of its dimensions, and whether it is RETAIN or PERSISTENT.  Types are
\* named as format_var_type_with_width does.
Slot(n, ty, of, dims, keep) == [n |-> n, ty |-> ty, of |-> of, dims |-> dims, keep |-> keep]

\* The compiler gives a compound declaration an integer type to begin with,
\* and its own only if it is a local of a program or a block: globals, fields
\* of a STRUCT and elements of an array stay integers, without a width.
Compounds == {"FB", "CLASS", "STRUCT", "ARRAY"}
DisplayedType(ty) == IF ty \in Compounds THEN "INT" ELSE ty

\* --- Texts, values, variants ------------------------------------------------

Text(form, n) == [form |-> form, n |-> n, quoted |-> FALSE]
Value(kind, form, n) == [kind |-> kind, form |-> form, n |-> n]
Void == Value("Void", "VOID", 0)

LongMax == LongHalf - 1
InLong(n) == -LongHalf <= n /\ n <= LongMax
Unsigned(n, half) == n % (2 * half)
Signed(n, half) == ((n + half) % (2 * half)) - half

ShortSigned == {"SINT", "INT", "DINT"}
ShortUnsigned == {"USINT", "UINT", "UDINT", "BYTE", "WORD", "DWORD"}
LongUnsigned == {"ULINT", "LWORD"}
Half(ty) == IF ty \in ShortSigned \union ShortUnsigned THEN ShortHalf ELSE LongHalf
IsSigned(ty) == ty \in ShortSigned \union {"LINT"}
IsUnsigned(ty) == ty \in ShortUnsigned \union LongUnsigned

\* narrow_value: the integer width of the slot applies to integers only.
NarrowValue(v, ty) ==
    IF v.kind \notin {"Int", "UInt"} \/ ~ (IsSigned(ty) \/ IsUnsigned(ty)) THEN v
    ELSE IF IsSigned(ty) THEN Value("Int", "int", Signed(v.n, Half(ty)))
    ELSE Value("UInt", "int", Unsigned(v.n, Half(ty)))

FormatValue(v) ==
    CASE v.kind = "Real" -> Text("fixed", v.n - (v.n % 2))
      [] v.kind = "String" -> [Text(v.form, v.n) EXCEPT !.quoted = TRUE]
      [] OTHER -> Text(v.form, v.n)

\* parse_value_string: boolean, then 64-bit integer, then real, then string.
\* An integer may be written with a sign or zeros in front (form "digits").
ParseValueString(text) ==
    CASE text.form \in {"TRUE", "FALSE"} -> Value("Bool", text.form, text.n)
      [] text.form = "true" -> Value("Bool", "TRUE", text.n)
      [] text.form \in {"int", "digits"} /\ InLong(text.n) -> Value("Int", "int", text.n)
      [] text.form \in {"int", "digits"} /\ ~ InLong(text.n) -> Value("Real", "real", text.n * 4)
      [] text.form \in {"fixed", "short"} -> Value("Real", "real", text.n)
      [] OTHER -> Value("String", text.form, text.n)

Variant(type, form, n) == [type |-> type, form |-> form, n |-> n]

IecTypeToOpcuaDataType(ty) ==
    CASE ty = "BOOL" -> "Boolean"
      [] ty = "REAL" -> "Float"
      [] ty = "LREAL" -> "Double"
      [] ty = "TIME" -> "Int64"
      [] IsSigned(ty) \/ IsUnsigned(ty) -> ty
      [] OTHER -> "String"

DefaultValueForType(ty) ==
    LET type == IecTypeToOpcuaDataType(ty)
    IN CASE type = "Boolean" -> Variant(type, "FALSE", 0)
         [] type = "String" -> Variant(type, "empty", 0)
         [] OTHER -> Variant(type, "number", 0)

\* What `value.parse::<i64>()`, `parse::<u64>()` and `parse::<f64>()` accept.
ParseI64(text) == IF text.form = "int" /\ ~ text.quoted /\ InLong(text.n) THEN text.n ELSE 0
ParseU64(text) == IF text.form = "int" /\ ~ text.quoted /\ text.n >= 0 THEN text.n ELSE 0
ParseF64(text) ==
    CASE text.quoted -> 0
      [] text.form = "int" -> text.n * 4
      [] text.form \in {"fixed", "short"} -> text.n
      [] OTHER -> 0
\* Durations and bare numbers give the same count of milliseconds.
ParseTimeString(text) == IF text.form \in {"time", "int"} /\ ~ text.quoted THEN text.n ELSE 0

\* The text as it is, for every type without a parser of its own.
WholeString(text) == Variant("String", IF text.quoted THEN "quoted" ELSE text.form, text.n)
\* mutant of ParseString: the quotes of format_value are not stripped
ParseStringAsIs(text) == WholeString(text)
ParseString(text) == Variant("String", text.form, text.n)

ParseValueToVariant(text, ty) ==
    LET type == IecTypeToOpcuaDataType(ty)
        isTrue == ~ text.quoted /\ (text.form \in {"TRUE", "true"} \/ (text.form = "int" /\ text.n = 1))
    IN CASE ty = "BOOL" -> Variant(type, IF isTrue THEN "TRUE" ELSE "FALSE", 0)
         [] ty \in {"REAL", "LREAL"} -> Variant(type, "number", ParseF64(text))
         [] ty = "TIME" -> Variant(type, "number", ParseTimeString(text))
         [] IsSigned(ty) -> Variant(type, "number", Signed(ParseI64(text), Half(ty)))
         [] IsUnsigned(ty) -> Variant(type, "number", Unsigned(ParseU64(text), Half(ty)))
         [] ty = "STRING" -> ParseString(text)
         [] OTHER -> WholeString(text)

\* A float prints the fewest digits that give it back, a whole one no point.
VariantToValueString(v) ==
    CASE v.type \in {"Boolean", "String"} -> Text(v.form, v.n)
      [] v.type \in {"Float", "Double"} -> IF v.n % 4 = 0 THEN Text("int", v.n \div 4)
                                           ELSE Text("short", v.n)
      [] OTHER -> Text("int", v.n)

\* --- The catalog --------------------------------------------------------------

Entry(name, ty, keep) == [name |-> name, ty |-> ty, keep |-> keep]

CatalogArrayElements(slot, prefix) ==
    IF Len(slot.dims) # 1 THEN <<>>
    ELSE [k \in 1..(slot.dims[1][2] - slot.dims[1][1] + 1) |->
            Entry(Append(prefix, Elem(slot.dims[1][1] + k - 1)), DisplayedType(slot.of), slot.keep)]

CatalogStructFields(p, slot, prefix) ==
    [j \in DOMAIN p.types[slot.of] |->
        LET f == p.types[slot.of][j] IN Entry(Append(prefix, Field(f.n)), DisplayedType(f.ty), slot.keep)]

\* A block is followed by the fields within it.  Blocks are nested no deeper
\* than there are types.
Depth(p) == Cardinality(DOMAIN p.types)
CatalogFbFields(p, fb, prefix, keep) ==
    LET below[n \in 0..Depth(p)] ==
          [of \in DOMAIN p.types |->
             FlattenSeq([j \in DOMAIN p.types[of] |->
                LET f == p.types[of][j]
                    path == <<Field(f.n)>>
                IN CASE f.ty = "FB" ->
                          <<[path |-> path, ty |-> f.of]>> \o
                          IF n = 0 THEN <<>>
                          ELSE [i \in DOMAIN below[n - 1][f.of] |->
                                  [below[n - 1][f.of][i] EXCEPT !.path = path \o @]]
                     [] f.ty = "CLASS" -> <<>>
                     [] OTHER -> <<[path |-> path, ty |-> f.ty]>>])]
        fields == below[Depth(p)][fb]
    IN [i \in DOMAIN fields |-> Entry(prefix \o fields[i].path, fields[i].ty, keep)]

CatalogProgram(p, pou) ==
    <<Entry(<<Field(pou.n)>>, "PROGRAM", FALSE)>> \o
    FlattenSeq([i \in DOMAIN pou.slots |->
        LET s == pou.slots[i]
            name == <<Field(pou.n), Field(s.n)>>
        IN CASE s.ty = "FB" -> <<Entry(name, s.of, s.keep)>> \o CatalogFbFields(p, s.of, name, s.keep)
             [] s.ty = "CLASS" -> <<>>
             [] s.ty = "STRUCT" -> <<Entry(name, s.of, s.keep)>> \o CatalogStructFields(p, s, name)
             [] s.ty = "ARRAY" -> <<Entry(name, "ARRAY", s.keep)>> \o CatalogArrayElements(s, name)
             [] OTHER -> <<Entry(name, s.ty, s.keep)>>])

MonitorableCatalog(p) ==
    [i \in DOMAIN p.globals |->
       Entry(<<Field(p.globals[i].n)>>, DisplayedType(p.globals[i].ty), p.globals[i].keep)]
      \o FlattenSeq([i \in DOMAIN p.pous |-> CatalogProgram(p, p.pous[i])])

\* --- The values after a cycle -----------------------------------------------
(* A machine is what the engine holds: its program, whether that has called  *)
(* its block instances and stored to its STRUCTs and arrays (ran), and the   *)
(* forced variables.                                                         *)

\* Where force_variable and enforce_retained_locals find a variable to write.
Forceable(p, name) ==
    LET local == {s \in ToSet(p.pous[1].slots) :
                    Len(name) > 1 /\ name[1] = Field(p.pous[1].n) /\ name[2] = Field(s.n)}
    IN \/ \E s \in ToSet(p.globals) : name = <<Field(s.n)>>
       \/ /\ Len(name) = 2
          /\ \E s \in local : s.ty \notin Compounds
       \/ /\ Len(name) = 3
          /\ \E s \in local : /\ s.ty \in {"FB", "STRUCT"}
                              /\ \E f \in ToSet(p.types[s.of]) : name[3] = Field(f.n)

ValueOf(ty, n) ==
    CASE ty = "BOOL" -> Value("Bool", IF n = 0 THEN "FALSE" ELSE "TRUE", 0)
      [] ty = "STRING" -> Value("String", IF n = 0 THEN "empty" ELSE "word", n)
      [] ty \in {"REAL", "LREAL"} -> Value("Real", "real", 2 * n)
      [] ty = "TIME" -> Value("Time", "time", n)
      [] IsUnsigned(ty) -> Value("UInt", "int", n)
      [] OTHER -> Value("Int", "int", n)

\* What the user's program computes in every cycle (external): small and, in
\* an array, different for each element.
Computed(name, ty) == ValueOf(ty, (IF IsElem(Last(name)) THEN Last(name)[2] ELSE 1) % 2)

Stored(machine, p, name, ty) ==
    IF name \in DOMAIN machine.forced /\ Forceable(p, name)
    THEN NarrowValue(machine.forced[name].value, ty)
    ELSE Computed(name, ty)

Variable(machine, name, ty, text, keep) ==
    [name |-> name, ty |-> ty, value |-> text, keep |-> keep,
     forced |-> name \in DOMAIN machine.forced]
Shown(machine, p, name, ty, keep) ==
    Variable(machine, name, DisplayedType(ty), FormatValue(Stored(machine, p, name, ty)), keep)
Parent(machine, name, ty, keep) == Variable(machine, name, ty, Text("empty", 0), keep)

GlobalVariables(machine, p) ==
    {Shown(machine, p, <<Field(s.n)>>, s.ty, s.keep) : s \in ToSet(p.globals)}

\* A STRUCT or an array has no state before the program stores to it: defaults
\* are shown and a force finds nothing to write to.
ShownOnceStored(machine, p, name, ty, keep) ==
    IF machine.ran THEN Shown(machine, p, name, ty, keep)
    ELSE Variable(machine, name, DisplayedType(ty), FormatValue(ValueOf(ty, 0)), keep)

SnapshotArrayElements(machine, p, slot, prefix) ==
    IF Len(slot.dims) # 1 THEN {}
    ELSE {ShownOnceStored(machine, p, Append(prefix, Elem(k)), slot.of, slot.keep) :
            k \in slot.dims[1][1]..slot.dims[1][2]}

SnapshotStructFields(machine, p, slot, prefix) ==
    {ShownOnceStored(machine, p, Append(prefix, Field(f.n)), f.ty, slot.keep) : f \in ToSet(p.types[slot.of])}

\* How much of its block a field takes: values in a native block, whose arrays
\* lie within it; bytes in a compiled one, a compound counting as the integer
\* it was at first.
SlotSize(p, of, f) ==
    IF of \in p.native THEN IF f.ty = "ARRAY" THEN f.dims[1][2] - f.dims[1][1] + 1 ELSE 1
    ELSE CASE f.ty = "BOOL" -> 1 [] f.ty = "REF_TO" -> 4 [] f.ty = "STRING" -> 24 [] OTHER -> 8
SlotOffset(p, of, j) ==
    SumFunctionOnSet([i \in DOMAIN p.types[of] |-> SlotSize(p, of, p.types[of][i])], 1..(j - 1))
HasExpandedArrays(p, of) ==
    \E f \in ToSet(p.types[of]) : f.ty = "ARRAY" /\ SlotSize(p, of, f) > 1
ExpandedIndex(p, of, j) == IF HasExpandedArrays(p, of) THEN SlotOffset(p, of, j) ELSE j - 1

\* Is there a value k places after field j?  The state of a compiled block has
\* one for each slot, however large its offset.
WithinState(p, of, j, k) == of \in p.native \/ ExpandedIndex(p, of, j) + k < Len(p.types[of])

\* What is found k places after field j of a block, at name.  An instance that
\* was never called has no state.  In a compiled block the slot at that index
\* may be another one; a compound slot is VOID.  The indices of two fields
\* differ: a force of the field itself alone is written there.
FieldValue(machine, p, of, j, name, k) ==
    LET fields == p.types[of]
        f == fields[j]
        there == fields[ExpandedIndex(p, of, j) + k + 1]
        width == IF of \in p.native /\ f.ty = "ARRAY" THEN f.of ELSE f.ty
    IN IF ~ machine.ran \/ ~ WithinState(p, of, j, k) THEN Void
       ELSE IF k = 0 /\ name \in DOMAIN machine.forced /\ Forceable(p, name)
       THEN NarrowValue(machine.forced[name].value, width)
       ELSE IF of \in p.native
       THEN IF f.ty = "ARRAY" THEN Computed(Append(name, Elem(k)), f.of) ELSE Computed(name, f.ty)
       ELSE IF there.ty \in Compounds THEN Void
       ELSE Computed(Append(Front(name), Field(there.n)), there.ty)

\* As many elements as the size says, numbered from zero.
SnapshotFbArray(machine, p, of, j, name, keep) ==
    {Variable(machine, Append(name, Elem(k)), "Array(type)",
              FormatValue(FieldValue(machine, p, of, j, name, k)), keep) :
        k \in 0..(SlotSize(p, of, p.types[of][j]) - 1)}

\* The fields of each block and of the blocks within it: the path to a field,
\* the block that declares it and its position there.
BlockFields(p) ==
    LET fields[n \in 0..Depth(p)] ==
          [of \in DOMAIN p.types |->
             {[path |-> <<Field(p.types[of][j].n)>>, slot |-> <<of, j>>] : j \in DOMAIN p.types[of]} \union
             IF n = 0 THEN {}
             ELSE UNION {{[path |-> <<Field(f.n)>> \o g.path, slot |-> g.slot] : g \in fields[n - 1][f.of]} :
                            f \in {f \in ToSet(p.types[of]) : f.ty = "FB"}}]
    IN fields[Depth(p)]

SnapshotFbFields(machine, p, fb, prefix, keep) ==
    UNION {LET name == prefix \o g.path
               of == g.slot[1]
               j == g.slot[2]
               ty == p.types[of][j].ty
           IN CASE ty \in {"FB", "CLASS"} -> {}
                [] ty = "ARRAY" -> SnapshotFbArray(machine, p, of, j, name, keep)
                [] OTHER -> {Variable(machine, name, ty, FormatValue(FieldValue(machine, p, of, j, name, 0)), keep)}
           : g \in BlockFields(p)[fb]}

SnapshotLocal(machine, p, pou, s) ==
    LET name == <<Field(pou.n), Field(s.n)>>
    IN CASE s.ty = "FB" -> {Parent(machine, name, s.of, s.keep)}
                             \union SnapshotFbFields(machine, p, s.of, name, s.keep)
         [] s.ty = "CLASS" -> {}
         [] s.ty = "STRUCT" -> {Parent(machine, name, s.of, s.keep)}
                                 \union SnapshotStructFields(machine, p, s, name)
         [] s.ty = "ARRAY" -> {Parent(machine, name, "ARRAY", s.keep)}
                                \union SnapshotArrayElements(machine, p, s, name)
         [] OTHER -> {Shown(machine, p, name, s.ty, s.keep)}

\* Only programs that have run have retained locals; the engine runs the first.
MonitorableVariables(machine, p) ==
    GlobalVariables(machine, p)
      \union UNION {SnapshotLocal(machine, p, p.pous[1], s) : s \in ToSet(p.pous[1].slots)}

\* --- Subscriptions ------------------------------------------------------------

\* str::starts_with on the texts: prefix may end in the middle of a field name.
StartsWith(name, prefix) ==
    LET n == Len(prefix)
    IN /\ n <= Len(name) /\ IsPrefix(Front(prefix), name)
       /\ \/ prefix[n] = name[n]
          \/ \E b \in Beginnings : prefix[n] = Field(b[1]) /\ name[n] = Field(b[2])
\* ... and with the character that follows.
StartsWithDot(name, prefix) ==
    /\ StartsWith(name, prefix) /\ prefix[Len(prefix)] = name[Len(prefix)]
    /\ Len(prefix) < Len(name) /\ ~ IsElem(name[Len(prefix) + 1])
StartsWithBracket(name, prefix) ==
    /\ StartsWith(name, prefix) /\ prefix[Len(prefix)] = name[Len(prefix)]
    /\ Len(prefix) < Len(name) /\ IsElem(name[Len(prefix) + 1])

\* mutant of CollectWatchedVariables: what follows the subscribed name is not
\* looked at
CollectByText(subs, all) == {v \in all : \E s \in subs : StartsWith(v.name, s)}
CollectWatchedVariables(subs, all) ==
    {v \in all : \/ v.name \in subs
                 \/ \E s \in subs : StartsWithDot(v.name, s) \/ StartsWithBracket(v.name, s)}

ReadMatching(names, all) ==
    {v \in all : \/ v.name \in names
                 \/ \E s \in names : StartsWithDot(v.name, s) \/ StartsWithBracket(v.name, s)}

HttpVariables(names, all) ==
    IF names = {} THEN all
    ELSE {v \in all : \E s \in names : \/ v.name = s
                                       \/ StartsWithDot(v.name, s)
                                       \/ StartsWithBracket(v.name, s)}

\* build_children_from_flat: the trie of the descendants below a root.  A node
\* that is itself a variable has its data; one on the way to a kept variable
\* is marked kept as well.
TreeNodes(descendants, root) ==
    LET paths == {q \in UNION {{SubSeq(v.name, 1, k) : k \in 1..Len(v.name)} : v \in descendants} :
                    Len(q) > Len(root)}
        node(q) ==
          LET own == {v \in descendants : v.name = q}
              below == {v \in descendants : Len(v.name) > Len(q) /\ SubSeq(v.name, 1, Len(q)) = q}
          IN [name |-> q,
              kind |-> IF below = {} THEN "scalar" ELSE IF IsElem(Last(q)) THEN "array" ELSE "fb",
              value |-> IF own = {} THEN Text("empty", 0) ELSE (CHOOSE v \in own : TRUE).value,
              forced |-> \E v \in own : v.forced,
              keep |-> \E v \in own \union below : v.keep]
    IN {node(q) : q \in paths}

WatchRoot(s, all) ==
    LET below == {v \in all : StartsWithDot(v.name, s) \/ StartsWithBracket(v.name, s)}
        own == {v \in all : v.name = s}
        kept == \E v \in own : v.keep
    IN IF below = {}
       THEN [name |-> s, kind |-> "scalar", keep |-> kept,
             value |-> IF own = {} THEN Text("empty", 0) ELSE (CHOOSE v \in own : TRUE).value,
             forced |-> \E v \in own : v.forced, children |-> {}]
       ELSE [name |-> s, keep |-> kept, value |-> Text("empty", 0), forced |-> FALSE,
             kind |-> IF \E v \in own : v.ty = "ARRAY" THEN "array"
                      ELSE IF \E v \in own : v.ty = "PROGRAM" THEN "program" ELSE "fb",
             children |-> TreeNodes(below, s)]

BuildWatchTree(subs, all) == {WatchRoot(s, all) : s \in subs}

\* --- The address space ----------------------------------------------------------

Globals == <<Field("Globals")>>
Programs == <<Field("Programs")>>

\* A folder for everything in front of a dot.
LayoutFolders(catalog) ==
    LET before(name) == {k \in 1..(Len(name) - 1) : ~ IsElem(name[k + 1])}
    IN {Globals, Programs} \union
       UNION {{SubSeq(e.name, 1, k) : k \in before(e.name)} : e \in ToSet(catalog)}

\* Folders are inserted first, and an identifier that exists is not inserted
\* again: an entry that has entries below it stays a folder.
BuildNodes(catalog) ==
    LET folders == LayoutFolders(catalog)
        variables == {e \in ToSet(catalog) : e.name \notin folders}
    IN [id \in folders \union {e.name : e \in variables} |->
          IF id \in folders THEN "folder" ELSE (CHOOSE e \in variables : e.name = id).ty]

TrackedIds(catalog) == LayoutFolders(catalog) \union {e.name : e \in ToSet(catalog)}
=============================================================================
