--------------------------- MODULE MonitorUpdates ---------------------------
(* What an update ought to tell, from the declarations alone, and the        *)
(* comparison of every update of Monitoring with it.                         *)
EXTENDS Monitoring

(* What is told of a declaration, found from the declarations alone: the     *)
(* name it is told under, the variable whose value is told (none: VOID), the *)
(* type, and where its value lives.  Not monitored: class instances, arrays  *)
(* of more than one dimension, and what is within a global compound, within  *)
(* a compound of a STRUCT or of an array, and within a STRUCT of a block.    *)
Leaf(name, source, ty, keep, lives) ==
    [name |-> name, source |-> source, ty |-> ty, keep |-> keep, lives |-> lives]
PlainLeaf(name, ty, keep, lives) == Leaf(name, name, IF ty \in Compounds THEN "INT" ELSE ty, keep, lives)

(* Declared in a compiled block that has an array, a field is told rightly   *)
(* only while nothing but BOOLs comes before it; else, in a block of no more *)
(* than MaxFields fields, VOID is told.  Eight elements are told of the      *)
(* array, itself (VOID) and what is declared after it in the place of its    *)
(* elements.                                                                 *)
MaxFields == 8
Clear(p, of, j) ==
    \/ of \in p.native
    \/ \A f \in ToSet(p.types[of]) : f.ty # "ARRAY"
    \/ \A i \in 1..(j - 1) : p.types[of][i].ty = "BOOL"

RECURSIVE BlockLeaves(_, _, _, _)
BlockLeaves(p, of, block, keep) ==
    LET fields == p.types[of]
        at(j) == Append(block, Field(fields[j].n))
        scalar(j) == j \in DOMAIN fields /\ fields[j].ty \notin Compounds
        source(j) == IF scalar(j) THEN at(j) ELSE <<>>
        fieldLeaves(j) ==
          LET f == fields[j]
          IN CASE f.ty = "FB" -> BlockLeaves(p, f.of, at(j), keep)
               [] f.ty = "CLASS" -> {}
               [] f.ty = "ARRAY" /\ of \in p.native ->
                    {PlainLeaf(Append(at(j), Elem(k)), f.of, keep, "block") : k \in 0..(f.dims[1][2] - f.dims[1][1])}
               [] f.ty = "ARRAY" ->
                    {Leaf(Append(at(j), Elem(k)), IF Clear(p, of, j) THEN source(j + k) ELSE <<>>,
                          IF scalar(j + k) THEN fields[j + k].ty ELSE "INT", keep, "block") : k \in 0..7}
               [] OTHER -> {Leaf(at(j), IF Clear(p, of, j) THEN source(j) ELSE <<>>, f.ty, keep, "block")}
    IN UNION {fieldLeaves(j) : j \in DOMAIN fields}

LocalLeaves(p, s, name) ==
    CASE s.ty = "FB" -> BlockLeaves(p, s.of, name, s.keep)
      [] s.ty = "STRUCT" -> {PlainLeaf(Append(name, Field(f.n)), f.ty, s.keep, "stored") : f \in ToSet(p.types[s.of])}
      [] s.ty = "ARRAY" /\ Len(s.dims) = 1 ->
           {PlainLeaf(Append(name, Elem(k)), s.of, s.keep, "stored") : k \in s.dims[1][1]..s.dims[1][2]}
      [] s.ty \in {"ARRAY", "CLASS"} -> {}
      [] OTHER -> {PlainLeaf(name, s.ty, s.keep, "plain")}
ProgramLeaves(p) ==
    {PlainLeaf(<<Field(s.n)>>, s.ty, s.keep, "plain") : s \in ToSet(p.globals)} \union
    UNION {LocalLeaves(p, s, <<Field(p.pous[1].n), Field(s.n)>>) : s \in ToSet(p.pous[1].slots)}
AllLeaves == [p \in DOMAIN Decl |-> ProgramLeaves(Decl[p])]

ExpectedValue(m, p, l) ==
    CASE l.lives = "block" /\ ~ m.ran -> Void
      [] l.lives = "stored" /\ ~ m.ran -> ValueOf(l.ty, 0)
      [] l.source = <<>> -> Void
      [] l.source = l.name -> Stored(m, p, l.name, l.ty)
      [] OTHER -> Computed(l.source, l.ty)

\* What an update for subs ought to tell of the machine.
Told(name, text, forced, keep) == [name |-> name, value |-> text, forced |-> forced, keep |-> keep]
ExpectedUpdate(m, subs) ==
    IF m.prog = None THEN {}
    ELSE {Told(l.name, FormatValue(ExpectedValue(m, Decl[m.prog], l)), l.name \in DOMAIN m.forced, l.keep) :
            l \in {l \in AllLeaves[m.prog] : \E s \in subs : IsPrefix(s, l.name)}}

\* What a list and a tree tell, entries for compounds aside.
ToldByList(list) ==
    {Told(v.name, v.value, v.forced, v.keep) : v \in {v \in list : v.value # Text("empty", 0)}}
ToldByTree(tree) ==
    ToldByList(tree \union UNION {r.children : r \in tree})

(* Subscriptions, reads and the HTTP API select by three matchers of their   *)
(* own, and the tree is assembled from names; yet every update tells, in its *)
(* list and in its tree, exactly what is monitored of the declarations below *)
(* what the client subscribed to, never those of a variable whose name only  *)
(* begins alike, each once and with its own force and retain marks; a read   *)
(* and the HTTP API agree; and everything that is told can be found in the   *)
(* catalog under the same type (elements of arrays in blocks excepted).  The *)
(* value told is the variable's own, but for the cases that Leaf and Clear   *)
(* single out: a compiled block with an array tells VOID, or the value of a  *)
(* later field, for what is declared from the array on, and a compound that  *)
(* the compiler left an integer is told as one.                              *)
UpdateShowsProgram ==
    \A c \in Clients : ws[c].push = "send" =>
        LET m == ws[c].msg.seen
            subs == ws[c].msg.subs
            all == AllVariables(m)
            list == CollectWatchedVariables(subs, all)
            tree == BuildWatchTree(subs, all)
            entries == {[name |-> e.name, ty |-> e.ty] : e \in ToSet(Catalog(m.prog))}
        IN /\ ToldByList(list) = ExpectedUpdate(m, subs)
           /\ ToldByTree(tree) = ExpectedUpdate(m, subs)
           /\ ReadMatching(subs, all) = list /\ HttpVariables(subs, all) = list
           /\ Cardinality({v.name : v \in all}) = Cardinality(all)
           /\ \A r \in tree :
                 LET parents == {Front(q.name) : q \in r.children}
                 IN \A n \in r.children : n.kind = "scalar" <=> n.name \notin parents
           /\ \A v \in list : [name |-> v.name, ty |-> v.ty] \in entries \/ v.ty = "Array(type)"
=============================================================================
