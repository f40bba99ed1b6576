------------------------------ MODULE SchemaTree ------------------------------
(***************************************************************************)
(* The schema of a record batch becomes the schema of the file (writer.cpp): *)
(* flatten_node lists the tree of Arrow nodes in pre-order as the elements   *)
(* of the footer, and the leaves as the columns, each with the way to its    *)
(* array; map_format gives a leaf its Parquet type.  Also what a reader       *)
(* makes of such a list.                                                     *)
(*                                                                          *)
(* Parameters are passed, there is no state: LeafPages runs it.              *)
(***************************************************************************)
EXTENDS Integers, Sequences, SequencesExt

\* An ArrowSchema.  width: the N of a fixed_size_binary, "w:N".
Node(format, name, nullable, children) ==
    [format |-> format, name |-> name, nullable |-> nullable, width |-> 0, children |-> children]

\* Fault: a large list is no list.
SmallListFormats == {"+l"}
ListFormats == {"+l", "+L"}

------------------------------------------------------------------------------
(* map_format *)

Type(physical, extract, converted) ==
    [physical |-> physical, extract |-> extract, converted |-> converted,
     width |-> 0, signed |-> FALSE, length |-> 0]
Fixed(physical, width, converted) ==
    [Type(physical, "fixed", converted) EXCEPT !.width = width]
Widened(width, signed, converted) ==
    [Type("INT32", "widen", converted) EXCEPT !.width = width, !.signed = signed]

\* The column of a leaf, or nothing.
MapFormat(node) ==
    CASE node.format = "n" -> {Type("INT32", "null", "none")}
      [] node.format = "b" -> {Type("BOOLEAN", "bool", "none")}
      [] node.format = "c" -> {Widened(1, TRUE, "INT_8")}
      [] node.format = "C" -> {Widened(1, FALSE, "UINT_8")}
      [] node.format = "s" -> {Widened(2, TRUE, "INT_16")}
      [] node.format = "S" -> {Widened(2, FALSE, "UINT_16")}
      [] node.format = "i" -> {Fixed("INT32", 4, "none")}
      [] node.format = "I" -> {Fixed("INT32", 4, "UINT_32")}
      [] node.format = "l" -> {Fixed("INT64", 8, "none")}
      [] node.format = "L" -> {Fixed("INT64", 8, "UINT_64")}
      [] node.format = "f" -> {Fixed("FLOAT", 4, "none")}
      [] node.format = "g" -> {Fixed("DOUBLE", 8, "none")}
      [] node.format = "w" /\ node.width > 0 ->
           {[Fixed("FIXED_LEN_BYTE_ARRAY", node.width, "none") EXCEPT !.length = node.width]}
      [] node.format \in {"u", "U"} -> {Type("BYTE_ARRAY", "bytes", "UTF8")}
      [] node.format \in {"z", "Z"} -> {Type("BYTE_ARRAY", "bytes", "none")}
      [] OTHER -> {}

------------------------------------------------------------------------------
(* flatten_node *)

\* Every null type is nullable.
Nullable(node) == node.nullable \/ node.format = "n"

\* Elements of the footer: a SchemaElement has a type or children.
Repetition(optional) == IF optional THEN "OPTIONAL" ELSE "REQUIRED"
Group(name, repetition, logical, n) ==
    [name |-> name, repetition |-> repetition, logical |-> logical, children |-> n, type |-> {}]
\* Fault: the width of a fixed_size_binary is not declared.
LeafElementNoLength(name, optional, type) ==
    [name |-> name, repetition |-> Repetition(optional), logical |-> "none", children |-> 0,
     type |-> {[physical |-> type.physical, converted |-> type.converted, length |-> 0]}]
LeafElement(name, optional, type) ==
    [name |-> name, repetition |-> Repetition(optional), logical |-> "none", children |-> 0,
     type |-> {[physical |-> type.physical, converted |-> type.converted, length |-> type.length]}]

Flat(elements, leaves) == [ok |-> TRUE, nodes |-> elements, leaves |-> leaves]
Refused == [ok |-> FALSE, nodes |-> <<>>, leaves |-> <<>>]
Both(a, b) == IF a.ok /\ b.ok THEN Flat(a.nodes \o b.nodes, a.leaves \o b.leaves) ELSE Refused

\* One level for each OPTIONAL node, and one for each list that is not empty.
IsList(step) == step.kind \in {"list", "map"}
MaxRep(steps) == Len(SelectSeq(steps, IsList))
MaxDef(steps) == Len(SelectSeq(steps, LAMBDA s : s.optional)) + MaxRep(steps)

Leaf(node, name, optional, idx, path, steps) ==
    LET all == Append(steps, [kind |-> "leaf", optional |-> optional, child |-> 0])
    IN [type |-> CHOOSE t \in MapFormat(node) : TRUE, idx |-> idx, path |-> path, steps |-> all,
        hasList |-> MaxRep(all) > 0, maxDef |-> MaxDef(all), maxRep |-> MaxRep(all)]

\* optional and path include the node, steps are the Arrow nodes above it.  A list or
\* map does not add to idx: its leaves are found by their steps.
RECURSIVE Flatten(_, _, _, _, _, _)
Flatten(node, name, optional, idx, path, steps) ==
    LET Under(step) == Append(steps, step)
        Field(i) ==
            LET child == node.children[i]
            IN Flatten(child, child.name, Nullable(child), Append(idx, i - 1), Append(path, child.name),
                       Under([kind |-> "struct", optional |-> optional, child |-> i - 1]))
        Above(logical, elements) ==
            Flat(<<Group(name, Repetition(optional), logical, 1)>> \o elements, <<>>)
    IN CASE node.format = "+s" ->
              FoldLeft(Both, Flat(<<Group(name, Repetition(optional), "none", Len(node.children))>>, <<>>),
                       [i \in DOMAIN node.children |-> Field(i)])
         [] node.format \in ListFormats ->
              IF Len(node.children) # 1 THEN Refused
              ELSE LET item == node.children[1]
                   IN Both(Above("LIST", <<Group("list", "REPEATED", "none", 1)>>),
                           Flatten(item, "element", Nullable(item), idx, path \o <<"list", "element">>,
                                   Under([kind |-> "list", optional |-> optional, child |-> 0])))
         [] node.format = "+m" ->
              IF Len(node.children) # 1 THEN Refused
              ELSE LET entry == node.children[1]
                       Part(i, part, null) ==
                           Flatten(entry.children[i], part, null, idx, path \o <<"key_value", part>>,
                                   Under([kind |-> "map", optional |-> optional, child |-> i - 1]))
                   IN IF entry.format # "+s" \/ Len(entry.children) # 2 THEN Refused
                      ELSE FoldLeft(Both, Above("MAP", <<Group("key_value", "REPEATED", "none", 2)>>),
                                    <<Part(1, "key", FALSE), Part(2, "value", Nullable(entry.children[2]))>>)
         [] MapFormat(node) = {} -> Refused
         [] OTHER ->
              LET null == optional \/ node.format = "n"
                  leaf == Leaf(node, name, null, idx, path, steps)
              IN Flat(<<LeafElement(name, null, leaf.type)>>, <<leaf>>)

\* The columns of a batch, and the elements of the footer, the root first.
FlattenBatch(columns) ==
    FoldLeft(Both, Flat(<<Group("schema", "REQUIRED", "none", Len(columns))>>, <<>>),
             [i \in DOMAIN columns |->
                Flatten(columns[i], columns[i].name, Nullable(columns[i]), <<i - 1>>,
                        <<columns[i].name>>, <<>>)])

\* Fault: a map is followed to its keys, whichever the leaf.
WalkKeys(leaf) ==
    LET Down(s) == CASE s.kind = "struct" -> <<s.child>> [] s.kind = "list" -> <<0>>
                     [] s.kind = "map" -> <<0, 0>> [] OTHER -> <<>>
    IN IF leaf.hasList
       THEN <<leaf.idx[1]>> \o FlattenSeq([k \in DOMAIN leaf.steps |-> Down(leaf.steps[k])])
       ELSE leaf.idx
\* The children that are followed from the batch to the array of a leaf.
Walk(leaf) ==
    LET Down(s) == CASE s.kind = "struct" -> <<s.child>> [] s.kind = "list" -> <<0>>
                     [] s.kind = "map" -> <<0, s.child>> [] OTHER -> <<>>
    IN IF leaf.hasList
       THEN <<leaf.idx[1]>> \o FlattenSeq([k \in DOMAIN leaf.steps |-> Down(leaf.steps[k])])
       ELSE leaf.idx

------------------------------------------------------------------------------
(* A reader of the footer. *)

\* The columns below the element at position at, in order, and the position after.
\* A group has no type; what it stands for is said by its logical type and that of
\* its repeated group.
RECURSIVE Parse(_, _, _, _, _)
Parse(nodes, at, path, def, rep) ==
    LET e     == nodes[at]
        path2 == IF at = 1 THEN path ELSE Append(path, e.name)
        def2  == IF e.repetition = "REQUIRED" THEN def ELSE def + 1
        rep2  == IF e.repetition = "REPEATED" THEN rep + 1 ELSE rep
        more(acc, i) ==
            LET p == Parse(nodes, acc.next, path2, def2, rep2)
            IN [tree |-> [acc.tree EXCEPT !.fields = Append(@, p.tree)],
                columns |-> acc.columns \o p.columns, next |-> p.next]
    IN IF at \notin DOMAIN nodes
       THEN [tree |-> [name |-> "missing"], columns |-> <<>>, next |-> at]
       ELSE IF e.type # {}
       THEN [tree |-> [name |-> e.name, repetition |-> e.repetition, type |-> e.type],
             columns |-> <<[path |-> path2, maxDef |-> def2, maxRep |-> rep2]>>, next |-> at + 1]
       ELSE FoldLeft(more, [tree |-> [name |-> e.name, repetition |-> e.repetition,
                                      logical |-> e.logical, fields |-> <<>>],
                            columns |-> <<>>, next |-> at + 1],
                     [i \in 1 .. e.children |-> i])
===============================================================================
