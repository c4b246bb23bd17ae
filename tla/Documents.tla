------------------------------ MODULE Documents ------------------------------
(***************************************************************************)
(* The documents of a backend: built by reflection from its endpoints when *)
(* they are first asked for, and never again.  A Go type is a named one    *)
(* (base: a struct, a scalar or "Time") and what wraps it, outermost       *)
(* first: <<"slice", "ptr">> is []*T.  A named slice or map of itself      *)
(* (type L []L) is no such type and is left out: getType never returns     *)
(* from it (document.go:55-57), whatever fields a struct has.              *)
(***************************************************************************)
EXTENDS Naturals, Sequences, FiniteSets

CONSTANTS Structs,    \* names of struct types
          Graphs,     \* structs may be declared so: [Structs -> Seq of field types]
          Endpoints,  \* an endpoint: [described, operations]; an operation: [described,
                      \* shapes], shapes being its Input and its Output
          MaxEndpoints, MaxAsked

VARIABLES types,      \* the declarations
          endpoints,  \* the backend's
          once,       \* whether the documents were built
          documents,  \* what came of it
          first,      \* the endpoints at that time
          asked,      \* how often Documents returned
          down        \* the stack overflowed: the process is gone
vars == <<types, endpoints, once, documents, first, asked, down>>

-----------------------------------------------------------------------------
(* logical/document.go *)

TypeAllPtrs(t) == [t EXCEPT !.wrap = SelectSeq(t.wrap, LAMBDA w : w \notin {"slice", "map", "ptr"})]

\* getType goes through slices and maps, and through one pointer.
Type(t) ==
    LET ptrs == {i \in DOMAIN t.wrap : t.wrap[i] = "ptr"}
        till == IF ptrs = {} THEN Len(t.wrap) ELSE CHOOSE i \in ptrs : \A j \in ptrs : i <= j
    IN  [t EXCEPT !.wrap = SubSeq(t.wrap, till + 1, Len(t.wrap))]

IsStruct(t) == t.wrap = << >> /\ t.base \in Structs

Kind(t) ==
    IF t.wrap # << >> THEN t.wrap[1]
    ELSE IF t.base = "Time" THEN "datetime"
    ELSE IF t.base \in Structs THEN "struct" ELSE t.base

\* getFields of every struct, given what the calls for its fields return.
FieldsOf(graph, below) ==
    [s \in Structs |->
        LET fields == graph[s]
            inner(i) == Type(fields[i])
        IN  [overflow |-> \E i \in DOMAIN fields : IsStruct(inner(i)) /\ below[inner(i).base].overflow,
             fields |-> [i \in DOMAIN fields |->
                 [kind |-> Kind(inner(i)),
                  list |-> fields[i].wrap # << >> /\ fields[i].wrap[1] = "slice",
                  reference |-> IF IsStruct(inner(i)) THEN below[inner(i).base].fields ELSE << >>]]]]

NoFrame == [s \in Structs |-> [overflow |-> TRUE, fields |-> << >>]]

\* How many frames the stack has room for.  The recover in getFields covers a
\* type that is no struct, and not a stack that overflows.
Depth == Cardinality(Structs) + 1

Framed(graph) ==
    LET doc[deep \in 0..Depth] == IF deep = 0 THEN NoFrame ELSE FieldsOf(graph, doc[deep - 1])
    IN  doc

Described(graph) == Framed(graph)[Depth]

Fields(t) ==
    IF IsStruct(t) THEN Described(types)[t.base] ELSE [overflow |-> FALSE, fields |-> << >>]

-----------------------------------------------------------------------------
(* framework/document.go *)

Init ==
    /\ types \in Graphs
    /\ endpoints \in UNION {[1..n -> Endpoints] : n \in 0..MaxEndpoints}
    /\ once = FALSE /\ documents = << >> /\ first = << >> /\ asked = 0 /\ down = FALSE

Document(e) == [o \in DOMAIN e.operations |-> [i \in 1..2 |-> Fields(e.operations[o].shapes[i])]]

\* What stops initDocuments at an operation, and at an endpoint: its operations
\* are a map, so any of those that stop it may come first.
OperationStopsLate(o) ==
    IF \E i \in 1..2 : Fields(o.shapes[i]).overflow THEN {"overflow"}
    ELSE IF ~o.described THEN {"error"} ELSE {}

OperationStops(o) ==
    IF ~o.described THEN {"error"}
    ELSE IF \E i \in 1..2 : Fields(o.shapes[i]).overflow THEN {"overflow"} ELSE {}

Stops(e) ==
    IF ~e.described THEN {"error"}
    ELSE UNION {OperationStops(e.operations[o]) : o \in DOMAIN e.operations}

BuildAsFarAsItGets ==
    LET stopping == {i \in DOMAIN endpoints : Stops(endpoints[i]) # {}}
        at == IF stopping = {} THEN Len(endpoints) + 1
              ELSE CHOOSE i \in stopping : \A j \in stopping : i <= j
    IN  /\ ~once /\ once' = TRUE /\ first' = endpoints
        /\ documents' = [i \in 1..(at - 1) |-> Document(endpoints[i])]
        /\ down' \in IF stopping = {} THEN {FALSE} ELSE {stop = "overflow" : stop \in Stops(endpoints[at])}

Build ==
    LET stopping == {i \in DOMAIN endpoints : Stops(endpoints[i]) # {}}
        at == CHOOSE i \in stopping : \A j \in stopping : i <= j
    IN  /\ ~once /\ once' = TRUE /\ first' = endpoints
        /\ IF stopping = {}
           THEN /\ documents' = [i \in DOMAIN endpoints |-> Document(endpoints[i])]
                /\ UNCHANGED down
           ELSE /\ UNCHANGED documents
                /\ down' \in {stop = "overflow" : stop \in Stops(endpoints[at])}

\* Backend.Documents: whatever initDocuments returns, the answer is no error.
Ask ==
    /\ ~down /\ asked < MaxAsked
    /\ \/ Build
       \/ once /\ UNCHANGED <<once, documents, first, down>>
    /\ asked' = IF down' THEN asked ELSE asked + 1
    /\ UNCHANGED <<types, endpoints>>

\* The application changes the exported Endpoints: appends one, or mends one.
Change ==
    /\ ~down
    /\ \E i \in 1..MaxEndpoints, e \in Endpoints :
          /\ i <= Len(endpoints) + 1
          /\ endpoints' = [j \in DOMAIN endpoints \cup {i} |-> IF j = i THEN e ELSE endpoints[j]]
    /\ UNCHANGED <<types, once, documents, first, asked, down>>

Gone == down /\ UNCHANGED vars

Next == Ask \/ Change \/ Gone
Spec == Init /\ [][Next]_vars

-----------------------------------------------------------------------------
\* A field leads to a type if it names it behind slices and maps, and at most
\* one pointer, the innermost wrapping.
LeadsTo(f, s) ==
    f.base = s /\ \A j \in DOMAIN f.wrap : f.wrap[j] = "ptr" => j = Len(f.wrap)

\* From an endless struct fields lead on and on.
Endless(s) ==
    \E through \in SUBSET Structs :
        /\ s \in through
        /\ \A r \in through : \E q \in through, i \in DOMAIN types[r] : LeadsTo(types[r][i], q)

\* The description of a struct ends unless the struct leads back to itself or
\* to one that does, and the process survives its documents unless one of the
\* operations that have a description has such a type.
DocumentsEnd ==
    /\ \A s \in Structs : Described(types)[s].overflow <=> Endless(s)
    /\ down => \E i \in DOMAIN first : \E o \in DOMAIN first[i].operations, k \in 1..2 :
                 LET operation == first[i].operations[o]
                 IN  operation.described /\ IsStruct(operation.shapes[k]) /\ Endless(operation.shapes[k].base)

\* The documents of a field have the documents of the struct it leads to, and
\* say what kind it is; only a type behind a second pointer is not looked at.
FieldsDocumented ==
    \A s \in {r \in Structs : ~Endless(r)} : \A i \in DOMAIN types[s] :
        LET f == types[s][i]
            doc == Described(types)[s].fields[i]
        IN  /\ LeadsTo(f, f.base) <=> doc.kind \notin {"ptr", "slice", "map"}
            /\ doc.kind = "struct" <=> LeadsTo(f, f.base) /\ f.base \in Structs
            /\ doc.reference = IF doc.kind = "struct" THEN Described(types)[f.base].fields ELSE << >>

\* Documents describe every type that can be described, down to its last field.
TypesDescribed == DocumentsEnd /\ FieldsDocumented

\* A caller gets the documents of all operations of all endpoints there were at
\* the first call, or none: none if and only if a description was missing.
AllOrNothing ==
    LET wanting == \E i \in DOMAIN first :
            \/ ~first[i].described
            \/ \E o \in DOMAIN first[i].operations : ~first[i].operations[o].described
    IN  /\ asked > 0 => Len(documents) = IF wanting THEN 0 ELSE Len(first)
        /\ \A i \in DOMAIN documents :
              /\ DOMAIN documents[i] = DOMAIN first[i].operations
              /\ \A o \in DOMAIN documents[i], k \in 1..2 : ~documents[i][o][k].overflow
=============================================================================
