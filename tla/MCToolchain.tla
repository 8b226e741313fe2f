------------------------------ MODULE MCToolchain ------------------------------
(***************************************************************************)
(* The model of the build tools that TLC checks: the incremental build,    *)
(* the dependency graph, a compiled program, the promotion of a local, the *)
(* operand stack of the interpreter, or the ownership checks of a function *)
(* body, one of which is chosen in the first state.  They share no state.  *)
(***************************************************************************)
EXTENDS IncrementalBuild, DepGraph, VmControl, SsaPromotion, VmOperands, OwnershipCheck

CONSTANTS s1, s2, s3   \* the sources

VARIABLE part   \* the one that runs

toolVars == <<part, buildVars, graphVars, vmVars, ssaVars, opVars, ownVars>>

-----------------------------------------------------------------------------
(* Commands, sources and packages of the incremental build.                 *)

Build(inc, cleaned, level) == [cmd |-> "build", inc |-> inc, clean |-> cleaned, level |-> level]
CacheCommand(cmd) == [cmd |-> cmd, inc |-> FALSE, clean |-> FALSE, level |-> 0]

\* One source is wrong with or without the library, one needs it.
MCExternals == {"none", "lib"}
MCBadBuilds ==
    {[source |-> s3, external |-> e] : e \in MCExternals} \cup {[source |-> s2, external |-> "none"]}

MCCommands == {Build(TRUE, FALSE, 0), Build(FALSE, FALSE, 0), Build(TRUE, TRUE, 2),
               CacheCommand("gc")}

\* Graphs of three packages, with imports of one that is no node, and of four.
Over(nodes, edges) == {[nodes |-> nodes, edges |-> e] : e \in SUBSET edges}
MCGraphs ==
    Over(1 .. 3, {<<1, 1>>, <<1, 2>>, <<2, 1>>, <<1, 3>>, <<3, 1>>, <<2, 3>>, <<3, 2>>,
                  <<1, 4>>})
    \cup Over(1 .. 4, {<<1, 3>>, <<1, 2>>, <<3, 4>>, <<2, 4>>, <<4, 1>>})

-----------------------------------------------------------------------------
(* Programs.                                                                *)

Stmt(op) == [op |-> op]
Prints(n) == [op |-> "print", n |-> n]
Own(n) == [op |-> "own", n |-> n]
CallOf(f) == [op |-> "call", f |-> f]
ThrowOf(e) == [op |-> "throw", e |-> e]
If(a, b) == [op |-> "if", then |-> a, else |-> b]
While(b) == [op |-> "while", body |-> b]
Try(b, c, f) == [op |-> "try", body |-> b, catches |-> c, fin |-> f]
Clause(t, b) == [type |-> t, body |-> b]

Bodies ==
    {<<Prints(1)>>, <<ThrowOf("A")>>, <<Prints(1), ThrowOf("B")>>, <<CallOf(2), Prints(2)>>,
     <<Stmt("panic")>>, <<If(<<ThrowOf("A")>>, <<Prints(3)>>), Prints(4)>>,
     <<While(<<Prints(1), If(<<Stmt("break")>>, <<>>), CallOf(2)>>)>>,
     <<While(<<If(<<ThrowOf("A")>>, <<Stmt("continue")>>), Prints(2)>>)>>,
     <<CallOf(2), Stmt("return")>>}

Handlers ==
    {<<>>, <<Clause("A", <<Prints(5)>>)>>, <<Clause("A", <<Prints(5), Stmt("rethrow")>>)>>,
     <<Clause("B", <<Prints(6)>>), Clause("A", <<Stmt("return")>>)>>}

Tries == {Try(b, c, f) : b \in Bodies, c \in Handlers, f \in {<<>>, <<Prints(7)>>}}

\* A try in the body, in a catch clause or in the finally block of another, or in
\* a loop.  The lowering of a return inside a finally block does not end.
Nested ==
    {Try(<<t, Prints(11)>>, c, f) : t \in Tries, c \in {<<>>, <<Clause("A", <<Prints(12)>>)>>},
                                   f \in {<<>>, <<Prints(13)>>}}
    \cup {Try(<<ThrowOf("B")>>, <<Clause("B", <<t, Prints(14)>>)>>, <<>>) : t \in Tries}
    \cup {Try(<<CallOf(2)>>, <<Clause("A", <<>>)>>, <<t>>) :
             t \in {u \in Tries : "return" \notin Ops(<<u>>)}}
    \cup {While(<<t, Prints(15)>>) : t \in Tries}

Callees ==
    {<<Prints(20)>>, <<ThrowOf("A")>>, <<If(<<ThrowOf("B")>>, <<Stmt("return")>>), Prints(21)>>,
     <<Try(<<ThrowOf("A")>>, <<Clause("A", <<Prints(22)>>)>>, <<Prints(23)>>), ThrowOf("B")>>,
     <<Try(<<CallOf(3)>>, <<Clause("B", <<Prints(24)>>)>>, <<Prints(25)>>)>>}

\* Programs that own results of extern functions, which are dropped.
Owners ==
    {<<Own(1), If(<<Own(2), Prints(1)>>, <<Own(3)>>), While(<<Own(4), CallOf(2)>>), Own(5)>>,
     <<Own(1), Try(<<Own(2), CallOf(2)>>, <<Clause("A", <<Own(3)>>)>>, <<Own(4)>>), Own(5)>>}

MCCode ==
    {<<<<t, Prints(30)>>, c, <<If(<<ThrowOf("A")>>, <<Prints(26)>>)>>>> :
         t \in Tries \cup Nested, c \in Callees}
    \cup {<<o, <<Own(9), Prints(2)>>>> : o \in Owners}

APrinter ==
    <<<<Try(<<Prints(1)>>, <<>>, <<>>), Prints(30)>>, <<Prints(20)>>,
      <<If(<<ThrowOf("A")>>, <<Prints(26)>>)>>>>

MCInputs == {<<>>, <<TRUE>>, <<TRUE, FALSE, TRUE>>}

-----------------------------------------------------------------------------
(* Functions of four blocks: every graph with at most two ways out of a     *)
(* block and no edge to the entry, which goes to the first or to two.       *)

Ways == {SetToSortSeq(s, <) : s \in {x \in SUBSET (1 .. 3) : Cardinality(x) <= 2}}

MCFunctions ==
    {[succs |-> [b \in 0 .. 3 |-> w[b + 1]], storing |-> s] :
        w \in {<<1>>, <<1, 2>>, <<2, 3>>} \X Ways \X Ways \X Ways, s \in {{1}, {0, 1, 2}}}

AFunction == [succs |-> [b \in 0 .. 3 |-> IF b = 0 THEN <<1>> ELSE <<>>], storing |-> {1}]

-----------------------------------------------------------------------------
(* Function bodies: declarations, a statement with blocks, and uses of what  *)
(* it leaves.  a, b and c are structs with a field f that is moved and k,    *)
(* which is copied; n and i are numbers.                                     *)

Literal == [op |-> "new"]
NoValue == [op |-> "none"]
Id(x) == [op |-> "id", x |-> x]
FieldOf(x, f) == [op |-> "field", x |-> x, f |-> f]
Applied(e) == [op |-> "call", args |-> <<e>>]
Do(e) == [op |-> "expr", e |-> e]
Borrows(x) == Do([op |-> "borrow", x |-> x])
Releases(x) == Do([op |-> "release", x |-> x])
Awaits == Do([op |-> "await", of |-> Applied(Literal)])
Decl(x, e) == [op |-> "decl", x |-> x, e |-> e]
Assign(x, e) == [op |-> "assign", x |-> x, e |-> e]
SetField(x, f, e) == [op |-> "setfield", x |-> x, f |-> f, e |-> e]
Exit(op) == [op |-> op, e |-> Literal]
Choice(x, y) == [op |-> "if", c |-> Literal, then |-> x, else |-> y]
Loop(x) == [op |-> "while", c |-> Literal, body |-> x]
Counting(x, step) ==
    [op |-> "for", init |-> Decl("i", Literal), c |-> Id("i"), step |-> step, body |-> x]
Switch(x, y, default) ==
    [op |-> "switch", e |-> Literal, cases |-> <<x, y>>, default |-> default, other |-> x]

Beginnings ==
    {<<Decl("a", Literal), Decl("b", Literal), Decl("n", Literal)>>,
     <<Decl("a", NoValue), Decl("b", FieldOf("c", "k")), Decl("n", NoValue)>>,
     <<Decl("a", Literal), Decl("b", Literal), Decl("n", Literal), Borrows("n")>>}

Acts ==
    {<<>>, <<Awaits, Assign("a", Literal)>>, <<Do(Applied(Id("a")))>>, <<Assign("b", Id("a"))>>,
     <<Do(Applied(FieldOf("a", "f")))>>, <<Do(FieldOf("a", "k"))>>, <<Assign("n", Literal)>>,
     <<Borrows("a"), Do(Applied(Id("b")))>>, <<Releases("n"), Awaits>>, <<Do(Id("n"))>>,
     <<Choice(<<Exit("break")>>, <<>>), Assign("n", Literal)>>,
     <<Assign("n", Applied(Literal)), Exit("throw")>>,
     <<Assign("a", Applied(Literal)), Exit("return")>>}

Constructs ==
    {Choice(x, y) : x, y \in Acts} \cup {Loop(x) : x \in Acts}
    \cup {Counting(x, y) : x \in Acts, y \in {Do(Literal), Do(Id("n")), Assign("a", Literal)}}
    \cup {Switch(x, y, d) : x, y \in Acts, d \in BOOLEAN}
    \cup {Try(x, <<y>>, z) : x, y \in Acts, z \in {<<>>, <<Do(Applied(Id("a")))>>}}
    \cup {Try(x, <<>>, y) : x, y \in Acts}
    \cup {[op |-> "block", body |-> x] : x \in Acts}

Endings ==
    {<<Do(Applied(Id("a")))>>, <<Do(Id("n")), Awaits>>, <<Do(Applied(FieldOf("a", "f")))>>,
     <<Assign("a", Literal), SetField("a", "f", Literal), Assign("b", Id("a"))>>}

MCBodies ==
    {<<Decl("c", Literal)>> \o b \o <<s>> \o e : b \in Beginnings, s \in Constructs, e \in Endings}

-----------------------------------------------------------------------------

Parts == {"build", "graph", "code", "ssa", "stack", "types"}

\* A part that does not run is pinned to one initial state.
ToolInit ==
    /\ part \in Parts
    /\ part # "build" => args = CacheCommand("gc") /\ source = s1 /\ external = "none"
    /\ BuildInit
    /\ part # "graph" => graph = [nodes |-> 1 .. 3, edges |-> {}] /\ phase = "detect"
    /\ GraphInit
    /\ part # "code" => program = APrinter /\ input = <<>>
    /\ VmInit
    /\ part # "ssa" => func = AFunction
    /\ SsaInit
    /\ part # "stack" => host = "none"
    /\ OperandsInit
    /\ IF part = "types" THEN OwnInit ELSE body = <<>> /\ next = 1 /\ env = NewEnv /\ store = NewRun

BuildPart == part = "build" /\ UNCHANGED <<part, graphVars, vmVars, ssaVars, opVars, ownVars>>
GraphPart == part = "graph" /\ UNCHANGED <<part, buildVars, vmVars, ssaVars, opVars, ownVars>>
CodePart == part = "code" /\ UNCHANGED <<part, buildVars, graphVars, ssaVars, opVars, ownVars>>
SsaPart == part = "ssa" /\ UNCHANGED <<part, buildVars, graphVars, vmVars, opVars, ownVars>>
StackPart == part = "stack" /\ UNCHANGED <<part, buildVars, graphVars, vmVars, ssaVars, ownVars>>
TypesPart == part = "types" /\ UNCHANGED <<part, buildVars, graphVars, vmVars, ssaVars, opVars>>

\* An edit, a new command line or a change of the packages, never two of them.
OneChange == changes' + installs' > 0

ToolNext ==
    \/ BuildPart /\ BuildNext /\ OneChange
    \/ GraphPart /\ GraphNext
    \/ CodePart /\ VmNext
    \/ SsaPart /\ SsaNext
    \/ StackPart /\ OperandsNext
    \/ TypesPart /\ OwnNext

ToolSpec == ToolInit /\ [][ToolNext]_toolVars

=============================================================================
