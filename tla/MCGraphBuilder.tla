--------------------------- MODULE MCGraphBuilder ---------------------------
(***************************************************************************)
(* Small repositories for GraphBuilder: which files they have and the      *)
(* working trees they go through.                                          *)
(***************************************************************************)
EXTENDS GraphBuilder, TLC

Symmetry == Permutations(Builder)

Class(name, bases) == [name |-> name, base_classes |-> bases]

Parsed(classes, functions, imports) ==
  [classes |-> classes, functions |-> functions, imports |-> imports]

Function(parent, name) == [parent_class |-> parent, name |-> name]

Names == {"Base", "Sub", "f", "g"}

-----------------------------------------------------------------------------
(* A Python package: a module at the root, one two folders down that       *)
(* imports it and inherits from it, and a later version of each.           *)

main == <<"main">>
deep == <<"pkg", "sub", "deep">>

PackageFiles == {main, deep}

\* A dotted import is tried as a module and as a name inside a module.
PackageCandidates ==
  [i \in PackageFiles \X {"main.Base", "os"} |->
     IF i[2] = "os" THEN <<<<"os">>>> ELSE <<<<"main", "Base">>, main>>]

Package ==
  [f \in PackageFiles |->
     IF f = main
     THEN Parsed(<<Class("Base", {})>>, {Function("Base", "f"), Function(None, "g")}, {"os"})
     ELSE Parsed(<<Class("Sub", {"Base"})>>, {Function("Sub", "f")}, {"main.Base"})]

\* The base class moves next to its subclass and main has another import.
Moved ==
  [Package EXCEPT
     ![main] = Parsed(<<>>, {Function("Base", "f")}, {"main.Base"}),
     ![deep] = Parsed(<<Class("Base", {}), Class("Sub", {"Base", "Sub"})>>, {}, {})]

PackageTrees == {Package, Moved, [Package EXCEPT ![main] = Absent]}

\* A second class of the same name appears: the base is ambiguous.
AmbiguousTrees ==
  {Package, [Package EXCEPT ![deep].classes = <<Class("Base", {}), Class("Sub", {"Base"})>>]}

\* A class that its file defines twice.
Twice == [Moved EXCEPT ![deep].classes = @ \o <<Class("Base", {"Sub"})>>]

AllTrees == PackageTrees \cup AmbiguousTrees \cup {Twice}
=============================================================================
