----------------------------- MODULE MCSandbox -----------------------------
(***************************************************************************)
(* A small repository for Sandbox: a module that may be in the root or in  *)
(* a package, its tests in the root, two contents.                         *)
(***************************************************************************)
EXTENDS Sandbox, TLC

Directories == {".", "lib"}

Subdirectories == [d \in Directories |-> IF d = "." THEN {"lib"} ELSE {}]

FilesUnder == [d \in Directories |-> IF d = "." THEN File ELSE {"lib/app.py"}]

\* The tests fit the module of the same version, old or new, wherever it is, and
\* do without it when it is in neither place.  Nothing configures pytest.
Compatible ==
  {t \in Tree : /\ t["test_app.py"] # Absent
                /\ {t["app.py"], t["lib/app.py"]} \subseteq {t["test_app.py"], Absent}}
=============================================================================
