--------------------------- MODULE MCModuleLoader ---------------------------
(* a and b import each other, a by way of a redirected URL r; b and c know   *)
(* the declarations in d, and e declares otherwise; e and a cell of the REPL *)
(* import modules of their graph, and x imports d as if it could be run.     *)
EXTENDS ModuleLoader

Run(m) == [url |-> m, runtime |-> TRUE]
Type(m) == [url |-> m, runtime |-> FALSE]

MCImports ==
    [m \in Modules |-> CASE m = "a" -> <<Run("r")>> [] m = "b" -> <<Run("a"), Type("d")>>
                         [] m = "c" -> <<Type("d")>> [] m = "x" -> <<Run("d")>>
                         [] m = "cell" -> <<Run("c"), Run("r")>> [] OTHER -> <<>>]
MCRedirect == [m \in Modules |-> IF m = "r" THEN "b" ELSE m]
MCClashes == {{"d", "e"}}
=============================================================================
