------------------------------- MODULE MCBuilder -------------------------------
(* Small modules built through the LLVM-compatible calls.                   *)
EXTENDS CompatBuilder

MCFuncTypes == {"ft0", "ft1", "ft1b", "ft3"}
MCNumParams == [t \in MCFuncTypes |-> IF t = "ft0" THEN 0 ELSE IF t = "ft3" THEN 3 ELSE 1]
MCMaxCalls == [k \in Menus |-> CASE k = "blocks" -> 3 [] k = "phis" -> 4 [] k = "values" -> 3
                                 [] k = "names" -> 5 [] k = "globals" -> 3 [] k = "fold" -> 1]
(* a, a2: the second is also what the first gets when it is used again.     *)
MCLocalNames == { << "a" >>, << "a", "2" >> }
MCSymbolNames == { << "x" >>, << "x", "_data", ".", "1" >>, << "_VTable_" >> }
MCSharedNames == {"_VTable_"}
=============================================================================
