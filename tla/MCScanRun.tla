------------------------------ MODULE MCScanRun ------------------------------
(* A project of three files for TLC: file a imports module b, and b imports    *)
(* module c and an item of a.  The second version of b is critical, the second *)
(* of c does not parse, the first of c matches an ignore pattern.              *)
EXTENDS ScanRun

CONSTANTS a, b, c

ThreeFiles == {a, b, c}

ThreeImports ==
    [f \in ThreeFiles |->
        CASE f = a -> {<<b, "module">>}
          [] f = b -> {<<c, "module">>, <<a, "item">>}
          [] f = c -> {}]

CriticalContent == {<<b, 2>>}

UnparsableContent == {<<c, 2>>}

IgnoredContent == {<<c, 1>>}
=============================================================================
