------------------------ MODULE MCModuleResolution ------------------------
(* The instance of ModuleResolution that TLC checks.                       *)
EXTENDS ModuleResolution

CONSTANTS a, b, c, native

Text(requires, size) == [requires |-> requires, size |-> size]

\* In the first place searched only b may lie, in the second a, b and c; a file of size 3 is
\* over FileLimit. native is a library, and no file.
MCDisks ==
    {<<[m \in Modules |-> IF m = b THEN b1 ELSE None],
       [m \in Modules |-> CASE m = a -> a2 [] m = b -> b2 [] m = c -> c2 [] OTHER -> None]>> :
        b1 \in {None, Text(<<a>>, 1), Text(<<>>, 3)},
        a2 \in {None, Text(<<native, a>>, 1)} \cup {Text(r, 1) : r \in {<<b>>, <<c>>, <<b, c>>, <<c, b>>}},
        b2 \in {None, Text(<<>>, 1), Text(<<a>>, 1), Text(<<c>>, 1), Text(<<c>>, 2)},
        c2 \in {None, Text(<<>>, 1), Text(<<a>>, 1), Text(<<b>>, 1), Text(<<>>, 2), Text(<<>>, 3)}}

\* Of b, also in the first place, an unsaved text may be open in the editor.
MCDocs ==
    {<<[m \in Modules |-> None], [m \in Modules |-> None]>>}
      \cup {<<[m \in Modules |-> IF m = b THEN t ELSE None], [m \in Modules |-> None]>> :
               t \in {Text(<<c>>, 1), Text(<<a, c>>, 3)}}

MCAsks == {<<a>>, <<b, a>>, <<a, c, native>>}
=============================================================================
