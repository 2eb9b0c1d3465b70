---------------------------- MODULE MCAlgorithms ----------------------------
(***************************************************************************)
(* The algorithms on chosen inputs.                                        *)
(***************************************************************************)
EXTENDS Algorithms, FiniteSetsExt, TLC

CONSTANT Pixel      \* the values of a pixel

TheTokens == -12 .. MaxInt

------------------------------------------------------------------------------
(* Images of a single pixel, a square, a row and a column, in two places *)

Bounds(corner, size) ==
    (corner .. corner + size[1] - 1) \X (corner .. corner + size[2] - 1)

TheImages == UNION {
    {[minX |-> corner, minY |-> corner, width |-> size[1], height |-> size[2], pix |-> pix] :
        pix \in [Bounds(corner, size) -> Pixel]} :
    corner \in {0, 2}, size \in {<<1, 1>>, <<2, 2>>, <<4, 1>>, <<1, 4>>}}

\* Kernels of the two smallest radii, and none.
TheKernels == Kernels(0 .. 2, {2}) \cup {<<1, 2, 3, 4, 3, 2, 1>>, <<>>}

------------------------------------------------------------------------------
(* Types of configurations, and environments *)

Cap(a) == <<Upper(a), Lower(a)>>

Field(path, kind, default, optional, exported) ==
    [path |-> path, kind |-> kind, default |-> default, optional |-> optional, exported |-> exported]

\* lab-1's Config; a struct in a struct whose key meets that of another field;
\* kinds of every sort, required, optional and not supported.
TheTypes == {
    [env |-> 1, fields |-> <<
        Field(<<Cap("a")>>, "string", "dev", FALSE, TRUE),
        Field(<<Cap("b")>>, "string", "1h", FALSE, TRUE),
        Field(<<Cap("a") \o Cap("b")>>, "int", "300", FALSE, TRUE)>>],
    [env |-> 0, fields |-> <<
        Field(<<Cap("a"), Cap("b")>>, "int32", "7", FALSE, TRUE),
        Field(<<Cap("a"), <<Lower("a")>>>>, "int", "", FALSE, FALSE),
        Field(<<Cap("a")>>, "duration", "", TRUE, TRUE),
        Field(<<Cap("a") \o Cap("b")>>, "string", "", FALSE, TRUE)>>],
    [env |-> 0, fields |-> <<
        Field(<<Cap("b")>>, "bool", "0", FALSE, TRUE),
        Field(<<Cap("b"), Cap("a")>>, "float", "", FALSE, TRUE),
        Field(<<Cap("a")>>, "unsupported", "", TRUE, TRUE)>>]}

Variables == {FormatKey(buildKey(f.path)) : f \in UNION {ToSet(t.fields) : t \in TheTypes}}

Texts == {"", "0", "7", "300", "dev", "1h"}

\* At most three variables are set.
TheEnvironments == UNION {[vs -> Texts] : vs \in UNION {kSubset(n, Variables) : n \in 0 .. 3}}

TheWords == {Cap("a"), <<Upper("b")>>, <<Upper("a"), Upper("b")>>, Cap("b") \o <<Lower("1")>>}

Numerals == "0" :> 0 @@ "1" :> 1 @@ "7" :> 7 @@ "300" :> 300
==============================================================================
