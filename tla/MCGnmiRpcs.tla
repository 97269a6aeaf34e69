------------------------------- MODULE MCGnmiRpcs -------------------------------
(* Instance of GnmiRpcs for TLC.                                              *)
EXTENDS GnmiRpcs

\* A container i of module m with a leaf x and state s, and in it a container c of
\* module n with a leaf x.
MCLeaves == {<<"i", "x">>, <<"i", "c", "x">>}
MCStateLeaves == {<<"i", "s">>}
MCContainers == {<<"i">>, <<"i", "c">>}
MCModule == [n \in {"i", "x", "s", "c"} |-> IF n = "c" THEN "n" ELSE "m"]

Leaf(v) == [is |-> "leaf", val |-> v]
Object(items) == [is |-> "object", items |-> items]

MCGet(paths, type, prefix, encoding) ==
    [op |-> "get", paths |-> paths, type |-> type, prefix |-> prefix, encoding |-> encoding]

MCSet(updates, deletes) == [op |-> "set", updates |-> updates, deletes |-> deletes]

MCUpdate(path, val, encoding) == [path |-> path, val |-> val, encoding |-> encoding]

Inner(v) == <<"c", Object(<<<<"x", Leaf(v)>>>>)>>

CONSTANTS v1, v2

\* The whole container in one object: the inner container last, or first.
Whole(v, w) == Object(<< <<"x", Leaf(v)>>, Inner(w) >>)
Swapped(v, w) == Object(<< Inner(w), <<"x", Leaf(v)>> >>)

\* Nothing exists, or all leaves have the same value.
MCInitially == {[n \in All |-> v] : v \in {None} \cup Vals}

MCJson ==
    LET leaves == {Leaf(v1), Leaf(v2)}
        objects == {Whole(v1, v2), Swapped(v2, v1)}
    IN  leaves \cup objects \cup {Inner(v)[2] : v \in {v1, v2}}

MCRequests ==
    { [op |-> "caps"],
      MCGet(<<<<"i", "x">>, <<"i">>>>, "ALL", <<>>, "JSON"),
      MCGet(<<<<"i", "c">>, <<"i", "s">>>>, "STATE", <<<<"m", "i">>>>, "JSON_IETF"),
      MCGet(<<<<"i">>>>, "CONFIG", <<<<"i">>>>, "JSON_IETF"),
      MCGet(<<<<"i">>>>, "ALL", <<>>, "PROTO"),
      MCSet(<<MCUpdate(<<"i">>, Whole(v1, v2), "JSON_IETF")>>, <<<<"i", "c", "x">>>>),
      MCSet(<<MCUpdate(<<"i">>, Swapped(v2, v1), "JSON_IETF")>>, <<>>),
      MCSet(<<MCUpdate(<<"i", "x">>, Leaf(v1), "JSON_IETF"), MCUpdate(<<"i", "c", "x">>, Leaf(v2), "JSON")>>, <<>>),
      MCSet(<<MCUpdate(<<"i", "c", "x">>, Leaf(v2), "JSON_IETF"), MCUpdate(<<"i", "x">>, Leaf(v2), "PROTO")>>, <<>>),
      MCSet(<<>>, <<<<"i", "x">>, <<"i", "c", "x">>>>) }

\* Elements with up to two keys, one of whose values may have any character.
MCValues == {<<"v">>} \cup {<<"v", c, "w">> : c \in {"/", "[", "=", "]", "\""}}
MCElems ==
    {Elem(<<"a">>, <<>>)} \cup {Elem(<<"b">>, <<<<<<"k">>, v>>>>) : v \in MCValues}
      \cup {Elem(<<"b">>, <<<<<<"k">>, <<"v">>>>, <<<<"l">>, v>>>>) : v \in MCValues}
MCPaths == {<<>>} \cup {<<e>> : e \in MCElems} \cup {<<Elem(<<"a">>, <<>>), e>> : e \in MCElems}
================================================================================
