------------------------------- MODULE GnmiPaths -------------------------------
(****************************************************************************)
(* Paths of the gNMI adapter: the conversions of confd_gnmi_common.py       *)
(* between gNMI paths and strings, and the path that the API adapter        *)
(* (confd_gnmi_api_adapter.py) makes of a keypath of ConfD.                 *)
(*                                                                          *)
(* A gNMI path is a sequence of elements with a name and keys, which are    *)
(* pairs of a name and a value.  A string is a sequence of tokens: names,   *)
(* and the characters / [ = ] and the quotation mark.  A value is a sequence*)
(* of tokens, since it may contain any character.                           *)
(****************************************************************************)
EXTENDS Naturals, Sequences, SequencesExt

Elem(name, keys) == [name |-> name, keys |-> keys]

Join(strings) == FlattenSeq(strings)

\* str.split: what is between the separators.
Split(s, sep) ==
    FoldLeft(LAMBDA acc, c : IF c = sep THEN Append(acc, <<>>)
                                        ELSE Append(Front(acc), Append(Last(acc), c)),
             <<<<>>>>, s)

Without(s, c) == SelectSeq(s, LAMBDA d : d # c)

\* Variant: the bracket stays.
KeyWithBracket(k) == LET kv == Split(k, "=") IN <<kv[1], kv[2]>>

\* A key of make_name_keys: k.replace("]", '').split('=')
NameAndValue(k) == LET kv == Split(Without(k, "]"), "=") IN <<kv[1], kv[2]>>

\* make_name_keys; [k=v] is cut at every [ and =.
MakeNameKeys(s) ==
    LET ks == Split(s, "[")
        given == SelectSeq(Tail(ks), LAMBDA k : k # <<>>)
    IN  Elem(ks[1], [i \in DOMAIN given |-> NameAndValue(given[i])])

\* There is an equals sign in every key, or make_name_keys raises an IndexError.
KeysSplit(s) == \A k \in ToSet(Tail(Split(s, "["))) : k # <<>> => Contains(k, "=")

\* make_gnmi_path
MakeGnmiPath(s) ==
    LET elems == SelectSeq(Split(s, "/"), LAMBDA e : e # <<>>)
    IN  [i \in DOMAIN elems |-> MakeNameKeys(elems[i])]

\* _make_string_path, for an xpath; quote: quote_val.
KeyString(kv, quote) ==
    <<"[">> \o kv[1] \o <<"=">>
            \o (IF quote THEN <<"\"">> \o kv[2] \o <<"\"">> ELSE kv[2]) \o <<"]">>

ElemString(e, quote) ==
    <<"/">> \o e.name \o Join([i \in DOMAIN e.keys |-> KeyString(e.keys[i], quote)])

PathString(path, quote) ==
    IF path = <<>> THEN <<"/">> ELSE Join([i \in DOMAIN path |-> ElemString(path[i], quote)])

\* make_xpath_path
MakeXPath(path, prefix, quote) ==
    (IF prefix = <<>> THEN <<>> ELSE PathString(prefix, quote)) \o PathString(path, quote)

\* add_path_prefix
AddPrefix(path, prefix) == prefix \o path

\* The assertion of remove_path_prefix.
HasPrefix(path, prefix) == IsPrefix(prefix, path)

RemovePrefix(path, prefix) == SubSeq(path, Len(prefix) + 1, Len(path))

\* keypath[i].ns != ns
NsChanges(node, module, i) == i = 1 \/ module[node[i]] # module[node[i - 1]]

\* make_gnmi_keypath_elems, of a node without list keys: a name has the name of
\* its module if that is another one than before.
KeypathElems(node, module) ==
    [i \in DOMAIN node |->
        IF NsChanges(node, module, i) THEN <<module[node[i]], node[i]>> ELSE <<node[i]>>]

----------------------------------------------------------------------------

\* Values in which the conversions find no character of their own.
Plain(path) ==
    \A k \in DOMAIN path : \A kv \in ToSet(path[k].keys) :
        ToSet(kv[2]) \cap {"/", "[", "=", "]"} = {}

\* make_gnmi_path can be called.
Splits(s) == \A e \in ToSet(Split(s, "/")) : e # <<>> => KeysSplit(e)

\* A path is the same again after make_xpath_path and make_gnmi_path exactly if the
\* values of its keys are plain.
RoundTrip(path) ==
    LET s == MakeXPath(path, <<>>, FALSE)
    IN  Plain(path) <=> (Splits(s) /\ MakeGnmiPath(s) = path)

\* make_xpath_path with a prefix is the path with the prefix added, unless there is
\* nothing after the prefix: /a/ is then not /a.
PrefixJoins(path, prefix, quote) ==
    (MakeXPath(path, prefix, quote) = MakeXPath(AddPrefix(path, prefix), <<>>, quote))
      <=> (path # <<>> \/ prefix = <<>>)

===============================================================================
