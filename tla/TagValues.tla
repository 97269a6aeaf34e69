------------------------------- MODULE TagValues -------------------------------
(****************************************************************************)
(* How the modifications of a transaction become XML: get_value and         *)
(* process_modifications of the NETCONF synchronizer                        *)
(* (confd-sync-py/app/cdbl-sync-nc.py) and of the modification subscriber   *)
(* (confd-and-docker/debian-py-confd/app/modif-subscriber.py).              *)
(*                                                                          *)
(* A modification is a tag with a value; cdb.get_modifications returns a    *)
(* list of them in which containers and list entries are nested.  A line of *)
(* the text is a record of what is written and for which tag.               *)
(****************************************************************************)
EXTENDS Naturals, Sequences, SequencesExt

Begins == {"begin", "begindel"}

\* A list of modifications: C_XMLBEGIN, C_XMLBEGINDEL and C_XMLEND are nested;
\* the others are C_NOEXISTS, C_XMLTAG, C_LIST and leaf values.
Nested(tvs) ==
    FoldLeft(LAMBDA open, tv :
               CASE tv.type \in Begins -> Append(open, tv.tag)
                 [] tv.type = "end" -> IF open # <<>> /\ Last(open) = tv.tag
                                         THEN Front(open) ELSE <<"wrong">> \o open
                 [] OTHER -> open,
             <<>>, tvs) = <<>>

\* What is written for a tag.
Line(tv) ==
    [what |-> CASE tv.type \in Begins \cup {"noexists"} -> "start"
                [] tv.type = "end" -> "end"
                [] tv.type = "tag" -> "empty"
                [] OTHER -> "whole",
     tag |-> tv.tag]

\* Variant: stays in the path of a container that has ended.
PathStays(path) == path

\* current_path without what follows its last slash.
PathUp(path) == IF path = <<>> THEN <<>> ELSE Front(path)

\* get_value of the synchronizer.  The values of a leaf-list are written one by
\* one (two here).  asked are the paths that val2str is given.
GetValue(acc, tv) ==
    [text |-> acc.text \o (IF tv.type = "list" THEN <<Line(tv), Line(tv)>> ELSE <<Line(tv)>>),
     path |-> CASE tv.type \in Begins -> Append(acc.path, tv.tag)
                [] tv.type = "end" -> PathUp(acc.path)
                [] OTHER -> acc.path,
     asked |-> IF tv.type \in {"list", "leaf"}
                 THEN Append(acc.asked, Append(acc.path, tv.tag))
                 ELSE acc.asked]

\* process_modifications of the synchronizer.
ProcessModifications(tvs) ==
    FoldLeft(GetValue, [text |-> <<>>, path |-> <<>>, asked |-> <<>>], tvs)

\* get_value and process_modifications of the modification subscriber.
ModificationsRead(tvs) == [i \in DOMAIN tvs |-> Line(tvs[i])]

----------------------------------------------------------------------------
(* References to compare with.                                              *)

\* The text is well-formed XML: every element that starts ends, in order.
WellFormed(text) ==
    FoldLeft(LAMBDA open, l :
               CASE l.what = "start" -> Append(open, l.tag)
                 [] l.what = "end" -> IF open # <<>> /\ Last(open) = l.tag
                                        THEN Front(open) ELSE <<"wrong">> \o open
                 [] OTHER -> open,
             <<>>, text) = <<>>

\* The containers that modification i is in: those before it that have not ended.
Around(tvs, i) ==
    LET count(j, k, types) == Len(SelectSeq(SubSeq(tvs, j, k), LAMBDA tv : tv.type \in types))
        open == {j \in 1..(i - 1) : /\ tvs[j].type \in Begins
                                    /\ \A k \in j..(i - 1) :
                                         count(j, k, {"end"}) < count(j, k, Begins)}
    IN  [n \in 1..Len(SetToSortSeq(open, <)) |-> tvs[SetToSortSeq(open, <)[n]].tag]

HasLeafDeletion(tvs) == \E i \in DOMAIN tvs : tvs[i].type = "noexists"

\* The path of every value that is written.
ValuePaths(tvs) ==
    LET valued == {i \in DOMAIN tvs : tvs[i].type \in {"list", "leaf"}}
        order == SetToSortSeq(valued, <)
    IN  [n \in DOMAIN order |-> Append(Around(tvs, order[n]), tvs[order[n]].tag)]
===============================================================================
