--------------------------- MODULE MCSharedReads ---------------------------
(* A small instance of SharedReads for TLC: two components read a work's     *)
(* page while its files are refreshed twice and its tags are written.        *)
EXTENDS SharedReads, TLC

CONSTANTS c1, c2, m1, m2, m3

Page == Of("work", 1)
Refresh == Of("local-files", 1)
Tag == Of("work-tags", 1)

Works == {1}
Paths == {Page}
Mutations == {Refresh, Tag}

Reads == (c1 :> Page) @@ (c2 :> Page)
Writes == (m1 :> Refresh) @@ (m2 :> Refresh) @@ (m3 :> Tag)

\* A mutation changes all that its resources name.
AllForgotten == Forgotten

Once(o) == [x \in Occasion |-> IF x = o THEN 1 ELSE 0]
OneEach == {Once(o) : o \in Occasion}
=============================================================================
