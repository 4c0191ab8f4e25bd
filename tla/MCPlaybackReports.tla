------------------------- MODULE MCPlaybackReports -------------------------
(* Small instances of PlaybackReports for TLC: the tabs of one browser. *)
EXTENDS PlaybackReports, TLC

CONSTANTS t1, t2, s1, s2, w1, w2, family, other

Symmetry == Permutations(Tab) \union Permutations(Session) \union Permutations(Work)

\* Two editions of one work.
Editions == w1 :> family @@ w2 :> family
\* Two works.
Works == w1 :> family @@ w2 :> other

Times(once, twice) ==
    [o \in Occasion |-> CASE o \in once -> 1 [] o \in twice -> 2 [] OTHER -> 0]

\* The history is cleared while two seconds are measured; or checkpoints of
\* both editions are reported while a report fails or is refused; or a second is
\* reported by a request that fails or is refused; or another device reports; or
\* a tab closes with either kind.
TabBudgets ==
    {Times({"clear"}, {"listen"}), Times({"fail"}, {"checkpoint"}), Times({"refuse"}, {"checkpoint"}),
     Times({"fail", "listen"}, {}), Times({"refuse", "listen"}, {}),
     Times({"elsewhere", "checkpoint"}, {}), Times({"close", "checkpoint"}, {}), Times({"close", "listen"}, {})}

\* The server does not know the second work.
DrainBudgets ==
    {Times({"listen", "clear"}, {}), Times({"clear", "fail"}, {}), Times({"listen", "fail"}, {}),
     Times({}, {"checkpoint"}), Times({"refuse", "listen"}, {}), Times({"refuse", "checkpoint"}, {})}
=============================================================================
