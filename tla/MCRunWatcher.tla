--------------------------- MODULE MCRunWatcher ----------------------------
(* A small instance of RunWatcher for TLC: one part of the page that keeps   *)
(* the run current, one that only shows it.                                  *)
EXTENDS RunWatcher

CONSTANTS show, keep, f1, f2

Bounds(fail, deny, retry, forget) ==
    [o \in Occasion |-> CASE o = "fail" -> fail [] o = "deny" -> deny
                          [] o = "retry" -> retry [] o = "forget" -> forget]

\* Two failures; an account that loses the run and gets it back; a retry; a
\* session that ends.
WatcherBudgets ==
    {Bounds(2, 0, 0, 0), Bounds(0, 2, 0, 0), Bounds(0, 0, 1, 0), Bounds(0, 0, 0, 1)}
=============================================================================
