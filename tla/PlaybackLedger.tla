--------------------------- MODULE PlaybackLedger ---------------------------
(***************************************************************************)
(* What an account is promised about its listening record, whichever tabs  *)
(* report it, however often a report is sent, lost or answered late:       *)
(* listened time is credited once, only time that was listened and only    *)
(* under the history generation it belongs to; a work's resume cursor only *)
(* moves to a later checkpoint, and only to one that somebody took.        *)
(* PlaybackReports implements it.                                          *)
(***************************************************************************)
EXTENDS Integers, FiniteSets

CONSTANTS
    Session,        \* listening sessions of this browser
    Family          \* unified works, each a family of editions

VARIABLES
    generation,     \* how often the history was cleared
    tag,            \* the generation each session is measured under
    heard,          \* seconds measured in each session
    credited,       \* seconds of each session in the record
    taken,          \* checkpoints this browser took
    cursor          \* the resume checkpoint of each family

vars == <<generation, tag, heard, credited, taken, cursor>>

\* Checkpoints are ordered by their order; the report id decides a tie.
Later(a, b) == a.order > b.order \/ (a.order = b.order /\ a.id > b.id)

Ours == 1

-----------------------------------------------------------------------------
Init ==
    /\ generation = 0
    /\ heard = [s \in Session |-> 0]
    /\ credited = [s \in Session |-> 0]
    /\ taken = {}
    /\ cursor = [f \in Family |-> [order |-> 0, id |-> 0]]

\* A second passes in a session; a session starts under a generation at most
\* as new as the record's.
Measure(s) ==
    /\ heard' = [heard EXCEPT ![s] = @ + 1]
    /\ heard[s] = 0 => tag'[s] <= generation
    /\ \A r \in Session : (r # s \/ heard[s] > 0) => tag'[r] = tag[r]
    /\ UNCHANGED <<generation, credited, taken, cursor>>

\* The browser gives a checkpoint of a family its order.
Take ==
    /\ \E c \in taken' \ taken : c[1] \in Family /\ taken' = taken \union {c}
    /\ UNCHANGED <<generation, tag, heard, credited, cursor>>

\* A report arrives: any part of what was measured and taken becomes known.
Record ==
    /\ \A s \in Session :
          credited'[s] = credited[s]
            \/ (tag[s] = generation /\ credited[s] < credited'[s] /\ credited'[s] <= heard[s])
    /\ \A f \in Family :
          cursor'[f] = cursor[f]
            \/ (Later(cursor'[f], cursor[f]) /\ cursor'[f].id = Ours
                  /\ <<f, cursor'[f].order>> \in taken)
    /\ UNCHANGED <<generation, tag, heard, taken>>

\* Another device reports a checkpoint.
RecordElsewhere(f) ==
    /\ Later(cursor'[f], cursor[f])
    /\ \A g \in Family \ {f} : cursor'[g] = cursor[g]
    /\ UNCHANGED <<generation, tag, heard, credited, taken>>

\* The listener clears the history.
Clear ==
    /\ generation' = generation + 1
    /\ credited' = [s \in Session |-> 0]
    /\ UNCHANGED <<tag, heard, taken, cursor>>

Next ==
    \/ \E s \in Session : Measure(s)
    \/ Take
    \/ Record
    \/ \E f \in Family : RecordElsewhere(f)
    \/ Clear

Spec == Init /\ [][Next]_vars
=============================================================================
