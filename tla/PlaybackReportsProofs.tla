------------------------ MODULE PlaybackReportsProofs ------------------------
(***************************************************************************)
(* Playback reports for any number of tabs, works, sessions and clears:    *)
(* the account's record implements PlaybackLedger, and nothing is lost,    *)
(* brought back or announced too early.                                    *)
(*                                                                         *)
(* Whatever is on its way (in a chain of writes, in a report, in an        *)
(* answer) was measured or taken before, and an answer says of the record  *)
(* what stays true of it.  The sets below hold what may be on its way;     *)
(* they only grow, except for a tab that closes.                           *)
(***************************************************************************)
EXTENDS PlaybackReports, TLAPS, SequenceTheorems, FiniteSetTheorems, WellFoundedInduction

-----------------------------------------------------------------------------
(* What may be on its way. *)

ProgressAck == [work : Work, order : Nat, status : Settled \union {"not_found"}]
HistoryAck == [session : Session, seconds : Nat,
               status : Settled \union {"not_found", "history_cleared"}]

\* Checkpoints that got an order.
TakenCheckpoints == {p \in SentProgress : <<FamilyOf[p.work], p.order>> \in taken}

\* Totals that were measured.
MeasuredTotals == {h \in SentHistory : 1 <= h.seconds /\ h.seconds <= heard[h.session]}

\* A settled checkpoint is not later than the cursor.
ProgressAcks ==
    {a \in ProgressAck :
       /\ <<FamilyOf[a.work], a.order>> \in taken
       /\ a.status \in Settled => ~Later(Checkpoint(a), cursor[FamilyOf[a.work]])}

\* A settled total of the record's generation is in the record; a cleared
\* session is of another generation.
HistoryAcks ==
    {a \in HistoryAck :
       /\ 1 <= a.seconds /\ a.seconds <= heard[a.session]
       /\ a.status \in Settled /\ tag[a.session] = generation => credited[a.session] >= a.seconds
       /\ a.status = "history_cleared" => tag[a.session] # generation}

-----------------------------------------------------------------------------
(* The invariant. *)

\* The record: a session began under the generation it is measured under or a
\* later one, and only sessions of the present generation are credited.
RecordOK ==
    /\ generation \in Nat
    /\ credited \in [Session -> Nat]
    /\ heard \in [Session -> Nat]
    /\ tag \in [Session -> Generation]
    /\ born \in [Session -> Generation]
    /\ cursor \in [Family -> [order : Nat, id : Nat]]
    /\ \A s \in Session :
          /\ tag[s] <= born[s]
          /\ born[s] <= generation
          /\ credited[s] <= heard[s]
          /\ credited[s] > 0 => tag[s] = generation

\* Every order is given once.
TakenOK ==
    /\ taken \subseteq Family \X Nat
    /\ \A c \in taken : 1 <= c[2] /\ c[2] <= outbox.order
    /\ \A c, d \in taken : c[2] = d[2] => c = d

\* The outbox: its checkpoints are taken, its totals measured, one of a session
\* and all of the outbox's generation.
GoodOutboxes ==
    {o \in [generation : Generation, order : Nat,
            progress : SUBSET ProgressEntry, history : SUBSET HistoryEntry] :
       /\ o.generation <= generation
       /\ \A e \in o.progress : <<FamilyOf[e.work], e.order>> \in taken
       /\ \A e \in o.history : /\ 1 <= e.seconds /\ e.seconds <= heard[e.session]
                               /\ tag[e.session] = o.generation
       /\ \A e, x \in o.history : e.session = x.session => e = x}

OutboxOK == outbox \in GoodOutboxes

\* The tabs: none is ahead of the record, or trusts a generation from before
\* the last clear it heard of.
TabType == [phase : {"closed", "starting", "ready"}, epoch : Nat,
            generation : Generation, verified : BOOLEAN,
            lookup : {"idle", "pending", "waiting", "blocked"}, inFlight : BOOLEAN]

TabOK ==
    /\ tab \in [Tab -> TabType]
    /\ knownClear \in [Tab -> Nat]
    /\ \A t \in Tab :
          /\ tab[t].generation <= generation
          /\ knownClear[t] <= generation
          /\ tab[t].verified => tab[t].generation >= knownClear[t]

\* A generation that was read for a tab in its epoch e: in the present epoch it
\* has seen the last clear the tab heard of.
Dated(t, e, g) ==
    /\ e <= tab[t].epoch
    /\ g <= generation
    /\ e = tab[t].epoch => g >= knownClear[t]

\* The chains of writes.
PlainWrites == [op : {"initialize", "clear", "retry"}] \union [op : {"progress"}, work : Work]
RefuseWrites == [op : {"refuse"}, progress : SUBSET SentProgress, history : SUBSET SentHistory]
HistoryWrites ==
    {w \in [op : {"history"}, session : Session, seconds : Nat] :
       1 <= w.seconds /\ w.seconds <= heard[w.session]}
VerifyWrites(t) ==
    {w \in [op : {"verify"}, epoch : Nat, generation : Nat] : Dated(t, w.epoch, w.generation)}
FlushWrites(t) == {w \in [op : {"flush"}, epoch : Nat] : w.epoch <= tab[t].epoch}
AcknowledgeWrites(t) ==
    {w \in [op : {"acknowledge"}, epoch : Nat, generation : Nat,
            progress : SUBSET ProgressAcks, history : SUBSET HistoryAcks] :
       Dated(t, w.epoch, w.generation)}

GoodWrites(t) ==
    PlainWrites \union RefuseWrites \union HistoryWrites
      \union VerifyWrites(t) \union FlushWrites(t) \union AcknowledgeWrites(t)

WritesOK ==
    /\ writes = [t \in Tab |-> writes[t]]
    /\ \A t \in Tab : writes[t] \in Seq(GoodWrites(t))

\* Reports, and their answers.
Answers ==
    [generation : Nat, progress : SUBSET ProgressAcks, history : SUBSET HistoryAcks]

GoodPosts(t) ==
    {p \in [progress : SUBSET TakenCheckpoints, history : SUBSET MeasuredTotals,
            epoch : Nat, answer : SUBSET Answers] :
       /\ p.epoch <= tab[t].epoch
       /\ \A h, k \in p.history : h.session = k.session => h = k
       /\ \A a \in p.answer : Dated(t, p.epoch, a.generation)}

PostOK ==
    /\ post = [t \in Tab |-> post[t]]
    /\ \A t \in Tab : post[t] # NoPost => post[t] \in GoodPosts(t)

GoodLate == [progress : SUBSET TakenCheckpoints, history : SUBSET MeasuredTotals]

LateOK == late \subseteq GoodLate

\* Lookups, and their answers.
GoodLookups(t) ==
    {l \in [epoch : Nat, answer : Generation] :
       /\ l.epoch <= tab[t].epoch
       /\ l.answer # NoGeneration => Dated(t, l.epoch, l.answer)}

LookupsOK ==
    /\ lookups = [t \in Tab |-> lookups[t]]
    /\ \A t \in Tab : lookups[t] \subseteq GoodLookups(t)

\* What was announced.
AnnouncedOK ==
    /\ announced \in [Tab -> [Family -> Nat]]
    /\ AnnouncedIsRecorded

\* The inductive invariant.
IInv ==
    /\ RecordOK
    /\ TakenOK
    /\ OutboxOK
    /\ TabOK
    /\ WritesOK
    /\ PostOK
    /\ LateOK
    /\ LookupsOK
    /\ AnnouncedOK

-----------------------------------------------------------------------------
(* Numbers and checkpoints. *)

\* A set of naturals has a least element.
LEMMA Minimum ==
    ASSUME NEW T, T \subseteq Nat, T # {}
    PROVE  \E m \in T : \A n \in T : m <= n
  <1> DEFINE R == OpToRel(<, Nat)
  <1>1. IsWellFoundedOn(R, Nat)
    BY NatLessThanWellFounded
  <1>2. \A x, y \in Nat : <<x, y>> \in R <=> x < y
    BY DEF OpToRel
  <1> HIDE DEF R
  <1>3. PICK x \in T : \A y \in T : ~ (<<y, x>> \in R)
    BY <1>1, WFMin
  <1>4. ASSUME NEW y \in T PROVE x <= y
    <2>1. x \in Nat /\ y \in Nat
      BY <1>3, <1>4
    <2>2. ~ (y < x)
      BY <1>2, <1>3, <1>4, <2>1
    <2> QED  BY <2>1, <2>2
  <1> QED  BY <1>3, <1>4

\* A set of naturals with 0 and every successor is all of them.
LEMMA Naturals ==
    ASSUME NEW K, 0 \in K, \A n \in Nat : n \in K => n + 1 \in K
    PROVE  Nat \subseteq K
  <1> SUFFICES ASSUME Nat \ K # {} PROVE FALSE
    OBVIOUS
  <1>1. PICK m \in Nat \ K : \A n \in Nat \ K : m <= n
    BY Minimum
  <1>2. m # 0 /\ m - 1 \in Nat
    BY <1>1
  <1>3. m - 1 \in K
    BY <1>1, <1>2
  <1>4. (m - 1) + 1 \in K
    BY <1>2, <1>3
  <1> QED  BY <1>1, <1>4

\* A set of subsets of a finite set that has the empty one, and each whose
\* parts with one element less it has, has them all.
LEMMA Subsets ==
    ASSUME NEW S, IsFiniteSet(S), NEW G, {} \in G,
           \A s \in SUBSET S : s # {} /\ (\A x \in s : s \ {x} \in G) => s \in G
    PROVE  SUBSET S \subseteq G
  <1> DEFINE K == {n \in Nat : \A s \in SUBSET S : Cardinality(s) = n => s \in G}
  <1>1. \A s \in SUBSET S : IsFiniteSet(s) /\ Cardinality(s) \in Nat
    BY FS_Subset, FS_CardinalityType
  <1>2. 0 \in K
    <2>1. \A s \in SUBSET S : Cardinality(s) = 0 => s = {}
      BY <1>1, FS_EmptySet
    <2> QED  BY <2>1
  <1>3. ASSUME NEW n \in Nat, n \in K PROVE n + 1 \in K
    <2> SUFFICES ASSUME NEW s \in SUBSET S, Cardinality(s) = n + 1 PROVE s \in G
      OBVIOUS
    <2>1. s # {}
      BY FS_EmptySet
    <2>2. ASSUME NEW x \in s PROVE s \ {x} \in G
      <3>1. Cardinality(s \ {x}) = n
        BY <1>1, FS_RemoveElement
      <3> QED  BY <1>3, <3>1
    <2> QED  BY <2>1, <2>2
  <1> HIDE DEF K
  <1>4. Nat \subseteq K
    BY <1>2, <1>3, Naturals
  <1> QED  BY <1>1, <1>4 DEF K

\* A bounded set of naturals has a greatest element.
LEMMA Maximum ==
    ASSUME NEW T, T \subseteq Nat, NEW b \in Nat, \A n \in T : n <= b, T # {}
    PROVE  \E m \in T : \A n \in T : n <= m
  <1> DEFINE U == {b - n : n \in T}
  <1>1. U \subseteq Nat /\ U # {}
    <2>1. \A n \in T : b - n \in Nat
      OBVIOUS
    <2> QED  BY <2>1
  <1>2. PICK u \in U : \A v \in U : u <= v
    BY <1>1, Minimum
  <1>3. PICK m \in T : u = b - m
    BY <1>2
  <1>4. ASSUME NEW n \in T PROVE n <= m
    <2>1. u <= b - n
      BY <1>2
    <2> QED  BY <1>3, <2>1
  <1> QED  BY <1>3, <1>4

\* The order of checkpoints is transitive.
LEMMA LaterTransitive ==
    ASSUME NEW a \in [order : Nat, id : Nat], NEW b \in [order : Nat, id : Nat],
           NEW c \in [order : Nat, id : Nat]
    PROVE  /\ Later(b, a) /\ ~Later(c, a) => ~Later(c, b)
           /\ ~Later(b, a) /\ ~Later(c, b) => ~Later(c, a)
  BY DEF Later

-----------------------------------------------------------------------------
(* Sums: the library's SumFunction is a recursive function over the subsets *)
(* of a set, which exists and adds up pointwise when the set is finite.     *)

\* The sum over a set, by the sums over its subsets.
SumOver(f, sums, s) ==
    IF s = {} THEN 0 ELSE LET x == CHOOSE x \in s : TRUE IN f[x] + sums[s \ {x}]

Sums(f, S) == CHOOSE sums : sums = [s \in SUBSET S |-> SumOver(f, sums, s)]

\* There are such sums, built up from the small subsets to the large.
LEMMA SumsExist ==
    ASSUME NEW S, IsFiniteSet(S), NEW f
    PROVE  Sums(f, S) = [s \in SUBSET S |-> SumOver(f, Sums(f, S), s)]
  <1> DEFINE Upto(sums, n) ==
               \A s \in SUBSET S : Cardinality(s) <= n => sums[s] = SumOver(f, sums, s)
             K == {n \in Nat : \E sums : Upto(sums, n)}
  <1>1. \A s \in SUBSET S : IsFiniteSet(s) /\ Cardinality(s) \in Nat
    BY FS_Subset, FS_CardinalityType
  <1>2. 0 \in K
    <2> DEFINE none == [s \in SUBSET S |-> 0]
    <2>1. \A s \in SUBSET S : Cardinality(s) <= 0 => s = {}
      BY <1>1, FS_EmptySet
    <2>2. Upto(none, 0)
      BY <2>1 DEF SumOver
    <2> QED  BY <2>2
  <1>3. ASSUME NEW n \in Nat, n \in K PROVE n + 1 \in K
    <2>1. PICK sums : Upto(sums, n)
      BY <1>3
    <2> DEFINE more == [s \in SUBSET S |-> IF Cardinality(s) <= n THEN sums[s]
                                           ELSE SumOver(f, sums, s)]
    <2>2. ASSUME NEW s \in SUBSET S, Cardinality(s) <= n + 1
          PROVE  more[s] = SumOver(f, more, s)
      <3>1. CASE s = {}
        <4>1. Cardinality(s) = 0
          BY <3>1, FS_EmptySet
        <4> QED  BY <2>1, <3>1, <4>1 DEF SumOver
      <3>2. CASE s # {}
        <4> DEFINE x == CHOOSE x \in s : TRUE
        <4>1. x \in s /\ s \ {x} \in SUBSET S
          BY <3>2
        <4>2. Cardinality(s \ {x}) = Cardinality(s) - 1 /\ Cardinality(s) \in Nat
          BY <1>1, <4>1, FS_RemoveElement
        <4>3. more[s \ {x}] = sums[s \ {x}]
          BY <2>2, <4>1, <4>2
        <4>4. SumOver(f, more, s) = SumOver(f, sums, s)
          BY <3>2, <4>3 DEF SumOver
        <4>5. more[s] = SumOver(f, sums, s)
          BY <2>1
        <4> QED  BY <4>4, <4>5
      <3> QED  BY <3>1, <3>2
    <2> HIDE DEF more
    <2> QED  BY <2>2
  <1> HIDE DEF K
  <1>4. Cardinality(S) \in K
    BY <1>1, <1>2, <1>3, Naturals
  <1>5. PICK sums : Upto(sums, Cardinality(S))
    BY <1>4 DEF K
  <1> DEFINE all == [s \in SUBSET S |-> sums[s]]
  <1>6. ASSUME NEW s \in SUBSET S PROVE all[s] = SumOver(f, all, s)
    <2>1. Cardinality(s) <= Cardinality(S)
      BY FS_Subset
    <2>2. all[s] = SumOver(f, sums, s)
      BY <1>5, <2>1
    <2>3. s # {} => all[s \ {CHOOSE x \in s : TRUE}] = sums[s \ {CHOOSE x \in s : TRUE}]
      OBVIOUS
    <2>4. SumOver(f, sums, s) = SumOver(f, all, s)
      BY <2>3 DEF SumOver
    <2> QED  BY <2>2, <2>4
  <1>7. all = [s \in SUBSET S |-> SumOver(f, all, s)]
    <2> HIDE DEF Upto
    <2>1. all = [s \in SUBSET S |-> all[s]]
      OBVIOUS
    <2> HIDE DEF all
    <2> QED  BY <1>6, <2>1
  <1> HIDE DEF all
  <1> QED  BY <1>7 DEF Sums

\* Each of them is the element chosen and the sum without it.
LEMMA SumsOver ==
    ASSUME NEW S, IsFiniteSet(S), NEW f, NEW s \in SUBSET S
    PROVE  Sums(f, S)[s] = SumOver(f, Sums(f, S), s)
  <1> DEFINE sums == Sums(f, S)
  <1>1. sums = [r \in SUBSET S |-> SumOver(f, sums, r)]
    BY SumsExist
  <1> HIDE DEF sums
  <1>2. sums[s] = SumOver(f, sums, s)
    BY <1>1
  <1> QED  BY <1>2 DEF sums

\* What SumFunction is.
LEMMA SumIsSums ==
    ASSUME NEW f, NEW S, DOMAIN f = S
    PROVE  SumFunction(f) = Sums(f, S)[S]
  BY DEF SumFunction, SumFunctionOnSet, FoldFunctionOnSet, MapThenFoldSet, Sums, SumOver

\* The sums of naturals are naturals, and pointwise sums add up.
LEMMA SumsAdd ==
    ASSUME NEW S, IsFiniteSet(S), NEW f \in [S -> Nat], NEW g \in [S -> Nat],
           NEW h, h = [s \in S |-> f[s] + g[s]]
    PROVE  /\ SumFunction(f) \in Nat /\ SumFunction(g) \in Nat
           /\ SumFunction(h) = SumFunction(f) + SumFunction(g)
  <1> DEFINE F == Sums(f, S)
             H == Sums(h, S)
             D == Sums(g, S)
             G == {s \in SUBSET S : F[s] \in Nat /\ D[s] \in Nat /\ H[s] = F[s] + D[s]}
  <1>1. \A s \in SUBSET S : F[s] = SumOver(f, F, s)
    BY SumsOver
  <1>2. \A s \in SUBSET S : D[s] = SumOver(g, D, s)
    BY SumsOver
  <1>3. \A s \in SUBSET S : H[s] = SumOver(h, H, s)
    BY SumsOver
  <1> HIDE DEF F, D, H
  <1>4. {} \in G
    <2>1. {} \in SUBSET S /\ \A k, sums : SumOver(k, sums, {}) = 0
      BY DEF SumOver
    <2>2. F[{}] = 0 /\ D[{}] = 0 /\ H[{}] = 0
      BY <1>1, <1>2, <1>3, <2>1
    <2> QED  BY <2>1, <2>2
  <1>5. ASSUME NEW s \in SUBSET S, s # {}, \A x \in s : s \ {x} \in G
        PROVE  s \in G
    <2> DEFINE x == CHOOSE x \in s : TRUE
               r == s \ {x}
    <2>1. x \in s /\ x \in S
      BY <1>5
    <2>2. F[r] \in Nat /\ D[r] \in Nat /\ H[r] = F[r] + D[r]
      BY <1>5, <2>1
    <2>3. F[s] = f[x] + F[r] /\ D[s] = g[x] + D[r] /\ H[s] = h[x] + H[r]
      BY <1>1, <1>2, <1>3, <1>5 DEF SumOver
    <2>4. f[x] \in Nat /\ g[x] \in Nat /\ h[x] = f[x] + g[x]
      BY <2>1
    <2> HIDE DEF x, r
    <2>5. F[s] \in Nat /\ D[s] \in Nat
      BY <2>2, <2>3, <2>4
    <2>6. H[s] = F[s] + D[s]
      BY <2>2, <2>3, <2>4
    <2> QED  BY <2>5, <2>6
  <1> HIDE DEF G
  <1>6. S \in G
    BY <1>4, <1>5, Subsets
  <1>7. F[S] \in Nat /\ D[S] \in Nat /\ H[S] = F[S] + D[S]
    BY <1>6 DEF G
  <1>8. DOMAIN h = S
    OBVIOUS
  <1> QED  BY <1>7, <1>8, SumIsSums DEF F, D, H

\* A sum of zeros is zero.
LEMMA SumOfNothing ==
    ASSUME NEW S, IsFiniteSet(S)
    PROVE  SumFunction([s \in S |-> 0]) = 0
  <1> DEFINE z == [s \in S |-> 0]
  <1>1. z \in [S -> Nat] /\ \A s \in S : z[s] = 0
    OBVIOUS
  <1>2. [s \in S |-> z[s] + z[s]] = z
    <2>1. \A s \in S : z[s] + z[s] = 0
      BY <1>1
    <2> QED  BY <2>1
  <1> HIDE DEF z
  <1>3. SumFunction(z) \in Nat /\ SumFunction(z) = SumFunction(z) + SumFunction(z)
    BY <1>1, <1>2, SumsAdd
  <1>4. SumFunction(z) = 0
    <2> DEFINE n == SumFunction(z)
    <2>1. n \in Nat /\ n = n + n
      BY <1>3
    <2> HIDE DEF n
    <2>2. n = 0
      BY <2>1
    <2> QED  BY <2>2 DEF n
  <1> QED  BY <1>4 DEF z

-----------------------------------------------------------------------------
(* How a step moves the record and what was measured and taken. *)

\* A second of a session is measured.
Listened(s) ==
    /\ heard' = [heard EXCEPT ![s] = heard[s] + 1]
    /\ \/ UNCHANGED <<tag, born>>
       \/ /\ heard[s] = 0
          /\ \E g \in Generation : g <= generation /\ tag' = [tag EXCEPT ![s] = g]
          /\ born' = [born EXCEPT ![s] = generation]
    /\ UNCHANGED <<server, taken>>

\* A checkpoint is given an order.
Took(w, order) ==
    /\ taken' = taken \union {<<FamilyOf[w], order>>}
    /\ UNCHANGED <<server, tag, born, heard>>

\* The record is cleared.
Cleared ==
    /\ generation' = generation + 1
    /\ credited' = [s \in Session |-> 0]
    /\ counted' = 0
    /\ UNCHANGED <<cursor, tag, born, heard, taken>>

\* A report is recorded.
Recorded(progress, history) ==
    /\ Record(progress, history)
    /\ UNCHANGED <<tag, born, heard, taken>>

\* Another device is.
Elsewhere(f) ==
    /\ \E c \in [order : Nat, id : {0, 2}] :
          Later(c, cursor[f]) /\ cursor' = [cursor EXCEPT ![f] = c]
    /\ UNCHANGED <<generation, credited, counted, tag, born, heard, taken>>

\* Nothing of it moves.
Still == UNCHANGED <<server, tag, born, heard, taken>>

\* What may be on its way stays so.
Grown ==
    /\ generation' \in Nat /\ generation' >= generation
    /\ TakenCheckpoints \subseteq TakenCheckpoints'
    /\ MeasuredTotals \subseteq MeasuredTotals'
    /\ ProgressAcks \subseteq ProgressAcks'
    /\ HistoryAcks \subseteq HistoryAcks'
    /\ \A s \in Session : heard[s] > 0 => tag'[s] = tag[s] /\ heard'[s] >= heard[s]

\* Nothing moves.
LEMMA StillGrown ==
    ASSUME RecordOK, Still
    PROVE  RecordOK' /\ Grown
  BY DEF RecordOK, Still, Grown, server, TakenCheckpoints, MeasuredTotals, ProgressAcks, HistoryAcks

\* Measuring a second.
LEMMA ListenedGrown ==
    ASSUME RecordOK, NEW s \in Session, Listened(s)
    PROVE  RecordOK' /\ Grown
  <1>1. generation' = generation /\ credited' = credited /\ cursor' = cursor /\ taken' = taken
    BY DEF Listened, server
  <1>2. heard' \in [Session -> Nat] /\ \A r \in Session : heard'[r] >= heard[r]
    BY DEF Listened, RecordOK
  <1>3. tag' \in [Session -> Generation] /\ born' \in [Session -> Generation]
    BY DEF Listened, RecordOK, Generation
  <1>4. \A r \in Session : heard[r] > 0 => tag'[r] = tag[r]
    BY DEF Listened, RecordOK
  <1>5. \A r \in Session : tag'[r] <= born'[r] /\ born'[r] <= generation
    BY DEF Listened, RecordOK, Generation, NoGeneration
  <1>6. \A r \in Session : credited[r] > 0 => heard[r] > 0
    BY DEF RecordOK
  <1>7. RecordOK'
    BY <1>1, <1>2, <1>3, <1>4, <1>5, <1>6 DEF RecordOK
  <1>8. MeasuredTotals \subseteq MeasuredTotals'
    BY <1>2 DEF MeasuredTotals, SentHistory, RecordOK
  <1>9. HistoryAcks \subseteq HistoryAcks'
    BY <1>1, <1>2, <1>4 DEF HistoryAcks, HistoryAck, RecordOK
  <1> QED
    BY <1>1, <1>2, <1>4, <1>7, <1>8, <1>9 DEF Grown, TakenCheckpoints, ProgressAcks, RecordOK

\* Giving an order.
LEMMA TookGrown ==
    ASSUME RecordOK, NEW x, NEW order, Took(x, order)
    PROVE  RecordOK' /\ Grown
  <1>1. UNCHANGED <<generation, credited, cursor, tag, born, heard>> /\ taken \subseteq taken'
    BY DEF Took, server
  <1> QED
    BY <1>1 DEF RecordOK, Grown, TakenCheckpoints, MeasuredTotals, ProgressAcks, HistoryAcks

\* Clearing the record: no acknowledged session is of the new generation.
LEMMA ClearedGrown ==
    ASSUME RecordOK, Cleared
    PROVE  RecordOK' /\ Grown
  <1>1. \A s \in Session : tag[s] \in Int /\ tag[s] <= generation
    BY DEF RecordOK, Generation, NoGeneration
  <1>2. \A s \in Session : tag'[s] # generation' /\ tag' = tag /\ generation' > generation
    BY <1>1 DEF Cleared, RecordOK
  <1>3. RecordOK'
    BY <1>1 DEF RecordOK, Cleared, Generation, NoGeneration
  <1>4. HistoryAcks \subseteq HistoryAcks'
    BY <1>2 DEF Cleared, HistoryAcks, HistoryAck
  <1> QED
    BY <1>3, <1>4 DEF Cleared, RecordOK, Grown, TakenCheckpoints, MeasuredTotals, ProgressAcks

\* Some checkpoint of a family in a set of bounded orders is its newest.
LEMMA NewestExists ==
    ASSUME NEW S, S \subseteq SentProgress, NEW b \in Nat, \A p \in S : p.order <= b,
           NEW f, \E p \in S : FamilyOf[p.work] = f
    PROVE  \E p \in S : FamilyOf[p.work] = f /\ IsNewest(p, S)
  <1> DEFINE T == {p.order : p \in {x \in S : FamilyOf[x.work] = f}}
  <1>1. T \subseteq Nat /\ T # {} /\ \A n \in T : n <= b
    BY DEF SentProgress
  <1>2. PICK m \in T : \A n \in T : n <= m
    BY <1>1, Maximum
  <1>3. PICK p \in S : FamilyOf[p.work] = f /\ p.order = m
    BY <1>2
  <1>4. \A q \in S : FamilyOf[q.work] = f => q.order <= p.order
    BY <1>2, <1>3
  <1> QED  BY <1>3, <1>4 DEF IsNewest

\* A report moves a cursor to its newest checkpoint that is ahead, and no
\* further back.
LEMMA RecordedCursor ==
    ASSUME RecordOK, TakenOK, outbox.order \in Nat, NEW progress, NEW history,
           progress \subseteq TakenCheckpoints, Record(progress, history)
    PROVE  /\ cursor' \in [Family -> [order : Nat, id : Nat]]
           /\ \A f \in Family :
                 \/ cursor'[f] = cursor[f]
                 \/ /\ Later(cursor'[f], cursor[f])
                    /\ cursor'[f].id = Ours
                    /\ <<f, cursor'[f].order>> \in taken
           /\ \A p \in progress :
                 p.work \notin Missing => ~Later(Checkpoint(p), cursor'[FamilyOf[p.work]])
  <1> DEFINE S == Ahead(progress)
             newest(f) == CHOOSE p \in S : FamilyOf[p.work] = f /\ IsNewest(p, S)
  <1>1. S \subseteq progress /\ S \subseteq SentProgress
    BY DEF Ahead, TakenCheckpoints
  <1>2. \A p \in progress : p \in SentProgress /\ FamilyOf[p.work] \in Family
                              /\ <<FamilyOf[p.work], p.order>> \in taken
    BY DEF TakenCheckpoints, SentProgress, Family
  <1>3. \A p \in S : p.order <= outbox.order
    BY <1>1, <1>2 DEF TakenOK
  <1>4. cursor' = [f \in Family |-> IF \E p \in S : FamilyOf[p.work] = f
                                    THEN Checkpoint(newest(f)) ELSE cursor[f]]
    BY DEF Record
  <1>5. ASSUME NEW f \in Family, \E p \in S : FamilyOf[p.work] = f
        PROVE  newest(f) \in S /\ FamilyOf[newest(f).work] = f /\ IsNewest(newest(f), S)
    <2>1. \E p \in S : FamilyOf[p.work] = f /\ IsNewest(p, S)
      BY <1>1, <1>3, <1>5, NewestExists
    <2> QED  BY <2>1
  <1> HIDE DEF newest, S
  <1>6. ASSUME NEW f \in Family, \E p \in S : FamilyOf[p.work] = f
        PROVE  /\ cursor'[f] = Checkpoint(newest(f))
               /\ cursor'[f] \in [order : Nat, id : Nat]
               /\ Later(cursor'[f], cursor[f])
               /\ cursor'[f].id = Ours
               /\ <<f, cursor'[f].order>> \in taken
    <2>1. cursor'[f] = Checkpoint(newest(f))
      BY <1>4, <1>6
    <2>2. newest(f) \in S /\ newest(f) \in progress /\ FamilyOf[newest(f).work] = f
      BY <1>1, <1>5, <1>6
    <2>3. Later(Checkpoint(newest(f)), cursor[f])
      BY <2>2 DEF S, Ahead
    <2> QED  BY <1>2, <2>1, <2>2, <2>3 DEF Checkpoint, Ours, SentProgress
  <1>7. \A f \in Family : (~ \E p \in S : FamilyOf[p.work] = f) => cursor'[f] = cursor[f]
    BY <1>4
  <1>8. cursor' \in [Family -> [order : Nat, id : Nat]]
    <2>1. \A f \in Family : cursor'[f] \in [order : Nat, id : Nat]
      BY <1>6, <1>7 DEF RecordOK
    <2> QED  BY <1>4, <2>1
  <1>9. ASSUME NEW p \in progress, p.work \notin Missing
        PROVE  ~Later(Checkpoint(p), cursor'[FamilyOf[p.work]])
    <2> DEFINE f == FamilyOf[p.work]
    <2>1. f \in Family /\ p \in SentProgress
      BY <1>2
    <2>2. CASE p \in S
      <3>1. cursor'[f] = Checkpoint(newest(f)) /\ newest(f) \in S /\ IsNewest(newest(f), S)
            /\ FamilyOf[newest(f).work] = f
        BY <1>5, <1>6, <2>1, <2>2
      <3>2. p.order <= newest(f).order /\ newest(f) \in SentProgress
        BY <1>1, <2>2, <3>1 DEF IsNewest
      <3> QED  BY <2>1, <3>1, <3>2 DEF Later, Checkpoint, SentProgress, Ours
    <2>3. CASE p \notin S
      <3>1. ~Later(Checkpoint(p), cursor[f])
        BY <1>9, <2>3 DEF S, Ahead
      <3>2. Checkpoint(p) \in [order : Nat, id : Nat] /\ cursor[f] \in [order : Nat, id : Nat]
            /\ cursor'[f] \in [order : Nat, id : Nat]
        BY <1>8, <2>1 DEF Checkpoint, SentProgress, Ours, RecordOK
      <3>3. cursor'[f] = cursor[f] \/ Later(cursor'[f], cursor[f])
        BY <1>6, <1>7, <2>1
      <3> QED  BY <3>1, <3>2, <3>3, LaterTransitive
    <2> QED  BY <2>2, <2>3
  <1> QED  BY <1>6, <1>7, <1>8, <1>9

\* Totals of a report that are credited are measured and of the record's generation.
LEMMA RecordedTotals ==
    ASSUME RecordOK, NEW progress, NEW history,
           history \subseteq MeasuredTotals, Record(progress, history)
    PROVE  /\ credited' \in [Session -> Nat]
           /\ \A s \in Session :
                 \/ credited'[s] = credited[s]
                 \/ tag[s] = generation /\ credited[s] < credited'[s] /\ credited'[s] <= heard[s]
           /\ (\A h, k \in history : h.session = k.session => h = k)
                 => \A h \in history : HistoryStatus(h) = "recorded"
                                          => credited'[h.session] >= h.seconds
  <1> DEFINE L == Larger(history)
             total(s) == CHOOSE h \in L : h.session = s
             gained == [s \in Session |-> IF \E h \in L : h.session = s
                                          THEN total(s).seconds - credited[s] ELSE 0]
  <1>1. credited' = [s \in Session |-> credited[s] + gained[s]]
    BY DEF Record
  <1>2. \A h \in history : h \in SentHistory /\ h.session \in Session /\ h.seconds \in Nat
                             /\ h.seconds <= heard[h.session]
    BY DEF MeasuredTotals, SentHistory
  <1>3. \A h \in L : h \in history /\ h.seconds > credited[h.session] /\ tag[h.session] = generation
    BY DEF Larger, HistoryStatus
  <1>4. ASSUME NEW s \in Session, \E h \in L : h.session = s
        PROVE  total(s) \in L /\ total(s).session = s
    BY <1>4
  <1> HIDE DEF L, total
  <1>5. ASSUME NEW s \in Session, \E h \in L : h.session = s
        PROVE  /\ credited'[s] = total(s).seconds
               /\ tag[s] = generation /\ credited[s] < credited'[s] /\ credited'[s] <= heard[s]
               /\ credited'[s] \in Nat
    <2>1. total(s) \in history /\ total(s).seconds > credited[s] /\ tag[s] = generation
          /\ total(s).seconds \in Nat /\ total(s).seconds <= heard[s]
      BY <1>2, <1>3, <1>4, <1>5
    <2>2. credited'[s] = credited[s] + (total(s).seconds - credited[s])
      BY <1>1, <1>5
    <2>3. credited[s] \in Nat
      BY DEF RecordOK
    <2> QED  BY <2>1, <2>2, <2>3
  <1>6. \A s \in Session : (~ \E h \in L : h.session = s) => credited'[s] = credited[s]
    BY <1>1 DEF RecordOK
  <1>7. credited' \in [Session -> Nat]
    <2>1. \A s \in Session : credited'[s] \in Nat
      BY <1>5, <1>6 DEF RecordOK
    <2> QED  BY <1>1, <2>1
  <1>8. ASSUME \A h, k \in history : h.session = k.session => h = k,
               NEW h \in history, HistoryStatus(h) = "recorded"
        PROVE  credited'[h.session] >= h.seconds
    <2>1. CASE h \in L
      <3>1. total(h.session) = h
        BY <1>2, <1>3, <1>4, <1>8, <2>1
      <3> QED  BY <1>2, <1>5, <2>1, <3>1
    <2>2. CASE h \notin L
      <3>1. ~ (h.seconds > credited[h.session])
        BY <1>8, <2>2 DEF L, Larger
      <3>2. credited'[h.session] = credited[h.session] \/ credited'[h.session] > credited[h.session]
        BY <1>2, <1>5, <1>6
      <3> QED  BY <1>2, <1>7, <3>1, <3>2 DEF RecordOK
    <2> QED  BY <2>1, <2>2
  <1> QED  BY <1>5, <1>6, <1>7, <1>8

\* Recording a report.
LEMMA RecordedGrown ==
    ASSUME RecordOK, TakenOK, outbox.order \in Nat, NEW progress, NEW history,
           progress \subseteq TakenCheckpoints, history \subseteq MeasuredTotals,
           Recorded(progress, history)
    PROVE  RecordOK' /\ Grown
  <1>1. /\ cursor' \in [Family -> [order : Nat, id : Nat]]
        /\ \A f \in Family : cursor'[f] = cursor[f] \/ Later(cursor'[f], cursor[f])
    BY RecordedCursor DEF Recorded
  <1>2. /\ credited' \in [Session -> Nat]
        /\ \A s \in Session :
              \/ credited'[s] = credited[s]
              \/ tag[s] = generation /\ credited[s] < credited'[s] /\ credited'[s] <= heard[s]
    BY RecordedTotals DEF Recorded
  <1>3. UNCHANGED <<generation, tag, born, heard, taken>>
    BY DEF Recorded, Record
  <1>4. RecordOK'
    BY <1>1, <1>2, <1>3 DEF RecordOK
  <1>5. ProgressAcks \subseteq ProgressAcks'
    <2> SUFFICES ASSUME NEW a \in ProgressAcks, a.status \in Settled
                 PROVE  ~Later(Checkpoint(a), cursor'[FamilyOf[a.work]])
      BY <1>3 DEF ProgressAcks
    <2>1. FamilyOf[a.work] \in Family /\ Checkpoint(a) \in [order : Nat, id : Nat]
      BY DEF ProgressAcks, ProgressAck, Family, Checkpoint, Ours
    <2>2. ~Later(Checkpoint(a), cursor[FamilyOf[a.work]])
      BY DEF ProgressAcks
    <2> QED  BY <1>1, <2>1, <2>2, LaterTransitive DEF RecordOK
  <1>6. HistoryAcks \subseteq HistoryAcks'
    <2>1. \A s \in Session : credited'[s] >= credited[s]
      BY <1>2 DEF RecordOK
    <2> QED  BY <1>2, <1>3, <2>1 DEF HistoryAcks, HistoryAck, RecordOK
  <1> QED
    BY <1>3, <1>4, <1>5, <1>6 DEF Grown, RecordOK, TakenCheckpoints, MeasuredTotals

\* A checkpoint of another device.
LEMMA ElsewhereGrown ==
    ASSUME RecordOK, NEW f \in Family, Elsewhere(f)
    PROVE  RecordOK' /\ Grown
  <1>1. /\ cursor' \in [Family -> [order : Nat, id : Nat]]
        /\ \A g \in Family : cursor'[g] = cursor[g] \/ Later(cursor'[g], cursor[g])
    BY DEF Elsewhere, RecordOK
  <1>2. UNCHANGED <<generation, credited, tag, born, heard, taken>>
    BY DEF Elsewhere
  <1>3. ProgressAcks \subseteq ProgressAcks'
    <2> SUFFICES ASSUME NEW a \in ProgressAcks, a.status \in Settled
                 PROVE  ~Later(Checkpoint(a), cursor'[FamilyOf[a.work]])
      BY <1>2 DEF ProgressAcks
    <2>1. FamilyOf[a.work] \in Family /\ Checkpoint(a) \in [order : Nat, id : Nat]
      BY DEF ProgressAcks, ProgressAck, Family, Checkpoint, Ours
    <2>2. ~Later(Checkpoint(a), cursor[FamilyOf[a.work]])
      BY DEF ProgressAcks
    <2> QED  BY <1>1, <2>1, <2>2, LaterTransitive DEF RecordOK
  <1> QED
    BY <1>1, <1>2, <1>3 DEF Grown, RecordOK, TakenCheckpoints, MeasuredTotals, HistoryAcks

\* One of these moves.
Moves ==
    \/ Still
    \/ \E s \in Session : Listened(s)
    \/ \E x \in Work, order \in Nat : Took(x, order)
    \/ Cleared
    \/ \E progress \in SUBSET TakenCheckpoints, history \in SUBSET MeasuredTotals :
          Recorded(progress, history)
    \/ \E f \in Family : Elsewhere(f)

\* Whatever the move, what may be on its way stays so.
LEMMA MovesGrown ==
    ASSUME RecordOK, TakenOK, OutboxOK, Moves
    PROVE  RecordOK' /\ Grown
  <1>1. outbox.order \in Nat
    BY DEF OutboxOK, GoodOutboxes
  <1> QED
    BY <1>1, StillGrown, ListenedGrown, TookGrown, ClearedGrown, RecordedGrown, ElsewhereGrown
       DEF Moves

\* Every move is a step of the ledger, or none.
LEMMA MovesLedger ==
    ASSUME RecordOK, TakenOK, OutboxOK, Moves
    PROVE  [Ledger!Next]_(Ledger!vars)
  <1>1. CASE Still
    BY <1>1 DEF Still, server, Ledger!vars
  <1>2. ASSUME NEW s \in Session, Listened(s) PROVE Ledger!Next
    <2>1. heard[s] = 0 => tag'[s] <= generation
      BY <1>2 DEF Listened, RecordOK, Generation, NoGeneration
    <2>2. \A r \in Session : (r # s \/ heard[s] > 0) => tag'[r] = tag[r]
      BY <1>2 DEF Listened, RecordOK
    <2>3. Ledger!Measure(s)
      BY <1>2, <2>1, <2>2 DEF Listened, Ledger!Measure, server
    <2> QED  BY <2>3 DEF Ledger!Next
  <1>3. ASSUME NEW x \in Work, NEW order \in Nat, Took(x, order)
        PROVE  [Ledger!Next]_(Ledger!vars)
    <2> DEFINE c == <<FamilyOf[x], order>>
    <2>1. c[1] \in Family
      BY DEF Family
    <2>2. CASE c \in taken
      BY <1>3, <2>2 DEF Took, server, Ledger!vars
    <2>3. CASE c \notin taken
      <3>1. c \in taken' \ taken /\ taken' = taken \union {c}
        BY <1>3, <2>3 DEF Took
      <3>2. UNCHANGED <<generation, tag, heard, credited, cursor>>
        BY <1>3 DEF Took, server
      <3> HIDE DEF c
      <3>3. Ledger!Take
        BY <2>1, <3>1, <3>2 DEF Ledger!Take
      <3> QED  BY <3>3 DEF Ledger!Next
    <2> QED  BY <2>2, <2>3
  <1>4. CASE Cleared
    <2>1. Ledger!Clear
      BY <1>4 DEF Cleared, Ledger!Clear
    <2> QED  BY <2>1 DEF Ledger!Next
  <1>5. ASSUME NEW progress \in SUBSET TakenCheckpoints, NEW history \in SUBSET MeasuredTotals,
               Recorded(progress, history)
        PROVE  Ledger!Next
    <2>1. outbox.order \in Nat
      BY DEF OutboxOK, GoodOutboxes
    <2>2. \A f \in Family :
             \/ cursor'[f] = cursor[f]
             \/ /\ Later(cursor'[f], cursor[f])
                /\ cursor'[f].id = Ours
                /\ <<f, cursor'[f].order>> \in taken
      BY <1>5, <2>1, RecordedCursor DEF Recorded
    <2>3. \A s \in Session :
             \/ credited'[s] = credited[s]
             \/ tag[s] = generation /\ credited[s] < credited'[s] /\ credited'[s] <= heard[s]
      BY <1>5, RecordedTotals DEF Recorded
    <2>4. Ledger!Record
      BY <1>5, <2>2, <2>3
         DEF Recorded, Record, Ledger!Record, Later, Ledger!Later, Ours, Ledger!Ours
    <2> QED  BY <2>4 DEF Ledger!Next
  <1>6. ASSUME NEW f \in Family, Elsewhere(f) PROVE Ledger!Next
    <2>1. Later(cursor'[f], cursor[f]) /\ \A g \in Family \ {f} : cursor'[g] = cursor[g]
      BY <1>6 DEF Elsewhere, RecordOK
    <2>2. Ledger!RecordElsewhere(f)
      BY <1>6, <2>1 DEF Elsewhere, Ledger!RecordElsewhere, Later, Ledger!Later
    <2> QED  BY <2>2 DEF Ledger!Next
  <1> QED  BY <1>1, <1>2, <1>3, <1>4, <1>5, <1>6 DEF Moves

-----------------------------------------------------------------------------
(* Every step is one of these moves. *)

\* Listening moves the seconds.
LEMMA ListenMoves ==
    ASSUME IInv, NEW t \in Tab, NEW s \in Session, Listen(t, s)
    PROVE  Listened(s)
  <1>1. tab[t].generation \in Generation /\ tab[t].generation <= generation
    BY DEF IInv, TabOK, TabType
  <1>2. UNCHANGED <<server, taken>>
    BY DEF Listen, server
  <1>3. heard' = [heard EXCEPT ![s] = heard[s] + 1]
    BY DEF Listen
  <1> QED  BY <1>1, <1>2, <1>3 DEF Listen, Listened

\* The kinds of write are told apart by their op.
LEMMA WriteKinds ==
    ASSUME NEW t \in Tab, NEW w \in GoodWrites(t)
    PROVE  /\ w.op = "history" => w \in HistoryWrites
           /\ w.op = "progress" => w.work \in Work
           /\ w.op = "verify" => w \in VerifyWrites(t)
           /\ w.op = "flush" => w \in FlushWrites(t)
           /\ w.op = "acknowledge" => w \in AcknowledgeWrites(t)
           /\ w.op = "refuse" => w \in RefuseWrites
  <1>1. w \in PlainWrites => w.op \in {"initialize", "clear", "retry", "progress"}
                             /\ (w.op = "progress" => w.work \in Work)
    BY DEF PlainWrites
  <1>2. w \in RefuseWrites => w.op = "refuse"
    BY DEF RefuseWrites
  <1>3. w \in HistoryWrites => w.op = "history"
    BY DEF HistoryWrites
  <1>4. w \in VerifyWrites(t) => w.op = "verify"
    BY DEF VerifyWrites
  <1>5. w \in FlushWrites(t) => w.op = "flush"
    BY DEF FlushWrites
  <1>6. w \in AcknowledgeWrites(t) => w.op = "acknowledge"
    BY DEF AcknowledgeWrites
  <1> QED  BY <1>1, <1>2, <1>3, <1>4, <1>5, <1>6 DEF GoodWrites

\* The write that runs is a good one.
LEMMA RunsGood ==
    ASSUME IInv, NEW t \in Tab, NEW op, Runs(t, op)
    PROVE  Head(writes[t]) \in GoodWrites(t) /\ Head(writes[t]).op = op
  <1>1. writes[t] \in Seq(GoodWrites(t)) /\ writes[t] # <<>>
    BY DEF IInv, WritesOK, Runs
  <1> QED  BY <1>1, HeadTailProperties DEF Runs

\* The write of a checkpoint takes an order, or is refused for lack of room.
LEMMA WriteProgressMoves ==
    ASSUME IInv, NEW t \in Tab, WriteProgress(t)
    PROVE  Moves
  <1> DEFINE x == Head(writes[t]).work
             others == {e \in outbox.progress : e.work # x}
             room == Cardinality(others) < ProgressCap \/ others # outbox.progress
  <1>1. x \in Work
    BY RunsGood, WriteKinds DEF WriteProgress
  <1>2. outbox.order \in Nat
    BY DEF IInv, OutboxOK, GoodOutboxes
  <1>3. UNCHANGED <<server, tag, born, heard>>
    BY DEF WriteProgress, server
  <1>4. IF room
        THEN \E order \in outbox.order + 1 .. outbox.order + 1 + Jump :
                taken' = taken \union {<<FamilyOf[x], order>>}
        ELSE taken' = taken
    BY DEF WriteProgress
  <1> HIDE DEF x, room
  <1>5. CASE room
    <2>1. PICK order \in outbox.order + 1 .. outbox.order + 1 + Jump :
             taken' = taken \union {<<FamilyOf[x], order>>}
      BY <1>4, <1>5
    <2>2. order \in Nat
      BY <1>2, <2>1, ReportsAssumption
    <2>3. Took(x, order)
      BY <1>3, <2>1 DEF Took
    <2> QED  BY <1>1, <2>2, <2>3 DEF Moves
  <1>6. CASE ~room
    BY <1>3, <1>4, <1>6 DEF Still, Moves
  <1> QED  BY <1>5, <1>6

\* Clearing, and reports that arrive.
LEMMA ServerMoves ==
    ASSUME IInv
    PROVE  /\ \A t \in Tab : RequestClear(t) => Cleared
           /\ ClearElsewhere => Cleared
           /\ \A t \in Tab : RecordPost(t) => Moves
           /\ RecordLate => Moves
           /\ \A f \in Family : RecordElsewhere(f) => Elsewhere(f)
  <1>1. ASSUME NEW t \in Tab, RequestClear(t) PROVE Cleared
    BY <1>1 DEF RequestClear, ClearRecord, Cleared, facts
  <1>2. ASSUME ClearElsewhere PROVE Cleared
    BY <1>2 DEF ClearElsewhere, ClearRecord, Cleared, facts
  <1>3. ASSUME NEW t \in Tab, RecordPost(t) PROVE Moves
    <2>1. post[t].progress \in SUBSET TakenCheckpoints /\ post[t].history \in SUBSET MeasuredTotals
      BY <1>3 DEF RecordPost, IInv, PostOK, GoodPosts
    <2>2. Recorded(post[t].progress, post[t].history)
      BY <1>3 DEF RecordPost, Recorded, facts
    <2> QED  BY <2>1, <2>2 DEF Moves
  <1>4. ASSUME RecordLate PROVE Moves
    <2>1. PICK r \in late : Record(r.progress, r.history)
      BY <1>4 DEF RecordLate
    <2>2. r.progress \in SUBSET TakenCheckpoints /\ r.history \in SUBSET MeasuredTotals
      BY <2>1 DEF IInv, LateOK, GoodLate
    <2>3. Recorded(r.progress, r.history)
      BY <1>4, <2>1 DEF RecordLate, Recorded, facts
    <2> QED  BY <2>2, <2>3 DEF Moves
  <1>5. ASSUME NEW f \in Family, RecordElsewhere(f) PROVE Elsewhere(f)
    <2>1. PICK o \in 1 .. MaxOrder, id \in {0, 2} :
             /\ Later([order |-> o, id |-> id], cursor[f])
             /\ cursor' = [cursor EXCEPT ![f] = [order |-> o, id |-> id]]
      BY <1>5 DEF RecordElsewhere
    <2>2. [order |-> o, id |-> id] \in [order : Nat, id : Nat]
      BY ReportsAssumption
    <2> QED  BY <1>5, <2>1, <2>2 DEF RecordElsewhere, Elsewhere, facts
  <1> QED  BY <1>1, <1>2, <1>3, <1>4, <1>5

\* Every other step leaves the record, and what was measured and taken.
LEMMA OtherMoves ==
    ASSUME NEW t \in Tab,
           \/ Open(t) \/ Close(t) \/ Initialize(t) \/ WriteHistory(t) \/ WriteGeneration(t)
           \/ WriteClear(t) \/ Send(t) \/ Acknowledge(t) \/ WriteRetry(t) \/ WriteRefused(t)
           \/ EndSession(t) \/ (\E x \in Work : StageProgress(t, x))
           \/ VerifyGeneration(t) \/ AnswerLookup(t) \/ ReceiveGeneration(t) \/ LookupFails(t)
           \/ AnnounceClear(t) \/ LoseClear(t) \/ ReceiveNotice(t)
           \/ Flush(t) \/ ReceiveAnswer(t) \/ LosePost(t) \/ RefusePost(t)
    PROVE  Still
  <1>1. CASE \/ Open(t) \/ Close(t) \/ Initialize(t) \/ WriteHistory(t) \/ WriteGeneration(t)
             \/ WriteClear(t)
    BY <1>1 DEF Open, Close, Initialize, WriteHistory, WriteGeneration, WriteClear, Still, facts
  <1>2. CASE Send(t) \/ Acknowledge(t) \/ WriteRetry(t) \/ WriteRefused(t) \/ EndSession(t)
    BY <1>2 DEF Send, Acknowledge, WriteRetry, WriteRefused, EndSession, Still, facts
  <1>3. CASE \/ (\E x \in Work : StageProgress(t, x))
             \/ VerifyGeneration(t) \/ AnswerLookup(t) \/ ReceiveGeneration(t) \/ LookupFails(t)
    BY <1>3 DEF StageProgress, VerifyGeneration, AnswerLookup, ReceiveGeneration, LookupFails,
                Still, facts
  <1>4. CASE \/ AnnounceClear(t) \/ LoseClear(t) \/ ReceiveNotice(t)
             \/ Flush(t) \/ ReceiveAnswer(t) \/ LosePost(t) \/ RefusePost(t)
    BY <1>4 DEF AnnounceClear, LoseClear, ReceiveNotice, Flush, ReceiveAnswer, LosePost, RefusePost,
                Still, facts
  <1> QED  BY <1>1, <1>2, <1>3, <1>4

\* So every step is a move.
LEMMA NextMoves ==
    ASSUME IInv, [Next]_vars
    PROVE  Moves
  <1>1. CASE UNCHANGED vars
    BY <1>1 DEF vars, server, facts, Still, Moves
  <1>2. ASSUME NEW t \in Tab, NEW s \in Session, Listen(t, s) PROVE Moves
    BY <1>2, ListenMoves DEF Moves
  <1>3. ASSUME NEW t \in Tab, WriteProgress(t) \/ RecordPost(t) \/ RequestClear(t) PROVE Moves
    BY <1>3, WriteProgressMoves, ServerMoves DEF Moves
  <1>4. CASE ClearElsewhere \/ RecordLate \/ \E f \in Family : RecordElsewhere(f)
    BY <1>4, ServerMoves DEF Moves
  <1> QED  BY <1>1, <1>2, <1>3, <1>4, OtherMoves DEF Next, Write, Moves

\* What a report gains is counted as it is credited.
LEMMA RecordedCount ==
    ASSUME RecordOK, CountedOnce, NEW progress, NEW history,
           history \subseteq MeasuredTotals, Record(progress, history)
    PROVE  CountedOnce'
  <1> DEFINE L == Larger(history)
             total(s) == CHOOSE h \in L : h.session = s
             gained == [s \in Session |-> IF \E h \in L : h.session = s
                                          THEN total(s).seconds - credited[s] ELSE 0]
  <1>1. credited' = [s \in Session |-> credited[s] + gained[s]]
        /\ counted' = counted + SumFunction(gained)
    BY DEF Record
  <1>2. \A h \in L : h.seconds \in Nat /\ h.seconds > credited[h.session]
    BY DEF Larger, MeasuredTotals, SentHistory
  <1>3. ASSUME NEW s \in Session, \E h \in L : h.session = s
        PROVE  total(s) \in L /\ total(s).session = s
    BY <1>3
  <1> HIDE DEF L, total
  <1>4. gained \in [Session -> Nat]
    <2> SUFFICES ASSUME NEW s \in Session, \E h \in L : h.session = s
                 PROVE  total(s).seconds - credited[s] \in Nat
      OBVIOUS
    <2>1. total(s).seconds \in Nat /\ total(s).seconds > credited[s] /\ credited[s] \in Nat
      BY <1>2, <1>3 DEF RecordOK
    <2> QED  BY <2>1
  <1> HIDE DEF gained
  <1>5. SumFunction(credited') = SumFunction(credited) + SumFunction(gained)
    BY <1>1, <1>4, SumsAdd, ReportsAssumption DEF RecordOK
  <1> QED  BY <1>1, <1>5 DEF CountedOnce

\* Every move keeps the count.
LEMMA MovesCount ==
    ASSUME RecordOK, CountedOnce, Moves
    PROVE  CountedOnce'
  <1>1. CASE counted' = counted /\ credited' = credited
    BY <1>1 DEF CountedOnce
  <1>2. CASE Cleared
    <2>1. SumFunction([s \in Session |-> 0]) = 0
      BY SumOfNothing, ReportsAssumption
    <2> QED  BY <1>2, <2>1 DEF Cleared, CountedOnce
  <1>3. ASSUME NEW progress \in SUBSET TakenCheckpoints, NEW history \in SUBSET MeasuredTotals,
               Recorded(progress, history)
        PROVE  CountedOnce'
    BY <1>3, RecordedCount DEF Recorded
  <1> QED  BY <1>1, <1>2, <1>3 DEF Moves, Still, Listened, Took, Elsewhere, server

-----------------------------------------------------------------------------
(* The tabs. *)

\* A tab stays in its epoch and hears of no clear, or begins a new epoch.
Ages(t) ==
    \/ tab'[t].epoch = tab[t].epoch /\ knownClear'[t] = knownClear[t]
    \/ tab'[t].epoch > tab[t].epoch

\* A tab that closes waits for nothing any more.
Forgets(t) == writes'[t] = <<>> /\ post'[t] = NoPost /\ lookups'[t] = {}

\* What a step does to the tabs.
TabStep == TabOK' /\ \A t \in Tab : Ages(t) \/ Forgets(t)

\* A step that changes neither.
LEMMA TabsStay ==
    ASSUME TabOK, generation' \in Nat, generation' >= generation, RecordOK,
           tab' = tab, knownClear' = knownClear
    PROVE  TabStep
  BY DEF TabOK, TabStep, Ages, RecordOK, TabType, Generation, NoGeneration

\* A step of one tab within its epoch.
LEMMA TabChanges ==
    ASSUME TabOK, RecordOK, generation' = generation, knownClear' = knownClear,
           NEW t \in Tab, NEW r \in TabType, tab' = [tab EXCEPT ![t] = r],
           r.epoch = tab[t].epoch, r.generation <= generation,
           r.verified => r.generation >= knownClear[t]
    PROVE  TabStep
  BY DEF TabOK, TabStep, Ages, RecordOK

\* A step that leaves the tab's generation as it is.
LEMMA TabKeepsGeneration ==
    ASSUME TabOK, RecordOK, generation' = generation, knownClear' = knownClear,
           NEW t \in Tab, NEW r \in TabType, tab' = [tab EXCEPT ![t] = r],
           r.epoch = tab[t].epoch, r.generation = tab[t].generation,
           r.verified = tab[t].verified
    PROVE  TabStep
  <1>1. r.generation <= generation /\ (r.verified => r.generation >= knownClear[t])
    BY DEF TabOK
  <1> QED  BY <1>1, TabChanges

\* Hearing of a clear.
LEMMA HearClearTabs ==
    ASSUME TabOK, RecordOK, generation' = generation, NEW t \in Tab, HearClear(t)
    PROVE  TabStep
  <1>1. tab[t] \in TabType
    BY DEF TabOK
  <1> DEFINE later == tab[t].epoch + 1
             r == [tab[t] EXCEPT !.epoch = later, !.lookup = "idle", !.verified = FALSE,
                                 !.generation = NoGeneration]
  <1>2. later \in Nat /\ later > tab[t].epoch
    BY <1>1 DEF TabType
  <1>3. tab' = [tab EXCEPT ![t] = r] /\ knownClear' = [knownClear EXCEPT ![t] = generation]
    BY DEF HearClear
  <1> HIDE DEF later
  <1>4. /\ r.epoch = later /\ r.verified = FALSE /\ r.generation = NoGeneration
        /\ r \in TabType
    BY <1>1, <1>2 DEF TabType, Generation
  <1> HIDE DEF r
  <1>5. TabOK'
    BY <1>3, <1>4 DEF TabOK, RecordOK, NoGeneration
  <1>6. \A u \in Tab : Ages(u)
    BY <1>2, <1>3, <1>4 DEF TabOK, TabType, Ages
  <1> QED  BY <1>5, <1>6 DEF TabStep

\* Closing.
LEMMA CloseTabs ==
    ASSUME IInv, NEW t \in Tab, Close(t)
    PROVE  TabStep
  <1>1. /\ tab' = [tab EXCEPT ![t] = Closed] /\ knownClear' = [knownClear EXCEPT ![t] = 0]
        /\ writes' = [writes EXCEPT ![t] = <<>>] /\ post' = [post EXCEPT ![t] = NoPost]
        /\ lookups' = [lookups EXCEPT ![t] = {}] /\ generation' = generation
    BY DEF Close, server
  <1>2. Closed \in TabType /\ Closed.generation = NoGeneration /\ Closed.verified = FALSE
    BY DEF Closed, TabType, Generation, NoGeneration
  <1>3. TabOK'
    BY <1>1, <1>2 DEF IInv, TabOK, RecordOK, NoGeneration
  <1>4. Forgets(t)
    BY <1>1 DEF IInv, WritesOK, PostOK, LookupsOK, Forgets
  <1>5. \A u \in Tab \ {t} : Ages(u)
    BY <1>1 DEF IInv, TabOK, Ages
  <1> QED  BY <1>3, <1>4, <1>5 DEF TabStep

\* Opening, looking up and flushing leave the generation.
LEMMA PlainTabs ==
    ASSUME IInv, NEW t \in Tab,
           \/ Open(t) \/ VerifyGeneration(t) \/ ReceiveGeneration(t) \/ LookupFails(t)
           \/ WriteClear(t) \/ Flush(t) \/ Send(t) \/ WriteRetry(t) \/ WriteRefused(t)
    PROVE  TabStep
  <1>1. tab[t] \in TabType /\ tab \in [Tab -> TabType]
    BY DEF IInv, TabOK
  <1>2. generation' = generation /\ knownClear' = knownClear
    BY DEF Open, VerifyGeneration, ReceiveGeneration, LookupFails, WriteClear, Flush, Send,
           WriteRetry, WriteRefused, server, facts
  <1>3. \/ tab' = tab
        \/ \E lookup \in {"idle", "pending", "waiting", "blocked"} : tab' = [tab EXCEPT ![t].lookup = lookup]
        \/ \E busy \in BOOLEAN : tab' = [tab EXCEPT ![t].inFlight = busy]
        \/ tab' = [tab EXCEPT ![t].phase = "starting"]
    BY DEF Open, VerifyGeneration, ReceiveGeneration, LookupFails, WriteClear, Flush, Send,
           WriteRetry, WriteRefused
  <1>4. \E r \in TabType : /\ tab' = [tab EXCEPT ![t] = r]
                           /\ r.epoch = tab[t].epoch
                           /\ r.generation = tab[t].generation
                           /\ r.verified = tab[t].verified
    <2>1. CASE tab' = tab
      BY <1>1, <2>1
    <2>2. ASSUME NEW lookup \in {"idle", "pending", "waiting", "blocked"},
                 tab' = [tab EXCEPT ![t].lookup = lookup]
          PROVE  [tab[t] EXCEPT !.lookup = lookup] \in TabType
                 /\ tab' = [tab EXCEPT ![t] = [tab[t] EXCEPT !.lookup = lookup]]
      BY <1>1, <2>2 DEF TabType
    <2>3. ASSUME NEW busy \in BOOLEAN, tab' = [tab EXCEPT ![t].inFlight = busy]
          PROVE  [tab[t] EXCEPT !.inFlight = busy] \in TabType
                 /\ tab' = [tab EXCEPT ![t] = [tab[t] EXCEPT !.inFlight = busy]]
      BY <1>1, <2>3 DEF TabType
    <2>4. ASSUME tab' = [tab EXCEPT ![t].phase = "starting"]
          PROVE  [tab[t] EXCEPT !.phase = "starting"] \in TabType
                 /\ tab' = [tab EXCEPT ![t] = [tab[t] EXCEPT !.phase = "starting"]]
      BY <1>1, <2>4 DEF TabType
    <2> QED  BY <1>1, <1>3, <2>1, <2>2, <2>3, <2>4 DEF TabType
  <1> QED  BY <1>2, <1>4, TabKeepsGeneration DEF IInv

\* A tab starts with the outbox's generation, not yet verified.
LEMMA InitializeTabs ==
    ASSUME IInv, NEW t \in Tab, Initialize(t)
    PROVE  TabStep
  <1>1. tab[t] \in TabType /\ outbox.generation \in Generation /\ outbox.generation <= generation
    BY DEF IInv, TabOK, OutboxOK, GoodOutboxes
  <1> DEFINE g == outbox.generation
             r == [tab[t] EXCEPT !.phase = "ready", !.verified = FALSE, !.generation = g,
                                 !.lookup = "pending"]
  <1>2. tab' = [tab EXCEPT ![t] = r] /\ generation' = generation /\ knownClear' = knownClear
    BY DEF Initialize, server, facts
  <1> HIDE DEF g
  <1>3. r \in TabType /\ r.epoch = tab[t].epoch /\ r.generation = g /\ r.verified = FALSE
    BY <1>1 DEF TabType, g
  <1> HIDE DEF r
  <1> QED  BY <1>1, <1>2, <1>3, TabChanges DEF IInv, g

\* A verified generation has seen the last clear of the tab's epoch.
LEMMA WriteGenerationTabs ==
    ASSUME IInv, NEW t \in Tab, WriteGeneration(t)
    PROVE  TabStep
  <1> DEFINE x == Head(writes[t])
             g == x.generation
  <1>1. x \in VerifyWrites(t)
    BY RunsGood, WriteKinds DEF WriteGeneration
  <1>2. g \in Nat /\ Dated(t, x.epoch, g) /\ tab[t] \in TabType
    BY <1>1 DEF VerifyWrites, IInv, TabOK
  <1>3. generation' = generation /\ knownClear' = knownClear
    BY DEF WriteGeneration, server, facts
  <1>4. \/ tab' = tab
        \/ tab' = [tab EXCEPT ![t].lookup = "waiting"]
        \/ /\ x.epoch = tab[t].epoch
           /\ tab' = [tab EXCEPT ![t] = [tab[t] EXCEPT !.lookup = "idle", !.verified = TRUE,
                                                       !.generation = g]]
    BY DEF WriteGeneration
  <1> HIDE DEF x, g
  <1>5. CASE tab' = tab
    BY <1>3, <1>5, TabsStay DEF IInv, RecordOK
  <1>6. CASE tab' = [tab EXCEPT ![t].lookup = "waiting"]
    <2> DEFINE r == [tab[t] EXCEPT !.lookup = "waiting"]
    <2>1. /\ tab' = [tab EXCEPT ![t] = r] /\ r \in TabType
          /\ r.epoch = tab[t].epoch /\ r.generation = tab[t].generation
          /\ r.verified = tab[t].verified
      BY <1>2, <1>6 DEF TabType
    <2> HIDE DEF r
    <2> QED  BY <1>3, <2>1, TabKeepsGeneration DEF IInv
  <1>7. CASE /\ x.epoch = tab[t].epoch
             /\ tab' = [tab EXCEPT ![t] = [tab[t] EXCEPT !.lookup = "idle", !.verified = TRUE,
                                                         !.generation = g]]
    <2> DEFINE r == [tab[t] EXCEPT !.lookup = "idle", !.verified = TRUE, !.generation = g]
    <2>1. r \in TabType /\ r.epoch = tab[t].epoch /\ r.generation = g
      BY <1>2 DEF TabType, Generation
    <2>2. g <= generation /\ g >= knownClear[t]
      BY <1>2, <1>7 DEF Dated
    <2>3. tab' = [tab EXCEPT ![t] = r]
      BY <1>7
    <2> HIDE DEF r
    <2> QED  BY <1>3, <2>1, <2>2, <2>3, TabChanges DEF IInv
  <1> QED  BY <1>4, <1>5, <1>6, <1>7

\* An answer is followed in the epoch it was asked for in.
LEMMA AcknowledgeTabs ==
    ASSUME IInv, NEW t \in Tab, Acknowledge(t)
    PROVE  TabStep
  <1> DEFINE x == Head(writes[t])
             g == x.generation
             follow == x.epoch = tab[t].epoch /\ g >= tab[t].generation
             r == [tab[t] EXCEPT !.inFlight = FALSE,
                                 !.verified = tab[t].verified \/ follow,
                                 !.generation = IF follow THEN g ELSE tab[t].generation]
  <1>1. x \in AcknowledgeWrites(t)
    BY RunsGood, WriteKinds DEF Acknowledge
  <1>2. g \in Nat /\ Dated(t, x.epoch, g) /\ tab[t] \in TabType
    BY <1>1 DEF AcknowledgeWrites, IInv, TabOK
  <1>3. generation' = generation /\ knownClear' = knownClear
    BY DEF Acknowledge, server, facts
  <1>4. tab' = [tab EXCEPT ![t] = r]
    BY DEF Acknowledge
  <1> HIDE DEF x, g
  <1>5. CASE follow
    <2>1. r \in TabType /\ r.epoch = tab[t].epoch /\ r.generation = g
      <3> HIDE DEF follow
      <3> QED  BY <1>2, <1>5 DEF TabType, Generation
    <2>2. g <= generation /\ g >= knownClear[t]
      BY <1>2, <1>5 DEF Dated
    <2> HIDE DEF r, follow
    <2> QED  BY <1>3, <1>4, <2>1, <2>2, TabChanges DEF IInv
  <1>6. CASE ~follow
    <2>1. /\ r \in TabType /\ r.epoch = tab[t].epoch /\ r.generation = tab[t].generation
          /\ r.verified = tab[t].verified
      <3> HIDE DEF follow
      <3> QED  BY <1>2, <1>6 DEF TabType
    <2> HIDE DEF r, follow
    <2> QED  BY <1>3, <1>4, <2>1, TabKeepsGeneration DEF IInv
  <1> QED  BY <1>5, <1>6

\* The steps that leave all tabs alone.
LEMMA IdleTabs ==
    ASSUME NEW t \in Tab,
           \/ WriteHistory(t) \/ WriteProgress(t)
           \/ (\E s \in Session : Listen(t, s)) \/ EndSession(t)
           \/ (\E x \in Work : StageProgress(t, x))
           \/ AnswerLookup(t) \/ RequestClear(t) \/ LoseClear(t)
           \/ RecordPost(t) \/ ReceiveAnswer(t) \/ LosePost(t) \/ RefusePost(t)
           \/ ClearElsewhere \/ RecordLate
           \/ \E f \in Family : RecordElsewhere(f)
    PROVE  tab' = tab /\ knownClear' = knownClear
  <1>1. CASE WriteHistory(t) \/ WriteProgress(t)
    BY <1>1 DEF facts, WriteHistory, WriteProgress
  <1>2. CASE \/ (\E s \in Session : Listen(t, s)) \/ EndSession(t)
             \/ (\E x \in Work : StageProgress(t, x))
             \/ AnswerLookup(t) \/ RequestClear(t) \/ LoseClear(t)
    BY <1>2 DEF Listen, EndSession, StageProgress, AnswerLookup, RequestClear, LoseClear, client, facts
  <1>3. CASE \/ RecordPost(t) \/ ReceiveAnswer(t) \/ LosePost(t) \/ RefusePost(t)
             \/ ClearElsewhere \/ RecordLate
             \/ \E f \in Family : RecordElsewhere(f)
    BY <1>3 DEF RecordPost, ReceiveAnswer, LosePost, RefusePost, ClearElsewhere, RecordLate,
                RecordElsewhere, client, facts
  <1> QED  BY <1>1, <1>2, <1>3

\* So every step keeps the tabs.
LEMMA NextTabs ==
    ASSUME IInv, [Next]_vars
    PROVE  TabStep
  <1>1. RecordOK /\ TabOK /\ generation' \in Nat /\ generation' >= generation
    BY NextMoves, MovesGrown DEF IInv, Grown
  <1>2. CASE tab' = tab /\ knownClear' = knownClear
    BY <1>1, <1>2, TabsStay
  <1>3. CASE UNCHANGED vars
    BY <1>2, <1>3 DEF vars, client, facts
  <1>4. ASSUME NEW t \in Tab,
               \/ Open(t) \/ VerifyGeneration(t) \/ ReceiveGeneration(t) \/ LookupFails(t)
               \/ WriteClear(t) \/ Flush(t) \/ Send(t) \/ WriteRetry(t) \/ WriteRefused(t)
        PROVE  TabStep
    BY <1>4, PlainTabs
  <1>5. ASSUME NEW t \in Tab, AnnounceClear(t) \/ ReceiveNotice(t) PROVE TabStep
    <2>1. HearClear(t) /\ generation' = generation
      BY <1>5 DEF AnnounceClear, ReceiveNotice, server
    <2> QED  BY <1>1, <2>1, HearClearTabs
  <1>6. ASSUME NEW t \in Tab,
               \/ Close(t) \/ Initialize(t) \/ WriteGeneration(t) \/ Acknowledge(t)
        PROVE  TabStep
    BY <1>6, CloseTabs, InitializeTabs, WriteGenerationTabs, AcknowledgeTabs
  <1>7. ASSUME NEW t \in Tab,
               \/ WriteHistory(t) \/ WriteProgress(t)
               \/ (\E s \in Session : Listen(t, s)) \/ EndSession(t)
               \/ (\E x \in Work : StageProgress(t, x))
               \/ AnswerLookup(t) \/ RequestClear(t) \/ LoseClear(t)
               \/ RecordPost(t) \/ ReceiveAnswer(t) \/ LosePost(t) \/ RefusePost(t)
        PROVE  TabStep
    BY <1>2, <1>7, IdleTabs
  <1>8. CASE ClearElsewhere \/ RecordLate \/ \E f \in Family : RecordElsewhere(f)
    <2>1. tab' = tab /\ knownClear' = knownClear
      BY <1>8 DEF ClearElsewhere, RecordLate, RecordElsewhere, client, facts
    <2> QED  BY <1>2, <2>1
  <1> QED  BY <1>3, <1>4, <1>5, <1>6, <1>7, <1>8 DEF Next, Write

-----------------------------------------------------------------------------
(* What is on its way stays good. *)

\* Nothing that was taken is taken back.
LEMMA TakenGrows ==
    ASSUME Moves
    PROVE  taken \subseteq taken'
  BY DEF Moves, Still, Listened, Took, Cleared, Recorded, Elsewhere

\* A generation read for a tab stays dated as long as the tab is open.
LEMMA DatedGrows ==
    ASSUME RecordOK, TabOK, TabOK', Grown, NEW t \in Tab, Ages(t),
           NEW e \in Nat, NEW g \in Nat, Dated(t, e, g)
    PROVE  Dated(t, e, g)'
  <1>1. tab[t].epoch \in Nat /\ tab'[t].epoch \in Nat
    BY DEF TabOK, TabType
  <1>2. generation \in Nat /\ generation' \in Nat /\ generation' >= generation
    BY DEF RecordOK, Grown
  <1> QED  BY <1>1, <1>2 DEF Dated, Ages

\* Outboxes, answers and reports whose tab no longer waits.
LEMMA SharedGrows ==
    ASSUME RecordOK, Grown, taken \subseteq taken'
    PROVE  /\ GoodOutboxes \subseteq GoodOutboxes'
           /\ Answers \subseteq Answers'
           /\ GoodLate \subseteq GoodLate'
           /\ HistoryWrites \subseteq HistoryWrites'
  <1>1. Answers \subseteq Answers' /\ GoodLate \subseteq GoodLate'
    BY DEF Grown, Answers, GoodLate
  <1>2. \A s \in Session : heard[s] \in Nat /\ (heard[s] > 0 => tag'[s] = tag[s] /\ heard'[s] >= heard[s])
    BY DEF RecordOK, Grown
  <1>3. \A s \in Session, n \in Nat : 1 <= n /\ n <= heard[s] =>
           n <= heard'[s] /\ tag'[s] = tag[s]
    <2> SUFFICES ASSUME NEW s \in Session, NEW n \in Nat, 1 <= n, n <= heard[s]
                 PROVE  n <= heard'[s] /\ tag'[s] = tag[s]
      OBVIOUS
    <2>1. [session |-> s, seconds |-> n] \in MeasuredTotals
      BY DEF MeasuredTotals, SentHistory
    <2>2. [session |-> s, seconds |-> n] \in MeasuredTotals'
      BY <2>1 DEF Grown
    <2>3. n <= heard'[s]
      BY <2>2 DEF MeasuredTotals
    <2> QED  BY <1>2, <2>3
  <1>4. ASSUME NEW o \in GoodOutboxes PROVE o \in GoodOutboxes'
    <2>1. o \in [generation : Generation, order : Nat,
                 progress : SUBSET ProgressEntry, history : SUBSET HistoryEntry]
      BY DEF GoodOutboxes
    <2>2. o.generation <= generation'
      <3>1. o.generation <= generation /\ o.generation \in Int
        BY <2>1 DEF GoodOutboxes, Generation, NoGeneration
      <3> QED  BY <3>1 DEF Grown, RecordOK
    <2>3. \A e \in o.progress : <<FamilyOf[e.work], e.order>> \in taken'
      BY DEF GoodOutboxes
    <2>4. ASSUME NEW e \in o.history
          PROVE  1 <= e.seconds /\ e.seconds <= heard'[e.session] /\ tag'[e.session] = o.generation
      <3>1. e.session \in Session /\ e.seconds \in Nat
        BY <2>1 DEF HistoryEntry
      <3>2. 1 <= e.seconds /\ e.seconds <= heard[e.session] /\ tag[e.session] = o.generation
        BY DEF GoodOutboxes
      <3> QED  BY <1>3, <3>1, <3>2
    <2>5. \A e, x \in o.history : e.session = x.session => e = x
      BY DEF GoodOutboxes
    <2> QED  BY <2>1, <2>2, <2>3, <2>4, <2>5 DEF GoodOutboxes
  <1>5. ASSUME NEW x \in HistoryWrites PROVE x \in HistoryWrites'
    <2>1. x \in [op : {"history"}, session : Session, seconds : Nat] /\ 1 <= x.seconds
          /\ x.seconds <= heard[x.session] /\ x.session \in Session /\ x.seconds \in Nat
      BY DEF HistoryWrites
    <2> QED  BY <1>3, <2>1 DEF HistoryWrites
  <1> QED  BY <1>1, <1>4, <1>5

\* Writes, reports and lookups of a tab that stays open.
LEMMA GoodGrows ==
    ASSUME RecordOK, TabOK, TabOK', Grown, taken \subseteq taken', NEW t \in Tab, Ages(t)
    PROVE  /\ GoodWrites(t) \subseteq GoodWrites(t)'
           /\ GoodPosts(t) \subseteq GoodPosts(t)'
           /\ GoodLookups(t) \subseteq GoodLookups(t)'
  <1>1. \A e, g \in Nat : Dated(t, e, g) => Dated(t, e, g)'
    BY DatedGrows
  <1>2. tab[t].epoch \in Nat /\ tab'[t].epoch \in Nat /\ tab[t].epoch <= tab'[t].epoch
    BY DEF TabOK, TabType, Ages
  <1>3. ProgressAcks \subseteq ProgressAcks' /\ HistoryAcks \subseteq HistoryAcks'
        /\ TakenCheckpoints \subseteq TakenCheckpoints' /\ MeasuredTotals \subseteq MeasuredTotals'
        /\ Answers \subseteq Answers' /\ HistoryWrites \subseteq HistoryWrites'
    BY SharedGrows DEF Grown
  <1>4. VerifyWrites(t) \subseteq VerifyWrites(t)'
    <2> SUFFICES ASSUME NEW x \in VerifyWrites(t) PROVE x \in VerifyWrites(t)'
      OBVIOUS
    <2>1. x \in [op : {"verify"}, epoch : Nat, generation : Nat] /\ Dated(t, x.epoch, x.generation)
      BY DEF VerifyWrites
    <2>2. Dated(t, x.epoch, x.generation)'
      BY <1>1, <2>1
    <2> QED  BY <2>1, <2>2 DEF VerifyWrites, Dated
  <1>5. FlushWrites(t) \subseteq FlushWrites(t)'
    BY <1>2 DEF FlushWrites
  <1>6. AcknowledgeWrites(t) \subseteq AcknowledgeWrites(t)'
    <2> SUFFICES ASSUME NEW x \in AcknowledgeWrites(t) PROVE x \in AcknowledgeWrites(t)'
      OBVIOUS
    <2>1. /\ x \in [op : {"acknowledge"}, epoch : Nat, generation : Nat,
                    progress : SUBSET ProgressAcks, history : SUBSET HistoryAcks]
          /\ Dated(t, x.epoch, x.generation)
      BY DEF AcknowledgeWrites
    <2>2. Dated(t, x.epoch, x.generation)'
      BY <1>1, <2>1
    <2> QED  BY <1>3, <2>1, <2>2 DEF AcknowledgeWrites, Dated
  <1>7. GoodPosts(t) \subseteq GoodPosts(t)'
    <2> SUFFICES ASSUME NEW p \in GoodPosts(t) PROVE p \in GoodPosts(t)'
      OBVIOUS
    <2>1. /\ p \in [progress : SUBSET TakenCheckpoints, history : SUBSET MeasuredTotals,
                    epoch : Nat, answer : SUBSET Answers]
          /\ p.epoch <= tab[t].epoch
          /\ \A h, k \in p.history : h.session = k.session => h = k
          /\ \A a \in p.answer : Dated(t, p.epoch, a.generation)
      BY DEF GoodPosts
    <2>2. \A a \in p.answer : Dated(t, p.epoch, a.generation)'
      <3>1. \A a \in p.answer : a.generation \in Nat
        BY <2>1 DEF Answers
      <3> QED  BY <1>1, <2>1, <3>1
    <2>3. p.epoch <= tab'[t].epoch
      BY <1>2, <2>1
    <2> QED  BY <1>3, <2>1, <2>2, <2>3 DEF GoodPosts, Dated
  <1>8. GoodLookups(t) \subseteq GoodLookups(t)'
    <2> SUFFICES ASSUME NEW l \in GoodLookups(t) PROVE l \in GoodLookups(t)'
      OBVIOUS
    <2>1. /\ l \in [epoch : Nat, answer : Generation] /\ l.epoch <= tab[t].epoch
          /\ l.answer # NoGeneration => l.answer \in Nat /\ Dated(t, l.epoch, l.answer)
      BY DEF GoodLookups, Generation
    <2>2. l.answer # NoGeneration => Dated(t, l.epoch, l.answer)'
      BY <1>1, <2>1
    <2>3. l.epoch <= tab'[t].epoch
      BY <1>2, <2>1
    <2> QED  BY <2>1, <2>2, <2>3 DEF GoodLookups, Dated
  <1>9. GoodWrites(t) \subseteq GoodWrites(t)'
    BY <1>3, <1>4, <1>5, <1>6 DEF GoodWrites, PlainWrites, RefuseWrites
  <1> QED  BY <1>7, <1>8, <1>9

\* What a step does to what is on its way.
Growth ==
    /\ RecordOK' /\ TabOK'
    /\ Grown /\ taken \subseteq taken'
    /\ \A t \in Tab :
          \/ Forgets(t)
          \/ /\ GoodWrites(t) \subseteq GoodWrites(t)'
             /\ GoodPosts(t) \subseteq GoodPosts(t)'
             /\ GoodLookups(t) \subseteq GoodLookups(t)'

\* Every step keeps it.
LEMMA NextGrows ==
    ASSUME IInv, [Next]_vars
    PROVE  Growth
  <1>1. RecordOK' /\ Grown /\ taken \subseteq taken'
    BY NextMoves, MovesGrown, TakenGrows DEF IInv
  <1>2. TabStep
    BY NextTabs
  <1> QED  BY <1>1, <1>2, GoodGrows DEF Growth, TabStep, IInv

-----------------------------------------------------------------------------
(* The chains of writes. *)

\* A chain that runs a write, or takes a good one, or is dropped, stays good.
LEMMA ChainsStay ==
    ASSUME WritesOK, Growth, NEW t \in Tab,
           \/ writes' = writes
           \/ writes[t] # <<>> /\ writes' = [writes EXCEPT ![t] = Tail(writes[t])]
           \/ \E x \in GoodWrites(t) \union HistoryWrites' : Queue(t, x)
           \/ writes' = [writes EXCEPT ![t] = <<>>]
    PROVE  WritesOK'
  <1>1. \A u \in Tab : writes[u] \in Seq(GoodWrites(u))
    BY DEF WritesOK
  <1>2. writes = [u \in Tab |-> writes[u]]
    BY DEF WritesOK
  <1>3. writes' = [u \in Tab |-> writes'[u]]
    BY <1>2 DEF Queue
  <1>4. ASSUME NEW u \in Tab PROVE writes'[u] \in Seq(GoodWrites(u)')
    <2>1. CASE writes'[u] = <<>>
      BY <2>1, EmptySeq
    <2>2. CASE Forgets(u)
      BY <2>1, <2>2 DEF Forgets
    <2>3. CASE ~Forgets(u)
      <3>1. GoodWrites(u) \subseteq GoodWrites(u)'
        BY <2>3 DEF Growth
      <3>2. writes[u] \in Seq(GoodWrites(u)')
        BY <1>1, <3>1, SeqMonotonic
      <3>3. CASE writes'[u] = writes[u]
        BY <3>2, <3>3
      <3>4. CASE writes[u] # <<>> /\ writes'[u] = Tail(writes[u])
        BY <3>2, <3>4, HeadTailProperties
      <3>5. ASSUME NEW x \in GoodWrites(u) \union HistoryWrites',
                   writes'[u] = Append(writes[u], x)
            PROVE  writes'[u] \in Seq(GoodWrites(u)')
        <4>1. x \in GoodWrites(u)'
          BY <3>1, <3>5 DEF GoodWrites
        <4> QED  BY <3>2, <3>5, <4>1, AppendProperties
      <3>6. CASE u # t
        BY <1>2, <3>3, <3>6 DEF Queue
      <3>7. CASE u = t
        <4>1. \/ writes'[u] = writes[u] \/ writes'[u] = <<>>
              \/ writes[u] # <<>> /\ writes'[u] = Tail(writes[u])
              \/ \E x \in GoodWrites(u) \union HistoryWrites' : writes'[u] = Append(writes[u], x)
          BY <1>2, <3>7 DEF Queue
        <4> QED  BY <2>1, <3>3, <3>4, <3>5, <4>1
      <3> QED  BY <3>6, <3>7
    <2> QED  BY <2>2, <2>3
  <1> QED  BY <1>3, <1>4 DEF WritesOK

\* A chain from which a write runs.
LEMMA RunsOne ==
    ASSUME NEW t \in Tab,
           \/ Initialize(t) \/ WriteHistory(t) \/ WriteProgress(t) \/ WriteGeneration(t)
           \/ WriteClear(t) \/ Send(t) \/ Acknowledge(t) \/ WriteRetry(t) \/ WriteRefused(t)
    PROVE  /\ writes[t] # <<>>
           /\ writes' = [writes EXCEPT ![t] = Tail(writes[t])]
  BY DEF Initialize, WriteHistory, WriteProgress, WriteGeneration, WriteClear, Send, Acknowledge,
         WriteRetry, WriteRefused, Runs

\* Every write that is queued is a good one.
LEMMA QueuesGood ==
    ASSUME IInv, Growth, NEW t \in Tab,
           \/ Open(t) \/ (\E s \in Session : Listen(t, s)) \/ (\E x \in Work : StageProgress(t, x))
           \/ ReceiveGeneration(t) \/ AnnounceClear(t) \/ ReceiveNotice(t)
           \/ Flush(t) \/ ReceiveAnswer(t) \/ LosePost(t) \/ RefusePost(t)
    PROVE  \/ writes' = writes
           \/ \E x \in GoodWrites(t) \union HistoryWrites' : Queue(t, x)
  <1>1. \A op \in {"initialize", "clear", "retry"} : [op |-> op] \in GoodWrites(t)
    BY DEF GoodWrites, PlainWrites
  <1>2. CASE Open(t) \/ AnnounceClear(t) \/ ReceiveNotice(t) \/ LosePost(t)
    BY <1>1, <1>2 DEF Open, AnnounceClear, ReceiveNotice, LosePost, HearClear
  <1>3. ASSUME NEW x \in Work, StageProgress(t, x)
        PROVE  \E y \in GoodWrites(t) : Queue(t, y)
    <2>1. [op |-> "progress", work |-> x] \in GoodWrites(t)
      BY DEF GoodWrites, PlainWrites
    <2> QED  BY <1>3, <2>1 DEF StageProgress
  <1>4. ASSUME NEW s \in Session, Listen(t, s)
        PROVE  \E y \in HistoryWrites' : Queue(t, y)
    <2> DEFINE n == heard[s] + 1
    <2>1. n \in Nat /\ 1 <= n /\ heard'[s] = n
      BY <1>4 DEF Listen, IInv, RecordOK
    <2>2. Queue(t, [op |-> "history", session |-> s, seconds |-> n])
      BY <1>4 DEF Listen
    <2> HIDE DEF n
    <2>3. [op |-> "history", session |-> s, seconds |-> n] \in HistoryWrites'
      BY <2>1 DEF HistoryWrites
    <2> QED  BY <2>2, <2>3
  <1>5. CASE Flush(t)
    <2>1. [op |-> "flush", epoch |-> tab[t].epoch] \in GoodWrites(t)
      BY DEF IInv, TabOK, TabType, GoodWrites, FlushWrites
    <2> QED  BY <1>5, <2>1 DEF Flush
  <1>6. CASE ReceiveGeneration(t)
    <2>1. PICK l \in lookups[t] :
             /\ l.answer # NoGeneration
             /\ \/ writes' = writes
                \/ Queue(t, [op |-> "verify", epoch |-> l.epoch, generation |-> l.answer])
      BY <1>6 DEF ReceiveGeneration
    <2>2. l.epoch \in Nat /\ l.answer \in Nat /\ Dated(t, l.epoch, l.answer)
      BY <2>1 DEF IInv, LookupsOK, GoodLookups, Generation
    <2>3. [op |-> "verify", epoch |-> l.epoch, generation |-> l.answer] \in GoodWrites(t)
      BY <2>2 DEF GoodWrites, VerifyWrites
    <2> QED  BY <2>1, <2>3
  <1>7. CASE ReceiveAnswer(t)
    <2>1. PICK a \in post[t].answer :
             Queue(t, [op |-> "acknowledge", epoch |-> post[t].epoch,
                       generation |-> a.generation,
                       progress |-> a.progress, history |-> a.history])
      BY <1>7 DEF ReceiveAnswer
    <2>2. post[t] \in GoodPosts(t)
      BY <1>7 DEF ReceiveAnswer, IInv, PostOK
    <2>3. a \in Answers /\ post[t].epoch \in Nat /\ Dated(t, post[t].epoch, a.generation)
      BY <2>1, <2>2 DEF GoodPosts
    <2>4. [op |-> "acknowledge", epoch |-> post[t].epoch, generation |-> a.generation,
           progress |-> a.progress, history |-> a.history] \in GoodWrites(t)
      BY <2>3 DEF Answers, GoodWrites, AcknowledgeWrites
    <2> QED  BY <2>1, <2>4
  <1>8. CASE RefusePost(t)
    <2>1. post[t] \in GoodPosts(t)
      BY <1>8 DEF RefusePost, IInv, PostOK
    <2>2. post[t].progress \subseteq SentProgress /\ post[t].history \subseteq SentHistory
      BY <2>1 DEF GoodPosts, TakenCheckpoints, MeasuredTotals
    <2>3. [op |-> "refuse", progress |-> post[t].progress, history |-> post[t].history]
            \in GoodWrites(t)
      BY <2>2 DEF GoodWrites, RefuseWrites
    <2> QED  BY <1>8, <2>3 DEF RefusePost
  <1> QED  BY <1>2, <1>3, <1>4, <1>5, <1>6, <1>7, <1>8

\* So every step keeps the chains.
LEMMA NextWrites ==
    ASSUME IInv, Growth, [Next]_vars
    PROVE  WritesOK'
  <1>1. WritesOK
    BY DEF IInv
  <1>2. CASE writes' = writes
    <2>1. CASE Tab = {}
      BY <1>1, <1>2, <2>1 DEF WritesOK
    <2>2. ASSUME NEW t \in Tab PROVE WritesOK'
      BY <1>1, <1>2, ChainsStay
    <2> QED  BY <2>1, <2>2
  <1>3. CASE \/ UNCHANGED vars
             \/ ClearElsewhere \/ RecordLate \/ \E f \in Family : RecordElsewhere(f)
    BY <1>2, <1>3 DEF vars, client, ClearElsewhere, RecordLate, RecordElsewhere
  <1>4. ASSUME NEW t \in Tab,
               \/ EndSession(t) \/ VerifyGeneration(t) \/ AnswerLookup(t) \/ LookupFails(t)
               \/ RequestClear(t) \/ LoseClear(t) \/ RecordPost(t)
        PROVE  WritesOK'
    BY <1>2, <1>4 DEF EndSession, VerifyGeneration, AnswerLookup, LookupFails, RequestClear,
                      LoseClear, RecordPost, client
  <1>5. ASSUME NEW t \in Tab, Close(t) PROVE WritesOK'
    BY <1>1, <1>5, ChainsStay DEF Close
  <1>6. ASSUME NEW t \in Tab,
               \/ Initialize(t) \/ WriteHistory(t) \/ WriteProgress(t) \/ WriteGeneration(t)
               \/ WriteClear(t) \/ Send(t) \/ Acknowledge(t) \/ WriteRetry(t) \/ WriteRefused(t)
        PROVE  WritesOK'
    BY <1>1, <1>6, RunsOne, ChainsStay
  <1>7. ASSUME NEW t \in Tab,
               \/ Open(t) \/ (\E s \in Session : Listen(t, s)) \/ (\E x \in Work : StageProgress(t, x))
               \/ ReceiveGeneration(t) \/ AnnounceClear(t) \/ ReceiveNotice(t)
               \/ Flush(t) \/ ReceiveAnswer(t) \/ LosePost(t) \/ RefusePost(t)
        PROVE  WritesOK'
    BY <1>1, <1>7, QueuesGood, ChainsStay
  <1> QED  BY <1>3, <1>4, <1>5, <1>6, <1>7 DEF Next, Write

-----------------------------------------------------------------------------
(* Lookups, and reports nobody waits for. *)

\* Lookups that are good after the step.
LEMMA LookupsStay ==
    ASSUME LookupsOK, Growth, NEW t \in Tab, NEW L,
           lookups' = lookups \/ lookups' = [lookups EXCEPT ![t] = L],
           ~Forgets(t) => L \subseteq GoodLookups(t) \union GoodLookups(t)'
    PROVE  LookupsOK'
  <1>1. lookups' = [u \in Tab |-> lookups'[u]]
    BY DEF LookupsOK
  <1>2. ASSUME NEW u \in Tab PROVE lookups'[u] \subseteq GoodLookups(u)'
    <2>1. CASE Forgets(u)
      BY <2>1 DEF Forgets
    <2>2. CASE ~Forgets(u)
      <3>1. GoodLookups(u) \subseteq GoodLookups(u)' /\ lookups[u] \subseteq GoodLookups(u)
        BY <2>2 DEF Growth, LookupsOK
      <3>2. lookups'[u] = lookups[u] \/ (u = t /\ lookups'[u] = L)
        BY DEF LookupsOK
      <3> QED  BY <2>2, <3>1, <3>2
    <2> QED  BY <2>1, <2>2
  <1> QED  BY <1>1, <1>2 DEF LookupsOK

\* A lookup that starts is good in the tab's epoch.
LEMMA LookupStarts ==
    ASSUME IInv, NEW t \in Tab
    PROVE  [epoch |-> tab[t].epoch, answer |-> NoGeneration] \in GoodLookups(t)
  BY DEF IInv, TabOK, TabType, GoodLookups, Generation

\* A lookup is answered with the record's generation.
LEMMA LookupAnswered ==
    ASSUME IInv, NEW t \in Tab, NEW l \in lookups[t]
    PROVE  [l EXCEPT !.answer = generation] \in GoodLookups(t)
  <1>1. l \in [epoch : Nat, answer : Generation] /\ l.epoch <= tab[t].epoch
    BY DEF IInv, LookupsOK, GoodLookups
  <1>2. generation \in Nat /\ knownClear[t] <= generation /\ knownClear[t] \in Nat
    BY DEF IInv, TabOK, RecordOK
  <1>3. [l EXCEPT !.answer = generation] \in [epoch : Nat, answer : Generation]
    BY <1>1, <1>2 DEF Generation
  <1> QED  BY <1>1, <1>2, <1>3 DEF GoodLookups, Dated

\* So every step keeps the lookups.
LEMMA NextLookups ==
    ASSUME IInv, Growth, [Next]_vars
    PROVE  LookupsOK'
  <1>1. LookupsOK /\ \A t \in Tab : lookups[t] \subseteq GoodLookups(t)
    BY DEF IInv, LookupsOK
  <1>2. CASE lookups' = lookups
    <2>1. CASE Tab = {}
      BY <1>1, <1>2, <2>1 DEF LookupsOK
    <2>2. ASSUME NEW t \in Tab PROVE LookupsOK'
      BY <1>1, <1>2, LookupsStay
    <2> QED  BY <2>1, <2>2
  <1>3. CASE \/ UNCHANGED vars
             \/ ClearElsewhere \/ RecordLate \/ \E f \in Family : RecordElsewhere(f)
    BY <1>2, <1>3 DEF vars, network, ClearElsewhere, RecordLate, RecordElsewhere
  <1>4. ASSUME NEW t \in Tab,
               \/ Open(t) \/ (\E s \in Session : Listen(t, s)) \/ EndSession(t)
               \/ (\E x \in Work : StageProgress(t, x))
               \/ WriteHistory(t) \/ WriteProgress(t) \/ WriteGeneration(t)
               \/ Send(t) \/ Acknowledge(t) \/ WriteRetry(t) \/ WriteRefused(t)
        PROVE  LookupsOK'
    BY <1>2, <1>4 DEF Open, Listen, EndSession, StageProgress, WriteHistory, WriteProgress,
                      WriteGeneration, Send, Acknowledge, WriteRetry, WriteRefused, network
  <1>5. ASSUME NEW t \in Tab,
               \/ RequestClear(t) \/ AnnounceClear(t) \/ LoseClear(t) \/ ReceiveNotice(t)
               \/ Flush(t) \/ RecordPost(t) \/ ReceiveAnswer(t) \/ LosePost(t) \/ RefusePost(t)
        PROVE  LookupsOK'
    BY <1>2, <1>5 DEF RequestClear, AnnounceClear, LoseClear, ReceiveNotice, Flush, RecordPost,
                      ReceiveAnswer, LosePost, RefusePost, network
  <1>6. ASSUME NEW t \in Tab, Close(t) PROVE LookupsOK'
    BY <1>1, <1>6, LookupsStay DEF Close
  <1>7. ASSUME NEW t \in Tab, Initialize(t) \/ VerifyGeneration(t) \/ WriteClear(t)
        PROVE  LookupsOK'
    <2> DEFINE l == [epoch |-> tab[t].epoch, answer |-> NoGeneration]
               L == lookups[t] \union {l}
    <2>1. lookups' = lookups \/ lookups' = [lookups EXCEPT ![t] = L]
      BY <1>7 DEF Initialize, VerifyGeneration, WriteClear
    <2>2. L \subseteq GoodLookups(t)
      BY <1>1, LookupStarts
    <2> HIDE DEF L
    <2> QED  BY <1>1, <2>1, <2>2, LookupsStay
  <1>8. ASSUME NEW t \in Tab, AnswerLookup(t) PROVE LookupsOK'
    <2>1. PICK l \in lookups[t] :
             lookups' = [lookups EXCEPT
                ![t] = (lookups[t] \ {l}) \union {[l EXCEPT !.answer = generation]}]
      BY <1>8 DEF AnswerLookup
    <2> DEFINE L == (lookups[t] \ {l}) \union {[l EXCEPT !.answer = generation]}
    <2>2. L \subseteq GoodLookups(t)
      BY <1>1, LookupAnswered
    <2> HIDE DEF L
    <2> QED  BY <1>1, <2>1, <2>2, LookupsStay DEF L
  <1>9. ASSUME NEW t \in Tab, ReceiveGeneration(t) \/ LookupFails(t) PROVE LookupsOK'
    <2>1. PICK l \in lookups[t] : lookups' = [lookups EXCEPT ![t] = lookups[t] \ {l}]
      BY <1>9 DEF ReceiveGeneration, LookupFails
    <2>2. lookups[t] \ {l} \subseteq GoodLookups(t)
      BY <1>1
    <2> QED  BY <1>1, <2>1, <2>2, LookupsStay
  <1> QED  BY <1>3, <1>4, <1>5, <1>6, <1>7, <1>8, <1>9 DEF Next, Write

\* Every step keeps the reports nobody waits for.
LEMMA NextLate ==
    ASSUME IInv, Growth, [Next]_vars
    PROVE  LateOK'
  <1>1. GoodLate \subseteq GoodLate'
    BY SharedGrows DEF IInv, Growth
  <1>2. late' \subseteq GoodLate
    <2>1. ASSUME NEW t \in Tab, Abandon(t) PROVE late' \subseteq GoodLate
      <3>1. post[t] # NoPost => post[t].progress \subseteq TakenCheckpoints
                                /\ post[t].history \subseteq MeasuredTotals
        BY DEF IInv, PostOK, GoodPosts
      <3> QED  BY <2>1, <3>1 DEF Abandon, IInv, LateOK, GoodLate
    <2>2. ASSUME NEW t \in Tab, Close(t) \/ LosePost(t) PROVE late' \subseteq GoodLate
      BY <2>1, <2>2 DEF Close, LosePost
    <2>3. late' \subseteq late => late' \subseteq GoodLate
      BY DEF IInv, LateOK
    <2>4. CASE \/ UNCHANGED vars
               \/ ClearElsewhere \/ RecordLate \/ \E f \in Family : RecordElsewhere(f)
      BY <2>3, <2>4 DEF vars, network, ClearElsewhere, RecordLate, RecordElsewhere
    <2>5. ASSUME NEW t \in Tab,
                 \/ Open(t) \/ (\E s \in Session : Listen(t, s)) \/ EndSession(t)
                 \/ (\E x \in Work : StageProgress(t, x)) \/ Initialize(t) \/ WriteClear(t)
                 \/ WriteHistory(t) \/ WriteProgress(t) \/ WriteGeneration(t)
                 \/ Send(t) \/ Acknowledge(t) \/ WriteRetry(t) \/ WriteRefused(t)
          PROVE  late' \subseteq GoodLate
      BY <2>3, <2>5 DEF Open, Listen, EndSession, StageProgress, Initialize, WriteClear,
           WriteHistory, WriteProgress, WriteGeneration, Send, Acknowledge, WriteRetry,
           WriteRefused, network
    <2>6. ASSUME NEW t \in Tab,
                 \/ RequestClear(t) \/ AnnounceClear(t) \/ LoseClear(t) \/ ReceiveNotice(t)
                 \/ VerifyGeneration(t) \/ AnswerLookup(t) \/ ReceiveGeneration(t) \/ LookupFails(t)
                 \/ Flush(t) \/ RecordPost(t) \/ ReceiveAnswer(t) \/ RefusePost(t)
          PROVE  late' \subseteq GoodLate
      BY <2>3, <2>6 DEF RequestClear, AnnounceClear, LoseClear, ReceiveNotice, VerifyGeneration,
           AnswerLookup, ReceiveGeneration, LookupFails, Flush, RecordPost, ReceiveAnswer,
           RefusePost, network
    <2> QED  BY <2>2, <2>4, <2>5, <2>6 DEF Next, Write
  <1> QED  BY <1>1, <1>2 DEF LateOK

-----------------------------------------------------------------------------
(* Reports in flight. *)

\* What the server answers about a report is true of the record it leaves.
LEMMA AnswerGood ==
    ASSUME IInv, NEW progress, NEW history, NEW early,
           progress \subseteq TakenCheckpoints, history \subseteq MeasuredTotals,
           \A h, k \in history : h.session = k.session => h = k,
           Recorded(progress, history)
    PROVE  Answer(progress, history, early) \in Answers'
  <1> DEFINE a == Answer(progress, history, early)
  <1>1. UNCHANGED <<generation, tag, heard, taken>>
    BY DEF Recorded, Record
  <1>2. a.progress \subseteq ProgressAcks'
    <2> SUFFICES ASSUME NEW p \in progress
                 PROVE  [work |-> p.work, order |-> p.order,
                         status |-> ProgressStatus(p, progress, early)] \in ProgressAcks'
      BY DEF Answer
    <2> DEFINE st == ProgressStatus(p, progress, early)
               x == [work |-> p.work, order |-> p.order, status |-> st]
    <2>1. p \in SentProgress /\ <<FamilyOf[p.work], p.order>> \in taken
      BY DEF TakenCheckpoints
    <2>2. st \in Settled \union {"not_found"} /\ (st \in Settled => p.work \notin Missing)
      BY DEF ProgressStatus, Settled
    <2>3. p.work \notin Missing => ~Later(Checkpoint(p), cursor'[FamilyOf[p.work]])
      <3>1. outbox.order \in Nat /\ RecordOK /\ TakenOK
        BY DEF IInv, OutboxOK, GoodOutboxes
      <3> QED  BY <3>1, RecordedCursor DEF Recorded
    <2> HIDE DEF st
    <2>4. Checkpoint(x) = Checkpoint(p) /\ x \in ProgressAck
      BY <2>1, <2>2 DEF Checkpoint, ProgressAck, SentProgress
    <2> QED  BY <1>1, <2>1, <2>2, <2>3, <2>4 DEF ProgressAcks, st
  <1>3. a.history \subseteq HistoryAcks'
    <2> SUFFICES ASSUME NEW h \in history
                 PROVE  [session |-> h.session, seconds |-> h.seconds,
                         status |-> HistoryStatus(h)] \in HistoryAcks'
      BY DEF Answer
    <2> DEFINE st == HistoryStatus(h)
    <2>1. h \in SentHistory /\ 1 <= h.seconds /\ h.seconds <= heard[h.session]
      BY DEF MeasuredTotals
    <2>2. /\ st \in Settled \union {"not_found", "history_cleared"}
          /\ st \in Settled => st = "recorded"
          /\ st = "history_cleared" => tag[h.session] # generation
      BY DEF HistoryStatus, Settled
    <2>3. st = "recorded" => credited'[h.session] >= h.seconds
      BY RecordedTotals DEF IInv, Recorded
    <2> HIDE DEF st
    <2>4. [session |-> h.session, seconds |-> h.seconds, status |-> st] \in HistoryAck
      BY <2>1, <2>2 DEF HistoryAck, SentHistory
    <2> QED  BY <1>1, <2>1, <2>2, <2>3, <2>4 DEF HistoryAcks, st
  <1>4. a.generation = generation /\ generation \in Nat
    BY DEF Answer, IInv, RecordOK
  <1>5. a = [generation |-> a.generation, progress |-> a.progress, history |-> a.history]
    BY DEF Answer
  <1> HIDE DEF a
  <1> QED  BY <1>2, <1>3, <1>4, <1>5 DEF Answers, a

\* Reports that are good after the step.
LEMMA PostsStay ==
    ASSUME PostOK, Growth, NEW t \in Tab, NEW p,
           post' = post \/ post' = [post EXCEPT ![t] = p],
           ~Forgets(t) /\ p # NoPost => p \in GoodPosts(t) \union GoodPosts(t)'
    PROVE  PostOK'
  <1>1. post' = [u \in Tab |-> post'[u]]
    BY DEF PostOK
  <1>2. ASSUME NEW u \in Tab, post'[u] # NoPost PROVE post'[u] \in GoodPosts(u)'
    <2>1. ~Forgets(u)
      BY <1>2 DEF Forgets
    <2>2. GoodPosts(u) \subseteq GoodPosts(u)' /\ (post[u] # NoPost => post[u] \in GoodPosts(u))
      BY <2>1 DEF Growth, PostOK
    <2>3. post'[u] = post[u] \/ (u = t /\ post'[u] = p)
      BY DEF PostOK
    <2> QED  BY <1>2, <2>1, <2>2, <2>3
  <1> QED  BY <1>1, <1>2 DEF PostOK

\* A batch of the outbox is good.
LEMMA SendGood ==
    ASSUME IInv, NEW t \in Tab, Send(t)
    PROVE  \/ post' = post
           \/ \E p \in GoodPosts(t) : post' = [post EXCEPT ![t] = p]
  <1> DEFINE progress == {[work |-> e.work, order |-> e.order] : e \in Unblocked(outbox.progress)}
             history == IF tab[t].verified
                        THEN {[session |-> e.session, seconds |-> e.seconds] :
                                 e \in Unblocked(outbox.history)}
                        ELSE {}
             ep == Head(writes[t]).epoch
             p == [progress |-> progress, history |-> history, epoch |-> ep, answer |-> {}]
  <1>1. post' = post \/ post' = [post EXCEPT ![t] = p]
    BY DEF Send
  <1>2. ep \in Nat /\ ep <= tab[t].epoch
    <2>1. Head(writes[t]) \in FlushWrites(t)
      BY RunsGood, WriteKinds DEF Send
    <2> QED  BY <2>1 DEF FlushWrites
  <1>3. outbox.progress \subseteq ProgressEntry /\ outbox.history \subseteq HistoryEntry
    BY DEF IInv, OutboxOK, GoodOutboxes
  <1>4. progress \subseteq TakenCheckpoints
    <2>1. \A e \in outbox.progress : e.work \in Work /\ e.order \in Nat
                                       /\ <<FamilyOf[e.work], e.order>> \in taken
      BY <1>3 DEF IInv, OutboxOK, GoodOutboxes, ProgressEntry
    <2> QED  BY <2>1 DEF Unblocked, TakenCheckpoints, SentProgress
  <1>5. /\ history \subseteq MeasuredTotals
        /\ \A h, k \in history : h.session = k.session => h = k
    <2>1. \A e \in outbox.history : /\ e.session \in Session /\ e.seconds \in Nat
                                    /\ 1 <= e.seconds /\ e.seconds <= heard[e.session]
      BY <1>3 DEF IInv, OutboxOK, GoodOutboxes, HistoryEntry
    <2>2. \A e, x \in outbox.history : e.session = x.session => e = x
      BY DEF IInv, OutboxOK, GoodOutboxes
    <2> QED  BY <2>1, <2>2 DEF Unblocked, MeasuredTotals, SentHistory
  <1> HIDE DEF progress, history, ep
  <1>6. p \in GoodPosts(t)
    BY <1>2, <1>4, <1>5 DEF GoodPosts
  <1> QED  BY <1>1, <1>6

\* The server's answer keeps a report good.
LEMMA RecordPostGood ==
    ASSUME IInv, Growth, NEW t \in Tab, RecordPost(t)
    PROVE  PostOK'
  <1>1. /\ post[t] \in GoodPosts(t) /\ post[t] # NoPost
        /\ post[t] \in [progress : SUBSET TakenCheckpoints, history : SUBSET MeasuredTotals,
                        epoch : Nat, answer : SUBSET Answers]
        /\ post[t].epoch <= tab[t].epoch
        /\ \A h, k \in post[t].history : h.session = k.session => h = k
    BY DEF RecordPost, IInv, PostOK, GoodPosts
  <1> DEFINE progress == post[t].progress
             history == post[t].history
  <1>2. PICK early : post' = [post EXCEPT ![t].answer = {Answer(progress, history, early)}]
    BY DEF RecordPost
  <1>3. Recorded(progress, history)
    BY DEF RecordPost, Recorded, facts
  <1>4. PICK a : a = Answer(progress, history, early)
    OBVIOUS
  <1>5. a \in Answers' /\ a.generation = generation
    BY <1>1, <1>3, <1>4, AnswerGood DEF Answer
  <1>6. PICK p : p = [post[t] EXCEPT !.answer = {a}]
    OBVIOUS
  <1>7. post' = [post EXCEPT ![t] = p]
    BY <1>2, <1>4, <1>6 DEF IInv, PostOK
  <1>8. tab' = tab /\ knownClear' = knownClear /\ generation' = generation
    BY <1>3 DEF RecordPost, client, facts, Recorded, Record
  <1>9. /\ p \in [progress : SUBSET TakenCheckpoints, history : SUBSET MeasuredTotals,
                  epoch : Nat, answer : SUBSET Answers']
        /\ p.epoch = post[t].epoch /\ p.history = post[t].history /\ p.answer = {a}
    BY <1>1, <1>5, <1>6
  <1>10. Dated(t, p.epoch, a.generation)'
    <2>1. knownClear[t] <= generation /\ knownClear[t] \in Nat /\ generation \in Nat
      BY DEF IInv, TabOK, RecordOK
    <2> QED  BY <1>1, <1>5, <1>8, <1>9, <2>1 DEF Dated
  <1>11. p \in GoodPosts(t)'
    <2>1. TakenCheckpoints \subseteq TakenCheckpoints' /\ MeasuredTotals \subseteq MeasuredTotals'
      BY DEF Growth, Grown
    <2>2. /\ p.epoch <= tab'[t].epoch
          /\ \A h, k \in p.history : h.session = k.session => h = k
          /\ \A b \in p.answer : Dated(t, p.epoch, b.generation)'
      BY <1>1, <1>8, <1>9, <1>10
    <2> QED  BY <1>9, <2>1, <2>2 DEF GoodPosts, Dated
  <1> QED  BY <1>7, <1>11, PostsStay DEF IInv

\* So every step keeps the reports.
LEMMA NextPosts ==
    ASSUME IInv, Growth, [Next]_vars
    PROVE  PostOK'
  <1>1. PostOK
    BY DEF IInv
  <1>2. CASE post' = post
    <2>1. CASE Tab = {}
      BY <1>1, <1>2, <2>1 DEF PostOK
    <2>2. ASSUME NEW t \in Tab PROVE PostOK'
      BY <1>1, <1>2, PostsStay
    <2> QED  BY <2>1, <2>2
  <1>3. CASE \/ UNCHANGED vars
             \/ ClearElsewhere \/ RecordLate \/ \E f \in Family : RecordElsewhere(f)
    BY <1>2, <1>3 DEF vars, network, ClearElsewhere, RecordLate, RecordElsewhere
  <1>4. ASSUME NEW t \in Tab,
               \/ Open(t) \/ (\E s \in Session : Listen(t, s)) \/ EndSession(t)
               \/ (\E x \in Work : StageProgress(t, x)) \/ Initialize(t) \/ WriteClear(t)
               \/ WriteHistory(t) \/ WriteProgress(t) \/ WriteGeneration(t)
               \/ Acknowledge(t) \/ WriteRetry(t) \/ WriteRefused(t)
        PROVE  PostOK'
    BY <1>2, <1>4 DEF Open, Listen, EndSession, StageProgress, Initialize, WriteClear,
         WriteHistory, WriteProgress, WriteGeneration, Acknowledge, WriteRetry, WriteRefused, network
  <1>5. ASSUME NEW t \in Tab,
               \/ RequestClear(t) \/ AnnounceClear(t) \/ LoseClear(t) \/ ReceiveNotice(t)
               \/ VerifyGeneration(t) \/ AnswerLookup(t) \/ ReceiveGeneration(t) \/ LookupFails(t)
               \/ Flush(t)
        PROVE  PostOK'
    BY <1>2, <1>5 DEF RequestClear, AnnounceClear, LoseClear, ReceiveNotice, VerifyGeneration,
         AnswerLookup, ReceiveGeneration, LookupFails, Flush, network
  <1>6. ASSUME NEW t \in Tab, Close(t) \/ ReceiveAnswer(t) \/ LosePost(t) \/ RefusePost(t)
        PROVE  PostOK'
    <2>1. post' = [post EXCEPT ![t] = NoPost]
      BY <1>6 DEF Close, ReceiveAnswer, LosePost, RefusePost
    <2> QED  BY <1>1, <2>1, PostsStay
  <1>7. ASSUME NEW t \in Tab, Send(t) PROVE PostOK'
    BY <1>1, <1>7, SendGood, PostsStay
  <1>8. ASSUME NEW t \in Tab, RecordPost(t) PROVE PostOK'
    BY <1>8, RecordPostGood
  <1> QED  BY <1>3, <1>4, <1>5, <1>6, <1>7, <1>8 DEF Next, Write

-----------------------------------------------------------------------------
(* The outbox. *)

\* Quarantining an entry changes nothing else of it.
LEMMA Block ==
    ASSUME NEW b \in BOOLEAN
    PROVE  /\ \A e \in HistoryEntry :
                 /\ [e EXCEPT !.blocked = b] \in HistoryEntry
                 /\ [e EXCEPT !.blocked = b].session = e.session
                 /\ [e EXCEPT !.blocked = b].seconds = e.seconds
           /\ \A e \in ProgressEntry :
                 /\ [e EXCEPT !.blocked = b] \in ProgressEntry
                 /\ [e EXCEPT !.blocked = b].work = e.work
                 /\ [e EXCEPT !.blocked = b].order = e.order
  BY DEF HistoryEntry, ProgressEntry

\* What the invariant says of the outbox.
LEMMA OutboxParts ==
    ASSUME IInv
    PROVE  /\ outbox \in [generation : Generation, order : Nat,
                          progress : SUBSET ProgressEntry, history : SUBSET HistoryEntry]
           /\ outbox.generation \in Int /\ outbox.generation <= generation
           /\ \A e \in outbox.progress :
                 /\ e.work \in Work /\ e.order \in Nat /\ e.order <= outbox.order
                 /\ <<FamilyOf[e.work], e.order>> \in taken
           /\ \A e \in outbox.history :
                 /\ e.session \in Session /\ e.seconds \in Nat
                 /\ 1 <= e.seconds /\ e.seconds <= heard[e.session]
                 /\ tag[e.session] = outbox.generation
           /\ \A e, x \in outbox.history : e.session = x.session => e = x
  <1>1. outbox \in [generation : Generation, order : Nat,
                    progress : SUBSET ProgressEntry, history : SUBSET HistoryEntry]
    BY DEF IInv, OutboxOK, GoodOutboxes
  <1>2. \A e \in outbox.progress : /\ e.work \in Work /\ e.order \in Nat
                                   /\ <<FamilyOf[e.work], e.order>> \in taken
    BY <1>1 DEF IInv, OutboxOK, GoodOutboxes, ProgressEntry
  <1>3. \A e \in outbox.history : e.session \in Session /\ e.seconds \in Nat
    BY <1>1 DEF HistoryEntry
  <1>4. outbox.generation \in Int /\ outbox.generation <= generation
    BY <1>1 DEF IInv, OutboxOK, GoodOutboxes, Generation, NoGeneration
  <1> QED  BY <1>1, <1>2, <1>3, <1>4 DEF IInv, OutboxOK, GoodOutboxes, TakenOK

\* What a write does to the outbox: it stays good and gives no order, and no
\* checkpoint is lost.
OutboxStep ==
    /\ outbox' \in GoodOutboxes
    /\ outbox'.order = outbox.order
    /\ CheckpointKept

\* An outbox that keeps its entries loses none.
LEMMA SameKept ==
    ASSUME IInv
    PROVE  /\ outbox'.progress = outbox.progress => CheckpointKept
           /\ outbox'.history = outbox.history => SecondsKept
  <1>1. ASSUME outbox'.progress = outbox.progress, NEW e \in outbox.progress
        PROVE  \E x \in outbox'.progress : x.work = e.work /\ x.order >= e.order
    <2>1. e.order \in Nat
      BY <1>1, OutboxParts
    <2> QED  BY <1>1, <2>1
  <1>2. ASSUME outbox'.history = outbox.history, NEW e \in outbox.history
        PROVE  \E x \in outbox'.history : x.session = e.session /\ x.seconds >= e.seconds
    <2>1. e.seconds \in Nat
      BY <1>2, OutboxParts
    <2> QED  BY <1>2, <2>1
  <1> QED  BY <1>1, <1>2 DEF CheckpointKept, SecondsKept

\* Totals of one generation, each of a session already there, make a good outbox.
LEMMA FilteredOutbox ==
    ASSUME IInv, NEW g \in Generation, g <= generation,
           NEW progress \in SUBSET ProgressEntry, NEW history \in SUBSET HistoryEntry,
           \A x \in progress : \E e \in outbox.progress : x.work = e.work /\ x.order = e.order,
           \A x \in history :
              /\ 1 <= x.seconds /\ x.seconds <= heard[x.session] /\ tag[x.session] = g,
           \A x, y \in history : x.session = y.session => x = y,
           outbox' = [outbox EXCEPT !.generation = g, !.progress = progress, !.history = history]
    PROVE  outbox' \in GoodOutboxes /\ outbox'.order = outbox.order
  <1>1. outbox \in [generation : Generation, order : Nat,
                    progress : SUBSET ProgressEntry, history : SUBSET HistoryEntry]
    BY OutboxParts
  <1>2. /\ outbox' \in [generation : Generation, order : Nat,
                        progress : SUBSET ProgressEntry, history : SUBSET HistoryEntry]
        /\ outbox'.generation = g /\ outbox'.order = outbox.order
        /\ outbox'.progress = progress /\ outbox'.history = history
    BY <1>1
  <1>3. \A x \in progress : <<FamilyOf[x.work], x.order>> \in taken
    BY OutboxParts
  <1> QED  BY <1>2, <1>3 DEF GoodOutboxes

\* Clearing the outbox's history.
LEMMA WriteClearOutbox ==
    ASSUME IInv, NEW t \in Tab, WriteClear(t)
    PROVE  OutboxStep
  <1>1. outbox' = [outbox EXCEPT !.generation = NoGeneration, !.progress = outbox.progress,
                                 !.history = {}]
    <2>1. outbox' = [outbox EXCEPT !.history = {}, !.generation = NoGeneration]
      BY DEF WriteClear
    <2> QED  BY <2>1, OutboxParts
  <1>2. NoGeneration \in Generation /\ NoGeneration <= generation
    BY DEF IInv, RecordOK, Generation, NoGeneration
  <1>3. outbox' \in GoodOutboxes /\ outbox'.order = outbox.order
    <2>1. outbox.progress \in SUBSET ProgressEntry
      BY OutboxParts
    <2>2. \A x \in outbox.progress : \E e \in outbox.progress : x.work = e.work /\ x.order = e.order
      OBVIOUS
    <2>3. {} \in SUBSET HistoryEntry
      OBVIOUS
    <2> QED  BY <1>1, <1>2, <2>1, <2>2, <2>3, FilteredOutbox
  <1>4. outbox'.progress = outbox.progress
    BY <1>1, OutboxParts
  <1> QED  BY <1>3, <1>4, SameKept DEF OutboxStep

\* A verified generation keeps the sessions of it.
LEMMA WriteGenerationOutbox ==
    ASSUME IInv, NEW t \in Tab, WriteGeneration(t)
    PROVE  OutboxStep /\ SecondsKept
  <1> DEFINE g == Head(writes[t]).generation
             history == {e \in outbox.history : tag[e.session] = g}
  <1>1. g \in Nat /\ g <= generation
    <2>1. Head(writes[t]) \in VerifyWrites(t)
      BY RunsGood, WriteKinds DEF WriteGeneration
    <2> QED  BY <2>1 DEF VerifyWrites, Dated
  <1>2. \/ outbox' = outbox
        \/ /\ ~ (outbox.generation > g)
           /\ outbox' = [outbox EXCEPT !.generation = g, !.progress = outbox.progress,
                                       !.history = history]
    <2>1. \/ outbox' = outbox
          \/ /\ ~ (outbox.generation > g)
             /\ outbox' = [outbox EXCEPT !.generation = g, !.history = history]
      BY DEF WriteGeneration, OfGeneration
    <2> QED  BY <2>1, OutboxParts
  <1> HIDE DEF g
  <1>3. CASE outbox' = outbox
    <2>1. SecondsKept /\ CheckpointKept
      BY <1>3, SameKept
    <2> QED  BY <1>3, <2>1 DEF OutboxStep, IInv, OutboxOK
  <1>4. CASE /\ ~ (outbox.generation > g)
             /\ outbox' = [outbox EXCEPT !.generation = g, !.progress = outbox.progress,
                                         !.history = history]
    <2>1. g \in Generation /\ history \subseteq outbox.history /\ history \in SUBSET HistoryEntry
      BY <1>1, OutboxParts DEF Generation
    <2>2. outbox' \in GoodOutboxes /\ outbox'.order = outbox.order
      BY <1>1, <1>4, <2>1, OutboxParts, FilteredOutbox
    <2>3. outbox'.progress = outbox.progress /\ outbox'.history = history
      BY <1>4, OutboxParts
    <2>4. CheckpointKept
      BY <2>3, SameKept
    <2>5. SecondsKept
      <3> SUFFICES ASSUME NEW e \in outbox.history, tag[e.session] = generation
                   PROVE  e \in history
        BY <2>3, OutboxParts DEF SecondsKept
      <3>1. tag[e.session] = outbox.generation
        BY OutboxParts
      <3>2. generation = g
        BY <1>1, <1>4, <3>1, OutboxParts DEF IInv, RecordOK
      <3> QED  BY <3>2
    <2> QED  BY <2>2, <2>4, <2>5 DEF OutboxStep
  <1> QED  BY <1>2, <1>3, <1>4

\* A session's total is merged, or added when there is room.
LEMMA WriteHistoryOutbox ==
    ASSUME IInv, NEW t \in Tab, WriteHistory(t)
    PROVE  OutboxStep /\ SecondsKept
  <1> DEFINE s == Head(writes[t]).session
             n == Head(writes[t]).seconds
             mine == {e \in outbox.history : e.session = s}
             Merge(e) == IF e.session = s /\ n > e.seconds THEN [e EXCEPT !.seconds = n] ELSE e
             merged == {Merge(e) : e \in outbox.history}
             added == outbox.history \union {[session |-> s, seconds |-> n, blocked |-> FALSE]}
  <1>1. s \in Session /\ n \in Nat /\ 1 <= n /\ n <= heard[s]
    <2>1. Head(writes[t]) \in HistoryWrites
      BY RunsGood, WriteKinds DEF WriteHistory
    <2> QED  BY <2>1 DEF HistoryWrites
  <1>2. \/ outbox' = outbox
        \/ tag[s] = outbox.generation /\ outbox' = [outbox EXCEPT !.history = merged]
        \/ /\ tag[s] = outbox.generation /\ mine = {}
           /\ outbox' = [outbox EXCEPT !.history = added]
    BY DEF WriteHistory
  <1> HIDE DEF s, n
  <1>3. ASSUME NEW history \in SUBSET HistoryEntry, outbox' = [outbox EXCEPT !.history = history],
               \A x \in history : /\ 1 <= x.seconds /\ x.seconds <= heard[x.session]
                                  /\ tag[x.session] = outbox.generation,
               \A x, y \in history : x.session = y.session => x = y,
               \A e \in outbox.history :
                  \E x \in history : x.session = e.session /\ x.seconds >= e.seconds
        PROVE  OutboxStep /\ SecondsKept
    <2>1. outbox.generation \in Generation /\ outbox.progress \in SUBSET ProgressEntry
      BY OutboxParts
    <2>2. outbox' = [outbox EXCEPT !.generation = outbox.generation,
                                   !.progress = outbox.progress, !.history = history]
      BY <1>3, OutboxParts
    <2>3. outbox' \in GoodOutboxes /\ outbox'.order = outbox.order
      <3>1. \A x \in outbox.progress :
               \E e \in outbox.progress : x.work = e.work /\ x.order = e.order
        OBVIOUS
      <3>2. outbox.generation <= generation
        BY OutboxParts
      <3> QED  BY <1>3, <2>1, <2>2, <3>1, <3>2, FilteredOutbox
    <2>4. outbox'.progress = outbox.progress /\ outbox'.history = history
      BY <2>2, OutboxParts
    <2> QED  BY <1>3, <2>3, <2>4, SameKept DEF OutboxStep, SecondsKept
  <1>4. CASE outbox' = outbox
    BY <1>4, SameKept DEF OutboxStep, IInv, OutboxOK
  <1>5. CASE tag[s] = outbox.generation /\ outbox' = [outbox EXCEPT !.history = merged]
    <2>1. \A e \in outbox.history :
             /\ Merge(e) \in HistoryEntry /\ Merge(e).session = e.session
             /\ Merge(e).seconds >= e.seconds
             /\ 1 <= Merge(e).seconds /\ Merge(e).seconds <= heard[e.session]
      <3> SUFFICES ASSUME NEW e \in outbox.history
                   PROVE  /\ Merge(e) \in HistoryEntry /\ Merge(e).session = e.session
                          /\ Merge(e).seconds >= e.seconds
                          /\ 1 <= Merge(e).seconds /\ Merge(e).seconds <= heard[e.session]
        OBVIOUS
      <3>1. e \in HistoryEntry /\ e.seconds \in Nat /\ 1 <= e.seconds
            /\ e.seconds <= heard[e.session]
        BY OutboxParts
      <3>2. CASE e.session = s /\ n > e.seconds
        BY <1>1, <3>1, <3>2 DEF HistoryEntry
      <3>3. CASE ~ (e.session = s /\ n > e.seconds)
        BY <3>1, <3>3
      <3> QED  BY <3>2, <3>3
    <2>2. \A e, x \in outbox.history : Merge(e).session = Merge(x).session => Merge(e) = Merge(x)
      BY <2>1, OutboxParts
    <2>3. \A e \in outbox.history : tag[Merge(e).session] = outbox.generation
      BY <2>1, OutboxParts
    <2> HIDE DEF Merge
    <2>4. /\ merged \in SUBSET HistoryEntry
          /\ \A x \in merged : /\ 1 <= x.seconds /\ x.seconds <= heard[x.session]
                               /\ tag[x.session] = outbox.generation
          /\ \A x, y \in merged : x.session = y.session => x = y
          /\ \A e \in outbox.history :
                \E x \in merged : x.session = e.session /\ x.seconds >= e.seconds
      BY <2>1, <2>2, <2>3
    <2> HIDE DEF merged
    <2> QED  BY <1>3, <1>5, <2>4
  <1>6. CASE /\ tag[s] = outbox.generation /\ mine = {}
             /\ outbox' = [outbox EXCEPT !.history = added]
    <2> DEFINE new == [session |-> s, seconds |-> n, blocked |-> FALSE]
    <2>1. new \in HistoryEntry /\ new.session = s /\ new.seconds = n
      BY <1>1 DEF HistoryEntry
    <2>2. \A e \in outbox.history : e.session # s
      BY <1>6
    <2>3. outbox.history \subseteq HistoryEntry
      BY OutboxParts
    <2>4. added = outbox.history \union {new}
      OBVIOUS
    <2> HIDE DEF new, added
    <2>5. /\ added \in SUBSET HistoryEntry
          /\ \A x \in added : /\ 1 <= x.seconds /\ x.seconds <= heard[x.session]
                              /\ tag[x.session] = outbox.generation
          /\ \A x, y \in added : x.session = y.session => x = y
      BY <1>1, <1>6, <2>1, <2>2, <2>3, <2>4, OutboxParts
    <2>6. \A e \in outbox.history : e \in added /\ e.seconds \in Nat
      BY <2>4, OutboxParts
    <2>7. \A e \in outbox.history :
             \E x \in added : x.session = e.session /\ x.seconds >= e.seconds
      BY <2>6
    <2> QED  BY <1>3, <1>6, <2>5, <2>7
  <1> QED  BY <1>2, <1>4, <1>5, <1>6

\* Entries, quarantined where B says.
Quarantined(entries, B) == {[e EXCEPT !.blocked = B[e]] : e \in entries}

\* Quarantining some of the outbox's totals.
LEMMA BlockedTotals ==
    ASSUME IInv, NEW H \in SUBSET outbox.history, NEW B \in [HistoryEntry -> BOOLEAN]
    PROVE  /\ Quarantined(H, B) \in SUBSET HistoryEntry
           /\ \A x \in Quarantined(H, B) : /\ 1 <= x.seconds /\ x.seconds <= heard[x.session]
                                           /\ tag[x.session] = outbox.generation
           /\ \A x, y \in Quarantined(H, B) : x.session = y.session => x = y
           /\ \A e \in H :
                 \E x \in Quarantined(H, B) : x.session = e.session /\ x.seconds >= e.seconds
  <1> DEFINE history == Quarantined(H, B)
  <1>1. \A e \in H : /\ e \in HistoryEntry /\ e.seconds \in Nat
                     /\ 1 <= e.seconds /\ e.seconds <= heard[e.session]
                     /\ tag[e.session] = outbox.generation
    BY OutboxParts
  <1>2. \A e \in H : /\ [e EXCEPT !.blocked = B[e]] \in HistoryEntry
                     /\ [e EXCEPT !.blocked = B[e]].session = e.session
                     /\ [e EXCEPT !.blocked = B[e]].seconds = e.seconds
    BY <1>1, Block
  <1>3. history \in SUBSET HistoryEntry
    BY <1>2 DEF Quarantined
  <1>4. ASSUME NEW x \in history
        PROVE  /\ 1 <= x.seconds /\ x.seconds <= heard[x.session]
               /\ tag[x.session] = outbox.generation
    <2>1. PICK e \in H : x = [e EXCEPT !.blocked = B[e]]
      BY <1>4 DEF Quarantined
    <2>2. x.session = e.session /\ x.seconds = e.seconds
      BY <1>2, <2>1
    <2> QED  BY <1>1, <2>2
  <1>5. ASSUME NEW x \in history, NEW y \in history, x.session = y.session
        PROVE  x = y
    <2>1. PICK e \in H : x = [e EXCEPT !.blocked = B[e]]
      BY <1>5 DEF Quarantined
    <2>2. PICK d \in H : y = [d EXCEPT !.blocked = B[d]]
      BY <1>5 DEF Quarantined
    <2>3. e = d
      BY <1>2, <1>5, <2>1, <2>2, OutboxParts
    <2> QED  BY <2>1, <2>2, <2>3
  <1>6. ASSUME NEW e \in H
        PROVE  \E x \in history : x.session = e.session /\ x.seconds >= e.seconds
    <2>1. [e EXCEPT !.blocked = B[e]] \in history
      BY <1>6 DEF Quarantined
    <2>2. /\ e.seconds \in Nat
          /\ [e EXCEPT !.blocked = B[e]].session = e.session
          /\ [e EXCEPT !.blocked = B[e]].seconds = e.seconds
      BY <1>1, <1>2
    <2> DEFINE x == [e EXCEPT !.blocked = B[e]]
    <2>3. x \in history /\ x.session = e.session /\ x.seconds >= e.seconds
      BY <2>1, <2>2
    <2> QED  BY <2>3
  <1> QED  BY <1>3, <1>4, <1>5, <1>6

\* Quarantining some of its checkpoints.
LEMMA BlockedCheckpoints ==
    ASSUME IInv, NEW P \in SUBSET outbox.progress, NEW B \in [ProgressEntry -> BOOLEAN]
    PROVE  /\ Quarantined(P, B) \in SUBSET ProgressEntry
           /\ \A x \in Quarantined(P, B) : \E e \in outbox.progress : x.work = e.work /\ x.order = e.order
           /\ \A e \in P : \E x \in Quarantined(P, B) : x.work = e.work /\ x.order >= e.order
  <1> DEFINE progress == Quarantined(P, B)
  <1>1. \A e \in P : e \in ProgressEntry /\ e.order \in Nat /\ e \in outbox.progress
    BY OutboxParts
  <1>2. \A e \in P : /\ [e EXCEPT !.blocked = B[e]] \in ProgressEntry
                     /\ [e EXCEPT !.blocked = B[e]].work = e.work
                     /\ [e EXCEPT !.blocked = B[e]].order = e.order
    BY <1>1, Block
  <1>3. ASSUME NEW x \in progress
        PROVE  x \in ProgressEntry /\ \E e \in outbox.progress : x.work = e.work /\ x.order = e.order
    <2>1. PICK e \in P : x = [e EXCEPT !.blocked = B[e]]
      BY <1>3 DEF Quarantined
    <2> QED  BY <1>1, <1>2, <2>1
  <1>4. ASSUME NEW e \in P
        PROVE  \E x \in progress : x.work = e.work /\ x.order >= e.order
    <2> DEFINE x == [e EXCEPT !.blocked = B[e]]
    <2>1. x.work = e.work /\ x.order = e.order /\ e.order \in Nat
      BY <1>1, <1>2
    <2>2. x \in progress
      BY <1>4 DEF Quarantined
    <2> HIDE DEF x
    <2> QED  BY <2>1, <2>2
  <1> QED  BY <1>3, <1>4

\* A refusal quarantines entries and changes nothing else of them.
LEMMA WriteRefusedOutbox ==
    ASSUME IInv, NEW t \in Tab, WriteRefused(t)
    PROVE  OutboxStep /\ SecondsKept
  <1> DEFINE W == Head(writes[t])
             HB(e) == e.blocked \/ \E h \in W.history : h.session = e.session
             PB(e) == e.blocked \/ \E p \in W.progress : p.order = e.order
             history == {[e EXCEPT !.blocked = HB(e)] : e \in outbox.history}
             progress == {[e EXCEPT !.blocked = PB(e)] : e \in outbox.progress}
             H == [e \in HistoryEntry |-> HB(e)]
             P == [e \in ProgressEntry |-> PB(e)]
  <1>1. outbox' = [outbox EXCEPT !.history = history, !.progress = progress]
    BY DEF WriteRefused
  <1>2. H \in [HistoryEntry -> BOOLEAN] /\ P \in [ProgressEntry -> BOOLEAN]
    <2>1. \A e : HB(e) \in BOOLEAN /\ PB(e) \in BOOLEAN
      OBVIOUS
    <2> HIDE DEF HB, PB
    <2> QED  BY <2>1
  <1> HIDE DEF HB, PB
  <1>3. outbox.progress \subseteq ProgressEntry /\ outbox.history \subseteq HistoryEntry
        /\ outbox.generation \in Generation /\ outbox.generation <= generation
    BY OutboxParts
  <1>4. history = Quarantined(outbox.history, H) /\ progress = Quarantined(outbox.progress, P)
    BY <1>3 DEF Quarantined
  <1> HIDE DEF progress, history, H, P
  <1>5. /\ progress \in SUBSET ProgressEntry
        /\ \A x \in progress : \E e \in outbox.progress : x.work = e.work /\ x.order = e.order
        /\ \A e \in outbox.progress : \E x \in progress : x.work = e.work /\ x.order >= e.order
    BY <1>2, <1>4, BlockedCheckpoints
  <1>6. /\ history \in SUBSET HistoryEntry
        /\ \A x \in history : /\ 1 <= x.seconds /\ x.seconds <= heard[x.session]
                              /\ tag[x.session] = outbox.generation
        /\ \A x, y \in history : x.session = y.session => x = y
        /\ \A e \in outbox.history :
              \E x \in history : x.session = e.session /\ x.seconds >= e.seconds
    BY <1>2, <1>4, BlockedTotals
  <1>7. outbox' = [outbox EXCEPT !.generation = outbox.generation,
                                 !.progress = progress, !.history = history]
    BY <1>1, OutboxParts
  <1>8. outbox' \in GoodOutboxes /\ outbox'.order = outbox.order
    BY <1>3, <1>5, <1>6, <1>7, FilteredOutbox
  <1>9. outbox'.progress = progress /\ outbox'.history = history
    BY <1>7, OutboxParts
  <1> QED  BY <1>5, <1>6, <1>8, <1>9 DEF OutboxStep, CheckpointKept, SecondsKept

\* What acknowledgements leave of the outbox's totals: nothing of the record's
\* generation goes that the record does not have.
LEMMA HistoryAfterKeeps ==
    ASSUME IInv, NEW acks \in SUBSET HistoryAcks
    PROVE  /\ HistoryAfter(acks) \in SUBSET HistoryEntry
           /\ \A x \in HistoryAfter(acks) : /\ 1 <= x.seconds /\ x.seconds <= heard[x.session]
                                            /\ tag[x.session] = outbox.generation
           /\ \A x, y \in HistoryAfter(acks) : x.session = y.session => x = y
           /\ \A e \in outbox.history : tag[e.session] = generation =>
                 \/ \E x \in HistoryAfter(acks) : x.session = e.session /\ x.seconds >= e.seconds
                 \/ credited[e.session] >= e.seconds
  <1> DEFINE Gone(e) == \E a \in acks : a.session = e.session /\ a.status \in Settled
                                          /\ e.seconds <= a.seconds
             Cleared1(e) == \E a \in acks :
                               a.status = "history_cleared" /\ tag[a.session] = tag[e.session]
                                 /\ \E x \in outbox.history : x.session = a.session
             Rejected(e) == \E a \in acks : a.session = e.session /\ a.status = "not_found"
             H == {x \in outbox.history : ~Gone(x) /\ ~Cleared1(x)}
             B == [e \in HistoryEntry |-> e.blocked \/ Rejected(e)]
  <1>1. B \in [HistoryEntry -> BOOLEAN]
    <2>1. \A e : (e.blocked \/ Rejected(e)) \in BOOLEAN
      OBVIOUS
    <2> QED  BY <2>1
  <1>2. H \in SUBSET outbox.history /\ H \subseteq HistoryEntry
    BY OutboxParts
  <1>3. HistoryAfter(acks) = Quarantined(H, B)
    <2>1. HistoryAfter(acks) = {[e EXCEPT !.blocked = e.blocked \/ Rejected(e)] : e \in H}
      BY DEF HistoryAfter
    <2> HIDE DEF H, Rejected
    <2> QED  BY <1>2, <2>1 DEF Quarantined
  <1>4. ASSUME NEW e \in outbox.history, tag[e.session] = generation, Gone(e)
        PROVE  credited[e.session] >= e.seconds
    <2>1. PICK a \in acks : a.session = e.session /\ a.status \in Settled /\ e.seconds <= a.seconds
      BY <1>4
    <2>2. credited[e.session] >= a.seconds /\ a.seconds \in Nat
      BY <1>4, <2>1 DEF HistoryAcks, HistoryAck
    <2>3. e.seconds \in Nat /\ credited[e.session] \in Nat
      BY OutboxParts DEF IInv, RecordOK
    <2> QED  BY <2>1, <2>2, <2>3
  <1>5. ASSUME NEW e \in outbox.history, tag[e.session] = generation
        PROVE  ~Cleared1(e)
    BY <1>5 DEF HistoryAcks
  <1>6. \A e \in outbox.history : tag[e.session] = generation =>
           e \in H \/ credited[e.session] >= e.seconds
    BY <1>4, <1>5
  <1> HIDE DEF H, B
  <1> QED  BY <1>1, <1>2, <1>3, <1>6, BlockedTotals

\* What they leave of its checkpoints: orders are given once, so only the
\* checkpoint that was sent goes, and the record has it or a later one.
LEMMA ProgressAfterKeeps ==
    ASSUME IInv, NEW acks \in SUBSET ProgressAcks
    PROVE  /\ ProgressAfter(acks) \in SUBSET ProgressEntry
           /\ \A x \in ProgressAfter(acks) :
                 \E e \in outbox.progress : x.work = e.work /\ x.order = e.order
           /\ \A e \in outbox.progress :
                 \/ \E x \in ProgressAfter(acks) : x.work = e.work /\ x.order >= e.order
                 \/ ~Later(Checkpoint(e), cursor[FamilyOf[e.work]])
  <1> DEFINE Gone(e) == \E a \in acks : a.order = e.order /\ a.status \in Settled
             Rejected(e) == \E a \in acks : a.order = e.order /\ a.status = "not_found"
             P == {x \in outbox.progress : ~Gone(x)}
             B == [e \in ProgressEntry |-> e.blocked \/ Rejected(e)]
  <1>1. B \in [ProgressEntry -> BOOLEAN]
    <2>1. \A e : (e.blocked \/ Rejected(e)) \in BOOLEAN
      OBVIOUS
    <2> QED  BY <2>1
  <1>2. P \in SUBSET outbox.progress /\ P \subseteq ProgressEntry
    BY OutboxParts
  <1>3. ProgressAfter(acks) = Quarantined(P, B)
    <2>1. ProgressAfter(acks) = {[e EXCEPT !.blocked = e.blocked \/ Rejected(e)] : e \in P}
      BY DEF ProgressAfter
    <2> HIDE DEF P, Rejected
    <2> QED  BY <1>2, <2>1 DEF Quarantined
  <1>4. ASSUME NEW e \in outbox.progress, Gone(e)
        PROVE  ~Later(Checkpoint(e), cursor[FamilyOf[e.work]])
    <2>1. PICK a \in acks : a.order = e.order /\ a.status \in Settled
      BY <1>4
    <2>2. /\ <<FamilyOf[a.work], a.order>> \in taken
          /\ ~Later(Checkpoint(a), cursor[FamilyOf[a.work]])
      BY <2>1 DEF ProgressAcks
    <2>3. <<FamilyOf[e.work], e.order>> \in taken
      BY OutboxParts
    <2>4. FamilyOf[a.work] = FamilyOf[e.work]
      BY <2>1, <2>2, <2>3 DEF IInv, TakenOK
    <2> QED  BY <2>1, <2>2, <2>4 DEF Checkpoint
  <1>5. \A e \in outbox.progress : e \in P \/ ~Later(Checkpoint(e), cursor[FamilyOf[e.work]])
    BY <1>4
  <1> HIDE DEF P, B
  <1> QED  BY <1>1, <1>2, <1>3, <1>5, BlockedCheckpoints

\* The write of an answer loses nothing the record does not have.
LEMMA AcknowledgeOutbox ==
    ASSUME IInv, NEW t \in Tab, Acknowledge(t)
    PROVE  OutboxStep /\ SecondsKept
  <1> DEFINE W == Head(writes[t])
             g == W.generation
             adopt == W.epoch = tab[t].epoch /\ g >= outbox.generation
             H == HistoryAfter(W.history)
             history == IF adopt THEN OfGeneration(H, g) ELSE H
             progress == ProgressAfter(W.progress)
             gen == IF adopt THEN g ELSE outbox.generation
  <1>1. outbox' = [outbox EXCEPT !.generation = gen, !.progress = progress, !.history = history]
    <2>1. outbox' = [outbox EXCEPT !.progress = progress, !.history = history, !.generation = gen]
      BY DEF Acknowledge
    <2> HIDE DEF gen, progress, history
    <2> QED  BY <2>1, OutboxParts
  <1>2. /\ g \in Nat /\ g <= generation
        /\ W.progress \in SUBSET ProgressAcks /\ W.history \in SUBSET HistoryAcks
    <2>1. W \in AcknowledgeWrites(t)
      BY RunsGood, WriteKinds DEF Acknowledge
    <2> HIDE DEF W
    <2> QED  BY <2>1 DEF AcknowledgeWrites, Dated
  <1>3. /\ progress \in SUBSET ProgressEntry
        /\ \A x \in progress : \E e \in outbox.progress : x.work = e.work /\ x.order = e.order
        /\ \A e \in outbox.progress :
              \/ \E x \in progress : x.work = e.work /\ x.order >= e.order
              \/ ~Later(Checkpoint(e), cursor[FamilyOf[e.work]])
    BY <1>2, ProgressAfterKeeps
  <1>4. /\ H \in SUBSET HistoryEntry
        /\ \A x \in H : /\ 1 <= x.seconds /\ x.seconds <= heard[x.session]
                        /\ tag[x.session] = outbox.generation
        /\ \A x, y \in H : x.session = y.session => x = y
        /\ \A e \in outbox.history : tag[e.session] = generation =>
              \/ \E x \in H : x.session = e.session /\ x.seconds >= e.seconds
              \/ credited[e.session] >= e.seconds
    BY <1>2, HistoryAfterKeeps
  <1> HIDE DEF H, g, progress
  <1>5. gen \in Generation /\ gen <= generation
    BY <1>2, OutboxParts DEF Generation
  <1>6. /\ history \in SUBSET H
        /\ \A x \in history : tag[x.session] = gen
    BY <1>4 DEF OfGeneration
  <1>7. outbox.generation = generation => history = H
    <2>1. ASSUME outbox.generation = generation, adopt PROVE g = generation
      BY <1>2, <2>1, OutboxParts DEF IInv, RecordOK
    <2> HIDE DEF adopt
    <2> QED  BY <1>4, <2>1 DEF OfGeneration
  <1> HIDE DEF gen, history, adopt
  <1>8. outbox' \in GoodOutboxes /\ outbox'.order = outbox.order
    <2>1. /\ history \in SUBSET HistoryEntry
          /\ \A x \in history : /\ 1 <= x.seconds /\ x.seconds <= heard[x.session]
                                /\ tag[x.session] = gen
          /\ \A x, y \in history : x.session = y.session => x = y
      BY <1>4, <1>6
    <2> QED  BY <1>1, <1>3, <1>5, <2>1, FilteredOutbox
  <1>9. outbox'.progress = progress /\ outbox'.history = history
    BY <1>1, OutboxParts
  <1>10. SecondsKept
    <2> SUFFICES ASSUME NEW e \in outbox.history, tag[e.session] = generation
                 PROVE  \/ \E x \in history : x.session = e.session /\ x.seconds >= e.seconds
                        \/ credited[e.session] >= e.seconds
      BY <1>9 DEF SecondsKept
    <2>1. outbox.generation = generation
      BY OutboxParts
    <2> QED  BY <1>4, <1>7, <2>1
  <1> QED  BY <1>3, <1>8, <1>9, <1>10 DEF OutboxStep, CheckpointKept

\* The write of a checkpoint: its order is a new one, and it replaces only
\* older checkpoints of its work.
LEMMA WriteProgressOutbox ==
    ASSUME IInv, Growth, NEW t \in Tab, WriteProgress(t)
    PROVE  TakenOK' /\ OutboxOK' /\ CheckpointKept /\ SecondsKept
  <1> DEFINE x == Head(writes[t]).work
             others == {e \in outbox.progress : e.work # x}
             room == Cardinality(others) < ProgressCap \/ others # outbox.progress
             New(order) == [work |-> x, order |-> order, blocked |-> FALSE]
  <1>1. x \in Work /\ FamilyOf[x] \in Family
    BY RunsGood, WriteKinds DEF WriteProgress, Family
  <1>2. \/ UNCHANGED <<outbox, taken>>
        \/ \E order \in outbox.order + 1 .. outbox.order + 1 + Jump :
              /\ outbox' = [outbox EXCEPT !.order = order, !.progress = others \union {New(order)}]
              /\ taken' = taken \union {<<FamilyOf[x], order>>}
    BY DEF WriteProgress
  <1>3. outbox.order \in Nat
    BY OutboxParts
  <1>4. generation' = generation /\ tag' = tag /\ heard' = heard
    BY DEF WriteProgress, server
  <1>5. GoodOutboxes \subseteq GoodOutboxes'
    BY SharedGrows DEF Growth, IInv
  <1>6. CASE UNCHANGED <<outbox, taken>>
    BY <1>5, <1>6, SameKept DEF IInv, TakenOK, OutboxOK
  <1> HIDE DEF x
  <1>7. ASSUME NEW order \in outbox.order + 1 .. outbox.order + 1 + Jump,
               outbox' = [outbox EXCEPT !.order = order, !.progress = others \union {New(order)}],
               taken' = taken \union {<<FamilyOf[x], order>>}
        PROVE  TakenOK' /\ OutboxOK' /\ CheckpointKept /\ SecondsKept
    <2>1. order \in Nat /\ order > outbox.order
      BY <1>3, <1>7, ReportsAssumption
    <2> DEFINE progress == others \union {New(order)}
    <2>2. progress \in SUBSET ProgressEntry
      <3>1. New(order) \in ProgressEntry
        BY <1>1, <2>1 DEF ProgressEntry
      <3>2. others \subseteq ProgressEntry
        BY OutboxParts
      <3> QED  BY <3>1, <3>2
    <2>3. /\ New(order).work = x /\ New(order).order = order
          /\ New(order) \in progress /\ others \subseteq progress
      OBVIOUS
    <2>4. \A e \in progress : <<FamilyOf[e.work], e.order>> \in taken'
      <3>1. \A e \in others : <<FamilyOf[e.work], e.order>> \in taken
        BY OutboxParts
      <3> QED  BY <1>7, <2>3, <3>1
    <2>5. \A e \in outbox.progress : \E y \in progress : y.work = e.work /\ y.order >= e.order
      <3> SUFFICES ASSUME NEW e \in outbox.progress
                   PROVE  \E y \in progress : y.work = e.work /\ y.order >= e.order
        OBVIOUS
      <3>1. e.order \in Nat /\ e.order <= outbox.order
        BY OutboxParts
      <3>2. CASE e.work = x
        <4> HIDE DEF progress, New
        <4> QED  BY <1>3, <2>1, <2>3, <3>1, <3>2
      <3>3. CASE e.work # x
        <4>1. e \in progress
          BY <3>3
        <4> HIDE DEF progress
        <4> QED  BY <3>1, <4>1
      <3> QED  BY <3>2, <3>3
    <2> HIDE DEF progress, New
    <2>6. /\ outbox' \in [generation : Generation, order : Nat,
                          progress : SUBSET ProgressEntry, history : SUBSET HistoryEntry]
          /\ outbox'.generation = outbox.generation /\ outbox'.order = order
          /\ outbox'.progress = progress /\ outbox'.history = outbox.history
      <3>1. outbox' = [outbox EXCEPT !.order = order, !.progress = progress]
        BY <1>7 DEF progress, New
      <3> QED  BY <2>1, <2>2, <3>1, OutboxParts
    <2>7. OutboxOK'
      BY <1>4, <2>4, <2>6, OutboxParts DEF OutboxOK, GoodOutboxes
    <2>8. TakenOK'
      <3>1. \A c \in taken : c \in Family \X Nat /\ 1 <= c[2] /\ c[2] <= outbox.order
        BY DEF IInv, TakenOK
      <3> DEFINE d == <<FamilyOf[x], order>>
      <3>2. d \in Family \X Nat /\ d[2] = order /\ 1 <= order
        BY <1>1, <1>3, <2>1
      <3>3. taken' = taken \union {d}
        BY <1>7
      <3> HIDE DEF d
      <3>4. \A c \in taken : c[2] \in Nat /\ c[2] # d[2] /\ c[2] <= order
        BY <1>3, <2>1, <3>1, <3>2
      <3>5. taken' \subseteq Family \X Nat
        BY <3>1, <3>2, <3>3
      <3>6. \A c \in taken' : 1 <= c[2] /\ c[2] <= outbox'.order
        BY <2>1, <2>6, <3>1, <3>2, <3>3, <3>4
      <3>7. \A b, c \in taken' : b[2] = c[2] => b = c
        BY <3>3, <3>4 DEF IInv, TakenOK
      <3> QED  BY <3>5, <3>6, <3>7 DEF TakenOK
    <2>9. CheckpointKept /\ SecondsKept
      BY <2>5, <2>6, SameKept DEF CheckpointKept
    <2> QED  BY <2>7, <2>8, <2>9
  <1> HIDE DEF New, others
  <1> QED  BY <1>2, <1>6, <1>7

\* What a step does to the outbox.
OutboxKeeps ==
    /\ TakenOK' /\ OutboxOK'
    /\ CheckpointKept
    /\ SecondsKept \/ \E t \in Tab : WriteClear(t)

\* A step that leaves it as it is.
LEMMA OutboxStays ==
    ASSUME IInv, Growth, outbox' = outbox, taken' = taken
    PROVE  OutboxKeeps
  <1>1. GoodOutboxes \subseteq GoodOutboxes'
    BY SharedGrows DEF Growth, IInv
  <1> QED  BY <1>1, SameKept DEF OutboxKeeps, IInv, TakenOK, OutboxOK

\* So every step keeps the outbox.
LEMMA NextOutbox ==
    ASSUME IInv, Growth, [Next]_vars
    PROVE  OutboxKeeps
  <1>1. GoodOutboxes \subseteq GoodOutboxes'
    BY SharedGrows DEF Growth, IInv
  <1>2. CASE \/ UNCHANGED vars
             \/ ClearElsewhere \/ RecordLate \/ \E f \in Family : RecordElsewhere(f)
    BY <1>2, OutboxStays
       DEF vars, client, facts, ClearElsewhere, RecordLate, RecordElsewhere
  <1>3. ASSUME NEW t \in Tab,
               \/ Open(t) \/ Close(t) \/ (\E s \in Session : Listen(t, s)) \/ EndSession(t)
               \/ (\E x \in Work : StageProgress(t, x)) \/ Initialize(t)
               \/ Send(t) \/ WriteRetry(t)
        PROVE  OutboxKeeps
    BY <1>3, OutboxStays DEF Open, Close, Listen, EndSession, StageProgress, Initialize, Send,
         WriteRetry, facts
  <1>4. ASSUME NEW t \in Tab,
               \/ RequestClear(t) \/ AnnounceClear(t) \/ LoseClear(t) \/ ReceiveNotice(t)
               \/ VerifyGeneration(t) \/ AnswerLookup(t) \/ ReceiveGeneration(t) \/ LookupFails(t)
        PROVE  OutboxKeeps
    BY <1>4, OutboxStays DEF RequestClear, AnnounceClear, LoseClear, ReceiveNotice,
         VerifyGeneration, AnswerLookup, ReceiveGeneration, LookupFails, client, facts
  <1>5. ASSUME NEW t \in Tab,
               \/ Flush(t) \/ RecordPost(t) \/ ReceiveAnswer(t) \/ LosePost(t) \/ RefusePost(t)
        PROVE  OutboxKeeps
    BY <1>5, OutboxStays DEF Flush, RecordPost, ReceiveAnswer, LosePost, RefusePost, client, facts
  <1>6. ASSUME NEW t \in Tab, WriteProgress(t) PROVE OutboxKeeps
    BY <1>6, WriteProgressOutbox DEF OutboxKeeps
  <1>7. ASSUME NEW t \in Tab,
               \/ WriteHistory(t) \/ WriteGeneration(t) \/ WriteClear(t)
               \/ Acknowledge(t) \/ WriteRefused(t)
        PROVE  OutboxKeeps
    <2>1. OutboxStep /\ (SecondsKept \/ WriteClear(t))
      BY <1>7, WriteHistoryOutbox, WriteGenerationOutbox, WriteClearOutbox, AcknowledgeOutbox,
         WriteRefusedOutbox
    <2>2. taken' = taken
      BY <1>7, OtherMoves DEF Still
    <2> QED  BY <1>1, <2>1, <2>2 DEF OutboxKeeps, OutboxStep, OutboxOK, TakenOK, IInv
  <1> QED  BY <1>2, <1>3, <1>4, <1>5, <1>6, <1>7 DEF Next, Write

-----------------------------------------------------------------------------
(* What is announced. *)

\* A cursor does not move back.
LEMMA CursorGrows ==
    ASSUME IInv, Moves, NEW f \in Family
    PROVE  cursor'[f].order >= cursor[f].order
  <1>1. outbox.order \in Nat /\ RecordOK /\ TakenOK /\ RecordOK'
    BY MovesGrown DEF IInv, OutboxOK, GoodOutboxes
  <1>2. cursor'[f] = cursor[f] \/ Later(cursor'[f], cursor[f])
    <2>1. ASSUME NEW progress \in SUBSET TakenCheckpoints, NEW history \in SUBSET MeasuredTotals,
                 Recorded(progress, history)
          PROVE  cursor'[f] = cursor[f] \/ Later(cursor'[f], cursor[f])
      BY <1>1, <2>1, RecordedCursor DEF Recorded
    <2>2. ASSUME NEW g \in Family, Elsewhere(g)
          PROVE  cursor'[f] = cursor[f] \/ Later(cursor'[f], cursor[f])
      BY <1>1, <2>2 DEF Elsewhere, RecordOK
    <2> QED  BY <2>1, <2>2 DEF Moves, Still, Listened, Took, Cleared, server
  <1>3. cursor[f].order \in Nat /\ cursor'[f].order \in Nat
    BY <1>1 DEF RecordOK
  <1> QED  BY <1>2, <1>3 DEF Later

\* A confirmed cursor is one of the batch's recorded checkpoints.
LEMMA ConfirmedRecorded ==
    ASSUME IInv, NEW f \in Family, NEW acks \in SUBSET ProgressAcks, NEW pending,
           Confirmed(f, acks, pending) > 0
    PROVE  /\ Confirmed(f, acks, pending) \in Nat
           /\ <<f, Confirmed(f, acks, pending)>> \in taken
           /\ Confirmed(f, acks, pending) <= cursor[f].order
  <1> DEFINE recorded == {a.order : a \in {x \in acks : x.status = "recorded" /\ FamilyOf[x.work] = f}}
             newer(o) ==
                \/ \E a \in acks : a.status = "stale" /\ FamilyOf[a.work] = f /\ a.order > o
                \/ \E e \in Unblocked(pending) : FamilyOf[e.work] = f /\ e.order > o
             latest == {o \in recorded : (\A p \in recorded : p <= o) /\ ~newer(o)}
             o == Confirmed(f, acks, pending)
  <1>1. o = IF latest = {} THEN 0 ELSE CHOOSE m \in latest : TRUE
    BY DEF Confirmed
  <1>2. latest \subseteq recorded
    OBVIOUS
  <1> HIDE DEF latest, o
  <1>3. o \in recorded
    BY <1>1, <1>2 DEF o
  <1>4. PICK a \in acks : a.order = o /\ a.status = "recorded" /\ FamilyOf[a.work] = f
    BY <1>3
  <1>5. a.order \in Nat /\ <<f, a.order>> \in taken /\ ~Later(Checkpoint(a), cursor[f])
    BY <1>4 DEF ProgressAcks, ProgressAck, Settled
  <1>6. a.order <= cursor[f].order
    BY <1>5 DEF Later, Checkpoint, IInv, RecordOK
  <1> QED  BY <1>4, <1>5, <1>6 DEF o

\* Every step keeps what is announced.
LEMMA NextAnnounced ==
    ASSUME IInv, Growth, [Next]_vars
    PROVE  AnnouncedOK'
  <1>1. Moves
    BY NextMoves
  <1> DEFINE Good(f, o) == o \in Nat /\ (o > 0 => <<f, o>> \in taken /\ o <= cursor[f].order)
  <1>2. \A t \in Tab, f \in Family : Good(f, announced[t][f])
    BY DEF IInv, AnnouncedOK, AnnouncedIsRecorded
  <1>3. ASSUME announced' \in [Tab -> [Family -> Nat]],
               \A t \in Tab, f \in Family : Good(f, announced'[t][f])
        PROVE  AnnouncedOK'
    <2> SUFFICES ASSUME NEW t \in Tab, NEW f \in Family, announced'[t][f] > 0
                 PROVE  /\ <<f, announced'[t][f]>> \in taken'
                        /\ announced'[t][f] <= cursor'[f].order
      BY <1>3 DEF AnnouncedOK, AnnouncedIsRecorded
    <2>1. <<f, announced'[t][f]>> \in taken /\ announced'[t][f] <= cursor[f].order
          /\ announced'[t][f] \in Nat
      BY <1>3
    <2>2. cursor'[f].order >= cursor[f].order
      BY <1>1, CursorGrows
    <2>3. cursor[f].order \in Nat /\ cursor'[f].order \in Nat
      BY DEF IInv, RecordOK, Growth
    <2>4. taken \subseteq taken'
      BY DEF Growth
    <2> QED  BY <2>1, <2>2, <2>3, <2>4
  <1>4. CASE announced' = announced
    BY <1>2, <1>3, <1>4 DEF IInv, AnnouncedOK
  <1>5. CASE \/ UNCHANGED vars
             \/ ClearElsewhere \/ RecordLate \/ \E f \in Family : RecordElsewhere(f)
    BY <1>4, <1>5 DEF vars, client, ClearElsewhere, RecordLate, RecordElsewhere
  <1>6. ASSUME NEW t \in Tab, Close(t) PROVE AnnouncedOK'
    <2>1. announced' = [announced EXCEPT ![t] = [f \in Family |-> 0]]
      BY <1>6 DEF Close, NothingAnnounced
    <2> QED  BY <1>2, <1>3, <2>1 DEF IInv, AnnouncedOK
  <1>7. ASSUME NEW t \in Tab, Acknowledge(t) PROVE AnnouncedOK'
    <2> DEFINE W == Head(writes[t])
               progress == ProgressAfter(W.progress)
               O(f) == Confirmed(f, W.progress, progress)
    <2>1. announced' = [announced EXCEPT ![t] = [f \in Family |->
                           IF O(f) > 0 THEN O(f) ELSE announced[t][f]]]
      BY <1>7 DEF Acknowledge
    <2>2. W.progress \in SUBSET ProgressAcks
      <3>1. W \in AcknowledgeWrites(t)
        BY <1>7, RunsGood, WriteKinds DEF Acknowledge
      <3> HIDE DEF W
      <3> QED  BY <3>1 DEF AcknowledgeWrites
    <2>3. \A f \in Family : O(f) > 0 => Good(f, O(f))
      BY <2>2, ConfirmedRecorded
    <2> HIDE DEF O
    <2>4. announced' \in [Tab -> [Family -> Nat]]
      BY <2>1, <2>3 DEF IInv, AnnouncedOK
    <2>5. \A u \in Tab, f \in Family : Good(f, announced'[u][f])
      BY <1>2, <2>1, <2>3 DEF IInv, AnnouncedOK
    <2> QED  BY <1>3, <2>4, <2>5
  <1>8. ASSUME NEW t \in Tab,
               \/ Open(t) \/ (\E s \in Session : Listen(t, s)) \/ EndSession(t)
               \/ (\E x \in Work : StageProgress(t, x)) \/ Initialize(t) \/ WriteHistory(t)
               \/ WriteProgress(t) \/ WriteGeneration(t) \/ WriteClear(t)
               \/ Send(t) \/ WriteRetry(t) \/ WriteRefused(t)
        PROVE  AnnouncedOK'
    BY <1>4, <1>8 DEF Open, Listen, EndSession, StageProgress, Initialize, WriteHistory,
         WriteProgress, WriteGeneration, WriteClear, Send, WriteRetry, WriteRefused
  <1>9. ASSUME NEW t \in Tab,
               \/ RequestClear(t) \/ AnnounceClear(t) \/ LoseClear(t) \/ ReceiveNotice(t)
               \/ VerifyGeneration(t) \/ AnswerLookup(t) \/ ReceiveGeneration(t) \/ LookupFails(t)
               \/ Flush(t) \/ RecordPost(t) \/ ReceiveAnswer(t) \/ LosePost(t) \/ RefusePost(t)
        PROVE  AnnouncedOK'
    BY <1>4, <1>9 DEF RequestClear, AnnounceClear, LoseClear, ReceiveNotice, VerifyGeneration,
         AnswerLookup, ReceiveGeneration, LookupFails, Flush, RecordPost, ReceiveAnswer, LosePost,
         RefusePost, client
  <1> QED  BY <1>5, <1>6, <1>7, <1>8, <1>9 DEF Next, Write

-----------------------------------------------------------------------------
(* The rest of the types. *)

ClockOK == clock \in [Tab -> Session \union {NoSession}]

\* What the invariant does not speak of.
RestOK ==
    /\ ClockOK
    /\ notices \in [Tab -> Nat]
    /\ clearing \in [Tab -> BOOLEAN]
    /\ \A f \in Family : cursor[f].id \in {0, 1, 2}
    /\ left \in [Occasion -> Nat]

\* A budget is spent down to nothing.
LEMMA SpendType ==
    ASSUME left \in [Occasion -> Nat], NEW o, Spend(o)
    PROVE  left' \in [Occasion -> Nat]
  <1>1. left' = [left EXCEPT ![o] = left[o] - 1] /\ left[o] > 0
    BY DEF Spend
  <1>2. \A x \in Occasion : left'[x] \in Nat
    BY <1>1
  <1> QED  BY <1>1, <1>2

\* A clock stops, or goes on.
LEMMA ClockType ==
    ASSUME ClockOK, NEW t \in Tab, NEW g,
           \/ clock' = clock
           \/ clock' = [clock EXCEPT ![t] = NoSession]
           \/ SetGeneration(t, g)
    PROVE  ClockOK'
  BY DEF ClockOK, SetGeneration

\* A step keeps the clocks.
LEMMA NextClock ==
    ASSUME ClockOK, [Next]_vars
    PROVE  ClockOK'
  <1>1. CASE UNCHANGED clock
    BY <1>1 DEF ClockOK
  <1>2. CASE UNCHANGED client
    BY <1>1, <1>2 DEF client
  <1>3. CASE UNCHANGED vars
    BY <1>2, <1>3 DEF vars
  <1>4. ASSUME NEW t \in Tab, NEW s \in Session, Listen(t, s) PROVE ClockOK'
    BY <1>4 DEF Listen, ClockOK
  <1>5. ASSUME NEW t \in Tab, Initialize(t) PROVE ClockOK'
    BY <1>5, ClockType DEF Initialize
  <1>6. ASSUME NEW t \in Tab, WriteGeneration(t) PROVE ClockOK'
    BY <1>6, ClockType DEF WriteGeneration
  <1>7. ASSUME NEW t \in Tab, Acknowledge(t) PROVE ClockOK'
    BY <1>7, ClockType DEF Acknowledge
  <1>8. ASSUME NEW t \in Tab, Close(t) \/ EndSession(t) \/ AnnounceClear(t) \/ ReceiveNotice(t)
        PROVE  ClockOK'
    BY <1>8, ClockType DEF Close, EndSession, AnnounceClear, ReceiveNotice, HearClear
  <1>9. ASSUME NEW t \in Tab,
               \/ Open(t) \/ (\E x \in Work : StageProgress(t, x)) \/ WriteHistory(t)
               \/ WriteProgress(t) \/ WriteClear(t) \/ Send(t) \/ WriteRetry(t) \/ WriteRefused(t)
        PROVE  ClockOK'
    BY <1>1, <1>9 DEF Open, StageProgress, WriteHistory, WriteProgress, WriteClear, Send,
         WriteRetry, WriteRefused
  <1>10. ASSUME NEW t \in Tab,
               \/ RequestClear(t) \/ LoseClear(t) \/ RecordPost(t)
               \/ VerifyGeneration(t) \/ AnswerLookup(t) \/ ReceiveGeneration(t) \/ LookupFails(t)
               \/ Flush(t) \/ ReceiveAnswer(t) \/ LosePost(t) \/ RefusePost(t)
        PROVE  ClockOK'
    BY <1>1, <1>10 DEF client, RequestClear, LoseClear, RecordPost, VerifyGeneration, AnswerLookup,
         ReceiveGeneration, LookupFails, Flush, ReceiveAnswer, LosePost, RefusePost
  <1>11. ASSUME ClearElsewhere \/ RecordLate \/ \E f \in Family : RecordElsewhere(f)
         PROVE  ClockOK'
    BY <1>2, <1>11 DEF ClearElsewhere, RecordLate, RecordElsewhere
  <1> QED
    BY <1>3, <1>4, <1>5, <1>6, <1>7, <1>8, <1>9, <1>10, <1>11 DEF Next, Write

\* A step keeps the budget.
LEMMA NextLeft ==
    ASSUME left \in [Occasion -> Nat], [Next]_vars
    PROVE  left' \in [Occasion -> Nat]
  <1>1. CASE UNCHANGED left
    BY <1>1
  <1>2. CASE \E o \in Occasion : Spend(o)
    BY <1>2, SpendType
  <1>3. ASSUME NEW t \in Tab,
               \/ Close(t) \/ (\E s \in Session : Listen(t, s)) \/ (\E x \in Work : StageProgress(t, x))
               \/ RequestClear(t) \/ LoseClear(t) \/ LookupFails(t) \/ LosePost(t) \/ RefusePost(t)
        PROVE  left' \in [Occasion -> Nat]
    BY <1>2, <1>3 DEF Occasion, Close, Listen, StageProgress, RequestClear, ClearRecord, LoseClear,
         LookupFails, LosePost, RefusePost
  <1>4. CASE ClearElsewhere \/ \E f \in Family : RecordElsewhere(f)
    BY <1>2, <1>4 DEF Occasion, ClearElsewhere, ClearRecord, RecordElsewhere
  <1>5. ASSUME NEW t \in Tab,
               \/ Open(t) \/ EndSession(t) \/ VerifyGeneration(t) \/ AnswerLookup(t)
               \/ ReceiveGeneration(t) \/ AnnounceClear(t) \/ ReceiveNotice(t) \/ Flush(t)
               \/ RecordPost(t) \/ ReceiveAnswer(t)
        PROVE  left' \in [Occasion -> Nat]
    BY <1>1, <1>5 DEF Open, EndSession, VerifyGeneration, AnswerLookup, ReceiveGeneration,
         AnnounceClear, ReceiveNotice, Flush, RecordPost, ReceiveAnswer
  <1>6. ASSUME NEW t \in Tab, Write(t) PROVE left' \in [Occasion -> Nat]
    BY <1>1, <1>6 DEF Write, Initialize, WriteHistory, WriteProgress, WriteGeneration, WriteClear,
         Send, Acknowledge, WriteRetry, WriteRefused
  <1>7. CASE RecordLate \/ UNCHANGED vars
    BY <1>1, <1>7 DEF RecordLate, vars
  <1> QED  BY <1>3, <1>4, <1>5, <1>6, <1>7 DEF Next

\* A step keeps the announcements on their way.
LEMMA NextNotices ==
    ASSUME notices \in [Tab -> Nat], clearing \in [Tab -> BOOLEAN], [Next]_vars
    PROVE  notices' \in [Tab -> Nat] /\ clearing' \in [Tab -> BOOLEAN]
  <1> DEFINE Goal == notices' \in [Tab -> Nat] /\ clearing' \in [Tab -> BOOLEAN]
  <1> SUFFICES Goal
    OBVIOUS
  <1>1. CASE UNCHANGED <<notices, clearing>>
    BY <1>1
  <1>2. ASSUME NEW t \in Tab, Close(t) PROVE Goal
    BY <1>2 DEF Close
  <1>3. ASSUME NEW t \in Tab, RequestClear(t) \/ LoseClear(t) PROVE Goal
    BY <1>3 DEF RequestClear, LoseClear
  <1>4. ASSUME NEW t \in Tab, AnnounceClear(t) PROVE Goal
    BY <1>4 DEF AnnounceClear
  <1>5. ASSUME NEW t \in Tab, ReceiveNotice(t) PROVE Goal
    <2>1. /\ notices[t] > 0 /\ clearing' = clearing
          /\ notices' = [notices EXCEPT ![t] = notices[t] - 1]
      BY <1>5 DEF ReceiveNotice
    <2> QED  BY <2>1
  <1> HIDE DEF Goal
  <1>6. CASE UNCHANGED network
    BY <1>1, <1>6 DEF network
  <1>7. ASSUME NEW t \in Tab,
               \/ Open(t) \/ (\E s \in Session : Listen(t, s)) \/ EndSession(t)
               \/ (\E x \in Work : StageProgress(t, x)) \/ Flush(t) \/ RecordPost(t)
               \/ VerifyGeneration(t) \/ AnswerLookup(t) \/ ReceiveGeneration(t) \/ LookupFails(t)
               \/ ReceiveAnswer(t) \/ LosePost(t) \/ RefusePost(t)
        PROVE  Goal
    BY <1>1, <1>6, <1>7 DEF Open, Listen, EndSession, StageProgress, Flush, RecordPost,
         VerifyGeneration, AnswerLookup, ReceiveGeneration, LookupFails, ReceiveAnswer, LosePost,
         RefusePost
  <1>8. ASSUME NEW t \in Tab, Write(t) PROVE Goal
    BY <1>1, <1>6, <1>8 DEF Write, Initialize, WriteHistory, WriteProgress, WriteGeneration,
         WriteClear, Send, Acknowledge, WriteRetry, WriteRefused
  <1>9. CASE ClearElsewhere \/ (\E f \in Family : RecordElsewhere(f)) \/ RecordLate \/ UNCHANGED vars
    BY <1>1, <1>6, <1>9 DEF ClearElsewhere, RecordElsewhere, RecordLate, vars
  <1> QED  BY <1>2, <1>3, <1>4, <1>5, <1>7, <1>8, <1>9 DEF Next

\* A cursor moves to a report of this browser or of another device.
LEMMA MovesCursorId ==
    ASSUME RecordOK, TakenOK, OutboxOK, Moves, NEW f \in Family, cursor[f].id \in {0, 1, 2}
    PROVE  cursor'[f].id \in {0, 1, 2}
  <1>1. CASE cursor' = cursor
    BY <1>1
  <1>2. ASSUME NEW g \in Family, Elsewhere(g) PROVE cursor'[f].id \in {0, 1, 2}
    BY <1>2 DEF Elsewhere, RecordOK
  <1>3. ASSUME NEW progress \in SUBSET TakenCheckpoints, NEW history \in SUBSET MeasuredTotals,
               Recorded(progress, history)
        PROVE  cursor'[f].id \in {0, 1, 2}
    <2>1. outbox.order \in Nat
      BY DEF OutboxOK, GoodOutboxes
    <2>2. cursor'[f] = cursor[f] \/ cursor'[f].id = Ours
      BY <1>3, <2>1, RecordedCursor DEF Recorded
    <2> QED  BY <2>2 DEF Ours
  <1> QED  BY <1>1, <1>2, <1>3 DEF Moves, Still, Listened, Took, Cleared, server

\* Every step keeps them.
LEMMA NextRest ==
    ASSUME IInv, RestOK, [Next]_vars
    PROVE  RestOK'
  <1>1. \A f \in Family : cursor'[f].id \in {0, 1, 2}
    BY NextMoves, MovesCursorId DEF IInv, RestOK
  <1> QED  BY <1>1, NextClock, NextLeft, NextNotices DEF RestOK

\* Good writes, reports and lookups are of their type.
LEMMA GoodTypes ==
    ASSUME NEW t \in Tab
    PROVE  /\ GoodWrites(t) \subseteq WriteSet
           /\ GoodPosts(t) \subseteq PostSet
           /\ GoodLate \subseteq [progress : SUBSET SentProgress, history : SUBSET SentHistory]
           /\ GoodLookups(t) \subseteq [epoch : Nat, answer : Generation]
  <1>1. ProgressAcks \subseteq ProgressAck /\ HistoryAcks \subseteq HistoryAck
        /\ TakenCheckpoints \subseteq SentProgress /\ MeasuredTotals \subseteq SentHistory
    BY DEF ProgressAcks, HistoryAcks, TakenCheckpoints, MeasuredTotals
  <1>2. AcknowledgeWrites(t) \subseteq
           [op : {"acknowledge"}, epoch : Nat, generation : Nat,
            progress : SUBSET ProgressAck, history : SUBSET HistoryAck]
    BY <1>1 DEF AcknowledgeWrites
  <1>3. GoodWrites(t) \subseteq WriteSet
    BY <1>2 DEF GoodWrites, WriteSet, PlainWrites, RefuseWrites, HistoryWrites, VerifyWrites,
         FlushWrites, ProgressAck, HistoryAck
  <1>4. Answers \subseteq AnswerSet
    BY <1>1 DEF Answers, AnswerSet, ProgressAck, HistoryAck
  <1>5. GoodPosts(t) \subseteq PostSet
    BY <1>1, <1>4 DEF GoodPosts, PostSet
  <1>6. GoodLate \subseteq [progress : SUBSET SentProgress, history : SUBSET SentHistory]
    BY <1>1 DEF GoodLate
  <1> QED  BY <1>3, <1>5, <1>6 DEF GoodLookups

\* The invariants give the types.
LEMMA Types ==
    ASSUME IInv, CountedOnce, RestOK
    PROVE  TypeOK
  <1>1. counted \in Nat
    BY SumsAdd, ReportsAssumption DEF IInv, RecordOK, CountedOnce
  <1>2. cursor \in [Family -> [order : Nat, id : {0, 1, 2}]]
    BY DEF IInv, RecordOK, RestOK
  <1>3. writes \in [Tab -> Seq(WriteSet)]
    <2>1. \A t \in Tab : writes[t] \in Seq(GoodWrites(t)) /\ GoodWrites(t) \subseteq WriteSet
      BY GoodTypes DEF IInv, WritesOK
    <2>2. \A t \in Tab : writes[t] \in Seq(WriteSet)
      BY <2>1
    <2> QED  BY <2>2 DEF IInv, WritesOK
  <1>4. post \in [Tab -> PostSet \union {NoPost}]
    <2>1. \A t \in Tab : post[t] \in PostSet \union {NoPost}
      BY GoodTypes DEF IInv, PostOK
    <2> QED  BY <2>1 DEF IInv, PostOK
  <1>5. lookups \in [Tab -> SUBSET [epoch : Nat, answer : Generation]]
    <2>1. \A t \in Tab : lookups[t] \subseteq [epoch : Nat, answer : Generation]
      BY GoodTypes DEF IInv, LookupsOK
    <2> QED  BY <2>1 DEF IInv, LookupsOK
  <1>6. late \in SUBSET [progress : SUBSET SentProgress, history : SUBSET SentHistory]
    BY GoodTypes DEF IInv, LateOK, GoodLate, TakenCheckpoints, MeasuredTotals
  <1>7. outbox \in [generation : Generation, order : Nat,
                    progress : SUBSET ProgressEntry, history : SUBSET HistoryEntry]
    BY DEF IInv, OutboxOK, GoodOutboxes
  <1>8. tab \in [Tab -> [phase : {"closed", "starting", "ready"}, epoch : Nat,
                         generation : Generation, verified : BOOLEAN,
                         lookup : {"idle", "pending", "waiting", "blocked"}, inFlight : BOOLEAN]]
        /\ knownClear \in [Tab -> Nat]
    BY DEF IInv, TabOK, TabType
  <1>9. /\ generation \in Nat /\ credited \in [Session -> Nat] /\ heard \in [Session -> Nat]
        /\ tag \in [Session -> Generation] /\ born \in [Session -> Generation]
        /\ taken \in SUBSET (Family \X Nat) /\ announced \in [Tab -> [Family -> Nat]]
    BY DEF IInv, RecordOK, TakenOK, AnnouncedOK
  <1> QED
    BY <1>1, <1>2, <1>3, <1>4, <1>5, <1>6, <1>7, <1>8, <1>9 DEF TypeOK, RestOK, ClockOK

-----------------------------------------------------------------------------
(* The theorems. *)

\* Nothing is measured, taken, on its way or announced at the start.
LEMMA Initially ==
    ASSUME Init
    PROVE  IInv
  <1>1. RecordOK
    BY DEF Init, RecordOK, Generation, NoGeneration
  <1>2. TakenOK
    BY DEF Init, TakenOK
  <1>3. OutboxOK
    BY DEF Init, OutboxOK, GoodOutboxes, Generation, NoGeneration
  <1>4. TabOK
    BY DEF Init, TabOK, TabType, Closed, Generation, NoGeneration
  <1>5. WritesOK
    BY EmptySeq DEF Init, WritesOK
  <1>6. PostOK /\ LateOK /\ LookupsOK
    BY DEF Init, PostOK, LateOK, LookupsOK
  <1>7. AnnouncedOK
    BY DEF Init, AnnouncedOK, AnnouncedIsRecorded, NothingAnnounced
  <1> QED  BY <1>1, <1>2, <1>3, <1>4, <1>5, <1>6, <1>7 DEF IInv

\* Every step keeps the invariant.
LEMMA Inductive ==
    ASSUME IInv, [Next]_vars
    PROVE  IInv'
  <1>1. Growth
    BY NextGrows
  <1> QED
    BY <1>1, NextWrites, NextLookups, NextLate, NextPosts, NextOutbox, NextAnnounced
       DEF IInv, Growth, OutboxKeeps

\* Everything on its way was measured or taken, and what is said of the record
\* is true of it.
THEOREM Invariance == Spec => []IInv
  <1>1. Init => IInv
    BY Initially
  <1>2. IInv /\ [Next]_vars => IInv'
    BY Inductive
  <1> QED  BY <1>1, <1>2, PTL DEF Spec

\* The account's record keeps the ledger's promise, whatever tabs, networks and
\* clears do: no second is credited twice, none of a cleared generation, and a
\* cursor only moves to a later checkpoint that was taken.
THEOREM Implements == Spec => LedgerSpec
  <1>1. Init => Ledger!Init
    BY DEF Init, Ledger!Init
  <1>2. IInv /\ [Next]_vars => [Ledger!Next]_(Ledger!vars)
    BY NextMoves, MovesLedger DEF IInv
  <1> QED  BY <1>1, <1>2, Invariance, PTL DEF Spec, LedgerSpec, Ledger!Spec

\* Time measured before a clear never gets into the record after it.
THEOREM ClearedTime == Spec => []ClearedStaysCleared
  <1>1. IInv => ClearedStaysCleared
    <2> SUFFICES ASSUME IInv, NEW s \in Session, credited[s] > 0
                 PROVE  born[s] = generation /\ tag[s] = generation
      BY DEF ClearedStaysCleared
    <2>1. tag[s] \in Int /\ born[s] \in Int /\ generation \in Int
      BY DEF IInv, RecordOK, Generation, NoGeneration
    <2>2. tag[s] <= born[s] /\ born[s] <= generation /\ tag[s] = generation
      BY DEF IInv, RecordOK
    <2> QED  BY <2>1, <2>2
  <1> QED  BY <1>1, Invariance, PTL

\* No tab trusts a generation from before a clear it has heard of.
THEOREM ClearHolds == Spec => []ClearIsNotUndone
  <1>1. IInv => ClearIsNotUndone
    BY DEF IInv, TabOK, ClearIsNotUndone
  <1> QED  BY <1>1, Invariance, PTL

\* A cursor is announced only once the record has reached it.
THEOREM AnnouncedInRecord == Spec => []AnnouncedIsRecorded
  <1>1. IInv => AnnouncedIsRecorded
    BY DEF IInv, AnnouncedOK
  <1> QED  BY <1>1, Invariance, PTL

\* No checkpoint leaves the outbox before the record has it or a later one.
THEOREM NoCheckpointLost == Spec => CheckpointsKept
  <1>1. IInv /\ [Next]_vars => [CheckpointKept]_vars
    BY NextGrows, NextOutbox DEF OutboxKeeps
  <1> QED  BY <1>1, Invariance, PTL DEF Spec, CheckpointsKept

\* No time of the record's generation leaves the outbox before the record has
\* it, except when the outbox is cleared.
THEOREM NoListeningLost == Spec => ListeningKept
  <1>1. IInv /\ [Next]_vars => [SecondsKept \/ \E t \in Tab : WriteClear(t)]_vars
    BY NextGrows, NextOutbox DEF OutboxKeeps
  <1> QED  BY <1>1, Invariance, PTL DEF Spec, ListeningKept

\* The days count every second of the record exactly once.
THEOREM CountedInFull == Spec => []CountedOnce
  <1>1. Init => CountedOnce
    BY SumOfNothing, ReportsAssumption DEF Init, CountedOnce
  <1>2. IInv /\ CountedOnce /\ [Next]_vars => CountedOnce'
    BY NextMoves, MovesCount DEF IInv
  <1> QED  BY <1>1, <1>2, Invariance, PTL DEF Spec

\* Every variable keeps its type, whatever the tabs, the network and the
\* server do.
THEOREM TypeCorrect == Spec => []TypeOK
  <1>1. Init => RestOK
    BY ReportsAssumption DEF Init, RestOK, ClockOK
  <1>2. IInv /\ RestOK /\ [Next]_vars => RestOK'
    BY NextRest
  <1>3. IInv /\ CountedOnce /\ RestOK => TypeOK
    BY Types
  <1> QED  BY <1>1, <1>2, <1>3, Invariance, CountedInFull, PTL DEF Spec

=============================================================================
