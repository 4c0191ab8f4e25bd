-------------------------- MODULE PlaybackReports --------------------------
(***************************************************************************)
(* Playback reports: the tabs of one browser, the outbox they share, and   *)
(* the account's record on the server (playbackReportScheduler.ts,         *)
(* playbackReportOutbox.ts, listeningHistoryEvents.ts; the server side is  *)
(* personal/playback_report.go and personal/history.go).                   *)
(*                                                                         *)
(* A tab runs one task at a time.  It changes the outbox through a chain   *)
(* of writes, each an atomic transaction; whatever awaits a write goes on  *)
(* in the same task, so a write and what follows it are one step.  Other   *)
(* tabs, the server and the network act between any two steps.             *)
(*                                                                         *)
(* Left out: the clock.  A tick flushes when something is due, and a       *)
(* failed flush or lookup is tried again after its backoff, so either may  *)
(* happen at any later moment; a flush that would send nothing has no      *)
(* effect and is not started.                                              *)
(***************************************************************************)
EXTENDS Integers, FiniteSets, Sequences, Functions

CONSTANTS
    Tab,
    Work,           \* works the browser plays: an edition each
    FamilyOf,       \* the unified work each edition belongs to
    Session,        \* listening sessions
    Missing,        \* works, and sessions of works, the server does not know
    NoSession,
    NoPost,
    ProgressCap,    \* MAX_OUTBOX_PROGRESS
    HistoryCap,     \* MAX_OUTBOX_HISTORY
    Jump,           \* bound: how far the wall clock runs ahead of the order
    MaxOrder,       \* bound: the latest order another device reports
    Budgets         \* how often each bounded event occurs: one is drawn at the start

Occasion == {"listen", "checkpoint", "clear", "elsewhere", "close", "fail", "refuse"}

Family == {FamilyOf[w] : w \in Work}

ASSUME ReportsAssumption ==
    /\ IsFiniteSet(Work) /\ IsFiniteSet(Session)
    /\ NoSession \notin Session
    /\ ProgressCap \in Nat /\ HistoryCap \in Nat
    /\ Jump \in Nat /\ MaxOrder \in Nat
    /\ Budgets \subseteq [Occasion -> Nat]

VARIABLES
    outbox,         \* the record in IndexedDB: [generation, order, progress, history]
    tab,            \* each tab's scheduler
    writes,         \* each tab's chain of writes
    clock,          \* the session each tab's listening clock measures
    post,           \* each tab's report in flight
    lookups,        \* each tab's generation lookups in flight
    notices,        \* clear announcements on their way to each tab
    clearing,       \* a tab's clear is committed and its reply on the way
    late,           \* reports on their way whose tab no longer waits
    announced,      \* the last cursor each tab announced, per family
    knownClear,     \* the record's generation when each tab last heard of a clear
    generation, credited, counted, cursor,      \* the server's record
    tag, born,      \* the generation each session is measured under, and the record's
    heard, taken,   \* seconds measured, and checkpoints given an order
    left            \* what is left of the budget

client == <<outbox, tab, writes, clock, announced>>
network == <<post, lookups, notices, clearing, late>>
server == <<generation, credited, counted, cursor>>
facts == <<tag, born, heard, taken, knownClear>>

vars == <<client, network, server, facts, left>>

\* No generation is known; every generation is newer.
NoGeneration == -1

\* Checkpoints are ordered by their order; the report id decides a tie.  The
\* browser's own reports have one id here: their orders differ.
Later(a, b) == a.order > b.order \/ (a.order = b.order /\ a.id > b.id)
Ours == 1

Closed == [phase |-> "closed", epoch |-> 0, generation |-> NoGeneration,
           verified |-> FALSE, lookup |-> "idle", inFlight |-> FALSE]

NothingAnnounced == [f \in Family |-> 0]

Init ==
    /\ outbox = [generation |-> NoGeneration, order |-> 0, progress |-> {}, history |-> {}]
    /\ tab = [t \in Tab |-> Closed]
    /\ writes = [t \in Tab |-> <<>>]
    /\ clock = [t \in Tab |-> NoSession]
    /\ post = [t \in Tab |-> NoPost]
    /\ lookups = [t \in Tab |-> {}]
    /\ notices = [t \in Tab |-> 0]
    /\ clearing = [t \in Tab |-> FALSE]
    /\ late = {}
    /\ announced = [t \in Tab |-> NothingAnnounced]
    /\ generation = 0
    /\ credited = [s \in Session |-> 0]
    /\ counted = 0
    /\ cursor = [f \in Family |-> [order |-> 0, id |-> 0]]
    /\ tag = [s \in Session |-> NoGeneration]
    /\ born = [s \in Session |-> NoGeneration]
    /\ heard = [s \in Session |-> 0]
    /\ taken = {}
    /\ knownClear = [t \in Tab |-> 0]
    /\ left \in Budgets

Spend(o) ==
    /\ left[o] > 0
    /\ left' = [left EXCEPT ![o] = @ - 1]

Queue(t, w) == writes' = [writes EXCEPT ![t] = Append(@, w)]

\* The next write of a tab runs.
Runs(t, op) ==
    /\ writes[t] # <<>>
    /\ Head(writes[t]).op = op
    /\ writes' = [writes EXCEPT ![t] = Tail(@)]

\* Listeners of a changed generation end the session measured so far.
SetGeneration(t, g) ==
    clock' = IF tab[t].generation = g THEN clock ELSE [clock EXCEPT ![t] = NoSession]

Unblocked(entries) == {e \in entries : ~e.blocked}

OfGeneration(history, g) == {e \in history : tag[e.session] = g}

-----------------------------------------------------------------------------
(* A tab opens and closes. *)

Open(t) ==
    /\ tab[t].phase = "closed"
    /\ tab' = [tab EXCEPT ![t].phase = "starting"]
    /\ Queue(t, [op |-> "initialize"])
    /\ UNCHANGED <<outbox, clock, announced, network, server, facts, left>>

\* initialize: the stored generation is used, and a lookup verifies it.
Initialize(t) ==
    /\ Runs(t, "initialize")
    /\ SetGeneration(t, outbox.generation)
    /\ tab' = [tab EXCEPT ![t] = [@ EXCEPT !.phase = "ready", !.verified = FALSE,
                                           !.generation = outbox.generation,
                                           !.lookup = "pending"]]
    /\ lookups' = [lookups EXCEPT ![t] = @ \union {[epoch |-> tab[t].epoch, answer |-> NoGeneration]}]
    /\ UNCHANGED <<outbox, announced, post, notices, clearing, late, server, facts, left>>

\* A report in flight may still reach the server.
Abandon(t) ==
    \/ late' = late
    \/ /\ post[t] # NoPost
       /\ post[t].answer = {}
       /\ late' = late \union {[progress |-> post[t].progress, history |-> post[t].history]}

\* The tab is closed, reloaded, crashes, or its account signs out: staged
\* writes that have not run are lost.
Close(t) ==
    /\ tab[t].phase # "closed"
    /\ Spend("close")
    /\ Abandon(t)
    /\ tab' = [tab EXCEPT ![t] = Closed]
    /\ writes' = [writes EXCEPT ![t] = <<>>]
    /\ clock' = [clock EXCEPT ![t] = NoSession]
    /\ post' = [post EXCEPT ![t] = NoPost]
    /\ lookups' = [lookups EXCEPT ![t] = {}]
    /\ notices' = [notices EXCEPT ![t] = 0]
    /\ clearing' = [clearing EXCEPT ![t] = FALSE]
    /\ announced' = [announced EXCEPT ![t] = NothingAnnounced]
    /\ knownClear' = [knownClear EXCEPT ![t] = 0]
    /\ UNCHANGED <<outbox, server, tag, born, heard, taken>>

-----------------------------------------------------------------------------
(* Staging. *)

\* The clock measures a second and publishes the session's total: stageHistory.
Listen(t, s) ==
    /\ tab[t].generation # NoGeneration
    /\ Spend("listen")
    /\ \/ /\ clock[t] = s
          /\ UNCHANGED <<tag, born, clock>>
       \/ /\ clock[t] = NoSession
          /\ heard[s] = 0
          /\ clock' = [clock EXCEPT ![t] = s]
          /\ tag' = [tag EXCEPT ![s] = tab[t].generation]
          /\ born' = [born EXCEPT ![s] = generation]
    /\ heard' = [heard EXCEPT ![s] = @ + 1]
    /\ Queue(t, [op |-> "history", session |-> s, seconds |-> heard[s] + 1])
    /\ UNCHANGED <<outbox, tab, announced, network, server, taken, knownClear>>

\* The track ends or changes: the next second starts a new session.
EndSession(t) ==
    /\ clock[t] # NoSession
    /\ clock' = [clock EXCEPT ![t] = NoSession]
    /\ UNCHANGED <<outbox, tab, writes, announced, network, server, facts, left>>

\* The write of stageHistory: totals of a session merge, a new session needs room.
WriteHistory(t) ==
    /\ Runs(t, "history")
    /\ LET w == Head(writes[t])
           mine == {e \in outbox.history : e.session = w.session}
           merged == {IF e.session = w.session /\ w.seconds > e.seconds
                      THEN [e EXCEPT !.seconds = w.seconds] ELSE e : e \in outbox.history}
           added == outbox.history
                      \union {[session |-> w.session, seconds |-> w.seconds, blocked |-> FALSE]}
       IN outbox' = IF outbox.generation # tag[w.session] THEN outbox
                    ELSE IF mine # {} THEN [outbox EXCEPT !.history = merged]
                    ELSE IF Cardinality(outbox.history) < HistoryCap
                         THEN [outbox EXCEPT !.history = added]
                    ELSE outbox
    /\ UNCHANGED <<tab, clock, announced, network, server, facts, left>>

\* stageProgress: the player takes a checkpoint of a work.
StageProgress(t, w) ==
    /\ tab[t].phase # "closed"
    /\ Spend("checkpoint")
    /\ Queue(t, [op |-> "progress", work |-> w])
    /\ UNCHANGED <<outbox, tab, clock, announced, network, server, facts>>

\* Its write: the order is max(order + 1, now); it replaces the work's entry,
\* quarantined or not.
WriteProgress(t) ==
    /\ Runs(t, "progress")
    /\ LET w == Head(writes[t]).work
           others == {e \in outbox.progress : e.work # w}
       IN IF Cardinality(others) < ProgressCap \/ others # outbox.progress
          THEN \E order \in outbox.order + 1 .. outbox.order + 1 + Jump :
                  /\ outbox' = [outbox EXCEPT
                        !.order = order,
                        !.progress = others
                           \union {[work |-> w, order |-> order, blocked |-> FALSE]}]
                  /\ taken' = taken \union {<<FamilyOf[w], order>>}
          ELSE UNCHANGED <<outbox, taken>>
    /\ UNCHANGED <<tab, clock, announced, network, server, tag, born, heard, knownClear, left>>

-----------------------------------------------------------------------------
(* The history generation. *)

\* verifyGeneration, from a tick.
VerifyGeneration(t) ==
    /\ tab[t].phase = "ready"
    /\ ~tab[t].verified
    /\ tab[t].lookup \in {"idle", "waiting"}
    /\ tab' = [tab EXCEPT ![t].lookup = "pending"]
    /\ lookups' = [lookups EXCEPT ![t] = @ \union {[epoch |-> tab[t].epoch, answer |-> NoGeneration]}]
    /\ UNCHANGED <<outbox, writes, clock, announced, post, notices, clearing, late, server, facts, left>>

\* The server answers a lookup (ListeningGeneration).
AnswerLookup(t) ==
    /\ \E l \in lookups[t] :
          /\ l.answer = NoGeneration
          /\ lookups' = [lookups EXCEPT ![t] = (@ \ {l}) \union {[l EXCEPT !.answer = generation]}]
    /\ UNCHANGED <<client, post, notices, clearing, late, server, facts, left>>

\* The answer arrives: one from before a clear is dropped, one older than the
\* tab's own generation is an error.
ReceiveGeneration(t) ==
    /\ \E l \in lookups[t] :
          /\ l.answer # NoGeneration
          /\ lookups' = [lookups EXCEPT ![t] = @ \ {l}]
          /\ IF l.epoch # tab[t].epoch THEN UNCHANGED <<tab, writes>>
             ELSE IF l.answer < tab[t].generation
             THEN /\ tab' = [tab EXCEPT ![t].lookup = "waiting"]
                  /\ UNCHANGED writes
             ELSE /\ Queue(t, [op |-> "verify", epoch |-> l.epoch, generation |-> l.answer])
                  /\ UNCHANGED tab
    /\ UNCHANGED <<outbox, clock, announced, post, notices, clearing, late, server, facts, left>>

\* A lookup fails: it is tried again later, or never when it is refused.
LookupFails(t) ==
    /\ \E l \in lookups[t], occasion \in {"fail", "refuse"} :
          /\ Spend(occasion)
          /\ lookups' = [lookups EXCEPT ![t] = @ \ {l}]
          /\ tab' = IF l.epoch # tab[t].epoch THEN tab
                    ELSE [tab EXCEPT ![t].lookup =
                            IF occasion = "refuse" THEN "blocked" ELSE "waiting"]
    /\ UNCHANGED <<outbox, writes, clock, announced, post, notices, clearing, late, server, facts>>

\* Its write: the outbox takes the generation and keeps only its sessions.
WriteGeneration(t) ==
    /\ Runs(t, "verify")
    /\ LET w == Head(writes[t]) IN
          /\ outbox' = IF outbox.generation > w.generation THEN outbox
                       ELSE [outbox EXCEPT !.generation = w.generation,
                                           !.history = OfGeneration(@, w.generation)]
          /\ IF w.epoch # tab[t].epoch THEN UNCHANGED <<tab, clock>>
             ELSE IF outbox'.generation # w.generation
             THEN /\ tab' = [tab EXCEPT ![t].lookup = "waiting"]
                  /\ UNCHANGED clock
             ELSE /\ SetGeneration(t, w.generation)
                  /\ tab' = [tab EXCEPT ![t] = [@ EXCEPT !.lookup = "idle", !.verified = TRUE,
                                                         !.generation = w.generation]]
    /\ UNCHANGED <<announced, network, server, facts, left>>

-----------------------------------------------------------------------------
(* The history is cleared. *)

\* The server clears it (Store.ClearHistory).
ClearRecord ==
    /\ Spend("clear")
    /\ generation' = generation + 1
    /\ credited' = [s \in Session |-> 0]
    /\ counted' = 0
    /\ UNCHANGED cursor

\* A tab asks for it, or another device.
RequestClear(t) ==
    /\ tab[t].phase # "closed"
    /\ ~clearing[t]
    /\ ClearRecord
    /\ clearing' = [clearing EXCEPT ![t] = TRUE]
    /\ UNCHANGED <<client, post, lookups, notices, late, facts>>

ClearElsewhere ==
    /\ ClearRecord
    /\ UNCHANGED <<client, network, facts>>

\* Mutant: a lookup in flight still counts as pending.
HearClearPending(t) ==
    /\ tab' = [tab EXCEPT ![t] = [@ EXCEPT !.epoch = tab[t].epoch + 1, !.verified = FALSE,
                                           !.generation = NoGeneration]]
    /\ clock' = [clock EXCEPT ![t] = NoSession]
    /\ Queue(t, [op |-> "clear"])
    /\ knownClear' = [knownClear EXCEPT ![t] = generation]

\* clearHistory of a tab's scheduler; its write follows.
HearClear(t) ==
    /\ tab' = [tab EXCEPT ![t] = [@ EXCEPT !.epoch = tab[t].epoch + 1, !.lookup = "idle", !.verified = FALSE,
                                           !.generation = NoGeneration]]
    /\ clock' = [clock EXCEPT ![t] = NoSession]
    /\ Queue(t, [op |-> "clear"])
    /\ knownClear' = [knownClear EXCEPT ![t] = generation]

\* The reply arrives, and the tab announces the clear to itself and the others.
AnnounceClear(t) ==
    /\ clearing[t]
    /\ clearing' = [clearing EXCEPT ![t] = FALSE]
    /\ HearClear(t)
    /\ notices' = [u \in Tab |-> IF u # t /\ tab[u].phase # "closed"
                                 THEN notices[u] + 1 ELSE notices[u]]
    /\ UNCHANGED <<outbox, announced, post, lookups, late, server, tag, born, heard, taken, left>>

\* The reply is lost: nothing is announced.
LoseClear(t) ==
    /\ clearing[t]
    /\ Spend("fail")
    /\ clearing' = [clearing EXCEPT ![t] = FALSE]
    /\ UNCHANGED <<client, post, lookups, notices, late, server, facts>>

\* Mutant: a clear is heard that nobody announced.
ReceiveNoticeUnasked(t) ==
    /\ notices' = [notices EXCEPT ![t] = @ - 1]
    /\ HearClear(t)
    /\ UNCHANGED <<outbox, announced, post, lookups, clearing, late, server, tag, born, heard, taken, left>>

ReceiveNotice(t) ==
    /\ notices[t] > 0
    /\ notices' = [notices EXCEPT ![t] = @ - 1]
    /\ HearClear(t)
    /\ UNCHANGED <<outbox, announced, post, lookups, clearing, late, server, tag, born, heard, taken, left>>

\* The write of clearHistory, and the lookup that follows it.
WriteClear(t) ==
    /\ Runs(t, "clear")
    /\ outbox' = [outbox EXCEPT !.history = {}, !.generation = NoGeneration]
    /\ IF tab[t].phase = "ready" /\ tab[t].lookup = "idle"
       THEN /\ tab' = [tab EXCEPT ![t].lookup = "pending"]
            /\ lookups' = [lookups EXCEPT
                  ![t] = @ \union {[epoch |-> tab[t].epoch, answer |-> NoGeneration]}]
       ELSE UNCHANGED <<tab, lookups>>
    /\ UNCHANGED <<clock, announced, post, notices, clearing, late, server, facts, left>>

-----------------------------------------------------------------------------
(* Flushing. *)

\* flush starts: it first waits for the writes staged before it.
Flush(t) ==
    /\ tab[t].phase = "ready"
    /\ ~tab[t].inFlight
    /\ \/ Unblocked(outbox.progress) # {}
       \/ Unblocked(outbox.history) # {}
       \/ \E i \in DOMAIN writes[t] : writes[t][i].op \in {"progress", "history"}
    /\ tab' = [tab EXCEPT ![t].inFlight = TRUE]
    /\ Queue(t, [op |-> "flush", epoch |-> tab[t].epoch])
    /\ UNCHANGED <<outbox, clock, announced, network, server, facts, left>>

\* The batch is taken from the outbox and sent: pendingBatch, and no history
\* while the generation is not verified.
Send(t) ==
    /\ Runs(t, "flush")
    /\ LET progress == {[work |-> e.work, order |-> e.order] : e \in Unblocked(outbox.progress)}
           history == IF tab[t].verified
                      THEN {[session |-> e.session, seconds |-> e.seconds] :
                               e \in Unblocked(outbox.history)}
                      ELSE {}
       IN IF progress = {} /\ history = {}
          THEN /\ tab' = [tab EXCEPT ![t].inFlight = FALSE]
               /\ UNCHANGED post
          ELSE /\ post' = [post EXCEPT ![t] =
                     [progress |-> progress, history |-> history,
                      epoch |-> Head(writes[t]).epoch, answer |-> {}]]
               /\ UNCHANGED tab
    /\ UNCHANGED <<outbox, clock, announced, lookups, notices, clearing, late, server, facts, left>>

\* The answer arrives; its write follows.
ReceiveAnswer(t) ==
    /\ post[t] # NoPost
    /\ \E a \in post[t].answer :
          Queue(t, [op |-> "acknowledge", epoch |-> post[t].epoch, generation |-> a.generation,
                    progress |-> a.progress, history |-> a.history])
    /\ post' = [post EXCEPT ![t] = NoPost]
    /\ UNCHANGED <<outbox, tab, clock, announced, lookups, notices, clearing, late, server, facts, left>>

\* What the acknowledgements leave of the outbox's history: an accepted total
\* and all below it go, a cleared session takes its generation with it, and
\* any other rejection quarantines the session.
Settled == {"recorded", "stale"}

\* Mutant: an accepted session goes, whatever it measured since.
HistoryAfterAnyTotal(acks) ==
    {e \in outbox.history : ~\E a \in acks : a.session = e.session /\ a.status \in Settled}

HistoryAfter(acks) ==
    LET Accepted(e) == \E a \in acks : a.session = e.session /\ a.status \in Settled
                                         /\ e.seconds <= a.seconds
        Cleared(e) == \E a \in acks : a.status = "history_cleared" /\ tag[a.session] = tag[e.session]
                                        /\ \E x \in outbox.history : x.session = a.session
        Rejected(e) == \E a \in acks : a.session = e.session /\ a.status = "not_found"
    IN {[e EXCEPT !.blocked = @ \/ Rejected(e)] :
           e \in {x \in outbox.history : ~Accepted(x) /\ ~Cleared(x)}}

\* Mutant: a work is acknowledged, whatever checkpoint it has now.
ProgressAfterOfWork(acks) ==
    {e \in outbox.progress : ~\E a \in acks : a.work = e.work /\ a.status \in Settled}

\* A report id is acknowledged: only the very checkpoint that was sent.
ProgressAfter(acks) ==
    LET Accepted(e) == \E a \in acks : a.order = e.order /\ a.status \in Settled
        Rejected(e) == \E a \in acks : a.order = e.order /\ a.status = "not_found"
    IN {[e EXCEPT !.blocked = @ \/ Rejected(e)] : e \in {x \in outbox.progress : ~Accepted(x)}}

\* Mutant: the newest checkpoint of the family is shown, recorded or not.
ConfirmedEarly(f, acks, pending) ==
    LET known == {a.order : a \in {x \in acks : x.status = "recorded" /\ FamilyOf[x.work] = f}}
        waiting == {e.order : e \in {x \in pending : FamilyOf[x.work] = f}}
        latest == {o \in known \union waiting : \A p \in known \union waiting : p <= o}
    IN IF known = {} THEN 0 ELSE CHOOSE o \in latest : TRUE

\* The cursor of a family a batch confirms, 0 when it confirms none: its newest
\* recorded checkpoint, unless a newer one came back stale or is waiting.
Confirmed(f, acks, pending) ==
    LET recorded == {a.order : a \in {x \in acks : x.status = "recorded" /\ FamilyOf[x.work] = f}}
        newer(o) ==
           \/ \E a \in acks : a.status = "stale" /\ FamilyOf[a.work] = f /\ a.order > o
           \/ \E e \in Unblocked(pending) : FamilyOf[e.work] = f /\ e.order > o
        latest == {o \in recorded : (\A p \in recorded : p <= o) /\ ~newer(o)}
    IN IF latest = {} THEN 0 ELSE CHOOSE o \in latest : TRUE

\* Mutant: an answer from before a clear is followed as well.
AcknowledgeAnyEpoch(t) ==
    /\ Runs(t, "acknowledge")
    /\ LET w == Head(writes[t]) IN
          /\ outbox' = [outbox EXCEPT
                !.progress = ProgressAfter(w.progress),
                !.history = OfGeneration(HistoryAfter(w.history), w.generation),
                !.generation = w.generation]
          /\ tab' = [tab EXCEPT ![t] = [@ EXCEPT
                !.inFlight = FALSE, !.verified = TRUE, !.generation = w.generation]]
          /\ SetGeneration(t, w.generation)
    /\ UNCHANGED <<announced, network, server, facts, left>>

\* The write of an answer, and what follows it.
Acknowledge(t) ==
    /\ Runs(t, "acknowledge")
    /\ LET w == Head(writes[t])
           current == w.epoch = tab[t].epoch
           adopt == current /\ w.generation >= outbox.generation
           follow == current /\ w.generation >= tab[t].generation
           history == HistoryAfter(w.history)
           progress == ProgressAfter(w.progress)
       IN /\ outbox' = [outbox EXCEPT
                !.progress = progress,
                !.history = IF adopt THEN OfGeneration(history, w.generation) ELSE history,
                !.generation = IF adopt THEN w.generation ELSE @]
          /\ tab' = [tab EXCEPT ![t] = [@ EXCEPT
                !.inFlight = FALSE,
                !.verified = tab[t].verified \/ follow,
                !.generation = IF follow THEN w.generation ELSE tab[t].generation]]
          /\ IF follow THEN SetGeneration(t, w.generation) ELSE UNCHANGED clock
          /\ announced' = [announced EXCEPT ![t] = [f \in Family |->
                LET o == Confirmed(f, w.progress, progress) IN IF o > 0 THEN o ELSE announced[t][f]]]
    /\ UNCHANGED <<network, server, facts, left>>

\* The report fails; the server may have processed it, or do so later.
LosePost(t) ==
    /\ post[t] # NoPost
    /\ Spend("fail")
    /\ Abandon(t)
    /\ post' = [post EXCEPT ![t] = NoPost]
    /\ Queue(t, [op |-> "retry"])
    /\ UNCHANGED <<outbox, tab, clock, announced, lookups, notices, clearing, server, facts>>

\* The write of a failure only counts it and sets retryAt.
WriteRetry(t) ==
    /\ Runs(t, "retry")
    /\ tab' = [tab EXCEPT ![t].inFlight = FALSE]
    /\ UNCHANGED <<outbox, clock, announced, network, server, facts, left>>

\* The server refuses the report for good (isPermanentFailure).
RefusePost(t) ==
    /\ post[t] # NoPost
    /\ post[t].answer = {}
    /\ Spend("refuse")
    /\ Queue(t, [op |-> "refuse", progress |-> post[t].progress, history |-> post[t].history])
    /\ post' = [post EXCEPT ![t] = NoPost]
    /\ UNCHANGED <<outbox, tab, clock, announced, lookups, notices, clearing, late, server, facts>>

\* The write of a refusal quarantines what was sent: the checkpoints, and the
\* sessions with whatever they measured since.
WriteRefused(t) ==
    /\ Runs(t, "refuse")
    /\ LET w == Head(writes[t]) IN
          outbox' = [outbox EXCEPT
             !.history = {[e EXCEPT !.blocked = @ \/ \E h \in w.history : h.session = e.session] :
                             e \in outbox.history},
             !.progress = {[e EXCEPT !.blocked = @ \/ \E p \in w.progress : p.order = e.order] :
                              e \in outbox.progress}]
    /\ tab' = [tab EXCEPT ![t].inFlight = FALSE]
    /\ UNCHANGED <<clock, announced, network, server, facts, left>>

-----------------------------------------------------------------------------
(* The server records a report (RecordPlaybackReport), in one transaction. *)

Checkpoint(p) == [order |-> p.order, id |-> Ours]

\* Mutant: the last report wins.
AheadAlways(progress) == {p \in progress : p.work \notin Missing}

\* The checkpoints of a report that its works' cursors are behind.
Ahead(progress) ==
    {p \in progress : p.work \notin Missing /\ Later(Checkpoint(p), cursor[FamilyOf[p.work]])}

\* No checkpoint of the family in the set is later.
IsNewest(p, S) == p \in S /\ \A q \in S : FamilyOf[q.work] = FamilyOf[p.work] => q.order <= p.order

\* Of two editions of a family the older is recorded only if it comes first
\* in the report: it is one of early.
ProgressStatus(p, progress, early) ==
    IF p.work \in Missing THEN "not_found"
    ELSE IF p \in Ahead(progress) /\ (IsNewest(p, Ahead(progress)) \/ p \in early)
         THEN "recorded" ELSE "stale"

\* Mutant: the generation of the session is not compared.
HistoryStatusOfAnyGeneration(h) == IF h.session \in Missing THEN "not_found" ELSE "recorded"

\* recordSessionTx: a session of another generation is rejected, and one of an
\* unknown work.
HistoryStatus(h) ==
    IF tag[h.session] # generation THEN "history_cleared"
    ELSE IF h.session \in Missing THEN "not_found" ELSE "recorded"

Answer(progress, history, early) ==
    [generation |-> generation,
     progress |-> {[work |-> p.work, order |-> p.order,
                    status |-> ProgressStatus(p, progress, early)] : p \in progress},
     history |-> {[session |-> h.session, seconds |-> h.seconds,
                   status |-> HistoryStatus(h)] : h \in history}]

\* The totals of a report that are larger than the record's.
Larger(history) ==
    {h \in history : HistoryStatus(h) = "recorded" /\ h.seconds > credited[h.session]}

\* Mutant: the day counts the whole total of a report again.
RecordWhole(progress, history) ==
    LET total == [s \in Session |->
           IF \E h \in history : h.session = s /\ HistoryStatus(h) = "recorded"
           THEN (CHOOSE h \in history : h.session = s).seconds ELSE 0]
    IN /\ counted' = counted + SumFunction(total)
       /\ credited' = [s \in Session |-> IF total[s] > credited[s] THEN total[s] ELSE credited[s]]
       /\ UNCHANGED <<generation, cursor>>

\* The cursors and totals after a report; a day counts what a total gained.
Record(progress, history) ==
    LET gained == [s \in Session |->
           IF \E h \in Larger(history) : h.session = s
           THEN (CHOOSE h \in Larger(history) : h.session = s).seconds - credited[s] ELSE 0]
    IN /\ cursor' = [f \in Family |->
             IF \E p \in Ahead(progress) : FamilyOf[p.work] = f
             THEN Checkpoint(CHOOSE p \in Ahead(progress) :
                                FamilyOf[p.work] = f /\ IsNewest(p, Ahead(progress)))
             ELSE cursor[f]]
       /\ credited' = [s \in Session |-> credited[s] + gained[s]]
       /\ counted' = counted + SumFunction(gained)
       /\ UNCHANGED generation

RecordPost(t) ==
    /\ post[t] # NoPost
    /\ post[t].answer = {}
    /\ Record(post[t].progress, post[t].history)
    /\ \E early \in SUBSET Ahead(post[t].progress) :
          post' = [post EXCEPT ![t].answer = {Answer(post[t].progress, post[t].history, early)}]
    /\ UNCHANGED <<client, lookups, notices, clearing, late, facts, left>>

\* A report nobody waits for arrives.
RecordLate ==
    /\ \E r \in late :
          /\ Record(r.progress, r.history)
          /\ late' = late \ {r}
    /\ UNCHANGED <<client, post, lookups, notices, clearing, facts, left>>

\* Another device reports a checkpoint, by its own clock.
RecordElsewhere(f) ==
    /\ Spend("elsewhere")
    /\ \E o \in 1 .. MaxOrder, id \in {0, 2} :
          /\ Later([order |-> o, id |-> id], cursor[f])
          /\ cursor' = [cursor EXCEPT ![f] = [order |-> o, id |-> id]]
    /\ UNCHANGED <<client, network, generation, credited, counted, facts>>

-----------------------------------------------------------------------------
\* The next write of a tab's chain.
Write(t) ==
    \/ Initialize(t) \/ WriteHistory(t) \/ WriteProgress(t) \/ WriteGeneration(t)
    \/ WriteClear(t) \/ Send(t) \/ Acknowledge(t) \/ WriteRetry(t) \/ WriteRefused(t)

Next ==
    \/ \E t \in Tab :
          \/ Open(t) \/ Close(t) \/ Write(t)
          \/ (\E s \in Session : Listen(t, s)) \/ EndSession(t)
          \/ \E w \in Work : StageProgress(t, w)
          \/ VerifyGeneration(t) \/ AnswerLookup(t) \/ ReceiveGeneration(t) \/ LookupFails(t)
          \/ RequestClear(t) \/ AnnounceClear(t) \/ LoseClear(t) \/ ReceiveNotice(t)
          \/ Flush(t) \/ RecordPost(t) \/ ReceiveAnswer(t) \/ LosePost(t) \/ RefusePost(t)
    \/ ClearElsewhere \/ RecordLate
    \/ \E f \in Family : RecordElsewhere(f)

Spec == Init /\ [][Next]_vars

\* Writes run, ticks come, and a request that is neither lost nor refused is
\* answered.  Nothing makes anybody listen, open a tab or clear the history.
FairSpec ==
    /\ Spec
    /\ \A t \in Tab :
          /\ WF_vars(Write(t))
          /\ WF_vars(VerifyGeneration(t))
          /\ WF_vars(AnswerLookup(t))
          /\ WF_vars(ReceiveGeneration(t))
          /\ WF_vars(Flush(t))
          /\ WF_vars(RecordPost(t))
          /\ WF_vars(ReceiveAnswer(t))
          /\ WF_vars(AnnounceClear(t))
          /\ WF_vars(ReceiveNotice(t))

-----------------------------------------------------------------------------
ProgressEntry == [work : Work, order : Nat, blocked : BOOLEAN]
HistoryEntry == [session : Session, seconds : Nat, blocked : BOOLEAN]
SentProgress == [work : Work, order : Nat]
SentHistory == [session : Session, seconds : Nat]
Generation == Nat \union {NoGeneration}
AnswerSet == [generation : Nat,
              progress : SUBSET [work : Work, order : Nat, status : Settled \union {"not_found"}],
              history : SUBSET [session : Session, seconds : Nat,
                                status : Settled \union {"not_found", "history_cleared"}]]
PostSet == [progress : SUBSET SentProgress, history : SUBSET SentHistory,
            epoch : Nat, answer : SUBSET AnswerSet]

\* The kinds of write a chain holds.
WriteSet ==
    [op : {"initialize", "clear", "retry"}]
      \union [op : {"history"}, session : Session, seconds : Nat]
      \union [op : {"progress"}, work : Work]
      \union [op : {"verify"}, epoch : Nat, generation : Nat]
      \union [op : {"flush"}, epoch : Nat]
      \union [op : {"acknowledge"}, epoch : Nat, generation : Nat,
              progress : SUBSET [work : Work, order : Nat, status : Settled \union {"not_found"}],
              history : SUBSET [session : Session, seconds : Nat,
                                status : Settled \union {"not_found", "history_cleared"}]]
      \union [op : {"refuse"}, progress : SUBSET SentProgress, history : SUBSET SentHistory]

\* The type of every variable.
TypeOK ==
    /\ outbox \in [generation : Generation, order : Nat,
                   progress : SUBSET ProgressEntry, history : SUBSET HistoryEntry]
    /\ tab \in [Tab -> [phase : {"closed", "starting", "ready"}, epoch : Nat,
                        generation : Generation, verified : BOOLEAN,
                        lookup : {"idle", "pending", "waiting", "blocked"}, inFlight : BOOLEAN]]
    /\ writes \in [Tab -> Seq(WriteSet)]
    /\ clock \in [Tab -> Session \union {NoSession}]
    /\ post \in [Tab -> PostSet \union {NoPost}]
    /\ lookups \in [Tab -> SUBSET [epoch : Nat, answer : Generation]]
    /\ notices \in [Tab -> Nat]
    /\ clearing \in [Tab -> BOOLEAN]
    /\ late \in SUBSET [progress : SUBSET SentProgress, history : SUBSET SentHistory]
    /\ announced \in [Tab -> [Family -> Nat]]
    /\ knownClear \in [Tab -> Nat]
    /\ generation \in Nat
    /\ credited \in [Session -> Nat]
    /\ counted \in Nat
    /\ cursor \in [Family -> [order : Nat, id : {0, 1, 2}]]
    /\ tag \in [Session -> Generation]
    /\ born \in [Session -> Generation]
    /\ heard \in [Session -> Nat]
    /\ taken \in SUBSET (Family \X Nat)
    /\ left \in [Occasion -> Nat]

\* Time measured before the history was cleared is not in the record, however
\* late it is reported: a session in the record began after the last clear.
ClearedStaysCleared ==
    \A s \in Session : credited[s] > 0 => born[s] = generation /\ tag[s] = generation

\* The day totals count every second of the record once, also when a report is
\* sent again after its answer was lost, or by two tabs.
CountedOnce == counted = SumFunction(credited)

\* No answer from before a clear the tab has heard of makes it take the old
\* generation for verified again.
ClearIsNotUndone == \A t \in Tab : tab[t].verified => tab[t].generation >= knownClear[t]

\* An announced cursor is one the browser took and the record has reached.
AnnouncedIsRecorded ==
    \A t \in Tab, f \in Family : announced[t][f] > 0 =>
       /\ <<f, announced[t][f]>> \in taken
       /\ announced[t][f] <= cursor[f].order

\* A checkpoint leaves the outbox only for a newer one of its work, or once
\* the record has it or a later one: an answer to an older report, a lost
\* answer, another tab or a reload never loses it.
CheckpointKept ==
    \A e \in outbox.progress :
       \/ \E x \in outbox'.progress : x.work = e.work /\ x.order >= e.order
       \/ ~Later(Checkpoint(e), cursor[FamilyOf[e.work]])
CheckpointsKept == [][CheckpointKept]_vars

\* Time of the record's generation leaves the outbox only once the record has
\* it, or when a clear empties the outbox.
SecondsKept ==
    \A e \in outbox.history : tag[e.session] = generation =>
       \/ \E x \in outbox'.history : x.session = e.session /\ x.seconds >= e.seconds
       \/ credited[e.session] >= e.seconds
ListeningKept == [][SecondsKept \/ \E t \in Tab : WriteClear(t)]_vars

\* The account's record behaves as the ledger promises.
Ledger == INSTANCE PlaybackLedger WITH Family <- Family, cursor <- cursor, taken <- taken
LedgerSpec == Ledger!Spec

\* As long as a tab stays open, every checkpoint the outbox took reaches the
\* record unless it is quarantined, the tab finds the generation again after
\* every clear unless the server refuses it, and the outbox then keeps no time
\* it could send.
Drained(t) ==
    /\ \A c \in taken :
          \/ c[2] <= cursor[c[1]].order
          \/ \E e \in outbox.progress : e.blocked /\ FamilyOf[e.work] = c[1] /\ e.order >= c[2]
    /\ Unblocked(outbox.progress) = {}
    /\ tab[t].lookup = "blocked" \/ (tab[t].verified /\ Unblocked(outbox.history) = {})
OutboxDrains == \A t \in Tab : <>[](tab[t].phase # "closed") => <>[]Drained(t)
=============================================================================
