----------------------------- MODULE RunWatcher -----------------------------
(***************************************************************************)
(* One page watching one workflow run (workflowRunWatcher.ts).  The parts  *)
(* of the page that show the run share one entry: its snapshot, one        *)
(* refresh at a time, and either the server's event stream or a poll       *)
(* timer, whose messages only start refreshes.                             *)
(*                                                                         *)
(* The page's JavaScript runs one task at a time: each handler, with the   *)
(* promise callbacks that follow it at once, is one step; server reads and *)
(* their answers come in between.  The server's side of the run is a       *)
(* version that grows with every change, and whether the run is over.      *)
(*                                                                         *)
(* Left out: the event list and its cursor, the loading flag, the length   *)
(* of the timers.                                                          *)
(***************************************************************************)
EXTENDS Integers

CONSTANTS
    Subscriber,     \* parts of the page that show the run
    Polling,        \* those that ask for it to be kept current
    Flight,         \* names for refreshes on their way
    NoFlight,
    MaxVersion,     \* bound: changes of the run
    Budgets         \* how often each bounded event occurs: one is drawn at the start

Occasion == {"fail", "deny", "retry", "forget"}

ASSUME WatcherAssumption ==
    /\ Polling \subseteq Subscriber
    /\ Flight # {} /\ NoFlight \notin Flight
    /\ MaxVersion \in Nat \ {0}
    /\ Budgets \subseteq [Occasion -> Nat]

VARIABLES
    run,            \* on the server: its version, whether it is over, may be read
    subs,           \* entry.listeners
    w,              \* the rest of the entry
    tick,           \* a message of the event stream on its way
    owed,           \* a retry of this page was answered: its refresh is called next
    left            \* what is left of the budget

vars == <<run, subs, w, tick, owed, left>>

\* What an answer says of the run; version 0: nothing was read.
Unread == [version |-> 0, over |-> FALSE]
Answer == [version |-> run.version, over |-> run.over]

Landed == [pc |-> "none", value |-> Unread, refused |-> FALSE, current |-> TRUE,
           start |-> FALSE, schedule |-> FALSE]

EmptyEntry ==
    [snapshot |-> Unread, error |-> FALSE, accessDenied |-> FALSE, inFlight |-> NoFlight,
     flight |-> [f \in Flight |-> Landed], refreshPending |-> FALSE, pollTimer |-> FALSE,
     streamTask |-> "none", streamRetry |-> FALSE, streamTerminal |-> FALSE]

Init ==
    /\ run \in [version : {1}, over : BOOLEAN, readable : {TRUE}]
    /\ subs = {}
    /\ w = EmptyEntry
    /\ tick = "none"
    /\ owed = FALSE
    /\ left \in Budgets

Spend(o) ==
    /\ left[o] > 0
    /\ left' = [left EXCEPT ![o] = @ - 1]

-----------------------------------------------------------------------------
(* What the handlers do to the entry e that the parts s listen to. *)

Active(e) == e.snapshot.version > 0 /\ ~ e.snapshot.over

Pollers(s) == s \cap Polling

\* schedulePoll
SchedulePoll(e, s) ==
    [e EXCEPT !.pollTimer =
       /\ ~ e.accessDenied
       /\ Pollers(s) # {}
       /\ e.streamTask = "none"
       /\ e.snapshot.version = 0 \/ Active(e)]

\* Mutant: the stream asks for any part of the page, not for one that polls.
StartStreamForAny(e, s) ==
    IF /\ ~ e.accessDenied
       /\ e.streamTask = "none"
       /\ ~ e.streamTerminal
       /\ s # {}
       /\ Active(e)
    THEN [e EXCEPT !.pollTimer = FALSE, !.streamRetry = FALSE, !.streamTask = "connecting"]
    ELSE e

\* startStream
StartStream(e, s) ==
    IF /\ ~ e.accessDenied
       /\ e.streamTask = "none"
       /\ ~ e.streamTerminal
       /\ Pollers(s) # {}
       /\ Active(e)
    THEN [e EXCEPT !.pollTimer = FALSE, !.streamRetry = FALSE, !.streamTask = "connecting"]
    ELSE e

\* scheduleStreamReconnect
ScheduleReconnect(e, s) ==
    IF ~ e.accessDenied /\ ~ e.streamTerminal /\ Pollers(s) # {} /\ Active(e)
    THEN [e EXCEPT !.streamRetry = TRUE]
    ELSE e

Feed(e, s) == SchedulePoll(StartStream(e, s), s)

\* stopStream; what its callbacks still receive is ignored.
StopStream(e) == [e EXCEPT !.streamTask = "none", !.streamRetry = FALSE]

\* revokeAccess: refreshes on their way belong to an older revision.
RevokeAccess(e) ==
    [StopStream(e) EXCEPT !.accessDenied = TRUE, !.refreshPending = FALSE, !.pollTimer = FALSE,
                          !.snapshot = Unread, !.error = TRUE,
                          !.flight = [f \in Flight |-> [e.flight[f] EXCEPT !.current = FALSE]]]

\* Mutant: a second refresh does not wait for the first.
RefreshAtOnce(e, start, schedule) ==
    IF \A f \in Flight : e.flight[f].pc # "none" THEN e
    ELSE LET f == CHOOSE x \in Flight : e.flight[x].pc = "none"
         IN [e EXCEPT !.accessDenied = FALSE,
                      !.error = e.error /\ e.snapshot.version > 0,
                      !.inFlight = f,
                      !.flight[f] = [Landed EXCEPT !.pc = "run", !.start = start,
                                                   !.schedule = schedule]]

\* refreshEntry, and what the caller does when it is over: start the stream and
\* the timer (start), or the timer only (schedule).
RefreshEntry(e, start, schedule) ==
    IF e.inFlight # NoFlight
    THEN LET f == e.flight[e.inFlight]
         IN [e EXCEPT !.refreshPending = TRUE,
                      !.flight[e.inFlight].start = f.start \/ start,
                      !.flight[e.inFlight].schedule = f.schedule \/ schedule]
    ELSE LET f == CHOOSE x \in Flight : e.flight[x].pc = "none"
         IN [e EXCEPT !.accessDenied = FALSE,
                      !.error = e.error /\ e.snapshot.version > 0,
                      !.inFlight = f,
                      !.flight[f] = [Landed EXCEPT !.pc = "run", !.start = start,
                                                   !.schedule = schedule]]

\* A refresh is over: its finally block, then what its callers wait to do.
Land(e, f, s) ==
    LET landed == [e EXCEPT !.inFlight = NoFlight, !.flight[f] = Landed]
        again == IF landed.refreshPending
                 THEN RefreshEntry([landed EXCEPT !.refreshPending = FALSE], FALSE, FALSE)
                 ELSE landed
        finally == IF ~ e.flight[f].current THEN landed
                   ELSE IF Pollers(s) # {} /\ Active(again) THEN Feed(again, s)
                   ELSE IF ~ Active(again) THEN [again EXCEPT !.pollTimer = FALSE]
                   ELSE again
        started == IF e.flight[f].start THEN Feed(finally, s) ELSE finally
    IN IF e.flight[f].schedule THEN SchedulePoll(started, s) ELSE started

-----------------------------------------------------------------------------
(* The server. *)

\* The run makes progress, or ends.
Advance(over) ==
    /\ ~ run.over
    /\ run.version < MaxVersion
    /\ run' = [run EXCEPT !.version = @ + 1, !.over = over]
    /\ UNCHANGED <<subs, w, tick, owed, left>>

\* The page retries the run in place: it is queued again.
RetryRun ==
    /\ run.over
    /\ run.version < MaxVersion
    /\ ~ owed
    /\ Spend("retry")
    /\ run' = [run EXCEPT !.version = @ + 1, !.over = FALSE]
    /\ owed' = TRUE
    /\ UNCHANGED <<subs, w, tick>>

\* The account loses the run, or gets it back.
ChangeAccess ==
    /\ Spend("deny")
    /\ run' = [run EXCEPT !.readable = ~ @]
    /\ UNCHANGED <<subs, w, tick, owed>>

-----------------------------------------------------------------------------
(* The parts of the page. *)

\* subscribeToRun
Subscribe(p) ==
    /\ p \notin subs
    /\ subs' = subs \union {p}
    /\ w' = IF subs = {} THEN RefreshEntry(w, TRUE, FALSE) ELSE Feed(w, subs')
    /\ UNCHANGED <<run, tick, owed, left>>

\* The function subscribeToRun returns.
Unsubscribe(p) ==
    /\ p \in subs
    /\ subs' = subs \ {p}
    /\ IF subs' # {}
       THEN w' = SchedulePoll(w, subs') /\ UNCHANGED tick
       ELSE w' = StopStream([w EXCEPT !.pollTimer = FALSE]) /\ tick' = "none"
    /\ UNCHANGED <<run, owed, left>>

\* refreshWorkflowRun, also when a retry was answered.
RefreshRun ==
    /\ subs # {} \/ owed
    /\ w' = RefreshEntry(w, FALSE, FALSE)
    /\ owed' = FALSE
    /\ UNCHANGED <<run, subs, tick, left>>

\* visibilityListener
VisibilityChange(hidden) ==
    /\ subs # {}
    /\ w' = Feed(IF hidden THEN w ELSE RefreshEntry(w, FALSE, FALSE), subs)
    /\ UNCHANGED <<run, subs, tick, owed, left>>

\* The entry is forgotten, by the cleanup timer when nobody listens or with the
\* session: a refresh of it that is on its way reaches nobody any more.
Forget ==
    /\ Spend("forget")
    /\ subs' = {}
    /\ w' = EmptyEntry
    /\ tick' = "none"
    /\ UNCHANGED <<run, owed>>

-----------------------------------------------------------------------------
(* Refreshes. *)

\* The server reads the run, or its candidates, for a refresh.
ServerReads(f) ==
    LET flight == w.flight[f]
        refused == ~ run.readable
        value == IF run.readable THEN Answer ELSE Unread
    IN /\ \/ /\ flight.pc = "run"
             /\ w' = [w EXCEPT !.flight[f] =
                   [flight EXCEPT !.pc = "runRead", !.refused = refused, !.value = value]]
          \/ /\ flight.pc = "candidates"
             /\ w' = [w EXCEPT !.flight[f] =
                   [flight EXCEPT !.pc = "candidatesRead", !.refused = refused]]
       /\ UNCHANGED <<run, subs, tick, owed, left>>

\* The answer, of a refresh that no denial overtook, is an access failure.
Refused(f) ==
    /\ w.flight[f].pc \in {"runRead", "candidatesRead"}
    /\ w.flight[f].current
    /\ w.flight[f].refused
    /\ w' = Land(RevokeAccess(w), f, subs)
    /\ tick' = "none"
    /\ UNCHANGED <<run, subs, owed, left>>

\* The run arrived: its candidates are read next.
ReceiveRun(f) ==
    /\ w.flight[f].pc = "runRead"
    /\ w.flight[f].current
    /\ ~ w.flight[f].refused
    /\ w' = [w EXCEPT !.flight[f].pc = "candidates"]
    /\ UNCHANGED <<run, subs, tick, owed, left>>

\* Mutant: the revision is not compared again.
PublishUnchecked(f) ==
    /\ w.flight[f].pc = "candidatesRead"
    /\ ~ w.flight[f].refused
    /\ LET value == w.flight[f].value
       IN w' = Land([w EXCEPT !.snapshot = value, !.error = FALSE,
                              !.streamTerminal = @ /\ value.over], f, subs)
    /\ UNCHANGED <<run, subs, tick, owed, left>>

\* All arrived: the snapshot is published.
Publish(f) ==
    /\ w.flight[f].pc = "candidatesRead"
    /\ w.flight[f].current
    /\ ~ w.flight[f].refused
    /\ LET value == w.flight[f].value
       IN w' = Land([w EXCEPT !.snapshot = value, !.error = FALSE,
                              !.streamTerminal = @ /\ value.over], f, subs)
    /\ UNCHANGED <<run, subs, tick, owed, left>>

\* A denial overtook the refresh: whatever it brings is dropped.
DropRefresh(f) ==
    /\ w.flight[f].pc \in {"runRead", "candidatesRead"}
    /\ ~ w.flight[f].current
    /\ w' = Land(w, f, subs)
    /\ UNCHANGED <<run, subs, tick, owed, left>>

\* The request fails, not for lack of access.
RefreshFails(f) ==
    /\ w.flight[f].pc # "none"
    /\ Spend("fail")
    /\ w' = Land(IF w.flight[f].current THEN [w EXCEPT !.error = TRUE] ELSE w, f, subs)
    /\ UNCHANGED <<run, subs, tick, owed>>

PollTimerFires ==
    /\ w.pollTimer
    /\ w' = RefreshEntry([w EXCEPT !.pollTimer = FALSE], FALSE, TRUE)
    /\ UNCHANGED <<run, subs, tick, owed, left>>

-----------------------------------------------------------------------------
(* The event stream. *)

\* streamWorkflowRunEvents: access is checked once, when the stream opens.
StreamOpens ==
    /\ w.streamTask = "connecting"
    /\ run.readable
    /\ w' = [w EXCEPT !.streamTask = "open"]
    /\ UNCHANGED <<run, subs, tick, owed, left>>

StreamRefused ==
    /\ w.streamTask = "connecting"
    /\ ~ run.readable
    /\ w' = RevokeAccess(w)
    /\ UNCHANGED <<run, subs, tick, owed, left>>

\* writeUpdate of the server; a tick that says the run is over is its last.
ServerTicks ==
    /\ w.streamTask = "open"
    /\ tick = "none"
    /\ tick' = IF run.over THEN "over" ELSE "active"
    /\ UNCHANGED <<run, subs, w, owed, left>>

\* handleStreamMessage; the stream ends with a terminal tick.
HearTick ==
    /\ tick # "none"
    /\ tick' = "none"
    /\ w' = IF tick = "over"
            THEN [RefreshEntry(w, FALSE, FALSE) EXCEPT !.streamTerminal = TRUE,
                                                       !.streamTask = "none"]
            ELSE RefreshEntry(w, FALSE, FALSE)
    /\ UNCHANGED <<run, subs, owed, left>>

\* Mutant: a broken stream is not replaced.
StreamEnds ==
    /\ w.streamTask # "none"
    /\ Spend("fail")
    /\ tick' = "none"
    /\ w' = [w EXCEPT !.error = TRUE, !.streamTask = "none"]
    /\ UNCHANGED <<run, subs, owed>>

\* The stream breaks off.
StreamFails ==
    /\ w.streamTask # "none"
    /\ Spend("fail")
    /\ tick' = "none"
    /\ LET ended == [w EXCEPT !.error = TRUE, !.streamTask = "none"]
       IN w' = IF Pollers(subs) # {} /\ ~ w.streamTerminal
               THEN ScheduleReconnect(SchedulePoll(ended, subs), subs) ELSE ended
    /\ UNCHANGED <<run, subs, owed>>

RetryTimerFires ==
    /\ w.streamRetry
    /\ w' = StartStream([w EXCEPT !.streamRetry = FALSE], subs)
    /\ UNCHANGED <<run, subs, tick, owed, left>>

-----------------------------------------------------------------------------
Lands(f) == Refused(f) \/ ReceiveRun(f) \/ Publish(f) \/ DropRefresh(f)

Next ==
    \/ \E over \in BOOLEAN : Advance(over)
    \/ RetryRun \/ ChangeAccess
    \/ \E p \in Subscriber : Subscribe(p) \/ Unsubscribe(p)
    \/ RefreshRun \/ Forget
    \/ \E hidden \in BOOLEAN : VisibilityChange(hidden)
    \/ \E f \in Flight : ServerReads(f) \/ Lands(f) \/ RefreshFails(f)
    \/ PollTimerFires
    \/ StreamOpens \/ StreamRefused \/ ServerTicks \/ HearTick \/ StreamFails
    \/ RetryTimerFires

Spec == Init /\ [][Next]_vars

\* The server answers, timers fire, and an open stream ticks.
FairSpec ==
    /\ Spec
    /\ WF_vars(\E f \in Flight : ServerReads(f) \/ Lands(f))
    /\ WF_vars(PollTimerFires \/ RetryTimerFires)
    /\ WF_vars(StreamOpens \/ StreamRefused \/ ServerTicks \/ HearTick)
    /\ WF_vars(owed /\ RefreshRun)

-----------------------------------------------------------------------------
Value == [version : 0 .. MaxVersion, over : BOOLEAN]

FlightState ==
    [pc : {"none", "run", "runRead", "candidates", "candidatesRead"}, value : Value,
     refused : BOOLEAN, current : BOOLEAN, start : BOOLEAN, schedule : BOOLEAN]

\* The type of every variable; a refresh is on its way while inFlight names it.
TypeOK ==
    /\ run \in [version : 1 .. MaxVersion, over : BOOLEAN, readable : BOOLEAN]
    /\ subs \subseteq Subscriber
    /\ w \in [snapshot : Value, error : BOOLEAN, accessDenied : BOOLEAN,
              inFlight : Flight \union {NoFlight}, flight : [Flight -> FlightState],
              refreshPending : BOOLEAN, pollTimer : BOOLEAN,
              streamTask : {"none", "connecting", "open"}, streamRetry : BOOLEAN,
              streamTerminal : BOOLEAN]
    /\ \A f \in Flight : w.flight[f].pc # "none" <=> f = w.inFlight
    /\ tick \in {"none", "active", "over"}
    /\ owed \in BOOLEAN
    /\ left \in [Occasion -> Nat]

\* Nothing starts for a run that no part of the page keeps current, whichever
\* answers and timers were on their way when the last one left: no poll timer is
\* left or set, and no new stream or reconnect begins.  A stream that was there
\* goes on for the parts that only show the run, as the unsubscribing of
\* subscribeToRun leaves it, and ends with the last of them.
NothingStartsUnwatched ==
    [][Pollers(subs') = {} =>
          /\ ~ w'.pollTimer
          /\ w'.streamTask # "none" => w.streamTask # "none" /\ subs' # {}
          /\ w'.streamRetry => w.streamRetry /\ subs' # {}]_vars

\* Once the page was told that it may not read the run, it shows nothing of it
\* and asks no more by itself, whatever was on its way.
DeniedShowsNothing ==
    w.accessDenied => /\ w.snapshot = Unread
                      /\ ~ w.pollTimer
                      /\ w.streamTask = "none"
                      /\ ~ w.streamRetry

\* The page never shows an older state of the run after a newer one.
SnapshotNeverGoesBack ==
    [][w'.snapshot.version > 0 => w'.snapshot.version >= w.snapshot.version]_vars

\* A part that keeps the run current is shown its end, or, when the page has
\* stopped following the run, an error.
EndIsShown ==
    run.over /\ Pollers(subs) # {} ~>
       \/ w.snapshot.version = run.version
       \/ ~ Active(w) /\ w.error
       \/ ~ run.over
       \/ Pollers(subs) = {}
=============================================================================
