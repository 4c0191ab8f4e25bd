-------------------------- MODULE RunWatcherProofs --------------------------
(***************************************************************************)
(* What a page shows of the run it watches, for any number of its parts,   *)
(* changes of the run, failures and changes of access.                     *)
(*                                                                         *)
(* The handlers of RunWatcher are compositions of a few operators on the   *)
(* entry (SchedulePoll, StartStream, RefreshEntry, Land, ...).  Good says  *)
(* what they keep of an entry; one lemma per operator shows that they do,  *)
(* and one per action of Next combines them.                               *)
(***************************************************************************)
EXTENDS RunWatcher, TLAPS

-----------------------------------------------------------------------------
\* The type of the server's side, and of the entry.
RunType == [version : 1 .. MaxVersion, over : BOOLEAN, readable : BOOLEAN]

EntryType ==
    [snapshot : Value, error : BOOLEAN, accessDenied : BOOLEAN,
     inFlight : Flight \union {NoFlight}, flight : [Flight -> FlightState],
     refreshPending : BOOLEAN, pollTimer : BOOLEAN,
     streamTask : {"none", "connecting", "open"}, streamRetry : BOOLEAN,
     streamTerminal : BOOLEAN]

\* One refresh at a time.
OneFlight(e) == \A f \in Flight : e.flight[f].pc # "none" <=> f = e.inFlight

\* No timer runs for the parts s when none of them keeps the run current, and no
\* stream or reconnect when there are none.
Quiet(e, s) ==
    Pollers(s) = {} => ~ e.pollTimer /\ (s = {} => e.streamTask = "none" /\ ~ e.streamRetry)

\* A denial leaves nothing, and no refresh on its way that could bring it back.
Denied(e) ==
    e.accessDenied =>
       /\ e.snapshot = Unread
       /\ ~ e.pollTimer
       /\ e.streamTask = "none"
       /\ ~ e.streamRetry
       /\ \A f \in Flight : e.flight[f].pc # "none" => ~ e.flight[f].current

\* Refreshes that hold an answer hold one at least as new as what is shown.
Ahead(e) ==
    \A f \in Flight :
       \/ e.flight[f].pc = "runRead" /\ ~ e.flight[f].refused
       \/ e.flight[f].pc \in {"candidates", "candidatesRead"}
       => e.flight[f].value.version >= e.snapshot.version

\* The page knows no later version than v.
AtMost(e, v) ==
    /\ e.snapshot.version <= v
    /\ \A f \in Flight : e.flight[f].value.version <= v

\* What every handler keeps of the entry e that the parts s listen to, when the
\* server is at version v.
Good(e, s, v) ==
    /\ e \in EntryType
    /\ OneFlight(e)
    /\ Quiet(e, s)
    /\ Denied(e)
    /\ Ahead(e)
    /\ AtMost(e, v)

\* From e to x no stream is started, and no reconnect scheduled.
Calm(e, x) ==
    /\ x.streamTask # "none" => e.streamTask # "none"
    /\ x.streamRetry => e.streamRetry

\* Everything but the entry.
RestType ==
    /\ run \in RunType
    /\ subs \subseteq Subscriber
    /\ tick \in {"none", "active", "over"}
    /\ owed \in BOOLEAN
    /\ left \in [Occasion -> Nat]

\* The inductive invariant.
IInv == RestType /\ Good(w, subs, run.version)

-----------------------------------------------------------------------------
(* The operators on the entry. *)

\* A flight that is not under way has the type of a flight.
LEMMA LandedType == Landed \in FlightState
  BY WatcherAssumption DEF Landed, FlightState, Unread, Value

\* A change of one flight's marks leaves it a flight.
LEMMA MarkedType ==
    ASSUME NEW x \in FlightState, NEW a \in BOOLEAN, NEW b \in BOOLEAN
    PROVE  /\ [x EXCEPT !.current = a] \in FlightState
           /\ [x EXCEPT !.start = a, !.schedule = b] \in FlightState
           /\ [x EXCEPT !.current = a].pc = x.pc
           /\ [x EXCEPT !.current = a].refused = x.refused
           /\ [x EXCEPT !.current = a].value = x.value
  BY DEF FlightState

\* The timer is set only for parts that poll, and never after a denial.
LEMMA SchedulePollGood ==
    ASSUME NEW e, NEW s, NEW v, Good(e, s, v)
    PROVE  Good(SchedulePoll(e, s), s, v)
  BY DEF Good, SchedulePoll, EntryType, OneFlight, Quiet, Denied, Ahead, AtMost, Active

\* So is the stream started.
LEMMA StartStreamGood ==
    ASSUME NEW e, NEW s, NEW v, Good(e, s, v)
    PROVE  Good(StartStream(e, s), s, v)
  BY DEF Good, StartStream, EntryType, OneFlight, Quiet, Denied, Ahead, AtMost, Active, Pollers

\* So is the timer that starts it again.
LEMMA ScheduleReconnectGood ==
    ASSUME NEW e, NEW s, NEW v, Good(e, s, v)
    PROVE  Good(ScheduleReconnect(e, s), s, v)
  BY DEF Good, ScheduleReconnect, EntryType, OneFlight, Quiet, Denied, Ahead, AtMost, Active, Pollers

\* Stream and timer together.
LEMMA FeedGood ==
    ASSUME NEW e, NEW s, NEW v, Good(e, s, v)
    PROVE  Good(Feed(e, s), s, v)
  BY SchedulePollGood, StartStreamGood DEF Feed

\* A denial clears the entry, and every refresh on its way is outdated.
LEMMA RevokeAccessGood ==
    ASSUME NEW e, NEW s, NEW v \in Nat, Good(e, s, v)
    PROVE  /\ Good(RevokeAccess(e), s, v)
           /\ RevokeAccess(e).snapshot = Unread
           /\ \A f \in Flight : RevokeAccess(e).flight[f] = [e.flight[f] EXCEPT !.current = FALSE]
  <1> DEFINE r == RevokeAccess(e)
  <1>1. r.flight = [f \in Flight |-> [e.flight[f] EXCEPT !.current = FALSE]]
        /\ r.snapshot = Unread /\ r.accessDenied = TRUE /\ r.pollTimer = FALSE
        /\ r.streamTask = "none" /\ r.streamRetry = FALSE /\ r.inFlight = e.inFlight
    BY DEF RevokeAccess, StopStream, Good, EntryType
  <1>2. r \in EntryType
    <2>1. r.flight \in [Flight -> FlightState]
      <3>1. \A f \in Flight : e.flight[f] \in FlightState
        BY DEF Good, EntryType
      <3>2. \A f \in Flight : [e.flight[f] EXCEPT !.current = FALSE] \in FlightState
        BY <3>1, MarkedType
      <3> QED  BY <1>1, <3>2
    <2>2. r.snapshot \in Value
      BY <1>1, WatcherAssumption DEF Unread, Value
    <2>3. r = [e EXCEPT !.streamTask = "none", !.streamRetry = FALSE, !.accessDenied = TRUE,
                        !.refreshPending = FALSE, !.pollTimer = FALSE, !.snapshot = r.snapshot,
                        !.error = TRUE, !.flight = r.flight]
      BY DEF RevokeAccess, StopStream, Good, EntryType
    <2> HIDE DEF r
    <2> QED  BY <2>1, <2>2, <2>3 DEF Good, EntryType
  <1>3. OneFlight(r)
    BY <1>1 DEF Good, OneFlight, EntryType, FlightState
  <1>4. Quiet(r, s) /\ Denied(r)
    BY <1>1 DEF Quiet, Denied, Good, EntryType, FlightState
  <1>5. Ahead(r) /\ AtMost(r, v)
    <2>1. \A f \in Flight : e.flight[f] \in FlightState /\ e.flight[f].value.version \in Nat
      BY DEF Good, EntryType, FlightState, Value
    <2>2. \A f \in Flight : /\ r.flight[f].pc = e.flight[f].pc
                            /\ r.flight[f].refused = e.flight[f].refused
                            /\ r.flight[f].value = e.flight[f].value
      <3> SUFFICES ASSUME NEW f \in Flight
                   PROVE  /\ r.flight[f].pc = e.flight[f].pc
                          /\ r.flight[f].refused = e.flight[f].refused
                          /\ r.flight[f].value = e.flight[f].value
        OBVIOUS
      <3>1. r.flight[f] = [e.flight[f] EXCEPT !.current = FALSE]
        BY <1>1
      <3>2. e.flight[f] \in FlightState
        BY <2>1
      <3> HIDE DEF r
      <3> QED  BY <3>1, <3>2 DEF FlightState
    <2>3. r.snapshot.version = 0
      BY <1>1 DEF Unread
    <2>4. Ahead(e) /\ AtMost(e, v)
      BY DEF Good
    <2> HIDE DEF r
    <2>5. AtMost(r, v)
      BY <2>2, <2>3, <2>4 DEF AtMost
    <2>6. ASSUME NEW f \in Flight PROVE r.flight[f].value.version >= r.snapshot.version
      <3>1. e.flight[f].value.version >= 0
        BY <2>1
      <3> QED  BY <2>2, <2>3, <3>1
    <2> QED  BY <2>5, <2>6 DEF Ahead
  <1> QED  BY <1>1, <1>2, <1>3, <1>4, <1>5 DEF Good

\* Where no part polls, none of them starts anything.
LEMMA NothingFed ==
    ASSUME NEW e \in EntryType, NEW s, Pollers(s) = {}
    PROVE  /\ Calm(e, SchedulePoll(e, s))
           /\ Calm(e, StartStream(e, s))
           /\ Calm(e, Feed(e, s))
           /\ Calm(e, ScheduleReconnect(SchedulePoll(e, s), s))
  BY DEF Calm, Feed, SchedulePoll, StartStream, ScheduleReconnect, EntryType

\* A refresh starts when none is on its way, or is remembered for later.
LEMMA RefreshEntryGood ==
    ASSUME NEW e, NEW s, NEW v \in Nat, Good(e, s, v), NEW a \in BOOLEAN, NEW b \in BOOLEAN
    PROVE  /\ Good(RefreshEntry(e, a, b), s, v)
           /\ RefreshEntry(e, a, b).snapshot = e.snapshot
           /\ Calm(e, RefreshEntry(e, a, b))
  <1> DEFINE r == RefreshEntry(e, a, b)
  <1>1. CASE e.inFlight # NoFlight
    <2>1. e.inFlight \in Flight
      BY <1>1 DEF Good, EntryType
    <2> DEFINE i == e.inFlight
    <2>2. r = [e EXCEPT !.refreshPending = TRUE, !.flight = r.flight]
          /\ r.flight = [e.flight EXCEPT ![i].start = e.flight[i].start \/ a,
                                         ![i].schedule = e.flight[i].schedule \/ b]
      BY <1>1, <2>1 DEF RefreshEntry, Good, EntryType
    <2>3. /\ r.flight \in [Flight -> FlightState]
          /\ \A f \in Flight : /\ r.flight[f].pc = e.flight[f].pc
                               /\ r.flight[f].value = e.flight[f].value
                               /\ r.flight[f].refused = e.flight[f].refused
                               /\ r.flight[f].current = e.flight[f].current
      <3>1. e.flight \in [Flight -> FlightState]
        BY DEF Good, EntryType
      <3>2. e.flight[i].start \in BOOLEAN /\ e.flight[i].schedule \in BOOLEAN
        BY <2>1, <3>1 DEF FlightState
      <3> DEFINE x == [e.flight[i] EXCEPT !.start = e.flight[i].start \/ a,
                                          !.schedule = e.flight[i].schedule \/ b]
      <3>3. x \in FlightState
        BY <2>1, <3>1, <3>2, MarkedType
      <3>4. x.pc = e.flight[i].pc /\ x.value = e.flight[i].value
            /\ x.refused = e.flight[i].refused /\ x.current = e.flight[i].current
        BY <2>1, <3>1 DEF FlightState
      <3>5. r.flight = [e.flight EXCEPT ![i] = x]
        BY <2>1, <2>2, <3>1 DEF FlightState
      <3> HIDE DEF x, r
      <3> QED  BY <2>1, <3>1, <3>3, <3>4, <3>5
    <2> DEFINE flight == r.flight
    <2>4. r = [e EXCEPT !.refreshPending = TRUE, !.flight = flight]
      BY <2>2
    <2>5. flight \in [Flight -> FlightState]
      BY <2>3
    <2> HIDE DEF r, flight
    <2>6. r \in EntryType /\ r.flight = flight /\ r.snapshot = e.snapshot
      BY <2>4, <2>5 DEF Good, EntryType
    <2>7. OneFlight(r)
      BY <2>3, <2>4 DEF Good, EntryType, OneFlight
    <2>8. Quiet(r, s)
      BY <2>4 DEF Good, EntryType, Quiet
    <2>9. Denied(r)
      BY <2>3, <2>4, <2>6 DEF Good, EntryType, Denied
    <2>10. Ahead(r)
      <3>1. Ahead(e)
        BY DEF Good
      <3> SUFFICES ASSUME NEW f \in Flight,
                          \/ r.flight[f].pc = "runRead" /\ ~ r.flight[f].refused
                          \/ r.flight[f].pc \in {"candidates", "candidatesRead"}
                   PROVE  r.flight[f].value.version >= r.snapshot.version
        BY DEF Ahead
      <3>2. \/ e.flight[f].pc = "runRead" /\ ~ e.flight[f].refused
            \/ e.flight[f].pc \in {"candidates", "candidatesRead"}
        BY <2>3
      <3>3. e.flight[f].value.version >= e.snapshot.version
        BY <3>1, <3>2 DEF Ahead
      <3> QED  BY <2>3, <2>6, <3>3
    <2>11. AtMost(r, v)
      BY <2>3, <2>6 DEF Good, AtMost
    <2>12. Good(r, s, v) /\ r.snapshot = e.snapshot /\ Calm(e, r)
      <3>1. Calm(e, r)
        BY <2>4 DEF Good, EntryType, Calm
      <3> QED  BY <2>6, <2>7, <2>8, <2>9, <2>10, <2>11, <3>1 DEF Good
    <2> QED  BY <2>12 DEF r
  <1>2. CASE e.inFlight = NoFlight
    <2> DEFINE f == CHOOSE x \in Flight : e.flight[x].pc = "none"
    <2>1. f \in Flight /\ \A x \in Flight : e.flight[x].pc = "none"
      BY <1>2, WatcherAssumption DEF Good, OneFlight
    <2>2. r = [e EXCEPT !.accessDenied = FALSE, !.error = e.error /\ e.snapshot.version > 0,
                        !.inFlight = f,
                        !.flight[f] = [Landed EXCEPT !.pc = "run", !.start = a, !.schedule = b]]
      BY <1>2 DEF RefreshEntry
    <2> HIDE DEF f
    <2>3. r \in EntryType
      <3> DEFINE x == [Landed EXCEPT !.pc = "run", !.start = a, !.schedule = b]
                 error == e.error /\ e.snapshot.version > 0
      <3>1. x \in FlightState
        BY LandedType DEF FlightState
      <3>2. r = [e EXCEPT !.accessDenied = FALSE, !.error = error, !.inFlight = f, !.flight[f] = x]
        BY <2>2
      <3>3. error \in BOOLEAN
        OBVIOUS
      <3> HIDE DEF x, error, r
      <3> QED  BY <2>1, <3>1, <3>2, <3>3 DEF Good, EntryType
    <2>4. OneFlight(r)
      BY <2>1, <2>2 DEF Good, EntryType, OneFlight, Landed
    <2>5. Good(r, s, v) /\ r.snapshot = e.snapshot
      BY <2>1, <2>2, <2>3, <2>4 DEF Good, EntryType, Quiet, Denied, Ahead, AtMost, Landed, Unread
    <2>6. Calm(e, r)
      BY <2>2 DEF Good, EntryType, Calm
    <2> QED  BY <2>5, <2>6
  <1> QED  BY <1>1, <1>2

\* A refresh is over.
LEMMA LandGood ==
    ASSUME NEW e, NEW s, NEW v \in Nat, Good(e, s, v), NEW f \in Flight,
           e.flight[f].pc # "none"
    PROVE  /\ Good(Land(e, f, s), s, v)
           /\ Land(e, f, s).snapshot = e.snapshot
           /\ Pollers(s) = {} => Calm(e, Land(e, f, s))
  <1> DEFINE landed == [e EXCEPT !.inFlight = NoFlight, !.flight[f] = Landed]
             asked == [landed EXCEPT !.refreshPending = FALSE]
             again == IF landed.refreshPending THEN RefreshEntry(asked, FALSE, FALSE) ELSE landed
             finally == IF ~ e.flight[f].current THEN landed
                        ELSE IF Pollers(s) # {} /\ Active(again) THEN Feed(again, s)
                        ELSE IF ~ Active(again) THEN [again EXCEPT !.pollTimer = FALSE]
                        ELSE again
             started == IF e.flight[f].start THEN Feed(finally, s) ELSE finally
             G(x) == /\ Good(x, s, v) /\ x.snapshot = e.snapshot
                     /\ Pollers(s) = {} => Calm(e, x)
  <1>1. Land(e, f, s) = IF e.flight[f].schedule THEN SchedulePoll(started, s) ELSE started
    BY DEF Land
  <1>2. G(landed)
    <2>1. f = e.inFlight
      BY DEF Good, OneFlight
    <2>2. landed \in EntryType
      BY LandedType DEF Good, EntryType
    <2>3. OneFlight(landed)
      BY <2>1, WatcherAssumption DEF Good, EntryType, OneFlight, Landed
    <2>4. Good(landed, s, v) /\ landed.snapshot = e.snapshot
      BY <2>2, <2>3 DEF Good, EntryType, Quiet, Denied, Ahead, AtMost, Landed, Unread
    <2>5. Calm(e, landed)
      BY DEF Good, EntryType, Calm
    <2> QED  BY <2>4, <2>5
  <1>3. G(asked)
    <2> HIDE DEF landed
    <2> QED  BY <1>2 DEF Good, EntryType, OneFlight, Quiet, Denied, Ahead, AtMost, Calm
  <1>4. G(again)
    <2> HIDE DEF landed, asked
    <2>1. CASE landed.refreshPending
      BY <1>3, <2>1, RefreshEntryGood DEF Calm
    <2>2. CASE ~ landed.refreshPending
      BY <1>2, <2>2
    <2> QED  BY <2>1, <2>2
  <1>5. \A x : G(x) => G(Feed(x, s)) /\ G(SchedulePoll(x, s)) /\ G([x EXCEPT !.pollTimer = FALSE])
    <2> SUFFICES ASSUME NEW x, G(x)
                 PROVE  G(Feed(x, s)) /\ G(SchedulePoll(x, s)) /\ G([x EXCEPT !.pollTimer = FALSE])
      OBVIOUS
    <2>1. Good(Feed(x, s), s, v) /\ Good(SchedulePoll(x, s), s, v)
      BY FeedGood, SchedulePollGood
    <2>2. Feed(x, s).snapshot = x.snapshot /\ SchedulePoll(x, s).snapshot = x.snapshot
      BY DEF Feed, SchedulePoll, StartStream, Good, EntryType
    <2>3. G([x EXCEPT !.pollTimer = FALSE])
      BY DEF Good, EntryType, OneFlight, Quiet, Denied, Ahead, AtMost, Calm
    <2>4. Pollers(s) = {} => Calm(x, Feed(x, s)) /\ Calm(x, SchedulePoll(x, s))
      BY NothingFed DEF Good
    <2>5. Pollers(s) = {} => Calm(e, Feed(x, s)) /\ Calm(e, SchedulePoll(x, s))
      BY <2>4 DEF Calm
    <2> QED  BY <2>1, <2>2, <2>3, <2>5
  <1>6. G(finally)
    <2> HIDE DEF landed, again, G
    <2> QED  BY <1>2, <1>4, <1>5
  <1>7. G(started)
    <2> HIDE DEF finally, G
    <2> QED  BY <1>5, <1>6
  <1>8. G(Land(e, f, s))
    <2> HIDE DEF started, G
    <2> QED  BY <1>1, <1>5, <1>7
  <1> QED  BY <1>8

-----------------------------------------------------------------------------
(* The steps. *)

\* Changes of single fields that keep the entry good.
LEMMA FieldsGood ==
    ASSUME NEW e, NEW s, NEW v, Good(e, s, v)
    PROVE  /\ Good([e EXCEPT !.pollTimer = FALSE], s, v)
           /\ Good([e EXCEPT !.streamRetry = FALSE], s, v)
           /\ Good([e EXCEPT !.error = TRUE], s, v)
           /\ Good([e EXCEPT !.error = TRUE, !.streamTask = "none"], s, v)
           /\ Good([e EXCEPT !.streamTerminal = TRUE, !.streamTask = "none"], s, v)
           /\ (e.streamTask = "connecting" => Good([e EXCEPT !.streamTask = "open"], s, v))
  BY DEF Good, EntryType, OneFlight, Quiet, Denied, Ahead, AtMost

\* The first entry, and the one after a session or a rest.
LEMMA EmptyGood ==
    ASSUME NEW v \in Nat
    PROVE  Good(EmptyEntry, {}, v)
  <1> DEFINE flight == [f \in Flight |-> Landed]
  <1>1. flight \in [Flight -> FlightState] /\ \A f \in Flight : flight[f].pc = "none"
    BY LandedType DEF Landed
  <1>2. Unread \in Value /\ Unread.version = 0
    BY WatcherAssumption DEF Unread, Value
  <1>3. EmptyEntry = [snapshot |-> Unread, error |-> FALSE, accessDenied |-> FALSE,
                      inFlight |-> NoFlight, flight |-> flight, refreshPending |-> FALSE,
                      pollTimer |-> FALSE, streamTask |-> "none", streamRetry |-> FALSE,
                      streamTerminal |-> FALSE]
    BY DEF EmptyEntry
  <1>4. \A f \in Flight : flight[f].value.version = 0
    BY DEF Landed, Unread
  <1> HIDE DEF flight
  <1>5. EmptyEntry \in EntryType /\ Quiet(EmptyEntry, {}) /\ Denied(EmptyEntry)
    BY <1>1, <1>2, <1>3 DEF EntryType, Quiet, Denied, Pollers
  <1>6. EmptyEntry.flight = flight /\ EmptyEntry.snapshot = Unread /\ EmptyEntry.inFlight = NoFlight
    BY <1>3
  <1>7. OneFlight(EmptyEntry) /\ Ahead(EmptyEntry) /\ AtMost(EmptyEntry, v)
    BY <1>1, <1>2, <1>4, <1>6, WatcherAssumption DEF OneFlight, Ahead, AtMost
  <1> QED  BY <1>5, <1>7 DEF Good

\* The initial states.
LEMMA InitGood == Init => IInv
  <1> SUFFICES ASSUME Init PROVE IInv
    OBVIOUS
  <1>1. RestType
    <2>1. run \in RunType
      <3>1. PICK over \in BOOLEAN : run = [version |-> 1, over |-> over, readable |-> TRUE]
        BY DEF Init
      <3> QED  BY <3>1, WatcherAssumption DEF RunType
    <2>2. subs \subseteq Subscriber /\ tick \in {"none", "active", "over"} /\ owed \in BOOLEAN
          /\ left \in [Occasion -> Nat]
      BY WatcherAssumption DEF Init
    <2> QED  BY <2>1, <2>2 DEF RestType
  <1>2. run.version \in Nat
    BY DEF Init
  <1> QED  BY <1>1, <1>2, EmptyGood DEF Init, IInv

\* A later version of the run is as good.
LEMMA LaterGood ==
    ASSUME NEW e, NEW s, NEW v \in Nat, NEW u \in Nat, v <= u, Good(e, s, v)
    PROVE  Good(e, s, u)
  <1>1. e.snapshot.version \in Nat /\ \A f \in Flight : e.flight[f].value.version \in Nat
    BY DEF Good, EntryType, FlightState, Value
  <1> QED  BY <1>1 DEF Good, AtMost

\* The server's answers are as new as the run, and so as what is shown.
LEMMA ServerReadsGood ==
    ASSUME IInv, NEW f \in Flight, ServerReads(f)
    PROVE  IInv' /\ w'.snapshot = w.snapshot
  <1>1. w.flight[f] \in FlightState /\ run.version \in Nat /\ w.snapshot.version \in Nat
        /\ w.snapshot.version <= run.version
    BY DEF IInv, RestType, RunType, Good, AtMost, EntryType, Value
  <1> DEFINE x == w'.flight[f]
  <1>2. /\ w' = [w EXCEPT !.flight[f] = x]
        /\ x \in FlightState
        /\ x.pc # "none" /\ w.flight[f].pc # "none"
        /\ x.current = w.flight[f].current /\ x.value.version <= run.version
        /\ \/ x.pc = "runRead" /\ (~ x.refused => x.value.version = run.version)
           \/ x.pc = "candidatesRead" /\ w.flight[f].pc = "candidates" /\ x.value = w.flight[f].value
    <2>1. CASE w.flight[f].pc = "run"
      <3> DEFINE value == IF run.readable THEN Answer ELSE Unread
      <3>1. value \in Value
        BY WatcherAssumption DEF Answer, Unread, Value, IInv, RestType, RunType
      <3>2. w' = [w EXCEPT !.flight[f] = [w.flight[f] EXCEPT
                     !.pc = "runRead", !.refused = ~ run.readable, !.value = value]]
        BY <2>1 DEF ServerReads
      <3>3. value.version <= run.version /\ (run.readable => value.version = run.version)
        BY <1>1 DEF Answer, Unread
      <3> HIDE DEF value
      <3>4. w \in EntryType /\ run.readable \in BOOLEAN
        BY DEF IInv, RestType, RunType, Good
      <3>5. x = [w.flight[f] EXCEPT !.pc = "runRead", !.refused = ~ run.readable, !.value = value]
            /\ w' = [w EXCEPT !.flight[f] = x]
        BY <3>2, <3>4 DEF EntryType, FlightState
      <3> HIDE DEF x
      <3> QED  BY <1>1, <2>1, <3>1, <3>3, <3>4, <3>5 DEF FlightState
    <2>2. CASE w.flight[f].pc = "candidates"
      <3>1. w' = [w EXCEPT !.flight[f] = [w.flight[f] EXCEPT
                     !.pc = "candidatesRead", !.refused = ~ run.readable]]
        BY <2>2 DEF ServerReads
      <3>2. w \in EntryType /\ run.readable \in BOOLEAN
        BY DEF IInv, RestType, RunType, Good
      <3>3. x = [w.flight[f] EXCEPT !.pc = "candidatesRead", !.refused = ~ run.readable]
            /\ w' = [w EXCEPT !.flight[f] = x]
        BY <3>1, <3>2 DEF EntryType, FlightState
      <3> HIDE DEF x
      <3>4. w.flight[f].value.version <= run.version
        BY DEF IInv, Good, AtMost
      <3> QED  BY <1>1, <2>2, <3>2, <3>3, <3>4 DEF FlightState
    <2> QED  BY <2>1, <2>2 DEF ServerReads
  <1>3. UNCHANGED <<run, subs, tick, owed, left>>
    BY DEF ServerReads
  <1> HIDE DEF x
  <1>4. w' \in EntryType
    BY <1>2 DEF IInv, Good, EntryType
  <1>5. w'.snapshot = w.snapshot /\ OneFlight(w') /\ Quiet(w', subs)
    BY <1>2 DEF IInv, Good, EntryType, OneFlight, Quiet
  <1>6. Denied(w')
    BY <1>2 DEF IInv, Good, EntryType, Denied
  <1>7. Ahead(w') /\ AtMost(w', run.version)
    BY <1>1, <1>2 DEF IInv, Good, EntryType, Ahead, AtMost
  <1>8. RestType'
    BY <1>3 DEF IInv, RestType
  <1> QED  BY <1>1, <1>3, <1>4, <1>5, <1>6, <1>7, <1>8 DEF IInv, Good

\* Whoever joins changes nothing; whoever leaves others behind takes the timer along.
LEMMA OthersGood ==
    ASSUME NEW e, NEW s, NEW v, Good(e, s, v), NEW t, t # {}
    PROVE  /\ s \subseteq t => Good(e, t, v)
           /\ Good(SchedulePoll(e, t), t, v)
           /\ Good(StopStream([e EXCEPT !.pollTimer = FALSE]), {}, v)
           /\ SchedulePoll(e, t).snapshot = e.snapshot
           /\ StopStream([e EXCEPT !.pollTimer = FALSE]).snapshot = e.snapshot
  BY DEF Good, SchedulePoll, StopStream, EntryType, OneFlight, Quiet, Denied, Ahead, AtMost, Active, Pollers

\* What the handlers show of the run is what they found.
LEMMA FeedShows ==
    ASSUME NEW e \in EntryType, NEW s
    PROVE  /\ Feed(e, s).snapshot = e.snapshot
           /\ ScheduleReconnect(SchedulePoll(e, s), s).snapshot = e.snapshot
           /\ StartStream(e, s).snapshot = e.snapshot
  BY DEF Feed, SchedulePoll, StartStream, ScheduleReconnect, EntryType

-----------------------------------------------------------------------------
\* The page shows nothing, or a state as new as before.
NotOlder == w'.snapshot.version > 0 => w'.snapshot.version >= w.snapshot.version

\* A step that keeps the server's side and hands the entry to other handlers.
LEMMA Handled ==
    ASSUME IInv, RestType', run'.version >= run.version, run.version \in Nat, run'.version \in Nat,
           Good(w', subs', run.version), w'.snapshot = w.snapshot
    PROVE  IInv' /\ NotOlder
  <1>1. w.snapshot.version \in Nat
    BY DEF IInv, Good, EntryType, Value
  <1>2. Good(w', subs', run'.version)
    BY LaterGood
  <1> QED  BY <1>1, <1>2 DEF IInv, NotOlder

\* A change of the run keeps its type.
LEMMA RunChanges ==
    ASSUME NEW r \in RunType,
           NEW n \in 1 .. MaxVersion, NEW b \in BOOLEAN
    PROVE  /\ [r EXCEPT !.version = n, !.over = b]
                 \in RunType
           /\ [r EXCEPT !.version = n, !.over = b].version = n
           /\ [r EXCEPT !.readable = b]
                 \in RunType
           /\ [r EXCEPT !.readable = b].version = r.version
  BY DEF RunType

\* The server's own steps.
LEMMA ServerStep ==
    ASSUME IInv, (\E over \in BOOLEAN : Advance(over)) \/ RetryRun \/ ChangeAccess
    PROVE  IInv' /\ NotOlder
  <1>1. w' = w /\ subs' = subs /\ tick' = tick /\ owed' \in BOOLEAN /\ left' \in [Occasion -> Nat]
    <2>1. left \in [Occasion -> Nat] /\ owed \in BOOLEAN
      BY DEF IInv, RestType
    <2>2. \A o \in Occasion : Spend(o) => left' \in [Occasion -> Nat]
      BY <2>1 DEF Spend
    <2> QED  BY <2>1, <2>2 DEF Advance, RetryRun, ChangeAccess, Occasion
  <1>2. /\ run' \in RunType
        /\ run'.version >= run.version /\ run.version \in Nat /\ run'.version \in Nat
    <2>1. run \in RunType
      BY DEF IInv, RestType
    <2>5. run.version \in 1 .. MaxVersion /\ run.version \in Nat
      BY <2>1, WatcherAssumption DEF RunType
    <2>2. CASE \E over \in BOOLEAN : Advance(over)
      <3>1. PICK over \in BOOLEAN : Advance(over)
        BY <2>2
      <3> DEFINE n == run.version + 1
      <3>2. run' = [run EXCEPT !.version = n, !.over = over] /\ run.version < MaxVersion
        BY <3>1 DEF Advance
      <3>3. n \in 1 .. MaxVersion /\ n >= run.version /\ n \in Nat
        BY <2>5, <3>2, WatcherAssumption
      <3> HIDE DEF n
      <3>4. run' \in RunType /\ run'.version = n
        BY <2>1, <3>2, <3>3, RunChanges DEF RunType
      <3> QED  BY <2>5, <3>3, <3>4
    <2>3. CASE RetryRun
      <3> DEFINE n == run.version + 1
      <3>1. run' = [run EXCEPT !.version = n, !.over = FALSE] /\ run.version < MaxVersion
        BY <2>3 DEF RetryRun
      <3>2. n \in 1 .. MaxVersion /\ n >= run.version /\ n \in Nat
        BY <2>5, <3>1, WatcherAssumption
      <3> HIDE DEF n
      <3>3. run' \in RunType /\ run'.version = n
        BY <2>1, <3>1, <3>2, RunChanges DEF RunType
      <3> QED  BY <2>5, <3>2, <3>3
    <2>4. CASE ChangeAccess
      <3> DEFINE b == ~ run.readable
      <3>1. run' = [run EXCEPT !.readable = b] /\ b \in BOOLEAN
        BY <2>4 DEF ChangeAccess
      <3> HIDE DEF b
      <3>2. run' \in RunType /\ run'.version = run.version
        BY <2>1, <3>1, RunChanges DEF RunType
      <3> QED  BY <2>5, <3>2
    <2> QED  BY <2>2, <2>3, <2>4
  <1>3. RestType'
    BY <1>1, <1>2 DEF IInv, RestType
  <1> QED  BY <1>1, <1>2, <1>3, Handled DEF IInv

\* The parts of the page come, go and refresh.
LEMMA PageStep ==
    ASSUME IInv,
           \/ \E p \in Subscriber : Subscribe(p) \/ Unsubscribe(p)
           \/ RefreshRun
           \/ \E hidden \in BOOLEAN : VisibilityChange(hidden)
    PROVE  IInv' /\ NotOlder
  <1> DEFINE v == run.version
  <1>1. run.version \in Nat /\ w \in EntryType /\ Good(w, subs, v) /\ run' = run
    <2>1. run' = run
      BY DEF Subscribe, Unsubscribe, RefreshRun, VisibilityChange
    <2> QED  BY <2>1 DEF IInv, RestType, RunType, Good
  <1>2. RestType'
    <2>1. RestType
      BY DEF IInv
    <2>2. CASE \E p \in Subscriber : Subscribe(p) \/ Unsubscribe(p)
      BY <2>1, <2>2 DEF RestType, Subscribe, Unsubscribe
    <2>3. CASE RefreshRun \/ \E hidden \in BOOLEAN : VisibilityChange(hidden)
      BY <2>1, <2>3 DEF RestType, RefreshRun, VisibilityChange
    <2> QED  BY <2>2, <2>3
  <1>3. Good(w', subs', v) /\ w'.snapshot = w.snapshot
    <2>1. ASSUME NEW p \in Subscriber, Subscribe(p)
          PROVE  Good(w', subs', v) /\ w'.snapshot = w.snapshot
      <3>1. subs' = subs \union {p} /\ Good(w, subs', v)
        BY <1>1, <2>1, OthersGood DEF Subscribe
      <3>2. w' = RefreshEntry(w, TRUE, FALSE) \/ w' = Feed(w, subs')
        BY <2>1 DEF Subscribe
      <3>3. Good(RefreshEntry(w, TRUE, FALSE), subs', v)
            /\ RefreshEntry(w, TRUE, FALSE).snapshot = w.snapshot
        BY <1>1, <3>1, RefreshEntryGood
      <3>4. Good(Feed(w, subs'), subs', v) /\ Feed(w, subs').snapshot = w.snapshot
        BY <1>1, <3>1, FeedGood, FeedShows
      <3> QED  BY <3>2, <3>3, <3>4
    <2>2. ASSUME NEW p \in Subscriber, Unsubscribe(p)
          PROVE  Good(w', subs', v) /\ w'.snapshot = w.snapshot
      <3>1. CASE subs' # {}
        <4>1. w' = SchedulePoll(w, subs')
          BY <2>2, <3>1 DEF Unsubscribe
        <4>2. Good(SchedulePoll(w, subs'), subs', v) /\ SchedulePoll(w, subs').snapshot = w.snapshot
          BY <1>1, <3>1, OthersGood
        <4> QED  BY <4>1, <4>2
      <3>2. CASE subs' = {}
        <4>1. subs # {}
          BY <2>2 DEF Unsubscribe
        <4> QED  BY <1>1, <2>2, <3>2, <4>1, OthersGood DEF Unsubscribe
      <3> QED  BY <3>1, <3>2
    <2>3. CASE RefreshRun
      BY <1>1, <2>3, RefreshEntryGood DEF RefreshRun
    <2>4. ASSUME NEW hidden \in BOOLEAN, VisibilityChange(hidden)
          PROVE  Good(w', subs', v) /\ w'.snapshot = w.snapshot
      <3> DEFINE e == IF hidden THEN w ELSE RefreshEntry(w, FALSE, FALSE)
      <3>1. Good(e, subs, v) /\ e.snapshot = w.snapshot
        BY <1>1, RefreshEntryGood
      <3>2. w' = Feed(e, subs) /\ subs' = subs
        BY <2>4 DEF VisibilityChange
      <3> HIDE DEF e
      <3> QED  BY <3>1, <3>2, FeedGood, FeedShows DEF Good
    <2> QED  BY <2>1, <2>2, <2>3, <2>4
  <1> QED  BY <1>1, <1>2, <1>3, Handled

\* The entry is forgotten.
LEMMA ForgetStep ==
    ASSUME IInv, Forget
    PROVE  IInv' /\ NotOlder
  <1>1. RestType' /\ run' = run /\ subs' = {} /\ w' = EmptyEntry /\ run.version \in Nat
    BY DEF IInv, RestType, RunType, Forget, Spend, Occasion
  <1>2. EmptyEntry.snapshot.version = 0
    BY DEF EmptyEntry, Unread
  <1> QED  BY <1>1, <1>2, EmptyGood DEF IInv, NotOlder

\* A refresh is over, and was refused.
LEMMA RefusedStep ==
    ASSUME IInv, NEW f \in Flight, Refused(f)
    PROVE  IInv' /\ NotOlder
  <1> DEFINE e == RevokeAccess(w)
  <1>1. RestType' /\ run' = run /\ subs' = subs /\ run.version \in Nat /\ Good(w, subs, run.version)
    BY DEF IInv, RestType, RunType, Refused
  <1>2. Good(e, subs, run.version) /\ e.snapshot = Unread /\ e.flight[f].pc # "none"
    <2>1. w.flight[f] \in FlightState /\ w.flight[f].pc # "none"
      BY DEF IInv, Good, EntryType, Refused
    <2>2. e.flight[f] = [w.flight[f] EXCEPT !.current = FALSE]
      BY <1>1, RevokeAccessGood
    <2> QED  BY <1>1, <2>1, <2>2, RevokeAccessGood DEF FlightState
  <1>3. w' = Land(e, f, subs)
    BY DEF Refused
  <1> HIDE DEF e
  <1>4. Good(w', subs, run.version) /\ w'.snapshot = Unread
    BY <1>1, <1>2, <1>3, LandGood
  <1> QED  BY <1>1, <1>4 DEF IInv, NotOlder, Unread

\* What a finished read leaves before its flight lands is a state the watcher allows.
LEMMA PublishedGood ==
    ASSUME IInv, NEW f \in Flight, Publish(f)
    PROVE  Good([w EXCEPT !.snapshot = w.flight[f].value, !.error = FALSE,
                          !.streamTerminal = @ /\ w.flight[f].value.over], subs, run.version)
  <1> DEFINE value == w.flight[f].value
             e == [w EXCEPT !.snapshot = value, !.error = FALSE,
                            !.streamTerminal = @ /\ value.over]
  <1>1. run.version \in Nat /\ Good(w, subs, run.version)
    BY DEF IInv, RestType, RunType
  <1>2. /\ w.flight[f] \in FlightState /\ w.flight[f].pc = "candidatesRead"
        /\ w.flight[f].current /\ ~ w.flight[f].refused
    BY DEF IInv, Good, EntryType, Publish
  <1>3. value \in Value /\ value.version >= w.snapshot.version /\ ~ w.accessDenied
    BY <1>2 DEF IInv, Good, Ahead, Denied, FlightState
  <1>4. e.flight = w.flight /\ e.snapshot = value
    BY <1>1 DEF Good, EntryType
  <1>5. e \in EntryType
    BY <1>1, <1>3 DEF Good, EntryType, Value
  <1>6. OneFlight(e) /\ Quiet(e, subs) /\ e.accessDenied = w.accessDenied
    BY <1>1 DEF Good, EntryType, OneFlight, Quiet
  <1>7. Denied(e)
    BY <1>3, <1>6 DEF Denied
  <1>8. Ahead(e)
    <2>1. \A g \in Flight : g # f => w.flight[g].pc = "none"
      BY <1>1, <1>2 DEF Good, OneFlight
    <2>2. value.version \in Nat
      BY <1>3 DEF Value
    <2> HIDE DEF e
    <2> QED  BY <1>2, <1>4, <2>1, <2>2 DEF Ahead
  <1>9. AtMost(e, run.version)
    BY <1>1, <1>4 DEF Good, AtMost
  <1> QED  BY <1>5, <1>6, <1>7, <1>8, <1>9 DEF Good

\* All of a refresh arrived.
LEMMA PublishStep ==
    ASSUME IInv, NEW f \in Flight, Publish(f)
    PROVE  IInv' /\ NotOlder
  <1> DEFINE value == w.flight[f].value
             e == [w EXCEPT !.snapshot = value, !.error = FALSE,
                            !.streamTerminal = @ /\ value.over]
  <1>1. RestType' /\ run' = run /\ subs' = subs /\ run.version \in Nat /\ Good(w, subs, run.version)
    BY DEF IInv, RestType, RunType, Publish
  <1>2. /\ w.flight[f] \in FlightState /\ w.flight[f].pc = "candidatesRead"
        /\ w.flight[f].current /\ ~ w.flight[f].refused
    BY DEF IInv, Good, EntryType, Publish
  <1>3. value \in Value /\ value.version >= w.snapshot.version /\ ~ w.accessDenied
    BY <1>2 DEF IInv, Good, Ahead, Denied, FlightState
  <1>4. e.flight = w.flight /\ e.snapshot = value
    BY <1>1 DEF Good, EntryType
  <1>5. Good(e, subs, run.version)
    BY PublishedGood
  <1>6. w' = Land(e, f, subs)
    BY DEF Publish
  <1> HIDE DEF e, value
  <1>7. Good(w', subs, run.version) /\ w'.snapshot = value
    BY <1>1, <1>2, <1>4, <1>5, <1>6, LandGood
  <1> QED  BY <1>1, <1>3, <1>7 DEF IInv, NotOlder

\* The run arrived, and its candidates are asked for.
LEMMA ReceiveRunStep ==
    ASSUME IInv, NEW f \in Flight, ReceiveRun(f)
    PROVE  IInv' /\ NotOlder
  <1> DEFINE x == [w.flight[f] EXCEPT !.pc = "candidates"]
  <1>1. RestType' /\ run' = run /\ subs' = subs /\ run.version \in Nat /\ Good(w, subs, run.version)
    BY DEF IInv, RestType, RunType, ReceiveRun
  <1>2. /\ w.flight[f] \in FlightState /\ w.flight[f].pc = "runRead"
        /\ ~ w.flight[f].refused
    BY DEF IInv, Good, EntryType, ReceiveRun
  <1>3. /\ x \in FlightState /\ x.pc = "candidates" /\ x.value = w.flight[f].value
        /\ x.current = w.flight[f].current
    BY <1>2 DEF FlightState
  <1>4. w' = [w EXCEPT !.flight[f] = x]
    BY <1>1 DEF ReceiveRun, Good, EntryType
  <1> HIDE DEF x
  <1>5. w' \in EntryType /\ w'.snapshot = w.snapshot
    BY <1>1, <1>3, <1>4 DEF Good, EntryType
  <1>6. OneFlight(w') /\ Quiet(w', subs)
    BY <1>1, <1>2, <1>3, <1>4 DEF Good, EntryType, OneFlight, Quiet
  <1>7. Denied(w')
    BY <1>1, <1>2, <1>3, <1>4 DEF Good, EntryType, Denied
  <1>8. Ahead(w') /\ AtMost(w', run.version)
    BY <1>1, <1>2, <1>3, <1>4 DEF Good, EntryType, Ahead, AtMost
  <1>9. Good(w', subs', run.version)
    BY <1>1, <1>5, <1>6, <1>7, <1>8 DEF Good
  <1> QED  BY <1>1, <1>5, <1>9, Handled

\* A refresh is dropped or fails, and the timer fires.
LEMMA RefreshStep ==
    ASSUME IInv,
           \/ \E f \in Flight : DropRefresh(f) \/ RefreshFails(f)
           \/ PollTimerFires
    PROVE  IInv' /\ NotOlder
  <1>1. run.version \in Nat /\ w \in EntryType /\ Good(w, subs, run.version) /\ RestType
    BY DEF IInv, RestType, RunType, Good
  <1>2. run' = run /\ subs' = subs /\ RestType'
    <2>1. CASE \E f \in Flight : DropRefresh(f)
      BY <1>1, <2>1 DEF DropRefresh, RestType
    <2>2. CASE \E f \in Flight : RefreshFails(f)
      BY <1>1, <2>2 DEF RefreshFails, Spend, Occasion, RestType
    <2>3. CASE PollTimerFires
      BY <1>1, <2>3 DEF PollTimerFires, RestType
    <2> QED  BY <2>1, <2>2, <2>3
  <1>3. Good(w', subs, run.version) /\ w'.snapshot = w.snapshot
    <2>1. ASSUME NEW f \in Flight, DropRefresh(f)
          PROVE  Good(w', subs, run.version) /\ w'.snapshot = w.snapshot
      <3>1. w' = Land(w, f, subs) /\ w.flight[f].pc # "none"
        BY <2>1 DEF DropRefresh
      <3> QED  BY <1>1, <3>1, LandGood
    <2>2. ASSUME NEW f \in Flight, RefreshFails(f)
          PROVE  Good(w', subs, run.version) /\ w'.snapshot = w.snapshot
      <3> DEFINE e == IF w.flight[f].current THEN [w EXCEPT !.error = TRUE] ELSE w
      <3>1. w' = Land(e, f, subs) /\ w.flight[f].pc # "none"
        BY <2>2 DEF RefreshFails
      <3>2. Good(e, subs, run.version)
        BY <1>1, FieldsGood
      <3>3. e.snapshot = w.snapshot /\ e.flight = w.flight
        BY <1>1 DEF EntryType
      <3> HIDE DEF e
      <3> QED  BY <1>1, <3>1, <3>2, <3>3, LandGood
    <2>3. CASE PollTimerFires
      <3> DEFINE e == [w EXCEPT !.pollTimer = FALSE]
      <3>1. w' = RefreshEntry(e, FALSE, TRUE)
        BY <2>3 DEF PollTimerFires
      <3>2. Good(e, subs, run.version)
        BY <1>1, FieldsGood
      <3>3. e.snapshot = w.snapshot
        BY <1>1 DEF EntryType
      <3> HIDE DEF e
      <3> QED  BY <1>1, <3>1, <3>2, <3>3, RefreshEntryGood
    <2> QED  BY <2>1, <2>2, <2>3
  <1> QED  BY <1>1, <1>2, <1>3, Handled

\* The event stream.
LEMMA StreamStep ==
    ASSUME IInv,
           StreamOpens \/ StreamRefused \/ ServerTicks \/ HearTick \/ StreamFails \/ RetryTimerFires
    PROVE  IInv' /\ NotOlder
  <1>1. run.version \in Nat /\ w \in EntryType /\ Good(w, subs, run.version) /\ RestType
    BY DEF IInv, RestType, RunType, Good
  <1>2. run' = run /\ subs' = subs /\ RestType'
    <2>1. CASE StreamFails
      BY <1>1, <2>1 DEF StreamFails, Spend, Occasion, RestType
    <2>2. CASE StreamOpens \/ StreamRefused \/ RetryTimerFires
      BY <1>1, <2>2 DEF StreamOpens, StreamRefused, RetryTimerFires, RestType
    <2>3. CASE ServerTicks \/ HearTick
      BY <1>1, <2>3 DEF ServerTicks, HearTick, RestType
    <2> QED  BY <2>1, <2>2, <2>3
  <1> DEFINE G == Good(w', subs, run.version) /\ w'.snapshot = w.snapshot
  <1>3. CASE StreamOpens
    <2>1. w' = [w EXCEPT !.streamTask = "open"] /\ w.streamTask = "connecting"
      BY <1>3 DEF StreamOpens
    <2>2. w'.snapshot = w.snapshot
      BY <1>1, <2>1 DEF EntryType
    <2>3. Good(w', subs, run.version)
      BY <1>1, <2>1, FieldsGood
    <2> QED  BY <1>1, <1>2, <2>2, <2>3, Handled
  <1>4. CASE StreamRefused
    <2>1. w' = RevokeAccess(w)
      BY <1>4 DEF StreamRefused
    <2>2. Good(w', subs, run.version) /\ w'.snapshot = Unread
      BY <1>1, <2>1, RevokeAccessGood
    <2> QED  BY <1>1, <1>2, <2>2 DEF IInv, NotOlder, Unread
  <1>5. CASE ServerTicks
    BY <1>1, <1>2, <1>5, Handled DEF ServerTicks
  <1>6. CASE HearTick
    <2> DEFINE e == RefreshEntry(w, FALSE, FALSE)
    <2>1. Good(e, subs, run.version) /\ e.snapshot = w.snapshot
      BY <1>1, RefreshEntryGood
    <2> DEFINE ended == [e EXCEPT !.streamTerminal = TRUE, !.streamTask = "none"]
    <2>2. w' = e \/ w' = ended
      BY <1>6 DEF HearTick
    <2> HIDE DEF e
    <2>3. Good(ended, subs, run.version)
      BY <2>1, FieldsGood
    <2>4. ended.snapshot = e.snapshot
      BY <2>1 DEF Good, EntryType
    <2> HIDE DEF ended
    <2>5. Good(w', subs, run.version) /\ w'.snapshot = w.snapshot
      BY <2>1, <2>2, <2>3, <2>4
    <2> QED  BY <1>1, <1>2, <2>5, Handled
  <1>7. CASE StreamFails
    <2> DEFINE e == [w EXCEPT !.error = TRUE, !.streamTask = "none"]
    <2>1. Good(e, subs, run.version)
      BY <1>1, FieldsGood
    <2>2. e.snapshot = w.snapshot /\ e \in EntryType
      BY <1>1 DEF EntryType
    <2>3. w' = e \/ w' = ScheduleReconnect(SchedulePoll(e, subs), subs)
      BY <1>7 DEF StreamFails
    <2> HIDE DEF e
    <2>4. Good(w', subs, run.version) /\ w'.snapshot = w.snapshot
      BY <2>1, <2>2, <2>3, SchedulePollGood, ScheduleReconnectGood, FeedShows
    <2> QED  BY <1>1, <1>2, <2>4, Handled
  <1>8. CASE RetryTimerFires
    <2> DEFINE e == [w EXCEPT !.streamRetry = FALSE]
    <2>1. Good(e, subs, run.version)
      BY <1>1, FieldsGood
    <2>2. e.snapshot = w.snapshot /\ e \in EntryType
      BY <1>1 DEF EntryType
    <2>3. w' = StartStream(e, subs)
      BY <1>8 DEF RetryTimerFires
    <2> HIDE DEF e
    <2>4. Good(w', subs, run.version) /\ w'.snapshot = w.snapshot
      BY <2>1, <2>2, <2>3, StartStreamGood, FeedShows
    <2> QED  BY <1>1, <1>2, <2>4, Handled
  <1> QED  BY <1>3, <1>4, <1>5, <1>6, <1>7, <1>8

\* Every step keeps the invariant and never shows an older state.
LEMMA Inductive == IInv /\ [Next]_vars => IInv' /\ NotOlder
  <1> SUFFICES ASSUME IInv, [Next]_vars PROVE IInv' /\ NotOlder
    OBVIOUS
  <1>1. CASE UNCHANGED vars
    <2>1. w.snapshot.version \in Nat
      BY DEF IInv, Good, EntryType, Value
    <2>2. w' = w /\ run' = run /\ subs' = subs /\ tick' = tick /\ owed' = owed /\ left' = left
      BY <1>1 DEF vars
    <2> QED  BY <2>1, <2>2 DEF IInv, RestType, NotOlder
  <1>2. CASE (\E over \in BOOLEAN : Advance(over)) \/ RetryRun \/ ChangeAccess
    BY <1>2, ServerStep
  <1>3. CASE \/ \E p \in Subscriber : Subscribe(p) \/ Unsubscribe(p)
             \/ RefreshRun
             \/ \E hidden \in BOOLEAN : VisibilityChange(hidden)
    BY <1>3, PageStep
  <1>4. CASE Forget
    BY <1>4, ForgetStep
  <1>5. ASSUME NEW f \in Flight, ServerReads(f) \/ Lands(f) \/ RefreshFails(f)
        PROVE  IInv' /\ NotOlder
    <2>1. CASE ServerReads(f)
      <3>1. w.snapshot.version \in Nat
        BY DEF IInv, Good, EntryType, Value
      <3> QED  BY <2>1, <3>1, ServerReadsGood DEF NotOlder
    <2>2. CASE Refused(f)
      BY <2>2, RefusedStep
    <2>3. CASE ReceiveRun(f)
      BY <2>3, ReceiveRunStep
    <2>4. CASE Publish(f)
      BY <2>4, PublishStep
    <2>5. CASE DropRefresh(f) \/ RefreshFails(f)
      BY <2>5, RefreshStep
    <2> QED  BY <1>5, <2>1, <2>2, <2>3, <2>4, <2>5 DEF Lands
  <1>6. CASE PollTimerFires
    BY <1>6, RefreshStep
  <1>7. CASE StreamOpens \/ StreamRefused \/ ServerTicks \/ HearTick \/ StreamFails \/ RetryTimerFires
    BY <1>7, StreamStep
  <1> QED  BY <1>1, <1>2, <1>3, <1>4, <1>5, <1>6, <1>7 DEF Next

-----------------------------------------------------------------------------
\* The types hold in every behaviour, for any parts of the page, any number of
\* changes of the run and any budget; refreshes come one at a time.
THEOREM TypeCorrect == Spec => []TypeOK
  <1>1. IInv => TypeOK
    BY DEF IInv, RestType, RunType, Good, EntryType, OneFlight, TypeOK
  <1> QED  BY <1>1, InitGood, Inductive, PTL DEF Spec

\* A refresh that is over starts nothing where no part polls.
LEMMA LandsCalmly ==
    ASSUME IInv, Pollers(subs) = {}, NEW f \in Flight, Lands(f) \/ RefreshFails(f)
    PROVE  Calm(w, w')
  <1>1. run.version \in Nat /\ w \in EntryType /\ Good(w, subs, run.version)
    BY DEF IInv, RestType, RunType, Good
  <1>2. ASSUME NEW e, Good(e, subs, run.version), e.flight[f].pc # "none", Calm(w, e),
               w' = Land(e, f, subs)
        PROVE  Calm(w, w')
    BY <1>1, <1>2, LandGood DEF Calm
  <1>3. CASE Refused(f)
    <2> DEFINE e == RevokeAccess(w)
    <2>1. w.flight[f] \in FlightState /\ w.flight[f].pc # "none"
      BY <1>1, <1>3 DEF EntryType, Refused
    <2>2. e.flight[f] = [w.flight[f] EXCEPT !.current = FALSE] /\ Good(e, subs, run.version)
      BY <1>1, RevokeAccessGood
    <2>3. Calm(w, e)
      BY <1>1 DEF RevokeAccess, StopStream, EntryType, Calm
    <2>4. w' = Land(e, f, subs)
      BY <1>3 DEF Refused
    <2> HIDE DEF e
    <2> QED  BY <1>2, <2>1, <2>2, <2>3, <2>4 DEF FlightState
  <1>4. CASE ReceiveRun(f)
    BY <1>1, <1>4 DEF ReceiveRun, EntryType, Calm
  <1>5. CASE Publish(f)
    <2> DEFINE e == [w EXCEPT !.snapshot = w.flight[f].value, !.error = FALSE,
                              !.streamTerminal = @ /\ w.flight[f].value.over]
    <2>1. w' = Land(e, f, subs)
      BY <1>5 DEF Publish
    <2>2. Calm(w, e) /\ e.flight[f].pc # "none"
      BY <1>1, <1>5 DEF Publish, EntryType, Calm
    <2>3. Good(e, subs, run.version)
      BY <1>5, PublishedGood
    <2> HIDE DEF e
    <2> QED  BY <1>2, <2>1, <2>2, <2>3
  <1>6. CASE DropRefresh(f)
    BY <1>1, <1>2, <1>6 DEF DropRefresh, Calm
  <1>7. CASE RefreshFails(f)
    <2> DEFINE e == IF w.flight[f].current THEN [w EXCEPT !.error = TRUE] ELSE w
    <2>1. w' = Land(e, f, subs)
      BY <1>7 DEF RefreshFails
    <2>2. Calm(w, e) /\ e.flight[f].pc # "none"
      BY <1>1, <1>7 DEF RefreshFails, EntryType, Calm
    <2>3. Good(e, subs, run.version)
      BY <1>1, FieldsGood
    <2> HIDE DEF e
    <2> QED  BY <1>2, <2>1, <2>2, <2>3
  <1> QED  BY <1>3, <1>4, <1>5, <1>6, <1>7 DEF Lands

\* No step starts anything where no part polls after it.
LEMMA StepsCalmly ==
    ASSUME IInv, [Next]_vars, Pollers(subs') = {}
    PROVE  Calm(w, w')
  <1>1. run.version \in Nat /\ w \in EntryType /\ Good(w, subs, run.version)
    BY DEF IInv, RestType, RunType, Good
  <1>2. CASE UNCHANGED vars \/ (\E over \in BOOLEAN : Advance(over)) \/ RetryRun \/ ChangeAccess
    BY <1>2 DEF vars, Advance, RetryRun, ChangeAccess, Calm
  <1>3. ASSUME NEW p \in Subscriber, Subscribe(p)
        PROVE  Calm(w, w')
    BY <1>1, <1>3, RefreshEntryGood, NothingFed DEF Subscribe
  <1>4. ASSUME NEW p \in Subscriber, Unsubscribe(p)
        PROVE  Calm(w, w')
    <2>1. CASE subs' # {}
      BY <1>1, <1>4, <2>1, NothingFed DEF Unsubscribe
    <2>2. CASE subs' = {}
      BY <1>1, <1>4, <2>2 DEF Unsubscribe, StopStream, EntryType, Calm
    <2> QED  BY <2>1, <2>2
  <1>5. CASE RefreshRun
    BY <1>1, <1>5, RefreshEntryGood DEF RefreshRun
  <1>6. ASSUME NEW hidden \in BOOLEAN, VisibilityChange(hidden)
        PROVE  Calm(w, w')
    <2> DEFINE e == IF hidden THEN w ELSE RefreshEntry(w, FALSE, FALSE)
    <2>1. Good(e, subs, run.version) /\ Calm(w, e)
      BY <1>1, RefreshEntryGood DEF Calm
    <2>2. w' = Feed(e, subs) /\ subs' = subs
      BY <1>6 DEF VisibilityChange
    <2> HIDE DEF e
    <2> QED  BY <2>1, <2>2, NothingFed DEF Good, Calm
  <1>7. CASE Forget
    BY <1>7 DEF Forget, EmptyEntry, Calm
  <1>8. ASSUME NEW f \in Flight, ServerReads(f)
        PROVE  Calm(w, w')
    BY <1>1, <1>8 DEF ServerReads, EntryType, Calm
  <1>9. ASSUME NEW f \in Flight, Lands(f) \/ RefreshFails(f)
        PROVE  Calm(w, w')
    <2>1. subs' = subs
      BY <1>9 DEF Lands, RefreshFails, Refused, ReceiveRun, Publish, DropRefresh
    <2> QED  BY <1>9, <2>1, LandsCalmly
  <1>10. CASE PollTimerFires
    <2> DEFINE e == [w EXCEPT !.pollTimer = FALSE]
    <2>1. Good(e, subs, run.version)
      BY <1>1, FieldsGood
    <2>2. Calm(w, e)
      BY <1>1 DEF EntryType, Calm
    <2>3. w' = RefreshEntry(e, FALSE, TRUE)
      BY <1>10 DEF PollTimerFires
    <2> HIDE DEF e
    <2> QED  BY <1>1, <2>1, <2>2, <2>3, RefreshEntryGood DEF Calm
  <1>11. CASE StreamOpens \/ ServerTicks
    BY <1>1, <1>11 DEF StreamOpens, ServerTicks, EntryType, Calm
  <1>12. CASE StreamRefused
    BY <1>1, <1>12 DEF StreamRefused, RevokeAccess, StopStream, EntryType, Calm
  <1>13. CASE HearTick
    <2> DEFINE e == RefreshEntry(w, FALSE, FALSE)
    <2>1. Good(e, subs, run.version) /\ Calm(w, e)
      BY <1>1, RefreshEntryGood
    <2>2. w' = e \/ w' = [e EXCEPT !.streamTerminal = TRUE, !.streamTask = "none"]
      BY <1>13 DEF HearTick
    <2> HIDE DEF e
    <2> QED  BY <2>1, <2>2 DEF Good, EntryType, Calm
  <1>14. CASE StreamFails
    <2> DEFINE e == [w EXCEPT !.error = TRUE, !.streamTask = "none"]
    <2>1. e \in EntryType /\ Calm(w, e)
      BY <1>1 DEF EntryType, Calm
    <2>2. w' = e \/ w' = ScheduleReconnect(SchedulePoll(e, subs), subs)
      BY <1>14 DEF StreamFails
    <2>3. subs' = subs
      BY <1>14 DEF StreamFails
    <2> HIDE DEF e
    <2> QED  BY <2>1, <2>2, <2>3, NothingFed DEF Calm
  <1>15. CASE RetryTimerFires
    <2> DEFINE e == [w EXCEPT !.streamRetry = FALSE]
    <2>1. e \in EntryType /\ Calm(w, e)
      BY <1>1 DEF EntryType, Calm
    <2>2. w' = StartStream(e, subs) /\ subs' = subs
      BY <1>15 DEF RetryTimerFires
    <2> HIDE DEF e
    <2> QED  BY <2>1, <2>2, NothingFed DEF Calm
  <1> QED
    BY <1>2, <1>3, <1>4, <1>5, <1>6, <1>7, <1>8, <1>9, <1>10, <1>11, <1>12, <1>13, <1>14, <1>15 DEF Next

\* Nothing begins for a run nobody keeps current, whatever was on its way: a
\* stream that was there may go on, and has ended when no part is left at all.
THEOREM QuietUnwatched == Spec => NothingStartsUnwatched
  <1>1. ASSUME IInv, [Next]_vars, Pollers(subs') = {}
        PROVE  /\ ~ w'.pollTimer
               /\ w'.streamTask # "none" => w.streamTask # "none" /\ subs' # {}
               /\ w'.streamRetry => w.streamRetry /\ subs' # {}
    <2>1. Quiet(w', subs')
      BY <1>1, Inductive DEF IInv, Good
    <2> QED  BY <1>1, <2>1, StepsCalmly DEF Quiet, Calm
  <1>2. IInv /\ [Next]_vars
           => [Pollers(subs') = {} =>
                 /\ ~ w'.pollTimer
                 /\ w'.streamTask # "none" => w.streamTask # "none" /\ subs' # {}
                 /\ w'.streamRetry => w.streamRetry /\ subs' # {}]_vars
    BY <1>1
  <1> QED  BY <1>2, InitGood, Inductive, PTL DEF Spec, NothingStartsUnwatched

\* A denied page shows nothing and asks no more by itself.
THEOREM DeniedIsSilent == Spec => []DeniedShowsNothing
  <1>1. IInv => DeniedShowsNothing
    BY DEF IInv, Good, Denied, DeniedShowsNothing
  <1> QED  BY <1>1, InitGood, Inductive, PTL DEF Spec

\* No older state of the run is shown after a newer one.
THEOREM NeverGoesBack == Spec => SnapshotNeverGoesBack
  <1>1. IInv /\ [Next]_vars
           => [w'.snapshot.version > 0 => w'.snapshot.version >= w.snapshot.version]_vars
    BY Inductive DEF NotOlder
  <1> QED  BY <1>1, InitGood, Inductive, PTL DEF Spec, SnapshotNeverGoesBack
=============================================================================
