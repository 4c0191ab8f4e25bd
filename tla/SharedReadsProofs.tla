------------------------- MODULE SharedReadsProofs -------------------------
(***************************************************************************)
(* Proofs that the readers of SharedReads share requests safely, for every *)
(* set of calls, writes, paths and mutations.                              *)
(*                                                                         *)
(* The argument: an answer is as new as the moment the server read it, so  *)
(* it is enough that a request which can be joined has seen every write    *)
(* its page was told of (ShownAreFresh), and that a request which goes on  *)
(* has seen every write that interrupts its path (LiveAreNotOvertaken).    *)
(* Both survive a write because its second fence comes before the page is  *)
(* told.                                                                   *)
(***************************************************************************)
EXTENDS SharedReads, TLAPS

\* A call with a request of its own either waits for it or is over.
OwnRequests ==
    \A d \in Call : request[d].live =>
       \/ call[d].pc \in {"done", "failed"}
       \/ call[d].pc = "reading" /\ call[d].request = d

\* The callers' half of ReadersHaveRequests.
Served ==
    /\ \A c \in Call : call[c].pc = "reading" =>
          /\ call[c].request \in Call
          /\ request[call[c].request].live
          /\ PathOf[call[c].request] = PathOf[c]
    /\ \A c \in Call : call[c].pc \in {"reading", "recovering"} => call[c].session = session

\* The requests' half.
Wanted ==
    \A d \in Call : request[d].live =>
       \E c \in Call : call[c].pc = "reading" /\ call[c].request = d

OnlyLiveShown == \A d \in Call : request[d].shown => request[d].live

\* Nothing has been told that the server has not committed.
ToldIsCommitted ==
    /\ \A p \in Path : seen[p] <= commits /\ cut[p] <= commits
    /\ \A w \in Write : write[w].commit <= commits
    /\ \A c \in Call : call[c].floor <= seen[PathOf[c]]

ShownAreFresh ==
    \A d \in Call : request[d].shown /\ request[d].value # NotRead =>
       request[d].value >= seen[PathOf[d]]

ReadersAreFresh ==
    \A c \in Call : call[c].pc = "reading" /\ request[call[c].request].value # NotRead =>
       request[call[c].request].value >= call[c].floor

LiveAreNotOvertaken ==
    \A d \in Call : request[d].live /\ request[d].value # NotRead =>
       request[d].value >= cut[PathOf[d]]

Inv ==
    /\ TypeOK
    /\ OwnRequests
    /\ Served
    /\ Wanted
    /\ OnlyLiveShown
    /\ ToldIsCommitted
    /\ ShownAreFresh
    /\ ReadersAreFresh
    /\ LiveAreNotOvertaken

-----------------------------------------------------------------------------
\* Nothing is read or written at the start (createInflightRequests).
THEOREM Initially == Init => Inv
  BY ReadsAssumption
     DEF Init, Inv, TypeOK, OwnRequests, Served, Wanted, OnlyLiveShown, ToldIsCommitted,
         ShownAreFresh, ReadersAreFresh, LiveAreNotOvertaken, Resting, NoRequest, NotRead,
         CallState, WriteState, Occasion

\* What a page was told of a call's path is a commit of the server.
LEMMA PathTypes ==
    ASSUME Inv, NEW c \in Call
    PROVE  /\ PathOf[c] \in Path
           /\ seen[PathOf[c]] \in Nat
           /\ cut[PathOf[c]] \in Nat
           /\ seen[PathOf[c]] <= commits
           /\ cut[PathOf[c]] <= commits
           /\ commits \in Nat
  BY ReadsAssumption DEF Inv, TypeOK, ToldIsCommitted

\* A call that reads joins a request or starts one.
LEMMA RunKeepsInv ==
    ASSUME Inv, NEW c \in Call, NEW next,
           next \in [pc : {"reading"}, session : {session}, request : Call \union {NoCall},
                     write : Write \union {NoWrite}, recoveries : 0 .. MaxRecoveries,
                     floor : Nat],
           next.floor <= seen[PathOf[c]],
           call[c].pc \in {"idle", "recovering"},
           Run(c, next),
           UNCHANGED <<session, commits, seen, cut, write, left>>
    PROVE  Inv'
<1> USE ReadsAssumption
<1>0. ~ request[c].live
  BY DEF Inv, OwnRequests
<1>1. CASE Joinable(PathOf[c]) # {}
  <2>1. PICK d \in Call : /\ request[d].shown
                          /\ PathOf[d] = PathOf[c]
                          /\ call' = [call EXCEPT ![c] = [next EXCEPT !.request = d]]
                          /\ UNCHANGED request
    BY <1>1 DEF Run, Joinable
  <2>2. request[d].live
    BY <2>1 DEF Inv, OnlyLiveShown
  <2>3. TypeOK'
    BY <2>1 DEF Inv, TypeOK, CallState
  <2>4. OwnRequests' /\ Served' /\ OnlyLiveShown'
    BY <1>0, <2>1, <2>2 DEF Inv, TypeOK, OwnRequests, Served, OnlyLiveShown
  <2>5. Wanted'
    BY <2>1 DEF Inv, TypeOK, Wanted
  <2>6. ToldIsCommitted' /\ ShownAreFresh' /\ LiveAreNotOvertaken'
    BY <2>1 DEF Inv, TypeOK, ToldIsCommitted, ShownAreFresh, LiveAreNotOvertaken
  <2>7. ReadersAreFresh'
    <3> SUFFICES ASSUME NEW x \in Call, call'[x].pc = "reading",
                        request'[call'[x].request].value # NotRead
                 PROVE  request'[call'[x].request].value >= call'[x].floor
      BY DEF ReadersAreFresh
    <3>1. CASE x = c
      BY <2>1, <3>1 DEF Inv, TypeOK, ShownAreFresh, NotRead
    <3>2. CASE x # c
      BY <2>1, <3>2 DEF Inv, TypeOK, ReadersAreFresh
    <3> QED BY <3>1, <3>2
  <2> QED BY <2>3, <2>4, <2>5, <2>6, <2>7 DEF Inv
<1>2. CASE Joinable(PathOf[c]) = {}
  <2>1. /\ call' = [call EXCEPT ![c] = [next EXCEPT !.request = c]]
        /\ request' = [request EXCEPT ![c] = [live |-> TRUE, shown |-> TRUE, value |-> NotRead]]
    BY <1>2 DEF Run
  <2>2. TypeOK'
    BY <2>1 DEF Inv, TypeOK, CallState, NotRead
  <2>3. \A x \in Call : x # c /\ call[x].pc = "reading" => call[x].request # c
    BY <1>0 DEF Inv, Served
  <2>4. OwnRequests' /\ Served' /\ OnlyLiveShown'
    BY <2>1, <2>3 DEF Inv, TypeOK, OwnRequests, Served, OnlyLiveShown
  <2>5. Wanted'
    BY <2>1 DEF Inv, TypeOK, Wanted
  <2>6. ToldIsCommitted' /\ ShownAreFresh' /\ LiveAreNotOvertaken' /\ ReadersAreFresh'
    BY <2>1, <2>3 DEF Inv, TypeOK, Served, ToldIsCommitted, ShownAreFresh, LiveAreNotOvertaken,
                     ReadersAreFresh
  <2> QED BY <2>2, <2>4, <2>5, <2>6 DEF Inv
<1> QED BY <1>1, <1>2

\* A call of sharedGetJSON asks for what its page was told of by then.
LEMMA ReadStep == ASSUME Inv, NEW c \in Call, Read(c) PROVE Inv'
<1> DEFINE next == Asking(session, 0, seen[PathOf[c]])
<1>1. /\ next \in [pc : {"reading"}, session : {session}, request : Call \union {NoCall},
                   write : Write \union {NoWrite}, recoveries : 0 .. MaxRecoveries, floor : Nat]
      /\ next.floor <= seen[PathOf[c]]
  BY PathTypes, ReadsAssumption DEF Asking
<1>2. Run(c, next) /\ call[c].pc = "idle" /\ UNCHANGED <<session, commits, seen, cut, write, left>>
  BY DEF Read
<1> HIDE DEF next
<1> QED
  BY <1>1, <1>2, RunKeepsInv

\* An interrupted caller still belongs to the session it asked in.
LEMMA ResumeStep == ASSUME Inv, NEW c \in Call, Resume(c) PROVE Inv'
<1> DEFINE next == Asking(call[c].session, call[c].recoveries, call[c].floor)
<1>1. /\ call[c].session = session
      /\ call[c].floor <= seen[PathOf[c]]
      /\ call[c].floor \in Nat
      /\ call[c].recoveries \in 0 .. MaxRecoveries
  BY DEF Inv, TypeOK, Resume, Served, ToldIsCommitted
<1>2. /\ next \in [pc : {"reading"}, session : {session}, request : Call \union {NoCall},
                   write : Write \union {NoWrite}, recoveries : 0 .. MaxRecoveries, floor : Nat]
      /\ next.floor <= seen[PathOf[c]]
  BY <1>1 DEF Asking
<1>3. Run(c, next) /\ call[c].pc = "recovering"
        /\ UNCHANGED <<session, commits, seen, cut, write, left>>
  BY DEF Resume
<1> HIDE DEF next
<1> QED
  BY <1>2, <1>3, RunKeepsInv

\* An answer has all that was committed when the server read it.
LEMMA ServerReadsStep == ASSUME Inv, NEW d \in Call, ServerReads(d) PROVE Inv'
<1> USE ReadsAssumption
<1>1. request' = [request EXCEPT ![d].value = commits]
  BY DEF ServerReads
<1>2. \A x \in Call : /\ request'[x].live = request[x].live
                      /\ request'[x].shown = request[x].shown
                      /\ request'[x].value = IF x = d THEN commits ELSE request[x].value
  BY <1>1 DEF Inv, TypeOK
<1>3. TypeOK'
  BY <1>1 DEF ServerReads, Inv, TypeOK
<1>4. OwnRequests' /\ Served' /\ Wanted' /\ OnlyLiveShown'
  BY <1>2 DEF ServerReads, Inv, OwnRequests, Served, Wanted, OnlyLiveShown
<1>5. ToldIsCommitted'
  BY DEF ServerReads, Inv, ToldIsCommitted
<1>6. ShownAreFresh' /\ LiveAreNotOvertaken'
  BY <1>2, PathTypes DEF ServerReads, Inv, ShownAreFresh, LiveAreNotOvertaken
<1>7. ReadersAreFresh'
  <2> SUFFICES ASSUME NEW c \in Call, call[c].pc = "reading",
                      request'[call[c].request].value # NotRead
               PROVE  request'[call[c].request].value >= call[c].floor
    BY DEF ReadersAreFresh, ServerReads
  <2>1. call[c].request \in Call
    BY DEF Inv, Served
  <2>2. call[c].floor \in Nat /\ call[c].floor <= commits
    <3>1. call[c].floor \in Nat /\ seen[PathOf[c]] \in Nat /\ commits \in Nat
      BY DEF Inv, TypeOK
    <3> QED BY <3>1 DEF Inv, ToldIsCommitted
  <2> QED BY <1>2, <2>1, <2>2 DEF Inv, ReadersAreFresh
<1> QED BY <1>3, <1>4, <1>5, <1>6, <1>7 DEF Inv

\* A request ends with all that wait for it.
LEMMA EndKeepsInv ==
    ASSUME Inv, NEW d \in Call, NEW pc \in {"done", "failed"},
           call' = [c \in Call |-> IF c \in Readers(d) THEN Resting(pc) ELSE call[c]],
           request' = [request EXCEPT ![d] = NoRequest],
           left' \in [Occasion -> Nat],
           UNCHANGED <<session, write, commits, seen, cut>>
    PROVE  Inv'
<1> USE ReadsAssumption
<1>1. \A x \in Call : request'[x] = IF x = d THEN NoRequest ELSE request[x]
  BY DEF Inv, TypeOK
<1>2. \A c \in Call : call'[c] = IF call[c].pc = "reading" /\ call[c].request = d
                               THEN Resting(pc) ELSE call[c]
  BY DEF Readers, Reading
<1>3. Resting(pc) \in [pc : CallState, session : Nat, request : Call \union {NoCall},
                      write : Write \union {NoWrite}, recoveries : 0 .. MaxRecoveries, floor : Nat]
  BY DEF Resting, CallState
<1>4. TypeOK'
  BY <1>3 DEF Inv, TypeOK, NoRequest, NotRead
<1>5. OwnRequests' /\ Served' /\ OnlyLiveShown'
  BY <1>1, <1>2 DEF Inv, OwnRequests, Served, OnlyLiveShown, Resting, NoRequest
<1>6. Wanted'
  <2> SUFFICES ASSUME NEW x \in Call, request'[x].live
               PROVE  \E c \in Call : call'[c].pc = "reading" /\ call'[c].request = x
    BY DEF Wanted
  <2>1. x # d /\ request[x].live
    BY <1>1 DEF NoRequest
  <2>2. PICK c \in Call : call[c].pc = "reading" /\ call[c].request = x
    BY <2>1 DEF Inv, Wanted
  <2> QED BY <1>2, <2>1, <2>2
<1>7. ToldIsCommitted'
  BY <1>2, PathTypes DEF Inv, ToldIsCommitted, Resting
<1>8. ShownAreFresh' /\ LiveAreNotOvertaken'
  BY <1>1 DEF Inv, ShownAreFresh, LiveAreNotOvertaken, NoRequest
<1>9. ReadersAreFresh'
  BY <1>1, <1>2 DEF Inv, ReadersAreFresh, Resting
<1> QED BY <1>4, <1>5, <1>6, <1>7, <1>8, <1>9 DEF Inv

\* An answer ends its request for all who wait for it.
LEMMA DeliverStep == ASSUME Inv, NEW d \in Call, Deliver(d) PROVE Inv'
  BY EndKeepsInv DEF Deliver, Inv, TypeOK

\* What an occasion leaves of the budget.
LEMMA SpendType == ASSUME TypeOK, NEW o \in Occasion, Spend(o) PROVE left' \in [Occasion -> Nat]
  BY DEF TypeOK, Spend

\* So does an error.
LEMMA ReadFailsStep == ASSUME Inv, NEW d \in Call, ReadFails(d) PROVE Inv'
  BY EndKeepsInv, SpendType DEF ReadFails, Inv, Occasion

\* A caller that cancels takes the request along only when it was the last one.
LEMMA AbortStep == ASSUME Inv, NEW c \in Call, Abort(c) PROVE Inv'
<1> USE ReadsAssumption
<1>1. /\ call' = [call EXCEPT ![c] = Resting("failed")]
      /\ request' = [d \in Call |-> IF Readers(d) = {c} THEN NoRequest ELSE request[d]]
      /\ UNCHANGED <<session, write, commits, seen, cut>>
  BY DEF Abort
<1>2. Resting("failed") \in [pc : CallState, session : Nat, request : Call \union {NoCall},
                            write : Write \union {NoWrite}, recoveries : 0 .. MaxRecoveries,
                            floor : Nat]
  BY DEF Resting, CallState
<1>3. TypeOK'
  <2>1. left' \in [Occasion -> Nat]
    BY SpendType DEF Abort, Inv, Occasion
  <2> QED BY <1>1, <1>2, <2>1 DEF Inv, TypeOK, NoRequest, NotRead
<1>4. \A x \in Call : call'[x] = IF x = c THEN Resting("failed") ELSE call[x]
  BY <1>1 DEF Inv, TypeOK
<1>5. \A d \in Call : request'[d] = request[d] \/ (request'[d] = NoRequest /\ Readers(d) = {c})
  BY <1>1
<1>6. \A x \in Call : call'[x].pc = "reading" =>
         /\ call[x] = call'[x]
         /\ call[x].request \in Call
         /\ request'[call[x].request] = request[call[x].request]
  <2> SUFFICES ASSUME NEW x \in Call, call'[x].pc = "reading"
               PROVE  /\ call[x] = call'[x]
                      /\ call[x].request \in Call
                      /\ request'[call[x].request] = request[call[x].request]
    OBVIOUS
  <2>1. x # c /\ call[x] = call'[x]
    BY <1>4 DEF Resting
  <2>2. call[x].request \in Call /\ x \in Readers(call[x].request)
    BY <2>1 DEF Inv, Served, Readers, Reading
  <2> QED BY <1>5, <2>1, <2>2
<1>7. OwnRequests'
  <2> SUFFICES ASSUME NEW d \in Call, request'[d].live
               PROVE  \/ call'[d].pc \in {"done", "failed"}
                      \/ call'[d].pc = "reading" /\ call'[d].request = d
    BY DEF OwnRequests
  <2>1. request[d].live
    BY <1>5 DEF NoRequest
  <2>2. CASE d = c
    BY <1>4, <2>2 DEF Resting
  <2>3. CASE d # c
    BY <1>4, <2>1, <2>3 DEF Inv, OwnRequests
  <2> QED BY <2>2, <2>3
<1>8. Served'
  <2>1. \A x \in Call : call'[x].pc \in {"reading", "recovering"} => call[x] = call'[x]
    BY <1>4 DEF Resting
  <2>2. ASSUME NEW x \in Call, call'[x].pc = "reading"
        PROVE  /\ call'[x].request \in Call
               /\ request'[call'[x].request].live
               /\ PathOf[call'[x].request] = PathOf[x]
    BY <1>6, <2>2 DEF Inv, Served
  <2>3. ASSUME NEW x \in Call, call'[x].pc \in {"reading", "recovering"}
        PROVE  call'[x].session = session'
    BY <1>1, <2>1, <2>3 DEF Inv, Served
  <2> QED BY <2>2, <2>3 DEF Served
<1>9. Wanted'
  <2> SUFFICES ASSUME NEW d \in Call, request'[d].live
               PROVE  \E x \in Call : call'[x].pc = "reading" /\ call'[x].request = d
    BY DEF Wanted
  <2>1. request[d].live /\ Readers(d) # {c}
    BY <1>1 DEF NoRequest
  <2>2. PICK x \in Readers(d) : x # c
    BY <2>1 DEF Inv, Wanted, Readers, Reading
  <2> QED BY <1>4, <2>2 DEF Readers, Reading
<1>10. ToldIsCommitted'
  BY <1>1, <1>4, PathTypes DEF Inv, ToldIsCommitted, Resting
<1>11. OnlyLiveShown' /\ ShownAreFresh' /\ LiveAreNotOvertaken'
  BY <1>1, <1>5 DEF Inv, OnlyLiveShown, ShownAreFresh, LiveAreNotOvertaken, NoRequest
<1>12. ReadersAreFresh'
  BY <1>6 DEF Inv, ReadersAreFresh
<1> QED BY <1>3, <1>7, <1>8, <1>9, <1>10, <1>11, <1>12 DEF Inv

\* The fences of a write, and what its page is told then: only of paths that
\* cannot be joined any more, and only overtaking requests that are stopped.
LEMMA FenceKeepsInv ==
    ASSUME Inv, NEW w \in Write, Fence(w),
           write' \in [Write -> [pc : WriteState, commit : Nat]],
           \A v \in Write : write'[v].commit = write[v].commit,
           seen' \in [Path -> Nat],
           cut' \in [Path -> Nat],
           \A p \in Path : /\ seen[p] <= seen'[p] /\ seen'[p] <= commits
                           /\ cut'[p] <= commits
                           /\ p \notin Forgotten[KindOf[w]] => seen'[p] = seen[p]
                           /\ p \notin Interrupted[KindOf[w]] => cut'[p] = cut[p],
           left' \in [Occasion -> Nat],
           UNCHANGED <<session, commits>>
    PROVE  Inv'
<1> USE ReadsAssumption
<1> DEFINE m == KindOf[w]
           Stopped(d) == request[d].live /\ PathOf[d] \in Interrupted[m]
<1>1. \A d \in Call :
        request'[d] = IF Stopped(d) THEN NoRequest
                      ELSE IF PathOf[d] \in Forgotten[m] THEN [request[d] EXCEPT !.shown = FALSE]
                      ELSE request[d]
  BY DEF Fence
<1>2. \A c \in Call :
        call'[c] = IF call[c].pc # "reading" \/ ~ Stopped(call[c].request) THEN call[c]
                   ELSE IF call[c].recoveries < MaxRecoveries
                   THEN Recovering(c, w)
                   ELSE Resting("failed")
  BY DEF Fence, Inv, Served, Reading
<1>3. DOMAIN call' = Call /\ call' = [c \in Call |-> call'[c]]
      /\ request' = [d \in Call |-> request'[d]]
  BY DEF Fence
<1>4. \A d \in Call : /\ request'[d] \in [live : BOOLEAN, shown : BOOLEAN, value : Nat \union {NotRead}]
                      /\ request'[d].live => request[d].live /\ ~ Stopped(d)
                                             /\ request'[d].value = request[d].value
                      /\ request'[d].shown => /\ request'[d].live
                                              /\ PathOf[d] \notin Forgotten[m]
                                              /\ request[d].shown
                      /\ ~ Stopped(d) => /\ request'[d].live = request[d].live
                                         /\ request'[d].value = request[d].value
  <2> TAKE d \in Call
  <2>1. request[d] \in [live : BOOLEAN, shown : BOOLEAN, value : Nat \union {NotRead}]
        /\ (request[d].shown => request[d].live)
    BY DEF Inv, TypeOK, OnlyLiveShown
  <2>2. CASE Stopped(d)
    <3>1. request'[d] = NoRequest
      BY <1>1, <2>2
    <3>2. NoRequest \in [live : BOOLEAN, shown : BOOLEAN, value : Nat \union {NotRead}]
          /\ ~ NoRequest.live /\ ~ NoRequest.shown
      BY DEF NoRequest, NotRead
    <3> QED BY <2>2, <3>1, <3>2
  <2>3. CASE ~ Stopped(d) /\ PathOf[d] \in Forgotten[m]
    <3>1. request'[d] = [request[d] EXCEPT !.shown = FALSE]
      BY <1>1, <2>3
    <3> QED BY <2>1, <2>3, <3>1
  <2>4. CASE ~ Stopped(d) /\ PathOf[d] \notin Forgotten[m]
    <3>1. request'[d] = request[d]
      BY <1>1, <2>4
    <3>2. request[d].live => ~ Stopped(d)
      BY <2>4
    <3> QED BY <2>1, <2>4, <3>1, <3>2
  <2> QED BY <2>2, <2>3, <2>4
<1>5. \A c \in Call : /\ call'[c] \in [pc : CallState, session : Nat, request : Call \union {NoCall},
                                       write : Write \union {NoWrite},
                                       recoveries : 0 .. MaxRecoveries, floor : Nat]
                      /\ call'[c].floor = call[c].floor \/ call'[c].floor = 0
                      /\ call'[c].pc = "reading" => call'[c] = call[c] /\ ~ Stopped(call[c].request)
                      /\ call'[c].pc = "recovering" =>
                            call[c].pc \in {"reading", "recovering"} /\ call'[c].session = call[c].session
                      /\ call[c].pc \in {"done", "failed"} => call'[c] = call[c]
  <2> TAKE c \in Call
  <2>1. /\ call[c].pc \in CallState /\ call[c].session \in Nat /\ call[c].floor \in Nat
        /\ call[c].recoveries \in 0 .. MaxRecoveries
        /\ call[c] \in [pc : CallState, session : Nat, request : Call \union {NoCall},
                        write : Write \union {NoWrite}, recoveries : 0 .. MaxRecoveries,
                        floor : Nat]
    BY DEF Inv, TypeOK
  <2>2. CASE call[c].pc # "reading" \/ ~ Stopped(call[c].request)
    BY <1>2, <2>1, <2>2
  <2>3. CASE /\ ~ (call[c].pc # "reading" \/ ~ Stopped(call[c].request))
             /\ call[c].recoveries < MaxRecoveries
    <3>1. call'[c] = Recovering(c, w)
      BY <1>2, <2>3
    <3>2. call[c].recoveries + 1 \in 0 .. MaxRecoveries
      BY <2>1, <2>3
    <3> QED BY <2>1, <2>3, <3>1, <3>2 DEF Recovering, CallState
  <2>4. CASE /\ ~ (call[c].pc # "reading" \/ ~ Stopped(call[c].request))
             /\ ~ (call[c].recoveries < MaxRecoveries)
    <3>1. call'[c] = Resting("failed")
      BY <1>2, <2>4
    <3> QED BY <2>1, <2>4, <3>1 DEF Resting, CallState
  <2> QED BY <2>2, <2>3, <2>4
<1> HIDE DEF Stopped
<1>6. TypeOK'
  BY <1>3, <1>4, <1>5 DEF Inv, TypeOK
<1>7. OwnRequests'
  <2> SUFFICES ASSUME NEW d \in Call, request'[d].live
               PROVE  \/ call'[d].pc \in {"done", "failed"}
                      \/ call'[d].pc = "reading" /\ call'[d].request = d
    BY DEF OwnRequests
  <2>1. request[d].live /\ ~ Stopped(d)
    BY <1>4
  <2>2. CASE call[d].pc \in {"done", "failed"}
    BY <1>5, <2>2
  <2>3. CASE call[d].pc = "reading" /\ call[d].request = d
    BY <1>2, <2>1, <2>3
  <2> QED BY <2>1, <2>2, <2>3 DEF Inv, OwnRequests
<1>8. Served'
  <2>1. ASSUME NEW c \in Call, call'[c].pc = "reading"
        PROVE  /\ call'[c].request \in Call
               /\ request'[call'[c].request].live
               /\ PathOf[call'[c].request] = PathOf[c]
    <3>1. call'[c] = call[c] /\ ~ Stopped(call[c].request)
      BY <1>5, <2>1
    <3>2. /\ call[c].request \in Call
          /\ request[call[c].request].live
          /\ PathOf[call[c].request] = PathOf[c]
      BY <2>1, <3>1 DEF Inv, Served
    <3> QED BY <1>4, <3>1, <3>2
  <2>2. ASSUME NEW c \in Call, call'[c].pc \in {"reading", "recovering"}
        PROVE  call'[c].session = session'
    BY <1>5, <2>2 DEF Inv, Served
  <2> QED BY <2>1, <2>2 DEF Served
<1>9. Wanted'
  <2> SUFFICES ASSUME NEW d \in Call, request'[d].live
               PROVE  \E c \in Call : call'[c].pc = "reading" /\ call'[c].request = d
    BY DEF Wanted
  <2>1. request[d].live /\ ~ Stopped(d)
    BY <1>4
  <2>2. PICK c \in Call : call[c].pc = "reading" /\ call[c].request = d
    BY <2>1 DEF Inv, Wanted
  <2> QED BY <1>2, <2>1, <2>2
<1>10. ToldIsCommitted'
  <2>1. \A c \in Call : call'[c].floor <= seen'[PathOf[c]]
    <3> SUFFICES ASSUME NEW c \in Call PROVE call'[c].floor <= seen'[PathOf[c]]
      OBVIOUS
    <3>1. /\ seen[PathOf[c]] <= seen'[PathOf[c]]
          /\ seen'[PathOf[c]] \in Nat
          /\ seen[PathOf[c]] \in Nat
          /\ call[c].floor <= seen[PathOf[c]]
          /\ call[c].floor \in Nat
      BY PathTypes DEF Inv, TypeOK, ToldIsCommitted
    <3> QED BY <1>5, <3>1
  <2> QED BY <2>1 DEF Inv, ToldIsCommitted
<1>11. OnlyLiveShown' /\ ShownAreFresh'
  BY <1>4, PathTypes DEF Inv, OnlyLiveShown, ShownAreFresh
<1>12. LiveAreNotOvertaken'
  <2> SUFFICES ASSUME NEW d \in Call, request'[d].live, request'[d].value # NotRead
               PROVE  request'[d].value >= cut'[PathOf[d]]
    BY DEF LiveAreNotOvertaken
  <2>1. request[d].live /\ ~ Stopped(d) /\ request'[d].value = request[d].value
    BY <1>4
  <2>2. cut'[PathOf[d]] = cut[PathOf[d]]
    BY <2>1, PathTypes DEF Stopped
  <2> QED BY <2>1, <2>2 DEF Inv, LiveAreNotOvertaken
<1>13. ReadersAreFresh'
  BY <1>4, <1>5 DEF Inv, Served, ReadersAreFresh
<1> QED BY <1>6, <1>7, <1>8, <1>9, <1>10, <1>11, <1>12, <1>13 DEF Inv

\* A write that starts tells its page nothing.
LEMMA StartWriteStep == ASSUME Inv, NEW w \in Write, StartWrite(w) PROVE Inv'
<1>1. write' \in [Write -> [pc : WriteState, commit : Nat]]
      /\ \A v \in Write : write'[v].commit = write[v].commit
  BY DEF StartWrite, Inv, TypeOK, WriteState
<1>2. \A p \in Path : seen[p] <= seen[p]
  BY DEF Inv, TypeOK
<1> QED BY <1>1, <1>2, FenceKeepsInv DEF StartWrite, Inv, TypeOK, ToldIsCommitted

\* Nor does one whose answer is lost.
LEMMA LoseWriteStep == ASSUME Inv, NEW w \in Write, LoseWrite(w) PROVE Inv'
<1>1. write' \in [Write -> [pc : WriteState, commit : Nat]]
      /\ \A v \in Write : write'[v].commit = write[v].commit
  BY DEF LoseWrite, Inv, TypeOK, WriteState
<1>2. \A p \in Path : seen[p] <= seen[p]
  BY DEF Inv, TypeOK
<1>3. left' \in [Occasion -> Nat]
  BY SpendType DEF LoseWrite, Inv, Occasion
<1> QED BY <1>1, <1>2, <1>3, FenceKeepsInv DEF LoseWrite, Inv, TypeOK, ToldIsCommitted

\* A write that is answered tells its page, after the second fence.
LEMMA SettleStep == ASSUME Inv, NEW w \in Write, Settle(w) PROVE Inv'
<1> USE ReadsAssumption
<1>1. write' \in [Write -> [pc : WriteState, commit : Nat]]
      /\ \A v \in Write : write'[v].commit = write[v].commit
  BY DEF Settle, Inv, TypeOK, WriteState
<1> DEFINE m == KindOf[w]
<1>2. write[w].commit \in Nat /\ write[w].commit <= commits /\ commits \in Nat
  BY DEF Inv, TypeOK, ToldIsCommitted
<1>3. \A p \in Path : /\ seen[p] \in Nat /\ cut[p] \in Nat
                      /\ seen[p] <= commits /\ cut[p] <= commits
  BY DEF Inv, TypeOK, ToldIsCommitted
<1>4. Changes[m] \subseteq Forgotten[m] /\ KindOf[w] \in Mutation
  OBVIOUS
<1>5. seen' \in [Path -> Nat] /\ cut' \in [Path -> Nat]
  BY <1>2, <1>3 DEF Settle
<1>6. \A p \in Path : /\ seen[p] <= seen'[p] /\ seen'[p] <= commits
                      /\ cut'[p] <= commits
                      /\ p \notin Forgotten[m] => seen'[p] = seen[p]
                      /\ p \notin Interrupted[m] => cut'[p] = cut[p]
  BY <1>2, <1>3, <1>4 DEF Settle
<1> QED BY <1>1, <1>5, <1>6, FenceKeepsInv DEF Settle, Inv, TypeOK

\* The server's commit is news to nobody yet.
LEMMA CommitStep == ASSUME Inv, NEW w \in Write, Commit(w) PROVE Inv'
<1> USE ReadsAssumption
<1>1. commits \in Nat /\ commits' = commits + 1
  BY DEF Commit, Inv, TypeOK
<1>2. write' = [write EXCEPT ![w].commit = commits + 1]
      /\ UNCHANGED <<session, call, request, seen, cut, left>>
  BY DEF Commit
<1>3. TypeOK'
  BY <1>1, <1>2 DEF Inv, TypeOK
<1>4. ToldIsCommitted'
  <2>1. \A p \in Path : seen[p] <= commits + 1 /\ cut[p] <= commits + 1
    BY <1>1 DEF Inv, TypeOK, ToldIsCommitted
  <2>2. \A v \in Write : write'[v].commit <= commits + 1
    BY <1>1, <1>2 DEF Inv, TypeOK, ToldIsCommitted
  <2> QED BY <1>1, <1>2, <2>1, <2>2 DEF Inv, ToldIsCommitted
<1>5. /\ OwnRequests' /\ Served' /\ Wanted' /\ OnlyLiveShown'
      /\ ShownAreFresh' /\ ReadersAreFresh' /\ LiveAreNotOvertaken'
  BY <1>2 DEF Inv, OwnRequests, Served, Wanted, OnlyLiveShown, ShownAreFresh, ReadersAreFresh,
              LiveAreNotOvertaken
<1> QED BY <1>3, <1>4, <1>5 DEF Inv

\* A new session starts without reads.
LEMMA ChangeSessionStep == ASSUME Inv, ChangeSession PROVE Inv'
<1> USE ReadsAssumption
<1>1. /\ session \in Nat /\ session' = session + 1
      /\ UNCHANGED <<commits, seen, cut>>
  BY DEF ChangeSession, Inv, TypeOK
<1>2. \A c \in Call : call'[c] = IF call[c].pc \in {"reading", "recovering"}
                                 THEN Resting("failed") ELSE call[c]
  BY DEF ChangeSession
<1>3. request' = [d \in Call |-> NoRequest]
  BY DEF ChangeSession
<1>4. Resting("failed") \in [pc : CallState, session : Nat, request : Call \union {NoCall},
                            write : Write \union {NoWrite}, recoveries : 0 .. MaxRecoveries,
                            floor : Nat]
  BY DEF Resting, CallState
<1>5. \A w \in Write : write'[w] \in [pc : WriteState, commit : Nat]
                       /\ write'[w].commit = write[w].commit
  BY DEF ChangeSession, Inv, TypeOK, WriteState
<1>6. TypeOK'
  <2>1. left' \in [Occasion -> Nat]
    BY SpendType DEF ChangeSession, Inv, Occasion
  <2>2. call' \in [Call -> [pc : CallState, session : Nat, request : Call \union {NoCall},
                            write : Write \union {NoWrite}, recoveries : 0 .. MaxRecoveries,
                            floor : Nat]]
    BY <1>4 DEF ChangeSession, Inv, TypeOK
  <2>3. write' \in [Write -> [pc : WriteState, commit : Nat]]
    BY <1>5 DEF ChangeSession
  <2> QED BY <1>1, <1>3, <2>1, <2>2, <2>3 DEF Inv, TypeOK, NoRequest, NotRead
<1>7. OwnRequests' /\ Served' /\ Wanted' /\ OnlyLiveShown'
  <2>1. \A c \in Call : call'[c].pc \notin {"reading", "recovering"}
    BY <1>2 DEF Resting
  <2>2. \A d \in Call : ~ request'[d].live /\ ~ request'[d].shown
    BY <1>3 DEF NoRequest
  <2> QED BY <2>1, <2>2 DEF OwnRequests, Served, Wanted, OnlyLiveShown
<1>8. ToldIsCommitted'
  BY <1>1, <1>2, <1>5, PathTypes DEF Inv, ToldIsCommitted, Resting
<1>9. ShownAreFresh' /\ ReadersAreFresh' /\ LiveAreNotOvertaken'
  BY <1>2, <1>3 DEF ShownAreFresh, ReadersAreFresh, LiveAreNotOvertaken, NoRequest, Resting
<1> QED BY <1>6, <1>7, <1>8, <1>9 DEF Inv

-----------------------------------------------------------------------------
\* Every step of a call, a request, a write or the session keeps the invariant.
THEOREM Inductive == Inv /\ [Next]_vars => Inv'
<1> SUFFICES ASSUME Inv, [Next]_vars PROVE Inv'
  OBVIOUS
<1>1. ASSUME NEW c \in Call, Read(c) \/ Resume(c) \/ Abort(c) PROVE Inv'
  BY <1>1, ReadStep, ResumeStep, AbortStep
<1>2. ASSUME NEW d \in Call, ServerReads(d) \/ Deliver(d) \/ ReadFails(d) PROVE Inv'
  BY <1>2, ServerReadsStep, DeliverStep, ReadFailsStep
<1>3. ASSUME NEW w \in Write, StartWrite(w) \/ Commit(w) \/ Settle(w) \/ LoseWrite(w) PROVE Inv'
  BY <1>3, StartWriteStep, CommitStep, SettleStep, LoseWriteStep
<1>4. CASE ChangeSession
  BY <1>4, ChangeSessionStep
<1>5. CASE UNCHANGED vars
  BY <1>5 DEF vars, Inv, TypeOK, OwnRequests, Served, Wanted, OnlyLiveShown, ToldIsCommitted,
              ShownAreFresh, ReadersAreFresh, LiveAreNotOvertaken
<1> QED
  BY <1>1, <1>2, <1>3, <1>4, <1>5 DEF Next

\* The invariant holds in every state of the client.
LEMMA Invariance == Spec => []Inv
  BY Initially, Inductive, PTL DEF Spec

\* Every variable keeps its type.
THEOREM TypeCorrect == Spec => []TypeOK
<1>1. Inv => TypeOK
  BY DEF Inv
<1> QED BY <1>1, Invariance, PTL

\* Whoever waits has a request on its way, whoever else cancels, writes or
\* fails, and nobody is left waiting in an old session.
THEOREM ReadersAlwaysServed == Spec => []ReadersHaveRequests
<1>1. Inv => ReadersHaveRequests
  BY DEF Inv, Served, Wanted, ReadersHaveRequests, Reading, Readers
<1> QED BY <1>1, Invariance, PTL

\* Only Deliver answers a call, and it answers from the call's own request.
LEMMA AnsweredHasValue ==
    ASSUME Inv, [Next]_vars, NEW c \in Call, Answered(c)
    PROVE  /\ call[c].request \in Call
           /\ request[call[c].request].live
           /\ request[call[c].request].value # NotRead
<1>1. call[c].request \in Call /\ request[call[c].request].live
  BY DEF Inv, Served, Answered
<1>2. \E d \in Call : Deliver(d)
  <2>1. ASSUME NEW x \in Call, Read(x) \/ Resume(x) PROVE FALSE
    <3>1. x # c
      BY <2>1 DEF Read, Resume, Answered
    <3>2. call'[c] = call[c]
      BY <2>1, <3>1 DEF Read, Resume, Run, Inv, TypeOK
    <3> QED BY <3>2 DEF Answered
  <2>2. ASSUME NEW x \in Call, Abort(x) PROVE FALSE
    BY <2>2 DEF Abort, Inv, TypeOK, Answered, Resting
  <2>3. ASSUME NEW x \in Call, ServerReads(x) \/ ReadFails(x) PROVE FALSE
    BY <2>3 DEF ServerReads, ReadFails, Answered, Resting
  <2>4. ASSUME NEW w \in Write, StartWrite(w) \/ Commit(w) \/ Settle(w) \/ LoseWrite(w) PROVE FALSE
    <3>1. CASE Fence(w)
      <4>1. \/ call'[c] = call[c]
            \/ call'[c] = Resting("failed")
            \/ call'[c] = Recovering(c, w)
        BY <3>1 DEF Fence
      <4> QED BY <4>1 DEF Answered, Resting, Recovering
    <3>2. CASE call' = call
      BY <3>2 DEF Answered
    <3> QED BY <2>4, <3>1, <3>2 DEF StartWrite, Commit, Settle, LoseWrite
  <2>5. CASE ChangeSession
    BY <2>5 DEF ChangeSession, Answered, Resting
  <2>6. CASE UNCHANGED vars
    BY <2>6 DEF vars, Answered
  <2> QED BY <2>1, <2>2, <2>3, <2>4, <2>5, <2>6 DEF Next
<1>3. PICK d \in Call : Deliver(d)
  BY <1>2
<1>4. call[c].request = d
  BY <1>3 DEF Deliver, Readers, Answered
<1> QED BY <1>1, <1>3, <1>4 DEF Deliver

\* Whoever asks after a write was answered gets an answer that has the write.
THEOREM ReadersSeeWrites == Spec => ReadYourWrites
<1>1. Inv /\ [Next]_vars => [\A c \in Call : Answered(c) => Fresh(c)]_vars
  BY AnsweredHasValue DEF Inv, ReadersAreFresh, Answered, Fresh
<1> QED BY <1>1, Invariance, PTL DEF Spec, ReadYourWrites

\* An answer that a directory change overtook is shown to nobody.
THEOREM OvertakenAnswersAreDropped == Spec => NoOvertakenAnswer
<1>1. Inv /\ [Next]_vars => [\A c \in Call : Answered(c) => NotOvertaken(c)]_vars
  BY AnsweredHasValue DEF Inv, Served, LiveAreNotOvertaken, Answered, NotOvertaken
<1> QED BY <1>1, Invariance, PTL DEF Spec, NoOvertakenAnswer
=============================================================================
