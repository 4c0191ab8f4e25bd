---------------------------- MODULE SharedReads ----------------------------
(***************************************************************************)
(* The shared reads of the web client: callers that ask for one path at    *)
(* the same time share one request (inflightRequests.ts), and the writes   *)
(* of the same page keep later callers away from requests that started     *)
(* before the write was over (apiTransport.ts, apiRequestResources.ts,     *)
(* apiSession.ts).                                                         *)
(*                                                                         *)
(* JavaScript runs one task at a time, so each step of a call, a request   *)
(* or a write is atomic; the server and the network act in between.  A     *)
(* call is one call of sharedGetJSON.  A request carries the name of the   *)
(* call that started it: no call has two requests on their way.            *)
(*                                                                         *)
(* Left out: the demo language header and the server address, which are    *)
(* part of a request's key and change only with the page's settings, and   *)
(* reads that are not shared.                                              *)
(***************************************************************************)
EXTENDS Integers

CONSTANTS
    WorkId,         \* works with a page
    Path,           \* what is read: see ReadPath
    Mutation,       \* what is written: see MutationPath
    Changes,        \* the paths whose answer a mutation changes on the server
    Call,           \* calls of sharedGetJSON
    Write,          \* calls that write
    PathOf,         \* what each call reads
    KindOf,         \* what each write changes
    NoCall,
    NoWrite,
    MaxRecoveries,  \* how often an interrupted call reads again: 2
    Budgets         \* how often each bounded event occurs: one is drawn at the start

Occasion == {"abort", "fail", "session"}

-----------------------------------------------------------------------------
(* Resources (apiRequestResources.ts). *)

Of(kind, work) == [kind |-> kind, work |-> work]
NoWork == 0

ReadPath == {Of("work", w) : w \in WorkId} \union {Of("runtime-settings", NoWork), Of("tags", NoWork)}

MutationPath ==
    {Of(kind, w) : kind \in {"local-files", "user-state", "work-tags", "work-metadata"}, w \in WorkId}
      \union {Of(kind, NoWork) : kind \in {"progress", "recommendation", "user-tags", "preferences", "other"}}

\* apiReadResources
ReadResources(p) ==
    CASE p.kind = "work" -> {Of("works", NoWork), Of("work", p.work), Of("work-state", NoWork)}
      [] p.kind = "tags" -> {Of("user-tags", NoWork)}
      [] OTHER -> {Of("runtime-settings", NoWork)}

\* apiMutationResources: what a mutation touches, and the paths whose requests
\* it keeps later callers from joining.
Scope(m) ==
    CASE m.kind = "progress" -> {Of("work-state", NoWork)}
      [] m.kind \in {"local-files", "work-metadata"} -> {Of("works", NoWork)}
      [] m.kind = "user-state" -> {Of("work", m.work)}
      [] m.kind = "work-tags" -> {Of("work", m.work), Of("user-tags", NoWork)}
      [] m.kind = "user-tags" -> {Of("user-tags", NoWork), Of("works", NoWork)}
      [] m.kind = "preferences" ->
            {Of("works", NoWork), Of("runtime-settings", NoWork), Of("user-tags", NoWork)}
      [] OTHER -> {}

Forgotten ==
    [m \in Mutation |->
       {p \in Path : m.kind = "other" \/ ReadResources(p) \cap Scope(m) # {}}]

\* The paths whose requests a mutation stops, to be read again after it.
Interrupted ==
    [m \in Mutation |->
       {p \in Path : m.kind = "local-files" /\ Of("work", m.work) \in ReadResources(p)}]

\* A mutation changes no answer but those its resources name.
ASSUME ReadsAssumption ==
    /\ Path \subseteq ReadPath
    /\ Mutation \subseteq MutationPath
    /\ Changes \in [Mutation -> SUBSET Path]
    /\ \A m \in Mutation : Changes[m] \subseteq Forgotten[m]
    /\ PathOf \in [Call -> Path]
    /\ KindOf \in [Write -> Mutation]
    /\ MaxRecoveries \in Nat
    /\ NoCall \notin Call
    /\ NoWrite \notin Write
    /\ Budgets \subseteq [Occasion -> Nat]

VARIABLES
    session,        \* apiSessionVersion
    call,           \* the state of every call
    request,        \* the shared request each call started
    write,          \* the state of every write
    commits,        \* how many writes the server has committed
    seen,           \* for each path, the last commit its page was told of
    cut,            \* the last such commit of a write that interrupts
    left            \* what is left of the budget

vars == <<session, call, request, write, commits, seen, cut, left>>

NotRead == -1

NoRequest == [live |-> FALSE, shown |-> FALSE, value |-> NotRead]

\* A call that waits for nothing: not yet made, answered or failed.
Resting(pc) == [pc |-> pc, session |-> 0, request |-> NoCall, write |-> NoWrite,
                recoveries |-> 0, floor |-> 0]

\* A call that asks: how often it was interrupted, and what it must at least see.
Asking(version, recoveries, floor) ==
    [pc |-> "reading", session |-> version, request |-> NoCall, write |-> NoWrite,
     recoveries |-> recoveries, floor |-> floor]

\* An interrupted call, until the write that interrupted it is over.
Recovering(c, w) ==
    [pc |-> "recovering", session |-> call[c].session, request |-> NoCall, write |-> w,
     recoveries |-> call[c].recoveries + 1, floor |-> call[c].floor]

Init ==
    /\ session = 0
    /\ call = [c \in Call |-> Resting("idle")]
    /\ request = [c \in Call |-> NoRequest]
    /\ write = [w \in Write |-> [pc |-> "idle", commit |-> 0]]
    /\ commits = 0
    /\ seen = [p \in Path |-> 0]
    /\ cut = [p \in Path |-> 0]
    /\ left \in Budgets

Spend(o) ==
    /\ left[o] > 0
    /\ left' = [left EXCEPT ![o] = @ - 1]

Reading == {c \in Call : call[c].pc = "reading"}

Readers(d) == {c \in Reading : call[c].request = d}

\* Requests a new caller of a path joins: the entries of the map.
Joinable(p) == {d \in Call : request[d].shown /\ PathOf[d] = p}

-----------------------------------------------------------------------------
(* Reads. *)

\* run: join the request of the path, or start one.
Run(c, next) ==
    IF Joinable(PathOf[c]) # {}
    THEN /\ \E d \in Joinable(PathOf[c]) : call' = [call EXCEPT ![c] = [next EXCEPT !.request = d]]
         /\ UNCHANGED request
    ELSE /\ call' = [call EXCEPT ![c] = [next EXCEPT !.request = c]]
         /\ request' = [request EXCEPT ![c] = [live |-> TRUE, shown |-> TRUE, value |-> NotRead]]

\* sharedGetJSON
Read(c) ==
    /\ call[c].pc = "idle"
    /\ Run(c, Asking(session, 0, seen[PathOf[c]]))
    /\ UNCHANGED <<session, write, commits, seen, cut, left>>

\* Mutant: a write that got no answer leaves its readers waiting.
ResumeSettled(c) ==
    /\ call[c].pc = "recovering"
    /\ write[call[c].write].pc = "settled"
    /\ Run(c, Asking(call[c].session, call[c].recoveries, call[c].floor))
    /\ UNCHANGED <<session, write, commits, seen, cut, left>>

\* The write a caller waits for is over: retryInvalidatedRequest reads again.
Resume(c) ==
    /\ call[c].pc = "recovering"
    /\ write[call[c].write].pc \in {"settled", "lost"}
    /\ Run(c, Asking(call[c].session, call[c].recoveries, call[c].floor))
    /\ UNCHANGED <<session, write, commits, seen, cut, left>>

ServerReads(d) ==
    /\ request[d].live
    /\ request[d].value = NotRead
    /\ request' = [request EXCEPT ![d].value = commits]
    /\ UNCHANGED <<session, call, write, commits, seen, cut, left>>

\* The answer reaches every caller, and the request is forgotten.
Deliver(d) ==
    /\ request[d].live
    /\ request[d].value # NotRead
    /\ call' = [c \in Call |->
                  IF c \in Readers(d) THEN Resting("done") ELSE call[c]]
    /\ request' = [request EXCEPT ![d] = NoRequest]
    /\ UNCHANGED <<session, write, commits, seen, cut, left>>

\* The request fails, for every caller.
ReadFails(d) ==
    /\ request[d].live
    /\ Spend("fail")
    /\ call' = [c \in Call |->
                  IF c \in Readers(d) THEN Resting("failed") ELSE call[c]]
    /\ request' = [request EXCEPT ![d] = NoRequest]
    /\ UNCHANGED <<session, write, commits, seen, cut>>

\* Mutant: whoever started the request stops it for everyone.
AbortForAll(c) ==
    /\ call[c].pc \in {"reading", "recovering"}
    /\ Spend("abort")
    /\ call' = [call EXCEPT ![c] = Resting("failed")]
    /\ request' = [d \in Call |-> IF d = call[c].request THEN NoRequest ELSE request[d]]
    /\ UNCHANGED <<session, write, commits, seen, cut>>

\* A caller cancels; the request is stopped when nobody is left.
Abort(c) ==
    /\ call[c].pc \in {"reading", "recovering"}
    /\ Spend("abort")
    /\ call' = [call EXCEPT ![c] = Resting("failed")]
    /\ request' = [d \in Call |-> IF Readers(d) = {c} THEN NoRequest ELSE request[d]]
    /\ UNCHANGED <<session, write, commits, seen, cut>>

-----------------------------------------------------------------------------
(* Writes. *)

\* Mutant: an interrupted call reads again once too often.
FenceOnceMore(w) ==
    LET m == KindOf[w]
        stopped == {d \in Call : request[d].live /\ PathOf[d] \in Interrupted[m]}
    IN /\ request' = [d \in Call |->
             IF d \in stopped THEN NoRequest
             ELSE IF PathOf[d] \in Forgotten[m] THEN [request[d] EXCEPT !.shown = FALSE]
             ELSE request[d]]
       /\ call' = [c \in Call |->
             IF c \notin Reading \/ call[c].request \notin stopped THEN call[c]
             ELSE IF call[c].recoveries <= MaxRecoveries
             THEN Recovering(c, w)
             ELSE Resting("failed")]

\* Mutant: only requests that can still be joined are interrupted.
FenceJoinable(w) ==
    LET m == KindOf[w]
        stopped == {d \in Call : request[d].shown /\ PathOf[d] \in Interrupted[m]}
    IN /\ request' = [d \in Call |->
             IF d \in stopped THEN NoRequest
             ELSE IF PathOf[d] \in Forgotten[m] THEN [request[d] EXCEPT !.shown = FALSE]
             ELSE request[d]]
       /\ call' = [c \in Call |->
             IF c \notin Reading \/ call[c].request \notin stopped THEN call[c]
             ELSE IF call[c].recoveries < MaxRecoveries
             THEN Recovering(c, w)
             ELSE Resting("failed")]

\* invalidateResources of a write: what it forgets nobody joins any more, and
\* what it interrupts is read again after the write.
Fence(w) ==
    LET m == KindOf[w]
        stopped == {d \in Call : request[d].live /\ PathOf[d] \in Interrupted[m]}
    IN /\ request' = [d \in Call |->
             IF d \in stopped THEN NoRequest
             ELSE IF PathOf[d] \in Forgotten[m] THEN [request[d] EXCEPT !.shown = FALSE]
             ELSE request[d]]
       /\ call' = [c \in Call |->
             IF c \notin Reading \/ call[c].request \notin stopped THEN call[c]
             ELSE IF call[c].recoveries < MaxRecoveries
             THEN Recovering(c, w)
             ELSE Resting("failed")]

\* fetchAPI of a write
StartWrite(w) ==
    /\ write[w].pc = "idle"
    /\ write' = [write EXCEPT ![w].pc = "sent"]
    /\ Fence(w)
    /\ UNCHANGED <<session, commits, seen, cut, left>>

\* The server commits it, also when nobody waits for the answer any more.
Commit(w) ==
    /\ write[w].pc \in {"sent", "lost"}
    /\ write[w].commit = 0
    /\ commits' = commits + 1
    /\ write' = [write EXCEPT ![w].commit = commits + 1]
    /\ UNCHANGED <<session, call, request, seen, cut, left>>

\* Mutant: only the start of a write keeps later callers away.
SettleUnfenced(w) ==
    /\ write[w].pc = "sent"
    /\ write' = [write EXCEPT ![w].pc = "settled"]
    /\ LET m == KindOf[w]
           Later(old) == IF write[w].commit > old THEN write[w].commit ELSE old
       IN /\ seen' = [p \in Path |-> IF p \in Changes[m] THEN Later(seen[p]) ELSE seen[p]]
          /\ cut' = [p \in Path |-> IF p \in Changes[m] \cap Interrupted[m]
                                    THEN Later(cut[p]) ELSE cut[p]]
    /\ UNCHANGED <<session, call, request, commits, left>>

\* complete: the body of the answer is read, whether the server has committed
\* the write or refused it.
Settle(w) ==
    /\ write[w].pc = "sent"
    /\ write' = [write EXCEPT ![w].pc = "settled"]
    /\ Fence(w)
    /\ LET m == KindOf[w]
           Later(old) == IF write[w].commit > old THEN write[w].commit ELSE old
       IN /\ seen' = [p \in Path |-> IF p \in Changes[m] THEN Later(seen[p]) ELSE seen[p]]
          /\ cut' = [p \in Path |-> IF p \in Changes[m] \cap Interrupted[m]
                                    THEN Later(cut[p]) ELSE cut[p]]
    /\ UNCHANGED <<session, commits, left>>

\* complete: no answer comes; the server may have the write, or get it later.
LoseWrite(w) ==
    /\ write[w].pc = "sent"
    /\ Spend("fail")
    /\ write' = [write EXCEPT ![w].pc = "lost"]
    /\ Fence(w)
    /\ UNCHANGED <<session, commits, seen, cut>>

-----------------------------------------------------------------------------
\* changeApiSession: every read of the old session is rejected, its writes are
\* aborted and fence nothing any more.
ChangeSession ==
    /\ Spend("session")
    /\ session' = session + 1
    /\ call' = [c \in Call |->
                  IF call[c].pc \in {"reading", "recovering"}
                  THEN Resting("failed") ELSE call[c]]
    /\ request' = [d \in Call |-> NoRequest]
    /\ write' = [w \in Write |->
                   IF write[w].pc = "sent" THEN [write[w] EXCEPT !.pc = "lost"] ELSE write[w]]
    /\ UNCHANGED <<commits, seen, cut>>

Next ==
    \/ \E c \in Call : Read(c) \/ Resume(c) \/ Abort(c)
    \/ \E d \in Call : ServerReads(d) \/ Deliver(d) \/ ReadFails(d)
    \/ \E w \in Write : StartWrite(w) \/ Commit(w) \/ Settle(w) \/ LoseWrite(w)
    \/ ChangeSession

Spec == Init /\ [][Next]_vars

\* The server answers what reaches it, one after the other, and waiting callers
\* go on: a call is made once, so that is enough for each of them.
FairSpec ==
    /\ Spec
    /\ WF_vars(\E d \in Call : ServerReads(d) \/ Deliver(d))
    /\ WF_vars(\E c \in Call : Resume(c))
    /\ WF_vars(\E w \in Write : Settle(w))

-----------------------------------------------------------------------------
CallState == {"idle", "reading", "recovering", "done", "failed"}
WriteState == {"idle", "sent", "settled", "lost"}

\* The type of every variable.
TypeOK ==
    /\ session \in Nat
    /\ call \in [Call -> [pc : CallState, session : Nat, request : Call \union {NoCall},
                          write : Write \union {NoWrite}, recoveries : 0 .. MaxRecoveries,
                          floor : Nat]]
    /\ request \in [Call -> [live : BOOLEAN, shown : BOOLEAN, value : Nat \union {NotRead}]]
    /\ write \in [Write -> [pc : WriteState, commit : Nat]]
    /\ commits \in Nat
    /\ seen \in [Path -> Nat]
    /\ cut \in [Path -> Nat]
    /\ left \in [Occasion -> Nat]

\* Whoever asks after a write of the page was answered gets an answer that has
\* the write, although requests are shared; and an answer that a directory
\* change overtook is not shown to anyone, whenever they asked.
Fresh(c) == request[call[c].request].value >= call[c].floor
NotOvertaken(c) == request[call[c].request].value >= cut[PathOf[c]]
Answered(c) == call[c].pc = "reading" /\ call'[c].pc = "done"

ReadYourWrites == [][\A c \in Call : Answered(c) => Fresh(c)]_vars
NoOvertakenAnswer == [][\A c \in Call : Answered(c) => NotOvertaken(c)]_vars

\* The request a caller waits for is on its way for the caller's path, whoever
\* else cancels, writes or fails; no caller of an old session is left waiting; a
\* request nobody waits for is stopped.
ReadersHaveRequests ==
    /\ \A c \in Reading :
          LET d == call[c].request
          IN /\ d \in Call
             /\ request[d].live
             /\ PathOf[d] = PathOf[c]
             /\ call[c].session = session
    /\ \A d \in Call : request[d].live => Readers(d) # {}

\* Every caller gets an answer or an error, also when a write interrupts it.
EveryReadSettles ==
    \A c \in Call : call[c].pc \in {"reading", "recovering"} ~> call[c].pc \in {"done", "failed"}
=============================================================================
