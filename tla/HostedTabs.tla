----------------------------- MODULE HostedTabs -----------------------------
(***************************************************************************)
(* The tabs of the hosted web app and the runtime they share               *)
(* (gui/hosted/src/runtime/browser-runtime-coordinator.js): one tab holds  *)
(* a Web Lock and runs the WebContainer, the others forward their reads to *)
(* it over a BroadcastChannel, and take the lock over before they change   *)
(* anything.  The runtime itself is HostedRuntime: here it boots, answers, *)
(* and rejects what it was asked when it is stopped.                       *)
(*                                                                         *)
(* A tab is one load of the page.  Web Locks, BroadcastChannel and         *)
(* localStorage are the browser's: a FIFO queue, a FIFO per pair of tabs,  *)
(* and two shared cells.                                                   *)
(***************************************************************************)
EXTENDS Naturals, FiniteSets, Sequences, SequencesExt

CONSTANTS
  Tabs, None,
  First,       \* the tab that is the writer when the model starts
  Accidents,   \* what may happen, each kind once: "dispose", "crash", "freeze",
               \* "timeout" and "failure"
  MaxOps, MaxAccidents  \* bounds of the model

ASSUME HostedTabsAssumption ==
  /\ None \notin Tabs /\ First \in Tabs
  /\ MaxOps \in Nat /\ MaxAccidents \in Nat

VARIABLES
  role,     \* "new" before the page is loaded, "gone" after it
  epoch,    \* of the writer the tab follows, or its own
  writer,   \* writerId: the tab it follows, or itself
  runtime,  \* its runtime: "none", "booting", "ready", "broken", "stopping"
  hidden,   \* "shown", "cached" in the back/forward cache, "closing"
  lock,     \* the queue of the Web Lock: its head holds it
  stored,   \* the runtime epoch in localStorage
  hint,     \* the writer hint in localStorage
  chan,     \* messages between two tabs
  op,       \* what the user of a tab is waiting for
  serving,  \* forwarded requests a writer works on: the writer, from, id
  asked,    \* history: operations so far
  happened  \* history: what has happened so far

page == <<role, hidden>>
browser == <<lock, stored, hint>>
tabsVars == <<page, epoch, writer, runtime, browser, chan, op, serving, asked, happened>>

NoHint == [epoch |-> 0, writer |-> None]

\* kind: "read" is a GUI read, "command" a command without effect (a refresh, an
\* export), "change" anything that changes state: actions, streams, commands.
NoOp == [kind |-> "read", phase |-> "idle", try |-> 0, id |-> 0, asked |-> None,
         epoch |-> 0, target |-> None, result |-> "none"]

Open == {t \in Tabs : role[t] \notin {"new", "gone"}}

\* Tabs whose code runs.
Alive(t) == t \in Open /\ hidden[t] = "shown"

Accident(what) ==
  /\ what \in Accidents \ happened /\ Cardinality(happened) < MaxAccidents
  /\ happened' = happened \cup {what}

-----------------------------------------------------------------------------
(* Messages. *)

Status(t, e) == [type |-> "writer-status", epoch |-> e, target |-> t, id |-> 0, ok |-> TRUE]
Hello == [type |-> "hello", epoch |-> 0, target |-> None, id |-> 0, ok |-> TRUE]
Yield(e, w) == [type |-> "writer-yield-request", epoch |-> e, target |-> w, id |-> 0, ok |-> TRUE]
Request(e, w, id) == [type |-> "request", epoch |-> e, target |-> w, id |-> id, ok |-> TRUE]
Response(e, to, id, ok) ==
  [type |-> "response", epoch |-> e, target |-> to, id |-> id, ok |-> ok]

\* Messages of one tab to those they are meant for, or to all others.  A page in
\* the back/forward cache gets none.
ForAll(m) == m.type \in {"writer-status", "hello"} \/ m.target = None

Posts(ch, s, ms) ==
  IF ms = <<>> THEN ch
  ELSE [p \in DOMAIN ch |->
          IF p[1] = s /\ p[2] \in Open \ {s} /\ hidden[p[2]] # "cached"
            THEN ch[p] \o SelectSeq(ms, LAMBDA m : ForAll(m) \/ m.target = p[2])
            ELSE ch[p]]

Post(s, ms) == chan' = Posts(chan, s, ms)

-----------------------------------------------------------------------------
(* What a tab's user waits for. *)

Ended(o, result) == [NoOp EXCEPT !.kind = o.kind, !.result = result]

\* forward: to the writer w of epoch e.
Forwarded(o, e, w) == [o EXCEPT !.phase = "pending", !.epoch = e, !.target = w]

\* HOSTED_WRITER_CHANGED: only a read is tried again, and once.
TriesAgain(o) == o.kind = "read" /\ o.try = 1

\* Mutant: what is pending waits on, for a writer that is not there any more.
KeepPending(o, again) == o

\* rejectPendingForWriterChange, and the second try: "again" is what it becomes.
RejectPending(o, again) ==
  IF o.phase # "pending" THEN o
  ELSE IF TriesAgain(o) THEN [again EXCEPT !.try = 2] ELSE Ended(o, "changed")

-----------------------------------------------------------------------------
TabsTypeOK ==
  /\ \A t \in Tabs :
       /\ role[t] \in {"new", "candidate", "follower", "writer", "gone"}
       /\ writer[t] \in Tabs \cup {None} /\ epoch[t] \in Nat
       /\ runtime[t] \in {"none", "booting", "ready", "broken", "stopping"}
       /\ runtime[t] # "none" => role[t] = "writer"
       /\ hidden[t] \in {"shown", "cached", "closing"}
       /\ op[t].phase \in {"idle", "pending", "taking", "local"}
  /\ ToSet(lock) \subseteq Open
  /\ \A x \in serving : runtime[x.writer] \in {"booting", "ready", "broken"}

TabsInit ==
  /\ role = [t \in Tabs |-> IF t = First THEN "writer" ELSE "new"]
  /\ hidden = [t \in Tabs |-> "shown"]
  /\ epoch = [t \in Tabs |-> IF t = First THEN 1 ELSE 0]
  /\ writer = [t \in Tabs |-> IF t = First THEN t ELSE None]
  /\ runtime = [t \in Tabs |-> IF t = First THEN "ready" ELSE "none"]
  /\ lock = <<First>> /\ stored = 1 /\ hint = [epoch |-> 1, writer |-> First]
  /\ chan = [p \in Tabs \X Tabs |-> <<>>]
  /\ op = [t \in Tabs |-> NoOp] /\ serving = {}
  /\ asked = 0 /\ happened = {}

-----------------------------------------------------------------------------
(* Becoming the writer. *)

\* The constructor: restoreWriterHint, queueWriterLock, hello.
Load(t) ==
  /\ role[t] = "new"
  /\ role' = [role EXCEPT ![t] = IF hint = NoHint THEN "candidate" ELSE "follower"]
  /\ epoch' = [epoch EXCEPT ![t] = hint.epoch]
  /\ writer' = [writer EXCEPT ![t] = hint.writer]
  /\ lock' = Append(lock, t)
  /\ Post(t, <<Hello>>)
  /\ UNCHANGED <<runtime, hidden, stored, hint, op, serving, asked, happened>>

\* A page in the cache loses the lock to the next that waits for it.
Granted ==
  IF lock # <<>> /\ hidden[Head(lock)] = "cached" THEN Tail(lock) ELSE lock

\* Mutant: a new writer goes on with the epoch of the last.
SameEpoch(t) == stored

NextEpoch(t) == stored + 1

\* becomeWriter, when the lock is granted.
BecomeWriter(t) ==
  /\ Granted # <<>> /\ Head(Granted) = t /\ lock' = Granted
  /\ Alive(t) /\ role[t] \in {"candidate", "follower"}
  /\ role' = [role EXCEPT ![t] = "writer"]
  /\ epoch' = [epoch EXCEPT ![t] = NextEpoch(t)]
  /\ writer' = [writer EXCEPT ![t] = t]
  /\ stored' = NextEpoch(t)
  /\ hint' = [epoch |-> NextEpoch(t), writer |-> t]
  /\ runtime' = [runtime EXCEPT ![t] = "booting"]
  /\ op' = [op EXCEPT ![t] = IF @.phase = "taking" THEN [@ EXCEPT !.phase = "local"]
                                                   ELSE RejectPending(@, [@ EXCEPT !.phase = "local"])]
  /\ Post(t, <<Status(t, NextEpoch(t))>>)
  /\ UNCHANGED <<hidden, serving, asked, happened>>

\* writerReadyPromise: prewarm, and the bootstrap of a restored session.
Boot(t) ==
  /\ Alive(t) /\ runtime[t] = "booting"
  /\ runtime' = [runtime EXCEPT ![t] = "ready"]
  /\ UNCHANGED <<page, epoch, writer, browser, chan, op, serving, asked, happened>>

\* It is rejected for good: the tab stays the writer, and nothing works there.
BootIsRejected(t) ==
  /\ Alive(t) /\ runtime[t] = "booting" /\ Accident("failure")
  /\ runtime' = [runtime EXCEPT ![t] = "broken"]
  /\ UNCHANGED <<page, epoch, writer, browser, chan, op, serving, asked>>

-----------------------------------------------------------------------------
(* Ceasing to be the writer. *)

OwnsHint(t) == hint = [epoch |-> epoch[t], writer |-> t]
ClearHintIfOwned(t) == hint' = IF OwnsHint(t) THEN NoHint ELSE hint

\* The queue of the lock without a tab.
Unqueued(t) ==
  IF \E i \in DOMAIN lock : lock[i] = t
    THEN RemoveAt(lock, CHOOSE i \in DOMAIN lock : lock[i] = t) ELSE lock

Live(t) == runtime[t] \in {"booting", "ready", "broken"}

\* Mutant: what it serves is not rejected.
ServesOn(t) == {}

ServedBy(t) == {x \in serving : x.writer = t}

\* The host rejects what it was asked.
Refusals(t) ==
  SetToSeq({Response(epoch[t], x.from, x.id, FALSE) : x \in ServedBy(t)})

\* Its own tab's operation: the host rejects it when it runs; when it waits for
\* the host, it learns that the writer changed, now or after the stop.
OwnAfterStop(t) ==
  IF op[t].phase # "local" THEN {op[t]}
  ELSE IF runtime[t] = "ready" THEN {Ended(op[t], "restarted")}
  ELSE {op[t], Ended(op[t], "changed")}

\* stopWriter up to the wait for the host to be disposed of.
StopWriter(t) ==
  /\ runtime' = [runtime EXCEPT ![t] = "stopping"]
  /\ ClearHintIfOwned(t)
  /\ serving' = serving \ ServedBy(t)
  /\ \E o \in OwnAfterStop(t) : op' = [op EXCEPT ![t] = o]

\* The rest of it: the lock is released and asked for again, and a writer that
\* took over meanwhile is followed.  A read that waited for the host goes there.
FollowsHint(t) == hint # NoHint /\ hint.writer # t /\ hint.epoch > epoch[t]

Stopped(t) ==
  /\ Alive(t) /\ runtime[t] = "stopping"
  /\ runtime' = [runtime EXCEPT ![t] = "none"]
  /\ role' = [role EXCEPT ![t] = "follower"]
  /\ lock' = Append(Unqueued(t), t)
  /\ epoch' = [epoch EXCEPT ![t] = IF FollowsHint(t) THEN hint.epoch ELSE @]
  /\ writer' = [writer EXCEPT ![t] = IF FollowsHint(t) THEN hint.writer ELSE None]
  /\ IF op[t].phase = "local" /\ TriesAgain(op[t])
       THEN /\ op' = [op EXCEPT ![t] = [Forwarded(@, epoch'[t], writer'[t]) EXCEPT !.try = 2]]
            /\ Post(t, <<Request(epoch'[t], writer'[t], op[t].id)>>)
       ELSE /\ op' = [op EXCEPT ![t] = IF @.phase = "local" THEN Ended(@, "changed") ELSE @]
            /\ UNCHANGED chan
  /\ UNCHANGED <<hidden, stored, hint, serving, asked, happened>>

\* dispose: what is pending fails, and a writer stops its host first.
Dispose(t) ==
  /\ Alive(t) /\ Accident("dispose")
  /\ hidden' = [hidden EXCEPT ![t] = "closing"]
  /\ ClearHintIfOwned(t)
  /\ op' = [op EXCEPT ![t] = NoOp]
  /\ runtime' = [runtime EXCEPT ![t] = IF Live(t) THEN "stopping" ELSE @]
  /\ serving' = serving \ ServedBy(t)
  /\ Post(t, Refusals(t))
  /\ UNCHANGED <<role, epoch, writer, lock, stored, asked>>

Without(t) == [p \in DOMAIN chan |-> IF p[2] = t THEN <<>> ELSE chan[p]]

Leave(t) ==
  /\ role' = [role EXCEPT ![t] = "gone"]
  /\ runtime' = [runtime EXCEPT ![t] = "none"]
  /\ lock' = Unqueued(t)
  /\ serving' = serving \ ServedBy(t)
  /\ op' = [op EXCEPT ![t] = NoOp]
  /\ chan' = Without(t)
  /\ UNCHANGED <<epoch, writer, stored, hint>>

Disposed(t) ==
  /\ t \in Open /\ hidden[t] = "closing"
  /\ Leave(t)
  /\ UNCHANGED <<hidden, asked, happened>>

\* The page ends without running any code: its hint stays behind.
Crash(t) ==
  /\ Alive(t) /\ Accident("crash")
  /\ Leave(t)
  /\ UNCHANGED <<hidden, asked>>

\* handlePageHide and handlePageShow: a writer's page goes to the back/forward
\* cache and comes back, still the writer or not.
Hide(t) ==
  /\ Alive(t) /\ Live(t) /\ Accident("freeze")
  /\ hidden' = [hidden EXCEPT ![t] = "cached"]
  /\ ClearHintIfOwned(t)
  /\ UNCHANGED <<role, epoch, writer, runtime, lock, stored, chan, op, serving, asked>>

Show(t) ==
  /\ hidden[t] = "cached"
  /\ hidden' = [hidden EXCEPT ![t] = "shown"]
  /\ IF stored = epoch[t]
       THEN /\ hint' = [epoch |-> epoch[t], writer |-> t]
            /\ Post(t, <<Status(t, epoch[t])>>)
            /\ UNCHANGED <<runtime, op, serving>>
       ELSE StopWriter(t) /\ Post(t, Refusals(t))
  /\ UNCHANGED <<role, epoch, writer, lock, stored, asked, happened>>

-----------------------------------------------------------------------------
(* Operations. *)

\* takeWriter: ask the writer to yield, and wait to become it.
Takes(t, o) ==
  IF writer[t] = None \/ epoch[t] = 0
    THEN op' = [op EXCEPT ![t] = Ended(o, "unavailable")] /\ UNCHANGED chan
    ELSE /\ op' = [op EXCEPT ![t] = [o EXCEPT !.phase = "taking", !.asked = writer[t]]]
         /\ Post(t, <<Yield(epoch[t], writer[t])>>)

\* requestFromCurrentWriter, handleCommand and streamRequest: on the tab's own
\* host, by a takeover, or forwarded.
Begins(t, o) ==
  IF role[t] = "writer"
    THEN /\ op' = [op EXCEPT ![t] = IF Live(t) THEN [o EXCEPT !.phase = "local"]
                                               ELSE Ended(o, "changed")]
         /\ UNCHANGED chan
  ELSE IF o.kind = "change" THEN Takes(t, o)
  ELSE /\ op' = [op EXCEPT ![t] = Forwarded(o, epoch[t], writer[t])]
       /\ Post(t, <<Request(epoch[t], writer[t], o.id)>>)

\* The user asks for something, once the tab knows of a writer.
AskFor(t, kind) ==
  /\ Alive(t) /\ role[t] # "candidate" /\ op[t].phase = "idle"
  /\ asked < MaxOps /\ asked' = asked + 1
  /\ Begins(t, [NoOp EXCEPT !.kind = kind, !.try = 1, !.id = asked + 1])
  /\ UNCHANGED <<page, epoch, writer, runtime, browser, serving, happened>>

\* The tab's own host has booted and answers, or never will.
Done(t) ==
  /\ Alive(t) /\ op[t].phase = "local" /\ runtime[t] \in {"ready", "broken"}
  /\ op' = [op EXCEPT ![t] = Ended(@, IF runtime[t] = "ready" THEN "ok" ELSE "broken")]
  /\ UNCHANGED <<page, epoch, writer, runtime, browser, chan, serving, asked, happened>>

\* handleForwardedRequest, when the host has answered.
Serve(x) ==
  LET t == x.writer IN
  /\ Alive(t) /\ runtime[t] \in {"ready", "broken"}
  /\ serving' = serving \ {x}
  /\ Post(t, IF runtime[t] = "ready"
               THEN <<Response(epoch[t], x.from, x.id, TRUE), Status(t, epoch[t])>>
               ELSE <<Response(epoch[t], x.from, x.id, FALSE)>>)
  /\ UNCHANGED <<page, epoch, writer, runtime, browser, op, asked, happened>>

\* No answer in time: a read, or a command without effect, takes over, and a read
\* that was sent a second time fails.
ReadTimeout(t) ==
  /\ Alive(t) /\ op[t].phase = "pending" /\ Accident("timeout")
  /\ \/ op[t].try = 1 /\ Takes(t, [op[t] EXCEPT !.try = 2])
     \/ op[t].try = 2 /\ op' = [op EXCEPT ![t] = Ended(@, "timeout")] /\ UNCHANGED chan
  /\ UNCHANGED <<page, epoch, writer, runtime, browser, serving, asked>>

TakeTimeout(t) ==
  /\ Alive(t) /\ op[t].phase = "taking" /\ Accident("timeout")
  /\ op' = [op EXCEPT ![t] = Ended(@, "timeout")]
  /\ UNCHANGED <<page, epoch, writer, runtime, browser, chan, serving, asked>>

-----------------------------------------------------------------------------
(* handleMessage: the next message of tab s to tab r. *)

Arrives(s, r, type) ==
  /\ Alive(r) /\ chan[<<s, r>>] # <<>> /\ Head(chan[<<s, r>>]).type = type

Reply(s, r, ms) == chan' = Posts([chan EXCEPT ![<<s, r>>] = Tail(@)], r, ms)

ReceiveHello(s, r) ==
  /\ Arrives(s, r, "hello")
  /\ Reply(s, r, IF role[r] = "writer" THEN <<Status(r, epoch[r])>> ELSE <<>>)
  /\ UNCHANGED <<page, epoch, writer, runtime, browser, op, serving, asked, happened>>

\* A status of an older writer, or one a writer receives, is ignored.
IsNews(r, m) == m.epoch >= epoch[r] /\ role[r] # "writer"

OtherWriter(r, m) == m.epoch # epoch[r] \/ (writer[r] # None /\ m.target # writer[r])

\* Mutant: it asks only the writer it knew of first.
AsksOnce(r, m) == FALSE

\* A tab that is taking over asks each writer it hears of, once.
AsksAgain(r, m) == op[r].phase = "taking" /\ op[r].asked # m.target

ReceiveStatus(s, r) ==
  /\ Arrives(s, r, "writer-status")
  /\ LET m == Head(chan[<<s, r>>]) IN
     IF IsNews(r, m)
       THEN /\ role' = [role EXCEPT ![r] = "follower"]
            /\ epoch' = [epoch EXCEPT ![r] = m.epoch]
            /\ writer' = [writer EXCEPT ![r] = m.target]
            /\ op' = [op EXCEPT ![r] =
                 IF AsksAgain(r, m) THEN [@ EXCEPT !.asked = m.target]
                 ELSE IF OtherWriter(r, m)
                   THEN RejectPending(@, Forwarded(@, m.epoch, m.target)) ELSE @]
            /\ Reply(s, r,
                 IF AsksAgain(r, m) THEN <<Yield(m.epoch, m.target)>>
                 ELSE IF op'[r] # op[r] /\ op'[r].phase = "pending"
                   THEN <<Request(m.epoch, m.target, op[r].id)>> ELSE <<>>)
       ELSE Reply(s, r, <<>>) /\ UNCHANGED <<role, epoch, writer, op>>
  /\ UNCHANGED <<hidden, runtime, browser, serving, asked, happened>>

\* releaseWriter
ReceiveYield(s, r) ==
  /\ Arrives(s, r, "writer-yield-request")
  /\ LET m == Head(chan[<<s, r>>]) IN
     IF m.epoch = epoch[r] /\ m.target = r /\ Live(r)
       THEN StopWriter(r) /\ Reply(s, r, Refusals(r))
       ELSE Reply(s, r, <<>>) /\ UNCHANGED <<runtime, hint, op, serving>>
  /\ UNCHANGED <<page, epoch, writer, lock, stored, asked, happened>>

ReceiveRequest(s, r) ==
  /\ Arrives(s, r, "request")
  /\ LET m == Head(chan[<<s, r>>]) IN
     IF m.epoch = epoch[r] /\ role[r] = "writer" /\ Live(r)
       THEN /\ serving' = serving \cup {[writer |-> r, from |-> s, id |-> m.id]}
            /\ Reply(s, r, <<>>)
     ELSE /\ Reply(s, r, IF m.epoch = epoch[r] /\ role[r] = "writer"
                           THEN <<Response(epoch[r], s, m.id, FALSE)>> ELSE <<>>)
          /\ UNCHANGED serving
  /\ UNCHANGED <<page, epoch, writer, runtime, browser, op, asked, happened>>

ReceiveResponse(s, r) ==
  /\ Arrives(s, r, "response")
  /\ LET m == Head(chan[<<s, r>>]) IN
     op' = [op EXCEPT ![r] =
              IF m.epoch = epoch[r] /\ @.phase = "pending" /\ @.id = m.id
                THEN Ended(@, IF m.ok THEN "ok" ELSE "refused") ELSE @]
  /\ Reply(s, r, <<>>)
  /\ UNCHANGED <<page, epoch, writer, runtime, browser, serving, asked, happened>>

ReceiveAny(s, r) ==
  \/ ReceiveHello(s, r) \/ ReceiveStatus(s, r) \/ ReceiveYield(s, r)
  \/ ReceiveRequest(s, r) \/ ReceiveResponse(s, r)

Progress(t) ==
  \/ BecomeWriter(t) \/ Boot(t) \/ Stopped(t) \/ Disposed(t)
  \/ Done(t)

\* What happens by itself: messages arrive, the lock is granted, runtimes boot,
\* answer and stop.
Proceed ==
  \/ \E s, r \in Tabs : ReceiveAny(s, r)
  \/ \E t \in Tabs : Progress(t)
  \/ \E x \in serving : Serve(x)

\* What users and accidents do.
Happen(t) ==
  \/ Load(t) \/ BootIsRejected(t) \/ Dispose(t) \/ Crash(t) \/ Hide(t) \/ Show(t)
  \/ ReadTimeout(t) \/ TakeTimeout(t)
  \/ \E kind \in {"read", "command", "change"} : AskFor(t, kind)

TabsNext == Proceed \/ \E t \in Tabs : Happen(t)

\* Users need not do anything, and no deadline has to pass.
TabsFairness == WF_tabsVars(Proceed)

TabsSpec == TabsInit /\ [][TabsNext]_tabsVars /\ TabsFairness

-----------------------------------------------------------------------------
(* Properties. *)

\* No tab boots a runtime while another's is not disposed of, whoever yields,
\* closes or asks for the lock: only a page in the cache may be left with one,
\* and gives it up when it comes back.
OneRuntime ==
  \A s, t \in Tabs :
    runtime[s] # "none" /\ runtime[t] # "none" /\ s # t =>
      "freeze" \in happened /\ \E u \in {s, t} : hidden[u] = "cached" \/ runtime[u] = "stopping"

\* A tab whose runtime may change the data: it runs, or it is being disposed of
\* and nobody has become the writer since.  A page in the cache runs nothing.
Writes(t) ==
  /\ hidden[t] # "cached"
  /\ Live(t) \/ (runtime[t] = "stopping" /\ epoch[t] = stored)

\* The data of the hosted app is one session, and its tabs are the processes.
Ownership == INSTANCE SessionOwnership
               WITH Procs <- Tabs, Scopes <- {"app"},
                    live <- {t \in Tabs : role[t] # "gone"},
                    writers <- [s \in {"app"} |-> {t \in Tabs : Writes(t)}]

\* The lock and the epochs together implement the ownership of a session, which
\* the lock alone does not: a page that comes back from the cache as the writer
\* takes a session nobody writes, and every other way to become the writer,
\* after a yield, a close, a crash or a cached page, goes through a free one.
TabsImplementOwnership == Ownership!HeldSpec

\* A forwarded request waits for the writer its tab follows, or for one whose
\* status is on its way: nobody waits for a writer that was replaced.
PendingFollowsWriter ==
  \A t \in Tabs :
    op[t].phase = "pending" =>
      role[t] # "writer" /\ op[t].epoch = epoch[t] /\ op[t].target \in {writer[t], None}

\* Every operation ends without any of its deadlines: a takeover reaches the
\* writer through all that become writer before it, and a read the writer that
\* is there.  Only a page in the cache makes the others wait for a deadline.
OperationsEnd ==
  <>[]((\A t \in Tabs : op[t].phase = "idle") \/ "freeze" \in happened)

\* tests/unit/gui-hosted/browser-runtime-coordinator.test.ts:576, "retries an
\* in-flight market read with the promoted writer instead of failing it".
ReadsSurviveHandoff ==
  \A t \in Tabs : op[t].kind = "read" /\ "failure" \notin happened => op[t].result # "refused"
=============================================================================
