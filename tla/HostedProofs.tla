---------------------------- MODULE HostedProofs ----------------------------
(***************************************************************************)
(* Theorems about the hosted web app.  HostedTabs, for every set of tabs:  *)
(* one runtime, and no request left waiting for a writer that was          *)
(* replaced; no message is trusted, both hold whatever a channel delivers. *)
(* HostedRuntime, for every set of actions and every sequence of faults:   *)
(* what the user was told is done is saved, and a run is paid for once.    *)
(***************************************************************************)
EXTENDS HostedTabs, HostedRuntime, TLAPS, SequenceTheorems

-----------------------------------------------------------------------------
(* HostedTabs: the head of the lock's queue. *)

Holds(t) == lock # <<>> /\ lock[1] = t

LEMMA AppendKeepsHead ==
  ASSUME NEW S, NEW q \in Seq(S), NEW t \in S
  PROVE  /\ Append(q, t) \in Seq(S) /\ Append(q, t) # <<>>
         /\ q # <<>> => Append(q, t)[1] = q[1]
<1>1. Append(q, t) \in Seq(S) /\ Append(q, t) # <<>>
  BY AppendProperties
<1>2. ASSUME q # <<>> PROVE Append(q, t)[1] = q[1]
  <2>1. 1 \in 1 .. Len(q)
    BY <1>2, EmptySeq
  <2> QED BY <2>1, AppendProperties
<1> QED BY <1>1, <1>2

\* A tab that leaves the queue leaves the tab at its head there.
LEMMA UnqueuedKeepsHead ==
  ASSUME lock \in Seq(Tabs), NEW t \in Tabs
  PROVE  /\ Unqueued(t) \in Seq(Tabs)
         /\ \A h \in Tabs \ {t} : Holds(h) => Unqueued(t) # <<>> /\ Unqueued(t)[1] = h
<1>1. CASE ~ \E i \in DOMAIN lock : lock[i] = t
  BY <1>1 DEF Unqueued, Holds
<1>2. CASE \E i \in DOMAIN lock : lock[i] = t
  <2> DEFINE n == CHOOSE i \in DOMAIN lock : lock[i] = t
  <2>1. n \in DOMAIN lock /\ lock[n] = t
    BY <1>2
  <2> HIDE DEF n
  <2>2. Unqueued(t) = SubSeq(lock, 1, n - 1) \o SubSeq(lock, n + 1, Len(lock))
    BY <1>2 DEF Unqueued, RemoveAt, n
  <2>3. n \in 1 .. Len(lock)
    BY <2>1
  <2> DEFINE front == SubSeq(lock, 1, n - 1)
             back == SubSeq(lock, n + 1, Len(lock))
  <2>4. front \in Seq(Tabs) /\ back \in Seq(Tabs) /\ Len(front) = n - 1
    BY <2>3, SubSeqProperties
  <2>5. \A i \in 1 .. n - 1 : front[i] = lock[i]
    BY <2>3, SubSeqProperties
  <2> HIDE DEF front, back
  <2>6. /\ front \o back \in Seq(Tabs)
        /\ Len(front) > 0 => (front \o back)[1] = front[1] /\ front \o back # <<>>
    BY <2>4, ConcatProperties
  <2>7. Unqueued(t) = front \o back
    BY <2>2 DEF front, back
  <2>8. ASSUME NEW h \in Tabs \ {t}, Holds(h)
        PROVE  Unqueued(t) # <<>> /\ Unqueued(t)[1] = h
    <3>1. n # 1
      BY <2>1, <2>8 DEF Holds
    <3>2. Len(front) > 0 /\ front[1] = lock[1]
      BY <2>3, <2>4, <2>5, <3>1
    <3> QED BY <2>6, <2>7, <2>8, <3>2 DEF Holds
  <2> QED BY <2>6, <2>7, <2>8
<1> QED BY <1>1, <1>2

-----------------------------------------------------------------------------
(***************************************************************************)
(* One runtime.  Outside the back/forward cache a tab with a runtime holds *)
(* the lock; a page in the cache may have lost it, and then the runtime    *)
(* epoch in localStorage is newer than its own, which is what it looks at  *)
(* when it comes back.                                                     *)
(***************************************************************************)
Typed ==
  /\ role \in [Tabs -> {"new", "candidate", "follower", "writer", "gone"}]
  /\ hidden \in [Tabs -> {"shown", "cached", "closing"}]
  /\ runtime \in [Tabs -> {"none", "booting", "ready", "broken", "stopping"}]
  /\ epoch = [t \in Tabs |-> epoch[t]]
  /\ lock \in Seq(Tabs) /\ stored \in Nat

Owns(t) ==
  /\ runtime[t] # "none" => role[t] = "writer" /\ epoch[t] \in Nat /\ epoch[t] <= stored
  /\ hidden[t] = "cached" => Live(t) /\ "freeze" \in happened
  /\ runtime[t] # "none" /\ "freeze" \notin happened => Holds(t)
  /\ Live(t) /\ hidden[t] # "cached" => Holds(t)
  /\ runtime[t] # "none" /\ epoch[t] = stored => Holds(t)

Owned == Typed /\ \A t \in Tabs : Owns(t)

LEMMA InitOwned == TabsInit => Owned
<1> SUFFICES ASSUME TabsInit PROVE Owned
  OBVIOUS
<1> USE HostedTabsAssumption DEF TabsInit
<1>1. Typed
  <2>1. lock \in Seq(Tabs)
    OBVIOUS
  <2> QED BY <2>1 DEF Typed
<1>2. \A t \in Tabs : Owns(t)
  <2> TAKE t \in Tabs
  <2>1. CASE t = First
    <3>1. lock # <<>> /\ lock[1] = First
      OBVIOUS
    <3> QED BY <2>1, <3>1 DEF Owns, Holds, Live
  <2>2. CASE t # First
    BY <2>2 DEF Owns, Live
  <2> QED BY <2>1, <2>2
<1> QED BY <1>1, <1>2 DEF Owned

(* A tab nothing happens to, but that may move up in the queue. *)
LEMMA Untouched ==
  ASSUME NEW u \in Tabs, Owns(u),
         runtime'[u] = runtime[u], hidden'[u] = hidden[u],
         runtime[u] # "none" => role'[u] = role[u] /\ epoch'[u] = epoch[u],
         stored' = stored, happened \subseteq happened',
         Holds(u) => Holds(u)'
  PROVE  Owns(u)'
BY DEF Owns, Live

LEMMA UnmovedStep ==
  ASSUME Owned, UNCHANGED <<role, hidden, runtime, epoch, lock, stored>>,
         happened \subseteq happened'
  PROVE  Owned'
<1>1. Typed'
  BY DEF Owned, Typed
<1>2. ASSUME NEW u \in Tabs PROVE Owns(u)'
  BY <1>2, Untouched DEF Owned, Holds
<1> QED BY <1>1, <1>2 DEF Owned

LEMMA LoadOwned ==
  ASSUME Owned, NEW t \in Tabs, Load(t)
  PROVE  Owned'
<1>1. Typed' /\ (lock # <<>> => lock' # <<>> /\ lock'[1] = lock[1])
  BY AppendKeepsHead DEF Load, Owned, Typed
<1>2. runtime[t] = "none"
  BY DEF Load, Owned, Typed, Owns
<1>3. ASSUME NEW u \in Tabs PROVE Owns(u)'
  <2>1. Holds(u) => Holds(u)'
    BY <1>1 DEF Holds
  <2>2. runtime[u] # "none" => role'[u] = role[u] /\ epoch'[u] = epoch[u]
    BY <1>2 DEF Load, Owned, Typed
  <2> QED BY <2>1, <2>2, Untouched DEF Load, Owned
<1> QED BY <1>1, <1>3 DEF Owned

LEMMA BecomeWriterOwned ==
  ASSUME Owned, NEW t \in Tabs, BecomeWriter(t)
  PROVE  Owned'
<1> USE DEF BecomeWriter, NextEpoch
<1>1. Typed'
  <2>1. lock' \in Seq(Tabs)
    BY DEF Owned, Typed, Granted
  <2>2. /\ role' \in [Tabs -> {"new", "candidate", "follower", "writer", "gone"}]
        /\ hidden' \in [Tabs -> {"shown", "cached", "closing"}]
        /\ runtime' \in [Tabs -> {"none", "booting", "ready", "broken", "stopping"}]
    BY DEF Owned, Typed
  <2>3. epoch' = [u \in Tabs |-> epoch'[u]]
    <3> DEFINE n == NextEpoch(t)
    <3>1. epoch' = [epoch EXCEPT ![t] = n]
      OBVIOUS
    <3> HIDE DEF n
    <3> QED BY <3>1 DEF Owned, Typed
  <2>4. stored' \in Nat
    BY DEF Owned, Typed
  <2> QED BY <2>1, <2>2, <2>3, <2>4 DEF Typed
<1>2. lock' # <<>> /\ lock'[1] = t
  BY DEF Owned, Typed
<1>3. hidden[t] = "shown" /\ runtime[t] = "none"
  BY DEF Alive, Owned, Owns
<1>4. Owns(t)'
  BY <1>2, <1>3 DEF Owned, Typed, Owns, Live, Holds
<1>5. ASSUME NEW u \in Tabs, u # t PROVE Owns(u)'
  <2>1. /\ runtime'[u] = runtime[u] /\ hidden'[u] = hidden[u] /\ role'[u] = role[u]
        /\ epoch'[u] = epoch[u] /\ stored' = stored + 1 /\ stored \in Nat /\ happened' = happened
    BY <1>5 DEF Owned, Typed
  <2>2. CASE Holds(u) /\ hidden[u] # "cached"
    \* The lock would have been kept for u.
    <3>1. Granted = lock
      BY <2>2 DEF Granted, Holds
    <3> QED BY <3>1, <2>2, <1>2, <1>5 DEF Holds
  <2>3. CASE ~Holds(u) \/ hidden[u] = "cached"
    <3>1. Owns(u)
      BY DEF Owned
    <3>2. runtime[u] # "none" /\ "freeze" \notin happened => FALSE
      BY <2>3, <3>1 DEF Owns
    <3>3. Live(u) => hidden[u] = "cached"
      BY <2>3, <3>1 DEF Owns
    <3> QED BY <2>1, <3>1, <3>2, <3>3 DEF Owns, Live
  <2> QED BY <2>2, <2>3
<1> QED BY <1>1, <1>4, <1>5 DEF Owned

(* A tab whose runtime boots, stops, goes to the cache or returns from it. *)
LEMMA OwnRuntimeStep ==
  ASSUME Owned, NEW t \in Tabs, UNCHANGED <<role, epoch, lock, stored>>,
         runtime' \in [Tabs -> {"none", "booting", "ready", "broken", "stopping"}],
         hidden' \in [Tabs -> {"shown", "cached", "closing"}],
         \A u \in Tabs \ {t} : runtime'[u] = runtime[u] /\ hidden'[u] = hidden[u],
         happened \subseteq happened', Owns(t)'
  PROVE  Owned'
<1>1. Typed'
  BY DEF Owned, Typed
<1>2. ASSUME NEW u \in Tabs, u # t PROVE Owns(u)'
  BY <1>2, Untouched DEF Owned, Holds
<1> QED BY <1>1, <1>2 DEF Owned

(* A tab that leaves the queue, or goes to its end, without a runtime. *)
LEMMA ReleaseStep ==
  ASSUME Owned, NEW t \in Tabs, UNCHANGED <<hidden, stored>>,
         hidden[t] # "cached", runtime' = [runtime EXCEPT ![t] = "none"],
         NEW r \in {"follower", "gone"}, role' = [role EXCEPT ![t] = r],
         NEW e, epoch' = [epoch EXCEPT ![t] = e],
         lock' = Unqueued(t) \/ lock' = Append(Unqueued(t), t),
         happened \subseteq happened'
  PROVE  Owned'
<1>1. Unqueued(t) \in Seq(Tabs)
      /\ \A h \in Tabs \ {t} : Holds(h) => Unqueued(t) # <<>> /\ Unqueued(t)[1] = h
  BY UnqueuedKeepsHead DEF Owned, Typed
<1>2. lock' \in Seq(Tabs) /\ \A h \in Tabs \ {t} : Holds(h) => lock' # <<>> /\ lock'[1] = h
  <2> DEFINE q == Unqueued(t)
  <2> HIDE DEF q
  <2>1. Append(q, t) \in Seq(Tabs) /\ Append(q, t) # <<>>
        /\ (q # <<>> => Append(q, t)[1] = q[1])
    BY <1>1, AppendKeepsHead DEF q
  <2>2. lock' = q \/ lock' = Append(q, t)
    BY DEF q
  <2>3. q \in Seq(Tabs) /\ \A h \in Tabs \ {t} : Holds(h) => q # <<>> /\ q[1] = h
    BY <1>1 DEF q
  <2>4. CASE lock' = q
    BY <2>3, <2>4
  <2>5. CASE lock' = Append(q, t)
    BY <2>1, <2>3, <2>5
  <2> QED BY <2>2, <2>4, <2>5
<1>3. Typed'
  BY <1>2 DEF Owned, Typed
<1>4. ASSUME NEW u \in Tabs, u # t PROVE Owns(u)'
  <2>1. Holds(u) => Holds(u)'
    BY <1>2, <1>4 DEF Holds
  <2>2. runtime'[u] = runtime[u] /\ role'[u] = role[u] /\ epoch'[u] = epoch[u]
    BY <1>4 DEF Owned, Typed
  <2> QED BY <2>1, <2>2, Untouched DEF Owned
<1>5. Owns(t)'
  BY DEF Owned, Typed, Owns, Live
<1> QED BY <1>3, <1>4, <1>5 DEF Owned

LEMMA ShowOwned ==
  ASSUME Owned, NEW t \in Tabs, Show(t)
  PROVE  Owned'
<1> USE DEF Show
<1>1. Live(t) /\ role[t] = "writer" /\ epoch[t] \in Nat /\ epoch[t] <= stored
  BY DEF Owned, Owns, Live
<1>2. CASE stored = epoch[t]
  <2>1. Holds(t) /\ UNCHANGED <<runtime, lock>> /\ hidden' = [hidden EXCEPT ![t] = "shown"]
    BY <1>1, <1>2 DEF Owned, Owns, Live
  <2>2. Owns(t)'
    BY <1>1, <2>1 DEF Owned, Typed, Owns, Live, Holds
  <2> QED BY <2>1, <2>2, OwnRuntimeStep DEF Owned, Typed
<1>3. CASE stored # epoch[t]
  <2>1. runtime' = [runtime EXCEPT ![t] = "stopping"] /\ "freeze" \in happened
    BY <1>3 DEF StopWriter, Owned, Owns
  <2>2. hidden' = [hidden EXCEPT ![t] = "shown"]
    OBVIOUS
  <2>3. Owns(t)'
    BY <1>1, <2>1, <2>2 DEF Owned, Typed, Owns, Live
  <2> QED BY <2>1, <2>2, <2>3, OwnRuntimeStep DEF Owned, Typed
<1> QED BY <1>2, <1>3

LEMMA StatusOwned ==
  ASSUME Owned, NEW s \in Tabs, NEW r \in Tabs, ReceiveStatus(s, r)
  PROVE  Owned'
<1> DEFINE m == Head(chan[<<s, r>>])
<1> HIDE DEF m
<1>1. CASE IsNews(r, m)
  <2>1. /\ role' = [role EXCEPT ![r] = "follower"] /\ epoch' = [epoch EXCEPT ![r] = m.epoch]
        /\ UNCHANGED <<hidden, runtime, lock, stored, happened>> /\ role[r] # "writer"
    BY <1>1 DEF ReceiveStatus, IsNews, browser, m
  <2>2. Typed' /\ runtime[r] = "none"
    BY <2>1 DEF Owned, Typed, Owns
  <2>3. ASSUME NEW u \in Tabs PROVE Owns(u)'
    <3>1. runtime[u] # "none" => role'[u] = role[u] /\ epoch'[u] = epoch[u]
      BY <2>1, <2>2 DEF Owned, Typed
    <3> QED BY <2>1, <3>1, Untouched DEF Owned, Holds
  <2> QED BY <2>2, <2>3 DEF Owned
<1>2. CASE ~IsNews(r, m)
  <2>1. UNCHANGED <<role, hidden, runtime, epoch, lock, stored, happened>>
    BY <1>2 DEF ReceiveStatus, browser, m
  <2> QED BY <2>1, UnmovedStep
<1> QED BY <1>1, <1>2

LEMMA YieldOwned ==
  ASSUME Owned, NEW s \in Tabs, NEW r \in Tabs, ReceiveYield(s, r)
  PROVE  Owned'
<1>1. UNCHANGED <<role, hidden, epoch, lock, stored, happened>>
  BY DEF ReceiveYield, page
<1>2. Alive(r)
  BY DEF ReceiveYield, Arrives
<1>3. CASE runtime' = runtime
  BY <1>1, <1>3, UnmovedStep
<1>4. CASE runtime' # runtime
  <2>1. Live(r) /\ runtime' = [runtime EXCEPT ![r] = "stopping"]
    BY <1>4 DEF ReceiveYield, StopWriter
  <2>2. Owns(r)'
    BY <1>1, <1>2, <2>1 DEF Owned, Typed, Owns, Live, Holds, Alive
  <2> QED BY <1>1, <2>1, <2>2, OwnRuntimeStep DEF Owned, Typed
<1> QED BY <1>3, <1>4

LEMMA StepOwned == Owned /\ [TabsNext]_tabsVars => Owned'
<1> SUFFICES ASSUME Owned, [TabsNext]_tabsVars PROVE Owned'
  OBVIOUS
<1> USE DEF page, browser
<1>1. ASSUME NEW s \in Tabs, NEW r \in Tabs, ReceiveAny(s, r) PROVE Owned'
  <2>1. CASE ReceiveHello(s, r) \/ ReceiveRequest(s, r) \/ ReceiveResponse(s, r)
    BY <2>1, UnmovedStep DEF ReceiveHello, ReceiveRequest, ReceiveResponse
  <2> QED BY <1>1, <2>1, StatusOwned, YieldOwned DEF ReceiveAny
<1>2. ASSUME NEW t \in Tabs, Boot(t) \/ BootIsRejected(t) PROVE Owned'
  <2>1. PICK h \in {"ready", "broken"} : runtime' = [runtime EXCEPT ![t] = h]
    BY <1>2 DEF Boot, BootIsRejected
  <2>2. /\ UNCHANGED <<role, hidden, epoch, lock, stored>> /\ happened \subseteq happened'
        /\ runtime[t] = "booting" /\ ("freeze" \notin happened' => "freeze" \notin happened)
    BY <1>2 DEF Boot, BootIsRejected, Accident
  <2>3. Owns(t)'
    BY <2>1, <2>2 DEF Owned, Typed, Owns, Live, Holds
  <2> QED BY <2>1, <2>2, <2>3, OwnRuntimeStep DEF Owned, Typed
<1>3. ASSUME NEW t \in Tabs, Stopped(t) PROVE Owned'
  <2>1. /\ UNCHANGED <<hidden, stored, happened>> /\ hidden[t] # "cached"
        /\ runtime' = [runtime EXCEPT ![t] = "none"] /\ role' = [role EXCEPT ![t] = "follower"]
        /\ lock' = Append(Unqueued(t), t)
    BY <1>3 DEF Stopped, Alive
  <2>2. PICK e : epoch' = [epoch EXCEPT ![t] = e]
    BY <1>3 DEF Stopped
  <2> QED BY <2>1, <2>2, ReleaseStep
<1>4. ASSUME NEW t \in Tabs, Disposed(t) \/ Crash(t) PROVE Owned'
  <2>1. /\ UNCHANGED <<hidden, stored>> /\ hidden[t] # "cached" /\ happened \subseteq happened'
        /\ runtime' = [runtime EXCEPT ![t] = "none"] /\ role' = [role EXCEPT ![t] = "gone"]
        /\ lock' = Unqueued(t) /\ epoch' = epoch
    BY <1>4 DEF Disposed, Crash, Leave, Alive, Accident
  <2>2. epoch' = [epoch EXCEPT ![t] = epoch[t]]
    BY <2>1 DEF Owned, Typed
  <2> QED BY <2>1, <2>2, ReleaseStep
<1>5. ASSUME NEW t \in Tabs, Dispose(t) PROVE Owned'
  <2>1. /\ UNCHANGED <<role, epoch, lock, stored>> /\ happened \subseteq happened' /\ hidden[t] = "shown"
        /\ runtime' = [runtime EXCEPT ![t] = IF Live(t) THEN "stopping" ELSE @]
        /\ hidden' = [hidden EXCEPT ![t] = "closing"]
        /\ ("freeze" \notin happened' => "freeze" \notin happened)
    BY <1>5 DEF Dispose, Alive, Accident
  <2>2. Owns(t)'
    BY <2>1 DEF Owned, Typed, Owns, Live, Holds
  <2> QED BY <2>1, <2>2, OwnRuntimeStep DEF Owned, Typed
<1>6. ASSUME NEW t \in Tabs, Hide(t) PROVE Owned'
  <2>1. /\ UNCHANGED <<role, epoch, runtime, lock, stored>> /\ happened' = happened \cup {"freeze"}
        /\ hidden[t] = "shown" /\ Live(t) /\ hidden' = [hidden EXCEPT ![t] = "cached"]
    BY <1>6 DEF Hide, Alive, Accident
  <2>2. Owns(t)'
    BY <2>1 DEF Owned, Typed, Owns, Live, Holds
  <2> QED BY <2>1, <2>2, OwnRuntimeStep DEF Owned, Typed
<1>7. ASSUME NEW t \in Tabs,
             Done(t) \/ ReadTimeout(t) \/ TakeTimeout(t)
               \/ \E kind \in {"read", "command", "change"} : AskFor(t, kind)
      PROVE  Owned'
  <2>1. UNCHANGED <<role, hidden, runtime, epoch, lock, stored>> /\ happened \subseteq happened'
    BY <1>7 DEF Done, ReadTimeout, TakeTimeout, AskFor, Accident
  <2> QED BY <2>1, UnmovedStep
<1>8. ASSUME NEW x \in serving, Serve(x) PROVE Owned'
  BY <1>8, UnmovedStep DEF Serve
<1>9. CASE UNCHANGED tabsVars
  BY <1>9, UnmovedStep DEF tabsVars
<1> QED
  BY <1>1, <1>2, <1>3, <1>4, <1>5, <1>6, <1>7, <1>8, <1>9,
     LoadOwned, BecomeWriterOwned, ShowOwned
  DEF TabsNext, Proceed, Progress, Happen

LEMMA OwnedMeansOne == Owned => OneRuntime
<1> SUFFICES ASSUME Owned, NEW s \in Tabs, NEW t \in Tabs,
                    runtime[s] # "none", runtime[t] # "none", s # t
             PROVE  "freeze" \in happened /\ \E u \in {s, t} : hidden[u] = "cached" \/ runtime[u] = "stopping"
  BY DEF OneRuntime
<1>1. "freeze" \in happened
  BY DEF Owned, Owns, Holds
<1>2. ~(Holds(s) /\ Holds(t))
  BY DEF Holds
<1>3. \A u \in {s, t} : hidden[u] = "cached" \/ runtime[u] = "stopping" \/ Holds(u)
  BY DEF Owned, Typed, Owns, Live
<1> QED BY <1>1, <1>2, <1>3

(***************************************************************************)
(* Whoever yields, closes, crashes or comes back from the cache, and       *)
(* whatever the tabs tell each other: never two runtimes at work.          *)
(***************************************************************************)
THEOREM Alone == TabsSpec => []OneRuntime
<1>1. Owned => OneRuntime
  BY OwnedMeansOne
<1> QED BY InitOwned, StepOwned, <1>1, PTL DEF TabsSpec

-----------------------------------------------------------------------------
(***************************************************************************)
(* The tabs implement the ownership of a session.  A tab that writes holds *)
(* the lock, so there is one at most, before a step and after it; and a    *)
(* step makes one tab start or stop to write, so that between two writers  *)
(* there is a state with none.                                             *)
(***************************************************************************)
LEMMA WriterHolds == ASSUME Owned, NEW t \in Tabs, Writes(t) PROVE Holds(t)
BY DEF Writes, Live, Owned, Owns

LEMMA OneWrites ==
  ASSUME Owned, NEW s \in Tabs, NEW t \in Tabs, Writes(s), Writes(t)
  PROVE  s = t
<1>1. Holds(s) /\ Holds(t)
  BY WriterHolds
<1> QED BY <1>1 DEF Holds

(* A tab whose runtime, page and epoch are left alone. *)
LEMMA WritesOn ==
  ASSUME NEW u \in Tabs, stored' = stored, runtime'[u] = runtime[u], hidden'[u] = hidden[u],
         runtime[u] # "none" => epoch'[u] = epoch[u]
  PROVE  Writes(u)' <=> Writes(u)
BY DEF Writes, Live

(* A step of one tab: it takes the session, gives it, or neither. *)
LEMMA OneTabRefines ==
  ASSUME Owned, Owned', NEW t \in Tabs, role[t] # "gone",
         \A u \in Tabs : role'[u] = "gone" <=> role[u] = "gone",
         \A u \in Tabs \ {t} : Writes(u)' <=> Writes(u)
  PROVE  [Ownership!Next]_(Ownership!ownershipVars)
<1> DEFINE live == {u \in Tabs : role[u] # "gone"}
           all == {u \in Tabs : Writes(u)}
           writers == [s \in {"app"} |-> all]
<1>0. live' = live /\ t \in live
  OBVIOUS
<1>1. CASE Writes(t)' <=> Writes(t)
  <2>1. all' = all
    BY <1>1
  <2>2. writers' = writers
    BY <2>1
  <2> QED BY <1>0, <2>2 DEF Ownership!ownershipVars
<1>2. CASE Writes(t) /\ ~Writes(t)'
  <2>1. all = {t} /\ all' = {}
    BY <1>2, OneWrites
  <2>2. writers["app"] = {t} /\ writers' = [writers EXCEPT !["app"] = {}]
    BY <2>1
  <2>3. Ownership!Give(t, "app")
    BY <1>0, <2>2 DEF Ownership!Give
  <2> QED BY <2>3 DEF Ownership!Next
<1>3. CASE ~Writes(t) /\ Writes(t)'
  <2>1. ASSUME NEW u \in Tabs, Writes(u) PROVE FALSE
    <3>1. Writes(u)' /\ u # t
      BY <1>3, <2>1
    <3>2. Holds(u)' /\ Holds(t)'
      BY <1>3, <3>1 DEF Writes, Live, Owned, Owns
    <3> QED BY <3>1, <3>2 DEF Holds
  <2>2. all = {} /\ all' = {t}
    BY <1>3, <2>1
  <2>3. writers["app"] = {} /\ writers' = [writers EXCEPT !["app"] = {t}]
    BY <2>2
  <2>4. Ownership!Take(t, "app")
    BY <1>0, <2>3 DEF Ownership!Take
  <2> QED BY <2>4 DEF Ownership!Next
<1> QED BY <1>1, <1>2, <1>3

(* Most steps: the other tabs keep their runtimes, pages and epochs. *)
LEMMA LocalRefines ==
  ASSUME Owned, Owned', NEW t \in Tabs, role[t] # "gone", stored' = stored,
         \A u \in Tabs : role'[u] = "gone" <=> role[u] = "gone",
         \A u \in Tabs \ {t} : /\ runtime'[u] = runtime[u] /\ hidden'[u] = hidden[u]
                               /\ epoch'[u] = epoch[u]
  PROVE  [Ownership!Next]_(Ownership!ownershipVars)
<1>1. ASSUME NEW u \in Tabs \ {t} PROVE Writes(u)' <=> Writes(u)
  BY WritesOn
<1> QED BY <1>1, OneTabRefines

(* Another tab that is being disposed of, or left the page, does not write *)
(* when the lock is granted; its epoch is then an old one.                 *)
LEMMA BecomeWriterRefines ==
  ASSUME Owned, Owned', NEW t \in Tabs, BecomeWriter(t)
  PROVE  [Ownership!Next]_(Ownership!ownershipVars)
<1>1. /\ role[t] \in {"candidate", "follower"} /\ role' = [role EXCEPT ![t] = "writer"]
      /\ Granted # <<>> /\ Head(Granted) = t /\ stored' = stored + 1 /\ stored \in Nat
  BY DEF BecomeWriter, NextEpoch, Owned, Typed
<1>2. ASSUME NEW u \in Tabs \ {t} PROVE Writes(u)' <=> Writes(u)
  <2>1. runtime'[u] = runtime[u] /\ hidden'[u] = hidden[u] /\ epoch'[u] = epoch[u]
    BY DEF BecomeWriter, Owned, Typed
  <2>2. ~Writes(u)
    <3> SUFFICES ASSUME Writes(u) PROVE FALSE
      OBVIOUS
    <3>1. Holds(u) /\ hidden[u] # "cached"
      BY WriterHolds DEF Writes
    <3>2. Granted = lock
      BY <3>1 DEF Granted, Holds
    <3> QED BY <1>1, <3>1, <3>2 DEF Holds
  <2>3. runtime[u] # "none" => epoch[u] \in Nat /\ epoch[u] <= stored
    BY DEF Owned, Owns
  <2> QED BY <1>1, <2>1, <2>2, <2>3 DEF Writes, Live
<1>3. \A u \in Tabs : role'[u] = "gone" <=> role[u] = "gone"
  BY <1>1 DEF Owned, Typed
<1> QED BY <1>1, <1>2, <1>3, OneTabRefines

(* A page that closes or crashes. *)
LEMMA LeaveRefines ==
  ASSUME Owned, NEW t \in Open, Leave(t), hidden' = hidden
  PROVE  Ownership!Next
<1> DEFINE live == {u \in Tabs : role[u] # "gone"}
           all == {u \in Tabs : Writes(u)}
           writers == [s \in {"app"} |-> all]
<1>1. /\ t \in live /\ t \in Tabs /\ role' = [role EXCEPT ![t] = "gone"]
      /\ runtime' = [runtime EXCEPT ![t] = "none"] /\ UNCHANGED <<hidden, epoch, stored>>
  BY DEF Leave, Open
<1>2. live' = live \ {t}
  BY <1>1 DEF Owned, Typed
<1>3. ASSUME NEW u \in Tabs \ {t} PROVE Writes(u)' <=> Writes(u)
  BY <1>1, WritesOn DEF Owned, Typed
<1>4. ~Writes(t)'
  BY <1>1 DEF Writes, Live, Owned, Typed
<1>5. all' = all \ {t}
  BY <1>3, <1>4
<1>6. writers' = [s \in {"app"} |-> writers[s] \ {t}]
  BY <1>5
<1>7. Ownership!Die(t)
  BY <1>1, <1>2, <1>6 DEF Ownership!Die
<1> QED BY <1>1, <1>7 DEF Ownership!Next

LEMMA TabsStepRefines ==
  ASSUME Owned, Owned', [TabsNext]_tabsVars
  PROVE  [Ownership!Next]_(Ownership!ownershipVars)
<1> USE DEF page, browser
<1> DEFINE Goal == [Ownership!Next]_(Ownership!ownershipVars)
<1>1. ASSUME NEW r \in Tabs, role[r] # "gone",
             UNCHANGED <<role, hidden, runtime, epoch, stored>>
      PROVE  Goal
  BY <1>1, LocalRefines
<1>2. ASSUME NEW s \in Tabs, NEW r \in Tabs, ReceiveAny(s, r) PROVE Goal
  <2>1. role[r] # "gone"
    BY <1>2 DEF ReceiveAny, ReceiveHello, ReceiveStatus, ReceiveYield, ReceiveRequest,
                ReceiveResponse, Arrives, Alive, Open
  <2>2. CASE ReceiveHello(s, r) \/ ReceiveRequest(s, r) \/ ReceiveResponse(s, r)
    BY <1>1, <2>1, <2>2 DEF ReceiveHello, ReceiveRequest, ReceiveResponse
  <2>3. CASE ReceiveStatus(s, r)
    <3>1. UNCHANGED <<hidden, runtime, stored>>
      BY <2>3 DEF ReceiveStatus
    <3>2. /\ role' = role \/ role' = [role EXCEPT ![r] = "follower"]
          /\ epoch' = epoch \/ \E e : epoch' = [epoch EXCEPT ![r] = e]
      BY <2>3 DEF ReceiveStatus
    <3>3. \A u \in Tabs : role'[u] = "gone" <=> role[u] = "gone"
      BY <2>1, <3>2 DEF Owned, Typed
    <3>4. \A u \in Tabs \ {r} : epoch'[u] = epoch[u]
      BY <3>2 DEF Owned, Typed
    <3> QED BY <2>1, <3>1, <3>3, <3>4, LocalRefines
  <2>4. CASE ReceiveYield(s, r)
    <3>1. UNCHANGED <<role, hidden, epoch, stored>>
      BY <2>4 DEF ReceiveYield
    <3>2. runtime' = runtime \/ runtime' = [runtime EXCEPT ![r] = "stopping"]
      BY <2>4 DEF ReceiveYield, StopWriter
    <3>3. \A u \in Tabs \ {r} : runtime'[u] = runtime[u]
      BY <3>2 DEF Owned, Typed
    <3> QED BY <2>1, <3>1, <3>3, LocalRefines
  <2> QED BY <1>2, <2>2, <2>3, <2>4 DEF ReceiveAny
<1>3. ASSUME NEW t \in Tabs, Boot(t) \/ BootIsRejected(t) PROVE Goal
  <2>1. PICK h \in {"ready", "broken"} : runtime' = [runtime EXCEPT ![t] = h]
    BY <1>3 DEF Boot, BootIsRejected
  <2>2. UNCHANGED <<role, hidden, epoch, stored>> /\ role[t] # "gone"
    BY <1>3 DEF Boot, BootIsRejected, Alive, Open
  <2> QED BY <2>1, <2>2, LocalRefines DEF Owned, Typed
<1>4. ASSUME NEW t \in Tabs, Stopped(t) PROVE Goal
  <2>1. /\ UNCHANGED <<hidden, stored>> /\ role[t] # "gone"
        /\ runtime' = [runtime EXCEPT ![t] = "none"] /\ role' = [role EXCEPT ![t] = "follower"]
    BY <1>4 DEF Stopped, Alive, Open
  <2>2. PICK e : epoch' = [epoch EXCEPT ![t] = e]
    BY <1>4 DEF Stopped
  <2> QED BY <2>1, <2>2, LocalRefines DEF Owned, Typed
<1>5. ASSUME NEW t \in Tabs, Disposed(t) \/ Crash(t) PROVE Goal
  BY <1>5, LeaveRefines DEF Disposed, Crash, Alive
<1>6. ASSUME NEW t \in Tabs, Load(t) PROVE Goal
  <2>1. PICK k \in {"candidate", "follower"} : role' = [role EXCEPT ![t] = k]
    BY <1>6 DEF Load
  <2>2. PICK e : epoch' = [epoch EXCEPT ![t] = e]
    BY <1>6 DEF Load
  <2>3. UNCHANGED <<hidden, runtime, stored>> /\ role[t] # "gone"
    BY <1>6 DEF Load
  <2> QED BY <2>1, <2>2, <2>3, LocalRefines DEF Owned, Typed
<1>7. ASSUME NEW t \in Tabs, Dispose(t) \/ Hide(t) \/ Show(t) PROVE Goal
  <2>1. UNCHANGED <<role, epoch, stored>>
    BY <1>7 DEF Dispose, Hide, Show
  <2>2. role[t] # "gone"
    <3>1. CASE Dispose(t) \/ Hide(t)
      BY <3>1 DEF Dispose, Hide, Alive, Open
    <3>2. CASE Show(t)
      BY <3>2 DEF Show, Owned, Owns, Live
    <3> QED BY <1>7, <3>1, <3>2
  <2>3. PICK h : hidden' = [hidden EXCEPT ![t] = h]
    BY <1>7 DEF Dispose, Hide, Show
  <2>4. runtime' = runtime \/ \E k \in {"stopping", runtime[t]} : runtime' = [runtime EXCEPT ![t] = k]
    BY <1>7 DEF Dispose, Hide, Show, StopWriter
  <2>5. \A u \in Tabs \ {t} : runtime'[u] = runtime[u] /\ hidden'[u] = hidden[u]
    BY <2>3, <2>4 DEF Owned, Typed
  <2> QED BY <2>1, <2>2, <2>5, LocalRefines
<1>8. ASSUME NEW t \in Tabs, \/ Done(t) \/ ReadTimeout(t) \/ TakeTimeout(t)
                             \/ \E kind \in {"read", "command", "change"} : AskFor(t, kind)
      PROVE Goal
  BY <1>1, <1>8 DEF Done, ReadTimeout, TakeTimeout, AskFor, Alive, Open
<1>9. ASSUME NEW x \in serving, Serve(x) PROVE Goal
  BY <1>1, <1>9 DEF Serve, Alive, Open
<1>10. CASE UNCHANGED tabsVars
  <2>1. \A u \in Tabs : Writes(u)' <=> Writes(u)
    BY <1>10, WritesOn DEF tabsVars
  <2> QED BY <1>10, <2>1 DEF tabsVars, Ownership!ownershipVars
<1> QED
  BY <1>2, <1>3, <1>4, <1>5, <1>6, <1>7, <1>8, <1>9, <1>10, BecomeWriterRefines
  DEF TabsNext, Proceed, Progress, Happen

LEMMA TabsInitRefines == ASSUME TabsInit PROVE Ownership!HeldInit
<1> USE HostedTabsAssumption DEF TabsInit
<1>1. {t \in Tabs : role[t] # "gone"} = Tabs
  OBVIOUS
<1>2. {t \in Tabs : Writes(t)} = {First}
  BY DEF Writes, Live
<1>3. {First} \in {{p} : p \in Tabs}
  OBVIOUS
<1> QED BY <1>1, <1>2, <1>3 DEF Ownership!HeldInit

(***************************************************************************)
(* Hand-overs between tabs are those of a session: whoever yields, closes, *)
(* crashes, or comes back from the cache, the next writer takes a session  *)
(* nobody writes any more.                                                 *)
(***************************************************************************)
THEOREM TabsImplement == TabsSpec => TabsImplementOwnership
<1>1. Owned /\ Owned' /\ [TabsNext]_tabsVars => [Ownership!Next]_(Ownership!ownershipVars)
  BY TabsStepRefines
<1> QED BY InitOwned, StepOwned, TabsInitRefines, <1>1, PTL
        DEF TabsSpec, TabsImplementOwnership, Ownership!HeldSpec

-----------------------------------------------------------------------------
(***************************************************************************)
(* What a tab's user waits for.  A tab that is not loaded waits for        *)
(* nothing, and one that waits for another's answer is a follower of it.   *)
(***************************************************************************)
Operation(o) ==
  o = [kind |-> o.kind, phase |-> o.phase, try |-> o.try, id |-> o.id, asked |-> o.asked,
       epoch |-> o.epoch, target |-> o.target, result |-> o.result]

Shaped ==
  /\ epoch = [t \in Tabs |-> epoch[t]] /\ writer = [t \in Tabs |-> writer[t]]
  /\ op = [t \in Tabs |-> op[t]]

WaitsRight(t) ==
  /\ Operation(op[t])
  /\ role[t] \in {"new", "gone"} => op[t].phase = "idle"
  /\ op[t].phase = "pending" =>
       role[t] # "writer" /\ op[t].epoch = epoch[t] /\ op[t].target \in {writer[t], None}

Waiting == Shaped /\ \A t \in Tabs : WaitsRight(t)

LEMMA EndedIdle ==
  ASSUME NEW o, Operation(o), NEW result
  PROVE  Operation(Ended(o, result)) /\ Ended(o, result).phase = "idle"
<1> DEFINE k == o.kind
<1> HIDE DEF k
<1>1. Ended(o, result) =
        [kind |-> k, phase |-> "idle", try |-> 0, id |-> 0, asked |-> None,
         epoch |-> 0, target |-> None, result |-> result]
  <2> DEFINE none == NoOp
  <2>1. none = [kind |-> "read", phase |-> "idle", try |-> 0, id |-> 0, asked |-> None,
                epoch |-> 0, target |-> None, result |-> "none"]
    BY DEF NoOp
  <2> HIDE DEF none
  <2>2. Ended(o, result) = [none EXCEPT !.kind = k, !.result = result]
    BY DEF Ended, k, none
  <2> QED BY <2>1, <2>2
<1> QED BY <1>1 DEF Operation

LEMMA Phase ==
  ASSUME NEW o, Operation(o), NEW ph
  PROVE  Operation([o EXCEPT !.phase = ph]) /\ [o EXCEPT !.phase = ph].phase = ph
BY DEF Operation

LEMMA Trial ==
  ASSUME NEW o, Operation(o), NEW n
  PROVE  /\ Operation([o EXCEPT !.try = n]) /\ [o EXCEPT !.try = n].phase = o.phase
         /\ [o EXCEPT !.try = n].epoch = o.epoch /\ [o EXCEPT !.try = n].target = o.target
BY DEF Operation

LEMMA ForwardedPending ==
  ASSUME NEW o, Operation(o), NEW e, NEW w
  PROVE  /\ Operation(Forwarded(o, e, w)) /\ Forwarded(o, e, w).phase = "pending"
         /\ Forwarded(o, e, w).epoch = e /\ Forwarded(o, e, w).target = w
<1> DEFINE k == o.kind  n == o.try  i == o.id  a == o.asked  r == o.result
<1>1. o = [kind |-> k, phase |-> o.phase, try |-> n, id |-> i, asked |-> a,
           epoch |-> o.epoch, target |-> o.target, result |-> r]
  BY DEF Operation
<1> HIDE DEF k, n, i, a, r
<1>2. Forwarded(o, e, w) =
        [kind |-> k, phase |-> "pending", try |-> n, id |-> i, asked |-> a,
         epoch |-> e, target |-> w, result |-> r]
  <2>1. Forwarded(o, e, w) = [o EXCEPT !.phase = "pending", !.epoch = e, !.target = w]
    BY DEF Forwarded
  <2> DEFINE o1 == [o EXCEPT !.phase = "pending"]
             o2 == [o1 EXCEPT !.epoch = e]
             o3 == [o2 EXCEPT !.target = w]
  <2>2. Forwarded(o, e, w) = o3
    BY <2>1, Zenon
  <2>3. o1 = [kind |-> k, phase |-> "pending", try |-> n, id |-> i, asked |-> a,
              epoch |-> o.epoch, target |-> o.target, result |-> r]
    BY <1>1
  <2> HIDE DEF o1
  <2>4. o2 = [kind |-> k, phase |-> "pending", try |-> n, id |-> i, asked |-> a,
              epoch |-> e, target |-> o.target, result |-> r]
    BY <2>3
  <2> HIDE DEF o2
  <2>5. o3 = [kind |-> k, phase |-> "pending", try |-> n, id |-> i, asked |-> a,
              epoch |-> e, target |-> w, result |-> r]
    BY <2>4
  <2> QED BY <2>2, <2>5
<1> QED BY <1>2 DEF Operation

LEMMA RejectedEnds ==
  ASSUME NEW o, Operation(o), NEW again, Operation(again)
  PROVE  /\ Operation(RejectPending(o, again))
         /\ \/ RejectPending(o, again) = o /\ o.phase # "pending"
            \/ RejectPending(o, again) = [again EXCEPT !.try = 2]
            \/ RejectPending(o, again).phase = "idle"
BY EndedIdle, Trial DEF RejectPending

LEMMA InitWaiting == TabsInit => Waiting
<1>1. Operation(NoOp) /\ NoOp.phase = "idle"
  BY DEF Operation, NoOp
<1> QED BY <1>1 DEF TabsInit, Waiting, Shaped, WaitsRight

(* Nothing happens to the operation of a tab, nor to the writer it follows. *)
LEMMA WaitsStill ==
  ASSUME NEW u \in Tabs, WaitsRight(u), op'[u] = op[u],
         (epoch'[u] = epoch[u] /\ writer'[u] = writer[u]) \/ op[u].phase # "pending",
         role'[u] = role[u] \/ role'[u] = "follower" \/ op[u].phase = "idle"
  PROVE  WaitsRight(u)'
BY DEF WaitsRight

(* One tab's operation changes: what it becomes is all there is to look at. *)
LEMMA OneChanges ==
  ASSUME Waiting, NEW t \in Tabs, NEW o,
         op' = [op EXCEPT ![t] = o],
         epoch' = [u \in Tabs |-> epoch'[u]], writer' = [u \in Tabs |-> writer'[u]],
         \A u \in Tabs \ {t} : role'[u] = role[u] /\ epoch'[u] = epoch[u] /\ writer'[u] = writer[u],
         Operation(o),
         \/ o.phase = "idle"
         \/ /\ role'[t] \notin {"new", "gone"}
            /\ o.phase = "pending" =>
                 role'[t] # "writer" /\ o.epoch = epoch'[t] /\ o.target \in {writer'[t], None}
  PROVE  Waiting'
<1>1. op'[t] = o /\ \A u \in Tabs \ {t} : op'[u] = op[u]
  BY DEF Waiting, Shaped
<1>2. op' = [u \in Tabs |-> op'[u]]
  BY DEF Waiting, Shaped
<1>3. WaitsRight(t)'
  BY <1>1 DEF WaitsRight
<1>4. ASSUME NEW u \in Tabs, u # t PROVE WaitsRight(u)'
  BY <1>1, <1>4, WaitsStill DEF Waiting
<1> QED BY <1>2, <1>3, <1>4 DEF Waiting, Shaped

LEMMA NobodyWaits ==
  ASSUME Waiting, UNCHANGED <<role, epoch, writer, op>>
  PROVE  Waiting'
<1>1. \A u \in Tabs : WaitsRight(u)'
  BY WaitsStill DEF Waiting
<1> QED BY <1>1 DEF Waiting, Shaped

LEMMA LoadWaiting ==
  ASSUME Owned, Waiting, NEW t \in Tabs, Load(t)
  PROVE  Waiting'
<1> DEFINE e == hint.epoch  w == hint.writer
           r == IF hint = NoHint THEN "candidate" ELSE "follower"
<1>1. /\ epoch' = [epoch EXCEPT ![t] = e] /\ writer' = [writer EXCEPT ![t] = w]
      /\ role' = [role EXCEPT ![t] = r] /\ UNCHANGED op /\ role[t] = "new"
  BY DEF Load
<1> HIDE DEF e, w, r
<1>2. Shaped'
  BY <1>1 DEF Waiting, Shaped
<1>3. ASSUME NEW u \in Tabs PROVE WaitsRight(u)'
  <2>1. u # t => epoch'[u] = epoch[u] /\ writer'[u] = writer[u] /\ role'[u] = role[u]
    BY <1>1 DEF Owned, Typed, Waiting, Shaped
  <2>2. op[t].phase = "idle"
    BY <1>1 DEF Waiting, WaitsRight
  <2> QED BY <1>1, <2>1, <2>2, WaitsStill DEF Waiting
<1> QED BY <1>2, <1>3 DEF Waiting

LEMMA BecomeWriterWaiting ==
  ASSUME Owned, Waiting, NEW t \in Tabs, BecomeWriter(t)
  PROVE  Waiting'
<1> DEFINE local == [op[t] EXCEPT !.phase = "local"]
           o == IF op[t].phase = "taking" THEN local ELSE RejectPending(op[t], local)
           n == NextEpoch(t)
<1>1. /\ op' = [op EXCEPT ![t] = o] /\ role' = [role EXCEPT ![t] = "writer"]
      /\ epoch' = [epoch EXCEPT ![t] = n] /\ writer' = [writer EXCEPT ![t] = t]
  BY DEF BecomeWriter
<1>2. Operation(op[t])
  BY DEF Waiting, WaitsRight
<1>3. Operation(local) /\ local.phase = "local"
  BY <1>2, Phase
<1> HIDE DEF local, n
<1>4. [local EXCEPT !.try = 2].phase = "local"
  BY <1>3, Trial
<1>5. Operation(o) /\ o.phase # "pending"
  BY <1>2, <1>3, <1>4, RejectedEnds
<1> HIDE DEF o
<1>6. role'[t] = "writer"
  BY <1>1 DEF Owned, Typed
<1>7. /\ \A u \in Tabs \ {t} : role'[u] = role[u] /\ epoch'[u] = epoch[u] /\ writer'[u] = writer[u]
      /\ epoch' = [u \in Tabs |-> epoch'[u]] /\ writer' = [u \in Tabs |-> writer'[u]]
  BY <1>1 DEF Owned, Typed, Waiting, Shaped
<1> QED BY <1>1, <1>5, <1>6, <1>7, OneChanges

LEMMA StoppedWaiting ==
  ASSUME Owned, Waiting, NEW t \in Tabs, Stopped(t)
  PROVE  Waiting'
<1> DEFINE e == IF FollowsHint(t) THEN hint.epoch ELSE epoch[t]
           w == IF FollowsHint(t) THEN hint.writer ELSE None
<1>1. /\ epoch' = [epoch EXCEPT ![t] = e] /\ writer' = [writer EXCEPT ![t] = w]
      /\ role' = [role EXCEPT ![t] = "follower"]
  BY DEF Stopped
<1> HIDE DEF e, w
<1>2. /\ epoch'[t] = e /\ writer'[t] = w /\ role'[t] = "follower"
      /\ \A u \in Tabs \ {t} : role'[u] = role[u] /\ epoch'[u] = epoch[u] /\ writer'[u] = writer[u]
      /\ epoch' = [u \in Tabs |-> epoch'[u]] /\ writer' = [u \in Tabs |-> writer'[u]]
  BY <1>1 DEF Owned, Typed, Waiting, Shaped
<1>3. Operation(op[t]) /\ op[t].phase # "pending"
  <2>1. role[t] = "writer"
    BY DEF Stopped, Owned, Owns
  <2> QED BY <2>1 DEF Waiting, WaitsRight
<1>4. CASE op[t].phase = "local" /\ TriesAgain(op[t])
  <2> DEFINE f == Forwarded(op[t], e, w)
             o == [f EXCEPT !.try = 2]
  <2>1. op' = [op EXCEPT ![t] = o]
    BY <1>2, <1>4 DEF Stopped
  <2>2. Operation(f) /\ f.phase = "pending" /\ f.epoch = e /\ f.target = w
    BY <1>3, ForwardedPending
  <2> HIDE DEF f
  <2>3. Operation(o) /\ o.epoch = e /\ o.target = w
    BY <2>2, Trial
  <2> HIDE DEF o
  <2> QED BY <2>1, <2>3, <1>2, OneChanges
<1>5. CASE ~(op[t].phase = "local" /\ TriesAgain(op[t]))
  <2> DEFINE o == IF op[t].phase = "local" THEN Ended(op[t], "changed") ELSE op[t]
  <2>1. op' = [op EXCEPT ![t] = o]
    BY <1>5 DEF Stopped
  <2>2. Operation(o) /\ o.phase # "pending"
    BY <1>3, EndedIdle
  <2> HIDE DEF o
  <2> QED BY <2>1, <2>2, <1>2, OneChanges
<1> QED BY <1>4, <1>5

(* A runtime that stops: its own tab's operation ends, or is what it was. *)
LEMMA StopWriterWaiting ==
  ASSUME Waiting, NEW t \in Tabs, StopWriter(t), UNCHANGED <<role, epoch, writer>>
  PROVE  Waiting'
<1>1. PICK o \in OwnAfterStop(t) : op' = [op EXCEPT ![t] = o]
  BY DEF StopWriter
<1>2. WaitsRight(t)
  BY DEF Waiting
<1>3. CASE o = op[t]
  <2>1. op' = op
    BY <1>1, <1>3 DEF Waiting, Shaped
  <2> QED BY <2>1, NobodyWaits
<1>4. CASE o # op[t]
  <2>1. PICK result \in {"restarted", "changed"} : o = Ended(op[t], result)
    BY <1>1, <1>4 DEF OwnAfterStop
  <2>2. Operation(o) /\ o.phase = "idle"
    BY <1>2, <2>1, EndedIdle DEF WaitsRight
  <2> QED BY <1>1, <2>2, OneChanges DEF Waiting, Shaped
<1> QED BY <1>3, <1>4

(* What takeWriter makes of an operation: it waits for the lock, or fails. *)
LEMMA TakesWaiting ==
  ASSUME Waiting, NEW t \in Tabs, NEW o, Operation(o), Takes(t, o), t \in Open,
         UNCHANGED <<role, epoch, writer>>
  PROVE  Waiting'
<1> DEFINE ends == Ended(o, "unavailable")
           takes == [o EXCEPT !.phase = "taking", !.asked = writer[t]]
<1>1. Operation(ends) /\ ends.phase = "idle"
  BY EndedIdle
<1>2. Operation(takes) /\ takes.phase = "taking"
  <2> DEFINE o1 == [o EXCEPT !.phase = "taking"]
  <2>1. Operation(o1) /\ o1.phase = "taking"
    BY Phase
  <2>2. takes = [o1 EXCEPT !.asked = writer[t]]
    BY Zenon
  <2> HIDE DEF o1, takes
  <2> QED BY <2>1, <2>2 DEF Operation
<1>3. op' = [op EXCEPT ![t] = ends] \/ op' = [op EXCEPT ![t] = takes]
  BY DEF Takes
<1> HIDE DEF ends, takes
<1>4. role'[t] \notin {"new", "gone"}
  BY DEF Open
<1> QED BY <1>1, <1>2, <1>3, <1>4, OneChanges DEF Waiting, Shaped

LEMMA BeginsWaiting ==
  ASSUME Waiting, NEW t \in Tabs, NEW o, Operation(o), Begins(t, o), t \in Open,
         UNCHANGED <<role, epoch, writer>>
  PROVE  Waiting'
<1>1. CASE role[t] = "writer"
  <2> DEFINE n == IF Live(t) THEN [o EXCEPT !.phase = "local"] ELSE Ended(o, "changed")
  <2>1. op' = [op EXCEPT ![t] = n]
    BY <1>1 DEF Begins
  <2>2. Operation(n) /\ n.phase \in {"local", "idle"}
    BY Phase, EndedIdle
  <2> HIDE DEF n
  <2> QED BY <1>1, <2>1, <2>2, OneChanges DEF Waiting, Shaped
<1>2. CASE role[t] # "writer" /\ o.kind = "change"
  BY <1>2, TakesWaiting DEF Begins
<1>3. CASE role[t] # "writer" /\ o.kind # "change"
  <2> DEFINE e == epoch[t]  w == writer[t]
             n == Forwarded(o, e, w)
  <2>1. op' = [op EXCEPT ![t] = n] /\ epoch'[t] = e /\ writer'[t] = w
    BY <1>3 DEF Begins
  <2>2. Operation(n) /\ n.epoch = e /\ n.target = w
    BY ForwardedPending
  <2>3. role'[t] \notin {"new", "gone", "writer"}
    BY <1>3 DEF Open
  <2> HIDE DEF n, e, w
  <2> QED BY <2>1, <2>2, <2>3, OneChanges DEF Waiting, Shaped
<1> QED BY <1>1, <1>2, <1>3

LEMMA AskWaiting ==
  ASSUME Waiting, NEW t \in Tabs, NEW kind, AskFor(t, kind)
  PROVE  Waiting'
<1> DEFINE n == asked + 1
           o == [NoOp EXCEPT !.kind = kind, !.try = 1, !.id = n]
<1>1. Operation(o)
  <2> DEFINE none == NoOp
  <2>1. Operation(none)
    BY DEF NoOp, Operation
  <2> HIDE DEF none, n
  <2> DEFINE o1 == [none EXCEPT !.kind = kind]
             o2 == [o1 EXCEPT !.try = 1]
             o3 == [o2 EXCEPT !.id = n]
  <2>2. o = o3
    BY Zenon DEF none
  <2>3. Operation(o1)
    BY <2>1 DEF Operation
  <2> HIDE DEF o1
  <2>4. Operation(o2)
    BY <2>3, Trial
  <2> HIDE DEF o2
  <2>5. Operation(o3)
    BY <2>4 DEF Operation
  <2> QED BY <2>2, <2>5
<1>2. Begins(t, o) /\ t \in Open /\ UNCHANGED <<role, epoch, writer>>
  BY DEF AskFor, Alive, page
<1> HIDE DEF o
<1> QED BY <1>1, <1>2, BeginsWaiting

(* The operation of a tab ends, and the writers stay who they are. *)
LEMMA EndsWaiting ==
  ASSUME Waiting, NEW t \in Tabs, NEW o, Operation(o), o.phase = "idle",
         op' = [op EXCEPT ![t] = o], UNCHANGED <<epoch, writer>>,
         \A u \in Tabs \ {t} : role'[u] = role[u]
  PROVE  Waiting'
BY OneChanges DEF Waiting, Shaped

(* A tab hears of a writer: what waits for another one is tried again there. *)
LEMMA StatusWaiting ==
  ASSUME Owned, Waiting, NEW s \in Tabs, NEW r \in Tabs, ReceiveStatus(s, r)
  PROVE  Waiting'
<1> DEFINE m == Head(chan[<<s, r>>])
           e == m.epoch  w == m.target
           again == Forwarded(op[r], e, w)
           asks == [op[r] EXCEPT !.asked = w]
           o == IF AsksAgain(r, m) THEN asks
                ELSE IF OtherWriter(r, m) THEN RejectPending(op[r], again) ELSE op[r]
<1>1. CASE IsNews(r, m)
  <2>1. /\ role' = [role EXCEPT ![r] = "follower"]
        /\ epoch' = [epoch EXCEPT ![r] = e] /\ writer' = [writer EXCEPT ![r] = w]
        /\ op' = [op EXCEPT ![r] = o]
    BY <1>1 DEF ReceiveStatus
  <2>2. WaitsRight(r)
    BY DEF Waiting
  <2>3. AsksAgain(r, m) => Operation(asks) /\ asks.phase # "pending"
    <3> HIDE DEF w
    <3> QED BY <2>2 DEF WaitsRight, AsksAgain, Operation
  <2>4. Operation(again) /\ again.epoch = e /\ again.target = w
    BY <2>2, ForwardedPending DEF WaitsRight
  <2>5. /\ Operation(RejectPending(op[r], again))
        /\ RejectPending(op[r], again).phase = "pending" =>
             /\ RejectPending(op[r], again).epoch = e
             /\ RejectPending(op[r], again).target = w
    <3> HIDE DEF again, e, w
    <3>1. Operation(op[r])
      BY <2>2 DEF WaitsRight
    <3>2. [again EXCEPT !.try = 2].epoch = e /\ [again EXCEPT !.try = 2].target = w
      BY <2>4, Trial
    <3> QED BY <2>4, <3>1, <3>2, RejectedEnds
  <2>6. ~OtherWriter(r, m) => e = epoch[r] /\ writer[r] \in {w, None}
    BY DEF OtherWriter
  <2>7. Operation(o) /\ (o.phase = "pending" => o.epoch = e /\ o.target \in {w, None})
    <3> HIDE DEF again, asks, e, w
    <3>1. CASE AsksAgain(r, m)
      BY <3>1, <2>3
    <3>2. CASE ~AsksAgain(r, m) /\ OtherWriter(r, m)
      BY <3>2, <2>5
    <3>3. CASE ~AsksAgain(r, m) /\ ~OtherWriter(r, m)
      BY <3>3, <2>2, <2>6 DEF WaitsRight
    <3> QED BY <3>1, <3>2, <3>3
  <2> HIDE DEF e, w, o
  <2>8. /\ role'[r] = "follower" /\ epoch'[r] = e /\ writer'[r] = w
        /\ \A u \in Tabs \ {r} : role'[u] = role[u] /\ epoch'[u] = epoch[u] /\ writer'[u] = writer[u]
        /\ epoch' = [u \in Tabs |-> epoch'[u]] /\ writer' = [u \in Tabs |-> writer'[u]]
    BY <2>1 DEF Owned, Typed, Waiting, Shaped
  <2> QED BY <2>1, <2>7, <2>8, OneChanges
<1>2. CASE ~IsNews(r, m)
  <2> HIDE DEF m
  <2>1. UNCHANGED <<role, epoch, writer, op>>
    BY <1>2 DEF ReceiveStatus, m
  <2> QED BY <2>1, NobodyWaits
<1> QED BY <1>1, <1>2

LEMMA ResponseWaiting ==
  ASSUME Waiting, NEW s \in Tabs, NEW r \in Tabs, ReceiveResponse(s, r)
  PROVE  Waiting'
<1> DEFINE m == Head(chan[<<s, r>>])
           result == IF m.ok THEN "ok" ELSE "refused"
           o == IF m.epoch = epoch[r] /\ op[r].phase = "pending" /\ op[r].id = m.id
                  THEN Ended(op[r], result) ELSE op[r]
<1>1. op' = [op EXCEPT ![r] = o] /\ UNCHANGED <<role, epoch, writer>>
  BY DEF ReceiveResponse, page
<1>2. WaitsRight(r)
  BY DEF Waiting
<1> HIDE DEF result
<1>3. CASE o = op[r]
  BY <1>1, <1>3, NobodyWaits DEF Waiting, Shaped
<1>4. CASE o # op[r]
  <2>1. Operation(o) /\ o.phase = "idle"
    BY <1>2, <1>4, EndedIdle DEF WaitsRight
  <2> HIDE DEF o
  <2> QED BY <1>1, <2>1, EndsWaiting
<1> QED BY <1>3, <1>4

LEMMA StepWaiting == Owned /\ Waiting /\ [TabsNext]_tabsVars => Waiting'
<1> SUFFICES ASSUME Owned, Waiting, [TabsNext]_tabsVars PROVE Waiting'
  OBVIOUS
<1> USE DEF page, browser
<1>1. ASSUME NEW s \in Tabs, NEW r \in Tabs, ReceiveAny(s, r) PROVE Waiting'
  <2>1. CASE ReceiveHello(s, r) \/ ReceiveRequest(s, r)
    BY <2>1, NobodyWaits DEF ReceiveHello, ReceiveRequest
  <2>2. CASE ReceiveYield(s, r)
    <3>1. UNCHANGED <<role, epoch, writer>>
      BY <2>2 DEF ReceiveYield
    <3>2. UNCHANGED op \/ StopWriter(r)
      BY <2>2 DEF ReceiveYield
    <3> QED BY <3>1, <3>2, NobodyWaits, StopWriterWaiting
  <2> QED BY <1>1, <2>1, <2>2, StatusWaiting, ResponseWaiting DEF ReceiveAny
<1>2. ASSUME NEW t \in Tabs, Boot(t) \/ BootIsRejected(t) \/ Hide(t) PROVE Waiting'
  BY <1>2, NobodyWaits DEF Boot, BootIsRejected, Hide
<1>3. ASSUME NEW t \in Tabs, Disposed(t) \/ Crash(t) \/ Dispose(t) PROVE Waiting'
  <2>1. Operation(NoOp) /\ NoOp.phase = "idle"
    BY DEF NoOp, Operation
  <2>2. op' = [op EXCEPT ![t] = NoOp] /\ UNCHANGED <<epoch, writer>>
    BY <1>3 DEF Disposed, Crash, Dispose, Leave
  <2>3. role' = role \/ role' = [role EXCEPT ![t] = "gone"]
    BY <1>3 DEF Disposed, Crash, Dispose, Leave
  <2>4. \A u \in Tabs \ {t} : role'[u] = role[u]
    BY <2>3 DEF Owned, Typed
  <2> QED BY <2>1, <2>2, <2>4, EndsWaiting
<1>4. ASSUME NEW t \in Tabs, Show(t) PROVE Waiting'
  <2>1. UNCHANGED op \/ StopWriter(t)
    BY <1>4 DEF Show
  <2> QED BY <1>4, <2>1, NobodyWaits, StopWriterWaiting DEF Show
<1>5. ASSUME NEW t \in Tabs, Done(t) \/ TakeTimeout(t) PROVE Waiting'
  <2>1. PICK result : op' = [op EXCEPT ![t] = Ended(@, result)]
    BY <1>5 DEF Done, TakeTimeout
  <2> DEFINE o == Ended(op[t], result)
  <2>2. Operation(o) /\ o.phase = "idle"
    BY EndedIdle DEF Waiting, WaitsRight
  <2>3. op' = [op EXCEPT ![t] = o] /\ UNCHANGED <<role, epoch, writer>>
    BY <1>5, <2>1 DEF Done, TakeTimeout
  <2> HIDE DEF o
  <2> QED BY <2>2, <2>3, EndsWaiting
<1>6. ASSUME NEW t \in Tabs, ReadTimeout(t) PROVE Waiting'
  <2> DEFINE o == [op[t] EXCEPT !.try = 2]
             ended == Ended(op[t], "timeout")
  <2>1. Operation(o)
    BY Trial DEF Waiting, WaitsRight
  <2>2. t \in Open /\ UNCHANGED <<role, epoch, writer>>
    BY <1>6 DEF ReadTimeout, Alive
  <2>3. Operation(ended) /\ ended.phase = "idle"
    BY EndedIdle DEF Waiting, WaitsRight
  <2>4. Takes(t, o) \/ op' = [op EXCEPT ![t] = ended]
    BY <1>6 DEF ReadTimeout
  <2> HIDE DEF o, ended
  <2> QED BY <2>1, <2>2, <2>3, <2>4, TakesWaiting, EndsWaiting
<1>7. ASSUME NEW x \in serving, Serve(x) PROVE Waiting'
  BY <1>7, NobodyWaits DEF Serve
<1>8. CASE UNCHANGED tabsVars
  BY <1>8, NobodyWaits DEF tabsVars
<1> QED
  BY <1>1, <1>2, <1>3, <1>4, <1>5, <1>6, <1>7, <1>8,
     LoadWaiting, BecomeWriterWaiting, StoppedWaiting, AskWaiting
  DEF TabsNext, Proceed, Progress, Happen

(***************************************************************************)
(* A read that another tab is to answer waits for the writer its tab       *)
(* follows now, however often the writer changed while it waited.          *)
(***************************************************************************)
THEOREM WaitsForTheWriter == TabsSpec => []PendingFollowsWriter
<1>1. Owned /\ Waiting => PendingFollowsWriter
  BY DEF Waiting, WaitsRight, PendingFollowsWriter
<1> QED BY InitOwned, InitWaiting, StepOwned, StepWaiting, <1>1, PTL DEF TabsSpec

-----------------------------------------------------------------------------
(* HostedRuntime: types. *)

Marks == {"none", "pending", "done"}
Snapshots == [Saved -> Marks]
Archives == [data : Snapshots, state : {"none", "good", "bad"}]
Frames == [type : {"checkpoint", "response", "end", "refused"}, action : Actions,
           try : Nat, ok : BOOLEAN, data : Snapshots]
Requests == [phase : {"none", "boot", "sent", "cancelled", "saving", "ending"}, try : Nat]
ChatRuns == [phase : {"none", "admitting", "prompting", "running", "accepting", "failing"},
             try : Nat, for : Nat]

DiskTypes == archive \in Archives /\ backup \in Archives /\ queue \in Seq(Frames)
RequestTypes ==
  /\ request \in [Actions -> Requests]
  /\ view \in [Actions -> {"idle", "waiting", "ok", "failed", "over"}]
ProcessTypes ==
  /\ mem \in Snapshots /\ run \in [Runs -> ChatRuns] /\ out \in Seq(Frames)
  /\ DOMAIN held \subseteq Reads \cup Edits /\ \A a \in DOMAIN held : held[a] \in Snapshots
OtherTypes ==
  /\ host \in {"down", "booting", "ready"} /\ import \in {"no", "stored", "booted"}
  /\ seeded \in BOOLEAN /\ recovery \in BOOLEAN /\ spoiled \subseteq Saved
  /\ paid \in [Runs -> Nat]

RuntimeTyped == DiskTypes /\ RequestTypes /\ ProcessTypes /\ OtherTypes

LEMMA Kinds ==
  /\ Saved \subseteq Actions /\ Reads \subseteq Actions /\ Runs \subseteq Saved /\ Tools \subseteq Saved
  /\ Edits \subseteq Saved
  /\ \A a \in Reads : a \notin Saved
  /\ \A a \in Runs : a \notin Reads \cup Tools \cup Edits
  /\ \A a \in Tools : a \notin Edits
  /\ \A a \in Actions : a \in Reads \/ a \in Tools \/ a \in Edits \/ a \in Runs
BY HostedRuntimeAssumption DEF Actions, Saved

LEMMA Nothings ==
  Nothing \in Snapshots /\ NoArchive \in Archives /\ NoRequest \in Requests /\ NoRun \in ChatRuns
BY DEF Nothing, Snapshots, Marks, NoArchive, Archives, NoRequest, Requests, NoRun, ChatRuns

LEMMA Speaking ==
  ASSUME out \in Seq(Frames), NEW f \in Frames, Say(f)
  PROVE  /\ out' \in Seq(Frames) /\ out' # <<>> /\ Len(out') = Len(out) + 1
         /\ \A i \in 1..Len(out) : out'[i] = out[i]
         /\ out'[Len(out) + 1] = f
BY DEF Say

LEMMA FrameTyped ==
  ASSUME NEW type \in {"checkpoint", "response", "end", "refused"}, NEW a \in Actions, NEW try \in Nat,
         NEW ok \in BOOLEAN, mem' \in Snapshots
  PROVE  Frame(type, a, try, ok) \in Frames
BY DEF Frame, Frames

LEMMA MarkTyped ==
  ASSUME mem \in Snapshots, NEW a \in Saved, NEW m \in Marks
  PROVE  [mem EXCEPT ![a] = m] \in Snapshots
BY DEF Snapshots

LEMMA LeftTyped == ASSUME ProcessTypes, NEW r \in Runs, NEW left \in Left(r) PROVE left \in Marks
BY Kinds DEF ProcessTypes, Left, Snapshots, Marks

LEMMA FailingTyped ==
  ASSUME ProcessTypes, NEW r \in Runs, Failing(r), UNCHANGED held PROVE ProcessTypes'
<1>1. PICK left \in Left(r) : mem' = [mem EXCEPT ![r] = left]
  BY DEF Failing
<1>2. mem' \in Snapshots
  BY <1>1, LeftTyped, MarkTyped, Kinds DEF ProcessTypes
<1>3. run' \in [Runs -> ChatRuns]
  BY DEF Failing, ProcessTypes, ChatRuns
<1>4. run[r].try \in Nat
  BY DEF ProcessTypes, ChatRuns
<1>5. out' \in Seq(Frames)
  BY <1>2, <1>4, FrameTyped, Speaking, Kinds DEF Failing, ProcessTypes
<1> QED BY <1>2, <1>3, <1>5 DEF ProcessTypes

LEMMA EndsFailedTyped ==
  ASSUME ProcessTypes, NEW r \in Runs, EndsFailed(r), UNCHANGED held PROVE ProcessTypes'
<1>1. mem' \in Snapshots /\ run' \in [Runs -> ChatRuns] /\ run[r].for \in Nat
  BY Nothings DEF EndsFailed, ProcessTypes, ChatRuns
<1>2. out' \in Seq(Frames)
  BY <1>1, FrameTyped, Speaking, Kinds DEF EndsFailed, ProcessTypes
<1> QED BY <1>1, <1>2 DEF ProcessTypes

LEMMA UnsuccessfulTyped ==
  ASSUME ProcessTypes, NEW r \in Runs, Unsuccessful(r), UNCHANGED held PROVE ProcessTypes'
BY FailingTyped, EndsFailedTyped DEF Unsuccessful

LEMMA AcknowledgeTyped ==
  ASSUME ProcessTypes, NEW r \in Runs, NEW try, NEW ok, Acknowledge(r, try, ok), UNCHANGED held
  PROVE  ProcessTypes'
<1>1. CASE UNCHANGED <<mem, run, out>>
  BY <1>1 DEF ProcessTypes
<1>2. CASE Unsuccessful(r)
  BY <1>2, UnsuccessfulTyped
<1>3. CASE run' = [run EXCEPT ![r].phase = "prompting"] /\ UNCHANGED <<mem, out>>
  BY <1>3 DEF ProcessTypes, ChatRuns
<1>4. CASE /\ run' = [run EXCEPT ![r] = NoRun] /\ UNCHANGED mem
           /\ Say(Frame("end", r, run[r].for, TRUE))
  <2>1. mem' \in Snapshots /\ run' \in [Runs -> ChatRuns] /\ run[r].for \in Nat
    BY <1>4, Nothings DEF ProcessTypes, ChatRuns
  <2>2. out' \in Seq(Frames)
    BY <1>4, <2>1, FrameTyped, Speaking, Kinds DEF ProcessTypes
  <2> QED BY <2>1, <2>2 DEF ProcessTypes
<1>5. CASE EndsFailed(r)
  BY <1>5, EndsFailedTyped
<1> QED BY <1>1, <1>2, <1>3, <1>4, <1>5 DEF Acknowledge

LEMMA EndedTyped == ASSUME ProcessTypes, ProcessEnds PROVE ProcessTypes'
BY Nothings DEF ProcessTypes, ProcessEnds

LEMMA RejectTyped == ASSUME RequestTypes, RejectAll PROVE RequestTypes'
BY DEF RequestTypes, RejectAll, Requests

LEMMA RestoredTyped ==
  ASSUME DiskTypes, OtherTypes, Restored
  PROVE  archive' \in Archives /\ recovery' \in BOOLEAN /\ import' \in {"no", "stored", "booted"}
BY DEF DiskTypes, OtherTypes, Restored

LEMMA HeadIn == ASSUME NEW S, NEW s \in Seq(S), s # <<>> PROVE Head(s) \in S
OBVIOUS

LEMMA HeadTyped ==
  ASSUME RuntimeTyped
  PROVE  /\ queue # <<>> => Head(queue) \in Frames /\ Head(queue).action \in Actions
         /\ out # <<>> => Head(out) \in Frames /\ Head(out).action \in Actions
<1>1. queue \in Seq(Frames) /\ out \in Seq(Frames)
  BY DEF RuntimeTyped, DiskTypes, ProcessTypes
<1>2. ASSUME NEW f \in Frames PROVE f.action \in Actions
  BY DEF Frames
<1> QED BY <1>1, <1>2, HeadIn

\* What an action may do to the request and to the view of one action.
LEMMA RequestChanged ==
  ASSUME RequestTypes, NEW a \in Actions,
         NEW p \in {"none", "boot", "sent", "cancelled", "saving", "ending"},
         request' = [request EXCEPT ![a].phase = p],
         NEW v \in {"idle", "waiting", "ok", "failed", "over"},
         view' = [view EXCEPT ![a] = v] \/ view' = view
  PROVE  RequestTypes'
BY DEF RequestTypes, Requests

LEMMA RequestsTyped ==
  ASSUME RuntimeTyped, [Next]_vars
  PROVE  RequestTypes'
<1> USE DEF RuntimeTyped
<1>1. ASSUME NEW a \in Actions, Ask(a) PROVE RequestTypes'
  BY <1>1 DEF Ask, RequestTypes, Requests
<1>2. ASSUME NEW a \in Actions, IsSent(a), UNCHANGED view PROVE RequestTypes'
  BY <1>2 DEF IsSent, RequestTypes, Requests
<1>3. ASSUME NEW a \in Actions, Capture(a) \/ Invoke(a) \/ Admit(a) PROVE RequestTypes'
  BY <1>2, <1>3, Zenon DEF Capture, Invoke, Admit
<1>4. CASE RejectAll
  BY <1>4, RejectTyped
<1>5. CASE Reload
  BY <1>5 DEF Reload, RequestTypes, Requests
<1>6. CASE Receive
  <2>1. Head(out) \in Frames
    BY <1>6 DEF Receive, ProcessTypes
  <2> DEFINE f == Head(out)
             a == f.action
  <2>2. a \in Actions
    BY <2>1 DEF Frames
  <2> HIDE DEF f, a
  <2>3. CASE UNCHANGED <<request, view>>
    BY <2>3 DEF RequestTypes
  <2>4. CASE /\ request' = [request EXCEPT ![a].phase = IF Persists(a) THEN "saving" ELSE "none"]
             /\ view' = [view EXCEPT ![a] = IF Persists(a) THEN @ ELSE "ok"]
    BY <2>2, <2>4 DEF RequestTypes, Requests
  <2>5. CASE /\ request' = [request EXCEPT ![a].phase =
                  IF f.ok /\ @ = "sent" THEN "ending" ELSE "none"]
             /\ view' = [view EXCEPT ![a] =
                  IF f.ok \/ @ # "waiting" THEN @ ELSE IF f.type = "end" THEN "over" ELSE "failed"]
    BY <2>2, <2>5 DEF RequestTypes, Requests
  <2> QED BY <1>6, <2>3, <2>4, <2>5 DEF Receive, f, a
<1>7. ASSUME NEW r \in Runs, EndStream(r) PROVE RequestTypes'
  BY <1>7, Kinds DEF EndStream, RequestTypes, Requests
<1>8. CASE Write \/ WriteFails
  <2>1. Head(queue).action \in Actions
    BY <1>8, HeadTyped DEF Write, WriteFails
  <2>2. CASE UNCHANGED <<request, view>>
    BY <2>2 DEF RequestTypes
  <2>3. ASSUME NEW v \in {"ok", "failed"},
               request' = [request EXCEPT ![Head(queue).action].phase = "none"],
               view' = [view EXCEPT ![Head(queue).action] = v]
        PROVE  RequestTypes'
    BY <2>1, <2>3 DEF RequestTypes, Requests
  <2> QED BY <1>8, <2>2, <2>3, Zenon DEF Write, WriteFails
<1>9. ASSUME NEW a \in Actions, TimesOut(a) PROVE RequestTypes'
  BY <1>9 DEF TimesOut, RequestTypes, Requests
<1>10. ASSUME NEW r \in Runs, Stop(r) PROVE RequestTypes'
  BY <1>10, Kinds DEF Stop, RequestTypes, Requests
<1>11. CASE Imported
  BY <1>11 DEF Imported, RequestTypes
<1>12. CASE UNCHANGED <<request, view>>
  BY <1>12 DEF RequestTypes
<1>13. CASE Next
  <2>1. ASSUME NEW a \in Actions, Answer(a) PROVE RequestTypes'
    BY <1>12, <2>1 DEF Answer
  <2>2. ASSUME NEW r \in Runs, Prompt(r) \/ Accept(r) \/ AckTimesOut(r) \/ RunFails(r)
        PROVE  RequestTypes'
    BY <1>12, <2>2 DEF Prompt, Accept, AckTimesOut, RunFails
  <2>3. CASE ProcessStep
    BY <1>3, <2>1, <2>2, <2>3, Zenon DEF ProcessStep
  <2>4. CASE HostStep
    BY <1>12, <1>6, <1>7, <2>4 DEF HostStep, StartBoot, Ready
  <2>5. CASE BootFails \/ StopOrExit
    BY <1>4, <2>5 DEF BootFails, StopOrExit
  <2>6. ASSUME NEW state, Import(state) PROVE RequestTypes'
    BY <1>4, <2>6 DEF Import
  <2> QED BY <1>1, <1>5, <1>8, <1>9, <1>10, <1>11, <1>13, <2>2, <2>3, <2>4, <2>5, <2>6, Zenon DEF Next
<1> QED BY <1>12, <1>13 DEF vars

LEMMA AppendIn == ASSUME NEW S, NEW s \in Seq(S), NEW e \in S PROVE Append(s, e) \in Seq(S)
OBVIOUS

LEMMA TailIn == ASSUME NEW S, NEW s \in Seq(S), s # <<>> PROVE Tail(s) \in Seq(S)
OBVIOUS

LEMMA CaptureTyped == ASSUME ProcessTypes, NEW a \in Actions, Capture(a) PROVE ProcessTypes'
<1>1. mem' \in Snapshots
  <2>1. CASE a \in Edits
    BY <2>1, MarkTyped, Kinds DEF Capture, ProcessTypes, Marks
  <2>2. CASE a \notin Edits
    BY <2>2 DEF Capture, ProcessTypes
  <2> QED BY <2>1, <2>2
<1>2. DOMAIN held' \subseteq Reads \cup Edits /\ \A x \in DOMAIN held' : held'[x] \in Snapshots
  BY <1>1 DEF Capture, ProcessTypes
<1>3. run' = run /\ out' = out
  BY DEF Capture
<1> QED BY <1>1, <1>2, <1>3 DEF ProcessTypes

LEMMA AnswerTyped == ASSUME RuntimeTyped, NEW a \in Actions, Answer(a) PROVE ProcessTypes'
<1> USE DEF RuntimeTyped
<1>1. mem' = mem /\ run' = run
  BY DEF Answer
<1>2. DOMAIN held' \subseteq Reads \cup Edits /\ \A x \in DOMAIN held' : held'[x] \in Snapshots
  BY DEF Answer, ProcessTypes
<1>3. request[a].try \in Nat
  BY DEF RequestTypes, Requests
<1>4. [Frame("response", a, request[a].try, TRUE) EXCEPT !.data = held[a]] \in Frames
  BY <1>1, <1>3 DEF Answer, ProcessTypes, Frame, Frames
<1>5. out' \in Seq(Frames)
  BY <1>4, Speaking DEF Answer, ProcessTypes
<1> QED BY <1>1, <1>2, <1>5 DEF ProcessTypes

LEMMA InvokeTyped == ASSUME RuntimeTyped, NEW a \in Actions, Invoke(a) PROVE ProcessTypes'
<1> USE DEF RuntimeTyped
<1>1. mem' \in Snapshots
  BY MarkTyped, Kinds DEF Invoke, ProcessTypes, Marks
<1>2. request[a].try \in Nat
  BY DEF RequestTypes, Requests
<1>3. out' \in Seq(Frames)
  BY <1>1, <1>2, FrameTyped, Speaking DEF Invoke, ProcessTypes
<1>4. run' = run /\ held' = held
  BY DEF Invoke
<1> QED BY <1>1, <1>3, <1>4 DEF ProcessTypes

LEMMA AdmitTyped == ASSUME RuntimeTyped, NEW r \in Runs, Admit(r) PROVE ProcessTypes'
<1> USE DEF RuntimeTyped
<1>1. mem' \in Snapshots
  <2>1. [mem EXCEPT ![r] = "pending"] \in Snapshots
    BY MarkTyped, Kinds DEF ProcessTypes, Marks
  <2> QED BY <2>1 DEF Admit, ProcessTypes
<1>2. request[r].try \in Nat
  BY Kinds DEF RequestTypes, Requests
<1>3. held' = held
  BY DEF Admit
<1>4. CASE run' = [run EXCEPT ![r].for = request[r].try] /\ UNCHANGED out
  BY <1>1, <1>2, <1>3, <1>4 DEF ProcessTypes, ChatRuns
<1>5. CASE /\ Say(Frame(IF mem[r] = "done" THEN "end" ELSE "refused", r, request[r].try, mem[r] = "done"))
           /\ UNCHANGED run
  <2>1. Frame(IF mem[r] = "done" THEN "end" ELSE "refused", r, request[r].try, mem[r] = "done") \in Frames
    BY <1>1, <1>2, FrameTyped, Kinds
  <2> QED BY <1>1, <1>3, <1>5, <2>1, Speaking DEF ProcessTypes
<1>6. CASE /\ run' = [run EXCEPT ![r] =
                 [phase |-> "admitting", try |-> request[r].try, for |-> request[r].try]]
           /\ Say(Frame("checkpoint", r, request[r].try, TRUE))
  <2>1. Frame("checkpoint", r, request[r].try, TRUE) \in Frames
    BY <1>1, <1>2, FrameTyped, Kinds
  <2>2. run' \in [Runs -> ChatRuns]
    BY <1>2, <1>6 DEF ProcessTypes, ChatRuns
  <2> QED BY <1>1, <1>3, <1>6, <2>1, <2>2, Speaking DEF ProcessTypes
<1> QED BY <1>4, <1>5, <1>6 DEF Admit

LEMMA AcceptTyped == ASSUME RuntimeTyped, NEW r \in Runs, Accept(r) PROVE ProcessTypes'
<1> USE DEF RuntimeTyped
<1>1. mem' \in Snapshots
  BY MarkTyped, Kinds DEF Accept, ProcessTypes, Marks
<1>2. run[r].try \in Nat /\ run' \in [Runs -> ChatRuns]
  BY DEF Accept, ProcessTypes, ChatRuns
<1>3. out' \in Seq(Frames)
  BY <1>1, <1>2, FrameTyped, Speaking, Kinds DEF Accept, ProcessTypes
<1>4. held' = held
  BY DEF Accept
<1> QED BY <1>1, <1>2, <1>3, <1>4 DEF ProcessTypes

LEMMA CancelledTyped ==
  ASSUME ProcessTypes, NEW a \in Actions, Cancelled(a), UNCHANGED held PROVE ProcessTypes'
<1>1. CASE UNCHANGED <<mem, run, out>>
  BY <1>1 DEF ProcessTypes
<1>2. CASE a \in Runs /\ Unsuccessful(a)
  BY <1>2, UnsuccessfulTyped
<1> QED BY <1>1, <1>2 DEF Cancelled

\* A frame of a checkpoint is a run's.
CheckpointsAreOfRuns ==
  /\ \A i \in 1..Len(queue) :
       /\ queue[i].type \in {"checkpoint", "response"}
       /\ queue[i].type = "checkpoint" <=> queue[i].action \in Runs
  /\ \A i \in 1..Len(out) : out[i].type = "response" <=> out[i].action \notin Runs

LEMMA ProcessTyped ==
  ASSUME RuntimeTyped, CheckpointsAreOfRuns, [Next]_vars PROVE ProcessTypes'
<1>1. CASE UNCHANGED <<mem, run, out, held>>
  BY <1>1 DEF RuntimeTyped, ProcessTypes
<1>2. CASE ProcessEnds
  BY <1>2, EndedTyped DEF RuntimeTyped
<1>3. CASE Next
  <2>1. ASSUME NEW a \in Actions, Capture(a) \/ Answer(a) \/ Invoke(a) \/ Admit(a) PROVE ProcessTypes'
    <3>1. Admit(a) => a \in Runs
      BY DEF Admit
    <3> QED BY <2>1, <3>1, CaptureTyped, AnswerTyped, InvokeTyped, AdmitTyped DEF RuntimeTyped
  <2>2. ASSUME NEW r \in Runs, Prompt(r) PROVE ProcessTypes'
    BY <2>2 DEF Prompt, RuntimeTyped, ProcessTypes, ChatRuns
  <2>3. ASSUME NEW r \in Runs, Accept(r) PROVE ProcessTypes'
    BY <2>3, AcceptTyped
  <2>4. ASSUME NEW r \in Runs, AckTimesOut(r) \/ RunFails(r) PROVE ProcessTypes'
    BY <2>4, UnsuccessfulTyped, FailingTyped DEF AckTimesOut, RunFails, RuntimeTyped
  <2>5. CASE Ready
    <3>1. mem' \in Snapshots
      BY <2>5 DEF Ready, RuntimeTyped, DiskTypes, Archives
    <3> QED BY <2>5, <3>1 DEF Ready, RuntimeTyped, ProcessTypes
  <2>6. CASE Receive
    BY <2>6, TailIn DEF Receive, RuntimeTyped, ProcessTypes
  <2>7. CASE Write \/ WriteFails
    <3>1. queue # <<>> /\ held' = held
      BY <2>7 DEF Write, WriteFails
    <3>2. CASE UNCHANGED <<mem, run, out>>
      BY <1>1, <3>1, <3>2
    <3>3. ASSUME NEW ok, Head(queue).type = "checkpoint",
                 Acknowledge(Head(queue).action, Head(queue).try, ok)
          PROVE  ProcessTypes'
      <4>1. Head(queue) = queue[1] /\ 1 \in 1..Len(queue)
        BY <3>1 DEF RuntimeTyped, DiskTypes
      <4>2. Head(queue).action \in Runs
        BY <3>3, <4>1 DEF CheckpointsAreOfRuns
      <4> QED BY <3>1, <3>3, <4>2, AcknowledgeTyped DEF RuntimeTyped
    <3> QED BY <2>7, <3>2, <3>3, Zenon DEF Write, WriteFails
  <2>8. ASSUME NEW a \in Actions, TimesOut(a) PROVE ProcessTypes'
    BY <2>8, CancelledTyped DEF TimesOut, RuntimeTyped
  <2>9. ASSUME NEW r \in Runs, Stop(r) PROVE ProcessTypes'
    BY <2>9, CancelledTyped, Kinds DEF Stop, RuntimeTyped
  <2>10. ASSUME NEW a \in Actions, Ask(a) PROVE ProcessTypes'
    BY <1>1, <2>10 DEF Ask, process
  <2>11. CASE StartBoot \/ Imported \/ \E r \in Runs : EndStream(r)
    BY <1>1, <2>11 DEF StartBoot, Imported, EndStream, process
  <2>12. CASE BootFails \/ StopOrExit \/ Reload \/ \E state \in {"good", "bad"} : Import(state)
    BY <1>2, <2>12 DEF BootFails, StopOrExit, Reload, Import
  <2> QED BY <1>3, <2>1, <2>2, <2>3, <2>4, <2>5, <2>6, <2>7, <2>8, <2>9, <2>10, <2>11, <2>12, Zenon
          DEF Next, ProcessStep, HostStep
<1> QED BY <1>1, <1>3 DEF vars, process

LEMMA DiskTyped == ASSUME RuntimeTyped, [Next]_vars PROVE DiskTypes'
<1> USE DEF RuntimeTyped
<1>1. CASE UNCHANGED disk
  BY <1>1 DEF disk, DiskTypes
<1>2. BackedUp \in Archives
  BY DEF BackedUp, DiskTypes
<1>3. CASE Restored /\ backup' \in {backup, BackedUp} /\ UNCHANGED queue
  BY <1>2, <1>3, RestoredTyped DEF DiskTypes
<1>4. CASE Ready
  BY <1>2, <1>4 DEF Ready, DiskTypes
<1>5. CASE Receive
  <2>1. Head(out) \in Frames
    BY <1>5, HeadTyped DEF Receive
  <2>2. queue' = queue \/ queue' = Append(queue, Head(out))
    BY <1>5, Zenon DEF Receive, Enqueue
  <2>3. UNCHANGED <<archive, backup>>
    BY <1>5 DEF Receive
  <2> QED BY <2>1, <2>2, <2>3, AppendIn DEF DiskTypes
<1>6. CASE Write
  <2>1. /\ queue # <<>> /\ queue' = Tail(queue)
        /\ archive' = [data |-> Head(queue).data, state |-> "good"]
        /\ backup' = (IF recovery THEN archive' ELSE backup)
    BY <1>6, Zenon DEF Write
  <2>2. Head(queue).data \in Snapshots
    BY <2>1, HeadTyped DEF Frames
  <2>3. archive' \in Archives
    BY <2>1, <2>2 DEF Archives
  <2>4. backup' \in Archives
    BY <2>1, <2>3 DEF DiskTypes
  <2> QED BY <2>1, <2>3, <2>4, TailIn DEF DiskTypes
<1>7. CASE WriteFails
  <2>1. /\ queue # <<>> /\ queue' = Tail(queue) /\ UNCHANGED <<archive, backup>>
    BY <1>7, Zenon DEF WriteFails
  <2> QED BY <2>1, TailIn DEF DiskTypes
<1>8. CASE Reload
  BY <1>8 DEF Reload, DiskTypes
<1>9. ASSUME NEW state \in {"good", "bad"}, Import(state) PROVE DiskTypes'
  BY <1>9, Nothings DEF Import, DiskTypes, Archives
<1>10. CASE BootFails \/ StopOrExit
  BY <1>3, <1>10 DEF BootFails, StopOrExit
<1>11. CASE ProcessStep \/ StartBoot \/ Imported \/ \E a \in Actions : Ask(a) \/ TimesOut(a)
  BY <1>1, <1>11 DEF ProcessStep, Capture, Answer, Invoke, Admit, Prompt, Accept, AckTimesOut,
                     StartBoot, Imported, Ask, TimesOut
<1>12. CASE \E r \in Runs : EndStream(r) \/ RunFails(r) \/ Stop(r)
  BY <1>1, <1>12 DEF EndStream, RunFails, Stop
<1> QED BY <1>1, <1>4, <1>5, <1>6, <1>7, <1>8, <1>9, <1>10, <1>11, <1>12 DEF Next, HostStep, vars

LEMMA OtherTyped == ASSUME RuntimeTyped, [Next]_vars PROVE OtherTypes'
<1> USE DEF RuntimeTyped
<1>1. CASE UNCHANGED <<host, import, seeded, recovery, spoiled, paid>>
  BY <1>1 DEF OtherTypes
<1>2. CASE Ready \/ StartBoot
  BY <1>2 DEF Ready, StartBoot, OtherTypes, histories
<1>3. ASSUME NEW r \in Runs, Prompt(r) PROVE OtherTypes'
  BY <1>3 DEF Prompt, OtherTypes
<1>4. CASE Receive
  <2>1. UNCHANGED <<host, import, seeded, recovery, paid>>
    BY <1>4 DEF Receive
  <2>2. spoiled' = spoiled \/ spoiled' = spoiled \cup {x \in Saved : Older(x, Head(out).data)}
    BY <1>4, Zenon DEF Receive
  <2> QED BY <2>1, <2>2 DEF OtherTypes
<1>5. CASE Write
  BY <1>5, Zenon DEF Write, OtherTypes, histories
<1>6. CASE BootFails \/ StopOrExit
  <2>1. Restored /\ host' = "down" /\ UNCHANGED <<seeded, spoiled, paid>>
    BY <1>6 DEF BootFails, StopOrExit, ProcessEnds
  <2> QED BY <2>1, RestoredTyped DEF OtherTypes
<1>7. CASE Reload
  <2>1. spoiled' \subseteq Saved
    BY <1>7 DEF Reload, OtherTypes
  <2> QED BY <1>7, <2>1 DEF Reload, ProcessEnds, OtherTypes
<1>8. ASSUME NEW state, Import(state) PROVE OtherTypes'
  BY <1>8 DEF Import, ProcessEnds, OtherTypes
<1>9. CASE Imported
  BY <1>9 DEF Imported, OtherTypes, histories
<1>10. CASE \E a \in Actions : Capture(a) \/ Answer(a) \/ Invoke(a) \/ Admit(a) \/ Ask(a) \/ TimesOut(a)
  BY <1>1, <1>10 DEF Capture, Answer, Invoke, Admit, Ask, TimesOut, histories
<1>11. CASE \E r \in Runs : Accept(r) \/ AckTimesOut(r) \/ RunFails(r) \/ Stop(r) \/ EndStream(r)
  BY <1>1, <1>11 DEF Accept, AckTimesOut, RunFails, Stop, EndStream, histories
<1>12. CASE WriteFails
  BY <1>1, <1>12, Zenon DEF WriteFails
<1> QED BY <1>1, <1>2, <1>3, <1>4, <1>5, <1>6, <1>7, <1>8, <1>9, <1>10, <1>11, <1>12
        DEF Next, HostStep, ProcessStep, vars, histories

-----------------------------------------------------------------------------
(* What a step of the process does for one action: every step but those of   *)
(* the host with a frame or a process as a whole is one of them (Steps).     *)

\* The marks of an action that was done: for a run, one that keeps it from being
\* admitted again.
Good(a) == IF a \in Runs THEN {"pending", "done"} ELSE {"done"}
Has(a, data) == data[a] \in Good(a)

\* Without a process there are no frames, runs or answers.
Asleep ==
  host # "ready" =>
    /\ out = <<>> /\ DOMAIN held = {} /\ \A r \in Runs : run[r] = NoRun
    /\ \A a \in Actions : request[a].phase \in {"none", "boot", "saving"}

\* The user of an action waits exactly as long as its request is open.
Fits(a) ==
  /\ view[a] = "waiting" <=> request[a].phase \in {"boot", "sent", "saving", "ending"}
  /\ request[a].phase = "cancelled" => a \in Runs
Viewed == \A a \in Actions : Fits(a)

Resting ==
  \A r \in Runs :
    /\ run[r].phase = "none" => run[r] = NoRun
    /\ request[r].phase # "saving"

\* The try of a frame or a run is one that its request has made: a request that
\* waits for the boot has not been sent yet.
Fresh(r, try) ==
  /\ 1 <= try /\ try <= request[r].try
  /\ request[r].phase = "boot" => try # request[r].try

Young(r) ==
  /\ \A i \in 1..Len(queue) : queue[i].action = r => Fresh(r, queue[i].try)
  /\ \A i \in 1..Len(out) :
       out[i].action = r /\ out[i].type = "checkpoint" => Fresh(r, out[i].try)
  /\ run[r] # NoRun => Fresh(r, run[r].try)
  /\ request[r].phase # "none" => 1 <= request[r].try

\* A frame that the process sends for an action: a checkpoint and the answer of a
\* tool call say what the process knows now, an answer to an edit what it held.
Spoken(a, f) ==
  /\ f.action = a /\ (f.type = "response" <=> a \notin Runs)
  /\ f.type = "checkpoint" =>
       /\ f.data = mem' /\ run'[a] # NoRun /\ f.try = run'[a].try
       /\ run'[a].phase = "admitting" => mem'[a] = "pending"
  /\ a \in Tools => f.data = mem' /\ mem'[a] = "done"
  /\ a \in Edits => a \in DOMAIN held /\ f.data = held[a]

\* The ways of a run: it is admitted, its first checkpoint is acknowledged, it goes
\* on (or fails), or it ends.
Admitted(r) ==
  /\ run[r] = NoRun /\ mem[r] = "none" /\ mem'[r] = "pending"
  /\ request[r].phase = "boot" /\ host = "ready"
  /\ run'[r].phase = "admitting" /\ run'[r].try = request[r].try
  /\ request'[r].phase = "sent" /\ request'[r].try = request[r].try
Acknowledged(r) ==
  /\ run[r].phase = "admitting" /\ run'[r].phase = "prompting" /\ run'[r].try = run[r].try
  /\ UNCHANGED <<mem, out>>
Goes(r) ==
  /\ run'[r].phase \in {"running", "accepting", "failing"}
  /\ run[r] # NoRun /\ run'[r].try = run[r].try
  /\ run[r].phase \notin {"admitting", "prompting"} /\ Has(r, mem) => Has(r, mem')
Ends(r) == run'[r] = NoRun /\ mem'[r] = mem[r]
Moves(r) ==
  \/ run'[r].phase = run[r].phase /\ run'[r].try = run[r].try /\ mem'[r] = mem[r]
     /\ (run[r] = NoRun => run'[r] = NoRun)
  \/ Admitted(r) \/ Acknowledged(r) \/ Goes(r) \/ Ends(r)

\* A step for one action: nothing of another one changes, and at most one frame is
\* sent.
Acts(a) ==
  /\ \A q \in Runs : q # a => run'[q] = run[q]
  /\ \A x \in Saved : x # a => mem'[x] = mem[x]
  /\ out' = out \/ \E f \in Frames : out' = Append(out, f) /\ Spoken(a, f) /\ host = "ready"
  /\ a \in Runs => Moves(a)
  /\ a \in Tools \cup Edits => mem'[a] \in {mem[a], "done"}

LEMMA QuietActs == ASSUME RuntimeTyped, UNCHANGED <<mem, run, out>>, NEW a PROVE Acts(a)
BY Kinds DEF Acts, Moves

LEMMA FailingActs ==
  ASSUME RuntimeTyped, Asleep, NEW r \in Runs, Failing(r), UNCHANGED held, run[r] # NoRun PROVE Acts(r)
<1> USE DEF RuntimeTyped
<1>1. PICK left \in Left(r) : mem' = [mem EXCEPT ![r] = left]
  BY DEF Failing
<1>2. mem' \in Snapshots /\ run[r].try \in Nat
  BY FailingTyped DEF ProcessTypes, ChatRuns
<1>3. Frame("checkpoint", r, run[r].try, TRUE) \in Frames
  BY <1>2, FrameTyped, Kinds
<1>4. /\ run' = [run EXCEPT ![r].phase = "failing"]
      /\ run'[r].phase = "failing" /\ run'[r].try = run[r].try /\ run'[r] # NoRun
      /\ \A q \in Runs : q # r => run'[q] = run[q]
  BY DEF Failing, ProcessTypes, ChatRuns, NoRun
<1>5. Spoken(r, Frame("checkpoint", r, run[r].try, TRUE))
  BY <1>4, Kinds DEF Spoken, Frame
<1>6. host = "ready"
  BY DEF Asleep
<1>7. out' = Append(out, Frame("checkpoint", r, run[r].try, TRUE))
  BY DEF Failing, Say
<1>8. \A x \in Saved : x # r => mem'[x] = mem[x]
  BY <1>1 DEF ProcessTypes, Snapshots
<1>9. run[r].phase \notin {"admitting", "prompting"} /\ Has(r, mem) => Has(r, mem')
  BY <1>1, Kinds DEF Left, Has, Good, ProcessTypes, Snapshots
<1> QED BY <1>3, <1>4, <1>5, <1>6, <1>7, <1>8, <1>9, Kinds DEF Acts, Moves, Goes

LEMMA EndsFailedActs ==
  ASSUME RuntimeTyped, Asleep, NEW r \in Runs, EndsFailed(r), run[r] # NoRun PROVE Acts(r)
<1> USE DEF RuntimeTyped
<1> DEFINE f == Frame(IF run[r].for = run[r].try THEN "end" ELSE "refused", r, run[r].for, FALSE)
<1>1. mem' = mem /\ run' = [run EXCEPT ![r] = NoRun] /\ out' = Append(out, f) /\ run[r].for \in Nat
  BY DEF EndsFailed, Say, ProcessTypes, ChatRuns
<1>2. f \in Frames
  BY <1>1, FrameTyped, Kinds DEF ProcessTypes
<1>3. Spoken(r, f)
  BY Kinds DEF Spoken, Frame
<1>4. host = "ready"
  BY DEF Asleep
<1> HIDE DEF f
<1> QED BY <1>1, <1>2, <1>3, <1>4, Kinds DEF Acts, Moves, Ends, ProcessTypes

LEMMA UnsuccessfulActs ==
  ASSUME RuntimeTyped, Asleep, NEW r \in Runs, Unsuccessful(r), UNCHANGED held, run[r] # NoRun
  PROVE  Acts(r)
BY FailingActs, EndsFailedActs DEF Unsuccessful

LEMMA CancelledActs ==
  ASSUME RuntimeTyped, Asleep, NEW a \in Actions, Cancelled(a), UNCHANGED held PROVE Acts(a)
<1>1. CASE UNCHANGED <<mem, run, out>>
  BY <1>1, QuietActs
<1>2. CASE a \in Runs /\ run[a].phase # "none" /\ Unsuccessful(a)
  BY <1>2, UnsuccessfulActs DEF NoRun
<1> QED BY <1>1, <1>2 DEF Cancelled

LEMMA AcknowledgeActs ==
  ASSUME RuntimeTyped, Asleep, NEW r \in Runs, NEW try \in Nat, 1 <= try, NEW ok \in BOOLEAN,
         Acknowledge(r, try, ok), UNCHANGED held
  PROVE  /\ Acts(r)
         /\ Acknowledged(r) => run[r].try = try
<1> USE DEF RuntimeTyped
<1>1. CASE UNCHANGED <<mem, run, out>>
  BY <1>1, QuietActs, Kinds DEF Acknowledged
<1>2. CASE ~UNCHANGED <<mem, run, out>>
  <2>1. run[r].try = try /\ run[r] # NoRun
    <3>1. run[r].try = try
      BY <1>2, Zenon DEF Acknowledge
    <3>2. NoRun.try # try
      BY DEF NoRun
    <3> QED BY <3>1, <3>2
  <2>2. CASE Unsuccessful(r)
    BY <2>1, <2>2, UnsuccessfulActs
  <2>3. CASE run[r].phase = "admitting" /\ run' = [run EXCEPT ![r].phase = "prompting"] /\ UNCHANGED <<mem, out>>
    BY <2>1, <2>3, Kinds DEF Acts, Moves, Acknowledged, ProcessTypes, ChatRuns
  <2>4. CASE /\ run' = [run EXCEPT ![r] = NoRun] /\ UNCHANGED mem
             /\ Say(Frame("end", r, run[r].for, TRUE))
    <3> DEFINE f == Frame("end", r, run[r].for, TRUE)
    <3>1. out' = Append(out, f) /\ run[r].for \in Nat
      BY <2>4 DEF Say, ProcessTypes, ChatRuns
    <3>2. f \in Frames
      BY <2>4, <3>1, FrameTyped, Kinds DEF ProcessTypes
    <3>3. Spoken(r, f)
      BY Kinds DEF Spoken, Frame
    <3>4. host = "ready"
      BY <2>1 DEF Asleep
    <3> HIDE DEF f
    <3> QED BY <2>1, <2>4, <3>1, <3>2, <3>3, <3>4, Kinds DEF Acts, Moves, Ends, ProcessTypes
  <2>5. CASE EndsFailed(r)
    BY <2>1, <2>5, EndsFailedActs
  <2> QED BY <1>2, <2>1, <2>2, <2>3, <2>4, <2>5 DEF Acknowledge
<1> QED BY <1>1, <1>2

LEMMA CaptureActs == ASSUME RuntimeTyped, NEW a \in Actions, Capture(a) PROVE Acts(a)
<1>1. run' = run /\ out' = out /\ a \notin Runs /\ a \notin Tools
  BY Kinds DEF Capture
<1>2. \A x \in Saved : x # a => mem'[x] = mem[x]
  BY DEF Capture, RuntimeTyped, ProcessTypes, Snapshots
<1>3. a \in Edits => mem'[a] = "done"
  BY Kinds DEF Capture, RuntimeTyped, ProcessTypes, Snapshots
<1> QED BY <1>1, <1>2, <1>3, Kinds DEF Acts

LEMMA AnswerActs == ASSUME RuntimeTyped, Asleep, NEW a \in Actions, Answer(a) PROVE Acts(a)
<1> USE DEF RuntimeTyped
<1> DEFINE f == [Frame("response", a, request[a].try, TRUE) EXCEPT !.data = held[a]]
<1>1. run' = run /\ mem' = mem /\ out' = Append(out, f) /\ a \in DOMAIN held
  BY DEF Answer, Say
<1>2. a \notin Runs /\ a \notin Tools /\ host = "ready"
  BY <1>1, Kinds DEF ProcessTypes, Asleep
<1>3. request[a].try \in Nat
  BY DEF RequestTypes, Requests
<1>4. f \in Frames
  BY <1>1, <1>3 DEF ProcessTypes, Frame, Frames
<1>5. Spoken(a, f)
  BY <1>1, <1>2 DEF Spoken, Frame
<1> HIDE DEF f
<1> QED BY <1>1, <1>2, <1>4, <1>5 DEF Acts

LEMMA InvokeActs == ASSUME RuntimeTyped, Asleep, NEW a \in Actions, Invoke(a) PROVE Acts(a)
<1> USE DEF RuntimeTyped
<1> DEFINE f == Frame("response", a, request[a].try, TRUE)
<1>1. run' = run /\ mem' = [mem EXCEPT ![a] = "done"] /\ out' = Append(out, f) /\ a \in Tools
  BY DEF Invoke, Say
<1>2. a \notin Runs /\ a \notin Edits /\ a \in Saved /\ host = "ready"
  BY <1>1, Kinds DEF Invoke, Sent
<1>3. request[a].try \in Nat /\ mem' \in Snapshots
  BY InvokeTyped DEF RequestTypes, Requests, ProcessTypes
<1>4. f \in Frames
  BY <1>3, FrameTyped
<1>5. mem'[a] = "done" /\ \A x \in Saved : x # a => mem'[x] = mem[x]
  BY <1>1, <1>2 DEF ProcessTypes, Snapshots
<1>6. Spoken(a, f)
  BY <1>1, <1>2, <1>5 DEF Spoken, Frame
<1> HIDE DEF f
<1> QED BY <1>1, <1>2, <1>4, <1>5, <1>6 DEF Acts

LEMMA AdmitActs ==
  ASSUME RuntimeTyped, Asleep, NEW r \in Runs, Admit(r), Young(r) PROVE Acts(r) /\ ~Acknowledged(r)
<1> USE DEF RuntimeTyped
<1>1. /\ mem' \in Snapshots /\ request[r].try \in Nat /\ 1 <= request[r].try
      /\ request[r].phase = "boot" /\ host = "ready" /\ r \in Saved /\ r \in Actions
      /\ \A x \in Saved : x # r => mem'[x] = mem[x]
  BY AdmitTyped, Kinds DEF Admit, Sent, ProcessTypes, Snapshots, RequestTypes, Requests, Young
<1>2. CASE run[r] # NoRun
  <2>1. mem' = mem /\ out' = out /\ run' = [run EXCEPT ![r].for = request[r].try]
    BY <1>2 DEF Admit
  <2> QED BY <1>2, <2>1, Kinds DEF Acts, Moves, Acknowledged, ProcessTypes, ChatRuns
<1>3. CASE run[r] = NoRun /\ mem[r] # "none"
  <2> DEFINE f == Frame(IF mem[r] = "done" THEN "end" ELSE "refused", r, request[r].try, mem[r] = "done")
  <2>1. mem' = mem /\ out' = Append(out, f) /\ run' = run
    BY <1>3 DEF Admit, Say
  <2>2. f \in Frames
    BY <1>1, FrameTyped, Kinds
  <2>3. Spoken(r, f)
    BY Kinds DEF Spoken, Frame
  <2> HIDE DEF f
  <2> QED BY <1>1, <1>3, <2>1, <2>2, <2>3, Kinds DEF Acts, Moves, Acknowledged, NoRun
<1>4. CASE run[r] = NoRun /\ mem[r] = "none"
  <2> DEFINE f == Frame("checkpoint", r, request[r].try, TRUE)
  <2>1. /\ mem' = [mem EXCEPT ![r] = "pending"] /\ out' = Append(out, f)
        /\ run' = [run EXCEPT ![r] =
              [phase |-> "admitting", try |-> request[r].try, for |-> request[r].try]]
    BY <1>4 DEF Admit, Say
  <2>2. f \in Frames
    BY <1>1, FrameTyped, Kinds
  <2>3. /\ run'[r] = [phase |-> "admitting", try |-> request[r].try, for |-> request[r].try]
        /\ \A q \in Runs : q # r => run'[q] = run[q]
    BY <2>1 DEF ProcessTypes
  <2>4. mem'[r] = "pending"
    BY <1>1, <2>1 DEF ProcessTypes, Snapshots
  <2>5. Spoken(r, f)
    BY <2>3, <2>4, Kinds DEF Spoken, Frame, NoRun
  <2>6. request'[r].phase = "sent" /\ request'[r].try = request[r].try
    BY <1>1 DEF Admit, IsSent, RequestTypes, Requests
  <2>7. Admitted(r) /\ ~Acknowledged(r)
    BY <1>1, <1>4, <2>3, <2>4, <2>6 DEF Admitted, Acknowledged
  <2> HIDE DEF f
  <2> QED BY <1>1, <2>1, <2>2, <2>3, <2>5, <2>7, Kinds DEF Acts, Moves
<1> QED BY <1>2, <1>3, <1>4

LEMMA PromptActs == ASSUME RuntimeTyped, NEW r \in Runs, Prompt(r) PROVE Acts(r) /\ ~Acknowledged(r)
<1>1. mem' = mem /\ out' = out /\ run' = [run EXCEPT ![r].phase = "running"] /\ run[r].phase = "prompting"
  BY DEF Prompt
<1>2. run[r] # NoRun
  BY <1>1 DEF NoRun
<1> QED BY <1>1, <1>2, Kinds DEF Acts, Moves, Goes, Acknowledged, RuntimeTyped, ProcessTypes, ChatRuns

LEMMA AcceptActs ==
  ASSUME RuntimeTyped, Asleep, NEW r \in Runs, Accept(r) PROVE Acts(r) /\ ~Acknowledged(r)
<1> USE DEF RuntimeTyped
<1> DEFINE f == Frame("checkpoint", r, run[r].try, TRUE)
<1>1. /\ mem' = [mem EXCEPT ![r] = "done"] /\ out' = Append(out, f)
      /\ run' = [run EXCEPT ![r].phase = "accepting"] /\ run[r].phase = "running"
  BY DEF Accept, Say
<1>2. /\ run'[r].phase = "accepting" /\ run'[r].try = run[r].try /\ run[r].try \in Nat
      /\ \A q \in Runs : q # r => run'[q] = run[q]
  BY <1>1 DEF ProcessTypes, ChatRuns
<1>3. mem' \in Snapshots
  BY AcceptTyped DEF ProcessTypes
<1>4. f \in Frames
  BY <1>2, <1>3, FrameTyped, Kinds
<1>5. run[r] # NoRun /\ run'[r] # NoRun
  BY <1>1, <1>2 DEF NoRun
<1>6. Spoken(r, f)
  BY <1>2, <1>5, Kinds DEF Spoken, Frame
<1>7. mem'[r] = "done" /\ \A x \in Saved : x # r => mem'[x] = mem[x]
  BY <1>1, Kinds DEF ProcessTypes, Snapshots
<1>8. Has(r, mem')
  BY <1>7, Kinds DEF Has, Good
<1>9. host = "ready"
  BY <1>5 DEF Asleep
<1> HIDE DEF f
<1> QED BY <1>1, <1>2, <1>4, <1>5, <1>6, <1>7, <1>8, <1>9, Kinds DEF Acts, Moves, Goes, Acknowledged

\* The end of a checkpoint.
LEMMA WriteActs ==
  ASSUME RuntimeTyped, Asleep, CheckpointsAreOfRuns, \A r \in Runs : Young(r), Write \/ WriteFails
  PROVE  /\ queue # <<>> /\ queue' = Tail(queue) /\ UNCHANGED <<host, held>>
         /\ Acts(Head(queue).action)
         /\ \A r \in Runs : Acknowledged(r) =>
              /\ Write /\ Head(queue).action = r
              /\ Head(queue).type = "checkpoint" /\ Head(queue).try = run[r].try
<1>1. queue # <<>> /\ queue' = Tail(queue) /\ UNCHANGED <<host, held>>
  BY Zenon DEF Write, WriteFails
<1>2. /\ Head(queue) = queue[1] /\ 1 \in 1..Len(queue) /\ Head(queue) \in Frames
      /\ Head(queue).action \in Actions
  BY <1>1, HeadTyped DEF RuntimeTyped, DiskTypes
<1>3. CASE UNCHANGED <<mem, run, out>>
  BY <1>1, <1>2, <1>3, QuietActs DEF Acknowledged
<1>4. ASSUME NEW ok \in BOOLEAN, Head(queue).type = "checkpoint",
             Acknowledge(Head(queue).action, Head(queue).try, ok)
      PROVE  /\ Head(queue).action \in Runs
             /\ Acts(Head(queue).action)
             /\ Acknowledged(Head(queue).action) => run[Head(queue).action].try = Head(queue).try
  <2>1. Head(queue).action \in Runs
    BY <1>2, <1>4 DEF CheckpointsAreOfRuns
  <2>2. Head(queue).try \in Nat /\ 1 <= Head(queue).try
    BY <1>2, <2>1 DEF Frames, Young, Fresh
  <2> QED BY <1>1, <1>4, <2>1, <2>2, AcknowledgeActs
<1>5. ASSUME NEW a \in Runs, Acts(a), NEW r \in Runs, Acknowledged(r) PROVE r = a
  BY <1>5 DEF Acts, Acknowledged
<1>6. CASE Write
  <2>1. \/ UNCHANGED <<mem, run, out>>
        \/ Head(queue).type = "checkpoint" /\ Acknowledge(Head(queue).action, Head(queue).try, TRUE)
    BY <1>6, Zenon DEF Write
  <2> QED BY <1>1, <1>3, <1>4, <1>5, <1>6, <2>1
<1>7. CASE WriteFails
  <2>1. \/ UNCHANGED <<mem, run, out>>
        \/ Head(queue).type = "checkpoint" /\ Acknowledge(Head(queue).action, Head(queue).try, FALSE)
    BY <1>7, Zenon DEF WriteFails
  <2>2. ASSUME NEW r \in Runs, Acknowledge(r, Head(queue).try, FALSE) PROVE ~Acknowledged(r)
    BY <2>2 DEF Acknowledge, Unsuccessful, EndsFailed, Failing, Acknowledged, NoRun,
                RuntimeTyped, ProcessTypes, ChatRuns
  <2> QED BY <1>1, <1>3, <1>4, <1>5, <1>7, <2>1, <2>2
<1> QED BY <1>6, <1>7

LEMMA UnsuccessfulIsNoAck ==
  ASSUME RuntimeTyped, NEW q \in Runs, Unsuccessful(q), NEW r \in Runs PROVE ~Acknowledged(r)
<1>1. run' = [run EXCEPT ![q].phase = "failing"] \/ run' = [run EXCEPT ![q] = NoRun]
  BY Zenon DEF Unsuccessful, Failing, EndsFailed
<1>2. run'[q].phase \in {"failing", "none"} /\ (r # q => run'[r] = run[r])
  BY <1>1 DEF NoRun, RuntimeTyped, ProcessTypes, ChatRuns
<1> QED BY <1>2 DEF Acknowledged

\* A step that is neither the host's with a frame, nor the end or start of a process.
Working(a) ==
  /\ Acts(a) /\ \A r \in Runs : ~Acknowledged(r)
  /\ UNCHANGED disk
  /\ host' = host \/ (host = "down" /\ host' = "booting")
  /\ import' = import \/ Imported

Restarts == BootFails \/ StopOrExit \/ Reload \/ \E state \in {"good", "bad"} : Import(state)

LEMMA QuietWorking ==
  ASSUME RuntimeTyped, UNCHANGED <<mem, run, out, disk>>,
         host' = host \/ (host = "down" /\ host' = "booting"),
         import' = import \/ Imported, NEW a
  PROVE  Working(a)
BY QuietActs DEF Working, Acknowledged

LEMMA Steps ==
  ASSUME RuntimeTyped, Asleep, \A r \in Runs : Young(r), [Next]_vars,
         ~Write, ~WriteFails, ~Receive, ~Ready, ~Restarts
  PROVE  \E a : Working(a)
<1>1. CASE /\ UNCHANGED <<mem, run, out, disk>> /\ (host' = host \/ (host = "down" /\ host' = "booting"))
           /\ import' = import \/ Imported
  BY <1>1, QuietWorking
<1>2. ASSUME NEW a \in Actions, Capture(a) \/ Answer(a) \/ Invoke(a) \/ Admit(a) PROVE Working(a)
  <2>1. UNCHANGED disk /\ host' = host /\ import' = import
    BY <1>2 DEF Capture, Answer, Invoke, Admit
  <2>2. CASE Admit(a)
    <3>1. a \in Runs /\ Acts(a) /\ ~Acknowledged(a)
      BY <2>2, AdmitActs DEF Admit
    <3> QED BY <2>1, <3>1 DEF Working, Acts, Acknowledged
  <2>3. CASE ~Admit(a)
    <3>1. Acts(a) /\ run' = run
      BY <1>2, <2>3, CaptureActs, AnswerActs, InvokeActs DEF Capture, Answer, Invoke
    <3> QED BY <2>1, <3>1 DEF Working, Acknowledged
  <2> QED BY <2>2, <2>3
<1>3. ASSUME NEW r \in Runs, Prompt(r) \/ Accept(r) PROVE Working(r)
  <2>1. UNCHANGED disk /\ host' = host /\ import' = import
    BY <1>3 DEF Prompt, Accept
  <2>2. Acts(r) /\ ~Acknowledged(r)
    BY <1>3, PromptActs, AcceptActs
  <2> QED BY <2>1, <2>2 DEF Working, Acts, Acknowledged
<1>4. ASSUME NEW r \in Runs, AckTimesOut(r) \/ RunFails(r) PROVE Working(r)
  <2>1. UNCHANGED <<disk, host, held, import>> /\ run[r] # NoRun
    BY <1>4 DEF AckTimesOut, RunFails, NoRun
  <2>2. Unsuccessful(r)
    BY <1>4 DEF AckTimesOut, RunFails, Unsuccessful
  <2> QED BY <2>1, <2>2, UnsuccessfulActs, UnsuccessfulIsNoAck DEF Working
<1>5. ASSUME NEW a \in Actions, TimesOut(a) \/ Stop(a) PROVE Working(a)
  <2>1. UNCHANGED <<disk, host, held, import>> /\ Cancelled(a)
    BY <1>5 DEF TimesOut, Stop
  <2>2. CASE UNCHANGED <<mem, run, out>>
    BY <2>1, <2>2, QuietWorking
  <2>3. CASE a \in Runs /\ Unsuccessful(a)
    BY <2>1, <2>3, CancelledActs, UnsuccessfulIsNoAck DEF Working
  <2> QED BY <2>1, <2>2, <2>3 DEF Cancelled
<1>6. CASE StartBoot \/ Imported \/ \E a \in Actions : Ask(a)
  BY <1>1, <1>6 DEF StartBoot, Imported, Ask, process, disk
<1>7. ASSUME NEW r \in Runs, EndStream(r) PROVE \E a : Working(a)
  BY <1>1, <1>7 DEF EndStream, process, disk
<1>8. CASE BootFails \/ StopOrExit \/ Reload \/ \E state \in {"good", "bad"} : Import(state)
  BY <1>8 DEF Restarts
<1>9. CASE ProcessStep
  BY <1>2, <1>3, <1>4, <1>9, Kinds, Zenon DEF ProcessStep
<1>10. CASE HostStep
  BY <1>6, <1>7, <1>10, Zenon DEF HostStep
<1>11. CASE \E r \in Runs : RunFails(r) \/ Stop(r)
  BY <1>4, <1>5, <1>11, Kinds
<1>12. CASE \E a \in Actions : Ask(a) \/ TimesOut(a)
  BY <1>5, <1>6, <1>12
<1>13. CASE vars' = vars
  BY <1>1, <1>13 DEF vars, process, disk
<1>14. CASE Next
  BY <1>6, <1>8, <1>9, <1>10, <1>11, <1>12, <1>14, Zenon DEF Next
<1> QED BY <1>13, <1>14

-----------------------------------------------------------------------------
(* Invariants about frames, requests and views. *)

LEMMA ReceiveFrames ==
  ASSUME RuntimeTyped, CheckpointsAreOfRuns, Receive
  PROVE  /\ out # <<>> /\ out' = Tail(out) /\ Head(out) = out[1] /\ Head(out) \in Frames
         /\ Head(out).action \in Actions
         /\ \/ queue' = queue
            \/ /\ queue' = Append(queue, Head(out))
               /\ Head(out).type \in {"checkpoint", "response"}
               /\ Waits(Head(out).action, Head(out).try)
         /\ UNCHANGED <<archive, backup, host, seeded, recovery, import, mem, held, run, paid>>
<1>1. /\ out # <<>> /\ out' = Tail(out)
      /\ UNCHANGED <<archive, backup, host, seeded, recovery, import, mem, held, run, paid>>
  BY Zenon DEF Receive
<1>2. \/ queue' = queue
      \/ /\ queue' = Append(queue, Head(out))
         /\ Head(out).type \in {"checkpoint", "response"}
         /\ Waits(Head(out).action, Head(out).try)
  BY Zenon DEF Receive, Enqueue
<1>3. Head(out) = out[1]
  BY <1>1 DEF RuntimeTyped, ProcessTypes
<1> QED BY <1>1, <1>2, <1>3, HeadTyped

LEMMA TailItems ==
  ASSUME NEW S, NEW s \in Seq(S), s # <<>>
  PROVE  /\ Len(Tail(s)) = Len(s) - 1 /\ Len(s) \in Nat /\ 1 <= Len(s)
         /\ \A i \in 1..Len(Tail(s)) : Tail(s)[i] = s[i + 1] /\ i + 1 \in 1..Len(s)
OBVIOUS

LEMMA AppendItems ==
  ASSUME NEW S, NEW s \in Seq(S), NEW e \in S
  PROVE  /\ Len(Append(s, e)) = Len(s) + 1 /\ Len(s) \in Nat
         /\ \A i \in 1..Len(s) : Append(s, e)[i] = s[i]
         /\ Append(s, e)[Len(s) + 1] = e
OBVIOUS

LEMMA QueueAfterRestart == ASSUME Restarts PROVE queue' \in {queue, <<>>} /\ ProcessEnds
BY DEF Restarts, BootFails, StopOrExit, Reload, Import

LEMMA SortedStep ==
  ASSUME RuntimeTyped, Asleep, CheckpointsAreOfRuns, \A r \in Runs : Young(r), [Next]_vars
  PROVE  CheckpointsAreOfRuns'
<1> DEFINE InQueue == \A i \in 1..Len(queue) :
                        /\ queue[i].type \in {"checkpoint", "response"}
                        /\ queue[i].type = "checkpoint" <=> queue[i].action \in Runs
           InOut == \A i \in 1..Len(out) : out[i].type = "response" <=> out[i].action \notin Runs
<1>1. queue \in Seq(Frames) /\ out \in Seq(Frames)
  BY DEF RuntimeTyped, DiskTypes, ProcessTypes
<1>2. ASSUME NEW a, Acts(a) PROVE InOut'
  <2>1. CASE out' = out
    BY <2>1 DEF CheckpointsAreOfRuns
  <2>2. ASSUME NEW f \in Frames, out' = Append(out, f), Spoken(a, f) PROVE InOut'
    <3>1. f.type = "response" <=> f.action \notin Runs
      BY <2>2 DEF Spoken
    <3> QED BY <1>1, <2>2, <3>1, AppendItems DEF CheckpointsAreOfRuns
  <2> QED BY <1>2, <2>1, <2>2 DEF Acts
<1>3. ASSUME queue # <<>>, queue' = Tail(queue) PROVE InQueue'
  BY <1>1, <1>3, TailItems DEF CheckpointsAreOfRuns
<1>4. CASE Write \/ WriteFails
  <2>1. InQueue' /\ InOut'
    BY <1>2, <1>3, <1>4, WriteActs
  <2> QED BY <2>1 DEF CheckpointsAreOfRuns
<1>5. CASE Receive
  <2>1. InOut'
    BY <1>1, <1>5, ReceiveFrames, TailItems DEF CheckpointsAreOfRuns
  <2>2. CASE queue' = queue
    BY <2>1, <2>2 DEF CheckpointsAreOfRuns
  <2>3. CASE /\ queue' = Append(queue, Head(out))
             /\ Head(out).type \in {"checkpoint", "response"}
    <3>1. Head(out).type = "checkpoint" <=> Head(out).action \in Runs
      BY <1>1, <1>5, <2>3, ReceiveFrames DEF CheckpointsAreOfRuns
    <3>2. InQueue'
      BY <1>1, <1>5, <2>3, <3>1, ReceiveFrames, AppendItems DEF CheckpointsAreOfRuns
    <3> QED BY <2>1, <3>2 DEF CheckpointsAreOfRuns
  <2> QED BY <1>5, <2>2, <2>3, ReceiveFrames
<1>6. CASE Ready
  BY <1>6 DEF Ready, CheckpointsAreOfRuns
<1>7. CASE Restarts
  <2>1. out' = <<>> /\ (queue' = queue \/ queue' = <<>>)
    BY <1>7, QueueAfterRestart DEF ProcessEnds
  <2> QED BY <2>1 DEF CheckpointsAreOfRuns
<1>8. CASE \E a : Working(a)
  <2>1. queue' = queue
    BY <1>8 DEF Working, disk
  <2>2. InOut'
    BY <1>2, <1>8 DEF Working
  <2> QED BY <2>1, <2>2 DEF CheckpointsAreOfRuns
<1> QED BY <1>4, <1>5, <1>6, <1>7, <1>8, Steps

LEMMA RunSleeps ==
  ASSUME RuntimeTyped, Asleep, NEW a, Acts(a), host # "ready", NEW r \in Runs
  PROVE  run'[r] = NoRun /\ out' = <<>>
<1>1. run[r] = NoRun /\ out' = <<>>
  BY DEF Asleep, Acts
<1>2. CASE r = a
  BY <1>1, <1>2 DEF Acts, Moves, Admitted, Acknowledged, Goes, Ends, NoRun
<1>3. CASE r # a
  BY <1>1, <1>3 DEF Acts
<1> QED BY <1>1, <1>2, <1>3

LEMMA RequestSleeps ==
  ASSUME RuntimeTyped, Asleep, CheckpointsAreOfRuns, \A r \in Runs : Young(r), [Next]_vars,
         host' # "ready"
  PROVE  /\ \A a \in Actions : request'[a].phase \in {"none", "boot", "saving"}
         /\ DOMAIN held' = {}
<1> USE DEF RuntimeTyped, RequestTypes, Requests
<1>1. CASE Restarts
  <2>1. held' = <<>>
    BY <1>1, QueueAfterRestart DEF ProcessEnds
  <2>2. CASE RejectAll
    BY <2>1, <2>2 DEF RejectAll, Rejects
  <2>3. CASE Reload
    BY <2>1, <2>3 DEF Reload
  <2> QED BY <1>1, <2>2, <2>3 DEF Restarts, BootFails, StopOrExit, Import
<1>2. CASE ~Restarts
  <2>1. host # "ready" /\ out = <<>> /\ DOMAIN held = {} /\ (\A r \in Runs : run[r] = NoRun)
        /\ \A a \in Actions : request[a].phase \in {"none", "boot", "saving"}
    <3>1. host # "ready"
      <4>1. CASE Write \/ WriteFails
        BY <4>1, WriteActs
      <4>2. CASE Receive
        BY <4>2, ReceiveFrames
      <4>3. CASE Ready
        BY <4>3 DEF Ready
      <4>4. CASE \E a : Working(a)
        BY <4>4 DEF Working
      <4> QED BY <1>2, <4>1, <4>2, <4>3, <4>4, Steps
    <3> QED BY <3>1 DEF Asleep
  <2>2. CASE UNCHANGED <<request, held>>
    BY <2>1, <2>2
  <2>3. CASE Next
    <3>1. ASSUME NEW a \in Actions, Capture(a) \/ Answer(a) \/ Invoke(a) \/ Admit(a) PROVE FALSE
      BY <2>1, <3>1 DEF Capture, Answer, Invoke, Admit, Sent
    <3>2. ASSUME NEW r \in Runs, Prompt(r) \/ Accept(r) \/ AckTimesOut(r) \/ RunFails(r) \/ Stop(r) \/ EndStream(r)
          PROVE FALSE
      <4>1. run[r].phase = "none" /\ r \in Actions
        BY <2>1, <3>2, Kinds DEF NoRun
      <4>2. request[r].phase \in {"none", "boot", "saving"}
        BY <2>1, <4>1
      <4>3. CASE Stop(r) \/ EndStream(r)
        BY <4>2, <4>3 DEF Stop, EndStream
      <4> QED BY <3>2, <4>1, <4>3 DEF Prompt, Accept, AckTimesOut, RunFails
    <3>3. ASSUME NEW a \in Actions, Ask(a) \/ TimesOut(a)
          PROVE  /\ held' = held
                 /\ \A x \in Actions : request'[x].phase \in {"none", "boot", "saving"}
      BY <2>1, <3>3 DEF Ask, TimesOut, process
    <3>4. CASE Write \/ WriteFails
      <4>1. held' = held /\ (request' = request \/ request' = [request EXCEPT ![Head(queue).action].phase = "none"])
        BY <3>4, Zenon DEF Write, WriteFails
      <4> QED BY <2>1, <4>1
    <3>5. CASE StartBoot \/ Ready \/ Imported
      BY <2>2, <3>5 DEF StartBoot, Ready, Imported, process
    <3>6. CASE Receive
      BY <2>1, <3>6 DEF Receive
    <3>7. CASE ProcessStep
      BY <3>1, <3>2, <3>7, Zenon DEF ProcessStep
    <3>8. CASE HostStep
      BY <3>2, <3>5, <3>6, <3>8, Zenon DEF HostStep
    <3>9. CASE \E a \in Actions : Ask(a) \/ TimesOut(a)
      BY <2>1, <3>3, <3>9
    <3> QED BY <1>2, <2>3, <3>2, <3>4, <3>5, <3>7, <3>8, <3>9, Zenon DEF Next, Restarts
  <2> QED BY <2>2, <2>3 DEF vars, process
<1> QED BY <1>1, <1>2

LEMMA AsleepStep ==
  ASSUME RuntimeTyped, Asleep, CheckpointsAreOfRuns, \A r \in Runs : Young(r), [Next]_vars
  PROVE  Asleep'
<1> SUFFICES ASSUME host' # "ready"
             PROVE  out' = <<>> /\ \A r \in Runs : run'[r] = NoRun
  BY RequestSleeps DEF Asleep
<1>1. CASE Restarts
  BY <1>1, QueueAfterRestart DEF ProcessEnds
<1>2. CASE Write \/ WriteFails
  <2>1. host # "ready" /\ Acts(Head(queue).action)
    BY <1>2, WriteActs
  <2> QED BY <2>1, RunSleeps DEF Asleep, Acts
<1>3. CASE Receive
  BY <1>3, ReceiveFrames DEF Asleep
<1>4. CASE Ready
  BY <1>4 DEF Ready
<1>5. ASSUME NEW a, Working(a) PROVE out' = <<>> /\ \A r \in Runs : run'[r] = NoRun
  <2>1. host # "ready" /\ Acts(a)
    BY <1>5 DEF Working
  <2> QED BY <2>1, RunSleeps DEF Asleep, Acts
<1> QED BY <1>1, <1>2, <1>3, <1>4, <1>5, Steps

\* What a step does to the request of an action.
Advances(a) ==
  \/ request'[a] = request[a]
  \/ /\ request'[a].try = request[a].try
     /\ request'[a].phase \in {"none", "sent", "cancelled", "ending"} /\ request[a].phase # "none"
  \/ /\ request'[a].try = request[a].try /\ request[a].phase # "none"
     /\ request'[a].phase = "saving" /\ a \notin Runs
  \/ request'[a].try = request[a].try + 1 /\ request'[a].phase = "boot"
  \/ request'[a].phase = "none" /\ request'[a].try = request[a].try

\* What a step does to what the user of an action sees.
Shows(a) ==
  /\ view[a] # "idle" => view'[a] # "idle"
  /\ a \in Runs /\ view[a] = "over" /\ request[a].phase = "none" =>
       view'[a] = "over" /\ request'[a].phase = "none"
  /\ a \in Tools \cup Edits /\ view'[a] = "ok" =>
       view[a] = "ok" \/ (Write /\ Head(queue).action = a)

LEMMA RequestsAdvance ==
  ASSUME RuntimeTyped, CheckpointsAreOfRuns, [Next]_vars, Viewed, NEW x \in Actions
  PROVE  Advances(x) /\ Shows(x) /\ Fits(x)'
<1>0. /\ request \in [Actions -> Requests]
      /\ view \in [Actions -> {"idle", "waiting", "ok", "failed", "over"}]
      /\ \A a \in Actions : Fits(a)
  BY DEF RuntimeTyped, RequestTypes, Viewed
<1> USE <1>0 DEF Requests, Advances, Shows, Fits
<1>1. CASE UNCHANGED <<request, view>>
  BY <1>1
<1>2. ASSUME NEW a \in Actions, Ask(a) PROVE Advances(x) /\ Shows(x) /\ Fits(x)'
  BY <1>2 DEF Ask
<1>3. ASSUME NEW a \in Actions, Capture(a) \/ Invoke(a) \/ Admit(a)
      PROVE  Advances(x) /\ Shows(x) /\ Fits(x)'
  <2>1. request[a].phase = "boot" /\ request' = [request EXCEPT ![a].phase = "sent"] /\ view' = view
    BY <1>3 DEF Capture, Invoke, Admit, Sent, IsSent
  <2> QED BY <2>1
<1>4. CASE RejectAll
  BY <1>4 DEF RejectAll, Rejects
<1>5. CASE Reload
  BY <1>5 DEF Reload
<1>6. CASE Receive
  <2> DEFINE f == Head(out)
             a == f.action
  <2>1. a \in Actions /\ f = out[1] /\ 1 \in 1..Len(out)
    BY <1>6, ReceiveFrames, TailItems DEF RuntimeTyped, ProcessTypes
  <2>2. f.type = "response" => a \notin Runs
    BY <2>1 DEF CheckpointsAreOfRuns
  <2> HIDE DEF f, a
  <2>3. CASE /\ f.type = "response"
             /\ request[a].phase \in {"sent", "cancelled"}
             /\ request' = [request EXCEPT ![a].phase = IF Persists(a) THEN "saving" ELSE "none"]
             /\ view' = [view EXCEPT ![a] = IF Persists(a) THEN @ ELSE "ok"]
    <3>1. CASE Persists(a)
      <4>1. request' = [request EXCEPT ![a].phase = "saving"] /\ view' = view
        BY <2>3, <3>1
      <4>2. request' = [request EXCEPT ![a].phase = "saving"] /\ view'[x] = view[x] /\ a \notin Runs
        BY <2>2, <2>3, <4>1
      <4> QED BY <2>1, <2>3, <4>2
    <3>2. CASE ~Persists(a)
      <4>1. /\ request' = [request EXCEPT ![a].phase = "none"] /\ view' = [view EXCEPT ![a] = "ok"]
            /\ a \in Reads
        BY <2>3, <3>2 DEF Persists
      <4> QED BY <2>1, <2>3, <4>1, Kinds
    <3> QED BY <3>1, <3>2
  <2>4. CASE /\ request[a].phase \in {"sent", "cancelled"}
             /\ request' = [request EXCEPT ![a].phase =
                  IF f.ok /\ @ = "sent" THEN "ending" ELSE "none"]
             /\ view' = [view EXCEPT ![a] =
                  IF f.ok \/ @ # "waiting" THEN @ ELSE IF f.type = "end" THEN "over" ELSE "failed"]
    BY <2>1, <2>4
  <2> QED BY <1>1, <1>6, <2>3, <2>4 DEF Receive, Waits, f, a
<1>7. ASSUME NEW r \in Runs, EndStream(r) PROVE Advances(x) /\ Shows(x) /\ Fits(x)'
  BY <1>7, Kinds DEF EndStream
<1>8. CASE Write \/ WriteFails
  <2>1. /\ Head(queue).action \in Actions
        /\ Head(queue).type = "checkpoint" <=> Head(queue).action \in Runs
    <3>1. queue # <<>> /\ queue \in Seq(Frames)
      BY <1>8, Zenon DEF Write, WriteFails, RuntimeTyped, DiskTypes
    <3>2. Head(queue) = queue[1] /\ 1 \in 1..Len(queue)
      BY <3>1
    <3> QED BY <3>1, <3>2, HeadTyped DEF CheckpointsAreOfRuns
  <2>2. CASE Head(queue).type = "checkpoint"
    BY <1>1, <1>8, <2>2, Zenon DEF Write, WriteFails
  <2>3. CASE Head(queue).type # "checkpoint"
    <3>1. /\ request' = [request EXCEPT ![Head(queue).action].phase = "none"]
          /\ \/ view' = [view EXCEPT ![Head(queue).action] = "ok"] /\ Write
             \/ view' = [view EXCEPT ![Head(queue).action] = "failed"]
      BY <1>8, <2>3, Zenon DEF Write, WriteFails
    <3> QED BY <2>1, <2>3, <3>1
  <2> QED BY <2>2, <2>3
<1>9. ASSUME NEW a \in Actions, TimesOut(a) PROVE Advances(x) /\ Shows(x) /\ Fits(x)'
  BY <1>9 DEF TimesOut
<1>10. ASSUME NEW r \in Runs, Stop(r) PROVE Advances(x) /\ Shows(x) /\ Fits(x)'
  BY <1>10, Kinds DEF Stop
<1>11. CASE Imported
  BY <1>11 DEF Imported
<1>13. CASE Next
  <2>1. ASSUME NEW a \in Actions, Answer(a) PROVE Advances(x) /\ Shows(x) /\ Fits(x)'
    BY <1>1, <2>1 DEF Answer
  <2>2. ASSUME NEW r \in Runs, Prompt(r) \/ Accept(r) \/ AckTimesOut(r) \/ RunFails(r)
        PROVE  Advances(x) /\ Shows(x) /\ Fits(x)'
    BY <1>1, <2>2 DEF Prompt, Accept, AckTimesOut, RunFails
  <2>3. CASE ProcessStep
    BY <1>3, <2>1, <2>2, <2>3, Zenon DEF ProcessStep
  <2>4. CASE StartBoot \/ Ready
    BY <1>1, <2>4 DEF StartBoot, Ready
  <2>5. CASE HostStep
    BY <1>6, <1>7, <2>4, <2>5, Zenon DEF HostStep
  <2>6. CASE BootFails \/ StopOrExit
    BY <1>4, <2>6 DEF BootFails, StopOrExit
  <2>7. ASSUME NEW state, Import(state) PROVE Advances(x) /\ Shows(x) /\ Fits(x)'
    BY <1>4, <2>7 DEF Import
  <2> QED BY <1>2, <1>5, <1>8, <1>9, <1>10, <1>11, <1>13, <2>2, <2>3, <2>5, <2>6, <2>7, Zenon DEF Next
<1> QED BY <1>1, <1>13 DEF vars

LEMMA ViewedStep ==
  ASSUME RuntimeTyped, CheckpointsAreOfRuns, [Next]_vars, Viewed PROVE Viewed'
BY RequestsAdvance DEF Viewed

LEMMA RunMoves ==
  ASSUME RuntimeTyped, Asleep, CheckpointsAreOfRuns, \A q \in Runs : Young(q), [Next]_vars,
         NEW r \in Runs
  PROVE  \/ run'[r] = run[r] \/ Moves(r) \/ run'[r] = NoRun
<1>1. ASSUME NEW a, Acts(a) PROVE run'[r] = run[r] \/ Moves(r)
  BY <1>1 DEF Acts
<1>2. CASE Write \/ WriteFails
  BY <1>1, <1>2, WriteActs
<1>3. CASE Receive
  BY <1>3, ReceiveFrames
<1>4. CASE Ready
  BY <1>4 DEF Ready
<1>5. CASE Restarts
  BY <1>5, QueueAfterRestart DEF ProcessEnds
<1>6. CASE \E a : Working(a)
  BY <1>1, <1>6 DEF Working
<1> QED BY <1>2, <1>3, <1>4, <1>5, <1>6, Steps

LEMMA RestingStep ==
  ASSUME RuntimeTyped, Asleep, CheckpointsAreOfRuns, \A r \in Runs : Young(r), Viewed, Resting,
         [Next]_vars
  PROVE  Resting'
<1> SUFFICES ASSUME NEW r \in Runs
             PROVE  (run'[r].phase = "none" => run'[r] = NoRun) /\ request'[r].phase # "saving"
  BY DEF Resting
<1>1. request'[r].phase # "saving"
  BY RequestsAdvance, Kinds DEF Resting, Advances
<1>2. run'[r].phase = "none" => run'[r] = NoRun
  BY RunMoves DEF Resting, Moves, Admitted, Acknowledged, Goes, Ends
<1> QED BY <1>1, <1>2

StaysFresh(r, try) ==
  /\ 1 <= try /\ try <= request'[r].try
  /\ request'[r].phase = "boot" => try # request'[r].try

LEMMA FreshStep ==
  ASSUME RuntimeTyped, NEW r \in Runs, Advances(r), NEW try \in Nat, Fresh(r, try)
  PROVE  StaysFresh(r, try)
<1>1. request[r].try \in Nat
  BY Kinds DEF RuntimeTyped, RequestTypes, Requests
<1> QED BY <1>1 DEF Advances, Fresh, StaysFresh

LEMMA YoungRun ==
  ASSUME RuntimeTyped, Asleep, CheckpointsAreOfRuns, \A q \in Runs : Young(q), Viewed, [Next]_vars,
         NEW r \in Runs
  PROVE  /\ run'[r] # NoRun => StaysFresh(r, run'[r].try)
         /\ request'[r].phase # "none" => 1 <= request'[r].try
<1>1. Advances(r)
  BY RequestsAdvance, Kinds
<1>2. run[r].try \in Nat /\ request[r].try \in Nat
  BY Kinds DEF RuntimeTyped, ProcessTypes, ChatRuns, RequestTypes, Requests
<1>3. request'[r].phase # "none" => 1 <= request'[r].try
  BY <1>1, <1>2 DEF Advances, Young
<1>4. ASSUME run'[r] # NoRun, run[r] # NoRun, run'[r].try = run[r].try PROVE StaysFresh(r, run'[r].try)
  <2>1. StaysFresh(r, run[r].try)
    BY <1>1, <1>2, <1>4, FreshStep DEF Young
  <2> QED BY <1>4, <2>1
<1>5. CASE Admitted(r)
  <2>1. 1 <= request[r].try
    BY <1>5 DEF Admitted, Young
  <2> QED BY <1>2, <1>3, <1>5, <2>1 DEF Admitted, Fresh, StaysFresh
<1>6. CASE ~Admitted(r)
  <2>1. run'[r] # NoRun => run[r] # NoRun /\ run'[r].try = run[r].try
    BY <1>6, RunMoves DEF Moves, Acknowledged, Goes, Ends, NoRun
  <2> QED BY <1>3, <1>4, <2>1
<1> QED BY <1>5, <1>6

LEMMA YoungStep ==
  ASSUME RuntimeTyped, Asleep, CheckpointsAreOfRuns, \A r \in Runs : Young(r), Viewed, [Next]_vars
  PROVE  \A r \in Runs : Young(r)'
<1> SUFFICES ASSUME NEW r \in Runs PROVE Young(r)'
  OBVIOUS
<1> DEFINE InQueue == \A i \in 1..Len(queue) : queue[i].action = r => Fresh(r, queue[i].try)
           InOut == \A i \in 1..Len(out) :
                      out[i].action = r /\ out[i].type = "checkpoint" => Fresh(r, out[i].try)
<1>1. queue \in Seq(Frames) /\ out \in Seq(Frames) /\ InQueue /\ InOut
  BY DEF RuntimeTyped, DiskTypes, ProcessTypes, Young
<1>2. Advances(r)
  BY RequestsAdvance, Kinds
<1>3. ASSUME NEW f \in Frames, Fresh(r, f.try) PROVE StaysFresh(r, f.try)
  BY <1>2, <1>3, FreshStep DEF Frames
<1>4. ASSUME NEW i \in 1..Len(queue), queue[i].action = r PROVE StaysFresh(r, queue[i].try)
  BY <1>1, <1>3, <1>4
<1>5. ASSUME NEW i \in 1..Len(out), out[i].action = r, out[i].type = "checkpoint"
      PROVE  StaysFresh(r, out[i].try)
  BY <1>1, <1>3, <1>5
<1>6. ASSUME InQueue', InOut' PROVE Young(r)'
  BY <1>6, YoungRun DEF Young, Fresh, StaysFresh
<1>7. ASSUME queue' = queue PROVE InQueue'
  BY <1>4, <1>7 DEF Fresh, StaysFresh
<1>8. ASSUME NEW a, Acts(a) PROVE InOut'
  <2>1. CASE out' = out
    BY <1>5, <2>1 DEF Fresh, StaysFresh
  <2>2. ASSUME NEW f \in Frames, out' = Append(out, f), Spoken(a, f) PROVE InOut'
    <3>1. f.action = r /\ f.type = "checkpoint" => StaysFresh(r, f.try)
      BY <2>2, YoungRun DEF Spoken, Fresh, StaysFresh
    <3> QED BY <1>1, <1>5, <2>2, <3>1, AppendItems DEF Fresh, StaysFresh
  <2> QED BY <1>8, <2>1, <2>2 DEF Acts
<1>9. CASE Write \/ WriteFails
  <2>1. InOut' /\ queue # <<>> /\ queue' = Tail(queue)
    BY <1>8, <1>9, WriteActs
  <2>2. InQueue'
    BY <1>1, <1>4, <2>1, TailItems DEF Fresh, StaysFresh
  <2> QED BY <1>6, <2>1, <2>2
<1>10. CASE Receive
  <2>1. InOut'
    <3>1. out # <<>> /\ out' = Tail(out)
      BY <1>10, ReceiveFrames
    <3>2. \A i \in 1..Len(out') : out'[i] = out[i + 1] /\ i + 1 \in 1..Len(out)
      BY <1>1, <3>1, TailItems
    <3> QED BY <1>5, <3>2 DEF Fresh, StaysFresh
  <2>2. CASE queue' = queue
    BY <1>6, <1>7, <2>1, <2>2
  <2>3. CASE /\ queue' = Append(queue, Head(out))
             /\ Head(out).type \in {"checkpoint", "response"}
    <3>1. Head(out) = out[1] /\ 1 \in 1..Len(out) /\ Head(out) \in Frames
      BY <1>1, <1>10, ReceiveFrames, TailItems
    <3>2. Head(out).action = r => StaysFresh(r, Head(out).try)
      BY <1>5, <2>3, <3>1 DEF CheckpointsAreOfRuns, Fresh, StaysFresh
    <3>3. InQueue'
      BY <1>1, <1>4, <2>3, <3>1, <3>2, AppendItems DEF Fresh, StaysFresh
    <3> QED BY <1>6, <2>1, <3>3
  <2> QED BY <1>10, <2>2, <2>3, ReceiveFrames
<1>11. CASE Ready
  <2>1. InOut' /\ InQueue'
    BY <1>5, <1>7, <1>11 DEF Ready, Fresh, StaysFresh
  <2> QED BY <1>6, <2>1
<1>12. CASE Restarts
  <2>1. out' = <<>> /\ (queue' = queue \/ queue' = <<>>)
    BY <1>12, QueueAfterRestart DEF ProcessEnds
  <2>2. InOut' /\ InQueue'
    BY <1>7, <2>1
  <2> QED BY <1>6, <2>2
<1>13. CASE \E a : Working(a)
  <2>1. queue' = queue /\ InOut'
    BY <1>8, <1>13 DEF Working, disk
  <2> QED BY <1>6, <1>7, <2>1
<1> QED BY <1>9, <1>10, <1>11, <1>12, <1>13, Steps

\* While an import is in progress the host and the process have nothing to do.
Idle ==
  /\ queue = <<>> /\ out = <<>> /\ DOMAIN held = {} /\ \A r \in Runs : run[r] = NoRun
  /\ \A a \in Actions : request[a].phase \in {"none", "saving"}
Quiet == import # "no" => recovery /\ Idle

LEMMA IdleSteps ==
  ASSUME RuntimeTyped, Idle, import # "no", [Next]_vars
  PROVE  \/ UNCHANGED <<import, recovery, archive, backup, queue, out, held, run, request>>
         \/ Ready \/ Imported \/ Restarts
<1> DEFINE Same == UNCHANGED <<import, recovery, archive, backup, queue, out, held, run, request>>
<1>1. ASSUME NEW a \in Actions, Capture(a) \/ Answer(a) \/ Invoke(a) \/ Admit(a) \/ Ask(a) \/ TimesOut(a)
      PROVE  FALSE
  <2>1. request[a].phase \in {"none", "saving"} /\ a \notin DOMAIN held
    BY DEF Idle
  <2> QED BY <1>1, <2>1 DEF Capture, Answer, Invoke, Admit, Ask, TimesOut, Sent
<1>2. ASSUME NEW r \in Runs,
             Prompt(r) \/ Accept(r) \/ AckTimesOut(r) \/ RunFails(r) \/ Stop(r) \/ EndStream(r)
      PROVE  FALSE
  <2>1. request[r].phase \in {"none", "saving"} /\ run[r].phase = "none"
    BY Kinds DEF Idle, NoRun
  <2> QED BY <1>2, <2>1 DEF Prompt, Accept, AckTimesOut, RunFails, Stop, EndStream
<1>3. ~Receive /\ ~Write /\ ~WriteFails
  BY DEF Idle, Receive, Write, WriteFails
<1>4. StartBoot => Same
  BY DEF StartBoot, process, disk
<1>5. vars' = vars => Same
  BY DEF vars, process, disk
<1>6. CASE ProcessStep
  BY <1>1, <1>2, <1>6, Zenon DEF ProcessStep
<1>7. CASE HostStep
  BY <1>2, <1>3, <1>4, <1>7, Zenon DEF HostStep
<1>8. CASE \E a \in Actions : Ask(a) \/ TimesOut(a)
  BY <1>1, <1>8
<1>9. CASE \E r \in Runs : RunFails(r) \/ Stop(r)
  BY <1>2, <1>9
<1> HIDE DEF Same
<1>10. CASE Next
  BY <1>3, <1>6, <1>7, <1>8, <1>9, <1>10, Zenon DEF Next, Restarts
<1> QED BY <1>5, <1>10 DEF Same

LEMMA ImportBegins ==
  ASSUME import = "no", [Next]_vars, import' # "no"
  PROVE  \E state \in {"good", "bad"} : Import(state)
<1>1. vars' # vars
  BY DEF vars
<1>2. ~ProcessStep
  BY DEF ProcessStep, Capture, Answer, Invoke, Admit, Prompt, Accept, AckTimesOut
<1>3. ~HostStep
  BY DEF HostStep, StartBoot, Ready, Receive, EndStream
<1>4. ~Write /\ ~WriteFails
  BY DEF Write, WriteFails
<1>5. ~Imported /\ ~BootFails /\ ~StopOrExit /\ ~Reload
  BY DEF Imported, BootFails, StopOrExit, Reload, Restored
<1>6. ~\E a \in Actions : Ask(a) \/ TimesOut(a)
  BY DEF Ask, TimesOut
<1>7. ~\E r \in Runs : RunFails(r) \/ Stop(r)
  BY DEF RunFails, Stop
<1> QED BY <1>1, <1>2, <1>3, <1>4, <1>5, <1>6, <1>7, Zenon DEF Next

LEMMA QuietStep == ASSUME RuntimeTyped, Quiet, [Next]_vars PROVE Quiet'
<1> SUFFICES ASSUME import' # "no" PROVE recovery' /\ Idle'
  BY DEF Quiet
<1>1. CASE import = "no"
  <2>1. PICK state \in {"good", "bad"} : Import(state)
    BY <1>1, ImportBegins
  <2>2. recovery' /\ queue' = <<>> /\ out' = <<>> /\ held' = <<>> /\ (\A r \in Runs : run'[r] = NoRun)
    BY <2>1 DEF Import, ProcessEnds
  <2>3. \A a \in Actions : request'[a].phase \in {"none", "saving"}
    BY <2>1 DEF Import, RejectAll, Rejects, RuntimeTyped, RequestTypes, Requests
  <2> QED BY <2>2, <2>3 DEF Idle
<1>2. CASE import # "no"
  <2>1. recovery /\ Idle
    BY <1>2 DEF Quiet
  <2>2. CASE UNCHANGED <<import, recovery, archive, backup, queue, out, held, run, request>>
    BY <2>1, <2>2 DEF Idle
  <2>3. CASE Ready
    BY <2>1, <2>3 DEF Ready, Idle
  <2>4. CASE Imported \/ Restarts
    BY <1>2, <2>4 DEF Imported, Restarts, BootFails, StopOrExit, Restored, Reload, Import
  <2> QED BY <1>2, <2>1, <2>2, <2>3, <2>4, IdleSteps
<1> QED BY <1>1, <1>2

-----------------------------------------------------------------------------
(* The invariants so far, and what runs have been paid for. *)

\* A run that was paid for was asked for; what an answer holds, the process knows;
\* and without an archive there are no data.
Seen(r) == paid[r] > 0 \/ run[r].phase # "none" => view[r] # "idle"
HeldIsDone(a) == a \in DOMAIN held => held[a][a] = "done" /\ mem[a] = "done"
NothingIsArchived == archive.state = "none" => archive.data = Nothing

Orderly ==
  /\ RuntimeTyped /\ Asleep /\ CheckpointsAreOfRuns /\ Viewed /\ Resting /\ Quiet
  /\ NothingIsArchived
  /\ \A r \in Runs : Young(r) /\ Seen(r)
  /\ \A a \in Edits : HeldIsDone(a)

LEMMA PaidGrows == ASSUME [Next]_vars PROVE paid' = paid \/ \E r \in Runs : Prompt(r)
<1>1. CASE vars' = vars
  BY <1>1 DEF vars, histories
<1>2. ProcessStep => paid' = paid \/ \E r \in Runs : Prompt(r)
  BY DEF ProcessStep, Capture, Answer, Invoke, Admit, Accept, AckTimesOut, histories
<1>3. HostStep \/ Imported => paid' = paid
  BY DEF HostStep, StartBoot, Ready, Receive, EndStream, Imported, histories
<1>4. Write \/ WriteFails => paid' = paid
  BY Zenon DEF Write, WriteFails, histories
<1>5. (\E a \in Actions : Ask(a) \/ TimesOut(a)) => paid' = paid
  BY DEF Ask, TimesOut, histories
<1>6. (\E r \in Runs : RunFails(r) \/ Stop(r)) => paid' = paid
  BY DEF RunFails, Stop, histories
<1>7. Restarts => paid' = paid
  BY DEF Restarts, BootFails, StopOrExit, Reload, Import
<1> QED BY <1>1, <1>2, <1>3, <1>4, <1>5, <1>6, <1>7, Zenon DEF Next, Restarts

LEMMA SeenStep == ASSUME Orderly, [Next]_vars, NEW r \in Runs PROVE Seen(r)'
<1> USE DEF Orderly
<1>1. Shows(r)
  BY RequestsAdvance, Kinds
<1>2. ASSUME run'[r].phase # "none", run[r].phase = "none" PROVE view[r] # "idle"
  <2>1. Admitted(r)
    BY <1>2, RunMoves DEF Moves, Acknowledged, Goes, Ends, Resting, NoRun
  <2> QED BY <2>1, Kinds DEF Admitted, Viewed, Fits
<1>3. ASSUME paid'[r] > 0, ~(paid[r] > 0) PROVE run[r].phase # "none"
  BY <1>3, PaidGrows DEF Prompt, RuntimeTyped, OtherTypes
<1> QED BY <1>1, <1>2, <1>3 DEF Seen, Shows

LEMMA HeldStep == ASSUME Orderly, [Next]_vars, NEW e \in Edits PROVE HeldIsDone(e)'
<1> USE DEF Orderly
<1>1. e \in Saved /\ mem \in Snapshots
  BY Kinds DEF RuntimeTyped, ProcessTypes
<1>2. ASSUME NEW a, Acts(a), mem[e] = "done" PROVE mem'[e] = "done"
  BY <1>1, <1>2 DEF Acts
<1>3. ASSUME held' = held, NEW a, Acts(a) PROVE HeldIsDone(e)'
  BY <1>2, <1>3 DEF HeldIsDone
<1>4. ASSUME NEW a \in Actions, Capture(a) PROVE HeldIsDone(e)'
  <2>1. a \in Edits => mem' = [mem EXCEPT ![a] = "done"]
    BY <1>4 DEF Capture
  <2>2. a \notin Edits => mem' = mem
    BY <1>4 DEF Capture
  <2>3. held' = [x \in DOMAIN held \cup {a} |-> IF x = a THEN mem' ELSE held[x]]
    BY <1>4 DEF Capture
  <2>4. mem[e] = "done" \/ a = e => mem'[e] = "done"
    BY <1>1, <2>1, <2>2 DEF Snapshots
  <2> QED BY <2>3, <2>4 DEF HeldIsDone
<1>5. ASSUME NEW a \in Actions, Answer(a) PROVE HeldIsDone(e)'
  BY <1>5 DEF Answer, HeldIsDone
<1>6. CASE Write \/ WriteFails
  BY <1>3, <1>6, WriteActs
<1>7. CASE Receive
  BY <1>7, ReceiveFrames DEF HeldIsDone
<1>8. CASE Ready
  BY <1>8 DEF Ready, Asleep, HeldIsDone
<1>9. CASE Restarts
  BY <1>9, QueueAfterRestart DEF ProcessEnds, HeldIsDone
<1>10. CASE UNCHANGED held /\ ~Write /\ ~WriteFails /\ ~Receive /\ ~Ready /\ ~Restarts
  <2>1. PICK a : Working(a)
    BY <1>10, Steps
  <2> QED BY <1>3, <1>10, <2>1 DEF Working
<1>11. ASSUME held' # held, ~Receive, ~Ready, ~Restarts, ~Write, ~WriteFails
       PROVE  \E a \in Actions : Capture(a) \/ Answer(a)
  <2>1. ~Imported /\ ~StartBoot /\ vars' # vars /\ ~\E r \in Runs : EndStream(r)
    BY <1>11 DEF Imported, StartBoot, EndStream, vars, process
  <2>2. ~\E a \in Actions : Invoke(a) \/ Admit(a) \/ Ask(a) \/ TimesOut(a)
    BY <1>11 DEF Invoke, Admit, Ask, TimesOut, process
  <2>3. ~\E r \in Runs : Prompt(r) \/ Accept(r) \/ AckTimesOut(r) \/ RunFails(r) \/ Stop(r)
    BY <1>11 DEF Prompt, Accept, AckTimesOut, RunFails, Stop
  <2> QED BY <1>11, <2>1, <2>2, <2>3, Zenon DEF Next, ProcessStep, HostStep, Restarts
<1> QED BY <1>4, <1>5, <1>6, <1>7, <1>8, <1>9, <1>10, <1>11

LEMMA ArchivedStep == ASSUME Orderly, [Next]_vars PROVE NothingIsArchived'
<1> USE DEF Orderly
<1>1. CASE archive' = archive
  BY <1>1 DEF NothingIsArchived
<1>2. CASE Restored
  BY <1>2 DEF Restored, NothingIsArchived
<1>3. CASE Write
  <2>1. archive' = [data |-> Head(queue).data, state |-> "good"]
    BY <1>3, Zenon DEF Write
  <2> QED BY <2>1 DEF NothingIsArchived
<1>4. CASE WriteFails
  BY <1>1, <1>4, Zenon DEF WriteFails
<1>5. CASE Receive \/ Ready
  BY <1>1, <1>5, ReceiveFrames DEF Ready
<1>6. CASE Restarts
  <2>1. CASE BootFails \/ StopOrExit
    BY <1>2, <2>1 DEF BootFails, StopOrExit
  <2>2. CASE Reload
    BY <1>1, <2>2 DEF Reload
  <2>3. CASE \E state \in {"good", "bad"} : Import(state)
    BY <2>3 DEF Import, NothingIsArchived
  <2> QED BY <1>6, <2>1, <2>2, <2>3 DEF Restarts
<1>7. CASE \E a : Working(a)
  BY <1>1, <1>7 DEF Working, disk
<1> QED BY <1>3, <1>4, <1>5, <1>6, <1>7, Steps

LEMMA OrderlyStep == ASSUME Orderly, [Next]_vars PROVE Orderly'
<1>1. RuntimeTyped'
  BY RequestsTyped, ProcessTyped, DiskTyped, OtherTyped DEF Orderly, RuntimeTyped
<1>2. Asleep' /\ CheckpointsAreOfRuns' /\ Viewed' /\ Resting' /\ Quiet'
  BY AsleepStep, SortedStep, ViewedStep, RestingStep, QuietStep DEF Orderly
<1>3. NothingIsArchived'
  BY ArchivedStep
<1>4. \A r \in Runs : Young(r)' /\ Seen(r)'
  BY YoungStep, SeenStep DEF Orderly
<1>5. \A a \in Edits : HeldIsDone(a)'
  BY HeldStep
<1> QED BY <1>1, <1>2, <1>3, <1>4, <1>5 DEF Orderly

-----------------------------------------------------------------------------
(* What has been answered for is saved, and nothing that is on its way takes *)
(* it back.                                                                  *)

\* Frames with what the process knew when it sent them.
Counts(f) == f.type = "checkpoint" \/ f.action \in Tools

\* Saving the frame f is what action a is answered on, or its run paid on.
Key(a, f, runs) ==
  /\ f.action = a
  /\ a \notin Runs => f.type = "response"
  /\ a \in Runs => f.type = "checkpoint" /\ runs[a].phase = "admitting" /\ f.try = runs[a].try

InMemory(a) == host = "ready" => Has(a, mem)
InFrames(a) == \A j \in 1..Len(out) : Counts(out[j]) => Has(a, out[j].data)

\* From such a frame on, every snapshot has the mark of the action.
QueueHolds(a) ==
  \A i \in 1..Len(queue) : Key(a, queue[i], run) =>
    /\ \A j \in i..Len(queue) : Has(a, queue[j].data)
    /\ InFrames(a) /\ InMemory(a)
FramesHold(a) ==
  \A i \in 1..Len(out) : Key(a, out[i], run) =>
    /\ Has(a, out[i].data) /\ Has(a, mem)
    /\ \A j \in i..Len(out) : Counts(out[j]) => Has(a, out[j].data)

Safe(a) ==
  /\ Has(a, archive.data) /\ \A i \in 1..Len(queue) : Has(a, queue[i].data)
  /\ InFrames(a) /\ InMemory(a)
Kept(a) == IF import = "no" THEN Safe(a) ELSE backup.state # "none" /\ Has(a, backup.data)

\* The id of a run is not used again.
Closed(r) == view[r] = "over" /\ request[r].phase = "none" /\ run[r] = NoRun
Settled(a) ==
  IF a \in Runs THEN run[a].phase = "prompting" \/ (paid[a] > 0 /\ ~Closed(a))
                ELSE a \in Tools \cup Edits /\ view[a] = "ok"

PaidFor(r) == paid[r] <= 1 /\ (run[r].phase \in {"admitting", "prompting"} => paid[r] = 0)

Core(a) == QueueHolds(a) /\ FramesHold(a) /\ (Settled(a) => Kept(a))
Durable(a) == Core(a) /\ (a \in Runs => PaidFor(a))

LEMMA Sequences ==
  ASSUME Orderly
  PROVE  /\ queue \in Seq(Frames) /\ out \in Seq(Frames) /\ Len(queue) \in Nat /\ Len(out) \in Nat
         /\ \A i \in 1..Len(queue) : queue[i] \in Frames
         /\ \A i \in 1..Len(out) : out[i] \in Frames
BY DEF Orderly, RuntimeTyped, DiskTypes, ProcessTypes

\* A step of the process loses the mark of an action only when an unpaid run fails.
LEMMA MarkStays ==
  ASSUME Orderly, [Next]_vars, NEW b, Acts(b), NEW a \in Saved, a \in Runs => PaidFor(a),
         Has(a, mem), ~Has(a, mem')
  PROVE  a \in Runs /\ run'[a].phase # "admitting" /\ ~Settled(a)'
<1>1. a = b
  BY DEF Acts, Has
<1>2. a \in Runs
  BY <1>1, Kinds DEF Acts, Has, Good, Saved
<1>3. Goes(a) /\ run[a].phase \in {"admitting", "prompting"}
  <2>1. Moves(a)
    BY <1>1, <1>2 DEF Acts
  <2>2. ~Admitted(a) /\ ~Acknowledged(a) /\ mem'[a] # mem[a]
    BY <1>2 DEF Admitted, Acknowledged, Has, Good
  <2>3. Goes(a)
    BY <2>1, <2>2 DEF Moves, Ends
  <2> QED BY <2>3 DEF Goes
<1>4. paid[a] = 0
  BY <1>2, <1>3 DEF PaidFor
<1>5. paid' = paid \/ \E r \in Runs : Prompt(r)
  BY PaidGrows
<1>6. ~\E r \in Runs : Prompt(r)
  BY DEF Prompt, Has
<1>7. run'[a].phase \notin {"admitting", "prompting"}
  BY <1>3 DEF Goes
<1> QED BY <1>2, <1>4, <1>5, <1>6, <1>7 DEF Settled

LEMMA FramesStay ==
  ASSUME Orderly, NEW b, Acts(b), NEW a \in Saved, Has(a, mem'), InFrames(a)
  PROVE  InFrames(a)'
<1>1. CASE out' = out
  BY <1>1 DEF InFrames
<1>2. ASSUME NEW f \in Frames, out' = Append(out, f), Spoken(b, f) PROVE InFrames(a)'
  <2>1. Counts(f) => Has(a, f.data)
    BY <1>2 DEF Spoken, Counts
  <2> QED BY <1>2, <2>1, Sequences, AppendItems DEF InFrames
<1> QED BY <1>1, <1>2 DEF Acts

LEMMA KeyStays ==
  ASSUME Orderly, NEW b, Acts(b), NEW a \in Saved, NEW f \in Frames, Key(a, f, run'),
         a \in Runs => Fresh(a, f.try)
  PROVE  Key(a, f, run)
<1>1. CASE a \notin Runs
  BY <1>1 DEF Key
<1>2. CASE a \in Runs
  <2>1. a # b => run'[a] = run[a]
    BY <1>2 DEF Acts
  <2>2. a = b => Moves(a)
    BY <1>2 DEF Acts
  <2>3. run'[a].phase = "admitting" /\ f.try = run'[a].try
    BY <1>2 DEF Key
  <2>4. ~Admitted(a)
    BY <1>2, <2>3 DEF Admitted, Fresh
  <2>5. run[a].phase = "admitting" /\ f.try = run[a].try
    BY <2>1, <2>2, <2>3, <2>4 DEF Moves, Acknowledged, Goes, Ends, NoRun
  <2> QED BY <1>2, <2>5 DEF Key
<1> QED BY <1>1, <1>2

LEMMA NewKey ==
  ASSUME Orderly, NEW b, Acts(b), NEW a \in Saved, NEW f \in Frames, Spoken(b, f), Key(a, f, run')
  PROVE  Has(a, f.data) /\ Has(a, mem')
<1>1. a = b
  BY DEF Spoken, Key
<1>2. CASE a \in Runs
  BY <1>1, <1>2 DEF Spoken, Key, Has, Good
<1>3. CASE a \in Tools
  BY <1>1, <1>3, Kinds DEF Spoken, Has, Good
<1>4. CASE a \in Edits
  <2>1. f.data[a] = "done" /\ mem[a] = "done"
    BY <1>1, <1>4 DEF Spoken, Orderly, HeldIsDone
  <2>2. mem'[a] = "done"
    BY <1>1, <1>4, <2>1 DEF Acts
  <2> QED BY <1>4, <2>1, <2>2, Kinds DEF Has, Good
<1> QED BY <1>2, <1>3, <1>4 DEF Saved

LEMMA ActsFrames ==
  ASSUME Orderly, [Next]_vars, NEW b, Acts(b), NEW a \in Saved, a \in Runs => PaidFor(a), FramesHold(a)
  PROVE  FramesHold(a)'
<1>1. /\ out \in Seq(Frames) /\ Len(out) \in Nat
      /\ \A i \in 1..Len(out) : out[i] \in Frames
  BY Sequences
<1>2. ASSUME NEW i \in 1..Len(out), Key(a, out[i], run')
      PROVE  /\ Has(a, out[i].data) /\ Has(a, mem')
             /\ \A j \in i..Len(out) : Counts(out[j]) => Has(a, out[j].data)
  <2>1. a \in Runs => Fresh(a, out[i].try)
    BY <1>2 DEF Orderly, Young, Key
  <2>2. Key(a, out[i], run)
    BY <1>1, <1>2, <2>1, KeyStays
  <2>3. Has(a, mem) /\ (a \in Runs => run'[a].phase = "admitting")
    BY <1>2, <2>2 DEF FramesHold, Key
  <2>4. Has(a, mem')
    BY <2>3, MarkStays
  <2> QED BY <2>2, <2>4 DEF FramesHold
<1>3. CASE out' = out
  BY <1>2, <1>3 DEF FramesHold
<1>4. ASSUME NEW f \in Frames, out' = Append(out, f), Spoken(b, f) PROVE FramesHold(a)'
  <2>1. Has(a, mem') /\ Counts(f) => Has(a, f.data)
    BY <1>4 DEF Spoken, Counts
  <2>2. Key(a, f, run') => Has(a, f.data) /\ Has(a, mem')
    BY <1>4, NewKey
  <2>3. /\ Len(out') = Len(out) + 1
        /\ \A i \in 1..Len(out) : out'[i] = out[i]
        /\ out'[Len(out) + 1] = f
    BY <1>1, <1>4, AppendItems
  <2>4. ASSUME NEW i \in 1..Len(out'), Key(a, out'[i], run')
        PROVE  /\ Has(a, out'[i].data) /\ Has(a, mem')
               /\ \A j \in i..Len(out') : Counts(out'[j]) => Has(a, out'[j].data)
    <3>1. CASE i \in 1..Len(out)
      <4>1. /\ Has(a, out[i].data) /\ Has(a, mem')
            /\ \A j \in i..Len(out) : Counts(out[j]) => Has(a, out[j].data)
        BY <1>2, <2>3, <2>4, <3>1
      <4>2. ASSUME NEW j \in i..Len(out'), Counts(out'[j]) PROVE Has(a, out'[j].data)
        <5>1. (j \in i..Len(out) /\ j \in 1..Len(out)) \/ j = Len(out) + 1
          BY <1>1, <2>3, <3>1
        <5> QED BY <2>1, <2>3, <4>1, <4>2, <5>1
      <4> QED BY <2>3, <3>1, <4>1, <4>2
    <3>2. CASE i = Len(out) + 1
      <4>1. Has(a, f.data) /\ Has(a, mem')
        BY <2>2, <2>3, <2>4, <3>2
      <4>2. \A j \in i..Len(out') : j = i
        BY <1>1, <2>3, <3>2
      <4> QED BY <2>3, <3>2, <4>1, <4>2
    <3> QED BY <1>1, <2>3, <3>1, <3>2
  <2> QED BY <2>4 DEF FramesHold
<1> QED BY <1>3, <1>4 DEF Acts

\* What a step of the process keeps of the marks that others rely on.
LEMMA ActsMarks ==
  ASSUME Orderly, [Next]_vars, NEW b, Acts(b), NEW a \in Saved, a \in Runs => PaidFor(a),
         host' = "ready" => host = "ready",
         InFrames(a), InMemory(a),
         Settled(a)' \/ (a \in Runs => run'[a].phase = "admitting")
  PROVE  InFrames(a)' /\ InMemory(a)'
<1>1. CASE host = "ready"
  <2>1. Has(a, mem')
    BY <1>1, MarkStays DEF InMemory
  <2> QED BY <2>1, FramesStay DEF InMemory
<1>2. CASE host # "ready"
  <2>1. out' = <<>>
    BY <1>2 DEF Acts, Orderly, Asleep
  <2> QED BY <1>2, <2>1 DEF InFrames, InMemory
<1> QED BY <1>1, <1>2

\* A frame in the queue that is a key after a step of the process was one before.
LEMMA QueuedKey ==
  ASSUME Orderly, [Next]_vars, NEW b, Acts(b), NEW a \in Saved, a \in Runs => PaidFor(a),
         host' = "ready" => host = "ready", QueueHolds(a),
         NEW i \in 1..Len(queue), Key(a, queue[i], run')
  PROVE  (\A j \in i..Len(queue) : Has(a, queue[j].data)) /\ InFrames(a)' /\ InMemory(a)'
<1>1. a \in Runs => Fresh(a, queue[i].try)
  BY DEF Orderly, Young, Key
<1>2. Key(a, queue[i], run)
  BY <1>1, Sequences, KeyStays
<1>3. (\A j \in i..Len(queue) : Has(a, queue[j].data)) /\ InFrames(a) /\ InMemory(a)
  BY <1>2 DEF QueueHolds
<1>4. a \in Runs => run'[a].phase = "admitting"
  BY DEF Key
<1> QED BY <1>3, <1>4, ActsMarks

LEMMA SpoiledStays == ASSUME [Next]_vars, RuntimeTyped PROVE spoiled \subseteq spoiled'
<1>1. CASE vars' = vars
  BY <1>1 DEF vars, histories
<1>2. ProcessStep => spoiled \subseteq spoiled'
  BY DEF ProcessStep, Capture, Answer, Invoke, Admit, Prompt, Accept, AckTimesOut, histories
<1>3. StartBoot \/ Ready \/ Imported \/ (\E r \in Runs : EndStream(r)) => spoiled \subseteq spoiled'
  BY DEF StartBoot, Ready, EndStream, Imported, histories
<1>4. Receive => spoiled \subseteq spoiled'
  BY Zenon DEF Receive
<1>5. Write \/ WriteFails => spoiled \subseteq spoiled'
  BY Zenon DEF Write, WriteFails, histories
<1>6. (\E a \in Actions : Ask(a) \/ TimesOut(a)) => spoiled \subseteq spoiled'
  BY DEF Ask, TimesOut, histories
<1>7. (\E r \in Runs : RunFails(r) \/ Stop(r)) => spoiled \subseteq spoiled'
  BY DEF RunFails, Stop, histories
<1>8. BootFails \/ StopOrExit \/ (\E state \in {"good", "bad"} : Import(state)) => spoiled \subseteq spoiled'
  BY DEF BootFails, StopOrExit, Import
<1>9. Reload => spoiled \subseteq spoiled'
  BY DEF Reload, RuntimeTyped, OtherTypes
<1> QED BY <1>1, <1>2, <1>3, <1>4, <1>5, <1>6, <1>7, <1>8, <1>9, Zenon DEF Next, HostStep

\* The id of a run stays unused.
LEMMA ClosedStays == ASSUME Orderly, [Next]_vars, NEW r \in Runs, Closed(r) PROVE Closed(r)'
<1>1. Shows(r)
  BY RequestsAdvance, Kinds DEF Orderly
<1>2. view'[r] = "over" /\ request'[r].phase = "none"
  BY <1>1 DEF Shows, Closed
<1>3. ~Admitted(r)
  BY DEF Admitted, Closed
<1>4. run'[r] = NoRun
  BY <1>3, RunMoves DEF Orderly, Moves, Acknowledged, Goes, Ends, Closed, NoRun
<1> QED BY <1>2, <1>4 DEF Closed

\* Only a write settles something.
LEMMA Settles ==
  ASSUME Orderly, [Next]_vars, NEW a \in Saved, Settled(a)', ~Settled(a)
  PROVE  Write /\ Key(a, Head(queue), run)
<1> USE DEF Orderly
<1>1. CASE a \in Tools \cup Edits
  <2>1. Shows(a) /\ a \notin Runs
    BY <1>1, RequestsAdvance, Kinds
  <2>2. Write /\ Head(queue).action = a
    BY <1>1, <2>1 DEF Shows, Settled
  <2>3. queue # <<>> /\ queue \in Seq(Frames)
    BY <2>2, Zenon DEF Write, RuntimeTyped, DiskTypes
  <2>4. Head(queue) = queue[1] /\ 1 \in 1..Len(queue)
    BY <2>3
  <2>5. Head(queue).type = "response"
    BY <2>1, <2>2, <2>4 DEF CheckpointsAreOfRuns
  <2> QED BY <2>1, <2>2, <2>5 DEF Key
<1>2. CASE a \in Runs
  <2>1. ASSUME run'[a].phase = "prompting", run[a].phase # "prompting"
        PROVE  Acknowledged(a)
    BY <1>2, <2>1, RunMoves DEF Moves, Admitted, Goes, Ends, NoRun
  <2>2. ASSUME paid'[a] > 0, ~Closed(a)' PROVE FALSE
    <3>1. ~Closed(a)
      BY <1>2, <2>2, ClosedStays
    <3>2. ~(paid[a] > 0) /\ run[a].phase # "prompting"
      BY <1>2, <3>1 DEF Settled
    <3>3. paid'[a] = paid[a]
      BY <1>2, <3>2, PaidGrows DEF Prompt, RuntimeTyped, OtherTypes
    <3> QED BY <2>2, <3>2, <3>3
  <2>3. Acknowledged(a)
    BY <1>2, <2>1, <2>2 DEF Settled
  <2>4. ~Receive /\ ~Ready /\ ~Restarts
    <3>1. ~Receive
      BY <2>3, ReceiveFrames DEF Acknowledged
    <3>2. ~Ready
      BY <2>3 DEF Acknowledged, Ready
    <3>3. ~Restarts
      BY <1>2, <2>3, QueueAfterRestart DEF ProcessEnds, Acknowledged, NoRun
    <3> QED BY <3>1, <3>2, <3>3
  <2>5. Write \/ WriteFails
    BY <1>2, <2>3, <2>4, Steps DEF Working
  <2>6. /\ Write /\ Head(queue).action = a /\ Head(queue).type = "checkpoint"
        /\ Head(queue).try = run[a].try
    BY <1>2, <2>3, <2>5, WriteActs
  <2> QED BY <1>2, <2>3, <2>6 DEF Key, Acknowledged
<1> QED BY <1>1, <1>2 DEF Saved

LEMMA FramesMeanNoImport == ASSUME Orderly, queue # <<>> \/ out # <<>> PROVE import = "no"
BY DEF Orderly, Quiet, Idle

LEMMA CoreWrites ==
  ASSUME Orderly, [Next]_vars, Write \/ WriteFails, NEW a \in Saved, Durable(a)
  PROVE  Core(a)'
<1> DEFINE b == Head(queue).action
<1>1. /\ queue # <<>> /\ queue' = Tail(queue) /\ host' = host /\ Acts(b)
  BY WriteActs DEF Orderly
<1>2. /\ import = "no" /\ import' = import
      /\ \/ Write /\ archive' = [data |-> Head(queue).data, state |-> "good"]
         \/ ~Write /\ archive' = archive
  <2>1. import' = import
    BY Zenon DEF Write, WriteFails
  <2>2. CASE Write
    <3>1. archive' = [data |-> Head(queue).data, state |-> "good"]
      BY <2>2, Zenon DEF Write
    <3> QED BY <1>1, <2>1, <2>2, <3>1, FramesMeanNoImport
  <2>3. CASE ~Write
    <3>1. archive' = archive
      BY <2>3, Zenon DEF WriteFails
    <3> QED BY <1>1, <2>1, <2>3, <3>1, FramesMeanNoImport
  <2> QED BY <2>2, <2>3
<1> HIDE DEF b
<1>3. /\ QueueHolds(a) /\ FramesHold(a) /\ (Settled(a) => Kept(a)) /\ (a \in Runs => PaidFor(a))
  BY DEF Durable, Core
<1>4. /\ Head(queue) = queue[1] /\ Len(queue) \in Nat /\ 1 \in 1..Len(queue)
      /\ Len(queue') = Len(queue) - 1
      /\ \A i \in 1..Len(queue') : queue'[i] = queue[i + 1] /\ i + 1 \in 1..Len(queue)
  <2>1. queue \in Seq(Frames)
    BY Sequences
  <2> QED BY <1>1, <2>1, TailItems
<1>5. FramesHold(a)'
  BY <1>1, <1>3, ActsFrames
<1>6. QueueHolds(a)'
  <2> SUFFICES ASSUME NEW i \in 1..Len(queue'), Key(a, queue'[i], run')
               PROVE  (\A j \in i..Len(queue') : Has(a, queue'[j].data)) /\ InFrames(a)' /\ InMemory(a)'
    BY DEF QueueHolds
  <2>1. i + 1 \in 1..Len(queue) /\ Key(a, queue[i + 1], run')
    BY <1>4
  <2>2. (\A j \in (i + 1)..Len(queue) : Has(a, queue[j].data)) /\ InFrames(a)' /\ InMemory(a)'
    BY <1>1, <1>3, <2>1, QueuedKey
  <2>3. ASSUME NEW j \in i..Len(queue') PROVE Has(a, queue'[j].data)
    <3>1. j \in 1..Len(queue') /\ j + 1 \in (i + 1)..Len(queue)
      BY <1>4
    <3> QED BY <1>4, <2>2, <3>1
  <2> QED BY <2>2, <2>3
<1>7. ASSUME Settled(a)' PROVE Kept(a)'
  <2>1. CASE Settled(a)
    <3>1. Safe(a)
      BY <1>2, <1>3, <2>1 DEF Kept
    <3>2. InFrames(a)' /\ InMemory(a)'
      BY <1>1, <1>3, <1>7, <3>1, ActsMarks DEF Safe
    <3>3. Has(a, archive'.data)
      BY <1>2, <1>4, <3>1 DEF Safe
    <3>4. \A i \in 1..Len(queue') : Has(a, queue'[i].data)
      BY <1>4, <3>1 DEF Safe
    <3> QED BY <1>2, <3>2, <3>3, <3>4 DEF Kept, Safe
  <2>2. CASE ~Settled(a)
    <3>1. Write /\ Key(a, queue[1], run)
      BY <1>4, <1>7, <2>2, Settles
    <3>2. (\A j \in 1..Len(queue) : Has(a, queue[j].data)) /\ InFrames(a) /\ InMemory(a)
      BY <1>3, <1>4, <3>1 DEF QueueHolds
    <3>3. InFrames(a)' /\ InMemory(a)'
      BY <1>1, <1>3, <1>7, <3>2, ActsMarks
    <3>4. Has(a, archive'.data)
      BY <1>2, <1>4, <3>1, <3>2
    <3>5. \A i \in 1..Len(queue') : Has(a, queue'[i].data)
      BY <1>4, <3>2
    <3> QED BY <1>2, <3>3, <3>4, <3>5 DEF Kept, Safe
  <2> QED BY <2>1, <2>2
<1> QED BY <1>5, <1>6, <1>7 DEF Core

\* An answer that is saved does not take a mark of the newest snapshot back.
LEMMA NotOlder ==
  ASSUME Orderly, Receive, NEW a \in Saved \ spoiled', InFrames(a), Has(a, Newest),
         queue' = Append(queue, Head(out))
  PROVE  Has(a, Head(out).data)
<1>1. out # <<>> /\ out \in Seq(Frames)
  BY Sequences DEF Receive
<1>2. Head(out) = out[1] /\ 1 \in 1..Len(out) /\ Head(out) \in Frames
  BY <1>1
<1>3. CASE Counts(Head(out))
  BY <1>2, <1>3 DEF InFrames
<1>4. CASE ~Counts(Head(out))
  <2>1. queue' # queue
    BY Sequences
  <2>2. Head(out).type = "response"
    BY <1>4, <2>1, ReceiveFrames DEF Counts, Orderly
  <2>3. Head(out).action \in Reads \cup Edits
    BY <1>2, <1>4, <2>2, Kinds DEF Counts, Orderly, CheckpointsAreOfRuns, Frames
  <2>4. Persists(Head(out).action) /\ ~((Head(out).action \in Edits \/ ~seeded) /\ Older(a, Head(out).data))
    BY <2>1, <2>2, Zenon DEF Receive
  <2>5. ~Older(a, Head(out).data)
    BY <2>3, <2>4, Kinds DEF Persists
  <2>6. Head(out).data \in Snapshots
    BY <1>2 DEF Frames
  <2> QED BY <2>5, <2>6 DEF Older, Has, Good, Snapshots, Marks
<1> QED BY <1>3, <1>4

LEMMA CoreReceives ==
  ASSUME Orderly, [Next]_vars, Receive, NEW a \in Saved \ spoiled', Durable(a)
  PROVE  Core(a)'
<1> DEFINE f == Head(out)
<1>1. /\ out # <<>> /\ out' = Tail(out) /\ f = out[1] /\ f \in Frames
      /\ (queue' = queue \/ queue' = Append(queue, f))
      /\ UNCHANGED <<archive, backup, host, import, mem, run>>
      /\ import = "no"
  BY ReceiveFrames, FramesMeanNoImport DEF Orderly
<1>2. /\ QueueHolds(a) /\ FramesHold(a) /\ (Settled(a) => Kept(a))
  BY DEF Durable, Core
<1>3. queue \in Seq(Frames) /\ Len(queue) \in Nat /\ out \in Seq(Frames) /\ Len(out) \in Nat
  BY Sequences
<1>4. /\ 1 \in 1..Len(out) /\ Len(out') = Len(out) - 1
      /\ \A i \in 1..Len(out') : out'[i] = out[i + 1] /\ i + 1 \in 1..Len(out)
  BY <1>1, <1>3, TailItems
<1>5. FramesHold(a)'
  <2> SUFFICES ASSUME NEW i \in 1..Len(out'), Key(a, out'[i], run')
               PROVE  /\ Has(a, out'[i].data) /\ Has(a, mem')
                      /\ \A j \in i..Len(out') : Counts(out'[j]) => Has(a, out'[j].data)
    BY DEF FramesHold
  <2>1. i + 1 \in 1..Len(out) /\ Key(a, out[i + 1], run)
    BY <1>1, <1>4
  <2>2. /\ Has(a, out[i + 1].data) /\ Has(a, mem)
        /\ \A j \in (i + 1)..Len(out) : Counts(out[j]) => Has(a, out[j].data)
    BY <1>2, <2>1 DEF FramesHold
  <2>3. ASSUME NEW j \in i..Len(out'), Counts(out'[j]) PROVE Has(a, out'[j].data)
    <3>1. j \in 1..Len(out') /\ j + 1 \in (i + 1)..Len(out)
      BY <1>3, <1>4
    <3> QED BY <1>4, <2>2, <2>3, <3>1
  <2> QED BY <1>1, <1>4, <2>2, <2>3
<1>6. InFrames(a) => InFrames(a)'
  BY <1>4 DEF InFrames
<1>7. InMemory(a) => InMemory(a)'
  BY <1>1 DEF InMemory
<1> HIDE DEF f
<1>8. ASSUME queue' = Append(queue, f), InFrames(a), Has(a, Newest) PROVE Has(a, f.data)
  BY <1>8, NotOlder DEF f
<1>9. ASSUME queue' = Append(queue, f)
      PROVE  /\ Len(queue') = Len(queue) + 1
             /\ \A i \in 1..Len(queue) : queue'[i] = queue[i]
             /\ queue'[Len(queue) + 1] = f
  BY <1>1, <1>3, <1>9, AppendItems
<1>10. ASSUME NEW i \in 1..Len(queue), Has(a, queue[Len(queue)].data) PROVE Has(a, Newest)
  <2>1. queue # <<>> /\ Last(queue) = queue[Len(queue)]
    BY <1>3, <1>10 DEF Last
  <2> QED BY <1>10, <2>1 DEF Newest
<1>11. QueueHolds(a)'
  <2>1. CASE queue' = queue
    BY <1>1, <1>2, <1>6, <1>7, <2>1 DEF QueueHolds
  <2>2. CASE queue' = Append(queue, f)
    <3> SUFFICES ASSUME NEW i \in 1..Len(queue'), Key(a, queue'[i], run')
                 PROVE  (\A j \in i..Len(queue') : Has(a, queue'[j].data)) /\ InFrames(a)' /\ InMemory(a)'
      BY DEF QueueHolds
    <3>1. CASE i \in 1..Len(queue)
      <4>1. (\A j \in i..Len(queue) : Has(a, queue[j].data)) /\ InFrames(a) /\ InMemory(a)
        BY <1>1, <1>2, <1>9, <2>2, <3>1 DEF QueueHolds
      <4>2. Len(queue) \in i..Len(queue)
        BY <1>3, <3>1
      <4>3. Has(a, f.data)
        BY <1>8, <1>10, <2>2, <3>1, <4>1, <4>2
      <4>4. ASSUME NEW j \in i..Len(queue') PROVE Has(a, queue'[j].data)
        <5>1. (j \in i..Len(queue) /\ j \in 1..Len(queue)) \/ j = Len(queue) + 1
          BY <1>3, <1>9, <2>2, <3>1
        <5> QED BY <1>9, <2>2, <4>1, <4>3, <5>1
      <4> QED BY <1>6, <1>7, <4>1, <4>4
    <3>2. CASE i = Len(queue) + 1
      <4>1. Key(a, out[1], run)
        BY <1>1, <1>9, <2>2, <3>2
      <4>2. Has(a, f.data) /\ Has(a, mem) /\ InFrames(a)
        BY <1>1, <1>2, <1>4, <4>1 DEF FramesHold, InFrames
      <4>3. \A j \in i..Len(queue') : j = i
        BY <1>3, <1>9, <2>2, <3>2
      <4> QED BY <1>6, <1>7, <1>9, <2>2, <3>2, <4>2, <4>3 DEF InMemory
    <3> QED BY <1>3, <1>9, <2>2, <3>1, <3>2
  <2> QED BY <1>1, <2>1, <2>2
<1>12. ASSUME Settled(a)' PROVE Kept(a)'
  <2>1. ~Write
    <3>1. Write => queue # <<>> /\ queue' = Tail(queue)
      BY Zenon DEF Write
    <3>2. Write => Len(queue') = Len(queue) - 1
      BY <1>3, <3>1, TailItems
    <3> QED BY <1>1, <1>3, <1>9, <3>2
  <2>2. Safe(a)
    BY <1>1, <1>2, <1>12, <2>1, Settles DEF Kept
  <2>3. CASE queue' = queue
    BY <1>1, <1>6, <1>7, <2>2, <2>3 DEF Kept, Safe
  <2>4. CASE queue' = Append(queue, f)
    <3>1. Has(a, Newest)
      <4>1. CASE queue = <<>>
        BY <2>2, <4>1 DEF Newest, Safe
      <4>2. CASE queue # <<>>
        <5>1. 1 \in 1..Len(queue) /\ Len(queue) \in 1..Len(queue)
          BY <1>3, <4>2
        <5> QED BY <1>10, <2>2, <5>1 DEF Safe
      <4> QED BY <4>1, <4>2
    <3>2. Has(a, f.data)
      BY <1>8, <2>2, <2>4, <3>1 DEF Safe
    <3>3. \A j \in 1..Len(queue') : Has(a, queue'[j].data)
      <4>1. \A j \in 1..Len(queue') : j \in 1..Len(queue) \/ j = Len(queue) + 1
        BY <1>3, <1>9, <2>4
      <4> QED BY <1>9, <2>2, <2>4, <3>2, <4>1 DEF Safe
    <3> QED BY <1>1, <1>6, <1>7, <2>2, <3>3 DEF Kept, Safe
  <2> QED BY <1>1, <2>3, <2>4
<1> QED BY <1>5, <1>11, <1>12 DEF Core

LEMMA CoreReady == ASSUME Orderly, [Next]_vars, Ready, NEW a \in Saved, Durable(a) PROVE Core(a)'
<1>1. queue' = <<>> /\ out' = <<>>
  BY DEF Ready, Orderly, Asleep
<1>2. QueueHolds(a)' /\ FramesHold(a)' /\ InFrames(a)'
  BY <1>1 DEF QueueHolds, FramesHold, InFrames
<1>3. ASSUME Settled(a)' PROVE Kept(a)'
  <2>1. ~Write
    BY Zenon DEF Ready, Write
  <2>2. Kept(a)
    BY <1>3, <2>1, Settles DEF Durable, Core
  <2>3. CASE import = "no"
    BY <1>1, <1>2, <2>2, <2>3 DEF Ready, Kept, Safe, InMemory
  <2>4. CASE import # "no"
    BY <2>2, <2>4 DEF Ready, Kept, BackedUp, Orderly, Quiet
  <2> QED BY <2>3, <2>4
<1> QED BY <1>2, <1>3 DEF Core

LEMMA CoreRestarts ==
  ASSUME Orderly, [Next]_vars, Restarts, NEW a \in Saved \ spoiled', Durable(a)
  PROVE  Core(a)'
<1>1. /\ host' = "down" /\ out' = <<>> /\ (queue' = queue \/ queue' = <<>>)
      /\ \A r \in Runs : run'[r] = NoRun
  BY QueueAfterRestart DEF ProcessEnds
<1>2. FramesHold(a)' /\ InFrames(a)' /\ InMemory(a)'
  BY <1>1 DEF FramesHold, InFrames, InMemory
<1>3. QueueHolds(a) /\ (Settled(a) => Kept(a))
  BY DEF Durable, Core
<1>4. QueueHolds(a)'
  <2>1. ASSUME NEW f, Key(a, f, run') PROVE Key(a, f, run)
    BY <1>1, <2>1 DEF Key, NoRun
  <2> QED BY <1>1, <1>2, <1>3, <2>1 DEF QueueHolds
<1>5. ASSUME Settled(a)' PROVE Kept(a)'
  <2>1. Settled(a)
    <3>1. CASE queue = <<>>
      BY <1>5, <3>1, Settles, Zenon DEF Write
    <3>2. CASE queue # <<>>
      <4>1. Len(queue) \in Nat /\ (Write => Len(queue') = Len(queue) - 1)
        <5>1. Write => queue' = Tail(queue)
          BY Zenon DEF Write
        <5> QED BY <3>2, <5>1, Sequences, TailItems
      <4>2. Write => host' = host
        BY Zenon DEF Write
      <4>3. Write => archive' = [data |-> Head(queue).data, state |-> "good"] /\ seeded' = TRUE
        BY Zenon DEF Write
      <4> QED BY <1>1, <1>5, <3>2, <4>1, <4>2, <4>3, Settles DEF Restarts, BootFails, StopOrExit, Reload, Import
    <3> QED BY <3>1, <3>2
  <2>2. Kept(a)
    BY <1>3, <2>1
  <2>3. CASE BootFails \/ StopOrExit
    <3>1. Restored /\ queue' = queue
      BY <2>3 DEF BootFails, StopOrExit
    <3>2. CASE import = "no"
      BY <1>2, <2>2, <3>1, <3>2 DEF Restored, Kept, Safe
    <3>3. CASE import # "no"
      <4>1. queue = <<>> /\ import' = "no" /\ archive' = backup
        BY <2>2, <3>1, <3>3 DEF Orderly, Quiet, Idle, Restored, Kept
      <4> QED BY <1>2, <2>2, <3>1, <3>3, <4>1 DEF Kept, Safe
    <3> QED BY <3>2, <3>3
  <2>4. CASE Reload
    <3>1. import = "no"
      BY <2>4 DEF Reload
    <3>2. queue' = <<>> /\ import' = "no" /\ archive' = archive
      BY <2>4 DEF Reload
    <3> QED BY <1>2, <2>2, <3>1, <3>2 DEF Kept, Safe
  <2>5. CASE \E state \in {"good", "bad"} : Import(state)
    <3>1. import = "no" /\ import' = "stored"
          /\ backup' = (IF archive.state = "none" THEN backup ELSE archive)
      BY <2>5 DEF Import
    <3>2. Has(a, archive.data)
      BY <2>2, <3>1 DEF Kept, Safe
    <3>3. archive.state # "none"
      BY <3>2 DEF Orderly, NothingIsArchived, Nothing, Has, Good
    <3> QED BY <3>1, <3>2, <3>3 DEF Kept
  <2> QED BY <2>3, <2>4, <2>5 DEF Restarts
<1> QED BY <1>2, <1>4, <1>5 DEF Core

\* Nothing is settled once the imported data are the user's.
LEMMA ImportedSettlesNothing ==
  ASSUME Orderly, Imported, NEW a \in Saved PROVE ~Settled(a)'
<1> USE DEF Orderly
<1>1. /\ view' = [x \in Actions |-> IF view[x] \in {"ok", "failed"} THEN "over" ELSE view[x]]
      /\ UNCHANGED <<request, run, paid>> /\ import # "no" /\ a \in Actions
  BY Kinds DEF Imported, process, histories
<1>2. CASE a \notin Runs
  BY <1>1, <1>2 DEF Settled
<1>3. CASE a \in Runs
  <2>1. run[a] = NoRun /\ request[a].phase = "none"
    BY <1>1, <1>3 DEF Quiet, Idle, Resting
  <2>2. view[a] \in {"idle", "ok", "failed", "over"}
    BY <1>1, <2>1 DEF Viewed, Fits, RuntimeTyped, RequestTypes
  <2>3. paid[a] > 0 => view[a] # "idle"
    BY <1>3 DEF Seen
  <2>4. paid'[a] > 0 => Closed(a)'
    BY <1>1, <2>1, <2>2, <2>3 DEF Closed
  <2>5. run'[a].phase # "prompting"
    BY <1>1, <2>1 DEF NoRun
  <2> QED BY <1>3, <2>4, <2>5 DEF Settled
<1> QED BY <1>2, <1>3

LEMMA CoreWorks ==
  ASSUME Orderly, [Next]_vars, ~Write, NEW b, Working(b), NEW a \in Saved, Durable(a)
  PROVE  Core(a)'
<1>1. /\ Acts(b) /\ UNCHANGED <<archive, backup, queue>>
      /\ (host' = "ready" => host = "ready") /\ (import' = import \/ Imported)
  BY DEF Working, disk
<1>2. QueueHolds(a) /\ FramesHold(a) /\ (Settled(a) => Kept(a)) /\ (a \in Runs => PaidFor(a))
  BY DEF Durable, Core
<1>3. FramesHold(a)'
  BY <1>1, <1>2, ActsFrames
<1>4. QueueHolds(a)'
  <2>1. \A i \in 1..Len(queue) : Key(a, queue[i], run') =>
          (\A j \in i..Len(queue) : Has(a, queue[j].data)) /\ InFrames(a)' /\ InMemory(a)'
    BY <1>1, <1>2, QueuedKey
  <2> QED BY <1>1, <2>1 DEF QueueHolds
<1>5. ASSUME Settled(a)' PROVE Kept(a)'
  <2>1. ~Imported
    BY <1>5, ImportedSettlesNothing
  <2>2. Kept(a)
    BY <1>2, <1>5, Settles
  <2>3. CASE import = "no"
    <3>1. InFrames(a)' /\ InMemory(a)'
      BY <1>1, <1>2, <1>5, <2>2, <2>3, ActsMarks DEF Kept, Safe
    <3> QED BY <1>1, <2>1, <2>2, <2>3, <3>1 DEF Kept, Safe
  <2>4. CASE import # "no"
    BY <1>1, <2>1, <2>2, <2>4 DEF Kept
  <2> QED BY <2>3, <2>4
<1> QED BY <1>3, <1>4, <1>5 DEF Core

LEMMA CoreStep == ASSUME Orderly, [Next]_vars, NEW a \in Saved \ spoiled', Durable(a) PROVE Core(a)'
<1>1. CASE Write \/ WriteFails
  BY <1>1, CoreWrites
<1>2. CASE Receive
  BY <1>2, CoreReceives
<1>3. CASE Ready
  BY <1>3, CoreReady
<1>4. CASE Restarts
  BY <1>4, CoreRestarts
<1>5. CASE ~Write /\ ~WriteFails /\ ~Receive /\ ~Ready /\ ~Restarts
  <2>1. \E b : Working(b)
    BY <1>5, Steps DEF Orderly
  <2> QED BY <1>5, <2>1, CoreWorks
<1> QED BY <1>1, <1>2, <1>3, <1>4, <1>5

\* A run is admitted only when nothing is known of an earlier one under its id.
LEMMA PaidStep == ASSUME Orderly, [Next]_vars, NEW r \in Runs, Durable(r) PROVE PaidFor(r)'
<1> USE DEF Orderly
<1>1. PaidFor(r) /\ paid[r] \in Nat
  BY DEF Durable, RuntimeTyped, OtherTypes
<1>2. CASE Admitted(r)
  <2>1. import = "no" /\ host = "ready" /\ ~Closed(r) /\ ~Has(r, mem)
    BY <1>2, Kinds DEF Admitted, Quiet, Idle, Closed, Has, Good
  <2>2. ~Settled(r)
    BY <2>1, Kinds DEF Durable, Core, Kept, Safe, InMemory
  <2>3. paid[r] = 0
    BY <1>1, <2>1, <2>2 DEF Settled
  <2>4. paid'[r] = 0
    BY <1>2, <2>3, PaidGrows DEF Prompt, Admitted, NoRun, RuntimeTyped, OtherTypes
  <2> QED BY <2>4 DEF PaidFor
<1>3. CASE ~Admitted(r)
  <2>1. run'[r].phase \in {"admitting", "prompting"} => run[r].phase \in {"admitting", "prompting"}
    BY <1>3, RunMoves DEF Moves, Acknowledged, Goes, Ends, NoRun
  <2>2. CASE paid'[r] = paid[r]
    BY <1>1, <2>1, <2>2 DEF PaidFor
  <2>3. CASE paid'[r] # paid[r]
    <3>1. Prompt(r)
      BY <2>3, PaidGrows DEF Prompt, RuntimeTyped, OtherTypes
    <3>2. run[r].phase = "prompting" /\ run'[r].phase = "running" /\ paid'[r] = paid[r] + 1
      BY <3>1 DEF Prompt, RuntimeTyped, OtherTypes, ProcessTypes, ChatRuns
    <3> QED BY <1>1, <3>2 DEF PaidFor
  <2> QED BY <2>2, <2>3
<1> QED BY <1>2, <1>3

(***************************************************************************)
(* The inductive invariant.  Of every action that is not in spoiled (no    *)
(* older snapshot may have taken its mark), what is settled is kept: its   *)
(* mark is in the archive and in everything that may replace the archive,  *)
(* or in the backup while an import may still fail.                        *)
(***************************************************************************)
RuntimeInvariant == Orderly /\ \A a \in Saved \ spoiled : Durable(a)

LEMMA RuntimeStep == ASSUME RuntimeInvariant, [Next]_vars PROVE RuntimeInvariant'
<1>1. Orderly'
  BY OrderlyStep DEF RuntimeInvariant
<1>2. ASSUME NEW a \in Saved \ spoiled' PROVE Durable(a)'
  <2>1. a \in Saved \ spoiled
    BY SpoiledStays DEF RuntimeInvariant, Orderly
  <2>2. Orderly /\ Durable(a)
    BY <2>1 DEF RuntimeInvariant
  <2>3. Core(a)'
    BY <2>2, CoreStep
  <2>4. a \in Runs => PaidFor(a)'
    BY <2>2, PaidStep
  <2> QED BY <2>3, <2>4 DEF Durable
<1> QED BY <1>1, <1>2 DEF RuntimeInvariant

LEMMA RuntimeInit == ASSUME Init PROVE RuntimeInvariant
<1> USE DEF Init
<1>1. RuntimeTyped
  <2>1. archive \in Archives
    <3>1. NoArchive.data \in Snapshots /\ NoArchive = [data |-> NoArchive.data, state |-> "none"]
      BY Nothings DEF NoArchive, Nothing
    <3>2. archive = [data |-> NoArchive.data, state |-> IF Empty THEN "none" ELSE "good"]
      BY <3>1
    <3> QED BY <3>1, <3>2 DEF Archives
  <2>2. RequestTypes
    BY Nothings DEF RequestTypes
  <2>3. DOMAIN held = {} /\ ProcessTypes
    BY Nothings DEF ProcessTypes
  <2>4. OtherTypes
    BY DEF OtherTypes
  <2> QED BY <2>1, <2>2, <2>3, <2>4, Nothings DEF RuntimeTyped, DiskTypes
<1>2. Asleep /\ CheckpointsAreOfRuns /\ Viewed /\ Resting /\ Quiet /\ NothingIsArchived
  BY Kinds DEF Asleep, CheckpointsAreOfRuns, Viewed, Fits, Resting, Quiet, NothingIsArchived, NoRequest,
               NoArchive
<1>3. \A r \in Runs : Young(r) /\ Seen(r)
  BY Kinds DEF Young, Seen, NoRequest, NoRun
<1>4. \A a \in Edits : HeldIsDone(a)
  BY DEF HeldIsDone
<1>5. \A a \in Saved : Durable(a)
  <2>1. \A r \in Runs : PaidFor(r)
    BY DEF PaidFor
  <2>2. ASSUME NEW a \in Saved PROVE QueueHolds(a) /\ FramesHold(a) /\ ~Settled(a)
    BY Kinds DEF QueueHolds, FramesHold, Settled, NoRun
  <2> QED BY <2>1, <2>2 DEF Durable, Core
<1> QED BY <1>1, <1>2, <1>3, <1>4, <1>5 DEF RuntimeInvariant, Orderly

\* The invariant holds in every behaviour of the runtime.
THEOREM RuntimeInductive == Spec => []RuntimeInvariant
<1>1. Init => RuntimeInvariant
  BY RuntimeInit
<1>2. RuntimeInvariant /\ [Next]_vars => RuntimeInvariant'
  BY RuntimeStep
<1> QED BY <1>1, <1>2, PTL DEF Spec

\* The state of the runtime has its types: a host without a process has no runs, no
\* answers and no frames, and a user waits exactly while a request is open.
THEOREM RuntimeTypeCorrect == Spec => []TypeOK
<1>1. RuntimeInvariant => TypeOK
  BY Kinds DEF RuntimeInvariant, Orderly, TypeOK, RuntimeTyped, DiskTypes, RequestTypes, ProcessTypes, OtherTypes,
         Archives, Snapshots, Marks, Requests, ChatRuns, Viewed, Fits, Asleep
<1> QED BY <1>1, RuntimeInductive, PTL

(***************************************************************************)
(* A run that is paid for twice under its id, whatever stops, fails, is    *)
(* retried or reloaded, is in spoiled: any other asks the model only after *)
(* the archive says it is pending, and nothing takes that away again.      *)
(***************************************************************************)
THEOREM PaysOnce == Spec => []PaidOnce
<1>1. ASSUME RuntimeInvariant, NEW r \in Runs, r \notin spoiled PROVE ~(paid[r] > 1)
  <2>1. r \in Saved /\ PaidFor(r) /\ paid[r] \in Nat
    BY <1>1 DEF RuntimeInvariant, Durable, Saved, Orderly, RuntimeTyped, OtherTypes
  <2> QED BY <2>1 DEF PaidFor
<1>2. RuntimeInvariant => PaidOnce
  BY <1>1 DEF PaidOnce
<1> QED BY <1>2, RuntimeInductive, PTL

(***************************************************************************)
(* A change that its user was told is done and that is not in spoiled is   *)
(* in the archive, or in the backup that a failed import returns to.       *)
(***************************************************************************)
THEOREM Saves == Spec => []ChangesAreSaved
<1>1. ASSUME RuntimeInvariant, NEW a \in (Tools \cup Edits) \ spoiled, view[a] = "ok"
      PROVE  (IF import = "no" THEN archive ELSE backup).data[a] = "done"
  <2>1. a \in Saved /\ a \notin Runs
    BY Kinds
  <2>2. Settled(a)
    BY <1>1, <2>1 DEF Settled
  <2>3. Kept(a)
    BY <1>1, <2>1, <2>2 DEF RuntimeInvariant, Durable, Core
  <2> QED BY <2>1, <2>3 DEF Kept, Safe, Has, Good
<1>2. RuntimeInvariant => ChangesAreSaved
  BY <1>1 DEF ChangesAreSaved
<1> QED BY <1>2, RuntimeInductive, PTL

=============================================================================
