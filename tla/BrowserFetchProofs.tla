------------------------- MODULE BrowserFetchProofs -------------------------
(***************************************************************************)
(* Proofs about BrowserFetch, and about MCBrowserFetch's choice of an      *)
(* event loop that is prompt or not, for any number of fetches, any        *)
(* interval and any timeout.  The inductive invariant joins to the type    *)
(* what a fetch at the lock relies on (LockServesTheWaiting), what it has  *)
(* open at each place (HeldByPlace) and that a sleeper sleeps long enough  *)
(* (LongEnough); OnTime is that of a prompt loop.                          *)
(***************************************************************************)
EXTENDS MCBrowserFetch, FiniteSetTheorems, TLAPS

USE FetchAssumption DEF All

\* What a fetch has open follows from where it is.
HeldByPlace ==
    \A f \in Fetches :
        /\ pc[f] \in Waiting \cup {"idle"} => held[f] = 0
        /\ pc[f] \in Body => held[f] = All
        /\ pc[f] = "closing" => held[f] \in 1 .. All
        /\ (pc[f] = "done" /\ held[f] # 0) => cut[f] \in {"setup", "closing"}

\* The sleep of the holder outlasts the interval, and the stamp is the time of
\* the last pass.
LongEnough ==
    /\ gap = since
    /\ \A f \in Fetches : pc[f] = "sleeping" => wait + since >= MinInterval

IInv == TypeOK /\ LockServesTheWaiting /\ HeldByPlace /\ LongEnough

-----------------------------------------------------------------------------
LEMMA Removal ==
    ASSUME NEW s \in Seq(Fetches), NEW i \in DOMAIN s
    PROVE  /\ RemoveAt(s, i) \in Seq(Fetches)
           /\ Len(RemoveAt(s, i)) = Len(s) - 1
           /\ \A j \in 1 .. Len(s) - 1 :
                  RemoveAt(s, i)[j] = IF j < i THEN s[j] ELSE s[j + 1]
<1> i \in 1 .. Len(s) /\ Len(s) \in Nat
  OBVIOUS
<1> DEFINE a == SubSeq(s, 1, i - 1)
           b == SubSeq(s, i + 1, Len(s))
<1>1. a \in Seq(Fetches) /\ Len(a) = i - 1 /\ \A j \in 1 .. i - 1 : a[j] = s[j]
  OBVIOUS
<1>2. /\ b \in Seq(Fetches) /\ Len(b) = Len(s) - i
      /\ \A j \in 1 .. Len(s) - i : b[j] = s[j + i]
  OBVIOUS
<1>3. RemoveAt(s, i) = a \o b
  BY DEF RemoveAt
<1> HIDE DEF a, b
<1> QED
  BY <1>1, <1>2, <1>3

\* Queue member i, f, leaves the queue: the others keep their order.
Leaves(i) ==
    /\ Len(queue') = Len(queue) - 1
    /\ \A j \in 1 .. Len(queue) - 1 :
           queue'[j] = IF j < i THEN queue[j] ELSE queue[j + 1]

LEMMA TailLeaves ==
    ASSUME queue \in Seq(Fetches), queue # <<>>, queue' = Tail(queue)
    PROVE  queue' \in Seq(Fetches) /\ Leaves(1) /\ Head(queue) = queue[1]
BY DEF Leaves

\* Whoever leaves the lock, the others keep it.
LEMMA LeavingKeepsLock ==
    ASSUME TypeOK, LockServesTheWaiting, NEW f \in Fetches, NEW i \in DOMAIN queue,
           queue[i] = f, Leaves(i), queue' \in Seq(Fetches),
           NEW there \in {"setup", "done"}, pc' = [pc EXCEPT ![f] = there]
    PROVE  LockServesTheWaiting'
<1> /\ queue \in Seq(Fetches) /\ Len(queue) \in Nat
    /\ DOMAIN queue = 1 .. Len(queue) /\ DOMAIN queue' = 1 .. Len(queue) - 1
  BY DEF TypeOK, Leaves
<1>1. ASSUME NEW j \in DOMAIN queue', NEW k \in DOMAIN queue', queue'[j] = queue'[k]
      PROVE  j = k
  <2> DEFINE at(m) == IF m < i THEN m ELSE m + 1
  <2>1. \A m \in DOMAIN queue' : at(m) \in DOMAIN queue /\ queue'[m] = queue[at(m)]
    BY DEF Leaves
  <2>2. queue[at(j)] = queue[at(k)]
    BY <1>1, <2>1
  <2>3. at(j) = at(k)
    BY <2>1, <2>2 DEF LockServesTheWaiting
  <2> QED
    BY <2>3
<1>2. ASSUME NEW g \in Fetches
      PROVE  /\ pc'[g] \in Waiting <=> \E j \in DOMAIN queue' : queue'[j] = g
             /\ pc'[g] = "sleeping" => queue'[1] = g
  <2>1. CASE g = f
    <3>1. pc'[g] = there /\ there \notin Waiting
      BY <2>1 DEF TypeOK, Waiting
    <3>2. ~ \E j \in DOMAIN queue' : queue'[j] = g
      BY <2>1 DEF LockServesTheWaiting, Leaves
    <3> QED
      BY <3>1, <3>2 DEF Waiting
  <2>2. CASE g # f
    <3>1. pc'[g] = pc[g]
      BY <2>2 DEF TypeOK
    <3>2. ASSUME NEW j \in DOMAIN queue', queue'[j] = g
          PROVE  \E k \in DOMAIN queue : queue[k] = g
      BY <3>2 DEF Leaves
    <3>3. ASSUME NEW k \in DOMAIN queue, queue[k] = g
          PROVE  \E j \in DOMAIN queue' : queue'[j] = g
      <4>1. CASE k < i
        <5>1. k \in DOMAIN queue' /\ queue'[k] = g
          BY <3>3, <4>1 DEF Leaves
        <5> QED
          BY <5>1
      <4>2. CASE k > i
        <5>1. k - 1 \in DOMAIN queue' /\ queue'[k - 1] = g
          BY <3>3, <4>2 DEF Leaves
        <5> QED
          BY <5>1
      <4> QED
        BY <2>2, <3>3, <4>1, <4>2
    <3>4. ASSUME pc[g] = "sleeping"
          PROVE  queue'[1] = g
      <4>1. queue[1] = g /\ i # 1
        BY <2>2, <3>4 DEF LockServesTheWaiting
      <4> QED
        BY <4>1 DEF Leaves
    <3> QED
      BY <3>1, <3>2, <3>3, <3>4 DEF LockServesTheWaiting
  <2> QED
    BY <2>1, <2>2
<1> QED
  BY <1>1, <1>2 DEF LockServesTheWaiting

\* A holder that passes is the head of the queue and leaves it.
LEMMA PassLeaves ==
    ASSUME TypeOK, LockServesTheWaiting, NEW f \in Fetches, Pass(f),
           \/ pc[f] = "queued" /\ Head(queue) = f
           \/ pc[f] = "sleeping"
    PROVE  /\ queue' \in Seq(Fetches) /\ Leaves(1)
           /\ 1 \in DOMAIN queue /\ queue[1] = f
<1>1. queue \in Seq(Fetches) /\ queue # <<>> /\ queue' = Tail(queue)
  BY DEF TypeOK, LockServesTheWaiting, Pass, Waiting
<1>2. 1 \in DOMAIN queue /\ Head(queue) = queue[1]
  BY <1>1
<1> QED
  BY <1>1, <1>2, TailLeaves DEF LockServesTheWaiting

\* A waiting fetch that is cancelled leaves the queue wherever it is in it.
LEMMA CancelLeaves ==
    ASSUME TypeOK, NEW f \in Fetches, LeaveQueue(f)
    PROVE  /\ queue' \in Seq(Fetches)
           /\ \E i \in DOMAIN queue : queue[i] = f /\ Leaves(i)
<1>1. PICK i \in DOMAIN queue : queue[i] = f /\ queue' = RemoveAt(queue, i)
  BY DEF LeaveQueue
<1>2. queue \in Seq(Fetches)
  BY DEF TypeOK
<1> QED
  BY <1>1, <1>2, Removal DEF Leaves

-----------------------------------------------------------------------------
LEMMA TypeStep ==
    ASSUME TypeOK, LockServesTheWaiting, HeldByPlace, [Next]_vars
    PROVE  TypeOK'
<1>1. CASE Tick
  <2>1. \A x \in Nat, bound \in Nat : x <= bound => Older(x, bound) \in 0 .. bound
    BY DEF Older
  <2>2. age' \in [Fetches -> 0 .. Timeout]
    <3>1. age \in [Fetches -> 0 .. Timeout]
      BY DEF TypeOK
    <3>2. \A f \in Fetches : Older(age[f], Timeout) \in 0 .. Timeout
      BY <2>1, <3>1
    <3> QED
      BY <1>1, <3>1, <3>2 DEF Tick
  <2>3. /\ since' \in 0 .. MinInterval /\ gap' \in 0 .. MinInterval
        /\ navGap' \in 0 .. MinInterval /\ wait' \in 0 .. MinInterval
    BY <1>1, <2>1 DEF TypeOK, Tick
  <2> QED
    BY <1>1, <2>2, <2>3 DEF TypeOK, Tick
<1>2. ASSUME NEW f \in Fetches, Start(f)
      PROVE  TypeOK'
  <2>1. queue' \in Seq(Fetches)
    BY <1>2 DEF TypeOK, Start, Arrive
  <2>2. /\ pc' \in [Fetches -> Running \cup {"idle", "done"}]
        /\ cut' \in [Fetches -> {"none", "waiting", "setup", "body", "closing"}]
        /\ age' \in [Fetches -> 0 .. Timeout] /\ held' \in [Fetches -> 0 .. All]
    BY <1>2 DEF TypeOK, Start, Running, Waiting
  <2> QED
    BY <1>2, <2>1, <2>2 DEF TypeOK, Start
<1>3. ASSUME NEW f \in Fetches, Pass(f),
             \/ pc[f] = "queued" /\ Head(queue) = f
             \/ pc[f] = "sleeping"
      PROVE  TypeOK'
  <2>1. queue' \in Seq(Fetches)
    BY <1>3, PassLeaves
  <2>2. pc' \in [Fetches -> Running \cup {"idle", "done"}]
    BY <1>3 DEF TypeOK, Pass, Running
  <2> QED
    BY <1>3, <2>1, <2>2 DEF TypeOK, Pass
<1>4. ASSUME NEW f \in Fetches, Step(f)
      PROVE  TypeOK'
  <2>1. CASE Turn(f)
    <3>1. CASE Sleep(f)
      <4>1. pc' \in [Fetches -> Running \cup {"idle", "done"}]
        BY <3>1 DEF Sleep, TypeOK, Running, Waiting
      <4>2. wait' \in 0 .. MinInterval
        BY <3>1 DEF Sleep, TypeOK
      <4> QED
        BY <3>1, <4>1, <4>2 DEF Sleep, TypeOK
    <3> QED
      BY <1>3, <2>1, <3>1 DEF Turn
  <2>2. CASE Wake(f)
    BY <1>3, <2>2 DEF Wake
  <2>3. CASE SetUp(f)
    <3>1. held \in [Fetches -> 0 .. All] /\ held[f] < All
      BY <2>3 DEF TypeOK, SetUp
    <3>2. held' \in [Fetches -> 0 .. All]
      BY <2>3, <3>1 DEF SetUp
    <3> QED
      BY <2>3, <3>2 DEF TypeOK, SetUp
  <2>4. CASE NewPage(f) \/ Navigate(f) \/ NavigateAgain(f) \/ Leave(f)
    <3>1. pc' \in [Fetches -> Running \cup {"idle", "done"}]
      BY <2>4 DEF TypeOK, NewPage, Navigate, NavigateAgain, Go, Leave, Running, Body
    <3>2. navGap' \in 0 .. MinInterval
      BY <2>4 DEF TypeOK, NewPage, Navigate, NavigateAgain, Go, Leave
    <3> QED
      BY <2>4, <3>1, <3>2 DEF TypeOK, NewPage, Navigate, NavigateAgain, Go, Leave
  <2>5. CASE SetUpFails(f) \/ CloseFails(f)
    BY <2>5 DEF TypeOK, SetUpFails, CloseFails, Interrupted
  <2>6. CASE Close(f)
    <3>1. held[f] \in 1 .. All
      BY <2>6 DEF HeldByPlace, Close
    <3>2. held' \in [Fetches -> 0 .. All]
      BY <2>6, <3>1 DEF TypeOK, Close
    <3>3. pc' \in [Fetches -> Running \cup {"idle", "done"}]
      BY <2>6 DEF TypeOK, Close, Running
    <3> QED
      BY <2>6, <3>2, <3>3 DEF TypeOK, Close
  <2>7. CASE Cancel(f)
    <3>1. queue' \in Seq(Fetches)
      BY <2>7, CancelLeaves DEF Cancel, TypeOK
    <3>2. /\ cut' \in [Fetches -> {"none", "waiting", "setup", "body", "closing"}]
          /\ pc' \in [Fetches -> Running \cup {"idle", "done"}]
      BY <2>7 DEF Cancel, TypeOK, Interrupted, CancelInBody, Running
    <3> QED
      BY <2>7, <3>1, <3>2 DEF Cancel, TypeOK
  <2> QED
    BY <1>4, <2>1, <2>2, <2>3, <2>4, <2>5, <2>6, <2>7 DEF Step
<1>5. CASE UNCHANGED vars
  BY <1>5 DEF TypeOK, vars
<1> QED
  BY <1>1, <1>2, <1>4, <1>5 DEF Next

LEMMA LockStep ==
    ASSUME TypeOK, LockServesTheWaiting, [Next]_vars
    PROVE  LockServesTheWaiting'
<1>1. ASSUME UNCHANGED queue,
             \A f \in Fetches : /\ pc[f] \in Waiting <=> pc'[f] \in Waiting
                                /\ pc'[f] = "sleeping" => pc[f] = "sleeping"
      PROVE  LockServesTheWaiting'
  BY <1>1 DEF LockServesTheWaiting
<1>2. CASE Tick \/ UNCHANGED vars
  BY <1>1, <1>2 DEF Tick, vars
<1>3. ASSUME NEW f \in Fetches, Start(f)
      PROVE  LockServesTheWaiting'
  <2>1. pc[f] \notin Waiting /\ pc' = [pc EXCEPT ![f] = "queued"]
    BY <1>3 DEF Start, Waiting
  <2>2. /\ queue \in Seq(Fetches) /\ Len(queue) \in Nat
        /\ DOMAIN queue = 1 .. Len(queue) /\ DOMAIN queue' = 1 .. Len(queue) + 1
        /\ \A i \in 1 .. Len(queue) : queue'[i] = queue[i]
        /\ queue'[Len(queue) + 1] = f
    BY <1>3 DEF Start, Arrive, TypeOK
  <2>3. \A i \in DOMAIN queue : queue[i] # f
    BY <2>1 DEF LockServesTheWaiting
  <2>4. ASSUME NEW i \in DOMAIN queue', NEW j \in DOMAIN queue', queue'[i] = queue'[j]
        PROVE  i = j
    <3>1. CASE i \in DOMAIN queue /\ j \in DOMAIN queue
      BY <2>2, <2>4, <3>1 DEF LockServesTheWaiting
    <3>2. CASE i \notin DOMAIN queue \/ j \notin DOMAIN queue
      BY <2>2, <2>3, <2>4, <3>2
    <3> QED
      BY <3>1, <3>2
  <2>5. ASSUME NEW g \in Fetches
        PROVE  /\ pc'[g] \in Waiting <=> \E i \in DOMAIN queue' : queue'[i] = g
               /\ pc'[g] = "sleeping" => queue'[1] = g
    <3>1. CASE g = f
      <4>1. pc'[g] = "queued"
        BY <2>1, <3>1 DEF TypeOK
      <4>2. Len(queue) + 1 \in DOMAIN queue' /\ queue'[Len(queue) + 1] = g
        BY <2>2, <3>1
      <4> QED
        BY <4>1, <4>2 DEF Waiting
    <3>2. CASE g # f
      <4>1. pc'[g] = pc[g]
        BY <2>1, <3>2 DEF TypeOK
      <4>2. (\E i \in DOMAIN queue' : queue'[i] = g) <=> (\E i \in DOMAIN queue : queue[i] = g)
        BY <2>2, <3>2
      <4>3. pc[g] = "sleeping" => 1 \in DOMAIN queue /\ queue[1] = g
        BY <2>2 DEF LockServesTheWaiting, Waiting
      <4> QED
        BY <2>2, <4>1, <4>2, <4>3 DEF LockServesTheWaiting
    <3> QED
      BY <3>1, <3>2
  <2> QED
    BY <2>4, <2>5 DEF LockServesTheWaiting
<1>4. ASSUME NEW f \in Fetches, Pass(f),
             \/ pc[f] = "queued" /\ Head(queue) = f
             \/ pc[f] = "sleeping"
      PROVE  LockServesTheWaiting'
  <2>1. pc' = [pc EXCEPT ![f] = "setup"]
    BY <1>4 DEF Pass
  <2>2. /\ queue' \in Seq(Fetches) /\ Leaves(1)
        /\ 1 \in DOMAIN queue /\ queue[1] = f
    BY <1>4, PassLeaves
  <2> QED
    BY <2>1, <2>2, LeavingKeepsLock
<1>5. ASSUME NEW f \in Fetches, Step(f)
      PROVE  LockServesTheWaiting'
  <2>1. CASE Turn(f)
    <3>1. CASE Sleep(f)
      <4>1. /\ pc[f] = "queued" /\ pc' = [pc EXCEPT ![f] = "sleeping"]
            /\ queue' = queue /\ Head(queue) = f /\ queue \in Seq(Fetches)
        BY <3>1 DEF Sleep, TypeOK
      <4>2. queue # <<>>
        BY <4>1 DEF LockServesTheWaiting, Waiting
      <4>3. queue[1] = f
        BY <4>1, <4>2
      <4>4. \A g \in Fetches : pc'[g] = IF g = f THEN "sleeping" ELSE pc[g]
        BY <4>1 DEF TypeOK
      <4> QED
        BY <4>1, <4>3, <4>4 DEF LockServesTheWaiting, Waiting
    <3> QED
      BY <1>4, <2>1, <3>1 DEF Turn
  <2>2. CASE Wake(f)
    BY <1>4, <2>2 DEF Wake
  <2>3. CASE \/ SetUp(f) \/ NewPage(f) \/ SetUpFails(f) \/ Navigate(f)
             \/ NavigateAgain(f) \/ Leave(f) \/ Close(f) \/ CloseFails(f)
    BY <1>1, <2>3 DEF TypeOK, SetUp, NewPage, SetUpFails, Navigate, NavigateAgain,
                      Go, Leave, Close, CloseFails, Interrupted, Waiting
  <2>4. CASE Cancel(f)
    <3>1. CASE pc[f] \in Waiting
      <4>1. pc' = [pc EXCEPT ![f] = "done"] /\ LeaveQueue(f)
        BY <2>4, <3>1 DEF Cancel, Interrupted, Waiting, Body
      <4>2. /\ queue' \in Seq(Fetches)
            /\ \E i \in DOMAIN queue : queue[i] = f /\ Leaves(i)
        BY <4>1, CancelLeaves
      <4> QED
        BY <4>1, <4>2, LeavingKeepsLock
    <3>2. CASE pc[f] \notin Waiting
      <4>1. UNCHANGED queue /\ \E there \in {"done", "closing"} : pc' = [pc EXCEPT ![f] = there]
        BY <2>4, <3>2 DEF Cancel, CancelInBody, Interrupted
      <4> QED
        BY <1>1, <3>2, <4>1 DEF TypeOK, Waiting
    <3> QED
      BY <3>1, <3>2
  <2> QED
    BY <1>5, <2>1, <2>2, <2>3, <2>4 DEF Step
<1> QED
  BY <1>2, <1>3, <1>5 DEF Next

LEMMA HeldStep ==
    ASSUME TypeOK, HeldByPlace, [Next]_vars
    PROVE  HeldByPlace'
<1>1. CASE Tick \/ UNCHANGED vars
  BY <1>1 DEF HeldByPlace, Tick, vars
<1>2. ASSUME NEW f \in Fetches, Start(f)
      PROVE  HeldByPlace'
  BY <1>2 DEF HeldByPlace, TypeOK, Start, Waiting, Body
<1>3. ASSUME NEW f \in Fetches, Step(f)
      PROVE  HeldByPlace'
  <2> USE DEF HeldByPlace, TypeOK, Waiting, Body
  <2>1. CASE Turn(f) \/ Wake(f)
    BY <2>1 DEF Turn, Sleep, Wake, Pass
  <2>2. CASE SetUp(f) \/ NewPage(f) \/ SetUpFails(f)
    BY <2>2 DEF SetUp, NewPage, SetUpFails, Interrupted
  <2>3. CASE Navigate(f) \/ NavigateAgain(f) \/ Leave(f)
    BY <2>3 DEF Navigate, NavigateAgain, Go, Leave
  <2>4. CASE Close(f) \/ CloseFails(f)
    BY <2>4 DEF Close, CloseFails, Interrupted
  <2>5. CASE Cancel(f)
    BY <2>5 DEF Cancel, CancelInBody, Interrupted
  <2> QED
    BY <1>3, <2>1, <2>2, <2>3, <2>4, <2>5 DEF Step
<1> QED
  BY <1>1, <1>2, <1>3 DEF Next

\* A fetch goes through the limit by passing it, from the head of the queue.
LEMMA WhoPasses ==
    ASSUME TypeOK, [Next]_vars, NEW f \in Fetches,
           pc[f] \in Waiting, pc'[f] = "setup"
    PROVE  \/ pc[f] = "queued" /\ since >= MinInterval
           \/ pc[f] = "sleeping" /\ wait = 0
<1>1. CASE Tick \/ UNCHANGED vars
  BY <1>1 DEF Tick, vars, Waiting
<1>2. ASSUME NEW g \in Fetches, Start(g)
      PROVE  FALSE
  BY <1>2 DEF Start, TypeOK, Waiting
<1>3. ASSUME NEW g \in Fetches, Step(g), ~ Turn(g), ~ Wake(g)
      PROVE  FALSE
  BY <1>3 DEF TypeOK, Waiting, Body, Step, SetUp, NewPage, SetUpFails, Navigate,
              NavigateAgain, Go, Leave, Close, CloseFails, Cancel, CancelInBody, Interrupted
<1>4. ASSUME NEW g \in Fetches, Turn(g) \/ Wake(g)
      PROVE  g = f
  BY <1>4 DEF TypeOK, Waiting, Turn, Sleep, Wake, Pass
<1> QED
  BY <1>1, <1>2, <1>3, <1>4 DEF Next, Turn, Sleep, Wake, TypeOK

LEMMA LongStep ==
    ASSUME TypeOK, LockServesTheWaiting, LongEnough, [Next]_vars
    PROVE  LongEnough'
<1>1. CASE Tick
  BY <1>1 DEF LongEnough, TypeOK, Tick, Older
<1>2. CASE UNCHANGED vars
  BY <1>2 DEF LongEnough, vars
<1>3. ASSUME NEW f \in Fetches, Pass(f),
             \/ pc[f] = "queued" /\ Head(queue) = f
             \/ pc[f] = "sleeping"
      PROVE  LongEnough'
  <2>1. queue[1] = f
    BY <1>3, PassLeaves
  <2>2. \A g \in Fetches : pc'[g] # "sleeping"
    BY <1>3, <2>1 DEF Pass, TypeOK, LockServesTheWaiting
  <2> QED
    BY <1>3, <2>2 DEF Pass, LongEnough
<1>4. ASSUME NEW f \in Fetches, Sleep(f)
      PROVE  LongEnough'
  <2>1. queue \in Seq(Fetches) /\ queue # <<>>
    BY <1>4 DEF Sleep, TypeOK, LockServesTheWaiting, Waiting
  <2>2. queue[1] = f
    BY <1>4, <2>1 DEF Sleep
  <2> QED
    BY <1>4, <2>2 DEF Sleep, TypeOK, LockServesTheWaiting, LongEnough
<1>5. ASSUME NEW f \in Fetches, Start(f) \/ (Step(f) /\ ~ Turn(f) /\ ~ Wake(f))
      PROVE  LongEnough'
  <2>1. UNCHANGED <<wait, since, gap>>
    BY <1>5 DEF Start, Step, SetUp, NewPage, SetUpFails, Navigate,
                NavigateAgain, Go, Leave, Close, CloseFails, Cancel
  <2>2. \A g \in Fetches : pc'[g] = "sleeping" => pc[g] = "sleeping"
    BY <1>5 DEF TypeOK, Start, Step, SetUp, NewPage, SetUpFails, Navigate,
                NavigateAgain, Go, Leave, Close, CloseFails, Cancel, CancelInBody, Interrupted
  <2> QED
    BY <2>1, <2>2 DEF LongEnough
<1> QED
  BY <1>1, <1>2, <1>3, <1>4, <1>5 DEF Next, Step, Turn, Wake

-----------------------------------------------------------------------------
LEMMA Base == Init => IInv
BY DEF Init, IInv, TypeOK, LockServesTheWaiting, HeldByPlace, LongEnough, Waiting, Body, Running

\* The inductive invariant of the fetches.
THEOREM FetchInvariance == Spec => []IInv
<1>1. IInv /\ [Next]_vars => IInv'
  BY TypeStep, LockStep, HeldStep, LongStep DEF IInv
<1> QED
  BY Base, <1>1, PTL DEF Spec

\* Clocks stay within their bounds and every fetch is at a place of the code.
THEOREM FetchTypes == Spec => []TypeOK
BY FetchInvariance, PTL DEF IInv

\* browser_page: whatever is interrupted once a page is open is closed; only an
\* interruption of the opening or the closing leaves something running.
THEOREM PagesAreGivenBack == Spec => []PageIsGivenBack
<1>1. IInv => PageIsGivenBack
  BY DEF IInv, HeldByPlace, PageIsGivenBack
<1> QED
  BY <1>1, FetchInvariance, PTL

\* _RATE_LOCK: neither a cancellation nor a pass loses the lock or gives it twice.
THEOREM LockIsSound == Spec => []LockServesTheWaiting
BY FetchInvariance, PTL DEF IInv

\* _rate_limit: any two fetches pass MinInterval apart.
THEOREM FetchesAreSpaced == Spec => PassesSpaced
<1>1. IInv /\ [Next]_vars =>
        [(\E f \in Fetches : pc[f] \in Waiting /\ pc'[f] = "setup")
             => gap >= MinInterval]_vars
  <2> SUFFICES ASSUME IInv, [Next]_vars,
                      NEW f \in Fetches, pc[f] \in Waiting, pc'[f] = "setup"
               PROVE  gap >= MinInterval
    OBVIOUS
  <2>1. \/ since >= MinInterval
        \/ pc[f] = "sleeping" /\ wait = 0
    BY WhoPasses DEF IInv
  <2> QED
    BY <2>1 DEF IInv, TypeOK, LongEnough
<1> QED
  BY <1>1, FetchInvariance, PTL DEF Spec, PassesSpaced

-----------------------------------------------------------------------------
\* What is left until the next fetch may pass.
Left == IF \E f \in Fetches : pc[f] = "sleeping" THEN wait ELSE MinInterval - since

\* One interval for each place in the queue bounds the age of a fetch at the lock.
OnTime ==
    /\ \A f \in Fetches : cut[f] # "waiting"
    /\ \A i \in DOMAIN queue :
           age[queue[i]] + Left + (i - 1) * MinInterval <= Cardinality(Fetches) * MinInterval

LEMMA QueueFits ==
    ASSUME TypeOK, LockServesTheWaiting
    PROVE  Len(queue) \in Nat /\ Len(queue) <= Cardinality(Fetches) /\ Cardinality(Fetches) \in Nat
<1>1. queue \in Seq(Fetches) /\ Len(queue) \in Nat /\ DOMAIN queue = 1 .. Len(queue)
  BY DEF TypeOK
<1>2. queue \in Injection(1 .. Len(queue), Fetches)
  BY <1>1 DEF LockServesTheWaiting, Injection, IsInjective
<1>3. Cardinality(1 .. Len(queue)) = Len(queue) /\ IsFiniteSet(1 .. Len(queue))
  BY <1>1, FS_Interval
<1>4. Cardinality(1 .. Len(queue)) <= Cardinality(Fetches)
  BY <1>2, FS_Injection
<1> QED
  BY <1>1, <1>3, <1>4, FS_CardinalityType

LEMMA OnTimeStep ==
    ASSUME Cardinality(Fetches) * MinInterval < Timeout,
           IInv, IInv', OnTime, [PromptNext]_vars
    PROVE  OnTime'
<1> DEFINE M == MinInterval
           N == Cardinality(Fetches)
<1>q. /\ queue \in Seq(Fetches) /\ DOMAIN queue = 1 .. Len(queue)
      /\ N \in Nat /\ Len(queue) \in Nat /\ Len(queue) <= N
  BY QueueFits DEF IInv, TypeOK
<1>t. /\ wait \in Nat /\ wait <= M /\ since \in Nat /\ since <= M
      /\ age \in [Fetches -> Nat] /\ M \in Nat /\ Timeout \in Nat
  BY DEF IInv, TypeOK
<1>l. Left \in Nat /\ Left <= M
  BY <1>t DEF Left
<1>a. ASSUME UNCHANGED <<queue, age>>, Left' = Left, \A f \in Fetches : cut'[f] # "waiting"
      PROVE  OnTime'
  BY <1>a DEF OnTime
<1>1. CASE Tick /\ NobodyDue
  <2>1. UNCHANGED <<queue, cut, pc>>
    BY <1>1 DEF Tick
  <2>2. ASSUME NEW i \in DOMAIN queue
        PROVE  age'[queue[i]] + Left' + (i - 1) * M <= N * M
    <3>1. pc[queue[1]] = "sleeping" /\ wait > 0 /\ queue[1] \in Fetches
      BY <1>1, <1>q DEF NobodyDue
    <3>2. Left = wait /\ Left' = wait - 1
      BY <1>1, <1>t, <2>1, <3>1 DEF Left, Tick
    <3>3. queue[i] \in Fetches
      BY <1>q
    <3>4. age'[queue[i]] \in Nat /\ age'[queue[i]] <= age[queue[i]] + 1
      BY <1>1, <1>t, <3>3 DEF Tick, Older
    <3>5. age[queue[i]] + wait + (i - 1) * M <= N * M
      BY <3>2 DEF OnTime
    <3>6. (i - 1) * M \in Int /\ N * M \in Int /\ age[queue[i]] \in Nat
      BY <1>q, <1>t, <3>3
    <3> QED
      BY <1>t, <3>2, <3>4, <3>5, <3>6
  <2> QED
    BY <2>1, <2>2 DEF OnTime
<1>2. ASSUME NEW f \in Fetches, Start(f)
      PROVE  OnTime'
  <2>1. Left' \in Nat /\ Left' <= M /\ Left' = Left
    BY <1>2, <1>l DEF Left, Start, IInv, TypeOK
  <2>2. /\ queue' = Append(queue, f) /\ DOMAIN queue' = 1 .. Len(queue) + 1
        /\ age' = [age EXCEPT ![f] = 0]
        /\ \A g \in Fetches : cut'[g] # "waiting"
    BY <1>2, <1>q DEF Start, Arrive, OnTime, IInv, TypeOK
  <2>3. Len(queue) + 1 <= N
    <3>1. Len(queue') <= N
      <4>1. (Len(queue) <= Cardinality(Fetches))'
        BY QueueFits, PTL DEF IInv
      <4> QED
        BY <4>1
    <3> QED
      BY <1>q, <2>2, <3>1
  <2>4. ASSUME NEW i \in DOMAIN queue'
        PROVE  age'[queue'[i]] + Left' + (i - 1) * M <= N * M
    <3>1. CASE i = Len(queue) + 1
      <4>1. age'[queue'[i]] = 0
        BY <1>q, <1>t, <2>2, <3>1
      <4>2. (i - 1) * M = Len(queue) * M /\ Len(queue) * M + M <= N * M
        BY <1>q, <1>t, <2>3, <3>1
      <4>3. (i - 1) * M \in Int /\ N * M \in Int
        BY <1>q, <1>t, <2>2
      <4> QED
        BY <1>t, <2>1, <4>1, <4>2, <4>3
    <3>2. CASE i \in DOMAIN queue
      <4>1. queue'[i] = queue[i] /\ queue[i] \in Fetches
        BY <1>q, <2>2, <3>2
      <4>2. queue[i] # f
        BY <1>2, <3>2 DEF Start, IInv, LockServesTheWaiting, Waiting
      <4> QED
        BY <1>t, <2>1, <2>2, <3>2, <4>1, <4>2 DEF OnTime
    <3> QED
      BY <1>q, <2>2, <2>4, <3>1, <3>2
  <2> QED
    BY <2>2, <2>4 DEF OnTime
<1>3. ASSUME NEW f \in Fetches, Pass(f), Left = 0,
             \/ pc[f] = "queued" /\ Head(queue) = f
             \/ pc[f] = "sleeping"
      PROVE  OnTime'
  <2>1. queue' \in Seq(Fetches) /\ Leaves(1) /\ 1 \in DOMAIN queue /\ queue[1] = f
    BY <1>3, PassLeaves DEF IInv
  <2>2. \A g \in Fetches : pc'[g] # "sleeping"
    BY <1>3, <2>1 DEF Pass, IInv, TypeOK, LockServesTheWaiting
  <2>3. Left' = M
    BY <1>3, <1>t, <2>2 DEF Left, Pass
  <2>4. ASSUME NEW i \in DOMAIN queue'
        PROVE  age'[queue'[i]] + Left' + (i - 1) * M <= N * M
    <3>1. i + 1 \in DOMAIN queue /\ queue'[i] = queue[i + 1] /\ i \in Nat /\ queue[i + 1] \in Fetches
      BY <1>q, <2>1 DEF Leaves
    <3>2. age[queue[i + 1]] + 0 + (i + 1 - 1) * M <= N * M
      BY <1>3, <3>1 DEF OnTime
    <3>3. (i + 1 - 1) * M = (i - 1) * M + M /\ (i - 1) * M \in Int
      BY <1>t, <3>1
    <3>4. age' = age
      BY <1>3 DEF Pass
    <3> QED
      BY <1>t, <2>3, <3>1, <3>2, <3>3, <3>4
  <2> QED
    BY <1>3, <2>4 DEF OnTime, Pass
<1>4. ASSUME NEW f \in Fetches, Step(f)
      PROVE  OnTime'
  <2>1. CASE Turn(f)
    <3>1. pc[f] = "queued" /\ Head(queue) = f
      BY <2>1 DEF Turn, Sleep
    <3>2. queue # <<>> /\ queue[1] = f
      BY <1>q, <3>1 DEF IInv, LockServesTheWaiting, Waiting
    <3>3. Left = MinInterval - since
      BY <3>1, <3>2 DEF Left, IInv, LockServesTheWaiting
    <3>4. CASE Sleep(f)
      BY <1>a, <3>3, <3>4 DEF Sleep, Left, IInv, TypeOK, OnTime
    <3>5. CASE since >= MinInterval /\ Pass(f)
      BY <1>3, <1>t, <3>1, <3>3, <3>5
    <3> QED
      BY <2>1, <3>4, <3>5 DEF Turn
  <2>2. CASE Wake(f)
    BY <1>3, <2>2 DEF Wake, Left
  <2>3. CASE \/ SetUp(f) \/ NewPage(f) \/ SetUpFails(f) \/ Navigate(f)
             \/ NavigateAgain(f) \/ Leave(f) \/ Close(f) \/ CloseFails(f)
    <3>1. UNCHANGED <<queue, age, wait, since>> /\ \A g \in Fetches : cut'[g] # "waiting"
      BY <2>3 DEF SetUp, NewPage, SetUpFails, Navigate, NavigateAgain,
                  Go, Leave, Close, CloseFails, Interrupted, OnTime, IInv, TypeOK
    <3>2. \A g \in Fetches : pc'[g] = "sleeping" <=> pc[g] = "sleeping"
      BY <2>3 DEF SetUp, NewPage, SetUpFails, Navigate, NavigateAgain,
                  Go, Leave, Close, CloseFails, Interrupted, IInv, TypeOK
    <3> QED
      BY <1>a, <3>1, <3>2 DEF Left
  <2>4. CASE Cancel(f)
    <3>1. pc[f] \notin Waiting
      <4>1. SUFFICES ASSUME pc[f] \in Waiting PROVE FALSE
        OBVIOUS
      <4>2. PICK i \in DOMAIN queue : queue[i] = f
        BY <4>1 DEF IInv, LockServesTheWaiting
      <4>3. age[f] + Left + (i - 1) * M <= N * M
        BY <4>2 DEF OnTime
      <4>4. (i - 1) * M \in Nat /\ N * M \in Int
        BY <1>q, <1>t
      <4> QED
        BY <1>l, <1>t, <2>4, <4>3, <4>4 DEF Cancel
    <3>2. UNCHANGED <<queue, age, wait, since>> /\ \A g \in Fetches : cut'[g] # "waiting"
      BY <2>4, <3>1 DEF Cancel, CancelInBody, Interrupted, OnTime, IInv, TypeOK
    <3>3. \A g \in Fetches : pc'[g] = "sleeping" <=> pc[g] = "sleeping"
      BY <2>4, <3>1 DEF Cancel, CancelInBody, Interrupted, IInv, TypeOK, Waiting
    <3> QED
      BY <1>a, <3>2, <3>3 DEF Left
  <2> QED
    BY <1>4, <2>1, <2>2, <2>3, <2>4 DEF Step
<1>5. CASE UNCHANGED vars
  BY <1>a, <1>5 DEF vars, Left, OnTime
<1> QED
  BY <1>1, <1>2, <1>4, <1>5 DEF PromptNext

\* run_search's timeout: with a prompt event loop, no portal is cancelled while it
\* waits at _RATE_LOCK if the timeout covers one interval for each fetch.
THEOREM NobodyTimesOutWaiting == PromptSpec => []PassesInTime
<1>1. CASE Cardinality(Fetches) * MinInterval < Timeout
  <2>1. Init => OnTime
    BY DEF Init, OnTime
  <2>2. IInv /\ [PromptNext]_vars => IInv'
    <3>1. [PromptNext]_vars => [Next]_vars
      BY DEF PromptNext, Next
    <3> QED
      BY <3>1, TypeStep, LockStep, HeldStep, LongStep DEF IInv
  <2>3. IInv /\ OnTime /\ [PromptNext]_vars => (IInv /\ OnTime)'
    BY <1>1, <2>2, OnTimeStep
  <2>4. OnTime => PassesInTime
    BY DEF OnTime, PassesInTime
  <2> QED
    BY <2>1, <2>3, <2>4, Base, PTL DEF PromptSpec
<1>2. CASE ~ (Cardinality(Fetches) * MinInterval < Timeout)
  <2>1. PassesInTime
    BY <1>2 DEF PassesInTime
  <2> QED
    BY <2>1, PTL
<1> QED
  BY <1>1, <1>2

\* And with an event loop that may be prompt or not, as the runs have it: the
\* fetches of a prompt one are on time from the first to the last.
THEOREM NobodyTimesOutWhenPrompt == MCSpec => []PassesWhenPrompt
<1>1. CASE Cardinality(Fetches) * MinInterval < Timeout
  <2>1. MCInit => IInv /\ (prompt => OnTime)
    BY Base DEF MCInit, Init, OnTime
  <2>2. ASSUME IInv, prompt => OnTime, [MCNext]_<<vars, prompt>>
        PROVE  IInv' /\ (prompt => OnTime)'
    <3>1. [Next]_vars /\ prompt' = prompt
      BY <2>2 DEF MCNext
    <3>2. IInv'
      BY <2>2, <3>1, TypeStep, LockStep, HeldStep, LongStep DEF IInv
    <3>3. CASE prompt
      <4>1. [PromptNext]_vars
        BY <2>2, <3>3 DEF MCNext
      <4> QED
        BY <1>1, <2>2, <3>2, <3>3, <4>1, OnTimeStep
    <3> QED
      BY <3>1, <3>2, <3>3
  <2>3. (prompt => OnTime) => PassesWhenPrompt
    BY DEF OnTime, PassesWhenPrompt, PassesInTime
  <2> QED
    BY <2>1, <2>2, <2>3, PTL DEF MCSpec
<1>2. CASE ~ (Cardinality(Fetches) * MinInterval < Timeout)
  <2>1. PassesWhenPrompt
    BY <1>2 DEF PassesWhenPrompt, PassesInTime
  <2> QED
    BY <2>1, PTL
<1> QED
  BY <1>1, <1>2
=============================================================================
