---------------------------- MODULE BrowserFetch ----------------------------
(***************************************************************************)
(* The browser fetches of the portal adapters: the rate limit they queue   *)
(* for, the browser each of them starts, and the timeout of the search     *)
(* that cancels them wherever they are.                                    *)
(*                                                                         *)
(* Fetches are coroutines of one event loop.  A step is what runs between  *)
(* two awaits; a Playwright call may take any time and may raise.  The     *)
(* clock is a count of ticks, and every clock variable is an age that      *)
(* stops counting at the bound the code compares it with.                  *)
(***************************************************************************)
EXTENDS Naturals, Sequences, SequencesExt, FiniteSets

CONSTANTS
    Fetches,      \* slots for fetches: a slot is used again and again
    Pasted,       \* those of pasted URLs, which run without the adapter timeout
    Retrying,     \* those whose portal is asked again when the first page fails
    MinInterval,  \* _MIN_INTERVAL_SECONDS
    Timeout       \* adapter_timeout_seconds

ASSUME FetchAssumption ==
    /\ IsFiniteSet(Fetches)
    /\ Pasted \subseteq Fetches /\ Retrying \subseteq Fetches
    /\ MinInterval \in Nat /\ Timeout \in Nat

VARIABLES
    pc,      \* where fetch f is
    queue,   \* those at _RATE_LOCK, in order of arrival; the head holds it
    wait,    \* what the holder still has to sleep
    since,   \* the age of _LAST_REQUEST_AT
    age,     \* age[f]: how long wait_for has been waiting for f
    held,    \* held[f]: how many of driver, browser and context f has open
    cut,     \* cut[f]: where f was interrupted
    gap,     \* the time since the last fetch passed the rate limit
    navGap   \* the time since a browser last went to a portal

vars == <<pc, queue, wait, since, age, held, cut, gap, navGap>>

Waiting == {"queued", "sleeping"}
Body    == {"open", "reading", "again"}
Running == Waiting \cup Body \cup {"setup", "closing"}

All == 3  \* driver, browser and context

TypeOK ==
    /\ pc \in [Fetches -> Running \cup {"idle", "done"}]
    /\ queue \in Seq(Fetches)
    /\ wait \in 0 .. MinInterval /\ since \in 0 .. MinInterval
    /\ gap \in 0 .. MinInterval /\ navGap \in 0 .. MinInterval
    /\ age \in [Fetches -> 0 .. Timeout]
    /\ held \in [Fetches -> 0 .. All]
    /\ cut \in [Fetches -> {"none", "waiting", "setup", "body", "closing"}]

Init ==
    /\ pc = [f \in Fetches |-> "idle"]
    /\ queue = <<>>
    /\ wait = 0
    /\ since = MinInterval /\ gap = MinInterval /\ navGap = MinInterval
    /\ age = [f \in Fetches |-> 0]
    /\ held = [f \in Fetches |-> 0]
    /\ cut = [f \in Fetches |-> "none"]

-----------------------------------------------------------------------------
\* A slip: the latest to arrive is served first.
Impatient(f) == queue' = <<f>> \o queue

Arrive(f) == queue' = Append(queue, f)

\* What an earlier fetch of the slot has left open is not followed any further.
Start(f) ==
    /\ pc[f] \in {"idle", "done"}
    /\ pc' = [pc EXCEPT ![f] = "queued"]
    /\ Arrive(f)
    /\ age' = [age EXCEPT ![f] = 0]
    /\ held' = [held EXCEPT ![f] = 0]
    /\ cut' = [cut EXCEPT ![f] = "none"]
    /\ UNCHANGED <<wait, since, gap, navGap>>

\* A slip: only a fetch that need not sleep sets the stamp.
PassUnstamped(f) ==
    /\ pc' = [pc EXCEPT ![f] = "setup"]
    /\ queue' = Tail(queue)
    /\ since' = IF pc[f] = "sleeping" THEN since ELSE 0
    /\ gap' = 0
    /\ UNCHANGED <<wait, age, held, cut, navGap>>

\* f stamps _LAST_REQUEST_AT, releases the lock and goes on.
Pass(f) ==
    /\ pc' = [pc EXCEPT ![f] = "setup"]
    /\ queue' = Tail(queue)
    /\ since' = 0 /\ gap' = 0
    /\ UNCHANGED <<wait, age, held, cut, navGap>>

\* A slip: the age of the stamp is added.
Overslept(f) ==
    /\ pc[f] = "queued" /\ Head(queue) = f
    /\ since < MinInterval
    /\ pc' = [pc EXCEPT ![f] = "sleeping"]
    /\ wait' = MinInterval + since
    /\ UNCHANGED <<queue, since, age, held, cut, gap, navGap>>

Sleep(f) ==
    /\ pc[f] = "queued" /\ Head(queue) = f
    /\ since < MinInterval
    /\ pc' = [pc EXCEPT ![f] = "sleeping"]
    /\ wait' = MinInterval - since
    /\ UNCHANGED <<queue, since, age, held, cut, gap, navGap>>

\* The lock is f's: it sleeps until the interval is over, or passes at once.
Turn(f) ==
    \/ Sleep(f)
    \/ pc[f] = "queued" /\ Head(queue) = f /\ since >= MinInterval /\ Pass(f)

Wake(f) ==
    /\ pc[f] = "sleeping" /\ wait = 0
    /\ Pass(f)

\* Playwright's driver, a browser and its context are opened one after another.
SetUp(f) ==
    /\ pc[f] = "setup" /\ held[f] < All
    /\ held' = [held EXCEPT ![f] = @ + 1]
    /\ UNCHANGED <<pc, queue, wait, since, age, cut, gap, navGap>>

NewPage(f) ==
    /\ pc[f] = "setup" /\ held[f] = All
    /\ pc' = [pc EXCEPT ![f] = "open"]
    /\ UNCHANGED <<queue, wait, since, age, held, cut, gap, navGap>>

Interrupted(f, where, next) ==
    /\ cut' = [cut EXCEPT ![f] = where]
    /\ pc' = [pc EXCEPT ![f] = next]

\* What was opened before the try is not closed when a later call raises.
SetUpFails(f) ==
    /\ pc[f] = "setup"
    /\ Interrupted(f, "setup", "done")
    /\ UNCHANGED <<queue, wait, since, age, held, gap, navGap>>

Go(f, from, to) ==
    /\ pc[f] = from
    /\ pc' = [pc EXCEPT ![f] = to]
    /\ navGap' = 0
    /\ UNCHANGED <<queue, wait, since, age, held, cut, gap>>

Navigate(f) == Go(f, "open", "reading")

\* The page with the rooms in its path has failed: the same browser goes to the
\* page without them.
NavigateAgain(f) == f \in Retrying /\ Go(f, "reading", "again")

\* The page has been read, or something has raised.
Leave(f) ==
    /\ pc[f] \in {"reading", "again"}
    /\ pc' = [pc EXCEPT ![f] = "closing"]
    /\ UNCHANGED <<queue, wait, since, age, held, cut, gap, navGap>>

\* Context, browser and driver are closed one after another.
Close(f) ==
    /\ pc[f] = "closing"
    /\ held' = [held EXCEPT ![f] = @ - 1]
    /\ pc' = [pc EXCEPT ![f] = IF held[f] = 1 THEN "done" ELSE "closing"]
    /\ UNCHANGED <<queue, wait, since, age, cut, gap, navGap>>

\* A close that raises skips the closes after it.
CloseFails(f) ==
    /\ pc[f] = "closing"
    /\ Interrupted(f, "closing", "done")
    /\ UNCHANGED <<queue, wait, since, age, held, gap, navGap>>

\* A slip: a fetch cancelled in its sleep keeps the lock.
KeepLock(f) == UNCHANGED queue

LeaveQueue(f) == \E i \in DOMAIN queue : queue[i] = f /\ queue' = RemoveAt(queue, i)

\* A slip: the closes are not in a finally.
CancelledInBody(f) == Interrupted(f, "body", "done")

CancelInBody(f) == Interrupted(f, "body", "closing")

\* The adapter timeout cancels the fetch, once, at the await it is at.
Cancel(f) ==
    /\ f \notin Pasted /\ age[f] = Timeout
    /\ \/ /\ pc[f] \in Waiting
          /\ Interrupted(f, "waiting", "done")
          /\ LeaveQueue(f)
       \/ /\ pc[f] = "setup"
          /\ Interrupted(f, "setup", "done")
          /\ UNCHANGED queue
       \/ /\ pc[f] \in Body
          /\ CancelInBody(f)
          /\ UNCHANGED queue
       \/ /\ pc[f] = "closing" /\ cut[f] = "none"
          /\ Interrupted(f, "closing", "done")
          /\ UNCHANGED queue
    /\ UNCHANGED <<wait, since, age, held, gap, navGap>>

Older(x, bound) == IF x < bound THEN x + 1 ELSE x

Tick ==
    /\ wait' = IF wait = 0 THEN 0 ELSE wait - 1
    /\ since' = Older(since, MinInterval)
    /\ gap' = Older(gap, MinInterval)
    /\ navGap' = Older(navGap, MinInterval)
    /\ age' = [f \in Fetches |->
                   IF pc[f] \in Running THEN Older(age[f], Timeout) ELSE age[f]]
    /\ UNCHANGED <<pc, queue, held, cut>>

Step(f) ==
    \/ Turn(f) \/ Wake(f)
    \/ SetUp(f) \/ NewPage(f) \/ SetUpFails(f)
    \/ Navigate(f) \/ NavigateAgain(f) \/ Leave(f)
    \/ Close(f) \/ CloseFails(f) \/ Cancel(f)

Next == Tick \/ \E f \in Fetches : Start(f) \/ Step(f)

Spec == Init /\ [][Next]_vars

\* The event loop runs whatever is ready, and time goes on.  Every Playwright
\* call returns or raises: each has a timeout of its own.
Fairness == WF_vars(Tick) /\ \A f \in Fetches : WF_vars(Step(f))

FairSpec == Spec /\ Fairness

\* The loop is prompt: time does not pass while a fetch at the lock could move.
NobodyDue == queue # <<>> => (pc[Head(queue)] = "sleeping" /\ wait > 0)

PromptNext == (Tick /\ NobodyDue) \/ \E f \in Fetches : Start(f) \/ Step(f)

PromptSpec == Init /\ [][PromptNext]_vars

-----------------------------------------------------------------------------
\* Fetches pass the rate limit MinInterval apart, however many queue for it and
\* whichever of them is cancelled in its sleep.
PassesSpaced ==
    [][(\E f \in Fetches : pc[f] \in Waiting /\ pc'[f] = "setup")
           => gap >= MinInterval]_vars

\* The API's README: about one request in three seconds between browser fetches.
NavigationsSpaced ==
    [][(\E f \in Fetches : pc[f] # pc'[f] /\ pc'[f] \in {"reading", "again"})
           => navGap >= MinInterval]_vars

\* A fetch that is cancelled or fails once its page is open closes all it has
\* opened; only an interruption while browsers are opened or closed leaves one.
PageIsGivenBack ==
    \A f \in Fetches :
        (pc[f] = "done" /\ held[f] # 0) => cut[f] \in {"setup", "closing"}

\* The lock is never lost nor shared, also when a fetch is cancelled in its
\* sleep or in the queue: those waiting are in the queue, once each, nobody
\* else is, and only its head sleeps.
LockServesTheWaiting ==
    /\ \A i, j \in DOMAIN queue : queue[i] = queue[j] => i = j
    /\ \A f \in Fetches :
          /\ pc[f] \in Waiting <=> \E i \in DOMAIN queue : queue[i] = f
          /\ pc[f] = "sleeping" => queue[1] = f

\* While the timeout covers one interval for each fetch, no fetch times out
\* before its turn.
PassesInTime ==
    Cardinality(Fetches) * MinInterval < Timeout
        => \A f \in Fetches : cut[f] # "waiting"

\* Every fetch ends: no cancellation, failure or queue holds up those behind it.
EveryFetchEnds == \A f \in Fetches : (pc[f] = "queued") ~> (pc[f] = "done")
=============================================================================
