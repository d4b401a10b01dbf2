-------------------------- MODULE WebSessionProofs --------------------------
(***************************************************************************)
(* Proofs about WebSession, for any number of tokens and page calls: its   *)
(* types, and what holds of a browser with one tab that is not reloaded    *)
(* while it refreshes.                                                     *)
(***************************************************************************)
EXTENDS WebSession, TLAPS

USE SessionAssumption

Ways == {"load", "shared"}

-----------------------------------------------------------------------------
(* Types.                                                                  *)

LEMMA Constants ==
    /\ NoCall \in Call /\ NoRefresh \in Refresh /\ Named(NoRefresh)
    /\ Resent \in Call /\ Quiet \in [Calls -> Call]
    /\ \A c \in Credentials : Sent(c) \in Call
    /\ \A k \in Tokens : Asked(k) \in Refresh /\ Named(Asked(k))
    /\ "valid" \in Credentials /\ {"me", "logout"} \subseteq Calls /\ PageCalls \subseteq Calls
BY DEF NoCall, Call, NoRefresh, Refresh, Named, Resent, Sent, Quiet, Calls, Credentials, Asked

\* What one tab does to its refreshes and calls keeps their types.
LEMMA Slots ==
    ASSUME TypeOK, NEW t \in Tabs
    PROVE  /\ \A w \in Ways : refresh[t][w] \in Refresh /\ Named(refresh[t][w])
           /\ \A c \in Calls : call[t][c] \in Call
           /\ \A f \in [Ways -> Refresh] : [refresh EXCEPT ![t] = f] \in [Tabs -> [Ways -> Refresh]]
           /\ \A f \in [Calls -> Call] : [call EXCEPT ![t] = f] \in [Tabs -> [Calls -> Call]]
           /\ \A w \in Ways, r \in Refresh :
                 [refresh EXCEPT ![t][w] = r] \in [Tabs -> [Ways -> Refresh]]
           /\ \A c \in Calls, q \in Call : [call EXCEPT ![t][c] = q] \in [Tabs -> [Calls -> Call]]
BY DEF TypeOK, Ways

\* The refreshes after one of them has changed.
LEMMA NamedStep ==
    ASSUME TypeOK, NEW t \in Tabs, NEW w \in Ways, NEW r, Named(r),
           refresh' = [refresh EXCEPT ![t][w] = r]
    PROVE  /\ \A u \in Tabs, v \in Ways : Named(refresh'[u][v])
           /\ refresh'[t][w] = r
           /\ \A v \in Ways \ {w} : refresh'[t][v] = refresh[t][v]
<1>1. refresh \in [Tabs -> [Ways -> Refresh]]
  BY DEF TypeOK, Ways
<1>2. \A u \in Tabs, v \in Ways : Named(refresh[u][v])
  BY DEF TypeOK, Ways
<1>3. \A u \in Tabs, v \in Ways : refresh'[u][v] = IF u = t /\ v = w THEN r ELSE refresh[u][v]
  BY <1>1
<1> QED
  BY <1>2, <1>3

\* Scalars of a tab.
LEMMA Scalars ==
    ASSUME TypeOK, NEW t \in Tabs
    PROVE  /\ \A x \in Credentials : [access EXCEPT ![t] = x] \in [Tabs -> Credentials]
           /\ \A x \in BOOLEAN : /\ [view EXCEPT ![t] = x] \in [Tabs -> BOOLEAN]
                                 /\ [login EXCEPT ![t] = x] \in [Tabs -> BOOLEAN]
           /\ \A x \in {"refresh", "me", "done"} :
                 [load EXCEPT ![t] = x] \in [Tabs -> {"refresh", "me", "done"}]
           /\ \A k \in Tokens, x \in {"live", "revoked", "expired"} :
                 [tokens EXCEPT ![k] = x] \in [Tokens -> {"live", "revoked", "expired"}]
BY DEF TypeOK

LEMMA InitType == Init => TypeOK
<1> SUFFICES ASSUME Init PROVE TypeOK
  OBVIOUS
<1>1. refresh \in [Tabs -> [Ways -> Refresh]] /\ \A t \in Tabs, w \in Ways : Named(refresh[t][w])
  BY Constants DEF Init, Ways
<1>2. call \in [Tabs -> [Calls -> Call]]
  BY Constants DEF Init
<1> QED
  BY <1>1, <1>2 DEF Init, TypeOK, Ways, Credentials

\* TypeOK by parts: what an action leaves alone needs no look.
Values ==
    /\ tokens \in [Tokens -> {"live", "revoked", "expired"}]
    /\ stored \in Tokens \cup {None}
    /\ access \in [Tabs -> Credentials]
    /\ view \in [Tabs -> BOOLEAN]
    /\ load \in [Tabs -> {"refresh", "me", "done"}]
    /\ login \in [Tabs -> BOOLEAN]
    /\ orphans \in SUBSET Tokens

CallsTyped == call \in [Tabs -> [Calls -> Call]]

RefreshesTyped ==
    /\ refresh \in [Tabs -> [Ways -> Refresh]]
    /\ \A t \in Tabs, w \in Ways : Named(refresh[t][w])

LEMMA Parts == /\ TypeOK <=> (Values /\ CallsTyped /\ RefreshesTyped)
               /\ TypeOK' <=> (Values' /\ CallsTyped' /\ RefreshesTyped')
BY DEF TypeOK, Values, CallsTyped, RefreshesTyped, Ways, Named

LEMMA Kept ==
    ASSUME TypeOK
    PROVE  /\ UNCHANGED call => CallsTyped'
           /\ UNCHANGED refresh => RefreshesTyped'
BY DEF TypeOK, CallsTyped, RefreshesTyped, Ways, Named

\* One call, or one refresh, is another.
LEMMA OneCall ==
    ASSUME TypeOK, NEW t \in Tabs, NEW c \in Calls, NEW q \in Call,
           call' = [call EXCEPT ![t][c] = q]
    PROVE  CallsTyped'
BY DEF TypeOK, CallsTyped

LEMMA AllCalls ==
    ASSUME TypeOK, NEW t \in Tabs, NEW f \in [Calls -> Call],
           call' = [call EXCEPT ![t] = f]
    PROVE  CallsTyped'
BY DEF TypeOK, CallsTyped

LEMMA OneRefresh ==
    ASSUME TypeOK, NEW t \in Tabs, NEW w \in Ways, NEW r \in Refresh, Named(r),
           refresh' = [refresh EXCEPT ![t][w] = r]
    PROVE  RefreshesTyped'
<1>1. refresh' \in [Tabs -> [Ways -> Refresh]]
  BY Slots
<1> QED
  BY <1>1, NamedStep DEF RefreshesTyped

LEMMA AllRefreshes ==
    ASSUME TypeOK, NEW t \in Tabs, NEW f \in [Ways -> Refresh], \A w \in Ways : Named(f[w]),
           refresh' = [refresh EXCEPT ![t] = f]
    PROVE  RefreshesTyped'
<1>1. refresh \in [Tabs -> [Ways -> Refresh]] /\ \A u \in Tabs, v \in Ways : Named(refresh[u][v])
  BY DEF TypeOK, Ways
<1>2. \A u \in Tabs, v \in Ways : refresh'[u][v] = IF u = t THEN f[v] ELSE refresh[u][v]
  BY <1>1
<1>3. refresh' \in [Tabs -> [Ways -> Refresh]]
  BY <1>1
<1> QED
  BY <1>1, <1>2, <1>3 DEF RefreshesTyped

LEMMA OpenTypes ==
    ASSUME TypeOK, NEW t \in Tabs, OpenPage(t)
    PROVE  TypeOK'
<1>1. orphans \cup {refresh[t][w].token : w \in {v \in Ways : refresh[t][v].pc \in {"sent", "read"}}}
          \in SUBSET Tokens
  BY Slots DEF Refresh, Named, TypeOK
<1>2. CASE Open(t)
  <2>1. FirstRefresh \in Refresh /\ Named(FirstRefresh)
    BY Constants DEF FirstRefresh, TypeOK
  <2>2. RefreshesTyped'
    <3> DEFINE f == [load |-> FirstRefresh, shared |-> NoRefresh]
    <3>1. f \in [Ways -> Refresh] /\ \A w \in Ways : Named(f[w])
      BY <2>1, Constants DEF Ways
    <3>2. refresh' = [refresh EXCEPT ![t] = f]
      BY <1>2 DEF Open
    <3> HIDE DEF f
    <3> QED
      BY <3>1, <3>2, AllRefreshes
  <2>3. CallsTyped'
    BY <1>2, Constants, AllCalls DEF Open
  <2>4. Values'
    BY <1>1, <1>2, Scalars DEF Open, Abandon, Values, TypeOK, Ways, Credentials
  <2> QED
    BY <2>2, <2>3, <2>4, Parts
<1>3. CASE \E k \in Tokens : OpenCallback(t, k)
  <2> PICK k \in Tokens : OpenCallback(t, k)
    BY <1>3
  <2>1. RefreshesTyped'
    <3> DEFINE f == [w \in Ways |-> NoRefresh]
    <3>1. f \in [Ways -> Refresh] /\ \A w \in Ways : Named(f[w])
      BY Constants DEF Ways
    <3>2. refresh' = [refresh EXCEPT ![t] = f]
      BY DEF OpenCallback, Ways
    <3> HIDE DEF f
    <3> QED
      BY <3>1, <3>2, AllRefreshes
  <2>2. CallsTyped'
    <3>1. [Quiet EXCEPT !["me"] = Sent("valid")] \in [Calls -> Call]
      BY Constants
    <3> QED
      BY <3>1, AllCalls DEF OpenCallback
  <2>3. Values'
    BY <1>1, Scalars DEF OpenCallback, Issue, SetTokens, Abandon, Values, TypeOK, Ways, Credentials
  <2> QED
    BY <2>1, <2>2, <2>3, Parts
<1> QED
  BY <1>2, <1>3 DEF OpenPage

LEMMA LoginTypes ==
    ASSUME TypeOK, NEW t \in Tabs, Login(t) \/ LoginStep(t)
    PROVE  TypeOK'
<1>1. Values'
  BY Scalars DEF Login, LoginStep, LoginFails, LoggedIn, Issue, SetTokens, Values, TypeOK, Credentials
<1>2. CallsTyped' /\ RefreshesTyped'
  BY Kept DEF Login, LoginStep, LoginFails, LoggedIn
<1> QED
  BY <1>1, <1>2, Parts

LEMMA RefreshingTypes ==
    ASSUME TypeOK, NEW t \in Tabs, NEW w \in Ways, Refreshing(t, w)
    PROVE  TypeOK'
<1> DEFINE r == refresh[t][w]
<1>1. r \in Refresh /\ Named(r)
  BY Slots
<1>2. CASE ApiReads(t, w)
  <2> DEFINE q == [r EXCEPT !.pc = IF tokens[r.token] = "live" THEN "read" ELSE "refused"]
  <2>1. q \in Refresh /\ Named(q)
    BY <1>1, <1>2 DEF ApiReads, Refresh, Named
  <2>2. refresh' = [refresh EXCEPT ![t][w] = q]
    BY <1>2 DEF ApiReads, TypeOK, Ways
  <2>3. UNCHANGED <<tokens, stored, access, view, load, login, call, orphans>>
    BY <1>2 DEF ApiReads
  <2> HIDE DEF q
  <2>4. RefreshesTyped'
    BY <2>1, <2>2, OneRefresh
  <2>5. CallsTyped' /\ Values'
    BY <2>3, Kept DEF Values, TypeOK
  <2> QED
    BY <2>4, <2>5, Parts
<1>3. CASE \E k \in Tokens : ApiRotates(t, w, k)
  <2> PICK k \in Tokens : ApiRotates(t, w, k)
    BY <1>3
  <2> DEFINE q == [r EXCEPT !.pc = "granted", !.new = k]
  <2>1. q \in Refresh /\ Named(q)
    BY <1>1 DEF ApiRotates, Refresh, Named
  <2>2. refresh' = [refresh EXCEPT ![t][w] = q]
    BY DEF ApiRotates, TypeOK, Ways
  <2> HIDE DEF q
  <2>3. RefreshesTyped'
    BY <2>1, <2>2, OneRefresh
  <2>4. CallsTyped' /\ Values'
    BY Kept DEF ApiRotates, Values, TypeOK
  <2> QED
    BY <2>3, <2>4, Parts
<1> QED
  BY <1>2, <1>3 DEF Refreshing

LEMMA LoadTypes ==
    ASSUME TypeOK, NEW t \in Tabs, LoadRefreshed(t) \/ LoadFails(t)
    PROVE  TypeOK'
<1> DEFINE r == refresh[t]["load"]
<1>1. r \in Refresh /\ Named(r)
  BY Slots DEF Ways
<1>2. refresh' = [refresh EXCEPT ![t]["load"] = NoRefresh]
  BY DEF LoadRefreshed, LoadFails
<1>3. RefreshesTyped'
  BY <1>2, Constants, OneRefresh DEF Ways
<1>4. CASE LoadRefreshed(t)
  <2>1. CallsTyped'
    BY <1>4, Constants, OneCall DEF LoadRefreshed
  <2>2. Values'
    BY <1>1, <1>4, Scalars DEF LoadRefreshed, SetTokens, Refresh, Values, TypeOK, Credentials
  <2> QED
    BY <1>3, <2>1, <2>2, Parts
<1>5. CASE LoadFails(t)
  <2>1. CallsTyped'
    BY <1>5, Kept DEF LoadFails
  <2>2. orphans' \in SUBSET Tokens
    BY <1>1, <1>5 DEF LoadFails, Lost, Refused, Refresh, Named, TypeOK
  <2>3. Values'
    BY <1>5, <2>2, Scalars DEF LoadFails, ClearTokens, Values, TypeOK, Credentials
  <2> QED
    BY <1>3, <2>1, <2>3, Parts
<1> QED
  BY <1>4, <1>5

LEMMA SharedTypes ==
    ASSUME TypeOK, NEW t \in Tabs, Refreshed(t) \/ RefreshFails(t)
    PROVE  TypeOK'
<1> DEFINE r == refresh[t]["shared"]
<1>1. r \in Refresh /\ Named(r)
  BY Slots DEF Ways
<1>2. refresh' = [refresh EXCEPT ![t]["shared"] = NoRefresh]
  BY DEF Refreshed, RefreshFails
<1>3. RefreshesTyped'
  BY <1>2, Constants, OneRefresh DEF Ways
<1>4. CASE Refreshed(t)
  <2>1. CallsTyped'
    <3> DEFINE g == [c \in Calls |-> IF c \in Waiters(t) THEN Resent ELSE call[t][c]]
    <3>1. g \in [Calls -> Call]
      BY Slots, Constants
    <3>2. call' = [call EXCEPT ![t] = g]
      BY <1>4 DEF Refreshed, Resend
    <3> HIDE DEF g
    <3> QED
      BY <3>1, <3>2, AllCalls
  <2>2. Values'
    BY <1>1, <1>4, Scalars DEF Refreshed, SetTokens, Refresh, Values, TypeOK, Credentials
  <2> QED
    BY <1>3, <2>1, <2>2, Parts
<1>5. CASE RefreshFails(t)
  <2>1. CallsTyped'
    <3> DEFINE g == [c \in Calls |-> IF c \in Waiters(t) THEN NoCall ELSE call[t][c]]
    <3>1. g \in [Calls -> Call]
      BY Slots, Constants
    <3>2. call' = [call EXCEPT ![t] = g]
      BY <1>5 DEF RefreshFails
    <3> HIDE DEF g
    <3> QED
      BY <3>1, <3>2, AllCalls
  <2>2. orphans' \in SUBSET Tokens
    BY <1>1, <1>5 DEF RefreshFails, Lost, Refused, Refresh, Named, TypeOK
  <2>3. view' \in [Tabs -> BOOLEAN] /\ load' \in [Tabs -> {"refresh", "me", "done"}]
    BY <1>5, Scalars DEF RefreshFails, TypeOK
  <2>4. Values'
    BY <1>5, <2>2, <2>3, Scalars DEF RefreshFails, ClearTokens, Values, TypeOK, Credentials
  <2> QED
    BY <1>3, <2>1, <2>4, Parts
<1> QED
  BY <1>4, <1>5

LEMMA EndTypes ==
    ASSUME TypeOK, NEW t \in Tabs, NEW c \in Calls, NEW ok \in BOOLEAN, EndCall(t, c, ok)
    PROVE  TypeOK'
<1>1. CallsTyped' /\ RefreshesTyped'
  BY Constants, OneCall, Kept DEF EndCall
<1>2. (c = "me" /\ ok) \in BOOLEAN
  OBVIOUS
<1>3. view' \in [Tabs -> BOOLEAN]
  BY <1>2, Scalars DEF EndCall, TypeOK
<1>4. load' \in [Tabs -> {"refresh", "me", "done"}]
  BY Scalars DEF EndCall, Loaded, TypeOK
<1>5. access' \in [Tabs -> Credentials] /\ stored' \in Tokens \cup {None}
  <2>1. UNCHANGED <<access, stored>> \/ ClearTokens(t)
    BY DEF EndCall
  <2> QED
    BY <2>1, Scalars DEF ClearTokens, TypeOK, Credentials
<1>6. Values'
  BY <1>3, <1>4, <1>5 DEF EndCall, Values, TypeOK
<1> QED
  BY <1>1, <1>6, Parts

LEMMA CallTypes ==
    ASSUME TypeOK, NEW t \in Tabs, NEW c \in Calls, StartCall(t, c) \/ CallStep(t, c)
    PROVE  TypeOK'
<1>1. call[t][c] \in Call
  BY Slots
<1>2. CASE StartCall(t, c)
  <2>1. Sent(access[t]) \in Call
    BY Constants DEF TypeOK
  <2>2. CallsTyped' /\ RefreshesTyped'
    BY <1>2, <2>1, OneCall, Kept DEF StartCall
  <2>3. Values'
    BY <1>2 DEF StartCall, Values, TypeOK
  <2> QED
    BY <2>2, <2>3, Parts
<1>3. CASE ApiAnswers(t, c)
  <2> DEFINE q == [call[t][c] EXCEPT !.pc = "answered", !.ok = (call[t][c].cred = "valid")]
  <2>1. q \in Call
    BY <1>1 DEF Call
  <2>2. call' = [call EXCEPT ![t][c] = q]
    BY <1>3 DEF ApiAnswers, TypeOK
  <2>3. UNCHANGED <<tokens, stored, access, view, load, login, refresh, orphans>>
    BY <1>3 DEF ApiAnswers
  <2> HIDE DEF q
  <2>4. CallsTyped' /\ RefreshesTyped'
    BY <2>1, <2>2, <2>3, OneCall, Kept
  <2>5. Values'
    BY <2>3 DEF Values, TypeOK
  <2> QED
    BY <2>4, <2>5, Parts
<1>4. CASE AwaitRefresh(t, c)
  <2> DEFINE q == [call[t][c] EXCEPT !.pc = "waiting"]
  <2>1. q \in Call
    BY <1>1 DEF Call
  <2>2. call' = [call EXCEPT ![t][c] = q]
    BY <1>4 DEF AwaitRefresh, TypeOK
  <2> HIDE DEF q
  <2>3. CallsTyped'
    BY <2>1, <2>2, OneCall
  <2>4. RefreshesTyped'
    <3>1. CASE UNCHANGED refresh
      BY <3>1, Kept
    <3>2. CASE stored # None /\ refresh' = [refresh EXCEPT ![t]["shared"] = Asked(stored)]
      <4>1. Asked(stored) \in Refresh /\ Named(Asked(stored))
        BY <3>2, Constants DEF TypeOK
      <4> QED
        BY <3>2, <4>1, OneRefresh DEF Ways
    <3> QED
      BY <1>4, <3>1, <3>2 DEF AwaitRefresh
  <2>5. Values'
    BY <1>4 DEF AwaitRefresh, Values, TypeOK
  <2> QED
    BY <2>3, <2>4, <2>5, Parts
<1>5. CASE Answered(t, c)
  BY <1>1, <1>5, EndTypes DEF Answered, Call
<1>6. CASE CallLost(t, c)
  BY <1>6, EndTypes DEF CallLost
<1> QED
  BY <1>2, <1>3, <1>4, <1>5, <1>6 DEF CallStep

LEMMA TimeTypes ==
    ASSUME TypeOK,
           \/ \E t \in Tabs : AccessExpires(t)
           \/ \E k \in Tokens : ApiHandlesOrphan(k) \/ RefreshExpires(k)
    PROVE  TypeOK'
<1>1. CASE \E t \in Tabs : AccessExpires(t)
  <2> PICK t \in Tabs : AccessExpires(t)
    BY <1>1
  <2> DEFINE g == [c \in Calls |->
           IF call[t][c].pc = "sent" /\ call[t][c].cred = "valid"
             THEN [call[t][c] EXCEPT !.cred = "expired"] ELSE call[t][c]]
  <2>1. \A q \in Call : [q EXCEPT !.cred = "expired"] \in Call
    BY DEF Call, Credentials
  <2>2. g \in [Calls -> Call]
    BY <2>1, Slots
  <2>3. call' = [call EXCEPT ![t] = g]
    BY DEF AccessExpires
  <2> HIDE DEF g
  <2>4. CallsTyped' /\ RefreshesTyped'
    BY <2>2, <2>3, AllCalls, Kept DEF AccessExpires
  <2>5. Values'
    BY Scalars DEF AccessExpires, Values, TypeOK, Credentials
  <2> QED
    BY <2>4, <2>5, Parts
<1>2. CASE \E k \in Tokens : ApiHandlesOrphan(k) \/ RefreshExpires(k)
  <2> PICK k \in Tokens : ApiHandlesOrphan(k) \/ RefreshExpires(k)
    BY <1>2
  <2>1. tokens' \in [Tokens -> {"live", "revoked", "expired"}] /\ orphans' \in SUBSET Tokens
    BY DEF ApiHandlesOrphan, RefreshExpires, TypeOK
  <2>2. Values'
    BY <2>1 DEF ApiHandlesOrphan, RefreshExpires, Values, TypeOK
  <2>3. CallsTyped' /\ RefreshesTyped'
    BY Kept DEF ApiHandlesOrphan, RefreshExpires
  <2> QED
    BY <2>2, <2>3, Parts
<1> QED
  BY <1>1, <1>2

LEMMA TypeStep == TypeOK /\ [Next]_vars => TypeOK'
<1> SUFFICES ASSUME TypeOK, [Next]_vars PROVE TypeOK'
  OBVIOUS
<1>1. ASSUME NEW t \in Tabs, LoadStep(t) \/ SharedStep(t) PROVE TypeOK'
  BY <1>1, RefreshingTypes, LoadTypes, SharedTypes DEF LoadStep, SharedStep, Ways
<1>2. CASE Others
  BY <1>1, <1>2, LoginTypes, CallTypes, TimeTypes DEF Others
<1>3. CASE \E t \in Tabs : OpenPage(t)
  BY <1>3, OpenTypes
<1>4. CASE UNCHANGED vars
  BY <1>4, Kept, Parts DEF vars, Values, TypeOK
<1> QED
  BY <1>2, <1>3, <1>4 DEF Next

\* Whatever the tabs do, every token, request and call is in a state the code
\* has, and a refresh that is under way names the token it was sent with.
THEOREM SessionTypes == Spec => []TypeOK
BY InitType, TypeStep, PTL DEF Spec

-----------------------------------------------------------------------------
(* One tab, which is not reloaded while it refreshes.                      *)

OneTab == \A t, u \in Tabs : t = u

\* A refresh under way was asked for with a token that was not used before, and
\* nobody else uses what it brings.
Current(r) ==
    r.pc # "idle" =>
        /\ r.token \notin orphans
        /\ r.pc \in {"sent", "read"} => tokens[r.token] # "revoked"
        /\ r.pc = "refused" => tokens[r.token] = "expired"
        /\ r.pc = "granted" => /\ r.new \in Tokens \ orphans
                               /\ r.new # stored
                               /\ tokens[r.new] # "revoked"

\* The two refreshes of the tab never use one token.
Apart(r, q) ==
    (r.pc # "idle" /\ q.pc # "idle") =>
        /\ r.token # q.token
        /\ r.pc = "granted" => r.new # q.token
        /\ (r.pc = "granted" /\ q.pc = "granted") => r.new # q.new

\* While loadMe asks with the token that is stored, the tab shows no user and
\* calls nothing, so that no call can start a second refresh.
Restful(t) ==
    (refresh[t]["load"].pc # "idle" /\ refresh[t]["load"].token = stored) =>
        ~view[t] /\ \A c \in Calls : call[t][c].pc = "idle"

\* What is stored is not given up, and replaced once it has been used.
StoredSane ==
    stored # None =>
        /\ stored \notin orphans
        /\ tokens[stored] = "revoked" =>
               \E t \in Tabs, w \in Ways :
                   refresh[t][w].pc = "granted" /\ refresh[t][w].token = stored

IInv ==
    /\ TypeOK
    /\ \A t \in Tabs : /\ Current(refresh[t]["load"]) /\ Current(refresh[t]["shared"])
                       /\ Apart(refresh[t]["load"], refresh[t]["shared"])
                       /\ Apart(refresh[t]["shared"], refresh[t]["load"])
                       /\ Restful(t)
    /\ StoredSane

\* The same, of the one tab there is.
Held(t) ==
    /\ Current(refresh[t]["load"]) /\ Current(refresh[t]["shared"])
    /\ Apart(refresh[t]["load"], refresh[t]["shared"])
    /\ Apart(refresh[t]["shared"], refresh[t]["load"])
    /\ Restful(t)
    /\ stored # None =>
          /\ stored \notin orphans
          /\ \/ tokens[stored] # "revoked"
             \/ refresh[t]["load"].pc = "granted" /\ refresh[t]["load"].token = stored
             \/ refresh[t]["shared"].pc = "granted" /\ refresh[t]["shared"].token = stored

LEMMA OfTheTab ==
    ASSUME OneTab, NEW t \in Tabs
    PROVE  /\ IInv => Held(t)
           /\ TypeOK' /\ Held(t)' => IInv'
<1>1. \A u \in Tabs : u = t
  BY DEF OneTab
<1>2. IInv => Held(t)
  BY <1>1 DEF IInv, Held, StoredSane, Ways
<1>3. ASSUME TypeOK', Held(t)' PROVE IInv'
  <2>1. StoredSane'
    BY <1>3 DEF Held, StoredSane, Ways
  <2>2. \A u \in Tabs : /\ Current(refresh[u]["load"])' /\ Current(refresh[u]["shared"])'
                        /\ Apart(refresh[u]["load"], refresh[u]["shared"])'
                        /\ Apart(refresh[u]["shared"], refresh[u]["load"])'
                        /\ Restful(u)'
    BY <1>1, <1>3 DEF Held
  <2> QED
    BY <1>3, <2>1, <2>2 DEF IInv
<1> QED
  BY <1>2, <1>3

\* The refreshes of a tab after one of them, or both, have changed.
LEMMA TabAfter ==
    ASSUME TypeOK, NEW t \in Tabs, NEW r
    PROVE  /\ refresh' = [refresh EXCEPT ![t]["load"] = r] =>
                 refresh'[t]["load"] = r /\ refresh'[t]["shared"] = refresh[t]["shared"]
           /\ refresh' = [refresh EXCEPT ![t]["shared"] = r] =>
                 refresh'[t]["shared"] = r /\ refresh'[t]["load"] = refresh[t]["load"]
           /\ refresh' = [refresh EXCEPT ![t] = [load |-> r, shared |-> NoRefresh]] =>
                 refresh'[t]["load"] = r /\ refresh'[t]["shared"] = NoRefresh
BY DEF TypeOK

LEMMA TabOf ==
    ASSUME TypeOK, NEW t \in Tabs
    PROVE  /\ refresh[t]["load"] \in Refresh /\ Named(refresh[t]["load"])
           /\ refresh[t]["shared"] \in Refresh /\ Named(refresh[t]["shared"])
BY Slots DEF Ways

\* A token that nobody holds is given out.
LEMMA FreeIsNew ==
    ASSUME TypeOK, NEW t \in Tabs, NEW k \in Tokens, Free(k)
    PROVE  /\ k # stored /\ k \notin orphans
           /\ k # refresh[t]["load"].token /\ k # refresh[t]["load"].new
           /\ k # refresh[t]["shared"].token /\ k # refresh[t]["shared"].new
BY DEF Free

LEMMA OpenHolds ==
    ASSUME OneTab, IInv, NEW t \in Tabs, Unhurried(t), OpenPage(t)
    PROVE  Held(t)'
<1>1. TypeOK /\ Held(t)
  BY OfTheTab DEF IInv
<1>2. refresh[t]["load"].pc = "idle" /\ refresh[t]["shared"].pc = "idle"
  BY DEF Unhurried
<1>3. CASE Open(t)
  <2>1. refresh'[t]["load"] = FirstRefresh /\ refresh'[t]["shared"] = NoRefresh
    BY <1>1, <1>3, TabAfter DEF Open
  <2>2. orphans' = orphans
    BY <1>2, <1>3 DEF Open, Abandon
  <2>3. UNCHANGED <<tokens, stored>> /\ view'[t] = FALSE /\ \A c \in Calls : call'[t][c].pc = "idle"
    BY <1>1, <1>3 DEF Open, TypeOK, Quiet, NoCall
  <2> QED
    BY <1>1, <1>2, <2>1, <2>2, <2>3
    DEF Held, Current, Apart, Restful, FirstRefresh, Asked, NoRefresh
<1>4. CASE \E k \in Tokens : OpenCallback(t, k)
  <2> PICK k \in Tokens : OpenCallback(t, k)
    BY <1>4
  <2>1. refresh'[t]["load"].pc = "idle" /\ refresh'[t]["shared"].pc = "idle"
    BY <1>1 DEF OpenCallback, TypeOK, NoRefresh
  <2>2. orphans' = orphans
    BY <1>2 DEF OpenCallback, Abandon
  <2>3. stored' = k /\ tokens'[k] = "live" /\ k \notin orphans
    BY <1>1 DEF OpenCallback, Issue, Free, SetTokens, TypeOK
  <2> QED
    BY <2>1, <2>2, <2>3 DEF Held, Current, Apart, Restful
<1> QED
  BY <1>3, <1>4 DEF OpenPage

LEMMA LoginHolds ==
    ASSUME OneTab, IInv, NEW t \in Tabs, Login(t) \/ LoginStep(t)
    PROVE  Held(t)'
<1>1. TypeOK /\ Held(t)
  BY OfTheTab DEF IInv
<1>2. CASE Login(t) \/ LoginFails(t)
  BY <1>1, <1>2 DEF Login, LoginFails, Held, Current, Apart, Restful
<1>3. CASE \E k \in Tokens : LoggedIn(t, k)
  <2> PICK k \in Tokens : LoggedIn(t, k)
    BY <1>3
  <2>1. stored' = k /\ tokens' = [tokens EXCEPT ![k] = "live"]
        /\ UNCHANGED <<refresh, orphans>> /\ Free(k)
    BY DEF LoggedIn, Issue, SetTokens
  <2>2. tokens'[k] = "live" /\ \A j \in Tokens \ {k} : tokens'[j] = tokens[j]
    BY <1>1, <2>1 DEF TypeOK
  <2> QED
    BY <1>1, <2>1, <2>2, FreeIsNew, TabOf DEF Held, Current, Apart, Restful, Refresh, Named
<1> QED
  BY <1>2, <1>3 DEF LoginStep

LEMMA ReadsHold ==
    ASSUME OneTab, IInv, NEW t \in Tabs, NEW w \in Ways, ApiReads(t, w)
    PROVE  Held(t)'
<1>1. TypeOK /\ Held(t)
  BY OfTheTab DEF IInv
<1> DEFINE r == refresh[t][w]
           q == [r EXCEPT !.pc = IF tokens[r.token] = "live" THEN "read" ELSE "refused"]
<1>2. r \in Refresh /\ Named(r) /\ r.pc = "sent"
  BY <1>1, Slots DEF ApiReads
<1>3. q.token = r.token /\ q.new = r.new
      /\ q.pc = IF tokens[r.token] = "live" THEN "read" ELSE "refused"
  BY <1>2 DEF Refresh
<1>4. refresh' = [refresh EXCEPT ![t][w] = q]
  BY <1>1 DEF ApiReads, TypeOK, Ways
<1>5. UNCHANGED <<tokens, stored, view, call, orphans>>
  BY DEF ApiReads
<1>6. tokens[r.token] \in {"live", "revoked", "expired"}
  BY <1>1, <1>2 DEF TypeOK, Refresh, Named
<1> HIDE DEF q
<1>7. CASE w = "load"
  <2>1. refresh'[t]["load"] = q /\ refresh'[t]["shared"] = refresh[t]["shared"]
    BY <1>1, <1>4, <1>7, TabAfter
  <2> QED
    BY <1>1, <1>2, <1>3, <1>5, <1>6, <1>7, <2>1 DEF Held, Current, Apart, Restful
<1>8. CASE w = "shared"
  <2>1. refresh'[t]["shared"] = q /\ refresh'[t]["load"] = refresh[t]["load"]
    BY <1>1, <1>4, <1>8, TabAfter
  <2> QED
    BY <1>1, <1>2, <1>3, <1>5, <1>6, <1>8, <2>1 DEF Held, Current, Apart, Restful
<1> QED
  BY <1>7, <1>8 DEF Ways

LEMMA RotationHolds ==
    ASSUME OneTab, IInv, NEW t \in Tabs, NEW w \in Ways, NEW k \in Tokens, ApiRotates(t, w, k)
    PROVE  Held(t)'
<1>1. TypeOK /\ Held(t)
  BY OfTheTab DEF IInv
<1> DEFINE r == refresh[t][w]
           q == [r EXCEPT !.pc = "granted", !.new = k]
<1>2. r \in Refresh /\ Named(r) /\ r.pc = "read" /\ r.token \in Tokens
  BY <1>1, Slots DEF ApiRotates, Refresh, Named
<1>3. q.token = r.token /\ q.new = k /\ q.pc = "granted"
  BY <1>2 DEF Refresh
<1>4. refresh' = [refresh EXCEPT ![t][w] = q]
  BY <1>1 DEF ApiRotates, TypeOK, Ways
<1>5. UNCHANGED <<stored, view, call, orphans>> /\ Free(k)
      /\ tokens' = [tokens EXCEPT ![r.token] = "revoked", ![k] = "live"]
  BY DEF ApiRotates
<1>6. /\ tokens'[k] = "live"
      /\ \A j \in Tokens \ {k, r.token} : tokens'[j] = tokens[j]
  BY <1>1, <1>2, <1>5 DEF TypeOK
<1> HIDE DEF q
<1>7. CASE w = "load"
  <2>1. refresh'[t]["load"] = q /\ refresh'[t]["shared"] = refresh[t]["shared"]
    BY <1>1, <1>4, <1>7, TabAfter
  <2> QED
    BY <1>1, <1>2, <1>3, <1>5, <1>6, <1>7, <2>1, TabOf, FreeIsNew
    DEF Held, Current, Apart, Restful, Refresh, Named, TypeOK
<1>8. CASE w = "shared"
  <2>1. refresh'[t]["shared"] = q /\ refresh'[t]["load"] = refresh[t]["load"]
    BY <1>1, <1>4, <1>8, TabAfter
  <2> QED
    BY <1>1, <1>2, <1>3, <1>5, <1>6, <1>8, <2>1, TabOf, FreeIsNew
    DEF Held, Current, Apart, Restful, Refresh, Named, TypeOK
<1> QED
  BY <1>7, <1>8 DEF Ways

LEMMA AnswersHold ==
    ASSUME OneTab, IInv, NEW t \in Tabs,
           \/ LoadRefreshed(t) \/ LoadFails(t) \/ Refreshed(t) \/ RefreshFails(t)
    PROVE  Held(t)'
<1>1. TypeOK /\ Held(t)
  BY OfTheTab DEF IInv
<1>2. NoRefresh.pc = "idle"
  BY DEF NoRefresh
<1>3. CASE LoadRefreshed(t)
  <2>1. refresh'[t]["load"] = NoRefresh /\ refresh'[t]["shared"] = refresh[t]["shared"]
    BY <1>1, <1>3, TabAfter DEF LoadRefreshed
  <2>2. stored' = refresh[t]["load"].new /\ refresh[t]["load"].pc = "granted"
        /\ UNCHANGED <<tokens, orphans>>
    BY <1>3 DEF LoadRefreshed, SetTokens
  <2> QED
    BY <1>1, <1>2, <2>1, <2>2 DEF Held, Current, Apart, Restful
<1>4. CASE LoadFails(t)
  <2>1. refresh'[t]["load"] = NoRefresh /\ refresh'[t]["shared"] = refresh[t]["shared"]
    BY <1>1, <1>4, TabAfter DEF LoadFails
  <2>2. stored' = None /\ UNCHANGED tokens /\ refresh[t]["load"].pc # "idle"
        /\ orphans' \subseteq orphans \cup {refresh[t]["load"].token}
    BY <1>4 DEF LoadFails, ClearTokens, Refused, Lost
  <2> QED
    BY <1>1, <1>2, <2>1, <2>2, TabOf DEF Held, Current, Apart, Restful, Refresh, Named, TypeOK
<1>5. CASE Refreshed(t)
  <2>1. refresh'[t]["shared"] = NoRefresh /\ refresh'[t]["load"] = refresh[t]["load"]
    BY <1>1, <1>5, TabAfter DEF Refreshed
  <2>2. stored' = refresh[t]["shared"].new /\ refresh[t]["shared"].pc = "granted"
        /\ UNCHANGED <<tokens, orphans>>
    BY <1>5 DEF Refreshed, SetTokens
  <2> QED
    BY <1>1, <1>2, <2>1, <2>2 DEF Held, Current, Apart, Restful
<1>6. CASE RefreshFails(t)
  <2>1. refresh'[t]["shared"] = NoRefresh /\ refresh'[t]["load"] = refresh[t]["load"]
    BY <1>1, <1>6, TabAfter DEF RefreshFails
  <2>2. stored' = None /\ UNCHANGED tokens /\ refresh[t]["shared"].pc # "idle"
        /\ orphans' \subseteq orphans \cup {refresh[t]["shared"].token}
    BY <1>6 DEF RefreshFails, ClearTokens, Refused, Lost
  <2> QED
    BY <1>1, <1>2, <2>1, <2>2, TabOf DEF Held, Current, Apart, Restful, Refresh, Named, TypeOK
<1> QED
  BY <1>3, <1>4, <1>5, <1>6

\* A call that may start a refresh runs, so loadMe does not ask with what is stored.
LEMMA CallsHold ==
    ASSUME OneTab, IInv, NEW t \in Tabs, NEW c \in Calls, StartCall(t, c) \/ CallStep(t, c)
    PROVE  Held(t)'
<1>1. TypeOK /\ Held(t)
  BY OfTheTab DEF IInv
<1>2. CASE StartCall(t, c)
  <2>1. view[t] /\ UNCHANGED <<tokens, stored, refresh, orphans>>
    BY <1>2 DEF StartCall
  <2> QED
    BY <1>1, <2>1 DEF Held, Current, Apart, Restful
<1>3. CASE ApiAnswers(t, c)
  <2>1. call[t][c].pc # "idle" /\ UNCHANGED <<tokens, stored, refresh, orphans>>
    BY <1>3 DEF ApiAnswers
  <2> QED
    BY <1>1, <2>1 DEF Held, Current, Apart, Restful
<1>4. CASE AwaitRefresh(t, c)
  <2>1. call[t][c].pc # "idle" /\ UNCHANGED <<tokens, stored, orphans>>
    BY <1>4 DEF AwaitRefresh, Unauthorized
  <2>2. CASE UNCHANGED refresh
    BY <1>1, <2>1, <2>2 DEF Held, Current, Apart, Restful
  <2>3. CASE /\ refresh[t]["shared"].pc = "idle" /\ stored # None
             /\ refresh' = [refresh EXCEPT ![t]["shared"] = Asked(stored)]
    <3>1. refresh'[t]["shared"] = Asked(stored) /\ refresh'[t]["load"] = refresh[t]["load"]
      BY <1>1, <2>3, TabAfter
    <3>2. Asked(stored).pc = "sent" /\ Asked(stored).token = stored
      BY DEF Asked, NoRefresh
    <3> QED
      BY <1>1, <2>1, <2>3, <3>1, <3>2 DEF Held, Current, Apart, Restful
  <2> QED
    BY <1>4, <2>2, <2>3 DEF AwaitRefresh
<1>5. ASSUME NEW ok \in BOOLEAN, EndCall(t, c, ok), call[t][c].pc # "idle" PROVE Held(t)'
  <2>1. UNCHANGED <<tokens, refresh, orphans>> /\ (stored' = stored \/ stored' = None)
    BY <1>5 DEF EndCall, ClearTokens
  <2> QED
    BY <1>1, <1>5, <2>1, TabOf DEF Held, Current, Apart, Restful, Refresh, Named, TypeOK
<1>6. CASE Answered(t, c)
  <2>1. call[t][c].ok \in BOOLEAN
    BY <1>1, Slots DEF Call
  <2> QED
    BY <1>5, <1>6, <2>1 DEF Answered
<1>7. CASE CallLost(t, c)
  BY <1>5, <1>7 DEF CallLost
<1> QED
  BY <1>2, <1>3, <1>4, <1>6, <1>7 DEF CallStep

LEMMA TimeHolds ==
    ASSUME OneTab, IInv, NEW t \in Tabs,
           \/ AccessExpires(t)
           \/ \E k \in Tokens : ApiHandlesOrphan(k) \/ RefreshExpires(k)
    PROVE  Held(t)'
<1>1. TypeOK /\ Held(t)
  BY OfTheTab DEF IInv
<1>2. CASE AccessExpires(t)
  <2>1. UNCHANGED <<tokens, stored, view, refresh, orphans>>
        /\ \A c \in Calls : call[t][c].pc = "idle" => call'[t][c].pc = "idle"
    BY <1>1, <1>2 DEF AccessExpires, TypeOK
  <2> QED
    BY <1>1, <2>1 DEF Held, Current, Apart, Restful
<1>3. CASE \E k \in Tokens : ApiHandlesOrphan(k)
  <2> PICK k \in Tokens : ApiHandlesOrphan(k)
    BY <1>3
  <2>1. k \in orphans /\ orphans' = orphans \ {k} /\ UNCHANGED <<stored, view, call, refresh>>
        /\ \A j \in Tokens \ {k} : tokens'[j] = tokens[j]
    BY <1>1 DEF ApiHandlesOrphan, TypeOK
  <2> QED
    BY <1>1, <2>1, TabOf DEF Held, Current, Apart, Restful, Refresh, Named, TypeOK
<1>4. CASE \E k \in Tokens : RefreshExpires(k)
  <2> PICK k \in Tokens : RefreshExpires(k)
    BY <1>4
  <2>1. tokens[k] = "live" /\ tokens'[k] = "expired"
        /\ UNCHANGED <<stored, view, call, refresh, orphans>>
        /\ \A j \in Tokens \ {k} : tokens'[j] = tokens[j]
    BY <1>1 DEF RefreshExpires, TypeOK
  <2> QED
    BY <1>1, <2>1, TabOf DEF Held, Current, Apart, Restful, Refresh, Named, TypeOK
<1> QED
  BY <1>2, <1>3, <1>4

LEMMA InitHolds == Init => IInv
<1> SUFFICES ASSUME Init PROVE IInv
  OBVIOUS
<1>1. \A t \in Tabs, w \in Ways : refresh[t][w].pc = "idle"
  BY DEF Init, Ways, NoRefresh
<1>2. stored = None
  BY DEF Init
<1> QED
  BY <1>1, <1>2, InitType DEF IInv, Current, Apart, Restful, StoredSane, Ways

LEMMA TabStep ==
    ASSUME OneTab
    PROVE  IInv /\ [NextUnhurried]_vars => IInv'
<1> SUFFICES ASSUME IInv, [NextUnhurried]_vars PROVE IInv'
  OBVIOUS
<1>1. TypeOK'
  BY TypeStep DEF IInv, NextUnhurried, Next
<1>2. CASE UNCHANGED vars
  BY <1>1, <1>2 DEF vars, IInv, Current, Apart, Restful, StoredSane
<1>3. CASE Tabs = {}
  BY <1>1, <1>3 DEF IInv, StoredSane, NextUnhurried, Others, ApiHandlesOrphan, RefreshExpires, vars, TypeOK
<1>4. ASSUME NEW t \in Tabs, NextUnhurried PROVE Held(t)'
  <2>1. \A u \in Tabs : u = t
    BY DEF OneTab
  <2>2. CASE \E u \in Tabs : Unhurried(u) /\ OpenPage(u)
    BY <2>1, <2>2, OpenHolds
  <2>3. CASE Others
    <3>1. CASE Login(t) \/ LoginStep(t)
      BY <3>1, LoginHolds
    <3>2. CASE LoadStep(t) \/ SharedStep(t)
      BY <3>2, ReadsHold, RotationHolds, AnswersHold DEF LoadStep, SharedStep, Refreshing, Ways
    <3>3. CASE \E c \in Calls : StartCall(t, c) \/ CallStep(t, c)
      BY <3>3, CallsHold
    <3>4. CASE AccessExpires(t) \/ \E k \in Tokens : ApiHandlesOrphan(k) \/ RefreshExpires(k)
      BY <3>4, TimeHolds
    <3> QED
      BY <2>1, <2>3, <3>1, <3>2, <3>3, <3>4 DEF Others
  <2> QED
    BY <1>4, <2>2, <2>3 DEF NextUnhurried
<1> QED
  BY <1>1, <1>2, <1>3, <1>4, OfTheTab

THEOREM TabInvariance ==
    ASSUME OneTab
    PROVE  SpecUnhurried => []IInv
<1>1. IInv /\ [NextUnhurried]_vars => IInv'
  BY TabStep
<1> QED
  BY <1>1, InitHolds, PTL DEF SpecUnhurried

\* In one tab that is not reloaded while it refreshes, localStorage only holds
\* a rotated token while the answer that replaces it is on its way.
THEOREM StoredIsCurrentInOneTab ==
    ASSUME OneTab
    PROVE  SpecUnhurried => []StoredIsCurrent
<1>1. IInv => StoredIsCurrent
  BY DEF IInv, StoredSane, StoredIsCurrent, Ways
<1> QED
  BY <1>1, TabInvariance, PTL

\* In such a tab a refresh is only refused because its token has expired.
THEOREM OneTabSurvives ==
    ASSUME OneTab
    PROVE  SpecUnhurried => []SurvivesReload
<1>1. IInv => SurvivesReload
  BY DEF IInv, Current, SurvivesReload
<1> QED
  BY <1>1, TabInvariance, PTL
=============================================================================
