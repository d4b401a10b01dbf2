----------------------------- MODULE WebSession -----------------------------
(***************************************************************************)
(* The session of a browser: the tabs of the single-page application, the  *)
(* access token each keeps in memory, the refresh token they share in      *)
(* localStorage, and the API that rotates refresh tokens.                  *)
(*                                                                         *)
(* A step of a tab is what its script does between two awaits.  A request  *)
(* is sent, is handled by the API and has its answer handled by the tab,   *)
(* or it is lost on the way; a refresh is handled by the API in two steps, *)
(* the SELECT of the token and the commit.  A login has its answer and its *)
(* handling in one step, since nobody else knows the token it brings.      *)
(* There is one account; registering and the Google login bring tokens as  *)
(* a login does.                                                           *)
(***************************************************************************)
EXTENDS FiniteSets

CONSTANTS
    Tabs,
    Tokens,     \* refresh tokens: one that nobody holds is used again
    PageCalls,  \* slots for the calls of the pages of a tab
    None        \* no refresh token

ASSUME SessionAssumption ==
    /\ None \notin Tokens
    /\ PageCalls \cap {"me", "logout"} = {}

VARIABLES
    tokens,   \* tokens[k]: what the row of refresh token k says
    stored,   \* the refresh token in localStorage
    access,   \* access[t]: the access token tab t has in memory
    view,     \* view[t]: whether tab t shows the user
    load,     \* load[t]: how far loadMe has come since the page was opened
    login,    \* login[t]: whether a login is under way
    call,     \* call[t][c]: a call of apiRequest
    refresh,  \* refresh[t][w]: loadMe's refresh and that of refreshPromise
    orphans   \* tokens of refreshes on the way that nobody waits for

vars == <<tokens, stored, access, view, load, login, call, refresh, orphans>>

Calls == PageCalls \cup {"me", "logout"}

Credentials == {"none", "valid", "expired"}

Call == [pc: {"idle", "sent", "answered", "waiting"}, again: BOOLEAN,
         cred: Credentials, ok: BOOLEAN]

Refresh == [pc: {"idle", "sent", "read", "refused", "granted"},
            token: Tokens \cup {None}, new: Tokens \cup {None}]

NoCall    == [pc |-> "idle", again |-> FALSE, cred |-> "none", ok |-> FALSE]
NoRefresh == [pc |-> "idle", token |-> None, new |-> None]

Sent(cred)   == [NoCall EXCEPT !.pc = "sent", !.cred = cred]
Resent == [Sent("valid") EXCEPT !.again = TRUE]
Asked(k)     == [NoRefresh EXCEPT !.pc = "sent", !.token = k]

\* A request for a refresh names a token.
Named(r) == r.pc # "idle" => r.token # None

TypeOK ==
    /\ tokens \in [Tokens -> {"live", "revoked", "expired"}]
    /\ stored \in Tokens \cup {None}
    /\ access \in [Tabs -> Credentials]
    /\ view \in [Tabs -> BOOLEAN]
    /\ load \in [Tabs -> {"refresh", "me", "done"}]
    /\ login \in [Tabs -> BOOLEAN]
    /\ call \in [Tabs -> [Calls -> Call]]
    /\ refresh \in [Tabs -> [{"load", "shared"} -> Refresh]]
    /\ orphans \in SUBSET Tokens
    /\ \A t \in Tabs, w \in {"load", "shared"} : Named(refresh[t][w])

Quiet == [c \in Calls |-> NoCall]

Init ==
    /\ tokens = [k \in Tokens |-> "revoked"]
    /\ stored = None
    /\ access = [t \in Tabs |-> "none"]
    /\ view = [t \in Tabs |-> FALSE]
    /\ load = [t \in Tabs |-> "done"]
    /\ login = [t \in Tabs |-> FALSE]
    /\ call = [t \in Tabs |-> Quiet]
    /\ refresh = [t \in Tabs |-> [w \in {"load", "shared"} |-> NoRefresh]]
    /\ orphans = {}

-----------------------------------------------------------------------------
(* Tokens.                                                                 *)

\* Nobody holds k.
Free(k) ==
    /\ k # stored /\ k \notin orphans
    /\ \A t \in Tabs, w \in {"load", "shared"} :
           k \notin {refresh[t][w].token, refresh[t][w].new}

Issue(k) == Free(k) /\ tokens' = [tokens EXCEPT ![k] = "live"]

\* A slip: the refresh token is not replaced.
SetAccessOnly(t, k) ==
    /\ access' = [access EXCEPT ![t] = "valid"]
    /\ stored' = IF stored = None THEN k ELSE stored

SetTokens(t, k) ==
    /\ access' = [access EXCEPT ![t] = "valid"]
    /\ stored' = k

ClearTokens(t) ==
    /\ access' = [access EXCEPT ![t] = "none"]
    /\ stored' = None

-----------------------------------------------------------------------------
(* Pages.                                                                  *)

\* What the scripts of the page before had sent still reaches the API.
Abandon(t) ==
    orphans' = orphans \cup {refresh[t][w].token :
        w \in {v \in {"load", "shared"} : refresh[t][v].pc \in {"sent", "read"}}}

\* A slip: loadMe does not look whether there is a refresh token.
AskAlways == Asked(stored)

FirstRefresh == IF stored = None THEN NoRefresh ELSE Asked(stored)

\* The page is opened or reloaded: AuthProvider mounts and runs loadMe.
Open(t) ==
    /\ Abandon(t)
    /\ access' = [access EXCEPT ![t] = "none"]
    /\ view' = [view EXCEPT ![t] = FALSE]
    /\ login' = [login EXCEPT ![t] = FALSE]
    /\ call' = [call EXCEPT ![t] = Quiet]
    /\ load' = [load EXCEPT ![t] = IF stored = None THEN "done" ELSE "refresh"]
    /\ refresh' = [refresh EXCEPT ![t] =
           [load |-> FirstRefresh, shared |-> NoRefresh]]
    /\ UNCHANGED <<tokens, stored>>

\* The page is opened at /auth/callback with the tokens of a Google login.
\* acceptTokens stores them before loadMe looks, and both then ask who it is.
OpenCallback(t, k) ==
    /\ Issue(k)
    /\ Abandon(t)
    /\ SetTokens(t, k)
    /\ view' = [view EXCEPT ![t] = FALSE]
    /\ login' = [login EXCEPT ![t] = FALSE]
    /\ call' = [call EXCEPT ![t] = [Quiet EXCEPT !["me"] = Sent("valid")]]
    /\ load' = [load EXCEPT ![t] = "me"]
    /\ refresh' = [refresh EXCEPT ![t] = [w \in {"load", "shared"} |-> NoRefresh]]

\* The form is there while no user is shown, also before loadMe has ended.
Login(t) ==
    /\ ~view[t] /\ ~login[t]
    /\ login' = [login EXCEPT ![t] = TRUE]
    /\ UNCHANGED <<tokens, stored, access, view, load, call, refresh, orphans>>

LoggedIn(t, k) ==
    /\ login[t]
    /\ Issue(k)
    /\ SetTokens(t, k)
    /\ view' = [view EXCEPT ![t] = TRUE]
    /\ login' = [login EXCEPT ![t] = FALSE]
    /\ UNCHANGED <<load, call, refresh, orphans>>

LoginFails(t) ==
    /\ login[t]
    /\ login' = [login EXCEPT ![t] = FALSE]
    /\ UNCHANGED <<tokens, stored, access, view, load, call, refresh, orphans>>

-----------------------------------------------------------------------------
(* Refreshes.                                                              *)

ApiReads(t, w) ==
    /\ refresh[t][w].pc = "sent"
    /\ refresh' = [refresh EXCEPT ![t][w].pc =
           IF tokens[refresh[t][w].token] = "live" THEN "read" ELSE "refused"]
    /\ UNCHANGED <<tokens, stored, access, view, load, login, call, orphans>>

\* The token read before is revoked, also if another request has done so since.
ApiRotates(t, w, k) ==
    /\ refresh[t][w].pc = "read" /\ Free(k)
    /\ tokens' = [tokens EXCEPT ![refresh[t][w].token] = "revoked", ![k] = "live"]
    /\ refresh' = [refresh EXCEPT ![t][w] = [@ EXCEPT !.pc = "granted", !.new = k]]
    /\ UNCHANGED <<stored, access, view, load, login, call, orphans>>

\* A request whose page is gone is handled, or has not arrived.
ApiHandlesOrphan(k) ==
    /\ k \in orphans
    /\ orphans' = orphans \ {k}
    /\ \/ tokens' = [tokens EXCEPT ![k] = IF @ = "live" THEN "revoked" ELSE @]
       \/ UNCHANGED tokens
    /\ UNCHANGED <<stored, access, view, load, login, call, refresh>>

\* The answer is not coming: fetch rejects.  The API may handle the request yet.
Lost(t, w) ==
    /\ refresh[t][w].pc # "idle"
    /\ orphans' = IF refresh[t][w].pc \in {"sent", "read"}
                    THEN orphans \cup {refresh[t][w].token} ELSE orphans

Refused(t, w) == refresh[t][w].pc = "refused" /\ UNCHANGED orphans

LoadRefreshed(t) ==
    /\ refresh[t]["load"].pc = "granted"
    /\ SetTokens(t, refresh[t]["load"].new)
    /\ load' = [load EXCEPT ![t] = "me"]
    /\ call' = [call EXCEPT ![t]["me"] = Sent("valid")]
    /\ refresh' = [refresh EXCEPT ![t]["load"] = NoRefresh]
    /\ UNCHANGED <<tokens, view, login, orphans>>

LoadFails(t) ==
    /\ Refused(t, "load") \/ Lost(t, "load")
    /\ ClearTokens(t)
    /\ view' = [view EXCEPT ![t] = FALSE]
    /\ load' = [load EXCEPT ![t] = "done"]
    /\ refresh' = [refresh EXCEPT ![t]["load"] = NoRefresh]
    /\ UNCHANGED <<tokens, login, call>>

Waiters(t) == {c \in Calls : call[t][c].pc = "waiting"}

\* A slip: only the call that has started the refresh is sent again.
ResendOne(t) ==
    LET first == CHOOSE c \in Waiters(t) : TRUE
    IN  call' = [call EXCEPT ![t][first] = Resent]

\* Whoever awaits refreshPromise sends its call again with the new token.
Resend(t) ==
    call' = [call EXCEPT ![t] =
        [c \in Calls |-> IF c \in Waiters(t) THEN Resent ELSE call[t][c]]]

Refreshed(t) ==
    /\ refresh[t]["shared"].pc = "granted"
    /\ SetTokens(t, refresh[t]["shared"].new)
    /\ Resend(t)
    /\ refresh' = [refresh EXCEPT ![t]["shared"] = NoRefresh]
    /\ UNCHANGED <<tokens, view, load, login, orphans>>

\* Whoever awaits refreshPromise fails: loadMe and logout then show no user.
RefreshFails(t) ==
    /\ Refused(t, "shared") \/ Lost(t, "shared")
    /\ ClearTokens(t)
    /\ call' = [call EXCEPT ![t] =
           [c \in Calls |-> IF c \in Waiters(t) THEN NoCall ELSE call[t][c]]]
    /\ view' = [view EXCEPT ![t] = IF Waiters(t) \cap {"me", "logout"} # {} THEN FALSE ELSE @]
    /\ load' = [load EXCEPT ![t] = IF "me" \in Waiters(t) THEN "done" ELSE @]
    /\ refresh' = [refresh EXCEPT ![t]["shared"] = NoRefresh]
    /\ UNCHANGED <<tokens, login>>

-----------------------------------------------------------------------------
(* Calls.                                                                  *)

\* Pages and the logout button are there while a user is shown.
StartCall(t, c) ==
    /\ c # "me" /\ call[t][c].pc = "idle" /\ view[t]
    /\ call' = [call EXCEPT ![t][c] = Sent(access[t])]
    /\ UNCHANGED <<tokens, stored, access, view, load, login, refresh, orphans>>

ApiAnswers(t, c) ==
    /\ call[t][c].pc = "sent"
    /\ call' = [call EXCEPT ![t][c] =
           [@ EXCEPT !.pc = "answered", !.ok = (call[t][c].cred = "valid")]]
    /\ UNCHANGED <<tokens, stored, access, view, load, login, refresh, orphans>>

Loaded(t, c, ok) == load' = IF c = "me" THEN [load EXCEPT ![t] = "done"] ELSE load

\* The call is over.  A logout clears the tab whatever its answer; the API has
\* revoked nothing, since the call names no refresh token.
EndCall(t, c, ok) ==
    /\ call' = [call EXCEPT ![t][c] = NoCall]
    /\ IF c \in PageCalls \/ (c = "me" /\ ok)
         THEN UNCHANGED <<access, stored>> ELSE ClearTokens(t)
    /\ view' = IF c \in PageCalls THEN view ELSE [view EXCEPT ![t] = (c = "me" /\ ok)]
    /\ Loaded(t, c, ok)
    /\ UNCHANGED <<tokens, login, refresh, orphans>>

Unauthorized(t, c) == call[t][c].pc = "answered" /\ ~call[t][c].ok /\ ~call[t][c].again

\* 401 the first time: the call waits for refreshPromise, which it starts unless
\* it is there.
AwaitRefresh(t, c) ==
    /\ Unauthorized(t, c)
    /\ \/ refresh[t]["shared"].pc # "idle" /\ UNCHANGED refresh
       \/ /\ refresh[t]["shared"].pc = "idle" /\ stored # None
          /\ refresh' = [refresh EXCEPT ![t]["shared"] = Asked(stored)]
    /\ call' = [call EXCEPT ![t][c].pc = "waiting"]
    /\ UNCHANGED <<tokens, stored, access, view, load, login, orphans>>

\* An answer is taken as it is when it is no 401, when the call has been sent
\* again, and when there is no refresh token.
Answered(t, c) ==
    /\ call[t][c].pc = "answered"
    /\ ~Unauthorized(t, c) \/ (refresh[t]["shared"].pc = "idle" /\ stored = None)
    /\ EndCall(t, c, call[t][c].ok)

\* The answer is an error of another kind, or fetch rejects.
CallLost(t, c) ==
    /\ call[t][c].pc \in {"sent", "answered"}
    /\ EndCall(t, c, FALSE)

-----------------------------------------------------------------------------
(* Time.                                                                   *)

\* An access token that is on the way with a call expires there.
AccessExpires(t) ==
    /\ access[t] = "valid"
    /\ access' = [access EXCEPT ![t] = "expired"]
    /\ call' = [call EXCEPT ![t] = [c \in Calls |->
           IF call[t][c].pc = "sent" /\ call[t][c].cred = "valid"
             THEN [call[t][c] EXCEPT !.cred = "expired"] ELSE call[t][c]]]
    /\ UNCHANGED <<tokens, stored, view, load, login, refresh, orphans>>

RefreshExpires(k) ==
    /\ tokens[k] = "live"
    /\ tokens' = [tokens EXCEPT ![k] = "expired"]
    /\ UNCHANGED <<stored, access, view, load, login, call, refresh, orphans>>

-----------------------------------------------------------------------------
OpenPage(t) == Open(t) \/ \E k \in Tokens : OpenCallback(t, k)

Refreshing(t, w) == ApiReads(t, w) \/ \E k \in Tokens : ApiRotates(t, w, k)

LoadStep(t)   == Refreshing(t, "load") \/ LoadRefreshed(t) \/ LoadFails(t)
SharedStep(t) == Refreshing(t, "shared") \/ Refreshed(t) \/ RefreshFails(t)
LoginStep(t)  == LoginFails(t) \/ \E k \in Tokens : LoggedIn(t, k)
CallStep(t, c) == ApiAnswers(t, c) \/ AwaitRefresh(t, c) \/ Answered(t, c) \/ CallLost(t, c)

Others ==
    \/ \E t \in Tabs :
           \/ Login(t)
           \/ LoginStep(t) \/ LoadStep(t) \/ SharedStep(t)
           \/ \E c \in Calls : StartCall(t, c) \/ CallStep(t, c)
           \/ AccessExpires(t)
    \/ \E k \in Tokens : ApiHandlesOrphan(k) \/ RefreshExpires(k)

Next == Others \/ \E t \in Tabs : OpenPage(t)

Spec == Init /\ [][Next]_vars

\* No tab is reloaded while a refresh of its is on the way.
Unhurried(t) == \A w \in {"load", "shared"} : refresh[t][w].pc = "idle"

NextUnhurried == Others \/ \E t \in Tabs : Unhurried(t) /\ OpenPage(t)

SpecUnhurried == Init /\ [][NextUnhurried]_vars

\* A request is answered or its fetch rejects.
Fairness ==
    /\ \A t \in Tabs : WF_vars(LoadStep(t)) /\ WF_vars(SharedStep(t))
    /\ \A t \in Tabs, c \in Calls : WF_vars(CallStep(t, c))

FairSpec == Spec /\ Fairness

-----------------------------------------------------------------------------
\* What is stored can be used: a refresh token that has been rotated only stays
\* in localStorage while the answer that replaces it is on its way.
StoredIsCurrent ==
    (stored # None /\ tokens[stored] = "revoked") =>
        \E t \in Tabs, w \in {"load", "shared"} :
            refresh[t][w].pc = "granted" /\ refresh[t][w].token = stored

\* tokens.ts: "refresh survives reloads via localStorage".  A refresh is only
\* refused because its token has expired, never because it was used before.
SurvivesReload ==
    \A t \in Tabs, w \in {"load", "shared"} :
        refresh[t][w].pc = "refused" => tokens[refresh[t][w].token] = "expired"

\* No call hangs, one that waits for a refresh another call has started is sent
\* again or fails with it, and a tab that is not reloaded again stops showing
\* that it loads.
CallsEnd ==
    \A t \in Tabs : <>[][~OpenPage(t)]_vars =>
        /\ \A c \in Calls : (call[t][c].pc # "idle") ~> (call[t][c].pc = "idle")
        /\ (load[t] # "done") ~> (load[t] = "done")
=============================================================================
