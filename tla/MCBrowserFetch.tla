--------------------------- MODULE MCBrowserFetch ---------------------------
(* Small instances of BrowserFetch for TLC.                                *)
EXTENDS BrowserFetch

VARIABLE prompt  \* whether the event loop of the behaviour is prompt

MCInit == Init /\ prompt \in BOOLEAN

MCNext == Next /\ (prompt => PromptNext) /\ UNCHANGED prompt

MCSpec == MCInit /\ [][MCNext]_<<vars, prompt>> /\ Fairness

\* In a prompt loop no fetch times out before its turn, while the timeout covers
\* one interval for each fetch.
PassesWhenPrompt == prompt => PassesInTime
=============================================================================
