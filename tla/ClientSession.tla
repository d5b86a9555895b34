---------------------------- MODULE ClientSession ----------------------------
(***************************************************************************)
(* The session of one user: the access and refresh tokens the API issues,  *)
(* rotates and withdraws, and the windows of the web application that keep *)
(* them, in their own state and in the storage of the device they share.   *)
(*                                                                         *)
(* A token is its user and its expiry in whole seconds, so it is modelled  *)
(* by the second it was issued in: two of one second are the same token.   *)
(***************************************************************************)
EXTENDS Integers, FiniteSets

CONSTANTS
    Devices,    \* each has one localStorage
    Windows,    \* windows (Mini App or browser tab) on each device
    None,
    Seconds,    \* bound: the clock stops at this second
    Launches,   \* bound: how often a window is launched anew
    Losses      \* bound: how many answers are lost or come too late

ASSUME SessionAssumption ==
    /\ IsFiniteSet(Devices)
    /\ Seconds \in Nat \ {0}
    /\ Launches \in Nat
    /\ Losses \in Nat
    /\ None \notin Nat

Tabs == Devices \X Windows

VARIABLES
    hash,     \* users.refresh_token: the refresh token it is the hash of
    active,   \* users.is_active
    stored,   \* access and refresh token in each device's storage
    tab,      \* each window: the token of its state, what it waits for
    req,      \* the request to auth_via_telegram or refresh_access_token
    now,      \* the second
    expired,  \* the access tokens issued up to this second have expired
    launches, \* launches still to come
    losses,   \* losses still to come
    overlap   \* two such requests have been under way at once

server == <<hash, active>>
env    == <<now, expired, launches, losses>>
vars   == <<server, stored, tab, req, env, overlap>>

Tokens == 1..Seconds
Maybe  == Tokens \cup {None}

\* "call", "retry": API requests of the window are under way (they share one
\* refresh); "login": POST /auth/telegram; "refresh": POST /auth/refresh.
Waits == {"idle", "call", "retry", "login", "refresh"}

NoReq == [step |-> "none", kind |-> None, seen |-> None, token |-> None]

Empty == [access |-> None, refresh |-> None]

\* Telegram has just launched every window, with initData of its own.
Init ==
    /\ hash = None
    /\ active = TRUE
    /\ stored = [d \in Devices |-> Empty]
    /\ tab = [t \in Tabs |-> [token |-> None, wait |-> "idle", fresh |-> TRUE]]
    /\ req = [t \in Tabs |-> NoReq]
    /\ now = 1
    /\ expired = 0
    /\ launches = Launches
    /\ losses = Losses
    /\ overlap = FALSE

-----------------------------------------------------------------------------
(* Helpers.                                                                *)

Store(t) == stored[t[1]]

\* decode_access_token
Valid(token) == token # None /\ token > expired

\* setStoredTokens: the event reaches only the window that stores them.
SetTokens(t, tokens, wait) ==
    /\ stored' = [stored EXCEPT ![t[1]] = tokens]
    /\ tab' = [tab EXCEPT ![t].token = tokens.access, ![t].wait = wait]

GoesIdle(t) == tab' = [tab EXCEPT ![t].wait = "idle"]

\* A request is sent once the server is done with the window's last one.
Send(t, kind, token) ==
    /\ req[t] = NoReq
    /\ req' = [req EXCEPT ![t] = [step |-> "sent", kind |-> kind, seen |-> None,
                                  token |-> token]]
    /\ overlap' = (overlap \/ \E u \in Tabs : req[u] # NoReq)

\* The server is done with the window's request: tokens, or 401.
Answer(t, token) == req' = [req EXCEPT ![t] = [NoReq EXCEPT !.step = "answered", !.token = token]]

-----------------------------------------------------------------------------
(* The windows: apiFetch, refreshAccessToken, Login, AuthProvider.         *)

\* A page makes a request with the token of the window's state.
CallStarts(t) ==
    /\ tab[t].wait = "idle"
    /\ tab[t].token # None
    /\ tab' = [tab EXCEPT ![t].wait = "call"]
    /\ UNCHANGED <<server, stored, req, env, overlap>>

\* Any answer but 401 (403 to a user who is not active), or an error again.
CallEnds(t) ==
    /\ \/ tab[t].wait = "call" /\ Valid(tab[t].token)
       \/ tab[t].wait = "retry"
    /\ GoesIdle(t)
    /\ UNCHANGED <<server, stored, req, env, overlap>>

\* 401: the access token is renewed, with the refresh token of the storage,
\* if there is one.
Renews(t) ==
    IF Store(t).refresh = None
    THEN GoesIdle(t) /\ UNCHANGED <<req, overlap>>
    ELSE /\ tab' = [tab EXCEPT ![t].wait = "refresh"]
         /\ Send(t, "refresh", Store(t).refresh)

\* Mutant: a request that was retried is refreshed once more.
CallRefusedAgain(t) ==
    /\ tab[t].wait \in {"call", "retry"}
    /\ ~Valid(tab[t].token) \/ tab[t].wait = "retry"
    /\ Renews(t)
    /\ UNCHANGED <<server, stored, env>>

CallRefused(t) ==
    /\ tab[t].wait = "call"
    /\ ~Valid(tab[t].token)
    /\ Renews(t)
    /\ UNCHANGED <<server, stored, env>>

\* The button of the login page, shown without a token.
LoginStarts(t) ==
    /\ tab[t].wait = "idle"
    /\ tab[t].token = None
    /\ tab' = [tab EXCEPT ![t].wait = "login"]
    /\ Send(t, "login", None)
    /\ UNCHANGED <<server, stored, env>>

\* The answer: tokens, or 401.  A refused login goes through apiFetch as well,
\* and so tries to refresh.
Answered(t) == req[t].step = "answered" /\ tab[t].wait \in {"login", "refresh"}

TokensArrive(t) ==
    /\ Answered(t)
    /\ req[t].token # None
    /\ SetTokens(t, [access |-> req[t].token, refresh |-> req[t].token],
                 IF tab[t].wait = "login" THEN "idle" ELSE "retry")
    /\ req' = [req EXCEPT ![t] = NoReq]
    /\ UNCHANGED <<server, env, overlap>>

\* Mutant: a refused refresh leaves the tokens where they are.
RefusalArrivesKept(t) ==
    /\ Answered(t)
    /\ req[t].token = None
    /\ req' = [req EXCEPT ![t] = NoReq]
    /\ GoesIdle(t)
    /\ UNCHANGED <<server, stored, env, overlap>>

RefusalArrives(t) ==
    /\ Answered(t)
    /\ req[t].token = None
    /\ IF tab[t].wait = "login" /\ Store(t).refresh # None
       THEN /\ tab' = [tab EXCEPT ![t].wait = "refresh"]
            /\ req' = [req EXCEPT ![t] = [NoReq EXCEPT !.step = "sent", !.kind = "refresh",
                                                       !.token = Store(t).refresh]]
            /\ UNCHANGED stored
       ELSE /\ req' = [req EXCEPT ![t] = NoReq]
            /\ IF tab[t].wait = "refresh" THEN SetTokens(t, Empty, "idle")
               ELSE GoesIdle(t) /\ UNCHANGED stored
    /\ UNCHANGED <<server, env, overlap>>

\* Any error of the server but 401: a refresh clears the storage, a login
\* shows the error.
ErrorArrives(t) ==
    /\ req[t].step = "failed"
    /\ tab[t].wait \in {"login", "refresh"}
    /\ req' = [req EXCEPT ![t] = NoReq]
    /\ IF tab[t].wait = "refresh" THEN SetTokens(t, Empty, "idle")
       ELSE GoesIdle(t) /\ UNCHANGED stored
    /\ UNCHANGED <<server, env, overlap>>

\* No answer within 15 s, or 10 s for a refresh, which clears the storage;
\* the server may act on the request all the same.
GivesUp(t) ==
    /\ tab[t].wait \in {"login", "refresh"}
    /\ losses > 0
    /\ losses' = losses - 1
    /\ IF tab[t].wait = "refresh" THEN SetTokens(t, Empty, "idle")
       ELSE GoesIdle(t) /\ UNCHANGED stored
    /\ UNCHANGED <<server, req, now, expired, launches, overlap>>

\* The page is loaded again: the state is filled from the storage.
Reload(t) ==
    /\ tab[t].wait = "idle"
    /\ tab[t].token # Store(t).access
    /\ tab' = [tab EXCEPT ![t].token = Store(t).access]
    /\ UNCHANGED <<server, stored, req, env, overlap>>

\* Telegram launches the application anew: initData not seen before.
Launch(t) ==
    /\ launches > 0
    /\ launches' = launches - 1
    /\ tab[t].wait = "idle"
    /\ tab' = [tab EXCEPT ![t].token = Store(t).access, ![t].fresh = TRUE]
    /\ UNCHANGED <<server, stored, req, now, expired, losses, overlap>>

-----------------------------------------------------------------------------
(* The API.                                                                *)

\* validate_init_data: within its lifetime, once signed; _check_initdata_replay:
\* not seen before.
Accepted(t) == tab[t].fresh

\* auth_via_telegram: the initData is used up (SET NX) before the user's row is
\* read, or created ...
LoginChecked(t) ==
    /\ req[t].step = "sent"
    /\ req[t].kind = "login"
    /\ IF Accepted(t)
       THEN /\ tab' = [tab EXCEPT ![t].fresh = FALSE]
            /\ req' = [req EXCEPT ![t].step = "match", ![t].seen = hash]
       ELSE Answer(t, None) /\ UNCHANGED tab
    /\ UNCHANGED <<server, stored, env, overlap>>

\* The tokens are issued; the row gets the hash of the refresh token, unless it
\* has it already.
Issue(t) ==
    /\ hash' = IF now = req[t].seen THEN hash ELSE now
    /\ Answer(t, now)

\* ... and the tokens are issued, whether the user is active or not.
LoginIssues(t) ==
    /\ req[t].step = "match"
    /\ req[t].kind = "login"
    /\ Issue(t)
    /\ UNCHANGED <<active, stored, tab, env, overlap>>

\* Redis is down (503: nothing is accepted unchecked), or the database is (500).
RequestFails(t) ==
    /\ req[t].step \in {"sent", "match", "mismatch"}
    /\ losses > 0
    /\ losses' = losses - 1
    /\ req' = [req EXCEPT ![t] = [NoReq EXCEPT !.step = "failed"]]
    /\ UNCHANGED <<server, stored, tab, now, expired, launches, overlap>>

\* refresh_access_token reads the row ...
RefreshReads(t) ==
    /\ req[t].step = "sent"
    /\ req[t].kind = "refresh"
    /\ IF active
       THEN req' = [req EXCEPT ![t].step = IF hash = req[t].token THEN "match" ELSE "mismatch",
                               ![t].seen = hash, ![t].token = None]
       ELSE Answer(t, None)
    /\ UNCHANGED <<server, stored, tab, env, overlap>>

\* Mutant: the new refresh token is issued but not remembered.
RefreshRotatesNot(t) ==
    /\ req[t].step = "match"
    /\ req[t].kind = "refresh"
    /\ Answer(t, now)
    /\ UNCHANGED <<server, stored, tab, env, overlap>>

\* Mutant: the token is created once for the row and once for the answer.
RefreshRotatesTwice(t) ==
    /\ req[t].step = "match"
    /\ req[t].kind = "refresh"
    /\ hash' = now + 1
    /\ Answer(t, now)
    /\ UNCHANGED <<active, stored, tab, env, overlap>>

\* ... and issues new tokens ...
RefreshRotates(t) ==
    /\ req[t].step = "match"
    /\ req[t].kind = "refresh"
    /\ Issue(t)
    /\ UNCHANGED <<active, stored, tab, env, overlap>>

\* ... or withdraws every refresh token.
RefreshWithdraws(t) ==
    /\ req[t].step = "mismatch"
    /\ hash' = IF req[t].seen = None THEN hash ELSE None
    /\ Answer(t, None)
    /\ UNCHANGED <<active, stored, tab, env, overlap>>

\* Nobody waits for the answer any more.
AnswerDropped(t) ==
    /\ req[t].step \in {"answered", "failed"}
    /\ tab[t].wait \notin {"login", "refresh"}
    /\ req' = [req EXCEPT ![t] = NoReq]
    /\ UNCHANGED <<server, stored, tab, env, overlap>>

\* An administrator blocks the user, or lets them in again.
SetActive ==
    /\ active' = ~active
    /\ UNCHANGED <<hash, stored, tab, req, env, overlap>>

-----------------------------------------------------------------------------
Tick ==
    /\ now < Seconds
    /\ now' = now + 1
    /\ UNCHANGED <<server, stored, tab, req, expired, launches, losses, overlap>>

\* Access tokens live 15 minutes: never does one expire in the second it was
\* issued in.
Expire ==
    /\ expired < now - 1
    /\ expired' \in (expired + 1)..(now - 1)
    /\ UNCHANGED <<server, stored, tab, req, now, launches, losses, overlap>>

\* An initData is too old after telegram_auth_ttl_seconds, used or not.
InitDataAges(t) ==
    /\ tab[t].fresh
    /\ tab' = [tab EXCEPT ![t].fresh = FALSE]
    /\ UNCHANGED <<server, stored, req, env, overlap>>

\* What a window does about the request it has made.
WindowGoesOn(t) ==
    \/ CallEnds(t) \/ CallRefused(t) \/ TokensArrive(t) \/ RefusalArrives(t)
    \/ ErrorArrives(t)

ServerGoesOn(t) ==
    \/ LoginChecked(t) \/ LoginIssues(t) \/ RefreshReads(t) \/ RefreshRotates(t) \/ RefreshWithdraws(t)
    \/ AnswerDropped(t)

Next ==
    \/ \E t \in Tabs :
          \/ CallStarts(t) \/ LoginStarts(t) \/ GivesUp(t) \/ Reload(t) \/ Launch(t)
          \/ RequestFails(t) \/ InitDataAges(t) \/ WindowGoesOn(t) \/ ServerGoesOn(t)
    \/ SetActive \/ Tick \/ Expire

Spec == Init /\ [][Next]_vars

\* Requests are served and answered, and pages make requests (polling).
FairSpec ==
    /\ Spec
    /\ \A t \in Tabs : /\ WF_vars(WindowGoesOn(t))
                       /\ WF_vars(ServerGoesOn(t))
                       /\ WF_vars(CallStarts(t))

-----------------------------------------------------------------------------
(* Properties.                                                             *)

\* Every variable keeps its shape.
TypeOK ==
    /\ hash \in Maybe
    /\ active \in BOOLEAN
    /\ stored \in [Devices -> [access : Maybe, refresh : Maybe]]
    /\ tab \in [Tabs -> [token : Maybe, wait : Waits, fresh : BOOLEAN]]
    /\ req \in [Tabs -> [step : {"none", "sent", "match", "mismatch", "answered", "failed"},
                         kind : {None, "login", "refresh"}, seen : Maybe, token : Maybe]]
    /\ now \in Tokens
    /\ expired \in 0..Seconds
    /\ launches \in 0..Launches
    /\ losses \in 0..Losses
    /\ overlap \in BOOLEAN

\* The rotation never costs a user the session by itself: as long as every
\* answer arrives and no two requests for tokens have overlapped, a refresh
\* token that a device stores is the one the server would accept, unless the
\* last login was on another device.
StoredIsCurrent ==
    /\ losses = Losses
    /\ ~overlap
    /\ Cardinality(Devices) = 1
    /\ \A t \in Tabs : req[t] = NoReq
    =>
    \A d \in Devices : stored[d].refresh # None => stored[d].refresh = hash

\* A window with an access token that has expired gets a new one or drops it,
\* if its device stores a refresh token, accepted or not, when it asks.
RenewedOrOut ==
    \A t \in Tabs :
        (tab[t].token # None /\ ~Valid(tab[t].token))
            ~> (tab[t].token = None \/ Valid(tab[t].token) \/ Store(t).refresh = None)

\* A request is refreshed and retried at most once: every request comes back
\* to the page, even if its new token is never accepted.
CallsEnd == \A t \in Tabs : (tab[t].wait # "idle") ~> (tab[t].wait = "idle")
=============================================================================
