------------------------- MODULE ClientSessionProofs -------------------------
(***************************************************************************)
(* What the tokens of a user's session keep, for any number of devices,    *)
(* windows and seconds: their types, and that the rotation of the refresh  *)
(* token leaves the device with the one the server accepts.                *)
(***************************************************************************)
EXTENDS ClientSession, FiniteSetTheorems, TLAPS

Entries == [access : Maybe, refresh : Maybe]

TabStates == [token : Maybe, wait : Waits, fresh : BOOLEAN]

Requests == [step : {"none", "sent", "match", "mismatch", "answered", "failed"},
             kind : {None, "login", "refresh"}, seen : Maybe, token : Maybe]

Types ==
    /\ hash \in Maybe
    /\ active \in BOOLEAN
    /\ stored \in [Devices -> Entries]
    /\ tab \in [Tabs -> TabStates]
    /\ req \in [Tabs -> Requests]
    /\ now \in Tokens
    /\ expired \in 0..Seconds
    /\ launches \in 0..Launches
    /\ losses \in 0..Losses
    /\ overlap \in BOOLEAN

\* Nothing has been lost and no two requests have overlapped, on one device.
Calm == losses = Losses /\ ~overlap /\ Cardinality(Devices) = 1

\* The storage holds no refresh token but the one with the hash h.
StoreGood(h, s) == \A d \in Devices : s[d].refresh # None => s[d].refresh = h

\* The one request under way: what it carries, or will answer, is current.
ReqGood(q, h, s) ==
    /\ q.step \in {"sent", "match", "answered"}
    /\ q.step \in {"sent", "match"} => StoreGood(h, s)
    /\ q.step = "sent" /\ q.kind = "refresh" => q.token = h
    /\ q.step = "match" => q.seen = h
    /\ q.step = "answered" => IF q.token = None THEN StoreGood(h, s) ELSE q.token = h

OnTheWay(t) == tab[t].wait \in {"login", "refresh"}

Current ==
    /\ \A t, u \in Tabs : req[t] # NoReq /\ req[u] # NoReq => t = u
    /\ \A t \in Tabs : OnTheWay(t) <=> req[t] # NoReq
    /\ \A t \in Tabs : req[t] # NoReq => ReqGood(req[t], hash, stored)
    /\ (\A t \in Tabs : req[t] = NoReq) => StoreGood(hash, stored)

IInv == Types /\ (Calm => Current)

-----------------------------------------------------------------------------
(* Data.                                                                   *)

LEMMA NoReqTyped == NoReq \in Requests /\ NoReq.step = "none" /\ Empty \in Entries /\ Empty.refresh = None
BY DEF NoReq, Requests, Empty, Entries, Maybe

LEMMA TabsTyped == \A t \in Tabs : t[1] \in Devices
BY DEF Tabs

LEMMA OneDevice ==
    ASSUME Calm
    PROVE  \A d, e \in Devices : d = e
<1>1. PICK x : Devices = {x}
    BY SessionAssumption, FS_Singleton DEF Calm
<1>. QED  BY <1>1

\* Calm was calm before.
LEMMA CalmBefore ==
    ASSUME Calm', losses' <= losses, losses \in 0..Losses, overlap => overlap'
    PROVE  Calm
<1>1. losses = Losses
    BY SessionAssumption DEF Calm
<1>. QED  BY <1>1 DEF Calm

-----------------------------------------------------------------------------
(* Steps of one kind.                                                      *)

\* Neither requests nor tokens change, and no window begins or ends to wait.
LEMMA Quiet ==
    ASSUME Current, UNCHANGED <<hash, stored, req>>,
           \A u \in Tabs : tab'[u].wait \in {"login", "refresh"} <=> OnTheWay(u)
    PROVE  Current'
BY DEF Current, OnTheWay

\* The request of t, the only one, becomes q.
LEMMA OneGoes ==
    ASSUME Types, NEW t \in Tabs, NEW q \in Requests, req' = [req EXCEPT ![t] = q],
           \A u \in Tabs : u # t => req[u] = NoReq /\ ~OnTheWay(u) /\ tab'[u].wait = tab[u].wait,
           tab'[t].wait \in {"login", "refresh"} <=> q # NoReq,
           q # NoReq => ReqGood(q, hash', stored'),
           q = NoReq => StoreGood(hash', stored')
    PROVE  Current'
<1>1. \A u \in Tabs : req'[u] = IF u = t THEN q ELSE NoReq
    BY DEF Types
<1>2. \A u \in Tabs : OnTheWay(u)' <=> u = t /\ q # NoReq
    BY DEF OnTheWay
<1>. QED  BY <1>1, <1>2 DEF Current

LEMMA OthersIdle ==
    ASSUME Current, NEW t \in Tabs, req[t] # NoReq
    PROVE  \A u \in Tabs : u # t => req[u] = NoReq /\ ~OnTheWay(u)
BY DEF Current

LEMMA NobodyBusy ==
    ASSUME Current, \A u \in Tabs : req[u] = NoReq
    PROVE  (\A u \in Tabs : ~OnTheWay(u)) /\ StoreGood(hash, stored)
BY DEF Current

\* A record of a request.
LEMMA AnswerTyped ==
    ASSUME NEW token \in Maybe, NEW q, q = [NoReq EXCEPT !.step = "answered", !.token = token]
    PROVE  q \in Requests /\ q.step = "answered" /\ q.token = token /\ q # NoReq
BY DEF NoReq, Requests, Maybe

LEMMA SentTyped ==
    ASSUME NEW token \in Maybe, NEW kind \in {"login", "refresh"}, NEW q,
           q = [step |-> "sent", kind |-> kind, seen |-> None, token |-> token]
    PROVE  /\ q \in Requests /\ q.step = "sent" /\ q.kind = kind /\ q.token = token
           /\ q # NoReq
BY DEF NoReq, Requests, Maybe

\* A window's state.
LEMMA TabUpdate ==
    ASSUME Types, NEW t \in Tabs, NEW x \in TabStates, tab' = [tab EXCEPT ![t] = x]
    PROVE  /\ tab' \in [Tabs -> TabStates]
           /\ \A u \in Tabs : tab'[u] = IF u = t THEN x ELSE tab[u]
BY DEF Types

LEMMA WaitUpdate ==
    ASSUME Types, NEW t \in Tabs, NEW w \in Waits, tab' = [tab EXCEPT ![t].wait = w]
    PROVE  /\ tab' \in [Tabs -> TabStates]
           /\ \A u \in Tabs : tab'[u].wait = IF u = t THEN w ELSE tab[u].wait
<1>1. PICK x : x = [tab[t] EXCEPT !.wait = w]
    OBVIOUS
<1>2. tab[t] \in TabStates
    BY DEF Types
<1>3. x \in TabStates /\ x.wait = w
    BY <1>1, <1>2 DEF TabStates
<1>4. tab' = [tab EXCEPT ![t] = x]
    BY <1>1 DEF Types
<1>. QED  BY <1>3, <1>4, TabUpdate

LEMMA SetTokensTyped ==
    ASSUME Types, NEW t \in Tabs, NEW tokens \in Entries, NEW w \in Waits, SetTokens(t, tokens, w)
    PROVE  /\ tab' \in [Tabs -> TabStates] /\ stored' \in [Devices -> Entries]
           /\ \A u \in Tabs : tab'[u].wait = IF u = t THEN w ELSE tab[u].wait
           /\ stored'[t[1]] = tokens
<1>1. PICK x : x = [tab[t] EXCEPT !.token = tokens.access, !.wait = w]
    OBVIOUS
<1>2. tab[t] \in TabStates /\ tokens.access \in Maybe
    BY DEF Types, Entries
<1>3. x \in TabStates /\ x.wait = w
    BY <1>1, <1>2 DEF TabStates
<1>4. tab' = [tab EXCEPT ![t] = x] /\ stored' = [stored EXCEPT ![t[1]] = tokens]
    BY <1>1 DEF Types, SetTokens
<1>5. stored' \in [Devices -> Entries] /\ stored'[t[1]] = tokens
    BY <1>4, TabsTyped DEF Types
<1>. QED  BY <1>3, <1>4, <1>5, TabUpdate

-----------------------------------------------------------------------------
(* The windows.                                                            *)

LEMMA CallsInv ==
    ASSUME IInv, NEW t \in Tabs, CallStarts(t) \/ CallEnds(t)
    PROVE  IInv'
<1>1. PICK w \in {"idle", "call"} : tab' = [tab EXCEPT ![t].wait = w]
    BY DEF CallStarts, CallEnds, GoesIdle
<1>2. UNCHANGED <<server, stored, req, env, overlap>> /\ ~OnTheWay(t)
    BY DEF CallStarts, CallEnds, OnTheWay
<1>3. /\ tab' \in [Tabs -> TabStates]
      /\ \A u \in Tabs : tab'[u].wait = IF u = t THEN w ELSE tab[u].wait
    BY <1>1, WaitUpdate DEF IInv, Waits
<1>4. Types'
    BY <1>2, <1>3 DEF IInv, Types, server, env
<1>5. Calm' => Current'
    BY <1>2, <1>3, Quiet DEF IInv, Calm, server, env, OnTheWay
<1>. QED  BY <1>4, <1>5 DEF IInv

\* A request sent while nobody else waits for tokens.
LEMMA SendInv ==
    ASSUME IInv, NEW t \in Tabs, NEW kind \in {"login", "refresh"}, NEW token \in Maybe,
           Send(t, kind, token), tab' = [tab EXCEPT ![t].wait = kind],
           UNCHANGED <<server, stored, env>>,
           kind = "refresh" => token = stored[t[1]].refresh /\ token # None
    PROVE  IInv'
<1>1. /\ tab' \in [Tabs -> TabStates]
      /\ \A u \in Tabs : tab'[u].wait = IF u = t THEN kind ELSE tab[u].wait
    <2>1. kind \in Waits
        BY DEF Waits
    <2>2. Types
        BY DEF IInv
    <2>. QED  BY <2>1, <2>2, WaitUpdate
<1>2. PICK q : q = [step |-> "sent", kind |-> kind, seen |-> None, token |-> token]
    OBVIOUS
<1>3. /\ q \in Requests /\ q.step = "sent" /\ q.kind = kind /\ q.token = token
      /\ q # NoReq
    BY <1>2, SentTyped
<1>4. req' = [req EXCEPT ![t] = q] /\ overlap' = (overlap \/ \E u \in Tabs : req[u] # NoReq)
    BY <1>2 DEF Send
<1>5. overlap' \in BOOLEAN
    <2>1. overlap \in BOOLEAN
        BY DEF IInv, Types
    <2>2. (\E u \in Tabs : req[u] # NoReq) \in BOOLEAN
        OBVIOUS
    <2>. QED  BY <1>4, <2>1, <2>2
<1>6. req' \in [Tabs -> Requests]
    BY <1>3, <1>4 DEF IInv, Types
<1>7. Types'
    BY <1>1, <1>5, <1>6 DEF IInv, Types, server, env
<1>8. ASSUME Calm'
      PROVE  Current'
    <2>1. Calm /\ \A u \in Tabs : req[u] = NoReq
        BY <1>4, <1>8 DEF Calm, env
    <2>2. (\A u \in Tabs : ~OnTheWay(u)) /\ StoreGood(hash, stored)
        BY <2>1, NobodyBusy DEF IInv
    <2>3. hash' = hash /\ stored' = stored
        BY DEF server
    <2>4. kind = "refresh" => token = hash
        BY <2>2, TabsTyped DEF StoreGood
    <2>5. ReqGood(q, hash', stored')
        BY <1>3, <2>2, <2>3, <2>4 DEF ReqGood
    <2>. QED  BY <1>1, <1>3, <1>4, <2>1, <2>2, <2>5, OneGoes DEF IInv
<1>. QED  BY <1>7, <1>8 DEF IInv

LEMMA CallRefusedInv ==
    ASSUME IInv, NEW t \in Tabs, CallRefused(t)
    PROVE  IInv'
<1>1. CASE Store(t).refresh = None
    <2>1. /\ tab' = [tab EXCEPT ![t].wait = "idle"] /\ UNCHANGED <<server, stored, req, env, overlap>>
          /\ ~OnTheWay(t)
        BY <1>1 DEF CallRefused, Renews, GoesIdle, OnTheWay
    <2>2. /\ tab' \in [Tabs -> TabStates]
          /\ \A u \in Tabs : tab'[u].wait = IF u = t THEN "idle" ELSE tab[u].wait
        BY <2>1, WaitUpdate DEF IInv, Waits
    <2>3. Types'
        BY <2>1, <2>2 DEF IInv, Types, server, env
    <2>4. Calm' => Current'
        BY <2>1, <2>2, Quiet DEF IInv, Calm, server, env, OnTheWay
    <2>. QED  BY <2>3, <2>4 DEF IInv
<1>2. CASE Store(t).refresh # None
    <2>1. /\ tab' = [tab EXCEPT ![t].wait = "refresh"] /\ Send(t, "refresh", stored[t[1]].refresh)
          /\ UNCHANGED <<server, stored, env>> /\ stored[t[1]].refresh # None
        BY <1>2 DEF CallRefused, Renews, Store
    <2>2. stored[t[1]].refresh \in Maybe
        BY TabsTyped DEF IInv, Types, Entries
    <2>. QED  BY <2>1, <2>2, SendInv
<1>. QED  BY <1>1, <1>2

LEMMA LoginStartsInv ==
    ASSUME IInv, NEW t \in Tabs, LoginStarts(t)
    PROVE  IInv'
<1>1. None \in Maybe
    BY DEF Maybe
<1>2. /\ Send(t, "login", None) /\ tab' = [tab EXCEPT ![t].wait = "login"]
      /\ UNCHANGED <<server, stored, env>>
    BY DEF LoginStarts
<1>. QED  BY <1>1, <1>2, SendInv

LEMMA TokensArriveInv ==
    ASSUME IInv, NEW t \in Tabs, TokensArrive(t)
    PROVE  IInv'
<1>1. PICK e, w : /\ e = [access |-> req[t].token, refresh |-> req[t].token]
                  /\ w = IF tab[t].wait = "login" THEN "idle" ELSE "retry"
    OBVIOUS
<1>2. /\ SetTokens(t, e, w) /\ req' = [req EXCEPT ![t] = NoReq] /\ UNCHANGED <<server, env, overlap>>
      /\ req[t].step = "answered" /\ req[t].token # None
    BY <1>1 DEF TokensArrive, Answered
<1>3. e \in Entries /\ e.refresh = req[t].token /\ w \in Waits /\ w \notin {"login", "refresh"}
    BY <1>1 DEF IInv, Types, Requests, Entries, Waits
<1>4. /\ tab' \in [Tabs -> TabStates] /\ stored' \in [Devices -> Entries]
      /\ \A u \in Tabs : tab'[u].wait = IF u = t THEN w ELSE tab[u].wait
      /\ stored'[t[1]] = e
    BY <1>2, <1>3, SetTokensTyped DEF IInv
<1>5. Types'
    BY <1>2, <1>4, NoReqTyped DEF IInv, Types, server, env
<1>6. ASSUME Calm'
      PROVE  Current'
    <2>1. Calm /\ hash' = hash
        BY <1>2, <1>6 DEF Calm, env, server
    <2>2. req[t] # NoReq
        BY <1>2, NoReqTyped
    <2>3. \A u \in Tabs : u # t => req[u] = NoReq /\ ~OnTheWay(u)
        BY <2>1, <2>2, OthersIdle DEF IInv
    <2>4. req[t].token = hash
        BY <1>2, <2>1, <2>2 DEF IInv, Current, ReqGood
    <2>5. StoreGood(hash', stored')
        BY <1>3, <1>4, <2>1, <2>4, OneDevice, TabsTyped DEF StoreGood
    <2>. QED  BY <1>2, <1>3, <1>4, <2>3, <2>5, NoReqTyped, OneGoes DEF IInv
<1>. QED  BY <1>5, <1>6 DEF IInv

\* A window gives up its tokens, or only its wait, and the request of it ends.
LEMMA GivesInInv ==
    ASSUME IInv, NEW t \in Tabs, req[t] # NoReq, req' = [req EXCEPT ![t] = NoReq],
           UNCHANGED <<server, env, overlap>>,
           \/ SetTokens(t, Empty, "idle")
           \/ GoesIdle(t) /\ UNCHANGED stored /\ (Calm => StoreGood(hash, stored))
    PROVE  IInv'
<1>1. /\ tab' \in [Tabs -> TabStates] /\ stored' \in [Devices -> Entries]
      /\ \A u \in Tabs : tab'[u].wait = IF u = t THEN "idle" ELSE tab[u].wait
    <2>1. CASE SetTokens(t, Empty, "idle")
        BY <2>1, SetTokensTyped, NoReqTyped DEF IInv, Waits
    <2>2. CASE GoesIdle(t) /\ UNCHANGED stored
        BY <2>2, WaitUpdate DEF IInv, Types, Waits, GoesIdle
    <2>. QED  BY <2>1, <2>2
<1>2. Types'
    BY <1>1, NoReqTyped DEF IInv, Types, server, env
<1>3. ASSUME Calm'
      PROVE  Current'
    <2>1. Calm /\ hash' = hash
        BY <1>3 DEF Calm, env, server
    <2>2. \A u \in Tabs : u # t => req[u] = NoReq /\ ~OnTheWay(u)
        BY <2>1, OthersIdle DEF IInv
    <2>3. StoreGood(hash', stored')
        <3>1. CASE SetTokens(t, Empty, "idle")
            <4>1. stored'[t[1]] = Empty
                BY <3>1, TabsTyped DEF SetTokens, IInv, Types
            <4>. QED  BY <2>1, <4>1, OneDevice, TabsTyped, NoReqTyped DEF StoreGood
        <3>2. CASE GoesIdle(t) /\ UNCHANGED stored /\ (Calm => StoreGood(hash, stored))
            BY <2>1, <3>2
        <3>. QED  BY <3>1, <3>2
    <2>. QED  BY <1>1, <2>2, <2>3, NoReqTyped, OneGoes DEF IInv
<1>. QED  BY <1>2, <1>3 DEF IInv

LEMMA RefusalArrivesInv ==
    ASSUME IInv, NEW t \in Tabs, RefusalArrives(t)
    PROVE  IInv'
<1>1. /\ req[t].step = "answered" /\ req[t].token = None /\ OnTheWay(t) /\ req[t] # NoReq
      /\ UNCHANGED <<server, env, overlap>>
    BY NoReqTyped DEF RefusalArrives, Answered, OnTheWay
<1>2. Calm => StoreGood(hash, stored)
    BY <1>1 DEF IInv, Current, ReqGood
<1>3. CASE tab[t].wait = "login" /\ Store(t).refresh # None
    <2>1. PICK q : q = [step |-> "sent", kind |-> "refresh", seen |-> None,
                        token |-> stored[t[1]].refresh]
        OBVIOUS
    <2>2. /\ tab' = [tab EXCEPT ![t].wait = "refresh"] /\ req' = [req EXCEPT ![t] = q]
          /\ stored' = stored /\ stored[t[1]].refresh # None
        BY <1>3, <2>1 DEF RefusalArrives, Store, NoReq
    <2>3. stored[t[1]].refresh \in Maybe
        BY TabsTyped DEF IInv, Types, Entries
    <2>4. /\ q \in Requests /\ q.step = "sent" /\ q.kind = "refresh"
          /\ q.token = stored[t[1]].refresh /\ q # NoReq
        BY <2>1, <2>3, SentTyped
    <2>5. /\ tab' \in [Tabs -> TabStates]
          /\ \A u \in Tabs : tab'[u].wait = IF u = t THEN "refresh" ELSE tab[u].wait
        BY <2>2, WaitUpdate DEF IInv, Waits
    <2>6. Types'
        BY <1>1, <2>2, <2>4, <2>5 DEF IInv, Types, server, env
    <2>7. ASSUME Calm'
          PROVE  Current'
        <3>1. Calm /\ hash' = hash
            BY <1>1, <2>7 DEF Calm, env, server
        <3>2. \A u \in Tabs : u # t => req[u] = NoReq /\ ~OnTheWay(u)
            BY <1>1, <3>1, OthersIdle DEF IInv
        <3>3. ReqGood(q, hash', stored')
            BY <1>2, <2>2, <2>4, <3>1, TabsTyped DEF ReqGood, StoreGood
        <3>. QED  BY <2>2, <2>4, <2>5, <3>2, <3>3, OneGoes DEF IInv
    <2>. QED  BY <2>6, <2>7 DEF IInv
<1>4. CASE ~(tab[t].wait = "login" /\ Store(t).refresh # None)
    <2>1. req' = [req EXCEPT ![t] = NoReq]
        BY <1>4 DEF RefusalArrives
    <2>2. SetTokens(t, Empty, "idle") \/ (GoesIdle(t) /\ UNCHANGED stored)
        BY <1>4 DEF RefusalArrives
    <2>. QED  BY <1>1, <1>2, <2>1, <2>2, GivesInInv
<1>. QED  BY <1>3, <1>4

LEMMA ErrorArrivesInv ==
    ASSUME IInv, NEW t \in Tabs, ErrorArrives(t)
    PROVE  IInv'
<1>1. /\ req[t].step = "failed" /\ req[t] # NoReq /\ req' = [req EXCEPT ![t] = NoReq]
      /\ UNCHANGED <<server, env, overlap>>
      /\ SetTokens(t, Empty, "idle") \/ (GoesIdle(t) /\ UNCHANGED stored)
    BY NoReqTyped DEF ErrorArrives
<1>2. ~Calm
    BY <1>1 DEF IInv, Current, ReqGood
<1>. QED  BY <1>1, <1>2, GivesInInv

\* Something is lost: the session is not calm any more.
LEMMA LossInv ==
    ASSUME IInv, NEW t \in Tabs, GivesUp(t) \/ RequestFails(t)
    PROVE  IInv'
<1>1. /\ losses > 0 /\ losses' = losses - 1 /\ UNCHANGED <<server, now, expired, launches, overlap>>
    BY DEF GivesUp, RequestFails
<1>2. losses \in 0..Losses /\ losses' \in 0..Losses /\ losses' # Losses
    BY <1>1, SessionAssumption DEF IInv, Types
<1>3. CASE GivesUp(t)
    <2>1. /\ SetTokens(t, Empty, "idle") \/ (GoesIdle(t) /\ UNCHANGED stored)
          /\ UNCHANGED req
        BY <1>3 DEF GivesUp
    <2>2. tab' \in [Tabs -> TabStates] /\ stored' \in [Devices -> Entries]
        <3>1. CASE SetTokens(t, Empty, "idle")
            BY <3>1, SetTokensTyped, NoReqTyped DEF IInv, Waits
        <3>2. CASE GoesIdle(t) /\ UNCHANGED stored
            BY <3>2, WaitUpdate DEF IInv, Types, Waits, GoesIdle
        <3>. QED  BY <2>1, <3>1, <3>2
    <2>. QED  BY <1>1, <1>2, <2>1, <2>2 DEF IInv, Types, Calm, server
<1>4. CASE RequestFails(t)
    <2>1. PICK q : q = [NoReq EXCEPT !.step = "failed"]
        OBVIOUS
    <2>2. q \in Requests
        BY <2>1 DEF NoReq, Requests, Maybe
    <2>3. req' = [req EXCEPT ![t] = q] /\ UNCHANGED <<stored, tab>>
        BY <1>4, <2>1 DEF RequestFails
    <2>4. req' \in [Tabs -> Requests]
        BY <2>2, <2>3 DEF IInv, Types
    <2>. QED  BY <1>1, <1>2, <2>3, <2>4 DEF IInv, Types, Calm, server
<1>. QED  BY <1>3, <1>4

\* The state of a window changes, not what it waits for.
LEMMA WindowInv ==
    ASSUME IInv, NEW t \in Tabs, Reload(t) \/ Launch(t) \/ InitDataAges(t)
    PROVE  IInv'
<1>1. PICK token \in Maybe, fresh \in BOOLEAN :
          tab' = [tab EXCEPT ![t] = [tab[t] EXCEPT !.token = token, !.fresh = fresh]]
    <2>1. tab[t] \in TabStates /\ tab \in [Tabs -> TabStates]
        BY DEF IInv, Types
    <2>2. stored[t[1]].access \in Maybe /\ tab[t].token \in Maybe /\ tab[t].fresh \in BOOLEAN
        BY <2>1, TabsTyped DEF IInv, Types, Entries, TabStates
    <2>3. CASE Reload(t)
        <3>1. tab' = [tab EXCEPT ![t] = [tab[t] EXCEPT !.token = stored[t[1]].access,
                                                       !.fresh = tab[t].fresh]]
            BY <2>1, <2>3 DEF Reload, Store, TabStates
        <3>. QED  BY <2>2, <3>1
    <2>4. CASE Launch(t)
        <3>1. tab' = [tab EXCEPT ![t] = [tab[t] EXCEPT !.token = stored[t[1]].access,
                                                       !.fresh = TRUE]]
            BY <2>1, <2>4 DEF Launch, Store
        <3>. QED  BY <2>2, <3>1
    <2>5. CASE InitDataAges(t)
        <3>1. tab' = [tab EXCEPT ![t] = [tab[t] EXCEPT !.token = tab[t].token, !.fresh = FALSE]]
            BY <2>1, <2>5 DEF InitDataAges, TabStates
        <3>. QED  BY <2>2, <3>1
    <2>. QED  BY <2>3, <2>4, <2>5
<1>2. PICK x : x = [tab[t] EXCEPT !.token = token, !.fresh = fresh]
    OBVIOUS
<1>3. x \in TabStates /\ x.wait = tab[t].wait
    BY <1>2 DEF IInv, Types, TabStates
<1>4. tab' \in [Tabs -> TabStates] /\ \A u \in Tabs : tab'[u].wait = tab[u].wait
    BY <1>1, <1>2, <1>3, TabUpdate DEF IInv
<1>5. UNCHANGED <<server, stored, req, now, expired, losses, overlap>> /\ launches' \in 0..Launches
    BY SessionAssumption DEF Reload, Launch, InitDataAges, env, IInv, Types
<1>6. Types'
    BY <1>4, <1>5 DEF IInv, Types, server
<1>7. Calm' => Current'
    BY <1>4, <1>5, Quiet DEF IInv, Calm, server, OnTheWay
<1>. QED  BY <1>6, <1>7 DEF IInv

-----------------------------------------------------------------------------
(* The API.                                                                *)

\* A request of t that is under way becomes q.
LEMMA ServerGoes ==
    ASSUME IInv, NEW t \in Tabs, NEW q \in Requests, req' = [req EXCEPT ![t] = q],
           req[t] # NoReq, q # NoReq, UNCHANGED <<stored, env, overlap, active>>,
           tab' \in [Tabs -> TabStates], \A u \in Tabs : tab'[u].wait = tab[u].wait,
           hash' \in Maybe, Calm /\ Current => ReqGood(q, hash', stored)
    PROVE  IInv'
<1>1. Types'
    BY DEF IInv, Types, env
<1>2. ASSUME Calm'
      PROVE  Current'
    <2>1. Calm /\ Current
        BY <1>2 DEF Calm, env, IInv
    <2>2. \A u \in Tabs : u # t => req[u] = NoReq /\ ~OnTheWay(u)
        BY <2>1, OthersIdle
    <2>3. tab'[t].wait \in {"login", "refresh"}
        BY <2>1 DEF Current, OnTheWay
    <2>4. ReqGood(q, hash', stored')
        BY <2>1
    <2>. QED  BY <2>2, <2>3, <2>4, OneGoes DEF IInv
<1>. QED  BY <1>1, <1>2 DEF IInv

\* The answer carries a token or not.
LEMMA AnswerInv ==
    ASSUME IInv, NEW t \in Tabs, NEW token \in Maybe, Answer(t, token), req[t] # NoReq,
           UNCHANGED <<active, stored, tab, env, overlap>>, hash' \in Maybe,
           Calm /\ Current => IF token = None THEN StoreGood(hash', stored) ELSE token = hash'
    PROVE  IInv'
<1>1. PICK q : q = [NoReq EXCEPT !.step = "answered", !.token = token]
    OBVIOUS
<1>2. q \in Requests /\ q.step = "answered" /\ q.token = token /\ q # NoReq
    BY <1>1, AnswerTyped
<1>3. req' = [req EXCEPT ![t] = q]
    BY <1>1 DEF Answer
<1>4. Calm /\ Current => ReqGood(q, hash', stored)
    BY <1>2 DEF ReqGood
<1>. QED  BY <1>2, <1>3, <1>4, ServerGoes DEF IInv, Types

LEMMA LoginCheckedInv ==
    ASSUME IInv, NEW t \in Tabs, LoginChecked(t)
    PROVE  IInv'
<1>1. /\ req[t].step = "sent" /\ req[t] # NoReq /\ UNCHANGED <<server, stored, env, overlap>>
      /\ hash \in Maybe /\ None \in Maybe
    BY NoReqTyped DEF LoginChecked, IInv, Types, Maybe
<1>2. Calm /\ Current => StoreGood(hash, stored)
    BY <1>1 DEF Current, ReqGood
<1>3. CASE Accepted(t)
    <2>1. PICK q : q = [req[t] EXCEPT !.step = "match", !.seen = hash]
        OBVIOUS
    <2>2. req[t] \in Requests
        BY DEF IInv, Types
    <2>3. q \in Requests /\ q.step = "match" /\ q.seen = hash /\ q # NoReq
        BY <1>1, <2>1, <2>2, NoReqTyped DEF Requests
    <2>4. req' = [req EXCEPT ![t] = q]
        BY <1>3, <2>1 DEF LoginChecked, IInv, Types
    <2>5. PICK x : x = [tab[t] EXCEPT !.fresh = FALSE]
        OBVIOUS
    <2>6. x \in TabStates /\ x.wait = tab[t].wait
        BY <2>5 DEF IInv, Types, TabStates
    <2>7. tab' = [tab EXCEPT ![t] = x]
        BY <1>3, <2>5 DEF LoginChecked, IInv, Types
    <2>8. tab' \in [Tabs -> TabStates] /\ \A u \in Tabs : tab'[u].wait = tab[u].wait
        BY <2>6, <2>7, TabUpdate DEF IInv
    <2>9. Calm /\ Current => ReqGood(q, hash', stored)
        BY <1>1, <1>2, <2>3 DEF ReqGood, server
    <2>. QED  BY <1>1, <2>3, <2>4, <2>8, <2>9, ServerGoes DEF server
<1>4. CASE ~Accepted(t)
    BY <1>1, <1>2, <1>4, AnswerInv DEF LoginChecked, server
<1>. QED  BY <1>3, <1>4

\* The new refresh token is the one the row has the hash of.
LEMMA IssueInv ==
    ASSUME IInv, NEW t \in Tabs, LoginIssues(t) \/ RefreshRotates(t)
    PROVE  IInv'
<1>1. /\ req[t].step = "match" /\ req[t] # NoReq /\ Issue(t)
      /\ UNCHANGED <<active, stored, tab, env, overlap>>
    BY NoReqTyped DEF LoginIssues, RefreshRotates
<1>2. /\ Answer(t, now) /\ hash' = (IF now = req[t].seen THEN hash ELSE now)
      /\ now \in Maybe /\ hash' \in Maybe /\ now # None
    BY <1>1, SessionAssumption DEF Issue, IInv, Types, Maybe, Tokens
<1>3. Calm /\ Current => now = hash'
    BY <1>1, <1>2 DEF Current, ReqGood
<1>. QED  BY <1>1, <1>2, <1>3, AnswerInv

LEMMA RefreshReadsInv ==
    ASSUME IInv, NEW t \in Tabs, RefreshReads(t)
    PROVE  IInv'
<1>1. /\ req[t].step = "sent" /\ req[t].kind = "refresh" /\ req[t] # NoReq
      /\ UNCHANGED <<server, stored, tab, env, overlap>> /\ hash \in Maybe /\ None \in Maybe
    BY NoReqTyped DEF RefreshReads, IInv, Types, Maybe
<1>2. Calm /\ Current => StoreGood(hash, stored) /\ req[t].token = hash
    BY <1>1 DEF Current, ReqGood
<1>3. CASE active
    <2>1. PICK v, q : /\ v = IF hash = req[t].token THEN "match" ELSE "mismatch"
                      /\ q = [req[t] EXCEPT !.step = v, !.seen = hash, !.token = None]
        OBVIOUS
    <2>2. req[t] \in Requests
        BY DEF IInv, Types
    <2>3. q \in Requests /\ q.step = v /\ q.seen = hash /\ q # NoReq
        BY <1>1, <2>1, <2>2, NoReqTyped DEF Requests
    <2>4. req' = [req EXCEPT ![t] = q]
        BY <1>3, <2>1 DEF RefreshReads, IInv, Types
    <2>5. Calm /\ Current => ReqGood(q, hash', stored)
        BY <1>1, <1>2, <2>1, <2>3 DEF ReqGood, server
    <2>. QED  BY <1>1, <2>3, <2>4, <2>5, ServerGoes DEF server, IInv, Types
<1>4. CASE ~active
    BY <1>1, <1>2, <1>4, AnswerInv DEF RefreshReads, server
<1>. QED  BY <1>3, <1>4

LEMMA RefreshWithdrawsInv ==
    ASSUME IInv, NEW t \in Tabs, RefreshWithdraws(t)
    PROVE  IInv'
<1>1. /\ req[t].step = "mismatch" /\ req[t] # NoReq /\ Answer(t, None)
      /\ UNCHANGED <<active, stored, tab, env, overlap>> /\ hash' \in Maybe /\ None \in Maybe
    BY NoReqTyped DEF RefreshWithdraws, IInv, Types, Maybe
<1>2. ~(Calm /\ Current)
    BY <1>1 DEF Current, ReqGood
<1>. QED  BY <1>1, <1>2, AnswerInv

LEMMA AnswerDroppedInv ==
    ASSUME IInv, NEW t \in Tabs, AnswerDropped(t)
    PROVE  IInv'
<1>1. /\ req[t] # NoReq /\ ~OnTheWay(t) /\ req' = [req EXCEPT ![t] = NoReq]
      /\ UNCHANGED <<server, stored, tab, env, overlap>>
    BY NoReqTyped DEF AnswerDropped, OnTheWay
<1>2. Types'
    BY <1>1, NoReqTyped DEF IInv, Types, server, env
<1>3. ~Calm
    BY <1>1 DEF IInv, Current
<1>. QED  BY <1>1, <1>2, <1>3 DEF IInv, Calm, env

\* The administrator and the clock.
LEMMA OutsideInv ==
    ASSUME IInv, SetActive \/ Tick \/ Expire \/ UNCHANGED vars
    PROVE  IInv'
<1>1. UNCHANGED <<hash, stored, tab, req, launches, losses, overlap>>
    BY DEF SetActive, Tick, Expire, vars, server, env
<1>2. active' \in BOOLEAN /\ now' \in Tokens /\ expired' \in 0..Seconds
    <2>1. active \in BOOLEAN /\ now \in 1..Seconds /\ expired \in 0..Seconds /\ Seconds \in Nat
        BY SessionAssumption DEF IInv, Types, Tokens
    <2>2. CASE SetActive
        BY <2>1, <2>2 DEF SetActive, env, Tokens
    <2>3. CASE Tick
        BY <2>1, <2>3 DEF Tick, server, Tokens
    <2>4. CASE Expire
        BY <2>1, <2>4 DEF Expire, server, Tokens
    <2>5. CASE UNCHANGED vars
        BY <2>1, <2>5 DEF vars, server, env, Tokens
    <2>. QED  BY <2>2, <2>3, <2>4, <2>5
<1>3. Types'
    BY <1>1, <1>2 DEF IInv, Types
<1>4. Calm' => Current'
    BY <1>1, Quiet DEF IInv, Calm, OnTheWay
<1>. QED  BY <1>3, <1>4 DEF IInv

-----------------------------------------------------------------------------
(* The theorems.                                                           *)

LEMMA InitInv == Init => IInv
<1>. SUFFICES ASSUME Init PROVE IInv
    OBVIOUS
<1>1. None \in Maybe /\ 1 \in Tokens /\ 0 \in 0..Seconds
    BY SessionAssumption DEF Maybe, Tokens
<1>2. PICK x : x = [token |-> None, wait |-> "idle", fresh |-> TRUE]
    OBVIOUS
<1>3. x \in TabStates /\ x.wait = "idle" /\ tab = [t \in Tabs |-> x]
    BY <1>1, <1>2 DEF TabStates, Waits, Init
<1>4. Types
    <2>1. stored \in [Devices -> Entries] /\ req \in [Tabs -> Requests] /\ tab \in [Tabs -> TabStates]
        BY <1>3, NoReqTyped DEF Init
    <2>2. Launches \in 0..Launches /\ Losses \in 0..Losses
        BY SessionAssumption
    <2>. QED  BY <1>1, <2>1, <2>2 DEF Init, Types
<1>5. Current
    BY <1>3, NoReqTyped DEF Init, Current, OnTheWay, StoreGood
<1>. QED  BY <1>4, <1>5 DEF IInv

LEMMA NextInv == IInv /\ [Next]_vars => IInv'
<1>. SUFFICES ASSUME IInv, [Next]_vars PROVE IInv'
    OBVIOUS
<1>1. ASSUME NEW t \in Tabs, WindowGoesOn(t)
      PROVE  IInv'
    BY <1>1, CallsInv, CallRefusedInv, TokensArriveInv, RefusalArrivesInv, ErrorArrivesInv
    DEF WindowGoesOn
<1>2. ASSUME NEW t \in Tabs, ServerGoesOn(t)
      PROVE  IInv'
    BY <1>2, LoginCheckedInv, IssueInv, RefreshReadsInv, RefreshWithdrawsInv, AnswerDroppedInv
    DEF ServerGoesOn
<1>3. ASSUME NEW t \in Tabs,
             \/ CallStarts(t) \/ LoginStarts(t) \/ GivesUp(t) \/ Reload(t) \/ Launch(t)
             \/ RequestFails(t) \/ InitDataAges(t)
      PROVE  IInv'
    BY <1>3, CallsInv, LoginStartsInv, LossInv, WindowInv
<1>. QED  BY <1>1, <1>2, <1>3, OutsideInv DEF Next

LEMMA Invariance == Spec => []IInv
BY InitInv, NextInv, PTL DEF Spec

\* Every variable keeps its shape, whatever is lost or overlaps.
THEOREM SessionTypes == Spec => []TypeOK
<1>1. IInv => TypeOK
    BY DEF IInv, Types, TypeOK, Entries, TabStates, Requests
<1>. QED  BY <1>1, Invariance, PTL

\* Without a loss and without overlapping requests the one device of the user
\* stores no refresh token but the one the server accepts: the rotation in
\* refresh_access_token and the clearing in refreshAccessToken.
THEOREM StoredCurrent == Spec => []StoredIsCurrent
<1>1. IInv => StoredIsCurrent
    BY DEF IInv, Calm, Current, StoreGood, StoredIsCurrent
<1>. QED  BY <1>1, Invariance, PTL

-----------------------------------------------------------------------------
(* Why requests come back: somebody answers what a window waits for, and   *)
(* every step is one towards the end.                                      *)

\* What a window waits for is under way, and is what the window asked for.
AnswersCome ==
    \A t \in Tabs :
        OnTheWay(t) => /\ req[t].step # "none"
                       /\ req[t].step \in {"sent", "match", "mismatch"} =>
                             req[t].kind = tab[t].wait

WaitRank(x) ==
    CASE x = "idle"    -> 0
      [] x = "retry"   -> 1
      [] x = "refresh" -> 2
      [] x = "login"   -> 3
      [] OTHER         -> 4

StepRank(x) ==
    CASE x = "none"                   -> 0
      [] x \in {"answered", "failed"} -> 1
      [] x = "sent"                   -> 3
      [] OTHER                        -> 2

\* What a window waits for comes first, then how far the server is.
Nearer(t) ==
    \/ WaitRank(tab'[t].wait) < WaitRank(tab[t].wait)
    \/ /\ tab'[t].wait = tab[t].wait
       /\ StepRank(req'[t].step) < StepRank(req[t].step)

Rests(t) == tab'[t].wait = tab[t].wait /\ req'[t].step = req[t].step

\* A step of the window or of the server for it brings its request nearer to
\* the end; nothing throws it back.
Approach ==
    \A t \in Tabs :
        /\ WindowGoesOn(t) \/ ServerGoesOn(t) => Nearer(t)
        /\ tab[t].wait # "idle" => Nearer(t) \/ Rests(t)

LEMMA TabSet ==
    ASSUME Types, NEW t \in Tabs, NEW x, tab' = [tab EXCEPT ![t].wait = x]
    PROVE  tab'[t].wait = x /\ \A u \in Tabs \ {t} : tab'[u] = tab[u]
BY DEF Types, TabStates

LEMMA ReqSet ==
    ASSUME Types, NEW t \in Tabs, NEW q, req' = [req EXCEPT ![t] = q]
    PROVE  req'[t] = q /\ \A u \in Tabs \ {t} : req'[u] = req[u]
BY DEF Types

LEMMA StepsOfReqs ==
    /\ NoReq.step = "none"
    /\ \A k, x : [NoReq EXCEPT !.step = "answered", !.token = k].step = "answered"
    /\ [NoReq EXCEPT !.step = "failed"].step = "failed"
    /\ \A x, k : [NoReq EXCEPT !.step = "sent", !.kind = x, !.token = k].step = "sent"
    /\ \A x, k : [NoReq EXCEPT !.step = "sent", !.kind = x, !.token = k].kind = x
BY DEF NoReq

LEMMA WindowNearer ==
    ASSUME Types, NEW t \in Tabs, WindowGoesOn(t)
    PROVE  /\ WaitRank(tab'[t].wait) < WaitRank(tab[t].wait)
           /\ OnTheWay(t)' => /\ req'[t].step = "sent" /\ req'[t].kind = tab'[t].wait
           /\ \A u \in Tabs \ {t} : tab'[u] = tab[u] /\ req'[u] = req[u]
<1>1. tab \in [Tabs -> TabStates] /\ req \in [Tabs -> Requests]
    BY DEF Types
<1>2. CASE CallEnds(t)
    <2>1. tab' = [tab EXCEPT ![t].wait = "idle"] /\ tab[t].wait \in {"call", "retry"}
          /\ req' = req
        BY <1>2 DEF CallEnds, GoesIdle
    <2>2. tab'[t].wait = "idle" /\ \A u \in Tabs \ {t} : tab'[u] = tab[u]
        BY <2>1, TabSet
    <2>. QED  BY <2>1, <2>2 DEF WaitRank, OnTheWay
<1>3. CASE CallRefused(t)
    <2>1. tab[t].wait = "call"
        BY <1>3 DEF CallRefused
    <2>2. CASE Store(t).refresh = None
        <3>1. tab' = [tab EXCEPT ![t].wait = "idle"] /\ req' = req
            BY <1>3, <2>2 DEF CallRefused, Renews, GoesIdle
        <3>2. tab'[t].wait = "idle" /\ \A u \in Tabs \ {t} : tab'[u] = tab[u]
            BY <3>1, TabSet
        <3>. QED  BY <2>1, <3>1, <3>2 DEF WaitRank, OnTheWay
    <2>3. CASE Store(t).refresh # None
        <3>1. PICK q : q = [step |-> "sent", kind |-> "refresh", seen |-> None,
                            token |-> Store(t).refresh]
            OBVIOUS
        <3>2. tab' = [tab EXCEPT ![t].wait = "refresh"] /\ req' = [req EXCEPT ![t] = q]
              /\ q.step = "sent" /\ q.kind = "refresh"
            BY <1>3, <2>3, <3>1 DEF CallRefused, Renews, Send
        <3>3. tab'[t].wait = "refresh" /\ \A u \in Tabs \ {t} : tab'[u] = tab[u]
            BY <3>2, TabSet
        <3>4. req'[t] = q /\ \A u \in Tabs \ {t} : req'[u] = req[u]
            BY <3>2, ReqSet
        <3>. QED  BY <2>1, <3>2, <3>3, <3>4 DEF WaitRank, OnTheWay
    <2>. QED  BY <2>2, <2>3
<1>4. ASSUME NEW x, NEW wait \in {"idle", "retry"}, SetTokens(t, x, wait),
             tab[t].wait \in {"login", "refresh"}, req' = [req EXCEPT ![t] = NoReq]
      PROVE  /\ WaitRank(tab'[t].wait) < WaitRank(tab[t].wait) /\ ~OnTheWay(t)'
             /\ \A u \in Tabs \ {t} : tab'[u] = tab[u] /\ req'[u] = req[u]
    <2>1. tab' = [tab EXCEPT ![t].token = x.access, ![t].wait = wait]
        BY <1>4 DEF SetTokens
    <2>2. tab'[t].wait = wait /\ \A u \in Tabs \ {t} : tab'[u] = tab[u] /\ req'[u] = req[u]
        BY <1>1, <1>4, <2>1 DEF TabStates
    <2>. QED  BY <1>4, <2>2 DEF WaitRank, OnTheWay
<1>5. ASSUME GoesIdle(t), tab[t].wait \in {"login", "refresh"}, req' = [req EXCEPT ![t] = NoReq]
      PROVE  /\ WaitRank(tab'[t].wait) < WaitRank(tab[t].wait) /\ ~OnTheWay(t)'
             /\ \A u \in Tabs \ {t} : tab'[u] = tab[u] /\ req'[u] = req[u]
    <2>1. tab' = [tab EXCEPT ![t].wait = "idle"]
        BY <1>5 DEF GoesIdle
    <2>2. tab'[t].wait = "idle" /\ \A u \in Tabs \ {t} : tab'[u] = tab[u]
        BY <2>1, TabSet
    <2>3. \A u \in Tabs \ {t} : req'[u] = req[u]
        BY <1>5, ReqSet
    <2>. QED  BY <1>5, <2>2, <2>3 DEF WaitRank, OnTheWay
<1>6. CASE TokensArrive(t)
    BY <1>4, <1>6 DEF TokensArrive, Answered
<1>7. CASE ErrorArrives(t)
    BY <1>4, <1>5, <1>7 DEF ErrorArrives
<1>8. CASE RefusalArrives(t)
    <2>1. CASE tab[t].wait = "login" /\ Store(t).refresh # None
        <3>1. PICK q : q = [NoReq EXCEPT !.step = "sent", !.kind = "refresh",
                                         !.token = Store(t).refresh]
            OBVIOUS
        <3>2. tab' = [tab EXCEPT ![t].wait = "refresh"] /\ req' = [req EXCEPT ![t] = q]
            BY <1>8, <2>1, <3>1 DEF RefusalArrives
        <3>3. q.step = "sent" /\ q.kind = "refresh"
            BY <3>1, StepsOfReqs
        <3>4. tab'[t].wait = "refresh" /\ \A u \in Tabs \ {t} : tab'[u] = tab[u]
            BY <3>2, TabSet
        <3>5. req'[t] = q /\ \A u \in Tabs \ {t} : req'[u] = req[u]
            BY <3>2, ReqSet
        <3>. QED  BY <2>1, <3>3, <3>4, <3>5 DEF WaitRank, OnTheWay
    <2>2. CASE ~(tab[t].wait = "login" /\ Store(t).refresh # None)
        BY <1>4, <1>5, <1>8, <2>2 DEF RefusalArrives, Answered
    <2>. QED  BY <2>1, <2>2
<1>. QED  BY <1>2, <1>3, <1>6, <1>7, <1>8 DEF WindowGoesOn

\* The server goes on with the request of a window, or fails.
LEMMA ServerNearer ==
    ASSUME Types, NEW t \in Tabs, ServerGoesOn(t) \/ RequestFails(t)
    PROVE  /\ StepRank(req'[t].step) < StepRank(req[t].step)
           /\ \A u \in Tabs : tab'[u].wait = tab[u].wait
           /\ \A u \in Tabs \ {t} : req'[u] = req[u]
           /\ OnTheWay(t) => req'[t].step # "none"
           /\ req'[t].step \in {"sent", "match", "mismatch"} =>
                 req'[t].kind = req[t].kind /\ req[t].step = "sent"
<1>1. tab \in [Tabs -> TabStates] /\ req \in [Tabs -> Requests]
    BY DEF Types
<1>2. ASSUME NEW q, req' = [req EXCEPT ![t] = q], q.step \in {"answered", "failed"},
             req[t].step \in {"sent", "match", "mismatch"},
             \A u \in Tabs : tab'[u].wait = tab[u].wait
      PROVE  /\ StepRank(req'[t].step) < StepRank(req[t].step)
             /\ \A u \in Tabs : tab'[u].wait = tab[u].wait
             /\ \A u \in Tabs \ {t} : req'[u] = req[u]
             /\ OnTheWay(t) => req'[t].step # "none"
             /\ req'[t].step \notin {"sent", "match", "mismatch"}
    <2>1. req'[t] = q /\ \A u \in Tabs \ {t} : req'[u] = req[u]
        BY <1>2, ReqSet
    <2>. QED  BY <1>2, <2>1 DEF StepRank
<1>3. ASSUME NEW q, req' = [req EXCEPT ![t] = q], q.step \in {"match", "mismatch"},
             req[t].step = "sent", q.kind = req[t].kind,
             \A u \in Tabs : tab'[u].wait = tab[u].wait
      PROVE  /\ StepRank(req'[t].step) < StepRank(req[t].step)
             /\ \A u \in Tabs : tab'[u].wait = tab[u].wait
             /\ \A u \in Tabs \ {t} : req'[u] = req[u]
             /\ OnTheWay(t) => req'[t].step # "none"
             /\ req'[t].step \in {"sent", "match", "mismatch"} =>
                   req'[t].kind = req[t].kind /\ req[t].step = "sent"
    <2>1. req'[t] = q /\ \A u \in Tabs \ {t} : req'[u] = req[u]
        BY <1>3, ReqSet
    <2>. QED  BY <1>3, <2>1 DEF StepRank
<1>4. CASE LoginChecked(t) /\ Accepted(t)
    <2>1. PICK q : q = [req[t] EXCEPT !.step = "match", !.seen = hash]
        OBVIOUS
    <2>2. /\ req' = [req EXCEPT ![t] = q] /\ tab' = [tab EXCEPT ![t].fresh = FALSE]
          /\ req[t].step = "sent" /\ q.step = "match" /\ q.kind = req[t].kind
        BY <1>1, <1>4, <2>1 DEF LoginChecked, Requests
    <2>3. \A u \in Tabs : tab'[u].wait = tab[u].wait
        BY <1>1, <2>2 DEF TabStates
    <2>. QED  BY <1>3, <2>2, <2>3
<1>5. ASSUME NEW k, Answer(t, k), req[t].step \in {"sent", "match", "mismatch"}, tab' = tab
      PROVE  /\ StepRank(req'[t].step) < StepRank(req[t].step)
             /\ \A u \in Tabs : tab'[u].wait = tab[u].wait
             /\ \A u \in Tabs \ {t} : req'[u] = req[u]
             /\ OnTheWay(t) => req'[t].step # "none"
             /\ req'[t].step \notin {"sent", "match", "mismatch"}
    <2>1. PICK q : q = [NoReq EXCEPT !.step = "answered", !.token = k]
        OBVIOUS
    <2>2. req' = [req EXCEPT ![t] = q] /\ q.step = "answered"
        BY <1>5, <2>1, StepsOfReqs DEF Answer
    <2>. QED  BY <1>2, <1>5, <2>2
<1>6. CASE RefreshReads(t) /\ active
    <2>1. PICK s : s \in {"match", "mismatch"} /\ s = IF hash = req[t].token THEN "match" ELSE "mismatch"
        OBVIOUS
    <2>2. PICK q : q = [req[t] EXCEPT !.step = s, !.seen = hash, !.token = None]
        OBVIOUS
    <2>3. /\ req' = [req EXCEPT ![t] = q] /\ tab' = tab
          /\ req[t].step = "sent" /\ q.step = s /\ q.kind = req[t].kind
        BY <1>1, <1>6, <2>1, <2>2 DEF RefreshReads, Requests
    <2>. QED  BY <1>3, <2>1, <2>3
<1>7. CASE RequestFails(t)
    <2>1. PICK q : q = [NoReq EXCEPT !.step = "failed"]
        OBVIOUS
    <2>2. /\ req' = [req EXCEPT ![t] = q] /\ tab' = tab /\ q.step = "failed"
          /\ req[t].step \in {"sent", "match", "mismatch"}
        BY <1>7, <2>1, StepsOfReqs DEF RequestFails
    <2>. QED  BY <1>2, <2>2
<1>8. CASE AnswerDropped(t)
    <2>1. /\ req' = [req EXCEPT ![t] = NoReq] /\ tab' = tab /\ ~OnTheWay(t)
          /\ req[t].step \in {"answered", "failed"}
        BY <1>8 DEF AnswerDropped, OnTheWay
    <2>2. req'[t] = NoReq /\ \A u \in Tabs \ {t} : req'[u] = req[u]
        BY <2>1, ReqSet
    <2>. QED  BY <2>1, <2>2, StepsOfReqs DEF StepRank
<1>9. CASE \/ LoginChecked(t) /\ ~Accepted(t)
           \/ RefreshReads(t) /\ ~active
           \/ LoginIssues(t) \/ RefreshRotates(t) \/ RefreshWithdraws(t)
    <2>1. PICK k : Answer(t, k) /\ tab' = tab /\ req[t].step \in {"sent", "match", "mismatch"}
        BY <1>9 DEF LoginChecked, RefreshReads, LoginIssues, RefreshRotates, RefreshWithdraws, Issue
    <2>. QED  BY <1>5, <2>1
<1>. QED  BY <1>4, <1>6, <1>7, <1>8, <1>9 DEF ServerGoesOn

\* A window begins to wait.
LEMMA BeginsToWait ==
    ASSUME Types, NEW t \in Tabs, CallStarts(t) \/ LoginStarts(t)
    PROVE  /\ tab[t].wait = "idle"
           /\ \A u \in Tabs \ {t} : tab'[u] = tab[u] /\ req'[u] = req[u]
           /\ OnTheWay(t)' => req'[t].step = "sent" /\ req'[t].kind = tab'[t].wait
<1>1. CASE CallStarts(t)
    <2>1. tab' = [tab EXCEPT ![t].wait = "call"] /\ req' = req /\ tab[t].wait = "idle"
        BY <1>1 DEF CallStarts
    <2>2. tab'[t].wait = "call" /\ \A u \in Tabs \ {t} : tab'[u] = tab[u]
        BY <2>1, TabSet
    <2>. QED  BY <2>1, <2>2 DEF OnTheWay
<1>2. CASE LoginStarts(t)
    <2>1. PICK q : q = [step |-> "sent", kind |-> "login", seen |-> None, token |-> None]
        OBVIOUS
    <2>2. /\ tab' = [tab EXCEPT ![t].wait = "login"] /\ req' = [req EXCEPT ![t] = q]
          /\ q.step = "sent" /\ q.kind = "login" /\ tab[t].wait = "idle"
        BY <1>2, <2>1 DEF LoginStarts, Send
    <2>3. tab'[t].wait = "login" /\ \A u \in Tabs \ {t} : tab'[u] = tab[u]
        BY <2>2, TabSet
    <2>4. req'[t] = q /\ \A u \in Tabs \ {t} : req'[u] = req[u]
        BY <2>2, ReqSet
    <2>. QED  BY <2>2, <2>3, <2>4
<1>. QED  BY <1>1, <1>2

\* Nothing else changes a request, and a window stops waiting at most.
LEMMA OtherNearer ==
    ASSUME Types,
           \/ \E t \in Tabs : GivesUp(t) \/ Reload(t) \/ Launch(t) \/ InitDataAges(t)
           \/ SetActive \/ Tick \/ Expire \/ UNCHANGED vars
    PROVE  req' = req /\ \A u \in Tabs : tab'[u].wait \in {"idle", tab[u].wait}
<1>1. tab \in [Tabs -> TabStates]
    BY DEF Types
<1>2. ASSUME NEW t \in Tabs, GivesUp(t)
      PROVE  req' = req /\ \A u \in Tabs : tab'[u].wait \in {"idle", tab[u].wait}
    <2>1. CASE tab[t].wait = "refresh"
        <3>1. tab' = [tab EXCEPT ![t].token = Empty.access, ![t].wait = "idle"] /\ req' = req
            BY <1>2, <2>1 DEF GivesUp, SetTokens
        <3>. QED  BY <1>1, <3>1 DEF TabStates
    <2>2. CASE tab[t].wait # "refresh"
        BY <1>1, <1>2, <2>2 DEF GivesUp, GoesIdle, TabStates
    <2>. QED  BY <2>1, <2>2
<1>3. ASSUME NEW t \in Tabs, Reload(t) \/ Launch(t) \/ InitDataAges(t)
      PROVE  req' = req /\ \A u \in Tabs : tab'[u].wait = tab[u].wait
    BY <1>1, <1>3 DEF Reload, Launch, InitDataAges, TabStates
<1>4. CASE SetActive \/ Tick \/ Expire \/ UNCHANGED vars
    BY <1>4 DEF SetActive, Tick, Expire, vars
<1>. QED  BY <1>2, <1>3, <1>4

LEMMA AnswersNext ==
    ASSUME Types, AnswersCome, [Next]_vars
    PROVE  AnswersCome' /\ Approach
<1>. DEFINE Comes(t) == OnTheWay(t) => /\ req[t].step # "none"
                                       /\ req[t].step \in {"sent", "match", "mismatch"} =>
                                             req[t].kind = tab[t].wait
<1>1. \A t \in Tabs : Comes(t)
    BY DEF AnswersCome
<1>2. \A t \in Tabs : tab[t].wait \in Waits
    BY DEF Types, TabStates
<1>3. ASSUME NEW t \in Tabs, WindowGoesOn(t)
      PROVE  /\ \A u \in Tabs : Comes(u)'
             /\ \A u \in Tabs : u = t \/ Rests(u)
             /\ Nearer(t)
    BY <1>1, <1>3, WindowNearer DEF OnTheWay, Rests, Nearer
<1>4. ASSUME NEW t \in Tabs, ServerGoesOn(t) \/ RequestFails(t)
      PROVE  /\ \A u \in Tabs : Comes(u)'
             /\ \A u \in Tabs : u = t \/ Rests(u)
             /\ Nearer(t)
    BY <1>1, <1>4, ServerNearer DEF OnTheWay, Rests, Nearer
<1>5. ASSUME NEW t \in Tabs, CallStarts(t) \/ LoginStarts(t)
      PROVE  /\ \A u \in Tabs : Comes(u)'
             /\ \A u \in Tabs : tab[u].wait = "idle" \/ Rests(u)
    BY <1>1, <1>5, BeginsToWait DEF OnTheWay, Rests
<1>6. ASSUME req' = req, \A u \in Tabs : tab'[u].wait \in {"idle", tab[u].wait}
      PROVE  /\ \A u \in Tabs : Comes(u)'
             /\ \A u \in Tabs : tab[u].wait = "idle" \/ Nearer(u) \/ Rests(u)
    <2>1. \A u \in Tabs : Comes(u)'
        BY <1>1, <1>6 DEF OnTheWay
    <2>2. ASSUME NEW u \in Tabs, tab[u].wait # "idle", tab'[u].wait = "idle"
          PROVE  Nearer(u)
        BY <1>2, <2>2 DEF WaitRank, Nearer, Waits
    <2>. QED  BY <1>6, <2>1, <2>2 DEF Rests
<1>7. \A u \in Tabs : Comes(u)'
    BY <1>3, <1>4, <1>5, <1>6, OtherNearer DEF Next
<1>8. \A u \in Tabs : tab[u].wait # "idle" => Nearer(u) \/ Rests(u)
    BY <1>3, <1>4, <1>5, <1>6, OtherNearer DEF Next
<1>. QED  BY <1>3, <1>4, <1>7, <1>8 DEF AnswersCome, Approach

\* A window that waits for tokens has a request of that kind with the server,
\* or an answer to it: apiFetch and refreshAccessToken never wait for nothing.
THEOREM WaitsAreAnswered == Spec => []AnswersCome
<1>1. Init => AnswersCome
    BY DEF Init, AnswersCome, OnTheWay
<1>2. IInv /\ AnswersCome /\ [Next]_vars => AnswersCome'
    BY AnswersNext DEF IInv
<1>. QED  BY <1>1, <1>2, Invariance, PTL DEF Spec

\* Every step of a window or of the server brings an API request nearer to its
\* end, in an order without infinite descent: one renewal and one retry, after
\* which nothing is sent again by itself.
THEOREM CallsApproach == Spec => [][Approach]_vars
<1>1. IInv /\ AnswersCome /\ [Next]_vars => [Approach]_vars
    BY AnswersNext DEF IInv
<1>. QED  BY <1>1, Invariance, WaitsAreAnswered, PTL DEF Spec

=============================================================================
