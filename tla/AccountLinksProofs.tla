-------------------------- MODULE AccountLinksProofs --------------------------
(***************************************************************************)
(* What overlapping transactions keep of an account's links, for any       *)
(* number of accounts, applications, photos and requests: the foreign      *)
(* keys, the agreement of photos and accounts, and how far the two limits  *)
(* can be exceeded.                                                        *)
(***************************************************************************)
EXTENDS AccountLinks, FiniteSetTheorems, TLAPS

Types ==
    /\ rows \in [Accounts -> Rows]
    /\ apps \in [Apps -> AppRows]
    /\ proxies \subseteq Proxies
    /\ photos \in [Photos -> [active : BOOLEAN, owner : Accounts \cup {None}]]
    /\ req \in [Requests -> Transactions]
    /\ user \in Requests \cup {None}
    /\ loose \subseteq Apps
    /\ left \in 0..Operations

Keys ==
    \A a \in Accounts :
        /\ rows[a].app # None => rows[a].made /\ apps[rows[a].app].made
        /\ rows[a].proxy # None => rows[a].made /\ rows[a].proxy \in proxies

\* What a transaction of each kind has decided, and how far a photo has come.
GoodReq(q) ==
    /\ q.op = "create" => /\ q.acc \in Accounts /\ q.new.made /\ q.new.photo = None
                          /\ q.seen.app = None
    /\ q.op \in {"update", "assign"} => q.seen.made = q.new.made /\ q.seen.photo = q.new.photo
    /\ q.op = "app" => q.app \in Apps /\ (q.set.made => q.was.made)
    /\ q.op = "photo" =>
          /\ q.new.photo \in Photos
          /\ q.phase \in {"commit", "telegram"}
          /\ q.acc # None => /\ rows[q.acc].made
                             /\ q.phase = "commit" => rows[q.acc].photo = None
                             /\ q.phase = "telegram" => rows[q.acc].photo = q.new.photo

ReqOK == \A r \in Requests : GoodReq(req[r])

\* One warming cycle runs for an account.
OneCycle ==
    \A r, s \in Requests :
        req[r].op = "photo" /\ req[s].op = "photo" /\ req[r].acc = req[s].acc
            /\ req[r].acc # None => r = s

\* The transactions that are to make an account, and to link one to x.
Creating == {r \in Requests : req[r].op = "create"}

Joining(x) == {r \in Requests : /\ req[r].op \in {"create", "assign"}
                                /\ req[r].new.app = x /\ req[r].seen.app # x}

\* What is above a limit has been decided below it, by transactions that overlap.
TariffSum ==
    Cardinality(Registered) + Cardinality(Creating) < MaxAccounts + Cardinality(Requests)

LimitSum ==
    \A x \in Apps \ loose :
        apps[x].made =>
            Cardinality(Linked(x)) + Cardinality(Joining(x))
                < apps[x].max + Cardinality(Requests)

IInv == Types /\ Keys /\ ReqOK /\ OneCycle /\ PhotoAgrees /\ TariffSum /\ LimitSum

-----------------------------------------------------------------------------
(* Sizes.                                                                  *)

LEMMA SetsFinite ==
    ASSUME NEW x
    PROVE  /\ IsFiniteSet(Registered) /\ IsFiniteSet(Linked(x))
           /\ IsFiniteSet(Creating) /\ IsFiniteSet(Joining(x)) /\ IsFiniteSet(Requests)
           /\ Cardinality(Creating) <= Cardinality(Requests)
           /\ Cardinality(Joining(x)) <= Cardinality(Requests)
           /\ Cardinality(Requests) \in Nat /\ Cardinality(Requests) > 0
           /\ Cardinality(Registered) \in Nat /\ Cardinality(Linked(x)) \in Nat
           /\ Cardinality(Creating) \in Nat /\ Cardinality(Joining(x)) \in Nat
<1>1. IsFiniteSet(Accounts) /\ IsFiniteSet(Requests) /\ Requests # {}
    BY LinksAssumption
<1>2. /\ Registered \in SUBSET Accounts /\ Linked(x) \in SUBSET Accounts
      /\ Creating \in SUBSET Requests /\ Joining(x) \in SUBSET Requests
    BY DEF Registered, Linked, Creating, Joining
<1>3. /\ IsFiniteSet(Registered) /\ IsFiniteSet(Linked(x))
      /\ IsFiniteSet(Creating) /\ IsFiniteSet(Joining(x))
      /\ Cardinality(Creating) <= Cardinality(Requests)
      /\ Cardinality(Joining(x)) <= Cardinality(Requests)
    BY <1>1, <1>2, FS_Subset
<1>4. Cardinality(Requests) # 0
    BY <1>1, FS_EmptySet
<1>5. /\ Cardinality(Requests) \in Nat
      /\ Cardinality(Registered) \in Nat /\ Cardinality(Linked(x)) \in Nat
      /\ Cardinality(Creating) \in Nat /\ Cardinality(Joining(x)) \in Nat
    BY <1>1, <1>3, FS_CardinalityType
<1>. QED  BY <1>1, <1>3, <1>4, <1>5

\* Of two finite sets one grows by at most an element and the other loses one.
LEMMA SumMoves ==
    ASSUME NEW A, NEW B, NEW C, NEW D, NEW a, NEW r,
           IsFiniteSet(A), IsFiniteSet(B), C \subseteq A \cup {a}, D \subseteq B \ {r}, r \in B
    PROVE  Cardinality(C) + Cardinality(D) <= Cardinality(A) + Cardinality(B)
<1>1. /\ IsFiniteSet(A \cup {a}) /\ Cardinality(A \cup {a}) <= Cardinality(A) + 1
      /\ IsFiniteSet(B \ {r}) /\ Cardinality(B \ {r}) = Cardinality(B) - 1
    BY FS_AddElement, FS_RemoveElement, FS_CardinalityType
<1>2. /\ Cardinality(C) <= Cardinality(A \cup {a}) /\ IsFiniteSet(C)
      /\ Cardinality(D) <= Cardinality(B \ {r}) /\ IsFiniteSet(D)
    BY <1>1, FS_Subset
<1>3. /\ Cardinality(A) \in Nat /\ Cardinality(B) \in Nat
      /\ Cardinality(C) \in Nat /\ Cardinality(D) \in Nat
      /\ Cardinality(A \cup {a}) \in Nat /\ Cardinality(B \ {r}) \in Nat
    BY <1>1, <1>2, FS_CardinalityType
<1>. QED  BY <1>1, <1>2, <1>3

LEMMA SumShrinks ==
    ASSUME NEW A, NEW B, NEW C, NEW D,
           IsFiniteSet(A), IsFiniteSet(B), C \subseteq A, D \subseteq B
    PROVE  Cardinality(C) + Cardinality(D) <= Cardinality(A) + Cardinality(B)
<1>1. /\ Cardinality(C) <= Cardinality(A) /\ IsFiniteSet(C)
      /\ Cardinality(D) <= Cardinality(B) /\ IsFiniteSet(D)
    BY FS_Subset
<1>2. /\ Cardinality(A) \in Nat /\ Cardinality(B) \in Nat
      /\ Cardinality(C) \in Nat /\ Cardinality(D) \in Nat
    BY <1>1, FS_CardinalityType
<1>. QED  BY <1>1, <1>2

\* No account is made and no transaction that makes one begins.
LEMMA TariffShrinks ==
    ASSUME TariffSum, Registered' \subseteq Registered, Creating' \subseteq Creating
    PROVE  TariffSum'
<1>1. PICK C, D : C = Registered' /\ D = Creating'
    OBVIOUS
<1>2. Cardinality(C) + Cardinality(D) <= Cardinality(Registered) + Cardinality(Creating)
    BY <1>1, SetsFinite, SumShrinks
<1>3. IsFiniteSet(C) /\ IsFiniteSet(D)
    BY <1>1, SetsFinite, FS_Subset
<1>. QED  BY <1>1, <1>2, <1>3, SetsFinite, FS_CardinalityType, LinksAssumption DEF TariffSum

\* Application x, where no link is made and no transaction that makes one begins.
LEMMA LimitShrinks ==
    ASSUME LimitSum, Types, NEW x \in Apps, x \notin loose, apps[x].made, NEW max \in Nat,
           max >= apps[x].max, Linked(x)' \subseteq Linked(x), Joining(x)' \subseteq Joining(x)
    PROVE  Cardinality(Linked(x)') + Cardinality(Joining(x)') < max + Cardinality(Requests)
<1>1. PICK C, D : C = Linked(x)' /\ D = Joining(x)'
    OBVIOUS
<1>2. Cardinality(C) + Cardinality(D) <= Cardinality(Linked(x)) + Cardinality(Joining(x))
    BY <1>1, SetsFinite, SumShrinks
<1>3. IsFiniteSet(C) /\ IsFiniteSet(D)
    BY <1>1, SetsFinite, FS_Subset
<1>4. apps[x].max \in Nat
    BY LinksAssumption DEF Types, AppRows
<1>. QED  BY <1>1, <1>2, <1>3, <1>4, SetsFinite, FS_CardinalityType DEF LimitSum

LEMMA SomeRequests ==
    ASSUME NEW S \in SUBSET Requests
    PROVE  Cardinality(S) \in Nat /\ Cardinality(S) <= Cardinality(Requests)
BY LinksAssumption, FS_Subset, FS_CardinalityType

-----------------------------------------------------------------------------
(* Transactions begin and end.                                             *)

LEMMA NoReqTyped == NoReq \in Transactions /\ NoReq.op = None
<1>1. NoRow \in Rows /\ NoApp \in AppRows
    BY LinksAssumption DEF NoRow, Rows, NoApp, AppRows
<1>. QED  BY <1>1 DEF NoReq, Transactions

\* A transaction that begins changes nothing else.  It makes an account only
\* below the tariff's limit, and a link only below the application's.
LEMMA BeginKeeps ==
    ASSUME IInv, NEW r \in Requests, NEW q \in Transactions, Begins(r, q),
           UNCHANGED <<rows, apps, proxies, photos, user, loose>>, GoodReq(q),
           q.op = "photo" => \A s \in Requests : req[s].op = "photo" => req[s].acc # q.acc,
           q.op = "create" => Cardinality(Registered) < MaxAccounts,
           \A x \in Apps : q.op \in {"create", "assign"} /\ q.new.app = x /\ q.seen.app # x
                              => Cardinality(Linked(x)) < apps[x].max
    PROVE  IInv'
<1>1. /\ req' = [req EXCEPT ![r] = q] /\ req \in [Requests -> Transactions]
      /\ left > 0 /\ left' = left - 1
    BY DEF IInv, Types, Begins
<1>2. req'[r] = q /\ \A s \in Requests \ {r} : req'[s] = req[s]
    BY <1>1
<1>3. Types'
    BY <1>1, LinksAssumption DEF IInv, Types
<1>4. Keys' /\ PhotoAgrees'
    BY DEF IInv, Keys, PhotoAgrees
<1>5. ReqOK'
    BY <1>2 DEF IInv, ReqOK, GoodReq
<1>6. OneCycle'
    BY <1>2 DEF IInv, OneCycle
<1>7. Registered' = Registered /\ \A x : Linked(x)' = Linked(x)
    BY DEF Registered, Linked
<1>8. TariffSum'
    <2>1. CASE q.op = "create"
        <3>1. PICK D \in SUBSET Requests : D = Creating'
            BY DEF Creating
        <3>2. Cardinality(D) \in Nat /\ Cardinality(D) <= Cardinality(Requests)
            BY SomeRequests
        <3>. QED  BY <1>7, <2>1, <3>1, <3>2, SetsFinite, LinksAssumption DEF TariffSum
    <2>2. CASE q.op # "create"
        <3>1. Creating' \subseteq Creating
            BY <1>2, <2>2 DEF Creating
        <3>. QED  BY <1>7, <3>1, TariffShrinks DEF IInv
    <2>. QED  BY <2>1, <2>2
<1>9. LimitSum'
    <2>1. SUFFICES ASSUME NEW x \in Apps, x \notin loose, apps[x].made
                   PROVE  Cardinality(Linked(x)') + Cardinality(Joining(x)')
                             < apps[x].max + Cardinality(Requests)
        BY DEF LimitSum
    <2>2. apps[x].max \in Nat
        BY LinksAssumption DEF IInv, Types, AppRows
    <2>3. CASE q.op \in {"create", "assign"} /\ q.new.app = x /\ q.seen.app # x
        <3>1. PICK D \in SUBSET Requests : D = Joining(x)'
            BY DEF Joining
        <3>2. Cardinality(D) \in Nat /\ Cardinality(D) <= Cardinality(Requests)
            BY SomeRequests
        <3>3. Cardinality(Linked(x)) < apps[x].max
            BY <2>3
        <3>. QED  BY <1>7, <2>2, <3>1, <3>2, <3>3, SetsFinite
    <2>4. CASE ~(q.op \in {"create", "assign"} /\ q.new.app = x /\ q.seen.app # x)
        <3>1. Joining(x)' \subseteq Joining(x)
            BY <1>2, <2>4 DEF Joining
        <3>. QED  BY <1>7, <2>1, <2>2, <3>1, LimitShrinks DEF IInv
    <2>. QED  BY <2>3, <2>4
<1>. QED  BY <1>3, <1>4, <1>5, <1>6, <1>8, <1>9 DEF IInv

\* A transaction that ends is forgotten.
LEMMA EndEffect ==
    ASSUME req \in [Requests -> Transactions], NEW r \in Requests, Ends(r)
    PROVE  /\ req' \in [Requests -> Transactions]
           /\ req'[r] = NoReq
           /\ \A s \in Requests \ {r} : req'[s] = req[s]
           /\ Creating' = Creating \ {r}
           /\ \A x : Joining(x)' = Joining(x) \ {r}
<1>1. req' = [req EXCEPT ![r] = NoReq]
    BY DEF Ends
<1>2. /\ req' \in [Requests -> Transactions] /\ req'[r] = NoReq
      /\ \A s \in Requests \ {r} : req'[s] = req[s]
    BY <1>1, NoReqTyped
<1>3. NoReq.op # "create" /\ NoReq.op # "assign"
    BY NoReqTyped, LinksAssumption
<1>4. Creating' = Creating \ {r}
    BY <1>2, <1>3 DEF Creating
<1>5. ASSUME NEW x
      PROVE  Joining(x)' = Joining(x) \ {r}
    BY <1>2, <1>3 DEF Joining
<1>. QED  BY <1>2, <1>4, <1>5

\* Of the other transactions, while the rows' photos stay.
LEMMA EndsGood ==
    ASSUME IInv, NEW r \in Requests, Ends(r), rows' \in [Accounts -> Rows],
           \A a \in Accounts : rows[a].made => /\ rows'[a].made
                                               /\ rows'[a].photo = rows[a].photo
    PROVE  ReqOK' /\ OneCycle'
<1>1. /\ req' \in [Requests -> Transactions] /\ req'[r] = NoReq
      /\ \A s \in Requests \ {r} : req'[s] = req[s]
    BY EndEffect DEF IInv, Types
<1>2. NoReq.op \notin {"create", "update", "assign", "app", "photo"}
    BY NoReqTyped, LinksAssumption
<1>3. ASSUME NEW s \in Requests
      PROVE  GoodReq(req[s])'
    <2>1. CASE s = r
        BY <1>1, <1>2, <2>1 DEF GoodReq
    <2>2. CASE s # r
        <3>1. GoodReq(req[s]) /\ req'[s] = req[s]
            BY <1>1, <2>2 DEF IInv, ReqOK
        <3>2. req[s].acc # None => req[s].acc \in Accounts
            BY DEF IInv, Types, Transactions
        <3>. QED  BY <3>1, <3>2 DEF GoodReq
    <2>. QED  BY <2>1, <2>2
<1>4. OneCycle'
    BY <1>1, <1>2 DEF IInv, OneCycle
<1>. QED  BY <1>3, <1>4 DEF ReqOK

LEMMA EndKeeps ==
    ASSUME IInv, NEW r \in Requests, Ends(r), user' \in Requests \cup {None},
           UNCHANGED <<rows, apps, proxies, photos, loose, left>>
    PROVE  IInv'
<1>1. /\ req' \in [Requests -> Transactions] /\ Creating' = Creating \ {r}
      /\ \A x : Joining(x)' = Joining(x) \ {r}
    BY EndEffect DEF IInv, Types
<1>2. Types' /\ Keys' /\ PhotoAgrees'
    BY <1>1 DEF IInv, Types, Keys, PhotoAgrees
<1>3. ReqOK' /\ OneCycle'
    BY EndsGood DEF IInv, Types
<1>4. Registered' = Registered /\ \A x : Linked(x)' = Linked(x)
    BY DEF Registered, Linked
<1>5. TariffSum'
    BY <1>1, <1>4, TariffShrinks DEF IInv
<1>6. LimitSum'
    <2>1. SUFFICES ASSUME NEW x \in Apps, x \notin loose, apps[x].made
                   PROVE  Cardinality(Linked(x)') + Cardinality(Joining(x)')
                             < apps[x].max + Cardinality(Requests)
        BY DEF LimitSum
    <2>2. apps[x].max \in Nat
        BY LinksAssumption DEF IInv, Types, AppRows
    <2>. QED  BY <1>1, <1>4, <2>1, <2>2, LimitShrinks DEF IInv
<1>. QED  BY <1>2, <1>3, <1>5, <1>6 DEF IInv

\* An application chosen for an account it is not linked to has room.
LEMMA ChosenHasRoom ==
    ASSUME NEW a, NEW x \in Choices(a), a \notin Linked(x)
    PROVE  x \in Apps /\ Cardinality(Linked(x)) < apps[x].max
<1>1. x \in Apps /\ Load(x, a) < apps[x].max
    BY DEF Choices, Room
<1>2. Linked(x) \ {a} = Linked(x)
    OBVIOUS
<1>. QED  BY <1>1, <1>2 DEF Load

LEMMA CreateBeginsInv == ASSUME IInv, NEW r \in Requests, CreateBegins(r) PROVE IInv'
<1>0. PICK a \in Accounts \ Registered : \E x \in Choices(a) :
         /\ Cardinality(Registered) < MaxAccounts
         /\ Begins(r, [NoReq EXCEPT !.op = "create", !.phase = "lock", !.acc = a,
                                    !.new = [NoRow EXCEPT !.made = TRUE, !.app = x]])
         /\ UNCHANGED <<rows, apps, proxies, photos, user, loose>>
    BY DEF CreateBegins
<1>1. PICK x \in Choices(a) :
         /\ Cardinality(Registered) < MaxAccounts
         /\ Begins(r, [NoReq EXCEPT !.op = "create", !.phase = "lock", !.acc = a,
                                    !.new = [NoRow EXCEPT !.made = TRUE, !.app = x]])
         /\ UNCHANGED <<rows, apps, proxies, photos, user, loose>>
    BY <1>0
<1>2. PICK n : n = [NoRow EXCEPT !.made = TRUE, !.app = x]
    OBVIOUS
<1>3. x \in Apps
    BY <1>1 DEF Choices, Room
<1>4. n \in Rows /\ n.made /\ n.photo = None /\ n.app = x
    BY <1>2, <1>3 DEF NoRow, Rows
<1>5. PICK q : q = [NoReq EXCEPT !.op = "create", !.phase = "lock", !.acc = a, !.new = n]
    OBVIOUS
<1>6. q \in Transactions /\ q.op = "create" /\ q.acc = a /\ q.new = n /\ q.seen = NoRow
    BY <1>1, <1>4, <1>5, NoReqTyped DEF Transactions, NoReq
<1>7. GoodReq(q)
    BY <1>1, <1>4, <1>6 DEF GoodReq, NoRow
<1>8. \A y \in Apps : q.new.app = y => Cardinality(Linked(y)) < apps[y].max
    <2>1. a \notin Linked(x)
        BY <1>1 DEF Linked
    <2>. QED  BY <1>1, <1>4, <1>6, <2>1, ChosenHasRoom
<1>9. Begins(r, q)
    BY <1>1, <1>2, <1>5
<1>. QED  BY <1>1, <1>6, <1>7, <1>8, <1>9, BeginKeeps

\* The row that a transaction sees and what it makes of it.
LEMMA AssignBeginsInv == ASSUME IInv, NEW r \in Requests, AssignBegins(r) PROVE IInv'
<1>0. PICK a \in Registered : \E x \in Choices(a), p \in proxies \cup {None} :
         /\ Begins(r, [NoReq EXCEPT !.op = "assign", !.phase = "commit", !.acc = a,
                                    !.seen = rows[a],
                                    !.new = [rows[a] EXCEPT !.app = x, !.proxy = p]])
         /\ UNCHANGED <<rows, apps, proxies, photos, user, loose>>
    BY DEF AssignBegins
<1>1. PICK x \in Choices(a), p \in proxies \cup {None} :
         /\ Begins(r, [NoReq EXCEPT !.op = "assign", !.phase = "commit", !.acc = a,
                                    !.seen = rows[a],
                                    !.new = [rows[a] EXCEPT !.app = x, !.proxy = p]])
         /\ UNCHANGED <<rows, apps, proxies, photos, user, loose>>
    BY <1>0
<1>2. PICK n, o : n = [rows[a] EXCEPT !.app = x, !.proxy = p] /\ o = rows[a]
    OBVIOUS
<1>3. x \in Apps /\ a \in Accounts /\ p \in Proxies \cup {None} /\ o \in Rows
    BY <1>1, <1>2 DEF Choices, Room, Registered, IInv, Types
<1>4. n \in Rows /\ n.made = o.made /\ n.photo = o.photo /\ n.app = x
    BY <1>2, <1>3 DEF Rows
<1>5. PICK q : q = [NoReq EXCEPT !.op = "assign", !.phase = "commit", !.acc = a, !.seen = o,
                                 !.new = n]
    OBVIOUS
<1>6. q \in Transactions /\ q.op = "assign" /\ q.acc = a /\ q.seen = o /\ q.new = n
    BY <1>3, <1>4, <1>5, NoReqTyped DEF Transactions
<1>7. GoodReq(q)
    BY <1>4, <1>6 DEF GoodReq
<1>8. \A y \in Apps : q.new.app = y /\ q.seen.app # y => Cardinality(Linked(y)) < apps[y].max
    <2>1. o.app # x => a \notin Linked(x)
        BY <1>2 DEF Linked
    <2>. QED  BY <1>1, <1>4, <1>6, <2>1, ChosenHasRoom
<1>9. Begins(r, q)
    BY <1>1, <1>2, <1>5
<1>. QED  BY <1>1, <1>6, <1>7, <1>8, <1>9, BeginKeeps

LEMMA UpdateBeginsInv == ASSUME IInv, NEW r \in Requests, UpdateBegins(r) PROVE IInv'
<1>1. PICK a \in Registered, x \in Apps \cup {None}, p \in proxies \cup {None} :
         /\ Begins(r, [NoReq EXCEPT !.op = "update", !.phase = "commit", !.acc = a,
                                    !.seen = rows[a],
                                    !.new = [rows[a] EXCEPT !.app = x, !.proxy = p]])
         /\ UNCHANGED <<rows, apps, proxies, photos, user, loose>>
    BY DEF UpdateBegins
<1>2. PICK n, o : n = [rows[a] EXCEPT !.app = x, !.proxy = p] /\ o = rows[a]
    OBVIOUS
<1>3. a \in Accounts /\ p \in Proxies \cup {None} /\ o \in Rows
    BY <1>1, <1>2 DEF Registered, IInv, Types
<1>4. n \in Rows /\ n.made = o.made /\ n.photo = o.photo
    BY <1>1, <1>2, <1>3 DEF Rows
<1>5. PICK q : q = [NoReq EXCEPT !.op = "update", !.phase = "commit", !.acc = a, !.seen = o,
                                 !.new = n]
    OBVIOUS
<1>6. q \in Transactions /\ q.op = "update" /\ q.acc = a /\ q.seen = o /\ q.new = n
    BY <1>3, <1>4, <1>5, NoReqTyped DEF Transactions
<1>7. GoodReq(q)
    BY <1>4, <1>6 DEF GoodReq
<1>8. Begins(r, q)
    BY <1>1, <1>2, <1>5
<1>. QED  BY <1>1, <1>6, <1>7, <1>8, BeginKeeps

LEMMA AppBeginsInv == ASSUME IInv, NEW r \in Requests, AppBegins(r) PROVE IInv'
<1>1. PICK x \in Apps, m \in 1..MaxLoad, on \in BOOLEAN :
         /\ apps[x].made
         /\ Begins(r, [NoReq EXCEPT !.op = "app", !.phase = "commit", !.app = x,
                                    !.was = apps[x],
                                    !.set = [made |-> TRUE, active |-> on, max |-> m]])
         /\ UNCHANGED <<rows, apps, proxies, photos, user, loose>>
    BY DEF AppBegins
<1>2. PICK w, s : w = apps[x] /\ s = [made |-> TRUE, active |-> on, max |-> m]
    OBVIOUS
<1>3. w \in AppRows /\ w.made
    BY <1>1, <1>2 DEF IInv, Types
<1>4. s \in AppRows
    BY <1>1, <1>2, LinksAssumption DEF AppRows
<1>5. PICK q : q = [NoReq EXCEPT !.op = "app", !.phase = "commit", !.app = x, !.was = w,
                                 !.set = s]
    OBVIOUS
<1>6. q \in Transactions /\ q.op = "app" /\ q.app = x /\ q.was = w
    BY <1>1, <1>3, <1>4, <1>5, NoReqTyped DEF Transactions
<1>7. GoodReq(q)
    BY <1>1, <1>3, <1>6 DEF GoodReq
<1>8. Begins(r, q)
    BY <1>1, <1>2, <1>5
<1>. QED  BY <1>1, <1>6, <1>7, <1>8, BeginKeeps

LEMMA AppDeletesInv == ASSUME IInv, NEW r \in Requests, AppDeletes(r) PROVE IInv'
<1>1. PICK x \in Apps :
         /\ apps[x].made
         /\ Begins(r, [NoReq EXCEPT !.op = "app", !.phase = "commit", !.app = x,
                                    !.was = apps[x]])
         /\ UNCHANGED <<rows, apps, proxies, photos, user, loose>>
    BY DEF AppDeletes
<1>2. PICK w : w = apps[x]
    OBVIOUS
<1>3. w \in AppRows /\ w.made
    BY <1>1, <1>2 DEF IInv, Types
<1>4. PICK q : q = [NoReq EXCEPT !.op = "app", !.phase = "commit", !.app = x, !.was = w]
    OBVIOUS
<1>5. q \in Transactions /\ q.op = "app" /\ q.app = x /\ q.was = w
    BY <1>1, <1>3, <1>4, NoReqTyped DEF Transactions
<1>6. GoodReq(q)
    BY <1>1, <1>3, <1>5 DEF GoodReq
<1>7. Begins(r, q)
    BY <1>1, <1>2, <1>4
<1>. QED  BY <1>1, <1>5, <1>6, <1>7, BeginKeeps

LEMMA PhotoBeginsInv == ASSUME IInv, NEW r \in Requests, PhotoBegins(r) PROVE IInv'
<1>1. PICK a \in Registered, p \in Photos :
         /\ rows[a].photo = None
         /\ \A s \in Requests : req[s].op = "photo" => req[s].acc # a
         /\ Begins(r, [NoReq EXCEPT !.op = "photo", !.phase = "commit", !.acc = a,
                                    !.new = [NoRow EXCEPT !.photo = p]])
         /\ UNCHANGED <<rows, apps, proxies, photos, user, loose>>
    BY DEF PhotoBegins
<1>2. PICK n : n = [NoRow EXCEPT !.photo = p]
    OBVIOUS
<1>3. n \in Rows /\ n.photo = p /\ a \in Accounts /\ rows[a].made
    BY <1>1, <1>2 DEF NoRow, Rows, Registered
<1>4. PICK q : q = [NoReq EXCEPT !.op = "photo", !.phase = "commit", !.acc = a, !.new = n]
    OBVIOUS
<1>5. q \in Transactions /\ q.op = "photo" /\ q.phase = "commit" /\ q.acc = a /\ q.new = n
    BY <1>3, <1>4, NoReqTyped DEF Transactions
<1>6. GoodReq(q)
    BY <1>1, <1>3, <1>5 DEF GoodReq
<1>7. Begins(r, q)
    BY <1>1, <1>2, <1>4
<1>. QED  BY <1>1, <1>5, <1>6, <1>7, BeginKeeps

\* The owner's row is locked.
LEMMA CreateLocksInv == ASSUME IInv, NEW r \in Requests, CreateLocks(r) PROVE IInv'
<1>1. /\ req' = [req EXCEPT ![r].phase = "commit"] /\ user' = r /\ req[r].op = "create"
      /\ UNCHANGED <<rows, apps, proxies, photos, loose, left>>
    BY DEF CreateLocks, In
<1>2. PICK q : q = [req[r] EXCEPT !.phase = "commit"]
    OBVIOUS
<1>3. /\ req[r] \in Transactions /\ q \in Transactions /\ q.op = "create"
      /\ q.acc = req[r].acc /\ q.new = req[r].new /\ q.seen = req[r].seen
    <2>1. req[r] \in Transactions
        BY DEF IInv, Types
    <2>. QED  BY <1>1, <1>2, <2>1 DEF Transactions
<1>4. /\ req' \in [Requests -> Transactions] /\ req'[r] = q
      /\ \A s \in Requests \ {r} : req'[s] = req[s]
    BY <1>1, <1>2, <1>3 DEF IInv, Types
<1>5. Types' /\ Keys' /\ PhotoAgrees'
    BY <1>1, <1>4 DEF IInv, Types, Keys, PhotoAgrees
<1>6. GoodReq(req[r])
    BY DEF IInv, ReqOK
<1>7. ReqOK'
    BY <1>1, <1>3, <1>4, <1>6, LinksAssumption DEF IInv, ReqOK, GoodReq
<1>8. OneCycle'
    BY <1>3, <1>4 DEF IInv, OneCycle
<1>9. /\ Registered' = Registered /\ \A x : Linked(x)' = Linked(x)
    BY <1>1 DEF Registered, Linked
<1>10. Creating' \subseteq Creating /\ \A x : Joining(x)' \subseteq Joining(x)
    BY <1>1, <1>3, <1>4 DEF Creating, Joining
<1>11. TariffSum'
    BY <1>9, <1>10, TariffShrinks DEF IInv
<1>12. LimitSum'
    <2>1. SUFFICES ASSUME NEW x \in Apps, x \notin loose, apps[x].made
                   PROVE  Cardinality(Linked(x)') + Cardinality(Joining(x)')
                             < apps[x].max + Cardinality(Requests)
        BY <1>1 DEF LimitSum
    <2>2. apps[x].max \in Nat
        BY LinksAssumption DEF IInv, Types, AppRows
    <2>. QED  BY <1>9, <1>10, <2>1, <2>2, LimitShrinks DEF IInv
<1>. QED  BY <1>5, <1>7, <1>8, <1>11, <1>12 DEF IInv

-----------------------------------------------------------------------------
(* Transactions commit.                                                    *)

\* No account, no link and no transaction that makes one is added.
LEMMA SumsKept ==
    ASSUME IInv, UNCHANGED apps, loose \subseteq loose',
           Registered' \subseteq Registered, Creating' \subseteq Creating,
           \A x \in Apps \ loose' : /\ Linked(x)' \subseteq Linked(x)
                                    /\ Joining(x)' \subseteq Joining(x)
    PROVE  TariffSum' /\ LimitSum'
<1>1. TariffSum'
    BY TariffShrinks DEF IInv
<1>2. LimitSum'
    <2>1. SUFFICES ASSUME NEW x \in Apps \ loose', apps[x].made
                   PROVE  Cardinality(Linked(x)') + Cardinality(Joining(x)')
                             < apps[x].max + Cardinality(Requests)
        BY DEF LimitSum
    <2>2. apps[x].max \in Nat
        BY LinksAssumption DEF IInv, Types, AppRows
    <2>3. x \in Apps /\ x \notin loose
        BY <2>1
    <2>. QED  BY <2>1, <2>2, <2>3, LimitShrinks DEF IInv
<1>. QED  BY <1>1, <1>2

\* A link that is made was counted among those to be made.
LEMMA LimitMoves ==
    ASSUME LimitSum, Types, NEW x \in Apps, x \notin loose, apps[x].made,
           NEW a, NEW r \in Joining(x),
           Linked(x)' \subseteq Linked(x) \cup {a}, Joining(x)' \subseteq Joining(x) \ {r}
    PROVE  Cardinality(Linked(x)') + Cardinality(Joining(x)')
              < apps[x].max + Cardinality(Requests)
<1>1. PICK C, D : C = Linked(x)' /\ D = Joining(x)'
    OBVIOUS
<1>2. Cardinality(C) + Cardinality(D) <= Cardinality(Linked(x)) + Cardinality(Joining(x))
    BY <1>1, SetsFinite, SumMoves
<1>3. IsFiniteSet(C) /\ IsFiniteSet(D)
    <2>1. IsFiniteSet(Linked(x) \cup {a})
        BY SetsFinite, FS_AddElement
    <2>. QED  BY <1>1, <2>1, SetsFinite, FS_Subset
<1>4. apps[x].max \in Nat
    BY LinksAssumption DEF Types, AppRows
<1>. QED  BY <1>1, <1>2, <1>3, <1>4, SetsFinite, FS_CardinalityType DEF LimitSum

LEMMA CreateCommitsInv == ASSUME IInv, NEW r \in Requests, CreateCommits(r) PROVE IInv'
<1>1. PICK a, n : a = req[r].acc /\ n = req[r].new
    OBVIOUS
<1>2. /\ req[r].op = "create" /\ ~rows[a].made /\ Accepts(a, n)
      /\ rows' = [rows EXCEPT ![a] = n] /\ user' = None /\ Ends(r)
      /\ UNCHANGED <<apps, proxies, photos, loose, left>>
    BY <1>1 DEF CreateCommits, In
<1>3. a \in Accounts /\ n \in Rows /\ n.made /\ n.photo = None /\ req[r].seen.app = None
    BY <1>1, <1>2 DEF IInv, ReqOK, GoodReq, Types, Transactions
<1>4. /\ rows' \in [Accounts -> Rows] /\ rows'[a] = n
      /\ \A b \in Accounts \ {a} : rows'[b] = rows[b]
    BY <1>2, <1>3 DEF IInv, Types
<1>5. /\ req' \in [Requests -> Transactions] /\ Creating' = Creating \ {r}
      /\ \A x : Joining(x)' = Joining(x) \ {r}
    BY <1>2, EndEffect DEF IInv, Types
<1>6. Types'
    BY <1>2, <1>4, <1>5 DEF IInv, Types
<1>7. Keys'
    BY <1>2, <1>3, <1>4 DEF IInv, Keys, Accepts
<1>8. ReqOK' /\ OneCycle'
    BY <1>2, <1>4, EndsGood
<1>9. PhotoAgrees'
    <2>1. \A p \in Photos : photos[p].owner \in Accounts \cup {None}
        BY DEF IInv, Types
    <2>. QED  BY <1>2, <1>4, <2>1 DEF IInv, PhotoAgrees
<1>10. TariffSum'
    <2>1. PICK C, D : C = Registered' /\ D = Creating'
        OBVIOUS
    <2>2. C \subseteq Registered \cup {a} /\ D \subseteq Creating \ {r} /\ r \in Creating
        BY <1>2, <1>4, <1>5, <2>1 DEF Registered, Creating
    <2>3. Cardinality(C) + Cardinality(D) <= Cardinality(Registered) + Cardinality(Creating)
        BY <2>2, SetsFinite, SumMoves
    <2>4. IsFiniteSet(C) /\ IsFiniteSet(D)
        <3>1. IsFiniteSet(Registered \cup {a})
            BY SetsFinite, FS_AddElement
        <3>. QED  BY <2>2, <3>1, SetsFinite, FS_Subset
    <2>. QED  BY <2>1, <2>3, <2>4, SetsFinite, FS_CardinalityType, LinksAssumption
              DEF IInv, TariffSum
<1>11. LimitSum'
    <2>1. SUFFICES ASSUME NEW x \in Apps, x \notin loose, apps[x].made
                   PROVE  Cardinality(Linked(x)') + Cardinality(Joining(x)')
                             < apps[x].max + Cardinality(Requests)
        BY <1>2 DEF LimitSum
    <2>2. CASE n.app = x
        <3>1. r \in Joining(x)
            BY <1>1, <1>2, <1>3, <2>1, <2>2, LinksAssumption DEF Joining
        <3>2. Linked(x)' \subseteq Linked(x) \cup {a}
            BY <1>4 DEF Linked, Registered
        <3>. QED  BY <1>5, <2>1, <3>1, <3>2, LimitMoves DEF IInv
    <2>3. CASE n.app # x
        <3>1. Linked(x)' \subseteq Linked(x)
            BY <1>4, <2>3 DEF Linked, Registered
        <3>2. apps[x].max \in Nat
            BY LinksAssumption DEF IInv, Types, AppRows
        <3>. QED  BY <1>5, <2>1, <3>1, <3>2, LimitShrinks DEF IInv
    <2>. QED  BY <2>2, <2>3
<1>. QED  BY <1>6, <1>7, <1>8, <1>9, <1>10, <1>11 DEF IInv

\* What a commit makes of a row.
LEMMA WrittenRow ==
    ASSUME NEW cur \in Rows, NEW seen \in Rows, NEW new \in Rows,
           seen.made = new.made, seen.photo = new.photo,
           NEW u, u = Written(cur, seen, new)
    PROVE  /\ u \in Rows /\ u.made = cur.made /\ u.photo = cur.photo
           /\ u.app = IF new.app = seen.app THEN cur.app ELSE new.app
<1>1. DOMAIN cur = {"made", "app", "proxy", "photo"}
    BY DEF Rows
<1>2. u = [c \in {"made", "app", "proxy", "photo"} |->
              IF new[c] = seen[c] THEN cur[c] ELSE new[c]]
    BY <1>1 DEF Written
<1>3. u = [made |-> u.made, app |-> u.app, proxy |-> u.proxy, photo |-> u.photo]
    BY <1>2
<1>4. /\ u.made = cur.made /\ u.photo = cur.photo
      /\ u.app = IF new.app = seen.app THEN cur.app ELSE new.app
      /\ u.proxy \in {cur.proxy, new.proxy}
    BY <1>2
<1>5. /\ u.made \in BOOLEAN /\ u.app \in Apps \cup {None} /\ u.proxy \in Proxies \cup {None}
      /\ u.photo \in Photos \cup {None}
    BY <1>4 DEF Rows
<1>. QED  BY <1>3, <1>4, <1>5 DEF Rows

LEMMA UpdateCommitsInv == ASSUME IInv, NEW r \in Requests, UpdateCommits(r) PROVE IInv'
<1>1. PICK a, seen, new, cur : /\ a = req[r].acc /\ seen = req[r].seen /\ new = req[r].new
                               /\ cur = rows[a]
    OBVIOUS
<1>2. PICK u : u = Written(cur, seen, new)
    OBVIOUS
<1>3. /\ req[r].op \in {"update", "assign"} /\ a \in Registered /\ Accepts(a, u)
      /\ rows' = [rows EXCEPT ![a] = u] /\ Ends(r)
      /\ UNCHANGED <<apps, proxies, photos, user, left>>
    BY <1>1, <1>2 DEF UpdateCommits, In, Updated
<1>4. loose' = IF req[r].op = "update" /\ new.app # seen.app
               THEN loose \cup ({new.app} \ {None}) ELSE loose
    BY <1>1 DEF UpdateCommits
<1>5. /\ a \in Accounts /\ cur \in Rows /\ cur.made /\ seen \in Rows /\ new \in Rows
      /\ seen.made = new.made /\ seen.photo = new.photo
    BY <1>1, <1>3 DEF IInv, ReqOK, GoodReq, Types, Transactions, Registered
<1>6. /\ u \in Rows /\ u.made /\ u.photo = cur.photo
      /\ u.app = IF new.app = seen.app THEN cur.app ELSE new.app
    BY <1>2, <1>5, WrittenRow
<1>7. /\ rows' \in [Accounts -> Rows] /\ rows'[a] = u
      /\ \A b \in Accounts \ {a} : rows'[b] = rows[b]
    BY <1>3, <1>5, <1>6 DEF IInv, Types
<1>8. /\ req' \in [Requests -> Transactions] /\ Creating' = Creating \ {r}
      /\ \A x : Joining(x)' = Joining(x) \ {r}
    BY <1>3, EndEffect DEF IInv, Types
<1>9. loose' \subseteq Apps /\ loose \subseteq loose'
    BY <1>4, <1>5 DEF IInv, Types, Rows
<1>10. Types'
    BY <1>3, <1>7, <1>8, <1>9 DEF IInv, Types
<1>11. Keys'
    BY <1>3, <1>6, <1>7 DEF IInv, Keys, Accepts
<1>12. ReqOK' /\ OneCycle'
    BY <1>1, <1>3, <1>6, <1>7, EndsGood
<1>13. PhotoAgrees'
    <2>1. \A p \in Photos : photos[p].owner \in Accounts \cup {None}
        BY DEF IInv, Types
    <2>. QED  BY <1>1, <1>3, <1>6, <1>7, <2>1 DEF IInv, PhotoAgrees
<1>14. Registered' \subseteq Registered
    BY <1>3, <1>7 DEF Registered
<1>15. TariffSum'
    BY <1>8, <1>14, TariffShrinks DEF IInv
<1>16. LimitSum'
    <2>1. SUFFICES ASSUME NEW x \in Apps, x \notin loose', apps[x].made
                   PROVE  Cardinality(Linked(x)') + Cardinality(Joining(x)')
                             < apps[x].max + Cardinality(Requests)
        BY <1>3 DEF LimitSum
    <2>2. x \notin loose
        BY <1>9, <2>1
    <2>3. CASE new.app = x /\ seen.app # x
        <3>1. req[r].op = "assign"
            BY <1>3, <1>4, <2>1, <2>3, LinksAssumption
        <3>2. r \in Joining(x)
            BY <1>1, <2>3, <3>1 DEF Joining
        <3>3. Linked(x)' \subseteq Linked(x) \cup {a}
            BY <1>7 DEF Linked, Registered
        <3>. QED  BY <1>8, <2>1, <2>2, <3>2, <3>3, LimitMoves DEF IInv
    <2>4. CASE ~(new.app = x /\ seen.app # x)
        <3>1. Linked(x)' \subseteq Linked(x)
            BY <1>1, <1>3, <1>6, <1>7, <2>4 DEF Linked, Registered
        <3>2. apps[x].max \in Nat
            BY LinksAssumption DEF IInv, Types, AppRows
        <3>. QED  BY <1>8, <2>1, <2>2, <3>1, <3>2, LimitShrinks DEF IInv
    <2>. QED  BY <2>3, <2>4
<1>. QED  BY <1>10, <1>11, <1>12, <1>13, <1>15, <1>16 DEF IInv

LEMMA DeleteAccountInv == ASSUME IInv, NEW a \in Accounts, DeleteAccount(a) PROVE IInv'
<1>1. /\ left > 0 /\ left' = left - 1 /\ rows' = [rows EXCEPT ![a] = NoRow]
      /\ \A p \in Photos : photos[p].owner # a
      /\ UNCHANGED <<apps, proxies, photos, user, loose>>
    BY DEF DeleteAccount
<1>2. /\ req' = [r \in Requests |-> req'[r]]
      /\ \A r \in Requests : req'[r] = IF req[r].acc = a /\ req[r].op # "create"
                                       THEN [req[r] EXCEPT !.acc = None] ELSE req[r]
    BY DEF DeleteAccount
<1>3. NoRow \in Rows /\ NoRow.app = None /\ NoRow.proxy = None /\ ~NoRow.made
    BY DEF NoRow, Rows
<1>4. /\ rows' \in [Accounts -> Rows] /\ rows'[a] = NoRow
      /\ \A b \in Accounts \ {a} : rows'[b] = rows[b]
    BY <1>1, <1>3 DEF IInv, Types
<1>5. ASSUME NEW r \in Requests
      PROVE  /\ req'[r] \in Transactions
             /\ req'[r].op = req[r].op /\ req'[r].phase = req[r].phase
             /\ req'[r].seen = req[r].seen /\ req'[r].new = req[r].new
             /\ req'[r].app = req[r].app /\ req'[r].was = req[r].was
             /\ req'[r].set = req[r].set
             /\ \/ req'[r].acc = req[r].acc /\ (req[r].acc # a \/ req[r].op = "create")
                \/ req'[r].acc = None /\ req[r].op # "create"
    <2>1. req[r] \in Transactions
        BY DEF IInv, Types
    <2>. QED  BY <1>2, <2>1 DEF Transactions
<1>6. Types'
    BY <1>1, <1>2, <1>4, <1>5, LinksAssumption DEF IInv, Types
<1>7. Keys'
    BY <1>1, <1>3, <1>4 DEF IInv, Keys
<1>8. ReqOK'
    <2>1. SUFFICES ASSUME NEW r \in Requests PROVE GoodReq(req[r])'
        BY DEF ReqOK
    <2>2. GoodReq(req[r])
        BY DEF IInv, ReqOK
    <2>3. req[r].acc \in Accounts \cup {None}
        BY DEF IInv, Types, Transactions
    <2>. QED  BY <1>4, <1>5, <2>2, <2>3 DEF GoodReq
<1>9. OneCycle'
    BY <1>5 DEF IInv, OneCycle
<1>10. PhotoAgrees'
    <2>1. \A p \in Photos : photos[p].owner \in Accounts \cup {None}
        BY DEF IInv, Types
    <2>. QED  BY <1>1, <1>4, <2>1 DEF IInv, PhotoAgrees
<1>11. TariffSum' /\ LimitSum'
    <2>1. Registered' \subseteq Registered /\ \A x : Linked(x)' \subseteq Linked(x)
        BY <1>3, <1>4 DEF Registered, Linked
    <2>2. Creating' \subseteq Creating /\ \A x : Joining(x)' \subseteq Joining(x)
        BY <1>5 DEF Creating, Joining
    <2>. QED  BY <1>1, <2>1, <2>2, SumsKept
<1>. QED  BY <1>6, <1>7, <1>8, <1>9, <1>10, <1>11 DEF IInv

-----------------------------------------------------------------------------
(* The administrator's applications and proxies.                           *)

\* Nobody is linked to an application that is not there.
LEMMA NoneLinked ==
    ASSUME IInv, NEW x \in Apps, ~apps[x].made
    PROVE  Linked(x) = {}
BY LinksAssumption DEF IInv, Keys, Linked, Registered

LEMMA AppCommitsInv == ASSUME IInv, NEW r \in Requests, AppCommits(r) PROVE IInv'
<1>1. PICK x, was, set : x = req[r].app /\ was = req[r].was /\ set = req[r].set
    OBVIOUS
<1>2. PICK v : v = IF set.made THEN Written(apps[x], was, set) ELSE NoApp
    OBVIOUS
<1>3. /\ req[r].op = "app" /\ apps[x].made /\ (~set.made => Linked(x) = {})
      /\ apps' = [apps EXCEPT ![x] = v] /\ Ends(r)
      /\ loose' = IF apps'[x].max < apps[x].max THEN loose \cup {x} ELSE loose
      /\ UNCHANGED <<rows, proxies, photos, user, left>>
    BY <1>1, <1>2 DEF AppCommits, In
<1>4. /\ x \in Apps /\ was \in AppRows /\ set \in AppRows /\ (set.made => was.made)
      /\ apps[x] \in AppRows
    BY <1>1, <1>3 DEF IInv, ReqOK, GoodReq, Types, Transactions
<1>5. v \in AppRows /\ v.made = set.made
    <2>1. CASE ~set.made
        <3>1. v = NoApp
            BY <1>2, <2>1
        <3>2. NoApp \in AppRows /\ NoApp.made = FALSE
            BY LinksAssumption DEF NoApp, AppRows
        <3>3. set.made = FALSE
            BY <1>4, <2>1 DEF AppRows
        <3>. QED  BY <3>1, <3>2, <3>3
    <2>2. CASE set.made
        <3>1. DOMAIN apps[x] = {"made", "active", "max"}
            BY <1>4 DEF AppRows
        <3>2. v = [c \in {"made", "active", "max"} |->
                      IF set[c] = was[c] THEN apps[x][c] ELSE set[c]]
            BY <1>2, <2>2, <3>1 DEF Written
        <3>3. v = [made |-> v.made, active |-> v.active, max |-> v.max]
            BY <3>2
        <3>4. /\ v.made \in {apps[x].made, set.made} /\ v.active \in {apps[x].active, set.active}
              /\ v.max \in {apps[x].max, set.max}
            BY <3>2
        <3>5. v.made \in BOOLEAN /\ v.active \in BOOLEAN /\ v.max \in 0..MaxLoad
            BY <1>4, <3>4 DEF AppRows
        <3>6. v \in AppRows
            BY <3>3, <3>5 DEF AppRows
        <3>7. v.made
            BY <1>3, <2>2, <3>4
        <3>8. set.made \in BOOLEAN
            BY <1>4 DEF AppRows
        <3>. QED  BY <2>2, <3>5, <3>6, <3>7, <3>8
    <2>3. set.made \in BOOLEAN
        BY <1>4 DEF AppRows
    <2>. QED  BY <2>1, <2>2, <2>3
<1>6. /\ apps' \in [Apps -> AppRows] /\ apps'[x] = v
      /\ \A y \in Apps \ {x} : apps'[y] = apps[y]
    BY <1>3, <1>4, <1>5 DEF IInv, Types
<1>7. /\ req' \in [Requests -> Transactions] /\ Creating' = Creating \ {r}
      /\ \A y : Joining(y)' = Joining(y) \ {r}
    BY <1>3, EndEffect DEF IInv, Types
<1>8. loose' \subseteq Apps /\ loose \subseteq loose'
    BY <1>3, <1>4 DEF IInv, Types
<1>9. Types'
    BY <1>3, <1>6, <1>7, <1>8 DEF IInv, Types
<1>10. Keys'
    <2>1. SUFFICES ASSUME NEW a \in Accounts
                   PROVE  /\ rows[a].app # None => rows[a].made /\ apps'[rows[a].app].made
                          /\ rows[a].proxy # None => rows[a].made /\ rows[a].proxy \in proxies
        BY <1>3 DEF Keys
    <2>2. /\ rows[a].app # None => rows[a].made /\ apps[rows[a].app].made
          /\ rows[a].proxy # None => rows[a].made /\ rows[a].proxy \in proxies
          /\ rows[a].app \in Apps \cup {None}
        BY DEF IInv, Keys, Types, Rows
    <2>3. CASE rows[a].app = x
        <3>1. a \in Linked(x)
            BY <1>4, <2>2, <2>3, LinksAssumption DEF Linked, Registered
        <3>. QED  BY <1>3, <1>5, <1>6, <2>2, <2>3, <3>1
    <2>4. CASE rows[a].app # x
        BY <1>6, <2>2, <2>4
    <2>. QED  BY <2>3, <2>4
<1>11. ReqOK' /\ OneCycle'
    BY <1>3, EndsGood DEF IInv, Types
<1>12. PhotoAgrees'
    BY <1>3 DEF IInv, PhotoAgrees
<1>13. Registered' = Registered /\ \A y : Linked(y)' = Linked(y)
    BY <1>3 DEF Registered, Linked
<1>14. TariffSum'
    BY <1>7, <1>13, TariffShrinks DEF IInv
<1>15. LimitSum'
    <2>1. SUFFICES ASSUME NEW y \in Apps, y \notin loose', apps'[y].made
                   PROVE  Cardinality(Linked(y)') + Cardinality(Joining(y)')
                             < apps'[y].max + Cardinality(Requests)
        BY DEF LimitSum
    <2>2. y \notin loose
        BY <1>8, <2>1
    <2>3. apps[y].max \in Nat /\ apps'[y].max \in Nat
        BY <1>6, LinksAssumption DEF IInv, Types, AppRows
    <2>4. apps[y].made /\ apps'[y].max >= apps[y].max
        BY <1>3, <1>6, <2>1, <2>3
    <2>5. PICK max : max = apps'[y].max
        OBVIOUS
    <2>. QED  BY <1>7, <1>13, <2>1, <2>2, <2>3, <2>4, <2>5, LimitShrinks DEF IInv
<1>. QED  BY <1>9, <1>10, <1>11, <1>12, <1>14, <1>15 DEF IInv

LEMMA CreateAppInv == ASSUME IInv, NEW x \in Apps, CreateApp(x) PROVE IInv'
<1>1. /\ left > 0 /\ left' = left - 1 /\ ~apps[x].made /\ loose' = loose \ {x}
      /\ \A r \in Requests : req[r].new.app # x
      /\ UNCHANGED <<rows, proxies, photos, req, user>>
    BY DEF CreateApp
<1>2. PICK m \in 1..MaxLoad : apps' = [apps EXCEPT ![x] = [made |-> TRUE, active |-> TRUE, max |-> m]]
    BY DEF CreateApp
<1>3. PICK v : v = [made |-> TRUE, active |-> TRUE, max |-> m]
    OBVIOUS
<1>4. v \in AppRows /\ v.made /\ v.max = m
    BY <1>3, LinksAssumption DEF AppRows
<1>5. /\ apps' \in [Apps -> AppRows] /\ apps'[x] = v
      /\ \A y \in Apps \ {x} : apps'[y] = apps[y]
    BY <1>2, <1>3, <1>4 DEF IInv, Types
<1>6. Types'
    BY <1>1, <1>5, LinksAssumption DEF IInv, Types
<1>7. Keys'
    <2>1. \A a \in Accounts : rows[a].app \in Apps \cup {None}
        BY DEF IInv, Types, Rows
    <2>. QED  BY <1>1, <1>4, <1>5, <2>1 DEF IInv, Keys
<1>8. ReqOK' /\ OneCycle' /\ PhotoAgrees'
    BY <1>1 DEF IInv, ReqOK, GoodReq, OneCycle, PhotoAgrees
<1>9. /\ Registered' = Registered /\ \A y : Linked(y)' = Linked(y)
      /\ Creating' = Creating /\ \A y : Joining(y)' = Joining(y)
    BY <1>1 DEF Registered, Linked, Creating, Joining
<1>10. TariffSum'
    BY <1>9, TariffShrinks DEF IInv
<1>11. LimitSum'
    <2>1. SUFFICES ASSUME NEW y \in Apps, y \notin loose', apps'[y].made
                   PROVE  Cardinality(Linked(y)') + Cardinality(Joining(y)')
                             < apps'[y].max + Cardinality(Requests)
        BY DEF LimitSum
    <2>2. CASE y = x
        <3>1. Linked(x) = {} /\ Joining(x) = {}
            BY <1>1, NoneLinked DEF Joining
        <3>2. Cardinality(Linked(x)) = 0 /\ Cardinality(Joining(x)) = 0
            BY <3>1, FS_EmptySet
        <3>. QED  BY <1>4, <1>5, <1>9, <2>2, <3>2, SetsFinite
    <2>3. CASE y # x
        <3>1. apps'[y] = apps[y] /\ y \notin loose
            BY <1>1, <1>5, <2>1, <2>3
        <3>2. apps[y].max \in Nat
            BY LinksAssumption DEF IInv, Types, AppRows
        <3>. QED  BY <1>9, <2>1, <3>1, <3>2, LimitShrinks DEF IInv
    <2>. QED  BY <2>2, <2>3
<1>. QED  BY <1>6, <1>7, <1>8, <1>10, <1>11 DEF IInv

LEMMA ProxyInv ==
    ASSUME IInv, NEW p \in Proxies, CreateProxy(p) \/ DeleteProxy(p)
    PROVE  IInv'
<1>1. /\ left > 0 /\ left' = left - 1
      /\ UNCHANGED <<rows, apps, photos, req, user, loose>>
      /\ \/ proxies' = proxies \cup {p}
         \/ proxies' = proxies \ {p} /\ \A a \in Registered : rows[a].proxy # p
    BY DEF CreateProxy, DeleteProxy
<1>2. Types'
    BY <1>1, LinksAssumption DEF IInv, Types
<1>3. Keys'
    BY <1>1 DEF IInv, Keys, Registered
<1>4. ReqOK' /\ OneCycle' /\ PhotoAgrees'
    BY <1>1 DEF IInv, ReqOK, GoodReq, OneCycle, PhotoAgrees
<1>5. /\ Registered' = Registered /\ \A y : Linked(y)' = Linked(y)
      /\ Creating' = Creating /\ \A y : Joining(y)' = Joining(y)
    BY <1>1 DEF Registered, Linked, Creating, Joining
<1>6. TariffSum' /\ LimitSum'
    BY <1>1, <1>5, SumsKept
<1>. QED  BY <1>2, <1>3, <1>4, <1>6 DEF IInv

-----------------------------------------------------------------------------
(* Photos.                                                                 *)

\* Nothing but photos of rows changes.
LEMMA PhotoSums ==
    ASSUME IInv, UNCHANGED <<apps, loose>>, rows' \in [Accounts -> Rows],
           \A a \in Accounts : rows'[a].made = rows[a].made /\ rows'[a].app = rows[a].app,
           Creating' \subseteq Creating, \A x : Joining(x)' \subseteq Joining(x)
    PROVE  TariffSum' /\ LimitSum'
<1>1. Registered' \subseteq Registered /\ \A x : Linked(x)' \subseteq Linked(x)
    BY DEF Registered, Linked
<1>. QED  BY <1>1, SumsKept

LEMMA PhotoCommitsInv == ASSUME IInv, NEW r \in Requests, PhotoCommits(r) PROVE IInv'
<1>1. PICK a, p : a = req[r].acc /\ p = req[r].new.photo
    OBVIOUS
<1>2. /\ req[r].op = "photo" /\ req[r].phase = "commit" /\ a \in Registered
      /\ rows' = [rows EXCEPT ![a].photo = p] /\ photos' = [photos EXCEPT ![p].owner = a]
      /\ req' = [req EXCEPT ![r].phase = "telegram"]
      /\ UNCHANGED <<apps, proxies, user, loose, left>>
    BY <1>1 DEF PhotoCommits, In
<1>3. /\ a \in Accounts /\ a # None /\ p \in Photos /\ p # None
      /\ rows[a].made /\ rows[a].photo = None /\ rows[a] \in Rows
    BY <1>1, <1>2, LinksAssumption DEF IInv, ReqOK, GoodReq, Registered, Types
<1>4. PICK n : n = [rows[a] EXCEPT !.photo = p]
    OBVIOUS
<1>5. /\ n \in Rows /\ n.made = rows[a].made /\ n.app = rows[a].app
      /\ n.proxy = rows[a].proxy /\ n.photo = p
    BY <1>3, <1>4 DEF Rows
<1>6. /\ rows' \in [Accounts -> Rows] /\ rows'[a] = n
      /\ \A b \in Accounts \ {a} : rows'[b] = rows[b]
    BY <1>2, <1>3, <1>4, <1>5 DEF IInv, Types
<1>7. PICK q : q = [req[r] EXCEPT !.phase = "telegram"]
    OBVIOUS
<1>8. /\ q \in Transactions /\ q.phase = "telegram" /\ q.op = "photo" /\ q.acc = a
      /\ q.new = req[r].new
    <2>1. req[r] \in Transactions
        BY DEF IInv, Types
    <2>. QED  BY <1>1, <1>2, <1>7, <2>1 DEF Transactions
<1>9. /\ req' \in [Requests -> Transactions] /\ req'[r] = q
      /\ \A s \in Requests \ {r} : req'[s] = req[s]
    BY <1>2, <1>7, <1>8 DEF IInv, Types
<1>10. /\ photos' \in [Photos -> [active : BOOLEAN, owner : Accounts \cup {None}]]
       /\ photos'[p].owner = a /\ \A o \in Photos \ {p} : photos'[o] = photos[o]
    <2>1. photos[p] \in [active : BOOLEAN, owner : Accounts \cup {None}]
        BY <1>3 DEF IInv, Types
    <2>2. PICK o : o = [photos[p] EXCEPT !.owner = a]
        OBVIOUS
    <2>3. o \in [active : BOOLEAN, owner : Accounts \cup {None}] /\ o.owner = a
        BY <1>3, <2>1, <2>2
    <2>. QED  BY <1>2, <1>3, <2>2, <2>3 DEF IInv, Types
<1>11. Types'
    BY <1>2, <1>6, <1>9, <1>10 DEF IInv, Types
<1>12. Keys'
    BY <1>2, <1>5, <1>6 DEF IInv, Keys
<1>13. ASSUME NEW s \in Requests
       PROVE  GoodReq(req[s])'
    <2>1. CASE s = r
        BY <1>1, <1>3, <1>5, <1>6, <1>8, <1>9, <2>1 DEF GoodReq
    <2>2. CASE s # r
        <3>1. GoodReq(req[s]) /\ req'[s] = req[s]
            BY <1>9, <2>2 DEF IInv, ReqOK
        <3>2. req[s].op = "photo" => req[s].acc \in (Accounts \ {a}) \cup {None}
            BY <1>1, <1>2, <1>3, <2>2 DEF IInv, OneCycle, Types, Transactions
        <3>. QED  BY <1>6, <3>1, <3>2 DEF GoodReq
    <2>. QED  BY <2>1, <2>2
<1>14. OneCycle'
    BY <1>1, <1>2, <1>8, <1>9 DEF IInv, OneCycle
<1>15. PhotoAgrees'
    <2>1. SUFFICES ASSUME NEW o \in Photos, photos'[o].owner # None
                   PROVE  rows'[photos'[o].owner].made /\ rows'[photos'[o].owner].photo = o
        BY DEF PhotoAgrees
    <2>2. CASE o = p
        BY <1>3, <1>5, <1>6, <1>10, <2>2
    <2>3. CASE o # p
        <3>1. /\ photos'[o] = photos[o] /\ photos[o].owner \in Accounts
              /\ rows[photos[o].owner].made /\ rows[photos[o].owner].photo = o
            BY <1>10, <2>1, <2>3 DEF IInv, PhotoAgrees, Types
        <3>2. photos[o].owner # a
            BY <1>3, <3>1, LinksAssumption
        <3>. QED  BY <1>6, <3>1, <3>2
    <2>. QED  BY <2>2, <2>3
<1>16. TariffSum' /\ LimitSum'
    <2>1. Creating' \subseteq Creating /\ \A x : Joining(x)' \subseteq Joining(x)
        BY <1>8, <1>9 DEF Creating, Joining
    <2>. QED  BY <1>2, <1>5, <1>6, <2>1, PhotoSums
<1>. QED  BY <1>11, <1>12, <1>13, <1>14, <1>15, <1>16 DEF IInv, ReqOK

LEMMA PhotoFailsInv == ASSUME IInv, NEW r \in Requests, PhotoFails(r) PROVE IInv'
<1>1. PICK a, p : a = req[r].acc /\ p = req[r].new.photo
    OBVIOUS
<1>2. /\ req[r].op = "photo" /\ req[r].phase = "telegram" /\ a \in Registered
      /\ rows' = [rows EXCEPT ![a].photo = None] /\ photos' = [photos EXCEPT ![p].owner = None]
      /\ Ends(r)
      /\ UNCHANGED <<apps, proxies, user, loose, left>>
    BY <1>1 DEF PhotoFails, In
<1>3. /\ a \in Accounts /\ a # None /\ p \in Photos
      /\ rows[a].photo = p /\ rows[a] \in Rows
    BY <1>1, <1>2, LinksAssumption DEF IInv, ReqOK, GoodReq, Registered, Types
<1>4. PICK n : n = [rows[a] EXCEPT !.photo = None]
    OBVIOUS
<1>5. /\ n \in Rows /\ n.made = rows[a].made /\ n.app = rows[a].app
      /\ n.proxy = rows[a].proxy
    BY <1>3, <1>4 DEF Rows
<1>6. /\ rows' \in [Accounts -> Rows] /\ rows'[a] = n
      /\ \A b \in Accounts \ {a} : rows'[b] = rows[b]
    BY <1>2, <1>3, <1>4, <1>5 DEF IInv, Types
<1>7. /\ req' \in [Requests -> Transactions] /\ req'[r] = NoReq
      /\ \A s \in Requests \ {r} : req'[s] = req[s]
      /\ Creating' = Creating \ {r} /\ \A x : Joining(x)' = Joining(x) \ {r}
    BY <1>2, EndEffect DEF IInv, Types
<1>8. NoReq.op \notin {"create", "update", "assign", "app", "photo"}
    BY NoReqTyped, LinksAssumption
<1>9. /\ photos' \in [Photos -> [active : BOOLEAN, owner : Accounts \cup {None}]]
      /\ photos'[p].owner = None /\ \A o \in Photos \ {p} : photos'[o] = photos[o]
    <2>1. photos[p] \in [active : BOOLEAN, owner : Accounts \cup {None}]
        BY <1>3 DEF IInv, Types
    <2>2. PICK o : o = [photos[p] EXCEPT !.owner = None]
        OBVIOUS
    <2>3. o \in [active : BOOLEAN, owner : Accounts \cup {None}] /\ o.owner = None
        BY <2>1, <2>2
    <2>. QED  BY <1>2, <1>3, <2>2, <2>3 DEF IInv, Types
<1>10. Types'
    BY <1>2, <1>6, <1>7, <1>9 DEF IInv, Types
<1>11. Keys'
    BY <1>2, <1>5, <1>6 DEF IInv, Keys
<1>12. ASSUME NEW s \in Requests
       PROVE  GoodReq(req[s])'
    <2>1. CASE s = r
        BY <1>7, <1>8, <2>1 DEF GoodReq
    <2>2. CASE s # r
        <3>1. GoodReq(req[s]) /\ req'[s] = req[s]
            BY <1>7, <2>2 DEF IInv, ReqOK
        <3>2. req[s].op = "photo" => req[s].acc \in (Accounts \ {a}) \cup {None}
            BY <1>1, <1>2, <1>3, <2>2 DEF IInv, OneCycle, Types, Transactions
        <3>. QED  BY <1>6, <3>1, <3>2 DEF GoodReq
    <2>. QED  BY <2>1, <2>2
<1>13. OneCycle'
    BY <1>7, <1>8 DEF IInv, OneCycle
<1>14. PhotoAgrees'
    <2>1. SUFFICES ASSUME NEW o \in Photos, photos'[o].owner # None
                   PROVE  rows'[photos'[o].owner].made /\ rows'[photos'[o].owner].photo = o
        BY DEF PhotoAgrees
    <2>2. o # p /\ photos'[o] = photos[o]
        BY <1>9, <2>1
    <2>3. /\ photos[o].owner \in Accounts
          /\ rows[photos[o].owner].made /\ rows[photos[o].owner].photo = o
        BY <2>1, <2>2 DEF IInv, PhotoAgrees, Types
    <2>4. photos[o].owner # a
        BY <1>3, <2>2, <2>3
    <2>. QED  BY <1>6, <2>2, <2>3, <2>4
<1>15. TariffSum' /\ LimitSum'
    BY <1>2, <1>5, <1>6, <1>7, PhotoSums
<1>. QED  BY <1>10, <1>11, <1>12, <1>13, <1>14, <1>15 DEF IInv, ReqOK

LEMMA DeletePhotoInv == ASSUME IInv, NEW p \in Photos, DeletePhoto(p) PROVE IInv'
<1>1. /\ left > 0 /\ left' = left - 1 /\ photos' = [photos EXCEPT ![p].active = FALSE]
      /\ UNCHANGED <<rows, apps, proxies, req, user, loose>>
    BY DEF DeletePhoto
<1>2. /\ photos' \in [Photos -> [active : BOOLEAN, owner : Accounts \cup {None}]]
      /\ \A o \in Photos : photos'[o].owner = photos[o].owner
    <2>1. photos[p] \in [active : BOOLEAN, owner : Accounts \cup {None}]
        BY DEF IInv, Types
    <2>2. PICK o : o = [photos[p] EXCEPT !.active = FALSE]
        OBVIOUS
    <2>3. o \in [active : BOOLEAN, owner : Accounts \cup {None}] /\ o.owner = photos[p].owner
        BY <2>1, <2>2
    <2>. QED  BY <1>1, <2>2, <2>3 DEF IInv, Types
<1>3. Types'
    BY <1>1, <1>2, LinksAssumption DEF IInv, Types
<1>4. Keys' /\ ReqOK' /\ OneCycle'
    BY <1>1 DEF IInv, Keys, ReqOK, GoodReq, OneCycle
<1>5. PhotoAgrees'
    BY <1>1, <1>2 DEF IInv, PhotoAgrees
<1>6. /\ Registered' = Registered /\ \A y : Linked(y)' = Linked(y)
      /\ Creating' = Creating /\ \A y : Joining(y)' = Joining(y)
    BY <1>1 DEF Registered, Linked, Creating, Joining
<1>7. TariffSum' /\ LimitSum'
    BY <1>1, <1>6, SumsKept
<1>. QED  BY <1>3, <1>4, <1>5, <1>7 DEF IInv

-----------------------------------------------------------------------------
(* The theorems.                                                           *)

LEMMA InitInv == Init => IInv
<1>. SUFFICES ASSUME Init PROVE IInv
    OBVIOUS
<1>1. NoRow \in Rows /\ NoRow.app = None /\ NoRow.proxy = None /\ ~NoRow.made
    BY DEF NoRow, Rows
<1>2. \A r \in Requests : req[r] = NoReq
    BY DEF Init
<1>3. Types
    <2>1. apps \in [Apps -> AppRows]
        <3>1. apps \in [Apps -> [made : {TRUE}, active : {TRUE}, max : 1..MaxLoad]]
            BY DEF Init
        <3>2. 1..MaxLoad \subseteq 0..MaxLoad
            BY LinksAssumption
        <3>3. [made : {TRUE}, active : {TRUE}, max : 1..MaxLoad] \subseteq AppRows
            BY <3>2 DEF AppRows
        <3>. QED  BY <3>1, <3>3
    <2>2. photos \in [Photos -> [active : BOOLEAN, owner : Accounts \cup {None}]]
        BY DEF Init
    <2>. QED  BY <1>1, <2>1, <2>2, NoReqTyped, LinksAssumption DEF Init, Types
<1>4. Keys /\ PhotoAgrees
    BY <1>1 DEF Init, Keys, PhotoAgrees
<1>5. NoReq.op \notin {"create", "update", "assign", "app", "photo"}
    BY NoReqTyped, LinksAssumption
<1>6. ReqOK /\ OneCycle
    BY <1>2, <1>5 DEF ReqOK, GoodReq, OneCycle
<1>7. Creating = {} /\ \A x : Joining(x) = {}
    BY <1>2, <1>5 DEF Creating, Joining
<1>8. Registered = {} /\ \A x : Linked(x) = {}
    BY <1>1 DEF Init, Registered, Linked
<1>9. Cardinality({}) = 0
    BY FS_EmptySet
<1>10. TariffSum
    BY <1>7, <1>8, <1>9, SetsFinite, LinksAssumption DEF TariffSum
<1>11. LimitSum
    <2>1. \A x \in Apps : apps[x].max \in Nat
        BY <1>3, LinksAssumption DEF Types, AppRows
    <2>2. Cardinality(Requests) \in Nat /\ Cardinality(Requests) > 0
        BY SetsFinite
    <2>3. ASSUME NEW x \in Apps
          PROVE  Cardinality(Linked(x)) + Cardinality(Joining(x))
                    < apps[x].max + Cardinality(Requests)
        <3>1. Cardinality(Linked(x)) = 0 /\ Cardinality(Joining(x)) = 0
            BY <1>7, <1>8, <1>9
        <3>. QED  BY <3>1, <2>1, <2>2
    <2>. QED  BY <2>3 DEF LimitSum
<1>. QED  BY <1>3, <1>4, <1>6, <1>10, <1>11 DEF IInv

LEMMA NextInv == IInv /\ [Next]_vars => IInv'
<1>. SUFFICES ASSUME IInv, [Next]_vars PROVE IInv'
    OBVIOUS
<1>1. ASSUME NEW r \in Requests,
             \/ CreateBegins(r) \/ CreateLocks(r) \/ CreateCommits(r)
             \/ UpdateBegins(r) \/ AssignBegins(r) \/ UpdateCommits(r)
             \/ AppBegins(r) \/ AppDeletes(r) \/ AppCommits(r)
             \/ PhotoBegins(r) \/ PhotoCommits(r) \/ PhotoFails(r)
      PROVE  IInv'
    BY <1>1, CreateBeginsInv, CreateLocksInv, CreateCommitsInv, UpdateBeginsInv, AssignBeginsInv,
       UpdateCommitsInv, AppBeginsInv, AppDeletesInv, AppCommitsInv, PhotoBeginsInv,
       PhotoCommitsInv, PhotoFailsInv
<1>2. ASSUME NEW r \in Requests, PhotoSet(r) \/ Aborts(r)
      PROVE  IInv'
    <2>1. /\ Ends(r) /\ UNCHANGED <<rows, apps, proxies, photos, loose, left>>
          /\ user' \in {user, None}
        BY <1>2 DEF PhotoSet, Aborts
    <2>2. user' \in Requests \cup {None}
        BY <2>1 DEF IInv, Types
    <2>. QED  BY <2>1, <2>2, EndKeeps
<1>3. CASE UNCHANGED vars
    <2>1. UNCHANGED <<rows, apps, proxies, photos, req, user, loose, left>>
        BY <1>3 DEF vars
    <2>2. Types' /\ Keys' /\ ReqOK' /\ OneCycle' /\ PhotoAgrees'
        BY <2>1 DEF IInv, Types, Keys, ReqOK, GoodReq, OneCycle, PhotoAgrees
    <2>3. /\ Registered' = Registered /\ \A y : Linked(y)' = Linked(y)
          /\ Creating' = Creating /\ \A y : Joining(y)' = Joining(y)
        BY <2>1 DEF Registered, Linked, Creating, Joining
    <2>4. TariffSum' /\ LimitSum'
        BY <2>1, <2>3, SumsKept
    <2>. QED  BY <2>2, <2>4 DEF IInv
<1>. QED  BY <1>1, <1>2, <1>3, DeleteAccountInv, CreateAppInv, ProxyInv, DeletePhotoInv DEF Next

LEMMA Invariance == Spec => []IInv
BY InitInv, NextInv, PTL DEF Spec

\* Every variable keeps its shape and no link points to a row that is gone,
\* whatever transactions overlap: the handlers' checks and the foreign keys.
THEOREM LinksTyped == Spec => []TypeOK
<1>1. IInv => TypeOK
    BY DEF IInv, Types, Keys, TypeOK
<1>. QED  BY <1>1, Invariance, PTL

\* An application's limit is exceeded by less than the number of transactions
\* that overlap: assign_api_app counts without a lock.
THEOREM LimitHolds == Spec => []LimitSlack
<1>1. IInv => LimitSlack
    <2>1. SUFFICES ASSUME IInv, NEW x \in Apps \ loose, apps[x].made
                   PROVE  Cardinality(Linked(x)) < apps[x].max + Cardinality(Requests)
        BY DEF LimitSlack
    <2>2. apps[x].max \in Nat
        BY <2>1, LinksAssumption DEF IInv, Types, AppRows
    <2>. QED  BY <2>1, <2>2, SetsFinite DEF IInv, LimitSum
<1>. QED  BY <1>1, Invariance, PTL

\* The tariff's limit is exceeded by less than the number of requests that
\* overlap: create_tg_account counts in the snapshot from before its lock.
THEOREM TariffHolds == Spec => []TariffSlack
<1>1. IInv => TariffSlack
    BY SetsFinite, LinksAssumption DEF IInv, TariffSum, TariffSlack
<1>. QED  BY <1>1, Invariance, PTL

\* A photo that is assigned to an account is the account's photo, however many
\* cycles take it at once and whatever Telegram refuses: _action_set_photo.
THEOREM PhotosAgree == Spec => []PhotoAgrees
<1>1. IInv => PhotoAgrees
    BY DEF IInv
<1>. QED  BY <1>1, Invariance, PTL
=============================================================================
