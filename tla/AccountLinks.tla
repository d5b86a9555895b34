---------------------------- MODULE AccountLinks ----------------------------
(***************************************************************************)
(* What a Telegram account is linked to: its API application, its proxy    *)
(* and its profile photo.  The handlers of one owner's accounts, those of  *)
(* the administrator and the warming action that takes a photo from the    *)
(* library run side by side.                                               *)
(*                                                                         *)
(* MySQL runs each transaction at REPEATABLE READ: all its plain reads see *)
(* the database as of the first one, which for a request is the read of    *)
(* its user.  What a transaction decides is therefore fixed when it        *)
(* begins, and it writes later: only UNIQUE and foreign keys are checked   *)
(* against what the others have committed by then.                         *)
(***************************************************************************)
EXTENDS Integers, FiniteSets

CONSTANTS
    Accounts,     \* the phones the owner may register
    Apps,         \* TelegramApiApp
    Proxies,      \* Proxy
    Photos,       \* WarmingPhoto
    Requests,     \* transactions that may overlap
    None,
    MaxAccounts,  \* the max_accounts of the owner's tariff
    MaxLoad,      \* bound: no application's max_accounts is above it
    Operations    \* bound: how many transactions begin

ASSUME LinksAssumption ==
    /\ None \notin Accounts \cup Apps \cup Proxies \cup Photos
    /\ None \notin {"create", "update", "assign", "app", "photo"}
    /\ IsFiniteSet(Accounts) /\ IsFiniteSet(Requests) /\ Requests # {}
    /\ MaxAccounts \in Nat
    /\ MaxLoad \in Nat \ {0}
    /\ Operations \in Nat

VARIABLES
    rows,      \* telegram_accounts: which exist and what they point to
    apps,      \* telegram_api_apps
    proxies,   \* the rows of proxies
    photos,    \* warming_photos: assigned_account_id, is_active
    req,       \* the transaction each request has open
    user,      \* the request that holds the row lock of the owner
    loose,     \* history: applications named by an update or lowered in limit
    left       \* transactions still to begin

vars == <<rows, apps, proxies, photos, req, user, loose, left>>

NoRow == [made |-> FALSE, app |-> None, proxy |-> None, photo |-> None]

NoApp == [made |-> FALSE, active |-> FALSE, max |-> 0]

NoReq == [op |-> None, phase |-> "idle", acc |-> None, seen |-> NoRow, new |-> NoRow,
          app |-> None, was |-> NoApp, set |-> NoApp]

Init ==
    /\ rows = [a \in Accounts |-> NoRow]
    /\ apps \in [Apps -> [made : {TRUE}, active : {TRUE}, max : 1..MaxLoad]]
    /\ proxies = Proxies
    /\ photos = [p \in Photos |-> [active |-> TRUE, owner |-> None]]
    /\ req = [r \in Requests |-> NoReq]
    /\ user = None
    /\ loose = {}
    /\ left = Operations

-----------------------------------------------------------------------------
(* Helpers.                                                                *)

Registered == {a \in Accounts : rows[a].made}

Linked(x) == {a \in Registered : rows[a].app = x}

Load(x, a) == Cardinality(Linked(x) \ {a})

\* Mutant: an application that is full has room for one more.
RoomFull(a) == {x \in Apps : apps[x].made /\ apps[x].active /\ Load(x, a) <= apps[x].max}

\* assign_api_app: an active application with room for a, of those with the
\* fewest other accounts.  The proxy plays no part.
Room(a) == {x \in Apps : apps[x].made /\ apps[x].active /\ Load(x, a) < apps[x].max}

Choices(a) == {x \in Room(a) : \A y \in Room(a) : Load(x, a) <= Load(y, a)}

\* Another account, as far as the transaction sees, with the same pair.
Taken(a, new) ==
    \E b \in Registered \ {a} : rows[b].app = new.app /\ rows[b].proxy = new.proxy

\* Mutant: no foreign keys.
AcceptsAny(a, new) == new.app # None /\ new.proxy # None => ~Taken(a, new)

\* UNIQUE(api_app_id, proxy_id), which does not count NULLs, and the foreign keys.
Accepts(a, new) ==
    /\ new.app # None /\ new.proxy # None => ~Taken(a, new)
    /\ new.app # None => apps[new.app].made
    /\ new.proxy # None => new.proxy \in proxies

\* A row once the columns that differ from the remembered ones are written.
Written(current, seen, new) ==
    [c \in DOMAIN current |-> IF new[c] = seen[c] THEN current[c] ELSE new[c]]

Updated(r) == Written(rows[req[r].acc], req[r].seen, req[r].new)

Begins(r, new) ==
    /\ req[r] = NoReq
    /\ left > 0
    /\ left' = left - 1
    /\ req' = [req EXCEPT ![r] = new]

Ends(r) == req' = [req EXCEPT ![r] = NoReq]

In(r, op, phase) == req[r].op = op /\ req[r].phase = phase

-----------------------------------------------------------------------------
(* create_tg_account.                                                      *)

\* Mutant: nothing is counted.
CreateBeginsUncounted(r) ==
    \E a \in Accounts \ Registered : \E x \in Choices(a) :
        /\ Begins(r, [NoReq EXCEPT !.op = "create", !.phase = "lock", !.acc = a,
                                   !.new = [NoRow EXCEPT !.made = TRUE, !.app = x]])
        /\ UNCHANGED <<rows, apps, proxies, photos, user, loose>>

\* The phone is new, the tariff leaves room and an application is free, all
\* of it in the state the transaction sees.
CreateBegins(r) ==
    \E a \in Accounts \ Registered : \E x \in Choices(a) :
        /\ Cardinality(Registered) < MaxAccounts
        /\ Begins(r, [NoReq EXCEPT !.op = "create", !.phase = "lock", !.acc = a,
                                   !.new = [NoRow EXCEPT !.made = TRUE, !.app = x]])
        /\ UNCHANGED <<rows, apps, proxies, photos, user, loose>>

\* SELECT ... FOR UPDATE of the owner's row.  The count that follows is a
\* plain read and sees what the transaction saw before it waited.
CreateLocks(r) ==
    /\ In(r, "create", "lock")
    /\ user = None
    /\ user' = r
    /\ req' = [req EXCEPT ![r].phase = "commit"]
    /\ UNCHANGED <<rows, apps, proxies, photos, loose, left>>

\* UNIQUE(owner_user_id, phone_e164) and the foreign key are checked here.
CreateCommits(r) ==
    LET a == req[r].acc
    IN  /\ In(r, "create", "commit")
        /\ ~rows[a].made
        /\ Accepts(a, req[r].new)
        /\ rows' = [rows EXCEPT ![a] = req[r].new]
        /\ user' = None
        /\ Ends(r)
        /\ UNCHANGED <<apps, proxies, photos, loose, left>>

-----------------------------------------------------------------------------
(* update_tg_account, assign_resources, delete_tg_account.                 *)

\* A manual update: the pair must not be in use, NULL proxies included, and
\* the application must exist.
UpdateBegins(r) ==
    \E a \in Registered, x \in Apps \cup {None}, p \in proxies \cup {None} :
        LET new == [rows[a] EXCEPT !.app = x, !.proxy = p]
        IN  /\ new # rows[a]
            /\ x # None => apps[x].made /\ ~Taken(a, new)
            /\ Begins(r, [NoReq EXCEPT !.op = "update", !.phase = "commit", !.acc = a,
                                       !.seen = rows[a], !.new = new])
            /\ UNCHANGED <<rows, apps, proxies, photos, user, loose>>

\* assign_resources, or an update with api_app_id "auto" and maybe a proxy.
AssignBegins(r) ==
    \E a \in Registered : \E x \in Choices(a), p \in proxies \cup {None} :
        /\ Begins(r, [NoReq EXCEPT !.op = "assign", !.phase = "commit", !.acc = a,
                                   !.seen = rows[a],
                                   !.new = [rows[a] EXCEPT !.app = x, !.proxy = p]])
        /\ UNCHANGED <<rows, apps, proxies, photos, user, loose>>

UpdateCommits(r) ==
    LET a == req[r].acc
    IN  /\ In(r, "update", "commit") \/ In(r, "assign", "commit")
        /\ a \in Registered
        /\ Accepts(a, Updated(r))
        /\ rows' = [rows EXCEPT ![a] = Updated(r)]
        /\ loose' = IF req[r].op = "update" /\ req[r].new.app # req[r].seen.app
                     THEN loose \cup ({req[r].new.app} \ {None}) ELSE loose
        /\ Ends(r)
        /\ UNCHANGED <<apps, proxies, photos, user, left>>

\* The foreign key of a photo that is assigned to the account forbids it.
\* What is still to be written to the row will find none: a later account
\* with the same phone has another id.
DeleteAccount(a) ==
    /\ left > 0
    /\ a \in Registered
    /\ \A p \in Photos : photos[p].owner # a
    /\ rows' = [rows EXCEPT ![a] = NoRow]
    /\ req' = [r \in Requests |-> IF req[r].acc = a /\ req[r].op # "create"
                                  THEN [req[r] EXCEPT !.acc = None] ELSE req[r]]
    /\ left' = left - 1
    /\ UNCHANGED <<apps, proxies, photos, user, loose>>

-----------------------------------------------------------------------------
(* The administrator's API applications and proxies.                       *)

\* update_api_app: max_accounts not below the accounts it sees.
AppBegins(r) ==
    \E x \in Apps, m \in 1..MaxLoad, on \in BOOLEAN :
        /\ apps[x].made
        /\ m # apps[x].max => m >= Cardinality(Linked(x))
        /\ Begins(r, [NoReq EXCEPT !.op = "app", !.phase = "commit", !.app = x,
                                   !.was = apps[x], !.set = [made |-> TRUE, active |-> on, max |-> m]])
        /\ UNCHANGED <<rows, apps, proxies, photos, user, loose>>

\* delete_api_app: no account it sees is linked.
AppDeletes(r) ==
    \E x \in Apps :
        /\ apps[x].made
        /\ Linked(x) = {}
        /\ Begins(r, [NoReq EXCEPT !.op = "app", !.phase = "commit", !.app = x,
                                   !.was = apps[x]])
        /\ UNCHANGED <<rows, apps, proxies, photos, user, loose>>

AppCommits(r) ==
    LET x == req[r].app
    IN  /\ In(r, "app", "commit")
        /\ apps[x].made
        /\ ~req[r].set.made => Linked(x) = {}
        /\ apps' = [apps EXCEPT ![x] = IF req[r].set.made
                                      THEN Written(@, req[r].was, req[r].set) ELSE NoApp]
        /\ loose' = IF apps'[x].max < apps[x].max THEN loose \cup {x} ELSE loose
        /\ Ends(r)
        /\ UNCHANGED <<rows, proxies, photos, user, left>>

\* create_api_app: a new row, no transaction has heard of it.
CreateApp(x) ==
    /\ left > 0
    /\ ~apps[x].made
    /\ \A r \in Requests : req[r].app # x /\ req[r].seen.app # x /\ req[r].new.app # x
    /\ \E m \in 1..MaxLoad :
          apps' = [apps EXCEPT ![x] = [made |-> TRUE, active |-> TRUE, max |-> m]]
    /\ loose' = loose \ {x}
    /\ left' = left - 1
    /\ UNCHANGED <<rows, proxies, photos, req, user>>

\* create_proxy
CreateProxy(p) ==
    /\ left > 0
    /\ p \notin proxies
    /\ \A r \in Requests : req[r].seen.proxy # p /\ req[r].new.proxy # p
    /\ proxies' = proxies \cup {p}
    /\ left' = left - 1
    /\ UNCHANGED <<rows, apps, photos, req, user, loose>>

\* delete_proxy checks nothing: the foreign key refuses a proxy in use.
DeleteProxy(p) ==
    /\ left > 0
    /\ p \in proxies
    /\ \A a \in Registered : rows[a].proxy # p
    /\ proxies' = proxies \ {p}
    /\ left' = left - 1
    /\ UNCHANGED <<rows, apps, photos, req, user, loose>>

-----------------------------------------------------------------------------
(* _action_set_photo, and delete_photo.                                    *)

\* A warming cycle, one at a time for an account, has a free photo.
PhotoBegins(r) ==
    \E a \in Registered, p \in Photos :
        /\ rows[a].photo = None
        /\ photos[p].active /\ photos[p].owner = None
        /\ \A s \in Requests : req[s].op = "photo" => req[s].acc # a
        /\ Begins(r, [NoReq EXCEPT !.op = "photo", !.phase = "commit", !.acc = a,
                                   !.new = [NoRow EXCEPT !.photo = p]])
        /\ UNCHANGED <<rows, apps, proxies, photos, user, loose>>

\* Nothing asks again whether the photo is free.
PhotoCommits(r) ==
    LET a == req[r].acc
        p == req[r].new.photo
    IN  /\ In(r, "photo", "commit")
        /\ a \in Registered
        /\ rows' = [rows EXCEPT ![a].photo = p]
        /\ photos' = [photos EXCEPT ![p].owner = a]
        /\ req' = [req EXCEPT ![r].phase = "telegram"]
        /\ UNCHANGED <<apps, proxies, user, loose, left>>

\* Telegram has taken the photo.
PhotoSet(r) ==
    /\ In(r, "photo", "telegram")
    /\ Ends(r)
    /\ UNCHANGED <<rows, apps, proxies, photos, user, loose, left>>

\* Mutant: only the library forgets the assignment.
PhotoFailsHalf(r) ==
    /\ In(r, "photo", "telegram")
    /\ rows' = [rows EXCEPT ![req[r].acc].photo = None]
    /\ Ends(r)
    /\ UNCHANGED <<apps, proxies, photos, user, loose, left>>

\* Telegram refuses it: both sides forget the assignment.
PhotoFails(r) ==
    /\ In(r, "photo", "telegram")
    /\ req[r].acc \in Registered
    /\ rows' = [rows EXCEPT ![req[r].acc].photo = None]
    /\ photos' = [photos EXCEPT ![req[r].new.photo].owner = None]
    /\ Ends(r)
    /\ UNCHANGED <<apps, proxies, user, loose, left>>

\* delete_photo keeps the row and its assignment.
DeletePhoto(p) ==
    /\ left > 0
    /\ photos[p].active
    /\ photos' = [photos EXCEPT ![p].active = FALSE]
    /\ left' = left - 1
    /\ UNCHANGED <<rows, apps, proxies, req, user, loose>>

-----------------------------------------------------------------------------
\* A constraint refuses the write, a row is gone, the client or the database
\* fails: the transaction is rolled back and its locks are free.
Aborts(r) ==
    /\ req[r].phase \in {"lock", "commit"}
    /\ user' = IF user = r THEN None ELSE user
    /\ Ends(r)
    /\ UNCHANGED <<rows, apps, proxies, photos, loose, left>>

Next ==
    \/ \E r \in Requests :
          \/ CreateBegins(r) \/ CreateLocks(r) \/ CreateCommits(r)
          \/ UpdateBegins(r) \/ AssignBegins(r) \/ UpdateCommits(r)
          \/ AppBegins(r) \/ AppDeletes(r) \/ AppCommits(r)
          \/ PhotoBegins(r) \/ PhotoCommits(r) \/ PhotoSet(r) \/ PhotoFails(r)
          \/ Aborts(r)
    \/ \E a \in Accounts : DeleteAccount(a)
    \/ \E x \in Apps : CreateApp(x)
    \/ \E p \in Proxies : CreateProxy(p) \/ DeleteProxy(p)
    \/ \E p \in Photos : DeletePhoto(p)

Spec == Init /\ [][Next]_vars

-----------------------------------------------------------------------------
(* Properties.                                                             *)

Rows == [made : BOOLEAN, app : Apps \cup {None}, proxy : Proxies \cup {None},
         photo : Photos \cup {None}]

AppRows == [made : BOOLEAN, active : BOOLEAN, max : 0..MaxLoad]

Transactions ==
    [op : {None, "create", "update", "assign", "app", "photo"},
     phase : {"idle", "lock", "commit", "telegram"}, acc : Accounts \cup {None},
     seen : Rows, new : Rows, app : Apps \cup {None}, was : AppRows, set : AppRows]

\* Every variable keeps its shape, and no link points to a row that is gone.
TypeOK ==
    /\ rows \in [Accounts -> Rows]
    /\ apps \in [Apps -> AppRows]
    /\ proxies \subseteq Proxies
    /\ photos \in [Photos -> [active : BOOLEAN, owner : Accounts \cup {None}]]
    /\ req \in [Requests -> Transactions]
    /\ user \in Requests \cup {None}
    /\ loose \subseteq Apps
    /\ left \in 0..Operations
    /\ \A a \in Accounts :
          /\ rows[a].app # None => rows[a].made /\ apps[rows[a].app].made
          /\ rows[a].proxy # None => rows[a].made /\ rows[a].proxy \in proxies

\* What overlapping transactions can make of an application's limit: the
\* accounts are counted without a lock, so it is exceeded, by less than the
\* number of transactions that overlap and not further the next time.  A link
\* made by hand asks for no limit, and one that is lowered is compared with
\* the accounts there were when the transaction began.
LimitSlack ==
    \A x \in Apps \ loose :
        apps[x].made => Cardinality(Linked(x)) < apps[x].max + Cardinality(Requests)

\* The same for the accounts of an owner and the tariff: the row lock puts
\* the transactions in a queue and leaves each with what it saw before.
TariffSlack == Cardinality(Registered) < MaxAccounts + Cardinality(Requests)

\* A photo assigned to an account is the one the account has, through
\* transactions that take the same photo, refusals of Telegram and deletions.
PhotoAgrees ==
    \A p \in Photos :
        photos[p].owner # None => /\ rows[photos[p].owner].made
                                  /\ rows[photos[p].owner].photo = p

-----------------------------------------------------------------------------
(* What comments say, and the code does not do.                            *)

\* "Lock the user row to prevent concurrent requests from bypassing the limit".
TariffKept == Cardinality(Registered) <= MaxAccounts

\* A photo that is assigned is free: no two accounts show the same one.
PhotosDistinct ==
    \A a, b \in Registered : a # b /\ rows[a].photo # None => rows[a].photo # rows[b].photo
=============================================================================
