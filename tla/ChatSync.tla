------------------------------ MODULE ChatSync ------------------------------
(***************************************************************************)
(* Copying an account's dialogs, and the members of its groups, into the   *)
(* database: sync_account_data (all of it) and parse_single_chat (one      *)
(* group), which run side by side on several workers.                      *)
(*                                                                         *)
(* A run works in transactions of MySQL's REPEATABLE READ: it looks rows   *)
(* up in the snapshot its transaction began with, inserts those it does    *)
(* not find, and meets the unique keys when it inserts: it waits for the   *)
(* other transaction that inserts the same row, fails if that one commits, *)
(* and of those that wait in a circle the database picks a victim.         *)
(*                                                                         *)
(* rows holds <<0, u>> for user u's row in tg_users and <<c, u>> for its   *)
(* row in tg_chat_members of chat c.                                       *)
(***************************************************************************)
EXTENDS Integers, Sequences, FiniteSets

CONSTANTS
    Accounts,
    Chats,       \* the groups, numbered by members_count
    Users,       \* their members
    Denied,      \* the groups whose members the accounts may not list
    Workers,
    None,
    Orphan,      \* the value a dead run has left in a lock
    Batch,       \* _BATCH_COMMIT_SIZE
    GroupLimit,  \* _MAX_GROUPS_PER_SYNC
    MaxRequests, \* bound: tasks asked for
    MaxFaults    \* bound: how many kinds of fault strike, each once

\* Worker crashes, messages delivered twice, a soft limit swallowed while the
\* admin status is looked up, exceptions no handler knows.
Faults == {"crash", "duplicate", "swallow", "error"}

ASSUME SyncAssumption ==
    /\ Chats \subseteq Nat \ {0}
    /\ Denied \subseteq Chats
    /\ IsFiniteSet(Chats) /\ IsFiniteSet(Users)
    /\ None \notin Accounts \cup Workers
    /\ Orphan \notin Workers \cup {None}
    /\ Batch \in Nat \ {0}
    /\ GroupLimit \in Nat \ {0}
    /\ MaxRequests \in Nat
    /\ MaxFaults \in Nat

VARIABLES
    status,    \* TelegramAccount.status: "verified" or "cooldown"
    chats,     \* tg_account_chats: "none", "never" parsed, "fresh", "stale"
    rows,      \* committed rows of tg_users and tg_chat_members
    syncLock,  \* sync_lock:<account> in Redis
    parseLock, \* parse_lock:<account>:<chat>
    queue,     \* messages: <<account, 0>> for a sync, <<account, chat>> for a parse
    run,       \* the task each worker is running
    requests,  \* tasks asked for
    faults,    \* the kinds of fault that have struck
    listed     \* history: the members whose list earned a chat its stamp

locks   == <<syncLock, parseLock>>
db      == <<status, chats, rows>>
history == <<requests, faults>>
vars    == <<db, locks, queue, run, history, listed>>

\* todo: the chats the present loop has still to handle; list: the members
\* Telegram has listed, left those still to upsert; view: the snapshot, None
\* between transactions; new: rows inserted and not committed.
NoRun == [acc |-> None, only |-> 0, phase |-> "idle", todo |-> {}, list |-> <<>>,
          left |-> <<>>, view |-> None, new |-> {}, late |-> FALSE]

Init ==
    /\ status = [a \in Accounts |-> "verified"]
    /\ chats = [a \in Accounts |-> [c \in Chats |-> "none"]]
    /\ rows = {}
    /\ syncLock = [a \in Accounts |-> None]
    /\ parseLock = [a \in Accounts |-> [c \in Chats |-> None]]
    /\ queue = {}
    /\ run = [w \in Workers |-> NoRun]
    /\ requests = 0
    /\ faults = {}
    /\ listed = [a \in Accounts |-> [c \in Chats |-> {}]]

-----------------------------------------------------------------------------
(* Helpers.                                                                *)

Strikes(f) ==
    /\ f \notin faults
    /\ Cardinality(faults) < MaxFaults
    /\ faults' = faults \cup {f}
    /\ UNCHANGED requests

At(w, P) == run[w].phase \in P

Least(S) == CHOOSE c \in S : \A d \in S : c <= d

SeqRange(s) == {s[i] : i \in DOMAIN s}

\* What Telegram may list: collect_async_gen returns what it has when its
\* time is up, so any part of the members, and nobody is listed twice.
Lists ==
    UNION {{s \in [1..n -> Users] : Cardinality(SeqRange(s)) = n} :
              n \in 0..Cardinality(Users)}

\* The rows that upsert_tg_user and upsert_chat_member find or insert.
Wanted(w) == {<<0, Head(run[w].left)>>, <<Least(run[w].todo), Head(run[w].left)>>}

Snapshot(w) == IF run[w].view = None THEN rows ELSE run[w].view

Missing(w) == Wanted(w) \ (Snapshot(w) \cup run[w].new)

\* Run v holds a row in its transaction that run w wants to insert.
Blocks(v, w) == v # w /\ Missing(w) \cap run[v].new # {}

\* The task ends, and its finally block deletes the lock, whoever's it is.
Ends(w) ==
    /\ run' = [run EXCEPT ![w] = NoRun]
    /\ IF run[w].only = 0
       THEN /\ syncLock' = [syncLock EXCEPT ![run[w].acc] = None]
            /\ UNCHANGED parseLock
       ELSE /\ parseLock' = [parseLock EXCEPT ![run[w].acc][run[w].only] = None]
            /\ UNCHANGED syncLock

-----------------------------------------------------------------------------
(* The two tasks.                                                          *)

\* Mutant: SET without NX.
SyncStartsOver(w, a) ==
    /\ At(w, {"idle"})
    /\ <<a, 0>> \in queue
    /\ status[a] = "verified"
    /\ queue' = queue \ {<<a, 0>>}
    /\ syncLock' = [syncLock EXCEPT ![a] = w]
    /\ run' = [run EXCEPT ![w] = [NoRun EXCEPT !.acc = a, !.phase = "dialogs"]]
    /\ UNCHANGED <<db, parseLock, history, listed>>

\* sync_account_data: SET NX on the lock, or the message is dropped.
SyncStarts(w, a) ==
    /\ At(w, {"idle"})
    /\ <<a, 0>> \in queue
    /\ queue' = queue \ {<<a, 0>>}
    /\ IF syncLock[a] = None /\ status[a] = "verified"
       THEN /\ syncLock' = [syncLock EXCEPT ![a] = w]
            /\ run' = [run EXCEPT ![w] = [NoRun EXCEPT !.acc = a, !.phase = "dialogs"]]
       ELSE UNCHANGED <<syncLock, run>>
    /\ UNCHANGED <<db, parseLock, history, listed>>

\* parse_single_chat, which looks at no status.
ParseStarts(w, a, c) ==
    /\ At(w, {"idle"})
    /\ <<a, c>> \in queue
    /\ queue' = queue \ {<<a, c>>}
    /\ IF parseLock[a][c] = None
       THEN /\ parseLock' = [parseLock EXCEPT ![a][c] = w]
            /\ run' = [run EXCEPT ![w] = [NoRun EXCEPT !.acc = a, !.only = c,
                          !.phase = "list", !.todo = {c}, !.view = rows]]
       ELSE UNCHANGED <<parseLock, run>>
    /\ UNCHANGED <<db, syncLock, history, listed>>

\* get_dialogs returns some of the dialogs.
Dialogs(w) ==
    /\ At(w, {"dialogs"})
    /\ \E D \in SUBSET Chats :
          run' = [run EXCEPT ![w].phase = "chats", ![w].todo = D]
    /\ UNCHANGED <<db, locks, queue, history, listed>>

\* One chat is upserted and committed.
ChatUpserted(w) ==
    /\ At(w, {"chats"})
    /\ run[w].todo # {}
    /\ LET c == Least(run[w].todo)
       IN  /\ chats' = [chats EXCEPT ![run[w].acc][c] = IF @ = "none" THEN "never" ELSE @]
           /\ run' = [run EXCEPT ![w].todo = @ \ {c}]
    /\ UNCHANGED <<status, rows, locks, queue, history, listed>>

\* The admin status of every chat has been looked up and committed, none of
\* which can fail; then the groups due for parsing are selected, the smallest
\* first.  The transaction of this query goes on until the next commit.
GroupsSelected(w) ==
    LET a   == run[w].acc
        due == {c \in Chats : chats[a][c] \in {"never", "stale"}}
    IN  /\ At(w, {"chats"})
        /\ run[w].todo = {}
        /\ run' = [run EXCEPT ![w].phase = "list", ![w].view = rows,
              ![w].todo = {c \in due : Cardinality({d \in due : d < c}) < GroupLimit}]
        /\ UNCHANGED <<db, locks, queue, history, listed>>

\* get_chat_members of the next group.
MembersListed(w) ==
    /\ At(w, {"list"})
    /\ run[w].todo # {}
    /\ Least(run[w].todo) \notin Denied
    /\ \E l \in Lists :
          run' = [run EXCEPT ![w].phase = "upsert", ![w].list = l, ![w].left = l]
    /\ UNCHANGED <<db, locks, queue, history, listed>>

\* ChatAdminRequired, ChannelPrivate: a sync goes on with the next group.
AccessDenied(w) ==
    /\ At(w, {"list"})
    /\ run[w].todo \cap Denied # {}
    /\ Least(run[w].todo) \in Denied
    /\ IF run[w].only = 0
       THEN /\ run' = [run EXCEPT ![w].todo = @ \ {Least(@)}]
            /\ UNCHANGED locks
       ELSE Ends(w)
    /\ UNCHANGED <<db, queue, history, listed>>

\* The next member's rows are looked up, and inserted if they are missing.
MemberUpserted(w) ==
    /\ At(w, {"upsert"})
    /\ run[w].left # <<>>
    /\ Missing(w) \cap rows = {}
    /\ ~\E v \in Workers : Blocks(v, w)
    /\ LET done == Len(run[w].list) - Len(run[w].left) + 1
           full == done % Batch = 0
           new  == run[w].new \cup Missing(w)
       IN  /\ rows' = IF full THEN rows \cup new ELSE rows
           /\ run' = [run EXCEPT ![w].left = Tail(@),
                                 ![w].new = IF full THEN {} ELSE new,
                                 ![w].view = IF full THEN None ELSE Snapshot(w)]
    /\ UNCHANGED <<status, chats, locks, queue, history, listed>>

\* The rest of the members is committed ...
MembersCommitted(w) ==
    /\ At(w, {"upsert"})
    /\ run[w].left = <<>>
    /\ rows' = rows \cup run[w].new
    /\ run' = [run EXCEPT ![w].phase = "stamp", ![w].new = {}, ![w].view = None]
    /\ UNCHANGED <<status, chats, locks, queue, history, listed>>

\* ... and last_parsed_at after it, in a commit of its own.
ChatStamped(w) ==
    LET a == run[w].acc
        c == Least(run[w].todo)
    IN  /\ At(w, {"stamp"})
        /\ chats' = [chats EXCEPT ![a][c] = "fresh"]
        /\ listed' = [listed EXCEPT ![a][c] = SeqRange(run[w].list)]
        /\ run' = [run EXCEPT ![w].phase = "list", ![w].todo = @ \ {c}, ![w].list = <<>>]
        /\ UNCHANGED <<status, rows, locks, queue, history>>

\* Every group is done.
Done(w) ==
    /\ At(w, {"list"})
    /\ run[w].todo = {}
    /\ Ends(w)
    /\ UNCHANGED <<db, queue, history, listed>>

\* FloodWait ends the task; the cooldown overwrites whatever the status is.
Flooded(w) ==
    /\ At(w, {"dialogs", "list"})
    /\ status' = [status EXCEPT ![run[w].acc] = "cooldown"]
    /\ Ends(w)
    /\ UNCHANGED <<chats, rows, queue, history, listed>>

\* Mutant: the duplicate is skipped like that of a chat, with a rollback.
DuplicateSkipped(w) ==
    /\ At(w, {"upsert"})
    /\ run[w].left # <<>>
    /\ Missing(w) \cap rows # {}
    /\ run' = [run EXCEPT ![w].left = Tail(@), ![w].new = {}, ![w].view = None]
    /\ UNCHANGED <<db, locks, queue, history, listed>>

\* Mutant: the upsert is tried again in the same transaction.
DuplicateRetried(w) ==
    /\ At(w, {"upsert"})
    /\ run[w].left # <<>>
    /\ Missing(w) \cap rows # {}
    /\ UNCHANGED vars

\* IntegrityError: another transaction has committed a row that this one did
\* not see.  The exception ends the task, what was not committed is lost.
DuplicateKey(w) ==
    /\ At(w, {"upsert"})
    /\ run[w].left # <<>>
    /\ Missing(w) \cap rows # {}
    /\ Ends(w)
    /\ UNCHANGED <<db, queue, history, listed>>

\* The transactions of the runs in S wait for each other: each for one of S.
\* The database ends those on the circle, or those waiting for it time out.
Deadlocked(w) ==
    /\ \E S \in SUBSET Workers :
          /\ w \in S
          /\ \A v \in S :
                /\ At(v, {"upsert"}) /\ run[v].left # <<>>
                /\ \E u \in S : Blocks(u, v)
    /\ Ends(w)
    /\ UNCHANGED <<db, queue, history, listed>>

\* Any other exception, SoftTimeLimitExceeded among them.
Breaks(w) ==
    /\ ~At(w, {"idle"})
    /\ Strikes("error")
    /\ Ends(w)
    /\ UNCHANGED <<db, queue, listed>>

-----------------------------------------------------------------------------
(* Crashes, time and the users of the API.                                 *)

\* The soft limit is raised inside the admin look-up, which catches every
\* exception: the sync outlives its lock.
Overruns(w) ==
    /\ At(w, {"chats"})
    /\ Strikes("swallow")
    /\ run' = [run EXCEPT ![w].late = TRUE]
    /\ UNCHANGED <<db, locks, queue, listed>>

\* Locks live 3600 and 1800 s, as long as the soft limits of their tasks.
LockExpires(a) ==
    /\ syncLock[a] # None
    /\ syncLock[a] \in Workers => run[syncLock[a]].late
    /\ syncLock' = [syncLock EXCEPT ![a] = None]
    /\ UNCHANGED <<db, parseLock, queue, run, history, listed>>

ParseLockExpires(a, c) ==
    /\ parseLock[a][c] = Orphan
    /\ parseLock' = [parseLock EXCEPT ![a][c] = None]
    /\ UNCHANGED <<db, syncLock, queue, run, history, listed>>

Message(w) == <<run[w].acc, run[w].only>>

\* Mutant: the run is forgotten before its message is put back.
CrashForgets(w) ==
    /\ ~At(w, {"idle"})
    /\ Strikes("crash")
    /\ queue' = queue \cup {<<NoRun.acc, NoRun.only>>}
    /\ run' = [run EXCEPT ![w] = NoRun]
    /\ UNCHANGED <<db, locks, listed>>

\* The process dies, its transaction is rolled back, its locks stay, and the
\* message is delivered again.
Crash(w) ==
    /\ ~At(w, {"idle"})
    /\ Strikes("crash")
    /\ queue' = queue \cup {Message(w)}
    /\ run' = [run EXCEPT ![w] = NoRun]
    /\ syncLock' = [a \in Accounts |-> IF syncLock[a] = w THEN Orphan ELSE syncLock[a]]
    /\ parseLock' = [a \in Accounts |-> [c \in Chats |->
                        IF parseLock[a][c] = w THEN Orphan ELSE parseLock[a][c]]]
    /\ UNCHANGED <<db, listed>>

\* The visibility timeout of the broker (3600 s) has passed.
Redeliver(w) ==
    /\ ~At(w, {"idle"})
    /\ Strikes("duplicate")
    /\ queue' = queue \cup {Message(w)}
    /\ UNCHANGED <<db, locks, run, listed>>

\* 24 hours have passed since the chat was parsed.
Ages(a, c) ==
    /\ chats[a][c] = "fresh"
    /\ chats' = [chats EXCEPT ![a][c] = "stale"]
    /\ UNCHANGED <<status, rows, locks, queue, run, history, listed>>

\* The cooldown ends (modules AccountWork and AuthFlow).
CooldownEnds(a) ==
    /\ status[a] = "cooldown"
    /\ status' = [status EXCEPT ![a] = "verified"]
    /\ UNCHANGED <<chats, rows, locks, queue, run, history, listed>>

Asks(m) ==
    /\ requests < MaxRequests
    /\ requests' = requests + 1
    /\ queue' = queue \cup {m}
    /\ UNCHANGED <<db, locks, run, faults, listed>>

\* trigger_sync, and the end of a sign-in.
AsksSync(a) == status[a] = "verified" /\ Asks(<<a, 0>>)

\* trigger_parse_single_chat
AsksParse(a, c) == chats[a][c] # "none" /\ Asks(<<a, c>>)

-----------------------------------------------------------------------------
WorkerStep(w) ==
    \/ Dialogs(w) \/ ChatUpserted(w) \/ GroupsSelected(w)
    \/ MembersListed(w) \/ AccessDenied(w) \/ MemberUpserted(w) \/ MembersCommitted(w)
    \/ ChatStamped(w) \/ Done(w) \/ Flooded(w) \/ DuplicateKey(w) \/ Deadlocked(w)

Starts(w) ==
    \E a \in Accounts : SyncStarts(w, a) \/ \E c \in Chats : ParseStarts(w, a, c)

Next ==
    \/ \E w \in Workers :
          \/ WorkerStep(w) \/ Starts(w)
          \/ Breaks(w) \/ Overruns(w) \/ Crash(w) \/ Redeliver(w)
    \/ \E a \in Accounts : LockExpires(a) \/ CooldownEnds(a) \/ AsksSync(a)
    \/ \E a \in Accounts, c \in Chats :
          ParseLockExpires(a, c) \/ Ages(a, c) \/ AsksParse(a, c)

Spec == Init /\ [][Next]_vars

\* Workers go on with what they have begun: every call to Telegram has a
\* timeout of its own, and the database lets no transaction wait for ever.
FairSpec == Spec /\ \A w \in Workers : WF_vars(WorkerStep(w))

-----------------------------------------------------------------------------
(* Properties.                                                             *)

Snapshots == SUBSET (({0} \cup Chats) \X Users)

\* Every variable keeps its shape.
TypeOK ==
    /\ status \in [Accounts -> {"verified", "cooldown"}]
    /\ chats \in [Accounts -> [Chats -> {"none", "never", "fresh", "stale"}]]
    /\ rows \in Snapshots
    /\ syncLock \in [Accounts -> Workers \cup {None, Orphan}]
    /\ parseLock \in [Accounts -> [Chats -> Workers \cup {None, Orphan}]]
    /\ queue \subseteq Accounts \X ({0} \cup Chats)
    /\ \A w \in Workers :
          /\ run[w].phase \in {"idle", "dialogs", "chats", "list", "upsert", "stamp"}
          /\ run[w].todo \subseteq Chats
          /\ run[w].view = None \/ run[w].view \in Snapshots
          /\ run[w].new \in Snapshots

\* A chat is stamped as parsed only with every member that was listed for it
\* in the database, whatever crashed, was rolled back or collided meanwhile:
\* for a day nothing would list them again.
StampedIsStored ==
    \A a \in Accounts, c \in Chats : {<<c, u>> : u \in listed[a][c]} \subseteq rows

\* One sync per account, until a sync has outlived its lock; one parse per
\* chat of an account, always.
OneOfAKind ==
    \A v, w \in Workers :
        v # w /\ run[v].phase # "idle" /\ Message(v) = Message(w)
            => run[v].only = 0 /\ "swallow" \in faults

\* However the transactions of concurrent runs collide, every run ends.
RunsEnd == \A w \in Workers : ~At(w, {"idle"}) ~> At(w, {"idle"})

=============================================================================
