----------------------------- MODULE WarmingPlan -----------------------------
(***************************************************************************)
(* The warming of one account, day by day: the plan of each day, the       *)
(* actions of the plan with what they do at Telegram, the libraries the    *)
(* administrator keeps for them, and the column warming_joined_channels    *)
(* in which the actions record what they have done.                        *)
(*                                                                         *)
(* One cycle runs at a time (module AccountWork says when that is so).  It *)
(* keeps the account's row in its session.  The column is plain JSON: the  *)
(* session writes it only if it holds another object than the one that was *)
(* loaded or last written, and the actions change the object they find.    *)
(***************************************************************************)
EXTENDS Integers, Sequences, FiniteSets

CONSTANTS
    Chats,       \* WarmingChannel.username
    Groups,      \* those of channel_type "group"
    None,
    MaxFaults,   \* bound: cycles that fail or are cut short
    MaxEdits     \* bound: changes the administrator makes to the libraries

ASSUME PlanAssumption ==
    /\ Groups \subseteq Chats
    /\ IsFiniteSet(Chats)
    /\ MaxFaults \in Nat
    /\ MaxEdits \in Nat

VARIABLES
    chats,    \* warming_channels: absent, is_active, or deleted
    stock,    \* libraries with an active entry: usernames, names, trusted accounts
    row,      \* the account's row
    mem,      \* the session of the running cycle
    joined,   \* Telegram: the chats the account is a member of
    did,      \* Telegram: how often a one-time action was carried out (2: or more)
    walked,   \* history: the days whose plan was gone through to its end
    faults,   \* cycles still to fail
    edits     \* changes still to be made to the libraries

vars == <<chats, stock, row, mem, joined, did, walked, faults, edits>>

OneTime == {"set_bio", "set_username", "set_name", "add_contacts"}

\* What each one-time action but set_bio, which has a fallback, cannot do without.
Stocks == {"set_username", "set_name", "add_contacts"}

Target  == 15
Setback == 3

\* warming_joined_channels as the warmup handler sets it; NULL for an account
\* that check_tg_cooldowns has put to warming without a warmup.
NewRecord == [joined |-> {}, once |-> {}]

NoMem == [phase |-> "idle", day |-> 0, pos |-> 0, record |-> None, new |-> FALSE]

Init ==
    /\ chats \in [Chats -> {"absent", "active"}]
    /\ stock = {}
    /\ \E r \in {None, NewRecord} :
          row = [status |-> "warming", day |-> 0, flood |-> FALSE, record |-> r]
    /\ mem = NoMem
    /\ joined = {}
    /\ did = [a \in OneTime |-> 0]
    /\ walked = {}
    /\ faults = MaxFaults
    /\ edits = MaxEdits

-----------------------------------------------------------------------------
(* The daily plan.                                                         *)

\* An action without effect on what is modelled here, and one with a number
\* of chats, drawn from a set.
Do(action) == [do |-> action, counts |-> {}]

Join(action, counts) == [do |-> action, counts |-> counts]

\* _get_daily_plan
Plan(day) ==
    CASE day = 1 -> <<Do("go_online"), Do("set_photo")>>
      [] day = 2 -> <<Do("go_online"), Do("add_contacts")>>
      [] day = 3 -> <<Do("go_online"), Do("trusted_conversation"), Do("send_saved_message")>>
      [] day = 4 -> <<Do("go_online"), Join("join_channels", {1, 2}), Do("read_channels")>>
      [] day = 5 -> <<Do("go_online"), Do("set_bio"), Join("join_channels", {1}), Do("react")>>
      [] day \in {6, 7} -> <<Do("go_online"), Join("join_groups", {1}), Do("react"),
                             Do("read_channels")>>
      [] day = 8 -> <<Do("go_online"), Do("set_username"), Join("join_channels", {1, 2}),
                      Do("react")>>
      [] day = 9 -> <<Do("go_online"), Join("join_channels", {1, 2}), Do("react")>>
      [] day \in {10, 11} -> <<Do("go_online"), Do("read_channels"), Do("react"),
                               Do("send_saved_message")>>
      [] day = 12 -> <<Do("go_online"), Do("set_name"), Do("read_channels"), Do("react"),
                       Join("join_channels", {1}), Do("send_saved_message")>>
      [] day = 13 -> <<Do("go_online"), Do("read_channels"), Do("react"),
                       Join("join_channels", {1}), Do("send_saved_message")>>
      [] OTHER -> <<Do("go_online"), Do("read_channels"), Do("react"),
                    Join("join_channels", {0, 1}), Do("send_saved_message")>>

-----------------------------------------------------------------------------
(* The session of a cycle.                                                 *)

Larger(m, n) == IF m > n THEN m ELSE n

Least(m, n) == IF m < n THEN m ELSE n

Step == Plan(mem.day)[mem.pos]

At(phase) == mem.phase = phase

\* _get_joined_channels and _is_done_once, of the object the session holds.
Known == IF mem.record = None THEN NewRecord ELSE mem.record

IsDone(a) == a \in Known.once

\* The object found is changed and assigned to the column it came from; only
\* where the column was NULL does the assignment bring in another object.
Recorded(r) == [mem EXCEPT !.record = r, !.new = @ \/ mem.record = None, !.phase = "save"]

\* _mark_done_once
MarkDone(a) == Recorded([Known EXCEPT !.once = @ \cup {a}])

\* _save_joined_channels
SaveJoined(C) == Recorded([Known EXCEPT !.joined = @ \cup C])

\* What the next commit leaves in the column.
Written == IF mem.new THEN mem.record ELSE row.record

Commit(status, day) ==
    row' = [row EXCEPT !.status = status, !.day = day, !.record = Written]

Ends == mem' = NoMem

Fault == faults > 0 /\ faults' = faults - 1

Telegram == <<joined, did>>
Libraries == <<chats, stock, edits>>

-----------------------------------------------------------------------------
(* _run_tg_warming_cycle.                                                  *)

\* Day 0 ends when the rest is over.  A throttled cycle leaves it at that; a
\* client that cannot be made puts the account on cooldown.
Begins ==
    LET day == Larger(1, row.day)
    IN  /\ At("idle")
        /\ row.status = "warming"
        /\ \/ /\ row' = [row EXCEPT !.day = day]
              /\ mem' \in {NoMem, [phase |-> "act", day |-> day, pos |-> 1,
                                   record |-> row.record, new |-> FALSE]}
              /\ UNCHANGED faults
           \/ /\ Fault
              /\ row' = [row EXCEPT !.day = day, !.status = "cooldown"]
              /\ UNCHANGED mem
        /\ UNCHANGED <<Telegram, Libraries, walked>>

\* The step fails and says so, or raises what _safe_action swallows, or has
\* no effect that is modelled here.
Acts ==
    /\ At("act")
    /\ mem' = [mem EXCEPT !.phase = "save"]
    /\ UNCHANGED <<row, Telegram, Libraries, walked, faults>>

\* _action_set_bio, _action_set_username, _action_set_name and
\* _action_add_contacts, when not recorded and with the library they need.
ActsOnce ==
    LET a == Step.do
    IN  /\ At("act")
        /\ a \in OneTime
        /\ a \in Stocks => a \in stock
        /\ ~IsDone(a)
        /\ did' = [did EXCEPT ![a] = Least(2, @ + 1)]
        /\ mem' = MarkDone(a)
        /\ UNCHANGED <<row, joined, Libraries, walked, faults>>

\* The chats one call of the action may try: some of those of its type that
\* are active and not recorded.
Candidates(action) ==
    {c \in Chats : /\ chats[c] = "active"
                   /\ (c \in Groups) = (action = "join_groups")
                   /\ c \notin Known.joined}

Targets(action, n) ==
    LET C == Candidates(action)
    IN  {T \in SUBSET C : Cardinality(T) = Least(n, Cardinality(C))}

\* _action_join_channels and _action_join_groups: a chat whose answer does
\* not come in time may have been joined, and only the others are recorded.
Joins ==
    /\ At("act")
    /\ \E n \in Step.counts : \E T \in Targets(Step.do, n) :
          \E in \in SUBSET T : \E answered \in SUBSET in :
              /\ n > 0 /\ T # {}
              /\ joined' = joined \cup in
              /\ mem' = SaveJoined(answered)
    /\ UNCHANGED <<row, did, Libraries, walked, faults>>

\* An exception that _safe_action swallows ends the action half way: what
\* was joined is not recorded.
JoinsHalf ==
    /\ At("act")
    /\ \E n \in Step.counts : \E T \in Targets(Step.do, n) :
          \E in \in SUBSET T : in # {} /\ joined' = joined \cup in
    /\ mem' = [mem EXCEPT !.phase = "save"]
    /\ UNCHANGED <<row, did, Libraries, walked, faults>>

\* The commit after each action.
Saves ==
    /\ At("save")
    /\ Commit(row.status, row.day)
    /\ mem' = [mem EXCEPT !.pos = @ + 1, !.new = FALSE,
                          !.phase = IF mem.pos < Len(Plan(mem.day)) THEN "act" ELSE "done"]
    /\ UNCHANGED <<Telegram, Libraries, walked, faults>>

\* Without a FloodWait the account is active from day 15 on; with one the
\* generic handler catches the TypeError of its age.
AfterDay(day) ==
    IF day < Target THEN "warming" ELSE IF row.flood THEN "cooldown" ELSE "active"

\* The plan is done; after the commit the client may still fail to disconnect.
DayEnds ==
    /\ At("done")
    /\ walked' = walked \cup {mem.day}
    /\ \/ Commit(AfterDay(mem.day + 1), mem.day + 1) /\ UNCHANGED faults
       \/ Commit("cooldown", mem.day + 1) /\ Fault
    /\ Ends
    /\ UNCHANGED <<Telegram, Libraries>>

\* FloodWait in an action, in the middle of a join too: days are taken off.
Flooded ==
    /\ At("act")
    /\ Fault
    /\ \/ UNCHANGED joined
       \/ \E n \in Step.counts : \E T \in Targets(Step.do, n) :
             \E in \in SUBSET T : joined' = joined \cup in
    /\ row' = [row EXCEPT !.status = "cooldown", !.day = Larger(1, mem.day - Setback),
                          !.flood = TRUE]
    /\ Ends
    /\ UNCHANGED <<did, Libraries, walked>>

\* Mutant: a cycle that fails counts as the day.
FailsForward ==
    /\ At("act") \/ At("done")
    /\ Fault
    /\ Commit("cooldown", mem.day + 1)
    /\ Ends
    /\ UNCHANGED <<Telegram, Libraries, walked>>

\* UserDeactivatedBan and AuthKeyUnregistered; or another exception outside
\* the actions, when the client connects or disconnects.
Fails ==
    /\ At("act") \/ At("done")
    /\ Fault
    /\ \E status \in {"banned", "cooldown"} : Commit(status, mem.day)
    /\ Ends
    /\ UNCHANGED <<Telegram, Libraries, walked>>

\* The worker dies, or the soft time limit ends the cycle and another session
\* sets the cooldown: what was not committed is forgotten.
Dies ==
    /\ mem # NoMem
    /\ Fault
    /\ row' \in {row, [row EXCEPT !.status = "cooldown"]}
    /\ Ends
    /\ UNCHANGED <<Telegram, Libraries, walked>>

\* check_tg_cooldowns.
Resumes ==
    /\ At("idle")
    /\ row.status = "cooldown"
    /\ row.day >= Target => ~row.flood
    /\ row' = [row EXCEPT !.status = IF row.day >= Target THEN "active" ELSE "warming"]
    /\ UNCHANGED <<mem, Telegram, Libraries, walked, faults>>

-----------------------------------------------------------------------------
(* The administrator's libraries.                                          *)

Edit == edits > 0 /\ edits' = edits - 1

\* create_channel; the username is unique, deleted rows included.
CreateChannel(c) ==
    /\ Edit
    /\ chats[c] = "absent"
    /\ chats' = [chats EXCEPT ![c] = "active"]
    /\ UNCHANGED <<stock, row, mem, Telegram, walked, faults>>

\* delete_channel
DeleteChannel(c) ==
    /\ Edit
    /\ chats[c] = "active"
    /\ chats' = [chats EXCEPT ![c] = "deleted"]
    /\ UNCHANGED <<stock, row, mem, Telegram, walked, faults>>

Restock(S) ==
    /\ Edit
    /\ S # stock
    /\ stock' = S
    /\ UNCHANGED <<chats, row, mem, Telegram, walked, faults>>

\* create_username and delete_username: the last entry, or the first.
EditUsernames == Restock(stock \cup {"set_username"}) \/ Restock(stock \ {"set_username"})

\* create_name and delete_name
EditNames == Restock(stock \cup {"set_name"}) \/ Restock(stock \ {"set_name"})

\* toggle_trusted, or a trusted account that stops or starts being active.
EditTrusted == Restock(stock \cup {"add_contacts"}) \/ Restock(stock \ {"add_contacts"})

-----------------------------------------------------------------------------
Next ==
    \/ Begins \/ Acts \/ ActsOnce \/ Joins \/ JoinsHalf \/ Saves \/ DayEnds
    \/ Flooded \/ Fails \/ Dies \/ Resumes
    \/ \E c \in Chats : CreateChannel(c) \/ DeleteChannel(c)
    \/ EditUsernames \/ EditNames \/ EditTrusted

Spec == Init /\ [][Next]_vars

-----------------------------------------------------------------------------
(* Properties.                                                             *)

\* What the account's row says of its warming has happened: the days below
\* warming_day were gone through to their end, an account made active has
\* had all of them, and what warming_joined_channels records was done.
ProgressIsReal ==
    /\ \A d \in 1..(row.day - 1) : d \in walked
    /\ row.status = "active" => \A d \in 1..(Target - 1) : d \in walked
    /\ row.record # None => /\ row.record.joined \subseteq joined
                            /\ \A a \in row.record.once : did[a] > 0

-----------------------------------------------------------------------------
(* What docstrings say, and the code does not do.                          *)

\* "Skips if bio was already set (tracked via warming_joined_channels JSON)":
\* a one-time action is carried out once.
OnceOnly == \A a \in OneTime : did[a] <= 1
=============================================================================
