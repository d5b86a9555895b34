------------------------- MODULE LegacyCampaignProofs -------------------------
(***************************************************************************)
(* What a campaign of the older kind keeps, for any number of contacts,    *)
(* accounts, workers and requests and any faults: who serves it, what its  *)
(* completion stands for, and what the owner's usage of the day counts.    *)
(***************************************************************************)
EXTENDS LegacyCampaign, FiniteSetTheorems, WellFoundedInduction, TLAPS

Runs == [phase : Phases, list : SUBSET Contacts, accs : SUBSET Accounts,
         left : SUBSET Contacts, success : Nat]

Rest ==
    /\ status \in {"draft", "active", "paused", "completed", "gone"}
    /\ blocked \subseteq Contacts
    /\ acc \in [Accounts -> {"active", "cooldown", "error"}]
    /\ logged \in BOOLEAN
    /\ queue \in Nat
    /\ req \in [Clients -> {"idle", "read", "active", "failed"}]
    /\ ended \in BOOLEAN
    /\ ops \in 0..Operations
    /\ faults \subseteq Faults

Types == Rest /\ members \subseteq Contacts /\ counter \in Nat /\ run \in [Workers -> Runs]

\* The contacts a run counts, or is about to count, as invited.
Owed(q) == q.success + (IF q.phase = "landed" THEN 1 ELSE 0)

\* Each of them is a member, and on the list of the run.
GoodRun(q, M) ==
    /\ q.left \subseteq q.list
    /\ Owed(q) <= Cardinality(q.list \cap M)

RunsGood == \A w \in Workers : GoodRun(run[w], members)

Landed == {w \in Workers : At(w, "landed")}

Cuts == {"crash", "soft", "hard", "lost", "redis"}

\* Every invite that is counted, or about to be, has been made; without a fault
\* in between every invite is counted, or about to be.
UsageSum ==
    /\ counter + Cardinality(Landed) <= Cardinality(members)
    /\ faults \cap Cuts = {} /\ status # "gone" =>
          counter + Cardinality(Landed) = Cardinality(members)

IInv == Types /\ RunsGood /\ UsageSum /\ ActiveServed

-----------------------------------------------------------------------------
(* Data.                                                                   *)

LEMMA MinIn ==
    ASSUME NEW S \in SUBSET Nat, S # {}
    PROVE  Min(S) \in S
<1>1. PICK x \in S : \A y \in S : <<y, x>> \notin OpToRel(<, Nat)
    BY NatLessThanWellFounded, WFMin
<1>2. \A y \in S : x <= y
    <2>1. ASSUME NEW y \in S, y < x
          PROVE  FALSE
        <3>1. <<y, x>> \in OpToRel(<, Nat)
            BY <2>1 DEF OpToRel
        <3>. QED  BY <1>1, <3>1
    <2>. QED  BY <2>1
<1>. QED  BY <1>2 DEF Min

LEMMA CallingIn ==
    ASSUME Types, NEW w \in Workers, run[w].left # {}
    PROVE  Calling(w) \in run[w].left /\ Calling(w) \in Contacts
<1>1. run[w].left \subseteq Contacts
    BY DEF Types, Runs
<1>. QED  BY <1>1, MinIn, CampaignAssumption DEF Calling

LEMMA SetsFinite ==
    /\ IsFiniteSet(Landed) /\ Cardinality(Landed) \in Nat
    /\ \A S \in SUBSET Contacts : IsFiniteSet(S) /\ Cardinality(S) \in Nat
<1>1. Landed \subseteq Workers
    BY DEF Landed
<1>. QED  BY <1>1, CampaignAssumption, FS_Subset, FS_CardinalityType

LEMMA NoRunGood ==
    /\ NoRun \in Runs /\ NoRun.phase = "idle"
    /\ \A M : GoodRun(NoRun, M)
<1>1. NoRun \in Runs
    BY DEF NoRun, Runs, Phases
<1>2. ASSUME NEW M
      PROVE  GoodRun(NoRun, M)
    <2>1. {} \cap M = {} /\ Cardinality({}) = 0
        BY FS_EmptySet
    <2>. QED  BY <2>1 DEF NoRun, GoodRun, Owed
<1>. QED  BY <1>1, <1>2 DEF NoRun

\* A run's members stay when there are more of them.
LEMMA GoodGrows ==
    ASSUME NEW q \in Runs, NEW M \in SUBSET Contacts, NEW N \in SUBSET Contacts,
           M \subseteq N, GoodRun(q, M)
    PROVE  GoodRun(q, N)
<1>1. q.list \cap M \in SUBSET (q.list \cap N) /\ q.list \cap N \in SUBSET Contacts
    BY DEF Runs
<1>2. Cardinality(q.list \cap M) <= Cardinality(q.list \cap N)
    BY <1>1, SetsFinite, FS_Subset
<1>3. /\ Cardinality(q.list \cap M) \in Nat /\ Cardinality(q.list \cap N) \in Nat
      /\ Owed(q) \in Nat
    BY <1>1, SetsFinite DEF Owed, Runs
<1>. QED  BY <1>2, <1>3 DEF GoodRun

-----------------------------------------------------------------------------
(* Parts of a step.                                                        *)

\* One run becomes q.
LEMMA RunMoves ==
    ASSUME Types, RunsGood, NEW w \in Workers, NEW q \in Runs, run' = [run EXCEPT ![w] = q],
           members \subseteq members', members' \subseteq Contacts, GoodRun(q, members')
    PROVE  /\ run' \in [Workers -> Runs] /\ RunsGood'
           /\ \A v \in Workers : run'[v] = IF v = w THEN q ELSE run[v]
<1>1. run' \in [Workers -> Runs] /\ \A v \in Workers : run'[v] = IF v = w THEN q ELSE run[v]
    BY DEF Types
<1>2. ASSUME NEW v \in Workers
      PROVE  GoodRun(run'[v], members')
    <2>1. CASE v = w
        BY <1>1, <2>1
    <2>2. CASE v # w
        <3>1. run'[v] = run[v] /\ run[v] \in Runs /\ GoodRun(run[v], members)
            BY <1>1, <2>2 DEF Types, RunsGood
        <3>. QED  BY <3>1, GoodGrows DEF Types
    <2>. QED  BY <2>1, <2>2
<1>. QED  BY <1>1, <1>2 DEF RunsGood

\* No invite lands and none is counted.
LEMMA UsageStays ==
    ASSUME Types, UsageSum, UNCHANGED <<members, counter>>, Landed' \subseteq Landed,
           faults \subseteq faults', status = "gone" => status' = "gone",
           Landed' = Landed \/ status' = "gone" \/ faults' \cap Cuts # {}
    PROVE  UsageSum'
<1>1. PICK L : L = Landed'
    OBVIOUS
<1>2. Cardinality(L) <= Cardinality(Landed) /\ Cardinality(L) \in Nat
    BY <1>1, SetsFinite, FS_Subset, FS_CardinalityType
<1>3. Cardinality(members) \in Nat
    BY SetsFinite DEF Types
<1>4. counter + Cardinality(Landed) <= Cardinality(members) /\ counter \in Nat
    BY DEF Types, UsageSum
<1>5. counter' + Cardinality(Landed') <= Cardinality(members')
    BY <1>1, <1>2, <1>3, <1>4, SetsFinite
<1>6. ASSUME faults' \cap Cuts = {}, status' # "gone"
      PROVE  counter' + Cardinality(Landed') = Cardinality(members')
    <2>1. Landed' = Landed /\ faults \cap Cuts = {} /\ status # "gone"
        BY <1>6
    <2>. QED  BY <2>1 DEF UsageSum
<1>. QED  BY <1>5, <1>6 DEF UsageSum

\* Whoever was at work for the campaign still is, or has queued a message.
LEMMA ServedStays ==
    ASSUME ActiveServed,
           status' = "active" /\ ~ended' => status = "active" /\ ~ended,
           queue > 0 => queue' > 0,
           \A w \in Workers : run[w].phase # "idle" => run'[w].phase # "idle" \/ queue' > 0,
           \A c \in Clients : req[c] \in {"active", "failed"} =>
                                  req'[c] \in {"active", "failed"} \/ queue' > 0
    PROVE  ActiveServed'
BY DEF ActiveServed, At

LEMMA LandedSame ==
    ASSUME \A v \in Workers : (run'[v].phase = "landed") <=> (run[v].phase = "landed")
    PROVE  Landed' = Landed
BY DEF Landed, At

\* A dispatch goes on as q, at the same contact or past it.
LEMMA Goes ==
    ASSUME IInv, NEW w \in Workers, NEW q \in Runs, run' = [run EXCEPT ![w] = q],
           run[w].phase # "idle", q.phase \notin {"idle", "landed"}, GoodRun(q, members),
           run[w].phase = "landed" => status = "gone" \/ faults' \cap Cuts # {},
           UNCHANGED <<status, members, counter, queue, req, ended, ops>>,
           blocked' \subseteq Contacts, acc' \in [Accounts -> {"active", "cooldown", "error"}],
           logged' \in BOOLEAN, faults \subseteq faults', faults' \subseteq Faults
    PROVE  IInv'
<1>1. /\ run' \in [Workers -> Runs] /\ RunsGood'
      /\ \A v \in Workers : run'[v] = IF v = w THEN q ELSE run[v]
    BY RunMoves DEF IInv, Types
<1>2. Types'
    BY <1>1 DEF IInv, Types, Rest
<1>3. Landed' \subseteq Landed /\ (run[w].phase # "landed" => Landed' = Landed)
    BY <1>1 DEF Landed, At
<1>4. UsageSum'
    BY <1>3, UsageStays DEF IInv
<1>5. ActiveServed'
    BY <1>1, ServedStays DEF IInv
<1>. QED  BY <1>1, <1>2, <1>4, <1>5 DEF IInv

\* A dispatch ends.
LEMMA Ends ==
    ASSUME IInv, NEW w \in Workers, EndRun(w), UNCHANGED <<blocked, acc, members, counter, req, ops>>,
           run[w].phase = "landed" => faults' \cap Cuts # {},
           status = "gone" => status' = "gone",
           status' \in {"draft", "active", "paused", "completed", "gone"},
           logged' \in BOOLEAN, queue' \in Nat, faults \subseteq faults', faults' \subseteq Faults
    PROVE  IInv'
<1>1. /\ run' \in [Workers -> Runs] /\ RunsGood'
      /\ \A v \in Workers : run'[v] = IF v = w THEN NoRun ELSE run[v]
    <2>1. run' = [run EXCEPT ![w] = NoRun]
        BY DEF EndRun
    <2>. QED  BY <2>1, NoRunGood, RunMoves DEF IInv, Types
<1>2. ended' = TRUE
    BY DEF EndRun
<1>3. Types'
    BY <1>1, <1>2 DEF IInv, Types, Rest
<1>4. Landed' \subseteq Landed /\ (run[w].phase # "landed" => Landed' = Landed)
    BY <1>1, NoRunGood DEF Landed, At
<1>5. UsageSum'
    BY <1>4, UsageStays DEF IInv
<1>6. ActiveServed'
    BY <1>2 DEF ActiveServed
<1>. QED  BY <1>1, <1>3, <1>5, <1>6 DEF IInv

\* The dispatches stay.
LEMMA Stays ==
    ASSUME IInv, UNCHANGED <<run, members, counter>>, Rest',
           faults \subseteq faults', status = "gone" => status' = "gone", ActiveServed'
    PROVE  IInv'
<1>1. Types' /\ RunsGood' /\ Landed' = Landed
    BY DEF IInv, Types, RunsGood, Landed, At
<1>2. UsageSum'
    BY <1>1, UsageStays DEF IInv
<1>. QED  BY <1>1, <1>2 DEF IInv

-----------------------------------------------------------------------------
(* The dispatch.                                                           *)

LEMMA DropsInv ==
    ASSUME IInv, NEW w \in Workers, DispatchDrops(w)
    PROVE  IInv'
<1>1. /\ UNCHANGED <<data, tele, run, req, ended, ops, faults>> /\ status # "active"
      /\ queue > 0 /\ queue' = queue - 1
    BY DEF DispatchDrops, Take
<1>2. Rest'
    BY <1>1 DEF IInv, Types, Rest, data
<1>3. ActiveServed'
    BY <1>1 DEF ActiveServed, data
<1>. QED  BY <1>1, <1>2, <1>3, Stays DEF data, tele

LEMMA LoadsInv ==
    ASSUME IInv, NEW w \in Workers, DispatchLoads(w)
    PROVE  IInv'
<1>1. PICK list, accs : list = Contacts \ blocked /\ accs = {a \in Accounts : acc[a] = "active"}
    OBVIOUS
<1>2. /\ run[w].phase = "idle" /\ queue > 0 /\ queue' = queue - 1 /\ queue' \in Nat
      /\ UNCHANGED <<status, blocked, acc, logged, members, counter, req, ops, faults>>
    BY DEF DispatchLoads, Take, At, data, tele, IInv, Types, Rest
<1>3. CASE list = {} \/ accs = {}
    <2>1. EndRun(w)
        BY <1>1, <1>3 DEF DispatchLoads
    <2>. QED  BY <1>2, <2>1, Ends DEF IInv, Types, Rest
<1>4. CASE ~(list = {} \/ accs = {})
    <2>1. PICK q : q = [phase |-> "account", list |-> list, accs |-> accs, left |-> {}, success |-> 0]
        OBVIOUS
    <2>2. run' = [run EXCEPT ![w] = q] /\ ended' = ended
        BY <1>1, <1>4, <2>1 DEF DispatchLoads
    <2>3. q \in Runs /\ q.phase = "account" /\ q.success = 0 /\ q.left = {}
        BY <1>1, <2>1 DEF Runs, Phases
    <2>4. q.list \cap members \in SUBSET Contacts
        BY <2>3 DEF Runs
    <2>5. GoodRun(q, members)
        BY <2>3, <2>4, SetsFinite DEF GoodRun, Owed
    <2>6. /\ run' \in [Workers -> Runs] /\ RunsGood'
          /\ \A v \in Workers : run'[v] = IF v = w THEN q ELSE run[v]
        BY <1>2, <2>2, <2>3, <2>5, RunMoves DEF IInv, Types
    <2>7. Types'
        BY <1>2, <2>2, <2>6 DEF IInv, Types, Rest
    <2>8. Landed' = Landed
        BY <1>2, <2>3, <2>6, LandedSame
    <2>9. UsageSum'
        BY <1>2, <2>8, UsageStays DEF IInv
    <2>10. ActiveServed'
        BY <2>3, <2>6 DEF ActiveServed, At
    <2>. QED  BY <2>6, <2>7, <2>9, <2>10 DEF IInv
<1>. QED  BY <1>3, <1>4

LEMMA LacksTargetInv ==
    ASSUME IInv, NEW w \in Workers, DispatchLacksTarget(w)
    PROVE  IInv'
<1>1. /\ run[w].phase = "idle" /\ queue' \in Nat /\ EndRun(w) /\ logged' \in BOOLEAN
      /\ UNCHANGED <<status, blocked, acc, members, counter, req, ops, faults>>
    BY DEF DispatchLacksTarget, Take, At, tele, IInv, Types, Rest, Logs
<1>. QED  BY <1>1, Ends DEF IInv, Types, Rest

\* The account in use is left: nothing that the run owes is lost.
LEMMA LeavesGood ==
    ASSUME IInv, NEW w \in Workers, LeavesAccount(w), run[w].phase # "idle"
    PROVE  \E q \in Runs : /\ run' = [run EXCEPT ![w] = q] /\ GoodRun(q, members)
                           /\ q.phase = "account"
<1>1. PICK q : q = [run[w] EXCEPT !.accs = @ \ {Using(w)}, !.left = {}, !.phase = "account"]
    OBVIOUS
<1>2. run' = [run EXCEPT ![w] = q] /\ run[w] \in Runs
    BY <1>1 DEF LeavesAccount, IInv, Types
<1>3. /\ q \in Runs /\ q.list = run[w].list /\ q.left = {} /\ q.success = run[w].success
      /\ q.phase = "account"
    BY <1>1, <1>2 DEF Runs, Phases
<1>4. Cardinality(run[w].list \cap members) \in Nat
    BY <1>2, SetsFinite DEF Runs
<1>5. GoodRun(q, members)
    BY <1>2, <1>3, <1>4 DEF IInv, RunsGood, GoodRun, Owed, Runs
<1>. QED  BY <1>2, <1>3, <1>5

LEMMA LeavesContactGood ==
    ASSUME IInv, NEW w \in Workers, LeavesContact(w), run[w].phase # "idle"
    PROVE  \E q \in Runs : /\ run' = [run EXCEPT ![w] = q] /\ GoodRun(q, members)
                           /\ q.phase = "contact"
<1>1. PICK q : q = [run[w] EXCEPT !.left = @ \ {Calling(w)}, !.phase = "contact"]
    OBVIOUS
<1>2. run' = [run EXCEPT ![w] = q] /\ run[w] \in Runs
    BY <1>1 DEF LeavesContact, IInv, Types
<1>3. /\ q \in Runs /\ q.list = run[w].list /\ q.left \subseteq run[w].left
      /\ q.success = run[w].success /\ q.phase = "contact"
    BY <1>1, <1>2 DEF Runs, Phases
<1>4. Cardinality(run[w].list \cap members) \in Nat
    BY <1>2, SetsFinite DEF Runs
<1>5. GoodRun(q, members)
    BY <1>2, <1>3, <1>4 DEF IInv, RunsGood, GoodRun, Owed, Runs
<1>. QED  BY <1>2, <1>3, <1>5

LEMMA OpensInv ==
    ASSUME IInv, NEW w \in Workers, AccountOpens(w)
    PROVE  IInv'
<1>1. PICK q : q = [run[w] EXCEPT !.left = run[w].list, !.phase = "contact"]
    OBVIOUS
<1>2. /\ run' = [run EXCEPT ![w] = q] /\ run[w] \in Runs /\ run[w].phase = "account"
      /\ UNCHANGED <<data, tele, ctrl>>
    BY <1>1 DEF AccountOpens, At, IInv, Types
<1>3. /\ q \in Runs /\ q.list = run[w].list /\ q.left = q.list
      /\ q.success = run[w].success /\ q.phase = "contact"
    BY <1>1, <1>2 DEF Runs, Phases
<1>4. GoodRun(q, members)
    BY <1>2, <1>3 DEF IInv, RunsGood, GoodRun, Owed
<1>. QED  BY <1>2, <1>3, <1>4, Goes DEF data, tele, ctrl, IInv, Types, Rest

LEMMA AccountLeftInv ==
    ASSUME IInv, NEW w \in Workers,
           AccountSkipped(w) \/ AccountFails(w) \/ AccountUsedUp(w) \/ InviteFlooded(w)
    PROVE  IInv'
<1>1. /\ LeavesAccount(w) /\ run[w].phase \in {"account", "contact"}
      /\ UNCHANGED <<status, blocked, tele, ctrl>>
    BY DEF AccountSkipped, AccountFails, AccountUsedUp, InviteFlooded, Invites, At, data
<1>2. logged' \in BOOLEAN
    BY DEF AccountSkipped, AccountFails, AccountUsedUp, InviteFlooded, data, Logs, IInv, Types, Rest
<1>3. acc' \in [Accounts -> {"active", "cooldown", "error"}]
    <2>1. acc \in [Accounts -> {"active", "cooldown", "error"}]
        BY DEF IInv, Types, Rest
    <2>2. \/ acc' = acc \/ acc' = [acc EXCEPT ![Using(w)] = "error"]
          \/ acc' = [acc EXCEPT ![Using(w)] = "cooldown"]
        BY DEF AccountSkipped, AccountFails, AccountUsedUp, InviteFlooded, data
    <2>. QED  BY <2>1, <2>2
<1>4. PICK q \in Runs : /\ run' = [run EXCEPT ![w] = q] /\ GoodRun(q, members)
                        /\ q.phase = "account"
    BY <1>1, LeavesGood
<1>. QED  BY <1>1, <1>2, <1>3, <1>4, Goes DEF tele, ctrl, IInv, Types, Rest

LEMMA RefusedInv ==
    ASSUME IInv, NEW w \in Workers, InviteRefused(w)
    PROVE  IInv'
<1>1. /\ LeavesContact(w) /\ run[w].phase = "contact" /\ run[w].left # {}
      /\ UNCHANGED <<status, acc, tele, ctrl>> /\ logged' \in BOOLEAN
    BY DEF InviteRefused, Invites, At, Logs
<1>2. blocked' \subseteq Contacts
    BY <1>1, CallingIn DEF InviteRefused, IInv, Types, Rest
<1>3. PICK q \in Runs : /\ run' = [run EXCEPT ![w] = q] /\ GoodRun(q, members)
                        /\ q.phase = "contact"
    BY <1>1, LeavesContactGood
<1>. QED  BY <1>1, <1>2, <1>3, Goes DEF tele, ctrl, IInv, Types, Rest

LEMMA AnswerLostInv ==
    ASSUME IInv, NEW w \in Workers, AnswerLost(w)
    PROVE  IInv'
<1>1. /\ LeavesContact(w) /\ run[w].phase = "landed" /\ logged' \in BOOLEAN
      /\ UNCHANGED <<status, blocked, acc, tele, queue, req, ended, ops>>
      /\ faults' = faults \cup {"lost"}
    BY DEF AnswerLost, At, Logs, Strikes
<1>2. faults' \cap Cuts # {} /\ faults' \subseteq Faults
    BY <1>1 DEF Cuts, Faults, IInv, Types, Rest
<1>3. PICK q \in Runs : /\ run' = [run EXCEPT ![w] = q] /\ GoodRun(q, members)
                        /\ q.phase = "contact"
    BY <1>1, LeavesContactGood
<1>. QED  BY <1>1, <1>2, <1>3, Goes DEF tele, IInv, Types, Rest

\* The campaign is gone: the invite is not counted, the run still owes it.
LEMMA OrphanedInv ==
    ASSUME IInv, NEW w \in Workers, InviteOrphaned(w)
    PROVE  IInv'
<1>1. PICK q : q = [run[w] EXCEPT !.success = @ + 1, !.accs = @ \ {Using(w)}, !.left = {},
                                  !.phase = "account"]
    OBVIOUS
<1>2. /\ run' = [run EXCEPT ![w] = q] /\ run[w] \in Runs /\ run[w].phase = "landed"
      /\ status = "gone" /\ UNCHANGED <<data, tele, ctrl>>
    BY <1>1 DEF InviteOrphaned, At, IInv, Types
<1>3. /\ q \in Runs /\ q.list = run[w].list /\ q.left = {} /\ q.success = run[w].success + 1
      /\ q.phase = "account"
    <2>1. PICK n : n = run[w].success + 1
        OBVIOUS
    <2>2. n \in Nat
        BY <1>2, <2>1 DEF Runs
    <2>3. q = [run[w] EXCEPT !.success = n, !.accs = @ \ {Using(w)}, !.left = {},
                             !.phase = "account"]
        BY <1>1, <2>1
    <2>4. q \in Runs
        BY <1>2, <2>2, <2>3 DEF Runs, Phases
    <2>. QED  BY <1>2, <2>1, <2>3, <2>4 DEF Runs
<1>4. GoodRun(q, members)
    BY <1>2, <1>3 DEF IInv, RunsGood, GoodRun, Owed, Runs
<1>. QED  BY <1>2, <1>3, <1>4, Goes DEF data, tele, ctrl, IInv, Types, Rest

-----------------------------------------------------------------------------
(* Invites.                                                                *)

\* Telegram has one member more, and the run owes one more.
LEMMA LandsInv ==
    ASSUME IInv, NEW w \in Workers, InviteLands(w)
    PROVE  IInv'
<1>1. PICK c, q : c = Calling(w) /\ q = [run[w] EXCEPT !.phase = "landed"]
    OBVIOUS
<1>2. /\ run' = [run EXCEPT ![w] = q] /\ run[w] \in Runs /\ run[w].phase = "contact"
      /\ run[w].left # {} /\ c \notin members /\ members' = members \cup {c}
      /\ UNCHANGED <<data, counter, ctrl>>
    BY <1>1 DEF InviteLands, Invites, Go, At, IInv, Types
<1>3. /\ q \in Runs /\ q.list = run[w].list /\ q.left = run[w].left
      /\ q.success = run[w].success /\ q.phase = "landed"
    BY <1>1, <1>2 DEF Runs, Phases
<1>4. c \in run[w].left /\ c \in Contacts
    BY <1>1, <1>2, CallingIn DEF IInv
<1>5. members \subseteq members' /\ members' \subseteq Contacts /\ members \subseteq Contacts
    BY <1>2, <1>4 DEF IInv, Types
<1>6. run[w].left \subseteq run[w].list /\ Owed(run[w]) <= Cardinality(run[w].list \cap members)
    BY DEF IInv, RunsGood, GoodRun
<1>7. GoodRun(q, members')
    <2>1. PICK S : S = run[w].list \cap members
        OBVIOUS
    <2>2. q.list \cap members' = S \cup {c} /\ c \notin S
        BY <1>2, <1>3, <1>4, <1>6, <2>1
    <2>3. IsFiniteSet(S) /\ Cardinality(S) \in Nat
        BY <1>5, <2>1, SetsFinite
    <2>4. Cardinality(q.list \cap members') = Cardinality(S) + 1
        BY <2>2, <2>3, FS_AddElement
    <2>5. run[w].success <= Cardinality(S) /\ run[w].success \in Nat
        BY <1>2, <1>6, <2>1, <2>3 DEF Owed, Runs
    <2>. QED  BY <1>3, <1>6, <2>3, <2>4, <2>5 DEF GoodRun, Owed
<1>8. /\ run' \in [Workers -> Runs] /\ RunsGood'
      /\ \A v \in Workers : run'[v] = IF v = w THEN q ELSE run[v]
    BY <1>2, <1>3, <1>5, <1>7, RunMoves DEF IInv
<1>9. Types'
    BY <1>2, <1>5, <1>8 DEF IInv, Types, Rest, data, ctrl
<1>10. Landed' = Landed \cup {w} /\ w \notin Landed
    BY <1>2, <1>3, <1>8 DEF Landed, At
<1>11. UsageSum'
    <2>1. PICK L : L = Landed'
        OBVIOUS
    <2>2. Cardinality(L) = Cardinality(Landed) + 1
        BY <1>10, <2>1, SetsFinite, FS_AddElement
    <2>3. Cardinality(members') = Cardinality(members) + 1 /\ Cardinality(members) \in Nat
        BY <1>2, <1>5, SetsFinite, FS_AddElement
    <2>4. counter' = counter /\ faults' = faults /\ status' = status /\ counter \in Nat
        BY <1>2 DEF data, ctrl, IInv, Types
    <2>. QED  BY <2>1, <2>2, <2>3, <2>4, SetsFinite DEF IInv, UsageSum
<1>12. ActiveServed'
    BY <1>2, <1>3, <1>8, ServedStays DEF IInv, data, ctrl
<1>. QED  BY <1>8, <1>9, <1>11, <1>12 DEF IInv

\* The run's count goes up as what it owed besides ends.
LEMMA CountsInv ==
    ASSUME IInv, NEW w \in Workers, InviteCounts(w)
    PROVE  IInv'
<1>1. PICK q : q = [run[w] EXCEPT !.success = @ + 1, !.left = @ \ {Calling(w)},
                                  !.phase = "contact"]
    OBVIOUS
<1>2. /\ run' = [run EXCEPT ![w] = q] /\ run[w] \in Runs /\ run[w].phase = "landed" /\ Increment
      /\ UNCHANGED <<status, blocked, acc, logged, members, queue, req, ended, ops>>
    BY <1>1 DEF InviteCounts, At, IInv, Types, data
<1>3. /\ q \in Runs /\ q.list = run[w].list /\ q.left \subseteq run[w].left
      /\ q.success = run[w].success + 1 /\ q.phase = "contact"
    <2>1. PICK n : n = run[w].success + 1
        OBVIOUS
    <2>2. n \in Nat
        BY <1>2, <2>1 DEF Runs
    <2>3. q = [run[w] EXCEPT !.success = n, !.left = @ \ {Calling(w)}, !.phase = "contact"]
        BY <1>1, <2>1
    <2>4. q \in Runs
        BY <1>2, <2>2, <2>3 DEF Runs, Phases
    <2>. QED  BY <1>2, <2>1, <2>3, <2>4 DEF Runs
<1>4. GoodRun(q, members')
    BY <1>2, <1>3 DEF IInv, RunsGood, GoodRun, Owed, Runs
<1>5. /\ run' \in [Workers -> Runs] /\ RunsGood'
      /\ \A v \in Workers : run'[v] = IF v = w THEN q ELSE run[v]
    BY <1>2, <1>3, <1>4, RunMoves DEF IInv, Types
<1>6. /\ counter \in Nat /\ faults \subseteq Faults
      /\ \/ counter' = counter + 1 /\ faults' = faults
         \/ counter' = counter /\ faults' = faults \cup {"redis"}
    BY <1>2 DEF Increment, Strikes, IInv, Types, Rest
<1>7. Types'
    <2>1. counter' \in Nat
        BY <1>6
    <2>2. faults' \subseteq Faults
        BY <1>6 DEF Faults
    <2>. QED  BY <1>2, <1>5, <2>1, <2>2 DEF IInv, Types, Rest
<1>8. Landed' = Landed \ {w} /\ w \in Landed
    BY <1>2, <1>3, <1>5 DEF Landed, At
<1>9. UsageSum'
    <2>1. CASE counter' = counter + 1 /\ faults' = faults
        <3>1. PICK L : L = Landed'
            OBVIOUS
        <3>2. Cardinality(L) = Cardinality(Landed) - 1
            BY <1>8, <3>1, SetsFinite, FS_RemoveElement
        <3>. QED  BY <1>2, <1>6, <2>1, <3>1, <3>2, SetsFinite DEF IInv, UsageSum
    <2>2. CASE counter' = counter /\ faults' = faults \cup {"redis"}
        BY <1>2, <1>8, <2>2, UsageStays DEF IInv, Cuts
    <2>. QED  BY <1>6, <2>1, <2>2
<1>10. ActiveServed'
    BY <1>2, <1>3, <1>5, ServedStays DEF IInv
<1>. QED  BY <1>5, <1>7, <1>9, <1>10 DEF IInv

-----------------------------------------------------------------------------
(* Ends and faults.                                                        *)

LEMMA EndsInv ==
    ASSUME IInv, NEW w \in Workers, DispatchEnds(w) \/ SoftLimit(w) \/ HardLimit(w)
    PROVE  IInv'
<1>1. /\ EndRun(w) /\ UNCHANGED <<blocked, acc, logged, members, counter, queue, req, ops>>
      /\ status = "gone" => status' = "gone"
      /\ status' \in {status, "completed", "paused"}
    BY DEF DispatchEnds, SoftLimit, HardLimit, data, tele
<1>2. /\ faults \subseteq faults' /\ faults' \subseteq Faults
      /\ run[w].phase = "landed" => faults' \cap Cuts # {}
    <2>1. faults \subseteq Faults
        BY DEF IInv, Types, Rest
    <2>2. CASE DispatchEnds(w)
        BY <2>1, <2>2 DEF DispatchEnds, At
    <2>3. CASE SoftLimit(w)
        BY <2>1, <2>3 DEF SoftLimit, Strikes, Faults, Cuts
    <2>4. CASE HardLimit(w)
        BY <2>1, <2>4 DEF HardLimit, Strikes, Faults, Cuts
    <2>. QED  BY <2>2, <2>3, <2>4
<1>. QED  BY <1>1, <1>2, Ends DEF IInv, Types, Rest

LEMMA CrashInv ==
    ASSUME IInv, NEW w \in Workers, Crash(w)
    PROVE  IInv'
<1>1. /\ run' = [run EXCEPT ![w] = NoRun] /\ queue' = queue + 1 /\ faults' = faults \cup {"crash"}
      /\ UNCHANGED <<status, blocked, acc, logged, members, counter, req, ended, ops>>
    BY DEF Crash, Strikes, data, tele
<1>2. /\ run' \in [Workers -> Runs] /\ RunsGood'
      /\ \A v \in Workers : run'[v] = IF v = w THEN NoRun ELSE run[v]
    BY <1>1, NoRunGood, RunMoves DEF IInv, Types
<1>3. queue \in Nat /\ queue' \in Nat /\ queue' > 0
    BY <1>1 DEF IInv, Types, Rest
<1>4. faults' \subseteq Faults /\ faults' \cap Cuts # {}
    BY <1>1 DEF IInv, Types, Rest, Faults, Cuts
<1>5. Types'
    BY <1>1, <1>2, <1>3, <1>4 DEF IInv, Types, Rest
<1>6. Landed' \subseteq Landed
    BY <1>2, NoRunGood DEF Landed, At
<1>7. UsageSum'
    BY <1>1, <1>4, <1>6, UsageStays DEF IInv
<1>8. ActiveServed'
    BY <1>3 DEF ActiveServed
<1>. QED  BY <1>2, <1>5, <1>7, <1>8 DEF IInv

LEMMA RedeliverInv ==
    ASSUME IInv, NEW w \in Workers, Redeliver(w)
    PROVE  IInv'
<1>1. /\ queue' = queue + 1 /\ faults' = faults \cup {"duplicate"}
      /\ UNCHANGED <<data, tele, run, req, ended, ops>>
    BY DEF Redeliver, Strikes
<1>2. queue \in Nat /\ queue' \in Nat /\ queue' > 0 /\ faults' \subseteq Faults
    BY <1>1 DEF IInv, Types, Rest, Faults
<1>3. Rest'
    BY <1>1, <1>2 DEF IInv, Types, Rest, data
<1>4. ActiveServed'
    BY <1>2 DEF ActiveServed
<1>. QED  BY <1>1, <1>3, <1>4, Stays DEF data, tele

-----------------------------------------------------------------------------
(* The API.                                                                *)

LEMMA AskTyped ==
    ASSUME IInv, Ask
    PROVE  ops' \in 0..Operations /\ ops' # ops
BY CampaignAssumption DEF IInv, Types, Rest, Ask

LEMMA StartReadsInv ==
    ASSUME IInv, NEW c \in Clients, StartReads(c)
    PROVE  IInv'
<1>1. /\ req' = [req EXCEPT ![c] = "read"] /\ req[c] = "idle" /\ Ask
      /\ UNCHANGED <<data, tele, run, queue, ended, faults>>
    BY DEF StartReads
<1>2. Rest'
    BY <1>1, AskTyped DEF IInv, Types, Rest, data
<1>3. ActiveServed'
    BY <1>1, ServedStays DEF IInv, Types, Rest, data
<1>. QED  BY <1>1, <1>2, <1>3, Stays DEF data, tele

LEMMA StartCommitsInv ==
    ASSUME IInv, NEW c \in Clients, StartCommits(c)
    PROVE  IInv'
<1>1. req[c] = "read" /\ UNCHANGED <<blocked, acc, logged, tele, run, queue, ended, ops, faults>>
    BY DEF StartCommits
<1>2. req \in [Clients -> {"idle", "read", "active", "failed"}]
    BY DEF IInv, Types, Rest
<1>3. CASE status = "gone"
    <2>1. req' = [req EXCEPT ![c] = "idle"] /\ status' = status
        BY <1>3 DEF StartCommits
    <2>2. Rest'
        BY <1>1, <1>2, <2>1 DEF IInv, Types, Rest
    <2>3. ActiveServed'
        BY <1>3, <2>1 DEF ActiveServed
    <2>. QED  BY <1>1, <2>1, <2>2, <2>3, Stays DEF tele
<1>4. CASE status # "gone"
    <2>1. req' = [req EXCEPT ![c] = "active"] /\ status' = "active"
        BY <1>4 DEF StartCommits
    <2>2. Rest'
        BY <1>1, <1>2, <2>1 DEF IInv, Types, Rest
    <2>3. ActiveServed'
        BY <1>2, <2>1 DEF ActiveServed
    <2>. QED  BY <1>1, <1>4, <2>1, <2>2, <2>3, Stays DEF tele
<1>. QED  BY <1>3, <1>4

LEMMA StartEnqueuesInv ==
    ASSUME IInv, NEW c \in Clients, StartEnqueues(c)
    PROVE  IInv'
<1>1. UNCHANGED <<data, tele, run, ended, ops>>
    BY DEF StartEnqueues
<1>2. /\ req \in [Clients -> {"idle", "read", "active", "failed"}] /\ queue \in Nat
      /\ faults \subseteq Faults
    BY DEF IInv, Types, Rest
<1>3. CASE queue' = queue + 1 /\ req' = [req EXCEPT ![c] = "idle"] /\ UNCHANGED faults
    <2>1. queue' \in Nat /\ queue' > 0
        BY <1>2, <1>3
    <2>2. Rest'
        BY <1>1, <1>2, <1>3, <2>1 DEF IInv, Types, Rest, data
    <2>3. ActiveServed'
        BY <2>1 DEF ActiveServed
    <2>. QED  BY <1>1, <1>3, <2>2, <2>3, Stays DEF data, tele
<1>4. CASE UNCHANGED queue /\ req' = [req EXCEPT ![c] = "failed"] /\ Strikes("broker")
    <2>1. faults \subseteq faults' /\ faults' \subseteq Faults
        BY <1>2, <1>4 DEF Strikes, Faults
    <2>2. Rest'
        BY <1>1, <1>2, <1>4, <2>1 DEF IInv, Types, Rest, data
    <2>3. \A b \in Clients : req'[b] = IF b = c THEN "failed" ELSE req[b]
        BY <1>2, <1>4
    <2>4. ActiveServed'
        BY <1>1, <1>4, <2>3, ServedStays DEF IInv, data
    <2>. QED  BY <1>1, <2>1, <2>2, <2>4, Stays DEF data, tele
<1>. QED  BY <1>3, <1>4 DEF StartEnqueues

\* Back to draft, or ended.
LEMMA StartRollsBackInv ==
    ASSUME IInv, NEW c \in Clients, StartRollsBack(c)
    PROVE  IInv'
<1>1. /\ req' = [req EXCEPT ![c] = "idle"]
      /\ UNCHANGED <<blocked, acc, logged, tele, run, queue, ops, faults>>
      /\ \/ status' = (IF status = "gone" THEN "gone" ELSE "draft") /\ ended' = ended
         \/ status' = status /\ ended' = TRUE
    BY DEF StartRollsBack
<1>2. Rest'
    BY <1>1 DEF IInv, Types, Rest
<1>3. ActiveServed'
    BY <1>1 DEF ActiveServed
<1>. QED  BY <1>1, <1>2, <1>3, Stays DEF tele

LEMMA OwnerInv ==
    ASSUME IInv, Stop \/ Patch \/ Delete
    PROVE  IInv'
<1>1. /\ Ask /\ status # "gone" /\ UNCHANGED <<blocked, acc, logged, tele, run, queue, req, faults>>
      /\ status' \in {"draft", "active", "paused", "completed", "gone"}
      /\ \/ status' # "active" /\ ended' = ended
         \/ ended' = TRUE
    BY DEF Stop, Patch, Delete
<1>2. Rest'
    BY <1>1, AskTyped DEF IInv, Types, Rest
<1>3. ActiveServed'
    BY <1>1 DEF ActiveServed
<1>. QED  BY <1>1, <1>2, <1>3, Stays DEF tele

LEMMA AccountReturnsInv ==
    ASSUME IInv, NEW a \in Accounts, AccountReturns(a)
    PROVE  IInv'
<1>1. /\ Ask /\ acc' = [acc EXCEPT ![a] = "active"]
      /\ UNCHANGED <<status, blocked, logged, tele, run, queue, req, ended, faults>>
    BY DEF AccountReturns
<1>2. Rest'
    BY <1>1, AskTyped DEF IInv, Types, Rest
<1>3. ActiveServed'
    BY <1>1, ServedStays DEF IInv
<1>. QED  BY <1>1, <1>2, <1>3, Stays DEF tele

-----------------------------------------------------------------------------
(* The theorems.                                                           *)

LEMMA InitInv == Init => IInv
<1>. SUFFICES ASSUME Init PROVE IInv
    OBVIOUS
<1>1. Types
    <2>1. Operations \in 0..Operations
        BY CampaignAssumption
    <2>2. acc \in [Accounts -> {"active", "cooldown", "error"}]
        BY DEF Init
    <2>3. req \in [Clients -> {"idle", "read", "active", "failed"}]
        BY DEF Init
    <2>4. run \in [Workers -> Runs]
        BY NoRunGood DEF Init
    <2>. QED  BY <2>1, <2>2, <2>3, <2>4 DEF Init, Types, Rest
<1>2. RunsGood
    BY NoRunGood DEF Init, RunsGood
<1>3. Landed = {} /\ members = {} /\ counter = 0 /\ Cardinality({}) = 0
    BY NoRunGood, FS_EmptySet DEF Init, Landed, At
<1>4. UsageSum
    BY <1>3 DEF UsageSum
<1>5. ActiveServed
    BY DEF Init, ActiveServed
<1>. QED  BY <1>1, <1>2, <1>4, <1>5 DEF IInv

LEMMA NextInv == IInv /\ [Next]_vars => IInv'
<1>. SUFFICES ASSUME IInv, [Next]_vars PROVE IInv'
    OBVIOUS
<1>1. ASSUME NEW w \in Workers, Dispatches(w)
      PROVE  IInv'
    BY <1>1, DropsInv, LoadsInv, LacksTargetInv DEF Dispatches
<1>2. ASSUME NEW w \in Workers, Step(w)
      PROVE  IInv'
    BY <1>2, OpensInv, AccountLeftInv, RefusedInv, OrphanedInv, LandsInv, CountsInv, EndsInv
    DEF Step
<1>3. ASSUME NEW w \in Workers, Fails(w)
      PROVE  IInv'
    BY <1>3, AnswerLostInv, EndsInv, CrashInv, RedeliverInv DEF Fails
<1>4. ASSUME NEW c \in Clients, StartReads(c) \/ StartGoesOn(c)
      PROVE  IInv'
    BY <1>4, StartReadsInv, StartCommitsInv, StartEnqueuesInv, StartRollsBackInv DEF StartGoesOn
<1>5. CASE UNCHANGED vars
    <2>1. UNCHANGED <<status, blocked, acc, logged, members, counter, run, queue, req, ended, ops,
                      faults>>
        BY <1>5 DEF vars, data, tele, ctrl
    <2>2. Rest' /\ ActiveServed'
        BY <2>1 DEF IInv, Types, Rest, ActiveServed, At
    <2>. QED  BY <2>1, <2>2, Stays
<1>. QED  BY <1>1, <1>2, <1>3, <1>4, <1>5, OwnerInv, AccountReturnsInv DEF Next

LEMMA Invariance == Spec => []IInv
BY InitInv, NextInv, PTL DEF Spec

\* Every variable keeps its shape, whatever fails.
THEOREM CampaignTypes == Spec => []TypeOK
<1>1. IInv => TypeOK
    BY DEF IInv, Types, Rest, Runs, TypeOK
<1>. QED  BY <1>1, Invariance, PTL

\* An active campaign is served or its service has ended: start_campaign takes
\* its status back when no message could be sent.
THEOREM ActiveIsServed == Spec => []ActiveServed
<1>1. IInv => ActiveServed
    BY DEF IInv
<1>. QED  BY <1>1, Invariance, PTL

\* The usage of the day shows no invite that was not made, and without a fault
\* misses none but those about to be counted: increment_daily_invites.
THEOREM UsageIsHonest == Spec => []UsageHonest
<1>1. IInv => UsageHonest
    <2>. SUFFICES ASSUME IInv PROVE UsageHonest
        OBVIOUS
    <2>1. Landed = {w \in Workers : At(w, "landed")}
        BY DEF Landed
    <2>2. Cardinality(Landed) \in Nat /\ Cardinality(members) \in Nat /\ counter \in Nat
        BY SetsFinite DEF IInv, Types
    <2>3. /\ counter <= Cardinality(members)
          /\ faults \cap Cuts = {} /\ status # "gone" =>
                Cardinality(members) = counter + Cardinality(Landed)
        BY <2>2 DEF IInv, UsageSum
    <2>. QED  BY <2>1, <2>3 DEF UsageHonest, Cuts
<1>. QED  BY <1>1, Invariance, PTL

\* A run whose count has reached the number of its contacts has invited them
\* all, although every account starts over and other runs invite as well.
LEMMA CompleteIsReal ==
    ASSUME IInv, NEW w \in Workers, Complete(w)
    PROVE  run[w].list \subseteq members
<1>1. PICK L, S : L = run[w].list /\ S = L \cap members
    OBVIOUS
<1>2. L \subseteq Contacts /\ run[w].success \in Nat
    BY <1>1 DEF IInv, Types, Runs
<1>3. IsFiniteSet(L) /\ Cardinality(L) \in Nat /\ Cardinality(S) \in Nat
    BY <1>1, <1>2, SetsFinite
<1>4. run[w].success <= Cardinality(S)
    BY <1>1, <1>2, <1>3 DEF IInv, RunsGood, GoodRun, Owed
<1>5. Cardinality(L) <= Cardinality(S)
    BY <1>1, <1>2, <1>3, <1>4 DEF Complete
<1>6. Cardinality(S) <= Cardinality(L) /\ (Cardinality(L) = Cardinality(S) => L = S)
    BY <1>1, <1>3, FS_Subset
<1>. QED  BY <1>1, <1>3, <1>5, <1>6

LEMMA OnlyEndsComplete ==
    ASSUME IInv, [Next]_vars, status' = "completed", ops' = ops
    PROVE  status = "completed" \/ \E w \in Workers : At(w, "account") /\ run[w].list \subseteq members
<1>1. ASSUME NEW w \in Workers, DispatchEnds(w), status # "completed"
      PROVE  At(w, "account") /\ run[w].list \subseteq members
    BY <1>1, CompleteIsReal DEF DispatchEnds
<1>2. ASSUME NEW w \in Workers, Dispatches(w)
      PROVE  status' = status
    BY <1>2 DEF Dispatches, DispatchDrops, DispatchLoads, DispatchLacksTarget, data
<1>3. ASSUME NEW w \in Workers, Step(w)
      PROVE  status' = status \/ DispatchEnds(w)
    BY <1>3 DEF Step, AccountOpens, AccountSkipped, AccountFails, AccountUsedUp, InviteLands,
       InviteCounts, InviteOrphaned, InviteFlooded, InviteRefused, data
<1>4. ASSUME NEW w \in Workers, Fails(w)
      PROVE  status' \in {status, "paused"}
    BY <1>4 DEF Fails, AnswerLost, SoftLimit, HardLimit, Crash, Redeliver, data
<1>5. ASSUME NEW c \in Clients, StartReads(c) \/ StartGoesOn(c)
      PROVE  status' \in {status, "active", "draft"}
    BY <1>5 DEF StartReads, StartGoesOn, StartCommits, StartEnqueues, StartRollsBack, data
<1>6. ~(Stop \/ Patch \/ Delete)
    BY AskTyped DEF Stop, Patch, Delete
<1>7. \A a \in Accounts : ~AccountReturns(a)
    BY AskTyped DEF AccountReturns
<1>8. CASE UNCHANGED vars
    BY <1>8 DEF vars, data
<1>. QED  BY <1>1, <1>2, <1>3, <1>4, <1>5, <1>6, <1>7, <1>8 DEF Next

\* A dispatch completes the campaign only when all its contacts are members:
\* the comparison of success with the number of contacts at the end of
\* _run_campaign_dispatch.
THEOREM CompletionIsReal == Spec => CompletedIsReal
<1>1. IInv /\ [Next]_vars =>
          [status' = "completed" /\ ops' = ops =>
              status = "completed" \/ \E w \in Workers : At(w, "account") /\ run[w].list \subseteq members]_vars
    BY OnlyEndsComplete
<1>. QED  BY <1>1, Invariance, PTL DEF Spec, CompletedIsReal

-----------------------------------------------------------------------------
(* Why dispatches end: every step is one towards the end.                  *)

\* A dispatch that invites has an account, and a contact after an invite.
Held(q) ==
    /\ q.phase \in {"contact", "landed"} => q.accs # {}
    /\ q.phase = "landed" => q.left # {}

AllHeld == \A w \in Workers : Held(run[w])

\* What is left of a dispatch: the accounts, then the contacts of the account
\* in use, then the answer to the invite.
Nearer(p, q) ==
    /\ q.phase # "idle"
    /\ \/ p.phase = "idle"
       \/ Cardinality(p.accs) < Cardinality(q.accs)
       \/ /\ p.accs = q.accs
          /\ p.phase # "account"
          /\ \/ q.phase = "account"
             \/ Cardinality(p.left) < Cardinality(q.left)
             \/ p.left = q.left /\ p.phase = "landed" /\ q.phase = "contact"

\* A step of its own brings a dispatch nearer to its end; nothing throws it
\* back.
Approach ==
    \A w \in Workers :
        /\ Step(w) => Nearer(run'[w], run[w])
        /\ ~At(w, "idle") => Nearer(run'[w], run[w]) \/ run'[w] = run[w]

LEMMA Fewer ==
    ASSUME NEW S, IsFiniteSet(S), NEW x \in S
    PROVE  Cardinality(S \ {x}) < Cardinality(S)
<1>1. /\ Cardinality(S) \in Nat
      /\ Cardinality(S \ {x}) = Cardinality(S) - 1
    BY FS_RemoveElement, FS_CardinalityType
<1>. QED  BY <1>1

LEMMA InHand ==
    ASSUME Types, NEW w \in Workers
    PROVE  /\ run[w].accs # {} =>
                 Cardinality(run[w].accs \ {Using(w)}) < Cardinality(run[w].accs)
           /\ run[w].left # {} =>
                 Cardinality(run[w].left \ {Calling(w)}) < Cardinality(run[w].left)
<1>1. run[w].accs \subseteq Accounts /\ run[w].left \subseteq Contacts
    BY DEF Types, Runs
<1>2. IsFiniteSet(run[w].accs) /\ IsFiniteSet(run[w].left)
    BY <1>1, FS_Subset, CampaignAssumption
<1>3. run[w].accs # {} => Using(w) \in run[w].accs
    BY <1>1, MinIn, CampaignAssumption DEF Using
<1>4. run[w].left # {} => Calling(w) \in run[w].left
    BY CallingIn
<1>. QED  BY <1>2, <1>3, <1>4, Fewer

LEMMA OwnStep ==
    ASSUME Types, AllHeld, NEW w \in Workers, Step(w) \/ AnswerLost(w)
    PROVE  \E q : run' = [run EXCEPT ![w] = q] /\ Nearer(q, run[w]) /\ Held(q)
<1>1. run[w] \in Runs /\ run \in [Workers -> Runs] /\ Held(run[w])
    BY DEF Types, AllHeld
<1>2. ASSUME LeavesAccount(w), run[w].accs # {}, run[w].phase # "idle"
      PROVE  \E q : run' = [run EXCEPT ![w] = q] /\ Nearer(q, run[w]) /\ Held(q)
    <2>1. PICK q : q = [run[w] EXCEPT !.accs = @ \ {Using(w)}, !.left = {}, !.phase = "account"]
        OBVIOUS
    <2>2. run' = [run EXCEPT ![w] = q]
        BY <1>1, <1>2, <2>1 DEF LeavesAccount
    <2>3. q.accs = run[w].accs \ {Using(w)} /\ q.phase = "account"
        BY <1>1, <2>1 DEF Runs
    <2>4. Nearer(q, run[w]) /\ Held(q)
        BY <1>2, <2>3, InHand DEF Nearer, Held
    <2>. QED  BY <2>2, <2>4
<1>3. ASSUME NEW s, run' = [run EXCEPT ![w].success = s, ![w].left = @ \ {Calling(w)},
                                       ![w].phase = "contact"],
             run[w].left # {}, run[w].phase \in {"contact", "landed"}
      PROVE  \E q : run' = [run EXCEPT ![w] = q] /\ Nearer(q, run[w]) /\ Held(q)
    <2>1. PICK q : q = [run[w] EXCEPT !.success = s, !.left = @ \ {Calling(w)},
                                      !.phase = "contact"]
        OBVIOUS
    <2>2. run' = [run EXCEPT ![w] = q]
        BY <1>1, <1>3, <2>1
    <2>3. q.accs = run[w].accs /\ q.left = run[w].left \ {Calling(w)} /\ q.phase = "contact"
        BY <1>1, <2>1 DEF Runs
    <2>4. Nearer(q, run[w]) /\ Held(q)
        BY <1>1, <1>3, <2>3, InHand DEF Nearer, Held
    <2>. QED  BY <2>2, <2>4
<1>4. ASSUME LeavesContact(w), run[w].left # {}, run[w].phase \in {"contact", "landed"}
      PROVE  \E q : run' = [run EXCEPT ![w] = q] /\ Nearer(q, run[w]) /\ Held(q)
    <2>1. run' = [run EXCEPT ![w].success = run[w].success, ![w].left = @ \ {Calling(w)},
                             ![w].phase = "contact"]
        BY <1>1, <1>4 DEF LeavesContact, Runs
    <2>. QED  BY <1>3, <1>4, <2>1
<1>5. CASE AccountOpens(w)
    <2>1. PICK q : q = [run[w] EXCEPT !.left = run[w].list, !.phase = "contact"]
        OBVIOUS
    <2>2. run' = [run EXCEPT ![w] = q]
        BY <1>1, <1>5, <2>1 DEF AccountOpens
    <2>3. /\ q.accs = run[w].accs /\ q.phase = "contact" /\ run[w].phase = "account"
          /\ run[w].accs # {}
        BY <1>1, <1>5, <2>1 DEF Runs, AccountOpens, At
    <2>4. Nearer(q, run[w]) /\ Held(q)
        BY <2>3 DEF Nearer, Held
    <2>. QED  BY <2>2, <2>4
<1>6. CASE AccountSkipped(w) \/ AccountFails(w) \/ AccountUsedUp(w) \/ InviteFlooded(w)
    BY <1>1, <1>2, <1>6 DEF AccountSkipped, AccountFails, AccountUsedUp, InviteFlooded, Invites,
       At, Held
<1>7. CASE InviteLands(w)
    <2>1. PICK q : q = [run[w] EXCEPT !.phase = "landed"]
        OBVIOUS
    <2>2. run' = [run EXCEPT ![w] = q]
        BY <1>1, <1>7, <2>1 DEF InviteLands, Go
    <2>3. /\ q.accs = run[w].accs /\ q.left = run[w].left /\ q.phase = "landed"
          /\ run[w].phase = "contact" /\ run[w].left # {}
        BY <1>1, <1>7, <2>1 DEF Runs, InviteLands, Invites, At
    <2>4. Nearer(q, run[w]) /\ Held(q)
        BY <1>1, <2>3 DEF Nearer, Held
    <2>. QED  BY <2>2, <2>4
<1>8. CASE InviteCounts(w)
    <2>1. PICK s : run' = [run EXCEPT ![w].success = s, ![w].left = @ \ {Calling(w)},
                                      ![w].phase = "contact"]
        BY <1>1, <1>8 DEF InviteCounts
    <2>2. run[w].left # {} /\ run[w].phase = "landed"
        BY <1>1, <1>8 DEF InviteCounts, At, Held
    <2>. QED  BY <1>3, <2>1, <2>2
<1>9. CASE InviteOrphaned(w)
    <2>1. PICK q : q = [run[w] EXCEPT !.success = @ + 1, !.accs = @ \ {Using(w)}, !.left = {},
                                      !.phase = "account"]
        OBVIOUS
    <2>2. run' = [run EXCEPT ![w] = q]
        BY <1>1, <1>9, <2>1 DEF InviteOrphaned
    <2>3. /\ q.accs = run[w].accs \ {Using(w)} /\ q.phase = "account"
          /\ run[w].accs # {} /\ run[w].phase = "landed"
        BY <1>1, <1>9, <2>1 DEF Runs, InviteOrphaned, At, Held
    <2>4. Nearer(q, run[w]) /\ Held(q)
        BY <2>3, InHand DEF Nearer, Held
    <2>. QED  BY <2>2, <2>4
<1>10. CASE InviteRefused(w) \/ AnswerLost(w)
    BY <1>1, <1>4, <1>10 DEF InviteRefused, AnswerLost, Invites, At, Held
<1>11. CASE DispatchEnds(w)
    <2>1. run' = [run EXCEPT ![w] = NoRun] /\ run[w].phase # "idle"
        BY <1>11 DEF DispatchEnds, EndRun, At
    <2>2. Nearer(NoRun, run[w]) /\ Held(NoRun)
        BY <2>1 DEF Nearer, Held, NoRun
    <2>. QED  BY <2>1, <2>2
<1>. QED  BY <1>5, <1>6, <1>7, <1>8, <1>9, <1>10, <1>11 DEF Step

\* Whatever else happens leaves a dispatch alone, begins one or ends one.
LEMMA OtherStep ==
    ASSUME [Next]_vars, \A w \in Workers : ~(Step(w) \/ AnswerLost(w))
    PROVE  \/ UNCHANGED run
           \/ \E w \in Workers : \E q :
                 /\ run' = [run EXCEPT ![w] = q] /\ Held(q)
                 /\ At(w, "idle") \/ (q = NoRun /\ ~At(w, "idle"))
<1>1. Held(NoRun)
    BY DEF Held, NoRun
<1>2. ASSUME NEW w \in Workers, Dispatches(w)
      PROVE  \/ UNCHANGED run
             \/ \E q : run' = [run EXCEPT ![w] = q] /\ Held(q) /\ At(w, "idle")
    <2>1. CASE DispatchDrops(w)
        BY <2>1 DEF DispatchDrops
    <2>2. CASE DispatchLacksTarget(w)
        BY <1>1, <2>2 DEF DispatchLacksTarget, EndRun
    <2>3. CASE DispatchLoads(w)
        <3>1. CASE run' = [run EXCEPT ![w] = NoRun]
            BY <1>1, <2>3, <3>1 DEF DispatchLoads
        <3>2. CASE run' # [run EXCEPT ![w] = NoRun]
            <4>1. PICK L, A : run' = [run EXCEPT ![w] = [phase |-> "account", list |-> L,
                                                   accs |-> A, left |-> {}, success |-> 0]]
                BY <2>3, <3>2 DEF DispatchLoads, EndRun
            <4>2. PICK q : q = [phase |-> "account", list |-> L, accs |-> A, left |-> {},
                                success |-> 0]
                OBVIOUS
            <4>3. Held(q)
                BY <4>2 DEF Held
            <4>. QED  BY <2>3, <4>1, <4>2, <4>3 DEF DispatchLoads
        <3>. QED  BY <3>1, <3>2
    <2>. QED  BY <1>2, <2>1, <2>2, <2>3 DEF Dispatches
<1>3. ASSUME NEW w \in Workers, SoftLimit(w) \/ HardLimit(w) \/ Crash(w)
      PROVE  run' = [run EXCEPT ![w] = NoRun] /\ ~At(w, "idle")
    BY <1>3 DEF SoftLimit, HardLimit, Crash, EndRun
<1>4. ASSUME NEW w \in Workers, Redeliver(w)
      PROVE  UNCHANGED run
    BY <1>4 DEF Redeliver
<1>5. ASSUME NEW c \in Clients, StartReads(c) \/ StartGoesOn(c)
      PROVE  UNCHANGED run
    BY <1>5 DEF StartReads, StartGoesOn, StartCommits, StartEnqueues, StartRollsBack
<1>6. ASSUME \/ Stop \/ Patch \/ Delete
             \/ \E a \in Accounts : AccountReturns(a)
             \/ UNCHANGED vars
      PROVE  UNCHANGED run
    BY <1>6 DEF Stop, Patch, Delete, AccountReturns, vars
<1>7. ASSUME NEW w \in Workers, Dispatches(w) \/ SoftLimit(w) \/ HardLimit(w) \/ Crash(w)
      PROVE  \/ UNCHANGED run
             \/ \E q : /\ run' = [run EXCEPT ![w] = q] /\ Held(q)
                       /\ At(w, "idle") \/ (q = NoRun /\ ~At(w, "idle"))
    <2>1. CASE Dispatches(w)
        BY <1>2, <2>1
    <2>2. CASE ~Dispatches(w)
        <3>1. run' = [run EXCEPT ![w] = NoRun] /\ ~At(w, "idle")
            BY <1>3, <1>7, <2>2
        <3>. QED  BY <1>1, <3>1
    <2>. QED  BY <2>1, <2>2
<1>8. \/ \E w \in Workers : \/ Dispatches(w) \/ SoftLimit(w) \/ HardLimit(w)
                             \/ Crash(w) \/ Redeliver(w)
      \/ \E c \in Clients : StartReads(c) \/ StartGoesOn(c)
      \/ Stop \/ Patch \/ Delete \/ (\E a \in Accounts : AccountReturns(a)) \/ UNCHANGED vars
    BY DEF Next, Fails
<1>. QED  BY <1>4, <1>5, <1>6, <1>7, <1>8

\* Every step of campaign_dispatch brings it nearer to its end, in an order
\* without infinite descent: no account and no contact of an account is tried
\* again by the same dispatch, and nothing anybody does makes it start over.
THEOREM DispatchesApproach == Spec => [][Approach]_vars
<1>1. Init => AllHeld
    BY DEF Init, AllHeld, Held, NoRun
<1>2. IInv /\ AllHeld /\ [Next]_vars => AllHeld' /\ [Approach]_vars
    <2>. SUFFICES ASSUME IInv, AllHeld, [Next]_vars
                  PROVE  AllHeld' /\ Approach
        OBVIOUS
    <2>1. Types /\ run \in [Workers -> Runs]
        BY DEF IInv, Types
    <2>2. ASSUME NEW v \in Workers, Step(v) \/ AnswerLost(v)
          PROVE  AllHeld' /\ Approach
        <3>1. PICK q : run' = [run EXCEPT ![v] = q] /\ Nearer(q, run[v]) /\ Held(q)
            BY <2>1, <2>2, OwnStep
        <3>2. AllHeld'
            BY <2>1, <3>1 DEF AllHeld
        <3>3. ASSUME NEW w \in Workers
              PROVE  /\ Step(w) => Nearer(run'[w], run[w])
                     /\ Nearer(run'[w], run[w]) \/ run'[w] = run[w]
            <4>1. Step(w) => Nearer(run'[w], run[w])
                BY <2>1, OwnStep
            <4>2. Nearer(run'[w], run[w]) \/ run'[w] = run[w]
                BY <2>1, <3>1
            <4>. QED  BY <4>1, <4>2
        <3>. QED  BY <3>2, <3>3 DEF Approach
    <2>3. ASSUME \A v \in Workers : ~(Step(v) \/ AnswerLost(v))
          PROVE  AllHeld' /\ Approach
        <3>1. CASE UNCHANGED run
            BY <2>3, <3>1 DEF AllHeld, Approach
        <3>2. ASSUME NEW v \in Workers, NEW q, run' = [run EXCEPT ![v] = q], Held(q),
                     At(v, "idle") \/ (q = NoRun /\ ~At(v, "idle"))
              PROVE  AllHeld' /\ Approach
            <4>1. AllHeld'
                BY <2>1, <3>2 DEF AllHeld
            <4>2. ~At(v, "idle") => Nearer(q, run[v])
                BY <3>2 DEF Nearer, NoRun, At
            <4>3. Approach
                BY <2>1, <2>3, <3>2, <4>2 DEF Approach
            <4>. QED  BY <4>1, <4>3
        <3>. QED  BY <2>3, <3>1, <3>2, OtherStep
    <2>. QED  BY <2>2, <2>3
<1>. QED  BY <1>1, <1>2, Invariance, PTL DEF Spec

=============================================================================
