-------------------------- MODULE WarmingPlanProofs --------------------------
(***************************************************************************)
(* What the row of a warming account says has happened, for any libraries  *)
(* and any number of faults and edits.                                     *)
(***************************************************************************)
EXTENDS WarmingPlan, TLAPS

Records == [joined : SUBSET Chats, once : SUBSET OneTime]

TypeInv ==
    /\ row \in [status : {"warming", "cooldown", "banned", "active"}, day : Nat,
                flood : BOOLEAN, record : Records \cup {None}]
    /\ mem \in [phase : {"idle", "act", "save", "done"}, day : Nat, pos : Nat,
                record : Records \cup {None}, new : BOOLEAN]
    /\ joined \in SUBSET Chats
    /\ did \in [OneTime -> 0..2]

\* A record claims nothing that Telegram has not seen.
Backed(r) ==
    r # None => /\ r.joined \subseteq joined
                /\ \A a \in r.once : did[a] > 0

\* A running cycle works on the day of the row, of an account that is warming.
Current == mem.phase # "idle" => mem.day = row.day /\ row.day > 0 /\ row.status = "warming"

Walked == \A d \in 1..(row.day - 1) : d \in walked

\* Only the days up to the last can have made the account active.
Earned == row.status = "active" => row.day >= Target

\* The inductive invariant: the row and what the session may still write to it.
IInv == TypeInv /\ Backed(row.record) /\ Backed(mem.record) /\ Current /\ Walked /\ Earned

-----------------------------------------------------------------------------
\* What Telegram has seen stays seen, so a record stays backed.
LEMMA BackedKept ==
    ASSUME TypeInv, NEW r \in Records \cup {None}, Backed(r),
           joined \subseteq joined', did' \in [OneTime -> 0..2],
           \A a \in OneTime : did[a] > 0 => did'[a] > 0
    PROVE  r # None => /\ r.joined \subseteq joined'
                       /\ \A a \in r.once : did'[a] > 0
<1>1. CASE r = None
    BY <1>1
<1>2. CASE r # None
    <2>1. r \in Records
        BY <1>2
    <2>2. r.once \subseteq OneTime
        BY <2>1 DEF Records
    <2>. QED  BY <1>2, <2>2 DEF Backed
<1>. QED  BY <1>1, <1>2

\* The initial state.
LEMMA InitInv == Init => IInv
<1>. SUFFICES ASSUME Init PROVE IInv
    OBVIOUS
<1>1. NewRecord \in Records
    BY DEF NewRecord, Records
<1>2. row.record \in {None, NewRecord} /\ row.day = 0 /\ row.status = "warming"
    BY DEF Init
<1>3. TypeInv
    BY <1>1 DEF Init, TypeInv, NoMem, Records
<1>4. Backed(row.record)
    BY <1>2 DEF Backed, NewRecord
<1>5. Backed(mem.record)
    BY DEF Init, NoMem, Backed
<1>6. Current /\ Walked /\ Earned
    BY <1>2 DEF Init, NoMem, Current, Walked, Earned
<1>. QED  BY <1>3, <1>4, <1>5, <1>6 DEF IInv

-----------------------------------------------------------------------------
(* What the steps of a cycle keep.                                         *)

LEMMA KnownIsRecord ==
    ASSUME TypeInv
    PROVE  Known \in Records
BY DEF TypeInv, Known, NewRecord, Records

\* The row after a commit is typed, and its record is one the session or the
\* row had.
LEMMA CommitKeeps ==
    ASSUME IInv, NEW s \in {"warming", "cooldown", "banned", "active"}, NEW d \in Nat,
           Commit(s, d)
    PROVE  /\ row' \in [status : {"warming", "cooldown", "banned", "active"}, day : Nat,
                         flood : BOOLEAN, record : Records \cup {None}]
           /\ row'.status = s /\ row'.day = d
           /\ row'.record \in {row.record, mem.record}
BY DEF IInv, TypeInv, Commit, Written

\* A cycle is committed to the row: all of the invariant but what the commit
\* says of days and status.
LEMMA CommitInv ==
    ASSUME IInv, NEW s \in {"warming", "cooldown", "banned", "active"}, NEW d \in Nat,
           Commit(s, d), UNCHANGED Telegram
    PROVE  Backed(row.record)'
<1>1. row'.record \in {row.record, mem.record}
    BY CommitKeeps
<1>2. Backed(row'.record)
    BY <1>1 DEF IInv
<1>. QED  BY <1>2 DEF Backed, Telegram

\* An action at Telegram: the row stays, and so do the claims of both records.
LEMMA ActKeeps ==
    ASSUME IInv, UNCHANGED <<row, walked>>, mem.phase = "act",
           joined' \in SUBSET Chats, joined \subseteq joined',
           did' \in [OneTime -> 0..2], \A a \in OneTime : did[a] > 0 => did'[a] > 0,
           NEW r \in Records \cup {None}, Backed(r)',
           NEW n \in BOOLEAN,
           mem' = [mem EXCEPT !.record = r, !.new = n, !.phase = "save"]
    PROVE  IInv'
<1>1. TypeInv'
    BY DEF IInv, TypeInv
<1>2. row.record \in Records \cup {None} /\ Backed(row.record)
    BY DEF IInv, TypeInv
<1>3. Backed(row.record)'
    BY <1>2, BackedKept DEF IInv, Backed
<1>4. mem'.record = r /\ mem'.day = mem.day /\ mem'.phase = "save"
    BY DEF IInv, TypeInv
<1>5. Backed(mem.record)'
    BY <1>4 DEF Backed
<1>6. Current'
    BY <1>4 DEF IInv, Current
<1>7. Walked' /\ Earned'
    BY DEF IInv, Walked, Earned
<1>. QED  BY <1>1, <1>3, <1>5, <1>6, <1>7 DEF IInv

\* The same, of an action that records nothing.
LEMMA ActKeepsSilent ==
    ASSUME IInv, UNCHANGED <<row, walked, did>>, mem.phase = "act",
           joined' \in SUBSET Chats, joined \subseteq joined',
           mem' = [mem EXCEPT !.phase = "save"]
    PROVE  IInv'
<1>1. mem' = [mem EXCEPT !.record = mem.record, !.new = mem.new, !.phase = "save"]
    BY DEF IInv, TypeInv
<1>2. mem.record \in Records \cup {None} /\ Backed(mem.record) /\ mem.new \in BOOLEAN
    BY DEF IInv, TypeInv
<1>3. did' \in [OneTime -> 0..2] /\ \A a \in OneTime : did[a] > 0 => did'[a] > 0
    BY DEF IInv, TypeInv
<1>4. TypeInv
    BY DEF IInv
<1>5. mem.record # None => /\ mem.record.joined \subseteq joined'
                           /\ \A a \in mem.record.once : did'[a] > 0
    BY <1>2, <1>3, <1>4, BackedKept
<1>. DEFINE r == mem.record
<1>6. PICK q : q = mem.record
    OBVIOUS
<1>7. Backed(q)'
    BY <1>5, <1>6 DEF Backed
<1>. QED  BY <1>1, <1>2, <1>3, <1>6, <1>7, ActKeeps

LEMMA ActsOnceInv == IInv /\ ActsOnce => IInv'
<1>. SUFFICES ASSUME IInv, ActsOnce PROVE IInv'
    OBVIOUS
<1>1. PICK a : a = Step.do
    OBVIOUS
<1>2. a \in OneTime /\ mem.phase = "act"
    BY <1>1 DEF ActsOnce, At
<1>3. did' = [did EXCEPT ![a] = Least(2, @ + 1)] /\ mem' = MarkDone(a)
    BY <1>1 DEF ActsOnce
<1>4. UNCHANGED <<row, joined, walked>>
    BY DEF ActsOnce
<1>5. did \in [OneTime -> 0..2] /\ joined \in SUBSET Chats /\ TypeInv
    BY DEF IInv, TypeInv
<1>6. /\ did' \in [OneTime -> 0..2] /\ did'[a] > 0
      /\ \A b \in OneTime : did[b] > 0 => did'[b] > 0
    BY <1>2, <1>3, <1>5 DEF Least
<1>7. PICK k : k = Known
    OBVIOUS
<1>8. k \in Records
    BY <1>5, <1>7, KnownIsRecord
<1>9. Backed(k)
    BY <1>7 DEF IInv, Known, Backed, NewRecord
<1>10. PICK r : r = [k EXCEPT !.once = @ \cup {a}]
    OBVIOUS
<1>11. r \in Records /\ r.joined = k.joined /\ r.once = k.once \cup {a}
    BY <1>2, <1>8, <1>10 DEF Records
<1>12. k # None => /\ k.joined \subseteq joined'
                   /\ \A b \in k.once : did'[b] > 0
    BY <1>4, <1>5, <1>6, <1>8, <1>9, BackedKept
<1>13. k.joined \subseteq joined' /\ \A b \in k.once : did'[b] > 0
    BY <1>7, <1>12 DEF Known, NewRecord
<1>14. Backed(r)'
    BY <1>6, <1>11, <1>13 DEF Backed
<1>15. PICK n : n = (mem.new \/ mem.record = None)
    OBVIOUS
<1>16. n \in BOOLEAN
    BY <1>5, <1>15 DEF TypeInv
<1>17. mem' = [mem EXCEPT !.record = r, !.new = n, !.phase = "save"]
    BY <1>3, <1>5, <1>7, <1>10, <1>15 DEF MarkDone, Recorded, TypeInv
<1>18. joined' \in SUBSET Chats /\ joined \subseteq joined'
    BY <1>4, <1>5
<1>. QED  BY <1>2, <1>4, <1>6, <1>11, <1>14, <1>16, <1>17, <1>18, ActKeeps

LEMMA JoinsInv == IInv /\ Joins => IInv'
<1>. SUFFICES ASSUME IInv, Joins PROVE IInv'
    OBVIOUS
<1>1. mem.phase = "act" /\ UNCHANGED <<row, did, walked>>
    BY DEF Joins, At
<1>2. PICK n \in Step.counts : \E T \in Targets(Step.do, n) :
         \E in \in SUBSET T : \E answered \in SUBSET in :
            joined' = joined \cup in /\ mem' = SaveJoined(answered)
    BY DEF Joins
<1>3. PICK T \in Targets(Step.do, n) : \E in \in SUBSET T : \E answered \in SUBSET in :
            joined' = joined \cup in /\ mem' = SaveJoined(answered)
    BY <1>2
<1>4. PICK in \in SUBSET T : \E answered \in SUBSET in :
            joined' = joined \cup in /\ mem' = SaveJoined(answered)
    BY <1>3
<1>5. PICK answered \in SUBSET in : joined' = joined \cup in /\ mem' = SaveJoined(answered)
    BY <1>4
<1>6. T \subseteq Chats
    BY <1>3 DEF Targets, Candidates
<1>7. did \in [OneTime -> 0..2] /\ joined \in SUBSET Chats /\ TypeInv
    BY DEF IInv, TypeInv
<1>8. joined' \in SUBSET Chats /\ joined \subseteq joined'
    BY <1>4, <1>5, <1>6, <1>7
<1>9. PICK k : k = Known
    OBVIOUS
<1>10. k \in Records
    BY <1>7, <1>9, KnownIsRecord
<1>11. Backed(mem.record)
    BY DEF IInv
<1>12. k.joined \subseteq joined /\ \A b \in k.once : did[b] > 0
    BY <1>9, <1>11 DEF Known, Backed, NewRecord
<1>13. PICK r : r = [k EXCEPT !.joined = @ \cup answered]
    OBVIOUS
<1>14. r \in Records /\ r.joined = k.joined \cup answered /\ r.once = k.once
    BY <1>4, <1>5, <1>6, <1>10, <1>13 DEF Records
<1>15. Backed(r)'
    BY <1>1, <1>5, <1>12, <1>14 DEF Backed
<1>16. PICK m : m = (mem.new \/ mem.record = None)
    OBVIOUS
<1>17. m \in BOOLEAN
    BY <1>7, <1>16 DEF TypeInv
<1>18. mem' = [mem EXCEPT !.record = r, !.new = m, !.phase = "save"]
    BY <1>5, <1>7, <1>9, <1>13, <1>16 DEF SaveJoined, Recorded, TypeInv
<1>19. did' \in [OneTime -> 0..2] /\ \A a \in OneTime : did[a] > 0 => did'[a] > 0
    BY <1>1, <1>7
<1>. QED  BY <1>1, <1>8, <1>14, <1>15, <1>17, <1>18, <1>19, ActKeeps

LEMMA JoinsHalfInv == IInv /\ JoinsHalf => IInv'
<1>. SUFFICES ASSUME IInv, JoinsHalf PROVE IInv'
    OBVIOUS
<1>1. mem.phase = "act" /\ UNCHANGED <<row, did, walked>>
      /\ mem' = [mem EXCEPT !.phase = "save"]
    BY DEF JoinsHalf, At
<1>2. PICK n \in Step.counts : \E T \in Targets(Step.do, n) :
         \E in \in SUBSET T : joined' = joined \cup in
    BY DEF JoinsHalf
<1>3. joined \subseteq joined' /\ joined' \in SUBSET Chats
    BY <1>2 DEF IInv, TypeInv, Targets, Candidates
<1>. QED  BY <1>1, <1>3, ActKeepsSilent

LEMMA ActsInv == IInv /\ Acts => IInv'
<1>. SUFFICES ASSUME IInv, Acts PROVE IInv'
    OBVIOUS
<1>1. mem.phase = "act" /\ UNCHANGED <<row, joined, did, walked>>
      /\ mem' = [mem EXCEPT !.phase = "save"]
    BY DEF Acts, At, Telegram
<1>2. joined \in SUBSET Chats
    BY DEF IInv, TypeInv
<1>. QED  BY <1>1, <1>2, ActKeepsSilent

LEMMA SavesInv == IInv /\ Saves => IInv'
<1>. SUFFICES ASSUME IInv, Saves PROVE IInv'
    OBVIOUS
<1>1. /\ mem.phase = "save" /\ UNCHANGED <<walked, joined, did>>
      /\ Commit(row.status, row.day)
    BY DEF Saves, At, Telegram
<1>2. row.status \in {"warming", "cooldown", "banned", "active"} /\ row.day \in Nat
    BY DEF IInv, TypeInv
<1>3. /\ row' \in [status : {"warming", "cooldown", "banned", "active"}, day : Nat,
                    flood : BOOLEAN, record : Records \cup {None}]
      /\ row'.status = row.status /\ row'.day = row.day
    BY <1>1, <1>2, CommitKeeps
<1>41. PICK p \in {"act", "done"} :
         mem' = [mem EXCEPT !.pos = mem.pos + 1, !.new = FALSE, !.phase = p]
    <2>1. CASE mem.pos < Len(Plan(mem.day))
        BY <2>1 DEF Saves
    <2>2. CASE ~(mem.pos < Len(Plan(mem.day)))
        BY <2>2 DEF Saves
    <2>. QED  BY <2>1, <2>2
<1>42. mem \in [phase : {"idle", "act", "save", "done"}, day : Nat, pos : Nat,
                 record : Records \cup {None}, new : BOOLEAN]
    BY DEF IInv, TypeInv
<1>43. mem.pos + 1 \in Nat
    BY <1>42
<1>4. /\ mem' \in [phase : {"idle", "act", "save", "done"}, day : Nat, pos : Nat,
                    record : Records \cup {None}, new : BOOLEAN]
      /\ mem'.record = mem.record /\ mem'.day = mem.day
    BY <1>41, <1>42, <1>43
<1>5. TypeInv'
    BY <1>1, <1>3, <1>4 DEF IInv, TypeInv
<1>6. Backed(row.record)'
    BY <1>1, <1>2, CommitInv DEF Telegram
<1>7. Backed(mem.record)'
    BY <1>1, <1>4 DEF IInv, Backed
<1>8. Current' /\ Walked' /\ Earned'
    BY <1>1, <1>3, <1>4 DEF IInv, Current, Walked, Earned
<1>. QED  BY <1>5, <1>6, <1>7, <1>8 DEF IInv

\* The end of a cycle that has committed: nothing is left in the session.
LEMMA EndKeeps ==
    ASSUME IInv, mem' = NoMem, UNCHANGED <<joined, did>>, walked \subseteq walked',
           row' \in [status : {"warming", "cooldown", "banned", "active"}, day : Nat,
                     flood : BOOLEAN, record : Records \cup {None}],
           Backed(row.record)',
           \A d \in 1..(row'.day - 1) : d \in walked',
           row'.status = "active" => row'.day >= Target
    PROVE  IInv'
<1>1. TypeInv'
    BY DEF IInv, TypeInv, NoMem
<1>2. Backed(mem.record)' /\ Current'
    BY DEF Backed, Current, NoMem
<1>3. Walked' /\ Earned'
    BY DEF Walked, Earned
<1>. QED  BY <1>1, <1>2, <1>3 DEF IInv

LEMMA DayEndsInv == IInv /\ DayEnds => IInv'
<1>. SUFFICES ASSUME IInv, DayEnds PROVE IInv'
    OBVIOUS
<1>1. mem.day = row.day /\ row.day \in Nat /\ row.day > 0 /\ row.flood \in BOOLEAN
    BY DEF IInv, TypeInv, Current, DayEnds, At
<1>2. PICK d : d = mem.day + 1
    OBVIOUS
<1>3. d \in Nat /\ d = row.day + 1
    BY <1>1, <1>2
<1>4. PICK s \in {AfterDay(d), "cooldown"} : Commit(s, d)
    BY <1>2 DEF DayEnds
<1>5. /\ s \in {"warming", "cooldown", "banned", "active"}
      /\ s = "active" => d >= Target
    BY <1>3, <1>4 DEF AfterDay, Target
<1>6. /\ row' \in [status : {"warming", "cooldown", "banned", "active"}, day : Nat,
                    flood : BOOLEAN, record : Records \cup {None}]
      /\ row'.status = s /\ row'.day = d
    BY <1>3, <1>4, <1>5, CommitKeeps
<1>7. mem' = NoMem /\ UNCHANGED <<joined, did>> /\ walked' = walked \cup {row.day}
    BY <1>1 DEF DayEnds, Ends, Telegram
<1>8. Backed(row.record)'
    BY <1>3, <1>4, <1>5, <1>7, CommitInv DEF Telegram
<1>9. Walked
    BY DEF IInv
<1>10. \A e \in 1..(row'.day - 1) : e \in walked'
    BY <1>1, <1>3, <1>6, <1>7, <1>9 DEF Walked
<1>. QED  BY <1>5, <1>6, <1>7, <1>8, <1>10, EndKeeps

\* The end of a cycle that does not count the day.
LEMMA StopKeeps ==
    ASSUME IInv, mem' = NoMem, UNCHANGED did, walked' = walked,
           joined' \in SUBSET Chats, joined \subseteq joined',
           NEW s \in {"warming", "cooldown", "banned"}, NEW d \in Nat, d <= Larger(1, row.day),
           NEW f \in BOOLEAN, NEW r \in {row.record, mem.record},
           row' = [row EXCEPT !.status = s, !.day = d, !.flood = f, !.record = r]
    PROVE  IInv'
<1>1. /\ row' \in [status : {"warming", "cooldown", "banned", "active"}, day : Nat,
                    flood : BOOLEAN, record : Records \cup {None}]
      /\ row'.status = s /\ row'.day = d /\ row'.record = r
    BY DEF IInv, TypeInv
<1>2. TypeInv'
    BY <1>1 DEF IInv, TypeInv, NoMem
<1>3. TypeInv /\ r \in Records \cup {None} /\ Backed(r)
      /\ did' \in [OneTime -> 0..2] /\ \A a \in OneTime : did[a] > 0 => did'[a] > 0
    BY DEF IInv, TypeInv
<1>4. r # None => /\ r.joined \subseteq joined'
                  /\ \A a \in r.once : did'[a] > 0
    BY <1>3, BackedKept
<1>5. Backed(row.record)'
    BY <1>1, <1>4 DEF Backed
<1>6. Backed(mem.record)' /\ Current'
    BY DEF Backed, Current, NoMem
<1>7. row.day \in Nat
    BY DEF IInv, TypeInv
<1>8. \A e \in 1..(d - 1) : e \in 1..(row.day - 1)
    BY <1>7 DEF Larger
<1>9. Walked' /\ Earned'
    BY <1>1, <1>8 DEF IInv, Walked, Earned
<1>. QED  BY <1>2, <1>5, <1>6, <1>9 DEF IInv

LEMMA BeginsInv == IInv /\ Begins => IInv'
<1>. SUFFICES ASSUME IInv, Begins PROVE IInv'
    OBVIOUS
<1>1. PICK day : day = Larger(1, row.day)
    OBVIOUS
<1>2. /\ row.day \in Nat /\ row.flood \in BOOLEAN /\ mem.phase = "idle"
      /\ row.status = "warming" /\ row.record \in Records \cup {None}
    BY DEF IInv, TypeInv, Begins, At
<1>3. day \in Nat /\ day > 0 /\ \A e \in 1..(day - 1) : e \in 1..(row.day - 1)
    BY <1>1, <1>2 DEF Larger
<1>4. UNCHANGED <<joined, did, walked>>
    BY DEF Begins, Telegram
<1>50. \/ /\ row' = [row EXCEPT !.day = day]
          /\ \/ mem' = NoMem
             \/ mem' = [phase |-> "act", day |-> day, pos |-> 1, record |-> row.record,
                         new |-> FALSE]
       \/ row' = [row EXCEPT !.status = "cooldown", !.day = day] /\ mem' = mem
    BY <1>1 DEF Begins
<1>51. row \in [status : {"warming", "cooldown", "banned", "active"}, day : Nat,
                flood : BOOLEAN, record : Records \cup {None}]
    BY DEF IInv, TypeInv
<1>52. [row EXCEPT !.day = day] = [row EXCEPT !.status = "warming", !.day = day]
    BY <1>2, <1>51
<1>5. PICK s \in {"warming", "cooldown"} :
         /\ row' = [row EXCEPT !.status = s, !.day = day]
         /\ \/ mem' = NoMem \/ mem' = mem
            \/ /\ mem' = [phase |-> "act", day |-> day, pos |-> 1, record |-> row.record,
                           new |-> FALSE]
               /\ s = "warming"
    BY <1>50, <1>52
<1>6. /\ row' \in [status : {"warming", "cooldown", "banned", "active"}, day : Nat,
                    flood : BOOLEAN, record : Records \cup {None}]
      /\ row'.status = s /\ row'.day = day /\ row'.record = row.record
    BY <1>3, <1>5 DEF IInv, TypeInv
<1>7. Backed(row.record)' /\ Walked' /\ Earned'
    BY <1>3, <1>4, <1>6 DEF IInv, Backed, Walked, Earned
<1>8. mem' \in [phase : {"idle", "act", "save", "done"}, day : Nat, pos : Nat,
                 record : Records \cup {None}, new : BOOLEAN]
    <2>1. CASE mem' = NoMem
        BY <2>1 DEF NoMem
    <2>2. CASE mem' = mem
        BY <2>2 DEF IInv, TypeInv
    <2>3. CASE mem' = [phase |-> "act", day |-> day, pos |-> 1, record |-> row.record,
                       new |-> FALSE]
        BY <1>2, <1>3, <2>3
    <2>. QED  BY <1>5, <2>1, <2>2, <2>3
<1>9. TypeInv'
    BY <1>4, <1>6, <1>8 DEF IInv, TypeInv
<1>10. Backed(mem.record)'
    BY <1>2, <1>4, <1>5 DEF IInv, Backed, NoMem
<1>11. Current'
    BY <1>2, <1>3, <1>5, <1>6 DEF Current, NoMem
<1>. QED  BY <1>7, <1>9, <1>10, <1>11 DEF IInv

LEMMA FloodedInv == IInv /\ Flooded => IInv'
<1>. SUFFICES ASSUME IInv, Flooded PROVE IInv'
    OBVIOUS
<1>1. joined \subseteq joined' /\ joined' \in SUBSET Chats
    BY DEF IInv, TypeInv, Flooded, Targets, Candidates
<1>2. PICK d : d = Larger(1, mem.day - Setback)
    OBVIOUS
<1>3. mem.day = row.day /\ row.day \in Nat /\ row.day > 0
    BY DEF IInv, TypeInv, Current, Flooded, At
<1>4. d \in Nat /\ d <= Larger(1, row.day)
    BY <1>2, <1>3 DEF Larger, Setback
<1>5. /\ mem' = NoMem /\ UNCHANGED <<did, walked>>
      /\ row' = [row EXCEPT !.status = "cooldown", !.day = d, !.flood = TRUE]
    BY <1>2 DEF Flooded, Ends
<1>6. row' = [row EXCEPT !.status = "cooldown", !.day = d, !.flood = TRUE,
                         !.record = row.record]
    BY <1>5 DEF IInv, TypeInv
<1>. QED  BY <1>1, <1>4, <1>5, <1>6, StopKeeps

LEMMA FailsInv == IInv /\ Fails => IInv'
<1>. SUFFICES ASSUME IInv, Fails PROVE IInv'
    OBVIOUS
<1>1. mem.day = row.day /\ row.day \in Nat /\ row.day > 0 /\ row.flood \in BOOLEAN
    BY DEF IInv, TypeInv, Current, Fails, At
<1>2. PICK s \in {"banned", "cooldown"} : Commit(s, row.day)
    BY <1>1 DEF Fails
<1>3. mem' = NoMem /\ UNCHANGED <<joined, did, walked>>
    BY DEF Fails, Ends, Telegram
<1>4. PICK r \in {row.record, mem.record} :
         row' = [row EXCEPT !.status = s, !.day = row.day, !.record = r]
    BY <1>2 DEF Commit, Written
<1>5. row' = [row EXCEPT !.status = s, !.day = row.day, !.flood = row.flood, !.record = r]
    BY <1>4 DEF IInv, TypeInv
<1>6. joined \in SUBSET Chats /\ row.day <= Larger(1, row.day)
    BY <1>1 DEF IInv, TypeInv, Larger
<1>. QED  BY <1>1, <1>3, <1>5, <1>6, StopKeeps

LEMMA DiesInv == IInv /\ Dies => IInv'
<1>. SUFFICES ASSUME IInv, Dies PROVE IInv'
    OBVIOUS
<1>1. mem' = NoMem /\ UNCHANGED <<joined, did, walked>>
      /\ row' \in {row, [row EXCEPT !.status = "cooldown"]}
    BY DEF Dies, Ends, Telegram
<1>2. CASE row' = row
    <2>1. TypeInv'
        BY <1>1, <1>2 DEF IInv, TypeInv, NoMem
    <2>2. Backed(row.record)' /\ Backed(mem.record)' /\ Current' /\ Walked' /\ Earned'
        BY <1>1, <1>2 DEF IInv, Backed, Current, Walked, Earned, NoMem
    <2>. QED  BY <2>1, <2>2 DEF IInv
<1>3. CASE row' = [row EXCEPT !.status = "cooldown"]
    <2>1. /\ row.day \in Nat /\ row.flood \in BOOLEAN /\ joined \in SUBSET Chats
          /\ row.day <= Larger(1, row.day)
        BY DEF IInv, TypeInv, Larger
    <2>2. row' = [row EXCEPT !.status = "cooldown", !.day = row.day, !.flood = row.flood,
                             !.record = row.record]
        BY <1>3 DEF IInv, TypeInv
    <2>. QED  BY <1>1, <2>1, <2>2, StopKeeps
<1>. QED  BY <1>1, <1>2, <1>3

LEMMA ResumesInv == IInv /\ Resumes => IInv'
<1>. SUFFICES ASSUME IInv, Resumes PROVE IInv'
    OBVIOUS
<1>1. UNCHANGED <<mem, joined, did, walked>> /\ mem.phase = "idle"
    BY DEF Resumes, Telegram, At
<1>2. PICK s \in {"active", "warming"} :
         /\ row' = [row EXCEPT !.status = s]
         /\ s = "active" => row.day >= Target
    BY DEF Resumes
<1>3. /\ row' \in [status : {"warming", "cooldown", "banned", "active"}, day : Nat,
                    flood : BOOLEAN, record : Records \cup {None}]
      /\ row'.status = s /\ row'.day = row.day /\ row'.record = row.record
    BY <1>2 DEF IInv, TypeInv
<1>4. TypeInv'
    BY <1>1, <1>3 DEF IInv, TypeInv
<1>5. Backed(row.record)' /\ Backed(mem.record)' /\ Current'
    BY <1>1, <1>3 DEF IInv, Backed, Current
<1>6. Walked' /\ Earned'
    BY <1>1, <1>2, <1>3 DEF IInv, Walked, Earned
<1>. QED  BY <1>4, <1>5, <1>6 DEF IInv

\* What leaves the row, the session and Telegram alone.
LEMMA UnchangedInv ==
    ASSUME IInv, UNCHANGED <<row, mem, joined, did, walked>>
    PROVE  IInv'
<1>1. TypeInv'
    BY DEF IInv, TypeInv
<1>2. Backed(row.record)' /\ Backed(mem.record)' /\ Current' /\ Walked' /\ Earned'
    BY DEF IInv, Backed, Current, Walked, Earned
<1>. QED  BY <1>1, <1>2 DEF IInv

LEMMA LibrariesInv ==
    ASSUME IInv,
           \/ \E c \in Chats : CreateChannel(c) \/ DeleteChannel(c)
           \/ EditUsernames \/ EditNames \/ EditTrusted
    PROVE  IInv'
<1>1. UNCHANGED <<row, mem, joined, did, walked>>
    BY DEF CreateChannel, DeleteChannel, EditUsernames, EditNames, EditTrusted, Restock, Telegram
<1>. QED  BY <1>1, UnchangedInv

-----------------------------------------------------------------------------
LEMMA NextInv == IInv /\ [Next]_vars => IInv'
<1>. SUFFICES ASSUME IInv, [Next]_vars PROVE IInv'
    OBVIOUS
<1>1. CASE Begins
    BY <1>1, BeginsInv
<1>2. CASE Acts
    BY <1>2, ActsInv
<1>3. CASE ActsOnce
    BY <1>3, ActsOnceInv
<1>4. CASE Joins
    BY <1>4, JoinsInv
<1>5. CASE JoinsHalf
    BY <1>5, JoinsHalfInv
<1>6. CASE Saves
    BY <1>6, SavesInv
<1>7. CASE DayEnds
    BY <1>7, DayEndsInv
<1>8. CASE Flooded
    BY <1>8, FloodedInv
<1>9. CASE Fails
    BY <1>9, FailsInv
<1>10. CASE Dies
    BY <1>10, DiesInv
<1>11. CASE Resumes
    BY <1>11, ResumesInv
<1>12. CASE \/ \E c \in Chats : CreateChannel(c) \/ DeleteChannel(c)
            \/ EditUsernames \/ EditNames \/ EditTrusted
    BY <1>12, LibrariesInv
<1>13. CASE UNCHANGED vars
    BY <1>13, UnchangedInv DEF vars
<1>. QED  BY <1>1, <1>2, <1>3, <1>4, <1>5, <1>6, <1>7, <1>8, <1>9, <1>10, <1>11, <1>12, <1>13
          DEF Next

LEMMA InvReal == IInv => ProgressIsReal
<1>. SUFFICES ASSUME IInv PROVE ProgressIsReal
    OBVIOUS
<1>1. row.day \in Nat
    BY DEF IInv, TypeInv
<1>2. row.status = "active" => \A d \in 1..(Target - 1) : d \in 1..(row.day - 1)
    BY <1>1 DEF IInv, Earned, Target
<1>. QED  BY <1>2 DEF IInv, Walked, Backed, ProgressIsReal

\* What the row of a warming account says of its days, of the chats joined and
\* of the one-time actions done has happened, whatever fails and whatever the
\* administrator changes: _run_tg_warming_cycle, _update_status and the
\* one-time records.
THEOREM ProgressReal == Spec => []ProgressIsReal
<1>1. Init => IInv
    BY InitInv
<1>2. IInv /\ [Next]_vars => IInv'
    BY NextInv
<1>3. IInv => ProgressIsReal
    BY InvReal
<1>. QED  BY <1>1, <1>2, <1>3, PTL DEF Spec
=============================================================================
