--------------------------- MODULE AgentRun_store_proofs ---------------------------
(***************************************************************************)
(* What the store holds is what the frontier of the journal says: the      *)
(* run's row and the thread's holder, the calls' rows and effects, what    *)
(* the model was told and what was spent.  An effect that a crash cut from *)
(* its record is one the frontier is about to have.                        *)
(***************************************************************************)
EXTENDS AgentRun_proofs, FiniteSetTheorems

Db == [run : {"none", "running"} \cup Terminal, users : Nat, usage : [Steps -> Nat], bumped : [Steps -> Nat],
       messages : [Steps -> Nat], told : [Steps -> Seq(Final)], row : [Calls -> Statuses],
       expires : [Calls -> Nat], ran : [Calls -> Nat], holder : {"run", "next", "nobody"}, waiting : Nat,
       interrupt : BOOLEAN, paused : BOOLEAN, next : 0 .. 1, stream : {"open", "ended"}]

Typed == /\ db \in Db
         /\ stop \in {"none", "record", "hand", "start", "free", "end", "done"}
         /\ replies \in [sent : 0 .. MaxReplies, agreed : SUBSET Calls]
         /\ crashes \in 0 .. MaxCrashes

\* The call whose row a claim inserts.
Next1(b) == b.first + (Len(b.claims) + 1)

\* The store's fields after the effect of b's checkpoint, those a property reads.
Wrote(b, v) ==
  /\ b.at \notin {"start", "finish", "fail"} => db'.run = db.run
  /\ b.at = "start" => db'.run = IF db.run = "none" THEN "running" ELSE db.run
  /\ b.at = "finish" => db'.run = IF db.run = "running" THEN "completed" ELSE db.run
  /\ b.at = "fail" => db'.run = IF db.run = "running" THEN "failed" ELSE db.run
  /\ b.at \notin {"claim", "settle", "fail"} => db'.row = db.row
  /\ b.at = "fail" => db'.row = [c \in Calls |-> IF db.row[c] = "pending_approval" THEN "failed" ELSE db.row[c]]
  /\ b.at = "settle" => db'.row = [db.row EXCEPT ![CallOf(b)] = b.outcomes[Cur(b)]]
  /\ b.at = "claim" /\ v # "threw" => db'.row = [db.row EXCEPT ![Next1(b)] = RowOf[v]]
  /\ b.at = "claim" /\ v = "threw" => db'.row = db.row
  /\ b.at # "tool" => db'.ran = db.ran
  /\ b.at = "tool" => db'.ran = [db.ran EXCEPT ![CallOf(b)] = @ + 1]
  /\ b.at # "results" => db'.told = db.told
  /\ b.at = "results" => db'.told = [db.told EXCEPT ![b.step] = b.results]
  /\ b.at # "usage" => db'.usage = db.usage
  /\ b.at = "usage" => db'.usage = [db.usage EXCEPT ![b.step] = @ + 1]
  /\ b.at # "bump" => db'.bumped = db.bumped
  /\ b.at = "bump" => db'.bumped = [db.bumped EXCEPT ![b.step] = @ + 1]
  /\ b.at # "user" => db'.users = db.users
  /\ b.at = "user" => db'.users = db.users + 1
  /\ b.at # "assistant" => db'.messages = db.messages
  /\ b.at = "assistant" => db'.messages \in {db.messages, [db.messages EXCEPT ![b.step] = @ + 1]}

Handed(b) ==
  /\ b.at \notin {"advance", "restore", "release"} => db'.holder = db.holder
  /\ b.at \notin {"advance", "restore"} => db'.waiting = db.waiting /\ db'.paused = db.paused
  /\ b.at # "spawn" => db'.next = db.next
  /\ b.at = "advance" => /\ db'.holder # "run"
                         /\ db.holder # "run" => db' = db
                         /\ db.holder = "run" /\ db'.holder = "nobody" /\ db'.waiting > 0 => db'.paused
  /\ b.at = "restore" => db'.paused /\ db'.holder = IF db.holder = "next" THEN "nobody" ELSE db.holder
  /\ b.at = "release" => db'.holder = IF db.holder = "run" THEN "nobody" ELSE db.holder

LEMMA RunEndedTypes ==
  ASSUME NEW status \in Terminal, db \in Db
  PROVE  RunEnded(db, status) \in Db
BY DEF RunEnded, Db, Terminal

LEMMA NoCardsTypes ==
  ASSUME NEW d \in Db
  PROVE  /\ NoCards(d) \in Db
         /\ NoCards(d) = [d EXCEPT !.row = [c \in Calls |-> IF d.row[c] = "pending_approval" THEN "failed" ELSE d.row[c]]]
<1> DEFINE row == [c \in Calls |-> IF d.row[c] = "pending_approval" THEN "failed" ELSE d.row[c]]
<1>1. row \in [Calls -> Statuses]
  BY DEF Db, Statuses, Outcomes
<1>2. NoCards(d) = [d EXCEPT !.row = row]
  BY DEF NoCards, Db
<1> HIDE DEF row
<1>3. NoCards(d) \in Db
  BY <1>1, <1>2 DEF Db
<1> QED BY <1>2, <1>3 DEF row

\* ChatQueueService.plan, whoever ends the turn: the thread is the next message's or nobody's.
LEMMA PlannedTypes ==
  ASSUME db \in Db, NEW outcome, NEW d, d = Planned(outcome)
  PROVE  /\ d \in Db /\ d.holder # "run"
         /\ db.holder # "run" => d = db
         /\ db.holder = "run" /\ d.holder = "nobody" /\ d.waiting > 0 => d.paused
         /\ d.run = db.run /\ d.row = db.row /\ d.ran = db.ran /\ d.told = db.told
         /\ d.usage = db.usage /\ d.bumped = db.bumped /\ d.users = db.users
         /\ d.messages = db.messages /\ d.next = db.next
<1>1. CASE Starts(outcome)
  <2>1. d = [db EXCEPT !.holder = "next", !.waiting = db.waiting - 1]
    BY <1>1 DEF Planned
  <2>2. db.holder = "run" /\ db.waiting - 1 \in Nat
    BY <1>1 DEF Starts, Db
  <2> QED BY <2>1, <2>2 DEF Db
<1>2. CASE ~Starts(outcome) /\ db.holder = "run"
  <2> DEFINE paused == db.paused \/ db.waiting > 0
  <2>1. d = [db EXCEPT !.holder = "nobody", !.paused = paused]
    BY <1>2 DEF Planned, Released, Db
  <2>2. paused \in BOOLEAN /\ (db.waiting > 0 => paused)
    OBVIOUS
  <2> HIDE DEF paused
  <2> QED BY <1>2, <2>1, <2>2 DEF Db
<1>3. CASE ~Starts(outcome) /\ db.holder # "run"
  BY <1>3 DEF Planned
<1> QED BY <1>1, <1>2, <1>3

LEMMA RestoredTypes ==
  ASSUME db \in Db, NEW d, d = Restored(db)
  PROVE  /\ d \in Db /\ d.paused = TRUE /\ d.holder = IF db.holder = "next" THEN "nobody" ELSE db.holder
         /\ d.run = db.run /\ d.row = db.row /\ d.ran = db.ran /\ d.told = db.told
         /\ d.usage = db.usage /\ d.bumped = db.bumped /\ d.users = db.users
         /\ d.messages = db.messages /\ d.next = db.next
<1> DEFINE holder == IF db.holder = "next" THEN "nobody" ELSE db.holder
<1>1. d = [db EXCEPT !.waiting = db.waiting + 1, !.paused = TRUE, !.holder = holder]
  BY DEF Restored, Db
<1>2. holder \in {"run", "next", "nobody"} /\ db.waiting + 1 \in Nat
  BY DEF Db
<1> HIDE DEF holder
<1>3. d \in Db /\ d.paused = TRUE /\ d.holder = holder
  BY <1>1, <1>2 DEF Db
<1>4. /\ d.run = db.run /\ d.row = db.row /\ d.ran = db.ran /\ d.told = db.told
      /\ d.usage = db.usage /\ d.bumped = db.bumped /\ d.users = db.users
         /\ d.messages = db.messages /\ d.next = db.next
  BY <1>1 DEF Db
<1> QED BY <1>3, <1>4 DEF holder

\* What a checkpoint's effect does to the store.
LEMMA Writing ==
  ASSUME NEW b, Shaped(b), NEW v, Does(b, v), db \in Db, Around
  PROVE  db' \in Db /\ Wrote(b, v) /\ Handed(b)
<1>1. b.at \in Stepped /\ v \in Found(b) /\ db' = Store(b, v)
  BY DEF Does
<1>2. b \in Bodies /\ b.step \in Steps /\ b.results \in Seq(Final) /\ b.batch \in Seq(Kinds) /\ Len(b.batch) \in Nat
      /\ Len(b.claims) \in Nat /\ b.first \in Nat
  <2>1. b \in Bodies
    BY DEF Shaped
  <2> QED BY <2>1, BodyTypes, Zenon
<1>3. CASE b.at \in {"quota", "llm", "gate", "pose", "present"}
  <2>1. CASE b.at = "quota"
    BY <1>1, <2>1, AtQuota DEF Wrote, Handed
  <2>2. CASE b.at = "llm"
    <3>1. Store(b, v) = db
      BY <2>2, AtLlm, Zenon
    <3> QED BY <1>1, <2>2, <3>1 DEF Wrote, Handed
  <2>3. CASE b.at = "gate"
    <3>1. Store(b, v) = db
      BY <2>3, AtGate, Zenon
    <3> QED BY <1>1, <2>3, <3>1 DEF Wrote, Handed
  <2>4. CASE b.at = "pose"
    BY <1>1, <2>4, AtPose DEF Wrote, Handed
  <2>5. CASE b.at = "present"
    BY <1>1, <2>5, AtPresent DEF Wrote, Handed
  <2> QED BY <1>3, <2>1, <2>2, <2>3, <2>4, <2>5
<1>4. CASE b.at = "start"
  <2>1. db' = [db EXCEPT !.run = IF v = "ok" THEN "running" ELSE db.run] /\ (v = "ok" <=> db.run = "none")
    BY <1>1, <1>4, AtStart DEF Db
  <2>2. (IF v = "ok" THEN "running" ELSE db.run) \in {"none", "running"} \cup Terminal
    BY DEF Db
  <2> QED BY <1>4, <2>1, <2>2 DEF Wrote, Handed, Db
<1>5. CASE b.at = "user"
  <2> DEFINE users == db.users + 1
  <2>1. db' = [db EXCEPT !.users = users] /\ users \in Nat
    BY <1>1, <1>5, AtUser DEF Db
  <2> HIDE DEF users
  <2>2. db' \in Db /\ Handed(b)
    BY <1>5, <2>1 DEF Handed, Db
  <2>3. db'.users = users
    BY <2>1 DEF Db
  <2>4. Wrote(b, v)
    BY <1>5, <2>1, <2>3 DEF Wrote, Db, users
  <2> QED BY <2>2, <2>4
<1>6. CASE b.at = "assistant"
  <2> DEFINE messages == [db.messages EXCEPT ![b.step] = IF v = "message" THEN db.messages[b.step] + 1 ELSE db.messages[b.step]]
  <2>1. db' = [db EXCEPT !.messages = messages]
    BY <1>1, <1>6, AtAssistant
  <2>2. messages \in [Steps -> Nat]
    BY <1>2 DEF Db
  <2>3. messages \in {db.messages, [db.messages EXCEPT ![b.step] = db.messages[b.step] + 1]}
    BY <1>2 DEF Db
  <2> HIDE DEF messages
  <2>4. db' \in Db /\ Handed(b)
    BY <1>6, <2>1, <2>2 DEF Handed, Db
  <2>5. db'.messages = messages
    BY <2>1 DEF Db
  <2>6. Wrote(b, v)
    BY <1>6, <2>1, <2>3, <2>5 DEF Wrote, Db
  <2> QED BY <2>4, <2>6
<1>7. CASE b.at = "usage"
  <2> DEFINE usage == [db.usage EXCEPT ![b.step] = db.usage[b.step] + 1]
  <2>1. db' = [db EXCEPT !.usage = usage]
    BY <1>1, <1>7, AtUsage
  <2>2. usage \in [Steps -> Nat]
    BY <1>2, SMTT(30) DEF Db
  <2> HIDE DEF usage
  <2>3. db' \in Db /\ Handed(b)
    BY <1>7, <2>1, <2>2 DEF Handed, Db
  <2>4. db'.usage = usage
    BY <2>1 DEF Db
  <2>5. Wrote(b, v)
    BY <1>7, <2>1, <2>4 DEF Wrote, Db, usage
  <2> QED BY <2>3, <2>5
<1>8. CASE b.at = "bump"
  <2> DEFINE bumped == [db.bumped EXCEPT ![b.step] = db.bumped[b.step] + 1]
  <2>1. db' = [db EXCEPT !.bumped = bumped]
    BY <1>1, <1>8, AtBump
  <2>2. bumped \in [Steps -> Nat]
    BY <1>2 DEF Db
  <2> HIDE DEF bumped
  <2>3. db' \in Db /\ Handed(b)
    BY <1>8, <2>1, <2>2 DEF Handed, Db
  <2>4. db'.bumped = bumped
    BY <2>1 DEF Db
  <2>5. Wrote(b, v)
    BY <1>8, <2>1, <2>4 DEF Wrote, Db, bumped
  <2> QED BY <2>3, <2>5
<1>9. CASE b.at = "claim"
  <2>1. CASE v = "threw"
    <3>1. db' = db
      BY <1>1, <1>9, <2>1, AtClaim
    <3> QED BY <1>9, <2>1, <3>1 DEF Wrote, Handed
  <2>2. CASE v # "threw"
    <3> DEFINE row == [db.row EXCEPT ![Next1(b)] = RowOf[v]]
               expires == [db.expires EXCEPT ![Next1(b)] = IF v = "ask" THEN now + Ttl ELSE Never]
    <3>1. db' = [db EXCEPT !.row = row, !.expires = expires]
      <4> DEFINE c == Next1(b)
                 e == IF v = "ask" THEN now + Ttl ELSE Never
      <4>1. Store(b, v) = IF v = "threw" THEN db ELSE [db EXCEPT !.row[c] = RowOf[v], !.expires[c] = e]
        BY <1>9, AtClaim, Zenon DEF Next1
      <4>2. row = [db.row EXCEPT ![c] = RowOf[v]] /\ expires = [db.expires EXCEPT ![c] = e]
        OBVIOUS
      <4> HIDE DEF c, e, row, expires
      <4>3. db' = [db EXCEPT !.row[c] = RowOf[v], !.expires[c] = e]
        BY <1>1, <2>2, <4>1
      <4> QED BY <4>2, <4>3 DEF Db
    <3>2. v \in ClaimsOf
      <4> DEFINE call == b.first + (Len(b.claims) + 1)
                 kind == b.batch[Len(b.claims) + 1]
      <4>1. v \in Claims(call, kind)
        BY <1>1, <1>9, AtClaim
      <4>2. kind \in Kinds
        <5>1. Len(b.claims) + 1 \in 1 .. Len(b.batch)
          BY <1>2, <1>9 DEF Shaped
        <5> QED BY <1>2, <5>1
      <4> HIDE DEF call, kind
      <4> QED BY <2>2, <4>1, <4>2, ClaimsKinds
    <3>3. row \in [Calls -> Statuses]
      <4>1. RowOf[v] \in Statuses
        BY <3>2 DEF RowOf, Statuses, Outcomes, ClaimsOf
      <4> QED BY <4>1 DEF Db
    <3>4. expires \in [Calls -> Nat]
      <4>1. now + Ttl \in Nat /\ Never \in Nat
        BY TurnAssumption DEF Around, Never
      <4> QED BY <4>1 DEF Db
    <3> HIDE DEF row, expires
    <3>5. db' \in Db /\ Handed(b)
      BY <1>9, <3>1, <3>3, <3>4 DEF Handed, Db
    <3>6. db'.row = row
      BY <3>1 DEF Db
    <3>7. Wrote(b, v)
      BY <1>9, <2>2, <3>1, <3>6 DEF Wrote, Db, row
    <3> QED BY <3>5, <3>7
  <2> QED BY <2>1, <2>2
<1>10. CASE b.at = "tool"
  <2> DEFINE ran == [db.ran EXCEPT ![CallOf(b)] = db.ran[CallOf(b)] + 1]
  <2>1. db' = [db EXCEPT !.ran = ran]
    BY <1>1, <1>10, AtTool
  <2>2. ran \in [Calls -> Nat]
    <3>1. b.at \in Serving
      BY <1>10 DEF Serving
    <3>2. CallOf(b) \in Calls
      BY <3>1, FrontTypes
    <3> DEFINE c == CallOf(b)
               n == db.ran[c] + 1
    <3>3. n \in Nat
      BY <3>2 DEF Db
    <3>4. ran = [db.ran EXCEPT ![c] = n]
      OBVIOUS
    <3> HIDE DEF c, n
    <3> QED BY <3>3, <3>4 DEF Db
  <2> HIDE DEF ran
  <2>3. db' \in Db /\ Handed(b)
    BY <1>10, <2>1, <2>2 DEF Handed, Db
  <2>4. db'.ran = ran
    BY <2>1 DEF Db
  <2>5. Wrote(b, v)
    BY <1>10, <2>1, <2>4 DEF Wrote, Db, ran
  <2> QED BY <2>3, <2>5
<1>11. CASE b.at = "settle"
  <2> DEFINE row == [db.row EXCEPT ![CallOf(b)] = b.outcomes[Cur(b)]]
  <2>1. db' = [db EXCEPT !.row = row]
    BY <1>1, <1>11, AtSettle
  <2>2. row \in [Calls -> Statuses]
    <3>1. b.outcomes[Cur(b)] \in Statuses
      BY <1>11 DEF Shaped, Statuses
    <3> QED BY <3>1 DEF Db
  <2> HIDE DEF row
  <2>3. db' \in Db /\ Handed(b)
    BY <1>11, <2>1, <2>2 DEF Handed, Db
  <2>4. db'.row = row
    BY <2>1 DEF Db
  <2>5. Wrote(b, v)
    BY <1>11, <2>1, <2>4 DEF Wrote, Db, row
  <2> QED BY <2>3, <2>5
<1>12. CASE b.at = "results"
  <2> DEFINE told == [db.told EXCEPT ![b.step] = b.results]
  <2>1. db' = [db EXCEPT !.told = told]
    BY <1>1, <1>12, AtResults
  <2>2. told \in [Steps -> Seq(Final)]
    BY <1>2 DEF Db
  <2> HIDE DEF told
  <2>3. db' \in Db /\ Handed(b)
    BY <1>12, <2>1, <2>2 DEF Handed, Db
  <2>4. db'.told = told
    BY <2>1 DEF Db
  <2>5. Wrote(b, v)
    BY <1>12, <2>1, <2>4 DEF Wrote, Db, told
  <2> QED BY <2>3, <2>5
<1>13. CASE b.at = "finish"
  <2>1. db' = RunEnded(db, "completed")
    BY <1>1, <1>13, AtFinish
  <2>2. db' = [db EXCEPT !.run = IF db.run = "running" THEN "completed" ELSE db.run]
    BY <2>1 DEF RunEnded
  <2>3. (IF db.run = "running" THEN "completed" ELSE db.run) \in {"none", "running"} \cup Terminal
    BY DEF Db, Terminal
  <2> QED BY <1>13, <2>2, <2>3 DEF Wrote, Handed, Db
<1>14. CASE b.at = "fail"
  <2> DEFINE d == RunEnded(db, "failed")
  <2>1. d = [db EXCEPT !.run = IF db.run = "running" THEN "failed" ELSE db.run] /\ d \in Db
    BY RunEndedTypes DEF RunEnded, Terminal
  <2>2. db' = NoCards(d)
    BY <1>1, <1>14, AtFail
  <2> DEFINE row == [c \in Calls |-> IF d.row[c] = "pending_approval" THEN "failed" ELSE d.row[c]]
  <2> HIDE DEF d
  <2>3. db' = [d EXCEPT !.row = row] /\ db' \in Db
    BY <2>1, <2>2, NoCardsTypes
  <2>4. d.row = db.row
    BY <2>1 DEF Db
  <2>5. row = [c \in Calls |-> IF db.row[c] = "pending_approval" THEN "failed" ELSE db.row[c]]
    BY <2>4
  <2> HIDE DEF row
  <2>6. db'.row = row /\ Handed(b)
    BY <1>14, <2>1, <2>3 DEF Handed, Db
  <2>7. Wrote(b, v)
    BY <1>14, <2>1, <2>3, <2>5, <2>6 DEF Wrote, Db
  <2> QED BY <2>3, <2>6, <2>7
<1>15. CASE b.at = "advance"
  <2>1. db' = Planned(Outcome(b))
    BY <1>1, <1>15, AtAdvance
  <2>2. /\ db' \in Db /\ db'.holder # "run"
        /\ db.holder # "run" => db' = db
        /\ db.holder = "run" /\ db'.holder = "nobody" /\ db'.waiting > 0 => db'.paused
        /\ db'.run = db.run /\ db'.row = db.row /\ db'.ran = db.ran /\ db'.told = db.told
        /\ db'.usage = db.usage /\ db'.bumped = db.bumped /\ db'.users = db.users /\ db'.messages = db.messages
        /\ db'.next = db.next
    BY <2>1, PlannedTypes
  <2> QED BY <1>15, <2>2 DEF Wrote, Handed
<1>16. CASE b.at = "spawn"
  <2>1. db' = db \/ db' = [db EXCEPT !.next = 1]
    BY <1>1, <1>16, AtSpawn
  <2>2. CASE db' = db
    BY <1>16, <2>2 DEF Wrote, Handed
  <2>3. CASE db' = [db EXCEPT !.next = 1]
    <3>1. db' \in Db
      <4> DEFINE n == 1
      <4>1. n \in 0 .. 1 /\ db' = [db EXCEPT !.next = n]
        BY <2>3
      <4> HIDE DEF n
      <4> QED BY <4>1 DEF Db
    <3>2. Wrote(b, v)
      BY <1>16, <2>3 DEF Wrote, Db
    <3>3. Handed(b)
      BY <1>16, <2>3 DEF Handed, Db
    <3> QED BY <3>1, <3>2, <3>3
  <2> QED BY <2>1, <2>2, <2>3
<1>17. CASE b.at = "restore"
  <2>1. db' = Restored(db)
    BY <1>1, <1>17, AtRestore
  <2> QED BY <1>17, <2>1, RestoredTypes DEF Wrote, Handed
<1>18. CASE b.at = "release"
  <2>1. db' = [db EXCEPT !.holder = IF db.holder = "run" THEN "nobody" ELSE db.holder]
    BY <1>1, <1>18, AtRelease DEF Released
  <2>2. (IF db.holder = "run" THEN "nobody" ELSE db.holder) \in {"run", "next", "nobody"}
    BY DEF Db
  <2> QED BY <1>18, <2>1, <2>2 DEF Wrote, Handed, Db
<1> QED BY <1>1, <1>3, <1>4, <1>5, <1>6, <1>7, <1>8, <1>9, <1>10, <1>11, <1>12, <1>13, <1>14, <1>15, <1>16, <1>17, <1>18 DEF Stepped

-----------------------------------------------------------------------------
(***************************************************************************)
(* What the other steps do to the store.                                   *)
(***************************************************************************)
Ran(c) == db.ran[c] > 0

\* The thread as it was, the calls as they were, what was told and spent as it was.
SameThread == /\ db'.run = db.run /\ db'.holder = db.holder /\ db'.waiting = db.waiting
              /\ db'.paused = db.paused /\ db'.next = db.next
SameRows   == db'.row = db.row
SameTold   == /\ db'.told = db.told /\ db'.usage = db.usage /\ db'.bumped = db.bumped
              /\ db'.users = db.users /\ db'.messages = db.messages
SameRan    == db'.ran = db.ran
Quiet      == SameThread /\ SameRows /\ SameTold /\ SameRan

LEMMA StreamEnds ==
  ASSUME db \in Db, db' \in {db, [db EXCEPT !.stream = "ended"]}
  PROVE  db' \in Db /\ Quiet
<1>1. CASE db' = db
  BY <1>1 DEF Quiet, SameThread, SameRows, SameTold, SameRan
<1>2. CASE db' = [db EXCEPT !.stream = "ended"]
  <2>1. db' \in Db
    BY <1>2 DEF Db
  <2>2. Quiet
    BY <1>2 DEF Quiet, SameThread, SameRows, SameTold, SameRan, Db
  <2> QED BY <2>1, <2>2
<1> QED BY <1>1, <1>2

\* Overlapped reads may have run once more, with or without a record.
Reran(f) ==
  /\ SameThread /\ SameRows /\ SameTold
  /\ SameRan \/ f.at = "together"
  /\ \A c \in Calls : /\ Ran(c) => Ran(c)'
                      /\ ~Ran(c) /\ Ran(c)' => c \in {f.first + n : n \in DOMAIN f.batch}

LEMMA RanOnce ==
  ASSUME db \in Db, NEW f, NEW cut \in SUBSET {f.first + n : n \in DOMAIN f.batch}, f.at # "together" => cut = {},
         db' = [db EXCEPT !.ran = [c \in Calls |-> IF c \in cut THEN @[c] + 1 ELSE @[c]]]
  PROVE  db' \in Db /\ Reran(f)
<1> DEFINE ran == [c \in Calls |-> IF c \in cut THEN db.ran[c] + 1 ELSE db.ran[c]]
<1>1. db' = [db EXCEPT !.ran = ran]
  OBVIOUS
<1>2. db.ran \in [Calls -> Nat]
  BY DEF Db
<1>3. ran \in [Calls -> Nat] /\ (cut = {} => ran = db.ran)
  BY <1>2
<1>4. \A c \in Calls : /\ db.ran[c] > 0 => ran[c] > 0
                       /\ ~(db.ran[c] > 0) /\ ran[c] > 0 => c \in cut
  BY <1>2
<1> HIDE DEF ran
<1>5. db' \in Db
  BY <1>1, <1>3 DEF Db
<1>6. db'.ran = ran /\ SameThread /\ SameRows /\ SameTold
  BY <1>1 DEF Db, SameThread, SameRows, SameTold
<1> QED BY <1>3, <1>4, <1>5, <1>6 DEF Reran, Ran, SameRan

LEMMA RunsOnce ==
  ASSUME db \in Db, NEW f, Shaped(f), Runs(f)
  PROVE  db' \in Db /\ Reran(f)
<1>1. PICK n \in DOMAIN f.batch : db' = [db EXCEPT !.ran[f.first + n] = @ + 1]
  BY DEF Runs
<1> DEFINE call == f.first + n
           cut == {call}
<1>2. call \in Calls
  <2>1. f.first \in Nat /\ DOMAIN f.batch = 1 .. Len(f.batch) /\ Len(f.batch) \in Nat /\ f.first + Len(f.batch) <= MaxCalls
    <3>1. f.first \in Nat /\ DOMAIN f.batch = 1 .. Len(f.batch) /\ Len(f.batch) \in Nat
      BY FrontTypes, Zenon
    <3> QED BY <3>1 DEF Shaped
  <2> QED BY <2>1, TurnAssumption DEF Calls
<1>3. cut \in SUBSET {f.first + k : k \in DOMAIN f.batch} /\ f.at = "together"
  BY DEF Runs
<1>4. db' = [db EXCEPT !.ran = [c \in Calls |-> IF c \in cut THEN db.ran[c] + 1 ELSE db.ran[c]]]
  <2> HIDE DEF call
  <2>1. db' = [db EXCEPT !.ran = [db.ran EXCEPT ![call] = db.ran[call] + 1]]
    BY <1>1 DEF call
  <2>2. [db.ran EXCEPT ![call] = db.ran[call] + 1] = [c \in Calls |-> IF c \in cut THEN db.ran[c] + 1 ELSE db.ran[c]]
    BY <1>2 DEF Db
  <2> QED BY <2>1, <2>2
<1> HIDE DEF cut
<1> QED BY <1>3, <1>4, RanOnce

\* Cards are closed as failed, and the run if nothing ended it yet.
Closed == /\ db'.run = (IF db.run = "running" THEN "failed" ELSE db.run)
          /\ db'.row = [c \in Calls |-> IF db.row[c] = "pending_approval" THEN "failed" ELSE db.row[c]]
          /\ SameTold /\ SameRan
          /\ db'.holder = db.holder /\ db'.waiting = db.waiting /\ db'.paused = db.paused /\ db'.next = db.next

LEMMA CardsClose ==
  ASSUME db \in Db, db' = NoCards(RunEnded(db, "failed"))
  PROVE  db' \in Db /\ Closed
<1> DEFINE d == RunEnded(db, "failed")
           row == [c \in Calls |-> IF d.row[c] = "pending_approval" THEN "failed" ELSE d.row[c]]
<1>1. d = [db EXCEPT !.run = IF db.run = "running" THEN "failed" ELSE db.run] /\ d \in Db /\ db' = NoCards(d)
  BY RunEndedTypes DEF RunEnded, Terminal
<1> HIDE DEF d
<1>2. db' = [d EXCEPT !.row = row] /\ db' \in Db
  BY <1>1, NoCardsTypes
<1>3. row = [c \in Calls |-> IF db.row[c] = "pending_approval" THEN "failed" ELSE db.row[c]]
  BY <1>1 DEF Db
<1> HIDE DEF row
<1>4. db'.row = row
  BY <1>1, <1>2 DEF Db
<1>5. Closed
  BY <1>1, <1>2, <1>3, <1>4 DEF Closed, SameTold, SameRan, Db
<1> QED BY <1>2, <1>5

\* A Stop settles the run's row before it hands the thread on.
Halting ==
  /\ SameRows /\ SameTold /\ SameRan
  /\ UNCHANGED <<log, body, crashes, mail, sending, replies, now>>
  /\ engine' = engine \/ (engine'.status # "active" /\ engine'.parked = NotParked)
  /\ engine.status # "active" => engine'.status = engine.status
  /\ engine'.status \in {"completed", "failed"} => engine.status = engine'.status
  /\ \/ stop = "none" /\ stop' = "record" /\ db' = db /\ db.run # "none" /\ engine'.status # "active"
     \/ /\ stop = "record" /\ stop' = "hand" /\ engine' = engine
        /\ db'.run = (IF db.run = "running" THEN "cancelled" ELSE db.run)
        /\ db'.holder = db.holder /\ db'.waiting = db.waiting /\ db'.paused = db.paused /\ db'.next = db.next
     \/ /\ stop = "hand" /\ stop' \in {"start", "free"} /\ engine' = engine /\ db'.holder # "run"
        /\ db.holder # "run" => db' = db
        /\ db.holder = "run" /\ db'.holder = "nobody" /\ db'.waiting > 0 => db'.paused
        /\ db'.run = db.run /\ db'.next = db.next
     \/ /\ stop = "start" /\ stop' = "free" /\ engine' = engine /\ db'.run = db.run
        /\ \/ db'.holder = db.holder /\ db'.waiting = db.waiting /\ db'.paused = db.paused
           \/ db'.paused /\ db'.next = db.next /\ db'.holder = (IF db.holder = "next" THEN "nobody" ELSE db.holder)
     \/ /\ stop = "free" /\ stop' = "end" /\ engine' = engine /\ db'.run = db.run
        /\ db'.holder = (IF db.holder = "run" THEN "nobody" ELSE db.holder)
        /\ db'.waiting = db.waiting /\ db'.paused = db.paused /\ db'.next = db.next
     \/ stop = "end" /\ stop' = "done" /\ engine' = engine /\ SameThread

LEMMA StopHalts ==
  ASSUME db \in Db, Around, Stop
  PROVE  db' \in Db /\ Halting
<1>1. CASE StopEngine
  <2>1. db' = db /\ UNCHANGED <<log, body, crashes, mail, sending, replies, now>> /\ stop = "none" /\ stop' = "record"
        /\ db.run # "none"
    BY <1>1 DEF StopEngine, Stopping
  <2>2. engine'.parked = NotParked /\ engine'.status # "active"
        /\ (engine.status # "active" => engine'.status = engine.status)
        /\ (engine'.status \in {"completed", "failed"} => engine.status = engine'.status)
    BY <1>1 DEF StopEngine
  <2> QED BY <2>1, <2>2 DEF Halting, SameRows, SameTold, SameRan
<1>2. CASE StopRecord
  <2>1. UNCHANGED <<log, body, crashes, mail, sending, replies, now, engine>> /\ stop = "record" /\ stop' = "hand"
        /\ db' = RunEnded(db, "cancelled")
    BY <1>2 DEF StopRecord, Stopping
  <2>2. db' \in Db
    BY <2>1, RunEndedTypes DEF Terminal
  <2>3. db' = [db EXCEPT !.run = IF db.run = "running" THEN "cancelled" ELSE db.run]
    BY <2>1 DEF RunEnded
  <2>4. /\ db'.run = (IF db.run = "running" THEN "cancelled" ELSE db.run)
        /\ db'.holder = db.holder /\ db'.waiting = db.waiting /\ db'.paused = db.paused /\ db'.next = db.next
        /\ SameRows /\ SameTold /\ SameRan
    BY <2>3 DEF Db, SameRows, SameTold, SameRan
  <2> QED BY <2>1, <2>2, <2>4 DEF Halting
<1>3. CASE StopHandoff
  <2>1. UNCHANGED <<log, body, crashes, mail, sending, replies, now, engine>> /\ stop = "hand" /\ stop' \in {"start", "free"}
        /\ db' = Planned("cancelled")
    BY <1>3 DEF StopHandoff, Stopping
  <2>2. /\ db' \in Db /\ db'.holder # "run"
        /\ db.holder # "run" => db' = db
        /\ db.holder = "run" /\ db'.holder = "nobody" /\ db'.waiting > 0 => db'.paused
        /\ db'.run = db.run /\ db'.next = db.next /\ SameRows /\ SameTold /\ SameRan
    BY <2>1, PlannedTypes DEF SameRows, SameTold, SameRan
  <2> QED BY <2>1, <2>2 DEF Halting
<1>4. CASE StopStarts
  <2>1. UNCHANGED <<log, body, crashes, mail, sending, replies, now, engine>> /\ stop = "start" /\ stop' = "free"
        /\ (db' = [db EXCEPT !.next = 1] \/ db' = Restored(db))
    BY <1>4 DEF StopStarts, Stopping
  <2>2. CASE db' = [db EXCEPT !.next = 1]
    <3>1. db' \in Db
      <4> DEFINE n == 1
      <4>1. n \in 0 .. 1 /\ db' = [db EXCEPT !.next = n]
        BY <2>2
      <4> HIDE DEF n
      <4> QED BY <4>1 DEF Db
    <3>2. /\ db'.holder = db.holder /\ db'.waiting = db.waiting /\ db'.paused = db.paused /\ db'.run = db.run
          /\ SameRows /\ SameTold /\ SameRan
      BY <2>2 DEF Db, SameRows, SameTold, SameRan
    <3> QED BY <2>1, <3>1, <3>2 DEF Halting
  <2>3. CASE db' = Restored(db)
    <3>1. /\ db' \in Db /\ db'.paused /\ db'.next = db.next /\ db'.run = db.run
          /\ db'.holder = (IF db.holder = "next" THEN "nobody" ELSE db.holder) /\ SameRows /\ SameTold /\ SameRan
      BY <2>3, RestoredTypes DEF SameRows, SameTold, SameRan
    <3> QED BY <2>1, <3>1 DEF Halting
  <2> QED BY <2>1, <2>2, <2>3
<1>5. CASE StopReleases
  <2>1. UNCHANGED <<log, body, crashes, mail, sending, replies, now, engine>> /\ stop = "free" /\ stop' = "end"
        /\ db' = [db EXCEPT !.holder = IF db.holder = "run" THEN "nobody" ELSE db.holder]
    BY <1>5 DEF StopReleases, Stopping, Released
  <2> DEFINE holder == IF db.holder = "run" THEN "nobody" ELSE db.holder
  <2>2. holder \in {"run", "next", "nobody"} /\ db' = [db EXCEPT !.holder = holder]
    BY <2>1 DEF Db
  <2> HIDE DEF holder
  <2>3. db' \in Db
    BY <2>2 DEF Db
  <2>4. /\ db'.holder = holder /\ db'.run = db.run /\ db'.waiting = db.waiting /\ db'.paused = db.paused
        /\ db'.next = db.next /\ SameRows /\ SameTold /\ SameRan
    BY <2>2 DEF Db, SameRows, SameTold, SameRan
  <2> QED BY <2>1, <2>3, <2>4 DEF Halting, holder
<1>6. CASE StopEnds
  <2>1. UNCHANGED <<log, body, crashes, mail, sending, replies, now, engine>> /\ stop = "end" /\ stop' = "done"
        /\ db' = [db EXCEPT !.stream = "ended"]
    BY <1>6 DEF StopEnds, Stopping
  <2>2. db' \in Db /\ Quiet
    BY <2>1, StreamEnds
  <2> QED BY <2>1, <2>2 DEF Halting, Quiet
<1> QED BY <1>1, <1>2, <1>3, <1>4, <1>5, <1>6 DEF Stop

-----------------------------------------------------------------------------
(***************************************************************************)
(* The moves of the frontier by what they do to the store.                 *)
(***************************************************************************)
Acts(f, g) ==
  \E v \in Found(f) :
    /\ f.at \in Stepped /\ Wrote(f, v) /\ Handed(f) /\ UNCHANGED <<engine, world>>
    /\ \/ UNCHANGED log /\ g = f
       \/ f.pos + 1 \notin DOMAIN log /\ Recorded(f.pos + 1, Asks(f), v) /\ Leads(f, v, g)

Heard(f, g) ==
  /\ f.at \in Waits /\ Quiet /\ engine'.status = engine.status /\ UNCHANGED <<sending, replies, stop>>
  /\ \E reply \in Told :
       /\ f.pos + 1 \notin DOMAIN log /\ Recorded(f.pos + 1, Asks(f), reply) /\ g = Goes(f, reply)
       /\ reply = "expired" => mail' = mail
       /\ reply # "expired" => /\ mail[CallOf(f)] # <<>> /\ reply = Head(mail[CallOf(f)])
                               /\ mail' = [mail EXCEPT ![CallOf(f)] = Tail(@)]

Walked(f, g) ==
  Quiet /\ UNCHANGED <<log, engine, world>> /\ ((f.at \in Alone /\ g = Moves(f)) \/ Joins(f, g))

Repeats(f) ==
  /\ Reran(f) /\ UNCHANGED <<engine, world>>
  /\ \/ UNCHANGED log
     \/ \E n \in DOMAIN f.batch : \E v \in {"executed", "failed"} :
          /\ f.at = "together" /\ f.pos + n \notin DOMAIN log /\ Recorded(f.pos + n, <<"tool", f.first + n>>, v)
          /\ Ran(f.first + n)'

\* Nothing that the run's row, its calls or its thread say has changed.
Still(f) ==
  /\ Quiet /\ UNCHANGED <<log, stop>>
  /\ engine'.status # engine.status => engine.status = "active" /\ (f.at = "over" \/ db.holder # "run")
  /\ UNCHANGED <<mail, sending, replies>> \/ Admit \/ Signal

LEMMA ActsTyped ==
  ASSUME NEW S, NEW f, Replay(S, f), Typed, NEW g, Takes(f, g) \/ (Loses(f) /\ g = f)
  PROVE  Typed' /\ Acts(f, g)
<1>1. PICK v : /\ Does(f, v)
               /\ \/ UNCHANGED crashes /\ Recorded(f.pos + 1, Asks(f), v) /\ g = Goes(f, v)
                  \/ UNCHANGED log /\ crashes < MaxCrashes /\ crashes' = crashes + 1 /\ g = f
  BY DEF Takes, Loses
<1>2. Shaped(f) /\ db \in Db /\ Around /\ v \in Found(f) /\ f.at \in Stepped /\ f.pos + 1 \notin DOMAIN log
  BY <1>1 DEF Replay, Chain, Typed, Does
<1>3. db' \in Db /\ Wrote(f, v) /\ Handed(f)
  BY <1>1, <1>2, Writing
<1>4. g = Goes(f, v) => Leads(f, v, g)
  BY <1>2, Going
<1>5. UNCHANGED <<engine, world>>
  BY <1>1 DEF Does
<1>6. crashes' \in 0 .. MaxCrashes
  BY <1>1, TurnAssumption DEF Typed
<1> QED BY <1>1, <1>2, <1>3, <1>4, <1>5, <1>6 DEF Acts, Typed, world

LEMMA HeardTyped ==
  ASSUME NEW S, NEW f, Replay(S, f), Typed, NEW g, Hears(f, g)
  PROVE  Typed' /\ Heard(f, g)
<1>1. UNCHANGED <<db, crashes, sending, replies, stop, now>> /\ engine'.status = engine.status
  BY DEF Hears, Replay, Around
<1>2. Quiet
  BY <1>1 DEF Quiet, SameThread, SameRows, SameTold, SameRan
<1> QED BY <1>1, <1>2 DEF Hears, Heard, Typed

LEMMA WalkedTyped ==
  ASSUME NEW S, NEW f, Replay(S, f), Typed, NEW g, Wanders(f, g) \/ Joins(f, g)
  PROVE  Typed' /\ Walked(f, g)
<1>1. db' \in {db, [db EXCEPT !.stream = "ended"]} /\ UNCHANGED <<log, engine, crashes, world>>
  BY DEF Wanders, Joins
<1>2. db' \in Db /\ Quiet
  BY <1>1, StreamEnds DEF Typed
<1> QED BY <1>1, <1>2 DEF Wanders, Walked, Typed, world

LEMMA RepeatsTyped ==
  ASSUME NEW S, NEW f, Replay(S, f), Typed, Runs(f) \/ (Cuts(f) /\ UNCHANGED log)
  PROVE  Typed' /\ Repeats(f)
<1>1. UNCHANGED <<engine, world>> /\ (crashes' = crashes \/ (crashes < MaxCrashes /\ crashes' = crashes + 1))
  BY DEF Runs, Cuts
<1>2. crashes' \in 0 .. MaxCrashes
  BY <1>1, TurnAssumption DEF Typed
<1>3. db' \in Db /\ Reran(f)
  <2>1. CASE Runs(f)
    BY <2>1, RunsOnce DEF Typed, Replay, Chain
  <2>2. CASE Cuts(f)
    <3>1. PICK cut \in SUBSET {f.first + n : n \in DOMAIN f.batch} :
            /\ f.at # "together" => cut = {}
            /\ db' = [db EXCEPT !.ran = [c \in Calls |-> IF c \in cut THEN @[c] + 1 ELSE @[c]]]
      BY <2>2 DEF Cuts
    <3> QED BY <3>1, RanOnce DEF Typed
  <2> QED BY <2>1, <2>2
<1>4. ASSUME Runs(f), ~UNCHANGED log
      PROVE  \E n \in DOMAIN f.batch : \E v \in {"executed", "failed"} :
               /\ f.at = "together" /\ f.pos + n \notin DOMAIN log /\ Recorded(f.pos + n, <<"tool", f.first + n>>, v)
               /\ Ran(f.first + n)'
  <2>1. PICK n \in DOMAIN f.batch :
          /\ f.pos + n \notin DOMAIN log
          /\ db' = [db EXCEPT !.ran[f.first + n] = @ + 1]
          /\ \E v \in ToolOutcomes : Recorded(f.pos + n, <<"tool", f.first + n>>, v)
    BY <1>4 DEF Runs
  <2> DEFINE call == f.first + n
  <2>2. call \in Calls
    <3>1. f.first \in Nat /\ DOMAIN f.batch = 1 .. Len(f.batch) /\ Len(f.batch) \in Nat
      BY FrontTypes, Zenon DEF Replay, Chain
    <3>2. f.first + Len(f.batch) <= MaxCalls
      BY DEF Replay, Chain, Shaped
    <3> QED BY <3>1, <3>2, TurnAssumption DEF Calls
  <2>3. db' = [db EXCEPT !.ran = [db.ran EXCEPT ![call] = db.ran[call] + 1]]
    BY <2>1
  <2> HIDE DEF call
  <2>4. db'.ran[call] = db.ran[call] + 1 /\ db.ran[call] \in Nat
    BY <2>2, <2>3 DEF Typed, Db
  <2>5. Ran(call)'
    BY <2>4 DEF Ran
  <2>6. PICK v \in ToolOutcomes : Recorded(f.pos + n, <<"tool", f.first + n>>, v)
    BY <2>1
  <2>7. v \in {"executed", "failed"}
    BY DEF ToolOutcomes
  <2>8. Ran(f.first + n)'
    BY <2>5 DEF call
  <2> QED BY <1>4, <2>1, <2>6, <2>7, <2>8 DEF Runs
<1> QED BY <1>1, <1>2, <1>3, <1>4 DEF Repeats, Typed, world

\* The other steps: what leaves the frontier, a dead run's cards, and a Stop.
LEMMA RestsTyped ==
  ASSUME NEW S, NEW f, Replay(S, f), Typed, UNCHANGED log, Rests(f)
  PROVE  Typed' /\ (Still(f) \/ Repeats(f) \/ (Closed /\ UNCHANGED <<engine, world>>) \/ Halting)
<1>0. db \in Db
  BY DEF Typed
<1>1. CASE db' \in {db, [db EXCEPT !.stream = "ended"]} /\ UNCHANGED <<engine, crashes, world>>
  <2>1. db' \in Db /\ Quiet
    BY <1>0, <1>1, StreamEnds
  <2> QED BY <1>1, <2>1 DEF Still, Typed, world
<1>2. CASE Parks(f)
  <2>1. UNCHANGED <<db, crashes, world>> /\ engine'.status = engine.status
    BY <1>2 DEF Parks, Replay, Around
  <2> QED BY <2>1 DEF Still, Typed, world, Quiet, SameThread, SameRows, SameTold, SameRan
<1>3. CASE \E b : Leaves(b) /\ (b.at = "over" => b = f)
  <2>1. PICK b : Leaves(b) /\ (b.at = "over" => b = f)
    BY <1>3
  <2>2. UNCHANGED <<db, crashes, world>> /\ (engine'.status # engine.status => engine.status = "active")
    BY <2>1 DEF Leaves, Replay, Around
  <2>3. f.at = "over" \/ db.holder # "run"
    BY <2>1 DEF Leaves
  <2> QED BY <2>2, <2>3 DEF Still, Typed, world, Quiet, SameThread, SameRows, SameTold, SameRan
<1>4. CASE Cuts(f)
  BY <1>4, RepeatsTyped
<1>5. CASE Tick
  BY <1>5 DEF Tick, Still, Typed, Quiet, SameThread, SameRows, SameTold, SameRan
<1>6. CASE Admit
  <2>1. UNCHANGED <<db, engine, stop, crashes>>
    BY <1>6 DEF Admit
  <2>2. replies' \in [sent : 0 .. MaxReplies, agreed : SUBSET Calls]
    <3>1. PICK call \in Calls, reply \in Replies :
            replies' = [sent |-> replies.sent + 1, agreed |-> replies.agreed \cup (IF reply = "yes" THEN {call} ELSE {})]
      BY <1>6 DEF Admit
    <3>2. replies.sent + 1 \in 0 .. MaxReplies
      BY <1>6, TurnAssumption DEF Admit, Typed
    <3> QED BY <3>1, <3>2 DEF Typed
  <2> QED BY <1>6, <2>1, <2>2 DEF Still, Typed, Quiet, SameThread, SameRows, SameTold, SameRan
<1>7. CASE Signal
  BY <1>7 DEF Signal, Still, Typed, Quiet, SameThread, SameRows, SameTold, SameRan
<1>8. CASE RefuseDead
  <2>1. db' \in Db /\ Closed
    BY <1>0, <1>8, CardsClose DEF RefuseDead
  <2> QED BY <1>8, <2>1 DEF RefuseDead, Typed, world
<1>9. CASE Stop
  <2>1. db' \in Db /\ Halting
    BY <1>0, <1>9, StopHalts DEF Replay
  <2> QED BY <2>1 DEF Halting, Typed
<1> QED BY <1>1, <1>2, <1>3, <1>4, <1>5, <1>6, <1>7, <1>8, <1>9 DEF Rests, People

LEMMA Effects ==
  ASSUME NEW S, NEW f, Replay(S, f), Typed, NEW g, Advances(f, g)
  PROVE  /\ Typed'
         /\ \/ Acts(f, g) \/ Heard(f, g) \/ Walked(f, g)
            \/ g = f /\ (Repeats(f) \/ Still(f) \/ (Closed /\ UNCHANGED <<log, engine, world>>) \/ Halting)
BY ActsTyped, HeardTyped, WalkedTyped, RepeatsTyped, RestsTyped DEF Advances

-----------------------------------------------------------------------------
(***************************************************************************)
(* The run's row and the thread.                                           *)
(***************************************************************************)
\* While the run holds its thread it is not being settled; a thread handed on has a settled run.
Thread(f) ==
  /\ f.at # "start" => db.run # "none"
  /\ f.at \in After => db.run \in Terminal
  /\ stop # "none" => db.run # "none" /\ engine.status # "active"
  /\ stop \notin {"none", "record"} => db.run \in Terminal
  /\ stop \in {"start", "free", "end", "done"} => db.holder # "run"
  /\ f.at \in Closing => db.holder # "run"
  /\ db.holder # "run" => f.at \in After \/ stop \in {"start", "free", "end", "done"}
  /\ db.next > 0 => db.run \in Terminal
  /\ db.holder = "nobody" /\ db.waiting > 0 => db.paused
  /\ engine.status \in {"completed", "failed"} => f.at \in After

LEMMA ThreadActs ==
  ASSUME NEW S, NEW f, Replay(S, f), Typed, Thread(f), NEW g, Acts(f, g)
  PROVE  Thread(g)'
<1>1. PICK v \in Found(f) :
        /\ f.at \in Stepped /\ Wrote(f, v) /\ Handed(f) /\ UNCHANGED <<engine, world>>
        /\ g = f \/ Leads(f, v, g)
  BY DEF Acts
<1>2. UNCHANGED stop /\ UNCHANGED engine /\ db.run \in {"none", "running"} \cup Terminal
  BY <1>1 DEF world, Typed, Db
<1>3. CASE f.at \notin {"start", "finish", "fail"} \cup After
  <2>1. g.at # "start" /\ g.at \notin After
    BY <1>1, <1>3 DEF Leads, Stepped, Waits, After, Closing, Settled, Serving
  <2>2. SameThread
    BY <1>1, <1>3 DEF Wrote, Handed, SameThread, After, Closing
  <2> QED BY <1>2, <1>3, <2>1, <2>2 DEF Thread, SameThread, Closing, After
<1>4. CASE f.at = "start"
  <2>1. g.at \in {"start", "quota", "fail"}
    BY <1>1, <1>4 DEF Leads
  <2>2. /\ db'.run = (IF db.run = "none" THEN "running" ELSE db.run) /\ db'.holder = db.holder
        /\ db'.waiting = db.waiting /\ db'.paused = db.paused /\ db'.next = db.next
    BY <1>1, <1>4 DEF Wrote, Handed
  <2> QED BY <1>2, <1>4, <2>1, <2>2 DEF Thread, Closing, After, Terminal
<1>5. CASE f.at \in {"finish", "fail"}
  <2>1. g.at \in {f.at, "advance"}
    BY <1>1, <1>5 DEF Leads
  <2>2. /\ db'.run \in Terminal /\ db'.holder = db.holder
        /\ db'.waiting = db.waiting /\ db'.paused = db.paused /\ db'.next = db.next
    BY <1>1, <1>2, <1>5 DEF Wrote, Handed, Thread, Terminal
  <2> QED BY <1>2, <1>5, <2>1, <2>2 DEF Thread, Closing, After, Terminal
<1>6. CASE f.at \in After
  <2>1. g.at \in After /\ (g.at = "advance" => f.at = "advance" /\ g = f)
    BY <1>1, <1>6 DEF Leads, Stepped, After, Closing
  <2>2. db'.run = db.run /\ db.run \in Terminal
    BY <1>1, <1>6 DEF Wrote, Thread, After, Closing
  <2>3. /\ db'.holder = "run" => db.holder = "run" /\ f.at # "advance"
        /\ db'.holder = "nobody" /\ db'.waiting > 0 => db'.paused
    <3>1. CASE f.at = "advance"
      <4>1. CASE db.holder = "run"
        BY <1>1, <3>1, <4>1 DEF Handed
      <4>2. CASE db.holder # "run"
        <5>1. db' = db
          BY <1>1, <3>1, <4>2 DEF Handed
        <5> QED BY <4>2, <5>1 DEF Thread
      <4> QED BY <4>1, <4>2
    <3>2. CASE f.at = "restore"
      BY <1>1, <3>2 DEF Handed
    <3>3. CASE f.at \notin {"advance", "restore"}
      <4>1. db.holder # "run"
        BY <1>6, <3>3 DEF Thread, After
      <4>2. db'.holder = db.holder /\ db'.waiting = db.waiting /\ db'.paused = db.paused
        BY <1>1, <3>3, <4>1 DEF Handed
      <4> QED BY <4>1, <4>2 DEF Thread
    <3> QED BY <3>1, <3>2, <3>3
  <2> QED BY <1>2, <1>6, <2>1, <2>2, <2>3 DEF Thread, Closing, After, Terminal
<1> QED BY <1>3, <1>4, <1>5, <1>6

LEMMA ThreadMoves ==
  ASSUME NEW S, NEW f, Replay(S, f), Typed, Thread(f), NEW g, Advances(f, g)
  PROVE  Thread(g)'
<1>1. /\ Typed'
      /\ \/ Acts(f, g) \/ Heard(f, g) \/ Walked(f, g)
         \/ g = f /\ (Repeats(f) \/ Still(f) \/ (Closed /\ UNCHANGED <<log, engine, world>>) \/ Halting)
  BY Effects
<1>2. Shaped(f) /\ db.run \in {"none", "running"} \cup Terminal
  BY DEF Replay, Chain, Typed, Db
<1>3. CASE Acts(f, g)
  BY <1>3, ThreadActs
<1>4. CASE Heard(f, g)
  <2>1. PICK reply \in Told : g = Goes(f, reply)
    BY <1>4 DEF Heard
  <2>2. g.at \in {"tool", "decide", "settle"} /\ f.at \in Waits
    BY <1>2, <1>4, <2>1, Waited, Zenon DEF Heard
  <2>3. SameThread /\ UNCHANGED stop /\ engine'.status = engine.status
    BY <1>4 DEF Heard, Quiet
  <2> QED BY <2>2, <2>3 DEF Thread, SameThread, Waits, After, Closing
<1>5. CASE Walked(f, g)
  <2>1. g.at # "start" /\ (g.at \in After <=> f.at \in After) /\ g.at # "advance" /\ f.at # "advance" /\ f.at # "start"
    <3>1. CASE f.at \in Alone /\ g = Moves(f)
      <4>1. /\ f.at = "head"    => g.at = "llm"
            /\ f.at = "check"   => g.at = "assistant"
            /\ f.at = "close"   => g.at \in {"over", "release"}
            /\ f.at = "receipt" => Settled(f, g)
            /\ f.at = "misasked" => g.at = "settle"
        BY <1>2, <3>1, Moving, Zenon
      <4> QED BY <3>1, <4>1 DEF Alone, After, Closing, Settled, Serving
    <3>2. CASE Joins(f, g)
      <4>1. g.at = "settle" /\ f.at = "together"
        BY <1>2, <3>2, Joining, Zenon DEF Joins
      <4> QED BY <4>1 DEF After, Closing
    <3> QED BY <1>5, <3>1, <3>2 DEF Walked
  <2>2. SameThread /\ UNCHANGED stop /\ engine' = engine
    BY <1>5 DEF Walked, Quiet, world
  <2> QED BY <2>1, <2>2 DEF Thread, SameThread, After
<1>6. CASE g = f /\ Repeats(f)
  BY <1>6 DEF Repeats, Reran, Thread, SameThread, world
<1>7. CASE g = f /\ Still(f)
  <2>1. SameThread /\ UNCHANGED stop
    BY <1>7 DEF Still, Quiet
  <2>2. engine'.status # engine.status => f.at \in After /\ stop = "none"
    BY <1>7 DEF Still, Thread, After, Closing
  <2> QED BY <1>7, <2>1, <2>2 DEF Thread, SameThread
<1>8. CASE g = f /\ Closed /\ UNCHANGED <<log, engine, world>>
  BY <1>2, <1>8 DEF Closed, Thread, Terminal, world
<1>9. CASE g = f /\ Halting
  BY <1>2, <1>9 DEF Halting, Thread, Terminal, SameThread
<1> QED BY <1>1, <1>3, <1>4, <1>5, <1>6, <1>7, <1>8, <1>9

-----------------------------------------------------------------------------
(***************************************************************************)
(* The calls' rows.                                                        *)
(***************************************************************************)
Stands(claim) == {RowOf[claim]} \cup (IF RowOf[claim] = "pending_approval" THEN {"failed"} ELSE {})

\* The nth call of the step is claimed and has no result yet.
Opened(f, n) ==
  LET c == f.first + n
  IN  /\ db.row[c] \in Stands(f.claims[n]) \/ (f.at = "settle" /\ n = Cur(f) /\ db.row[c] = f.outcomes[n])
      /\ Ran(c) => \/ f.at \in {"together", "settle"} /\ Together(f)
                   \/ n = Cur(f) /\ f.at = "tool"
                   \/ n = Cur(f) /\ f.at = "settle" /\ f.outcomes[n] \in {"executed", "failed"}

Rows(f) ==
  /\ \A c \in Calls : c <= f.first + Len(f.results) => db.row[c] \in Final
  /\ \A n \in 1 .. Len(f.results) : db.row[f.first + n] = f.results[n]
  /\ \A n \in Cur(f) .. Len(f.claims) : Opened(f, n)
  /\ \A c \in Calls : c > f.first + Len(f.claims) =>
       ~Ran(c) /\ (db.row[c] = "none" \/ f.failing \/ (f.at = "claim" /\ c = Next1(f)))

SameCalls(f, g) == g.first = f.first /\ g.claims = f.claims /\ g.results = f.results

LEMMA Front ==
  ASSUME NEW f, Shaped(f)
  PROVE  /\ f.first \in Nat /\ Len(f.results) \in Nat /\ Len(f.claims) \in Nat /\ Len(f.batch) \in Nat
         /\ Cur(f) = Len(f.results) + 1 /\ Len(f.results) <= Len(f.claims) /\ Len(f.claims) <= Len(f.batch)
         /\ f.first + Len(f.batch) <= MaxCalls /\ MaxCalls \in Nat
         /\ f.results \in Seq(Final) /\ f.claims \in Seq(ClaimsOf) /\ f.batch \in Seq(Kinds)
         /\ DOMAIN f.batch = 1 .. Len(f.batch) /\ f.step \in Steps
         /\ \A n \in 1 .. Len(f.batch) : f.first + n \in Calls
<1>1. f \in Bodies
  BY DEF Shaped
<1>2. /\ f.first \in Nat /\ Len(f.results) \in Nat /\ Len(f.claims) \in Nat /\ Len(f.batch) \in Nat
      /\ f.results \in Seq(Final) /\ f.claims \in Seq(ClaimsOf) /\ f.batch \in Seq(Kinds)
      /\ DOMAIN f.batch = 1 .. Len(f.batch) /\ f.step \in Steps
  BY <1>1, BodyTypes, Zenon
<1>3. Len(f.results) <= Len(f.claims) /\ Len(f.claims) <= Len(f.batch) /\ f.first + Len(f.batch) <= MaxCalls
  BY DEF Shaped
<1>4. MaxCalls \in Nat
  BY TurnAssumption
<1>5. ASSUME NEW n \in 1 .. Len(f.batch) PROVE f.first + n \in Calls
  <2>1. f.first + n \in 1 .. MaxCalls
    BY <1>2, <1>3, <1>4
  <2> QED BY <2>1 DEF Calls
<1>6. Cur(f) = Len(f.results) + 1
  BY DEF Cur
<1> QED BY <1>2, <1>3, <1>4, <1>5, <1>6

\* Nothing changed for the calls.
LEMMA RowsStay ==
  ASSUME NEW f, Rows(f), SameRows, SameRan
  PROVE  Rows(f)'
BY DEF Rows, Opened, SameRows, SameRan, Ran

LEMMA RowsKept ==
  ASSUME NEW f, Shaped(f), Rows(f), SameRows, SameRan, NEW g, SameCalls(f, g),
         f.at \notin {"settle", "tool", "together"}, f.failing => g.failing, f.at = "claim" => g.failing
  PROVE  Rows(g)'
<1>1. Cur(g) = Cur(f)
  BY DEF Cur, SameCalls
<1>2. \A n \in Cur(f) .. Len(f.claims) : Opened(g, n)'
  <2> SUFFICES ASSUME NEW n \in Cur(f) .. Len(f.claims) PROVE Opened(g, n)'
    OBVIOUS
  <2>1. Opened(f, n)
    BY DEF Rows
  <2> QED BY <2>1, <1>1 DEF Opened, SameCalls, SameRows, SameRan, Ran
<1>3. \A c \in Calls : Ran(c)' = Ran(c)
  BY DEF Ran, SameRan
<1> QED BY <1>1, <1>2, <1>3 DEF Rows, SameCalls, SameRows

\* Cards closed as failed.
LEMMA RowsClosed ==
  ASSUME NEW f, Shaped(f), Rows(f), db \in Db, SameRan,
         db'.row = [c \in Calls |-> IF db.row[c] = "pending_approval" THEN "failed" ELSE db.row[c]],
         f.at = "settle" => f.outcomes[Cur(f)] \in Outcomes,
         NEW g, SameCalls(f, g), g = f \/ (f.at = "fail" /\ g.failing)
  PROVE  Rows(g)'
<1>1. \A c \in Calls : db.row[c] # "pending_approval" => db'.row[c] = db.row[c]
  OBVIOUS
<1>2. \A c \in Calls : db.row[c] = "pending_approval" => db'.row[c] = "failed"
  OBVIOUS
<1>3. \A c \in Calls : Ran(c)' = Ran(c)
  BY DEF Ran, SameRan
<1>4. \A n \in 1 .. Len(f.batch) : f.first + n \in Calls
  BY Front
<1>5. Cur(f) \in Nat \ {0} /\ Len(f.claims) \in Nat /\ Len(f.claims) <= Len(f.batch) /\ Len(f.batch) \in Nat
      /\ Len(f.results) \in Nat /\ Len(f.results) <= Len(f.claims) /\ f.results \in Seq(Final)
  BY Front
<1>6. \A c \in Calls : c <= f.first + Len(f.results) => db'.row[c] \in Final
  BY <1>1 DEF Rows, Final, Outcomes
<1>7. \A n \in 1 .. Len(f.results) : db'.row[f.first + n] = f.results[n]
  <2> SUFFICES ASSUME NEW n \in 1 .. Len(f.results) PROVE db'.row[f.first + n] = f.results[n]
    OBVIOUS
  <2>1. f.first + n \in Calls
    BY <1>4, <1>5
  <2>2. db.row[f.first + n] = f.results[n] /\ f.results[n] \in Final
    BY <1>5 DEF Rows
  <2> QED BY <1>1, <2>1, <2>2 DEF Final, Outcomes
<1>8. \A n \in Cur(f) .. Len(f.claims) : Opened(g, n)'
  <2> SUFFICES ASSUME NEW n \in Cur(f) .. Len(f.claims) PROVE Opened(g, n)'
    OBVIOUS
  <2>1. Opened(f, n) /\ f.first + n \in Calls
    BY <1>4, <1>5 DEF Rows
  <2> DEFINE c == f.first + n
  <2>2. db'.row[c] \in Stands(f.claims[n]) \/ (f.at = "settle" /\ n = Cur(f) /\ db'.row[c] = f.outcomes[n])
    BY <1>1, <1>2, <2>1 DEF Opened, Stands, Outcomes
  <2>3. Ran(c)' = Ran(c)
    BY <1>3, <2>1
  <2>4. CASE g = f
    BY <2>1, <2>2, <2>3, <2>4 DEF Opened
  <2>5. CASE f.at = "fail"
    <3>1. ~Ran(c)
      BY <2>1, <2>5 DEF Opened
    <3> QED BY <2>1, <2>2, <2>3, <2>5, <3>1 DEF Opened, SameCalls
  <2> QED BY <2>4, <2>5
<1>9. \A c \in Calls : c > f.first + Len(f.claims) =>
       ~Ran(c)' /\ (db'.row[c] = "none" \/ g.failing \/ (g.at = "claim" /\ c = Next1(g)))
  BY <1>1, <1>3 DEF Rows
<1>10. Cur(g) = Cur(f)
  BY DEF Cur, SameCalls
<1> QED BY <1>6, <1>7, <1>8, <1>9, <1>10 DEF Rows, SameCalls

\* A tool of a call runs.
LEMMA RowsTool ==
  ASSUME NEW f, Shaped(f), Rows(f), db \in Db, f.at = "tool", SameRows,
         db'.ran = [db.ran EXCEPT ![CallOf(f)] = @ + 1], NEW g,
         g = f \/ (SameCalls(f, g) /\ g.at = "settle" /\ g.outcomes[Cur(f)] \in {"executed", "failed"})
  PROVE  Rows(g)'
<1>1. /\ f.first \in Nat /\ Len(f.results) \in Nat /\ Len(f.claims) \in Nat /\ Len(f.batch) \in Nat
      /\ Cur(f) = Len(f.results) + 1 /\ Len(f.results) < Len(f.claims)
  <2>1. Len(f.claims) = Len(f.batch) /\ Len(f.results) < Len(f.batch)
    BY DEF Shaped, Serving
  <2> QED BY <2>1, Front
<1>2. SameCalls(f, g) /\ Cur(g) = Cur(f)
  BY DEF SameCalls, Cur
<1>3. \A c \in Calls : c # CallOf(f) => db'.ran[c] = db.ran[c]
  BY DEF Db
<1>4. \A n \in Cur(f) .. Len(f.claims) : Opened(g, n)'
  <2> SUFFICES ASSUME NEW n \in Cur(f) .. Len(f.claims) PROVE Opened(g, n)'
    OBVIOUS
  <2>1. Opened(f, n) /\ f.first + n \in Calls
    BY <1>1, Front DEF Rows
  <2>2. CASE n = Cur(f)
    BY <1>2, <2>1, <2>2 DEF Opened, SameCalls, SameRows
  <2>3. CASE n # Cur(f)
    <3>1. f.first + n # CallOf(f)
      BY <1>1, <2>3 DEF CallOf
    <3>2. Ran(f.first + n)' = Ran(f.first + n)
      BY <1>3, <2>1, <3>1 DEF Ran
    <3>3. ~Ran(f.first + n)
      BY <2>1, <2>3 DEF Opened
    <3> QED BY <1>2, <2>1, <2>3, <3>2, <3>3 DEF Opened, SameCalls, SameRows
  <2> QED BY <2>2, <2>3
<1>5. ASSUME NEW c \in Calls, c > f.first + Len(f.claims)
      PROVE  ~Ran(c)' /\ db'.row[c] = "none"
  <2>1. c # CallOf(f)
    BY <1>1, <1>5 DEF CallOf
  <2>2. ~Ran(c) /\ db.row[c] = "none"
    BY <1>5 DEF Rows, Shaped, After, Closing
  <2> QED BY <1>3, <2>1, <2>2 DEF Ran, SameRows
<1> QED BY <1>2, <1>4, <1>5 DEF Rows, SameCalls, SameRows

\* A call is claimed: its row is the first it has.
LEMMA RowsClaim ==
  ASSUME NEW f, Shaped(f), Rows(f), db \in Db, f.at = "claim", NEW v \in Found(f), v # "threw", SameRan,
         db'.row = [db.row EXCEPT ![Next1(f)] = RowOf[v]],
         NEW g, g = f \/ (g.first = f.first /\ g.results = f.results /\ g.claims = Append(f.claims, v))
  PROVE  Rows(g)'
<1>1. /\ f.first \in Nat /\ Len(f.claims) \in Nat /\ Len(f.batch) \in Nat /\ f.results = <<>> /\ Len(f.claims) < Len(f.batch)
      /\ f.claims \in Seq(ClaimsOf) /\ Next1(f) = f.first + (Len(f.claims) + 1) /\ Next1(f) \in Calls
      /\ Len(f.results) = 0 /\ Cur(f) = 1
  <2>1. f.results = <<>> /\ Len(f.claims) < Len(f.batch)
    BY DEF Shaped
  <2>2. Len(f.results) = 0 /\ Cur(f) = 1
    BY <2>1 DEF Cur
  <2>3. Len(f.claims) + 1 \in 1 .. Len(f.batch) /\ Next1(f) = f.first + (Len(f.claims) + 1)
    BY <2>1, Front DEF Next1
  <2>4. Next1(f) \in Calls
    BY <2>3, Front
  <2> QED BY <2>1, <2>2, <2>3, <2>4, Front
<1> DEFINE k == Next1(f)
<1>2. \A c \in Calls : c # k => db'.row[c] = db.row[c]
  BY DEF Db
<1>3. \A c \in Calls : Ran(c)' = Ran(c)
  BY DEF Ran, SameRan
<1>4. db'.row[k] = RowOf[v]
  BY <1>1 DEF Db
<1>5. ASSUME NEW n \in 1 .. Len(f.claims), NEW h, h.first = f.first, h.claims[n] = f.claims[n]
      PROVE  Opened(h, n)'
  <2>1. Opened(f, n) /\ f.first + n \in Calls /\ f.first + n # k
    BY <1>1, Front, SMTT(30) DEF Rows
  <2>2. ~Ran(f.first + n)
    BY <2>1 DEF Opened
  <2>3. db.row[f.first + n] \in Stands(f.claims[n])
    BY <2>1 DEF Opened
  <2> QED BY <1>2, <1>3, <1>5, <2>1, <2>2, <2>3 DEF Opened
<1>6. \A c \in Calls : c <= f.first + Len(f.results) => db'.row[c] \in Final
  BY <1>1, <1>2 DEF Rows
<1>7. ASSUME NEW c \in Calls, c > f.first + Len(f.claims)
      PROVE  ~Ran(c)' /\ (c # k => db'.row[c] = "none")
  <2>1. ~f.failing
    BY DEF Shaped, After, Closing
  <2>2. ~Ran(c) /\ (c # k => db.row[c] = "none")
    BY <1>7, <2>1 DEF Rows
  <2> HIDE DEF k
  <2> QED BY ONLY <1>2, <1>3, <2>2, c \in Calls
<1>8. CASE g = f
  BY <1>1, <1>5, <1>6, <1>7, <1>8 DEF Rows
<1>9. CASE g.first = f.first /\ g.results = f.results /\ g.claims = Append(f.claims, v)
  <2>1. Len(g.claims) = Len(f.claims) + 1 /\ g.claims[Len(f.claims) + 1] = v /\ \A n \in 1 .. Len(f.claims) : g.claims[n] = f.claims[n]
    BY <1>1, <1>9
  <2>2. Opened(g, Len(f.claims) + 1)'
    <3>1. RowOf[v] \in Stands(v) /\ ~Ran(k)
      BY <1>1 DEF Stands, Rows
    <3>2. ~Ran(k)'
      BY <1>1, <1>3, <3>1
    <3> QED BY <1>1, <1>4, <1>9, <2>1, <3>1, <3>2 DEF Opened
  <2>3. \A n \in 1 .. Len(g.claims) : Opened(g, n)'
    <3> SUFFICES ASSUME NEW n \in 1 .. Len(g.claims) PROVE Opened(g, n)'
      OBVIOUS
    <3>1. n = Len(f.claims) + 1 \/ n \in 1 .. Len(f.claims)
      BY ONLY <1>1, <2>1, n \in 1 .. Len(g.claims)
    <3>2. ASSUME n \in 1 .. Len(f.claims) PROVE Opened(g, n)'
      BY ONLY <1>5, <1>9, <2>1, <3>2
    <3> QED BY ONLY <2>2, <3>1, <3>2
  <2>4. ASSUME NEW c \in Calls, c > g.first + Len(g.claims) PROVE ~Ran(c)' /\ db'.row[c] = "none"
    <3>1. c > f.first + Len(f.claims) /\ c # k
      BY <1>1, <1>9, <2>1, <2>4, TurnAssumption, SMTT(30) DEF Calls
    <3> QED BY <1>7, <3>1
  <2>5. Cur(g) = 1
    BY <1>1, <1>9 DEF Cur
  <2> QED BY <1>1, <1>6, <1>9, <2>3, <2>4, <2>5 DEF Rows
<1> QED BY <1>8, <1>9

\* A call's outcome becomes its row, and then its result.
LEMMA RowsSettle ==
  ASSUME NEW f, Shaped(f), Rows(f), db \in Db, f.at = "settle", SameRan,
         db'.row = [db.row EXCEPT ![CallOf(f)] = f.outcomes[Cur(f)]],
         NEW g, g = f \/ (Shaped(g) /\ Settled(f, g) /\ g.results = Append(f.results, f.outcomes[Cur(f)]))
  PROVE  Rows(g)'
<1>1. /\ f.first \in Nat /\ Len(f.results) \in Nat /\ Len(f.claims) \in Nat /\ Len(f.batch) = Len(f.claims)
      /\ Cur(f) = Len(f.results) + 1 /\ Len(f.results) < Len(f.claims) /\ f.results \in Seq(Final)
      /\ CallOf(f) = f.first + (Len(f.results) + 1) /\ CallOf(f) \in Calls
  <2>1. Len(f.claims) = Len(f.batch) /\ Len(f.results) < Len(f.batch) /\ f.at \in Serving
    BY DEF Shaped, Serving
  <2> QED BY <2>1, Front, FrontTypes DEF CallOf
<1> DEFINE k == CallOf(f)
           o == f.outcomes[Cur(f)]
           m == Len(f.results)
           l == Len(f.claims)
<1>a. /\ f.first \in Nat /\ m \in Nat /\ l \in Nat /\ m < l /\ k = f.first + (m + 1)
      /\ \A c \in Calls : c \in Int
  BY <1>1, TurnAssumption DEF Calls
<1> HIDE DEF k, m, l
<1>2. \A c \in Calls : c # k => db'.row[c] = db.row[c]
  BY DEF Db, k
<1>3. \A c \in Calls : Ran(c)' = Ran(c)
  BY DEF Ran, SameRan
<1>4. db'.row[k] = o /\ o \in Outcomes /\ o \in Final
  BY <1>1 DEF Db, Shaped, Final, k
<1>5. \A n \in 1 .. Len(f.claims) : f.first + n \in Calls
  BY <1>1, Front
<1>6. \A n \in 1 .. Len(f.results) : db'.row[f.first + n] = f.results[n]
  <2> SUFFICES ASSUME NEW n \in 1 .. m PROVE db'.row[f.first + n] = f.results[n]
    BY DEF m
  <2>1. f.first + n # k /\ n \in 1 .. l
    BY <1>a
  <2>2. f.first + n \in Calls
    BY <1>5, <2>1 DEF l
  <2> QED BY <1>2, <2>1, <2>2 DEF Rows, m
<1>7. ASSUME NEW c \in Calls, c > f.first + Len(f.claims)
      PROVE  ~Ran(c)' /\ db'.row[c] = "none"
  <2>1. c # k
    <3>1. c > f.first + l /\ c \in Int
      BY <1>7, <1>a DEF l
    <3> QED BY <1>a, <3>1
  <2> QED BY <1>2, <1>3, <1>7, <2>1 DEF Rows, Shaped, After, Closing
<1>8. CASE g = f
  <2>1. \A n \in Cur(f) .. Len(f.claims) : Opened(f, n)'
    <3> SUFFICES ASSUME NEW n \in Cur(f) .. Len(f.claims) PROVE Opened(f, n)'
      OBVIOUS
    <3>1. Opened(f, n) /\ f.first + n \in Calls
      BY <1>1, <1>5 DEF Rows
    <3>2. CASE n = Cur(f)
      <4>1. f.first + n = k
        BY <3>2 DEF CallOf, k
      <4> QED BY <1>3, <1>4, <3>1, <3>2, <4>1 DEF Opened
    <3>3. CASE n # Cur(f)
      <4>1. f.first + n # k
        BY <1>1, <3>3 DEF k
      <4> QED BY <1>2, <1>3, <3>1, <3>3, <4>1 DEF Opened
    <3> QED BY <3>2, <3>3
  <2>2. \A c \in Calls : c <= f.first + Len(f.results) => db'.row[c] \in Final
    BY <1>a, <1>2 DEF Rows, m
  <2> QED BY <1>6, <1>7, <1>8, <2>1, <2>2 DEF Rows
<1>9. CASE Shaped(g) /\ Settled(f, g) /\ g.results = Append(f.results, o)
  <2>1. /\ g.first = f.first /\ g.claims = f.claims /\ g.batch = f.batch /\ Len(g.results) = Len(f.results) + 1
        /\ g.results[Len(f.results) + 1] = o /\ \A n \in 1 .. Len(f.results) : g.results[n] = f.results[n]
        /\ Cur(g) = Cur(f) + 1
    BY <1>1, <1>9 DEF Settled, Cur
  <2>2. \A c \in Calls : c <= g.first + Len(g.results) => db'.row[c] \in Final
    <3> SUFFICES ASSUME NEW c \in Calls, c <= g.first + Len(g.results) PROVE db'.row[c] \in Final
      OBVIOUS
    <3>1. c <= f.first + (m + 1) /\ c \in Int
      BY <1>a, <2>1 DEF m
    <3>2. c = k \/ c <= f.first + m
      BY <1>a, <3>1
    <3> QED BY <1>2, <1>4, <3>2 DEF Rows, m
  <2>3. \A n \in 1 .. Len(g.results) : db'.row[g.first + n] = g.results[n]
    <3> SUFFICES ASSUME NEW n \in 1 .. m + 1 PROVE db'.row[f.first + n] = g.results[n]
      BY <2>1 DEF m
    <3>1. CASE n = m + 1
      BY <1>a, <1>4, <2>1, <3>1 DEF m
    <3>2. CASE n # m + 1
      <4>1. n \in 1 .. m
        BY <1>a, <3>2
      <4> QED BY <1>6, <2>1, <4>1 DEF m
    <3> QED BY <3>1, <3>2
  <2>4. \A n \in Cur(g) .. Len(g.claims) : Opened(g, n)'
    <3> SUFFICES ASSUME NEW n \in Cur(g) .. Len(g.claims) PROVE Opened(g, n)'
      OBVIOUS
    <3>1. Opened(f, n) /\ f.first + n \in Calls /\ f.first + n # k /\ n # Cur(f)
      BY <1>1, <1>5, <2>1 DEF Rows, k
    <3>2. Ran(f.first + n) => g.at = "settle" /\ Together(g)
      <4> SUFFICES ASSUME Ran(f.first + n) PROVE g.at = "settle" /\ Together(g)
        OBVIOUS
      <4>1. Together(f)
        BY <3>1 DEF Opened
      <4>2. Together(g)
        BY <2>1, <4>1 DEF Together
      <4>3. g.at # "results"
        <5>1. g.at = "results" => Len(g.results) = Len(g.batch)
          BY <1>9 DEF Shaped, Whole
        <5>2. n \in Len(f.results) + 2 .. Len(f.claims)
          BY <1>1, <2>1
        <5>3. ~(Len(f.results) + 1 = Len(f.claims))
          BY <1>1, <5>2
        <5> QED BY <1>1, <2>1, <5>1, <5>3
      <4> QED BY <1>9, <4>2, <4>3 DEF Settled, Serving, Shaped
    <3> QED BY <1>2, <1>3, <2>1, <3>1, <3>2 DEF Opened
  <2>5. \A c \in Calls : c > g.first + Len(g.claims) => ~Ran(c)' /\ db'.row[c] = "none"
    BY <1>7, <2>1
  <2> QED BY <2>2, <2>3, <2>4, <2>5 DEF Rows
<1> QED BY <1>8, <1>9

\* What a claim came to is told at once.
LEMMA RowsReceipt ==
  ASSUME NEW f, Shaped(f), Rows(f), db \in Db, f.at = "receipt", SameRan, SameRows,
         NEW g, Shaped(g), Settled(f, g), g.results = Append(f.results, RowOf[f.claims[Cur(f)]])
  PROVE  Rows(g)'
<1>1. /\ f.first \in Nat /\ Len(f.results) \in Nat /\ Len(f.claims) \in Nat /\ Len(f.batch) = Len(f.claims)
      /\ Cur(f) = Len(f.results) + 1 /\ Len(f.results) < Len(f.claims) /\ f.results \in Seq(Final)
      /\ CallOf(f) = f.first + (Len(f.results) + 1) /\ CallOf(f) \in Calls /\ f.claims[Cur(f)] \in {"proposal", "refused", "failed", "completed", "presented"}
  <2>1. Len(f.claims) = Len(f.batch) /\ Len(f.results) < Len(f.batch) /\ f.at \in Serving
        /\ f.claims[Cur(f)] \in {"proposal", "refused", "failed", "completed", "presented"}
    BY DEF Shaped, Serving
  <2> QED BY <2>1, Front, FrontTypes DEF CallOf
<1> DEFINE o == RowOf[f.claims[Cur(f)]]
           m == Len(f.results)
<1>a. f.first \in Nat /\ m \in Nat /\ CallOf(f) = f.first + (m + 1) /\ \A c \in Calls : c \in Int
  BY <1>1, TurnAssumption DEF Calls
<1> HIDE DEF m
<1>2. db.row[CallOf(f)] = o /\ o \in Final
  <2>0. Cur(f) \in Cur(f) .. Len(f.claims)
    BY <1>1
  <2>1. Opened(f, Cur(f))
    BY <2>0 DEF Rows
  <2> QED BY <1>1, <2>1 DEF Opened, Stands, RowOf, CallOf, Final, Outcomes
<1>3. \A c \in Calls : Ran(c)' = Ran(c)
  BY DEF Ran, SameRan
<1> HIDE DEF o
<1>4. /\ g.first = f.first /\ g.claims = f.claims /\ Len(g.results) = Len(f.results) + 1
      /\ g.results[Len(f.results) + 1] = o /\ \A n \in 1 .. Len(f.results) : g.results[n] = f.results[n]
      /\ Cur(g) = Cur(f) + 1
  <2>1. g.results = Append(f.results, o)
    BY DEF o
  <2> QED BY <1>1, <2>1 DEF Settled, Cur
<1>5. \A c \in Calls : c <= g.first + Len(g.results) => db.row[c] \in Final
  <2> SUFFICES ASSUME NEW c \in Calls, c <= g.first + Len(g.results) PROVE db.row[c] \in Final
    OBVIOUS
  <2>1. c <= f.first + (m + 1) /\ c \in Int
    BY <1>a, <1>4 DEF m
  <2>2. c = CallOf(f) \/ c <= f.first + m
    BY <1>a, <2>1
  <2> QED BY <1>2, <2>2 DEF Rows, m
<1>6. \A n \in 1 .. Len(g.results) : db.row[g.first + n] = g.results[n]
  <2> SUFFICES ASSUME NEW n \in 1 .. m + 1 PROVE db.row[f.first + n] = g.results[n]
    BY <1>4 DEF m
  <2>1. CASE n = m + 1
    BY <1>a, <1>2, <1>4, <2>1 DEF m
  <2>2. CASE n # m + 1
    <3>1. n \in 1 .. m
      BY <1>a, <2>2
    <3> QED BY <1>4, <3>1 DEF m, Rows
  <2> QED BY <2>1, <2>2
<1>7. \A n \in Cur(g) .. Len(g.claims) : Opened(g, n)'
  <2> SUFFICES ASSUME NEW n \in Cur(g) .. Len(g.claims) PROVE Opened(g, n)'
    OBVIOUS
  <2>1. Opened(f, n) /\ f.first + n \in Calls
    <3>1. Len(f.claims) \in Nat /\ Len(f.batch) \in Nat /\ Len(f.claims) <= Len(f.batch)
      BY ONLY Shaped(f), Front
    <3>2. Len(f.results) \in Nat /\ Cur(f) = Len(f.results) + 1
      BY <1>1
    <3>3. Cur(g) = Len(f.results) + 2 /\ Len(g.claims) = Len(f.claims)
      BY <1>4, <3>2 DEF m
    <3>4. n \in Cur(f) .. Len(f.claims) /\ n \in 1 .. Len(f.batch)
      BY ONLY <3>1, <3>2, <3>3, n \in Cur(g) .. Len(g.claims)
    <3> QED BY <3>4, Front DEF Rows
  <2>2. ~Ran(f.first + n)
    BY <2>1 DEF Opened
  <2> QED BY <1>3, <1>4, <2>1, <2>2 DEF Opened, SameRows
<1>8. \A c \in Calls : c > g.first + Len(g.claims) => ~Ran(c) /\ db.row[c] = "none"
  BY <1>4 DEF Rows, Shaped, After, Closing
<1> QED BY <1>3, <1>5, <1>6, <1>7, <1>8 DEF Rows, SameRows

\* The next step's calls come after those of this one.
LEMMA RowsNext ==
  ASSUME NEW f, Shaped(f), Rows(f), f.at = "results", SameRan, SameRows,
         NEW g, g.first = f.first + Len(f.batch), g.claims = <<>>, g.results = <<>>
  PROVE  Rows(g)'
<1>1. /\ f.first \in Nat /\ Len(f.results) = Len(f.batch) /\ Len(f.claims) = Len(f.batch) /\ Len(f.batch) \in Nat
      /\ ~f.failing
  BY Front DEF Shaped, Whole, After, Closing
<1>2. Len(g.results) = 0 /\ Len(g.claims) = 0 /\ Cur(g) = 1
  BY DEF Cur
<1>3. \A c \in Calls : Ran(c)' = Ran(c)
  BY DEF Ran, SameRan
<1>4. \A c \in Calls : c <= g.first + Len(g.results) => db.row[c] \in Final
  BY <1>1, <1>2 DEF Rows
<1>5. \A c \in Calls : c > g.first + Len(g.claims) => ~Ran(c) /\ db.row[c] = "none"
  BY <1>1, <1>2 DEF Rows
<1> QED BY <1>1, <1>2, <1>3, <1>4, <1>5 DEF Rows, SameRows

\* Overlapped reads run.
LEMMA RowsRerun ==
  ASSUME NEW f, Shaped(f), Rows(f), Reran(f)
  PROVE  Rows(f)'
<1>1. CASE SameRan
  BY <1>1, RowsStay DEF Reran
<1>2. CASE f.at = "together"
  <2>1. /\ f.first \in Nat /\ Len(f.claims) = Len(f.batch) /\ Len(f.batch) \in Nat /\ DOMAIN f.batch = 1 .. Len(f.batch)
        /\ Together(f) /\ ~f.failing
    BY <1>2, Front DEF Shaped, Serving, After, Closing
  <2>2. \A n \in Cur(f) .. Len(f.claims) : Opened(f, n)'
    BY <1>2, <2>1 DEF Rows, Opened, Reran, SameRows
  <2>3. ASSUME NEW c \in Calls, c > f.first + Len(f.claims) PROVE ~Ran(c)'
    <3>1. c \notin {f.first + n : n \in DOMAIN f.batch}
      BY <2>1, <2>3
    <3>2. ~Ran(c)
      BY <2>3 DEF Rows
    <3> QED BY <3>1, <3>2 DEF Reran
  <2> QED BY <2>2, <2>3 DEF Rows, Reran, SameRows
<1> QED BY <1>1, <1>2 DEF Reran

LEMMA RowsActs ==
  ASSUME NEW S, NEW f, Replay(S, f), Typed, Rows(f), NEW g, Shaped(g), Acts(f, g)
  PROVE  Rows(g)'
<1>1. PICK v \in Found(f) : f.at \in Stepped /\ Wrote(f, v) /\ (g = f \/ Leads(f, v, g))
  BY DEF Acts
<1>2. Shaped(f) /\ db \in Db /\ now \in Nat
  BY DEF Replay, Chain, Typed, Around
<1>3. CASE f.at \notin {"claim", "tool", "settle", "results", "fail"}
  <2>1. SameRows /\ SameRan
    BY <1>1, <1>3 DEF Wrote, SameRows, SameRan
  <2>2. CASE g = f
    BY <1>2, <2>1, <2>2, RowsStay
  <2>3. CASE Leads(f, v, g)
    <3>1. SameCalls(f, g)
      BY <1>3, <2>3 DEF Leads, SameCalls, Same
    <3>2. f.failing => g.failing
      BY <1>2, <2>3 DEF Leads, Shaped
    <3>3. f.at # "together"
      BY <1>1 DEF Stepped
    <3> QED BY <1>2, <1>3, <2>1, <3>1, <3>2, <3>3, RowsKept
  <2> QED BY <1>1, <2>2, <2>3
<1>4. CASE f.at = "claim"
  <2>1. CASE v = "threw"
    <3>1. SameRows /\ SameRan
      BY <1>1, <1>4, <2>1 DEF Wrote, SameRows, SameRan
    <3>2. CASE g = f
      BY <1>2, <3>1, <3>2, RowsStay
    <3>3. CASE Leads(f, v, g)
      <4>1. g.first = f.first /\ g.claims = f.claims /\ g.results = f.results /\ g.at = "fail"
        BY <1>4, <2>1, <3>3 DEF Leads
      <4>2. g.failing
        BY <4>1 DEF Shaped
      <4> QED BY <1>2, <1>4, <3>1, <4>1, <4>2, RowsKept DEF SameCalls
    <3> QED BY <1>1, <3>2, <3>3
  <2>2. CASE v # "threw"
    <3>1. db'.row = [db.row EXCEPT ![Next1(f)] = RowOf[v]] /\ SameRan
      BY <1>1, <1>4, <2>2 DEF Wrote, SameRan
    <3>2. g = f \/ (g.first = f.first /\ g.results = f.results /\ g.claims = Append(f.claims, v))
      BY <1>1, <1>4, <2>2 DEF Leads
    <3> QED BY <1>1, <1>2, <1>4, <2>2, <3>1, <3>2, RowsClaim
  <2> QED BY <2>1, <2>2
<1>5. CASE f.at = "tool"
  <2>1. SameRows /\ db'.ran = [db.ran EXCEPT ![CallOf(f)] = @ + 1]
    BY <1>1, <1>5 DEF Wrote, SameRows
  <2>2. v \in {"executed", "failed"}
    BY <1>5, AtTool DEF ToolOutcomes
  <2>3. g = f \/ (SameCalls(f, g) /\ g.at = "settle" /\ g.outcomes[Cur(f)] \in {"executed", "failed"})
    BY <1>1, <1>5, <2>2 DEF Leads, Same, SameCalls
  <2> QED BY <1>2, <1>5, <2>1, <2>3, RowsTool
<1>6. CASE f.at = "settle"
  <2>1. SameRan /\ db'.row = [db.row EXCEPT ![CallOf(f)] = f.outcomes[Cur(f)]]
    BY <1>1, <1>6 DEF Wrote, SameRan
  <2>2. g = f \/ (Shaped(g) /\ Settled(f, g) /\ g.results = Append(f.results, f.outcomes[Cur(f)]))
    BY <1>1, <1>6 DEF Leads
  <2> QED BY <1>2, <1>6, <2>1, <2>2, RowsSettle
<1>7. CASE f.at = "results"
  <2>1. SameRows /\ SameRan
    BY <1>1, <1>7 DEF Wrote, SameRows, SameRan
  <2>2. CASE g = f
    BY <1>2, <2>1, <2>2, RowsStay
  <2>3. CASE g.at = "finish" /\ Same(f, g)
    <3>1. SameCalls(f, g) /\ ~f.failing
      BY <1>2, <1>7, <2>3 DEF SameCalls, Same, Shaped, After, Closing
    <3> QED BY <1>2, <1>7, <2>1, <3>1, RowsKept
  <2>4. CASE g.first = f.first + Len(f.batch) /\ g.claims = <<>> /\ g.results = <<>>
    BY <1>2, <1>7, <2>1, <2>4, RowsNext
  <2> QED BY <1>1, <1>7, <2>2, <2>3, <2>4 DEF Leads
<1>8. CASE f.at = "fail"
  <2>1. /\ SameRan
        /\ db'.row = [c \in Calls |-> IF db.row[c] = "pending_approval" THEN "failed" ELSE db.row[c]]
    BY <1>1, <1>8 DEF Wrote, SameRan
  <2>2. SameCalls(f, g) /\ (g = f \/ g.failing)
    BY <1>1, <1>2, <1>8 DEF Leads, Same, SameCalls, Shaped
  <2> QED BY <1>2, <1>8, <2>1, <2>2, RowsClosed
<1> QED BY <1>3, <1>4, <1>5, <1>6, <1>7, <1>8

LEMMA RowsMoves ==
  ASSUME NEW S, NEW f, Replay(S, f), Typed, Rows(f), NEW g, Shaped(g), Advances(f, g)
  PROVE  Rows(g)'
<1>1. /\ Typed'
      /\ \/ Acts(f, g) \/ Heard(f, g) \/ Walked(f, g)
         \/ g = f /\ (Repeats(f) \/ Still(f) \/ (Closed /\ UNCHANGED <<log, engine, world>>) \/ Halting)
  BY Effects
<1>2. Shaped(f) /\ db \in Db
  BY DEF Replay, Chain, Typed
<1>3. CASE Acts(f, g)
  BY <1>3, RowsActs
<1>4. CASE Heard(f, g)
  <2>1. PICK reply \in Told : g = Goes(f, reply)
    BY <1>4 DEF Heard
  <2>2. Same(f, g) /\ f.at \in Waits
    BY <1>2, <1>4, <2>1, Waited, Zenon DEF Heard
  <2>3. SameRows /\ SameRan
    BY <1>4 DEF Heard, Quiet
  <2>4. SameCalls(f, g) /\ ~f.failing /\ f.at \notin {"settle", "tool", "together", "claim"}
    BY <1>2, <2>2 DEF Same, SameCalls, Waits, Shaped, After, Closing
  <2> QED BY <1>2, <2>3, <2>4, RowsKept
<1>5. CASE Walked(f, g)
  <2>1. SameRows /\ SameRan
    BY <1>5 DEF Walked, Quiet
  <2>2. CASE f.at \in Alone /\ g = Moves(f)
    <3>1. /\ g.failing = f.failing
          /\ f.at # "receipt" => Same(f, g)
          /\ f.at = "receipt" => Settled(f, g) /\ g.results = Append(f.results, RowOf[f.claims[Cur(f)]])
      BY <1>2, <2>2, Moving, Zenon
    <3>2. CASE f.at # "receipt"
      <4>1. SameCalls(f, g) /\ f.at \notin {"settle", "tool", "together", "claim"}
        BY <2>2, <3>1, <3>2 DEF Same, SameCalls, Alone
      <4> QED BY <1>2, <2>1, <3>1, <4>1, RowsKept
    <3>3. CASE f.at = "receipt"
      BY <1>2, <2>1, <3>1, <3>3, RowsReceipt
    <3> QED BY <3>2, <3>3
  <2>3. CASE Joins(f, g)
    <3>1. Same(f, g) /\ g.at = "settle" /\ Together(g) /\ f.at = "together"
      BY <1>2, <2>3, Joining, Zenon DEF Joins
    <3>2. Cur(g) = Cur(f) /\ ~f.failing
      BY <1>2, <3>1 DEF Cur, Same, Shaped, After, Closing
    <3>3. \A n \in Cur(f) .. Len(f.claims) : Opened(g, n)'
      BY <2>1, <3>1, <3>2 DEF Rows, Opened, Same, SameRows
    <3>4. \A c \in Calls : Ran(c)' = Ran(c)
      BY <2>1 DEF Ran, SameRan
    <3> QED BY <2>1, <3>1, <3>2, <3>3, <3>4 DEF Rows, Same, SameRows
  <2> QED BY <1>5, <2>2, <2>3 DEF Walked
<1>6. CASE g = f /\ Repeats(f)
  BY <1>2, <1>6, RowsRerun DEF Repeats
<1>7. CASE g = f /\ (Still(f) \/ Halting)
  BY <1>7, RowsStay DEF Still, Quiet, Halting
<1>8. CASE g = f /\ Closed
  <2>1. f.at = "settle" => f.outcomes[Cur(f)] \in Outcomes
    BY <1>2 DEF Shaped
  <2> QED BY <1>2, <1>8, <2>1, RowsClosed DEF Closed, SameCalls
<1> QED BY <1>1, <1>3, <1>4, <1>5, <1>6, <1>7, <1>8

-----------------------------------------------------------------------------
\* A run that completed had every call answered; a run that is over shows no card.
Completed(f) == db.run = "completed" => f.at \in {"finish"} \cup After /\ ~f.failing

NoCard(f) == f.at \in After => \A c \in Calls : db.row[c] # "pending_approval"

LEMMA EndMoves ==
  ASSUME NEW S, NEW f, Replay(S, f), Typed, Thread(f), Rows(f), Completed(f), NoCard(f),
         NEW g, Shaped(g), Advances(f, g)
  PROVE  Completed(g)' /\ NoCard(g)'
<1>1. /\ Typed'
      /\ \/ Acts(f, g) \/ Heard(f, g) \/ Walked(f, g)
         \/ g = f /\ (Repeats(f) \/ Still(f) \/ (Closed /\ UNCHANGED <<log, engine, world>>) \/ Halting)
  BY Effects
<1>2. Shaped(f) /\ db \in Db
  BY DEF Replay, Chain, Typed
<1>3. CASE Acts(f, g)
  <2>1. PICK v \in Found(f) : f.at \in Stepped /\ Wrote(f, v) /\ (g = f \/ Leads(f, v, g))
    BY <1>3 DEF Acts
  <2>2. CASE f.at \notin {"finish", "fail"} \cup After
    <3>1. g.at \notin After
      BY <2>1, <2>2 DEF Leads, Stepped, After, Closing, Settled, Serving
    <3>2. db.run # "completed"
      BY <2>2 DEF Completed
    <3>3. db'.run # "completed"
      BY <2>1, <2>2, <3>2 DEF Wrote
    <3> QED BY <3>1, <3>3 DEF Completed, NoCard
  <2>3. CASE f.at = "finish"
    <3>1. g.at \in {"finish", "advance"} /\ ~g.failing
      BY <1>2, <2>1, <2>3 DEF Leads, Shaped, After, Closing
    <3>2. \A c \in Calls : db.row[c] # "pending_approval"
      <4> SUFFICES ASSUME NEW c \in Calls PROVE db.row[c] # "pending_approval"
        OBVIOUS
      <4>1. Len(f.results) = Len(f.claims) /\ ~f.failing /\ f.first + Len(f.claims) \in Nat /\ c \in Int
        <5>1. Whole(f) /\ ~f.failing
          BY <1>2, <2>3 DEF Shaped, After, Closing
        <5>2. Len(f.results) = Len(f.claims)
          BY <5>1 DEF Whole
        <5>3. f.first + Len(f.claims) \in Nat
          BY <1>2, Front
        <5>4. c \in Int
          BY TurnAssumption DEF Calls
        <5> QED BY <5>1, <5>2, <5>3, <5>4
      <4>2. CASE c <= f.first + Len(f.claims)
        BY <4>1, <4>2 DEF Rows, Final, Outcomes
      <4>3. CASE c > f.first + Len(f.claims)
        BY <2>3, <4>1, <4>3 DEF Rows
      <4> QED BY <4>1, <4>2, <4>3
    <3>3. db'.row = db.row
      BY <2>1, <2>3 DEF Wrote
    <3> QED BY <3>1, <3>2, <3>3 DEF Completed, NoCard, After
  <2>4. CASE f.at = "fail"
    <3>1. db'.run # "completed"
      BY <2>1, <2>4 DEF Wrote, Completed, After, Closing
    <3>2. \A c \in Calls : db'.row[c] # "pending_approval"
      BY <2>1, <2>4 DEF Wrote
    <3> QED BY <3>1, <3>2 DEF Completed, NoCard
  <2>5. CASE f.at \in After
    <3>1. g.at \in After /\ g.failing = f.failing
      BY <2>1, <2>5 DEF Leads, After, Closing, Stepped
    <3>2. db'.row = db.row /\ db'.run = db.run
      BY <2>1, <2>5 DEF Wrote, After, Closing
    <3> QED BY <2>5, <3>1, <3>2 DEF Completed, NoCard
  <2> QED BY <2>2, <2>3, <2>4, <2>5
<1>4. CASE Heard(f, g)
  <2>1. PICK reply \in Told : g = Goes(f, reply)
    BY <1>4 DEF Heard
  <2>2. g.at \in {"tool", "decide", "settle"} /\ f.at \in Waits
    BY <1>2, <1>4, <2>1, Waited, Zenon DEF Heard
  <2>3. db.run # "completed" /\ db'.run = db.run
    BY <1>4, <2>2 DEF Completed, Heard, Quiet, SameThread, Waits, After, Closing
  <2> QED BY <2>2, <2>3 DEF Completed, NoCard, After, Closing
<1>5. CASE Walked(f, g)
  <2>1. db'.run = db.run /\ db'.row = db.row
    BY <1>5 DEF Walked, Quiet, SameThread, SameRows
  <2>2. f.at \notin After => db.run # "completed" \/ f.at = "finish"
    BY DEF Completed
  <2>3. CASE f.at \in Alone /\ g = Moves(f)
    <3>1. /\ g.failing = f.failing
          /\ f.at = "head"    => g.at = "llm"
          /\ f.at = "check"   => g.at = "assistant"
          /\ f.at = "close"   => g.at \in {"over", "release"}
          /\ f.at = "receipt" => Settled(f, g)
          /\ f.at = "misasked" => g.at = "settle"
      BY <1>2, <2>3, Moving, Zenon
    <3> QED BY <2>1, <2>3, <3>1 DEF Completed, NoCard, Alone, After, Closing, Settled, Serving
  <2>4. CASE Joins(f, g)
    <3>1. g.at = "settle" /\ f.at = "together"
      BY <1>2, <2>4, Joining, Zenon DEF Joins
    <3> QED BY <2>1, <3>1 DEF Completed, NoCard, After, Closing
  <2> QED BY <1>5, <2>3, <2>4 DEF Walked
<1>6. CASE g = f /\ (Repeats(f) \/ Still(f))
  BY <1>6 DEF Repeats, Reran, Still, Quiet, SameThread, SameRows, Completed, NoCard
<1>7. CASE g = f /\ Closed
  <2>1. db'.run = "completed" => db.run = "completed"
    BY <1>7 DEF Closed
  <2>2. \A c \in Calls : db'.row[c] # "pending_approval"
    BY <1>7 DEF Closed
  <2> QED BY <1>7, <2>1, <2>2 DEF Completed, NoCard
<1>8. CASE g = f /\ Halting
  <2>1. db'.run = "completed" => db.run = "completed"
    BY <1>8 DEF Halting, SameThread
  <2> QED BY <1>8, <2>1 DEF Halting, SameRows, Completed, NoCard
<1> QED BY <1>1, <1>3, <1>4, <1>5, <1>6, <1>7, <1>8

-----------------------------------------------------------------------------
(***************************************************************************)
(* What the journal holds of the calls' claims.                            *)
(***************************************************************************)
\* Only the model's turns and the claims have checkpoints under these names.
LEMMA OtherNames ==
  ASSUME NEW f, Shaped(f), f.at \in Stepped \cup Waits, NEW i,
         NEW word, (word = "llm" /\ f.at # "llm") \/ (word = "toolcall" /\ f.at # "claim")
  PROVE  Asks(f) # <<word, i>>
<1>1. \A x, y : x # word => <<x, y>> # <<word, i>>
  OBVIOUS
<1>2. \A x : <<x>> # <<word, i>>
  OBVIOUS
<1>3. CASE f.at = "settle"
  <2> DEFINE x == CASE f.outcomes[Cur(f)] = "executed" -> "toolexec" [] f.outcomes[Cur(f)] = "failed" -> "toolfail"
                    [] f.outcomes[Cur(f)] \in {"rejected", "expired"} -> "toolreject"
  <2>1. x # word
    <3>1. f.outcomes[Cur(f)] \in {"executed", "failed", "rejected", "expired"}
      BY <1>3 DEF Shaped, Outcomes
    <3> QED BY <3>1
  <2>2. Asks(f) = <<x, CallOf(f)>>
    BY <1>3, AtSettle
  <2> HIDE DEF x
  <2> QED BY <1>1, <2>1, <2>2
<1>4. CASE f.at = "claim"
  <2> DEFINE k == f.first + (Len(f.claims) + 1)
  <2>1. Asks(f) = <<"toolcall", k>>
    BY <1>4, AtClaim
  <2> HIDE DEF k
  <2> QED BY <1>1, <1>4, <2>1
<1>5. CASE f.at \in Waits
  <2>1. Asks(f) = <<"wait", CallOf(f)>>
    BY <1>5 DEF Asks, Waits
  <2> QED BY <1>1, <2>1
<1>6. CASE f.at \in {"gate", "usage", "bump", "assistant", "results"}
  <2>1. \E x, y : x # word /\ Asks(f) = <<x, y>>
    <3>1. f.at = "gate" => Asks(f) = <<"output", f.step>>
      BY AtGate
    <3>2. f.at = "usage" => Asks(f) = <<"usage", f.step>>
      BY AtUsage
    <3>3. f.at = "bump" => Asks(f) = <<"bump", f.step>>
      BY AtBump
    <3>4. f.at = "assistant" => Asks(f) = <<"assistant", f.step>>
      BY AtAssistant
    <3>5. f.at = "results" => Asks(f) = <<"toolresults", f.step>>
      BY AtResults
    <3>6. \A x, y : Asks(f) = <<x, y>> /\ x # word => \E z, w : z # word /\ Asks(f) = <<z, w>>
      BY Zenon
    <3>7. "output" # word /\ "usage" # word /\ "bump" # word /\ "assistant" # word /\ "toolresults" # word
      OBVIOUS
    <3> QED BY <1>6, <3>1, <3>2, <3>3, <3>4, <3>5, <3>6, <3>7, Zenon
  <2> QED BY <1>1, <2>1
<1>7. CASE f.at \in {"pose", "present", "tool", "advance"}
  <2>1. f.at = "pose" => Asks(f) = <<"elicitation", CallOf(f)>>
    BY AtPose
  <2>2. f.at = "tool" => Asks(f) = <<"tool", CallOf(f)>>
    BY AtTool
  <2>3. f.at = "present" => Asks(f) = <<"tool", CallOf(f)>>
    BY AtPresent
  <2>4. f.at = "advance" => Asks(f) = <<"queue", Outcome(f)>>
    BY AtAdvance DEF Outcome
  <2>5. "elicitation" # word /\ "tool" # word /\ "queue" # word
    OBVIOUS
  <2> QED BY <1>1, <1>7, <2>1, <2>2, <2>3, <2>4, <2>5
<1>8. CASE f.at \in {"start", "quota", "user", "finish", "fail", "spawn", "restore", "release"}
  BY <1>2, <1>8, AtStart, AtQuota, AtUser, AtFinish, AtFail, AtSpawn, AtRestore, AtRelease
<1>9. CASE f.at = "llm"
  <2>1. Asks(f) = <<"llm", f.step>>
    BY <1>9, AtLlm
  <2> QED BY <1>1, <1>9, <2>1
<1> QED BY <1>3, <1>4, <1>5, <1>6, <1>7, <1>8, <1>9 DEF Stepped

LEMMA ClaimsStay ==
  ASSUME NEW c, UNCHANGED log \/ \E p, name, v : p \notin DOMAIN log /\ Recorded(p, name, v) /\ name # <<"toolcall", c>>
  PROVE  ClaimOf(c)' = ClaimOf(c)
<1>1. CASE UNCHANGED log
  BY <1>1 DEF ClaimOf
<1>2. CASE \E p, name, v : p \notin DOMAIN log /\ Recorded(p, name, v) /\ name # <<"toolcall", c>>
  <2>1. PICK p, name, v : p \notin DOMAIN log /\ Recorded(p, name, v) /\ name # <<"toolcall", c>>
    BY <1>2
  <2>2. /\ DOMAIN log' = DOMAIN log \cup {p} /\ log'[p].name # <<"toolcall", c>>
        /\ \A q \in DOMAIN log : log'[q] = log[q]
    BY <2>1, RecordedAdds
  <2>3. {q \in DOMAIN log' : log'[q].name = <<"toolcall", c>>} = {q \in DOMAIN log : log[q].name = <<"toolcall", c>>}
    BY <2>2
  <2>4. \A q \in {r \in DOMAIN log : log[r].name = <<"toolcall", c>>} : log'[q].value = log[q].value
    BY <2>2
  <2> QED BY <2>3, <2>4 DEF ClaimOf
<1> QED BY <1>1, <1>2

LEMMA ClaimsGrow ==
  ASSUME NEW c, NEW p, p \notin DOMAIN log, NEW v, Recorded(p, <<"toolcall", c>>, v)
  PROVE  ClaimOf(c)' \subseteq ClaimOf(c) \cup {v}
<1>1. /\ DOMAIN log' = DOMAIN log \cup {p} /\ log'[p].value = v /\ \A q \in DOMAIN log : log'[q] = log[q]
  BY RecordedAdds
<1> QED BY <1>1 DEF ClaimOf

\* Only a claim's own checkpoint adds to what the journal holds of it.
LEMMA Filing ==
  ASSUME NEW S, NEW f, Replay(S, f), NEW g, NEW c,
         \/ (Acts(f, g) /\ (f.at # "claim" \/ c # Next1(f))) \/ Heard(f, g) \/ Walked(f, g)
         \/ Repeats(f) \/ Still(f) \/ UNCHANGED log \/ Halting
  PROVE  ClaimOf(c)' = ClaimOf(c)
<1>1. Shaped(f)
  BY DEF Replay, Chain
<1>2. CASE UNCHANGED log
  BY <1>2, ClaimsStay
<1>3. CASE Acts(f, g) /\ (f.at # "claim" \/ c # Next1(f)) /\ ~UNCHANGED log
  <2>1. PICK v : f.at \in Stepped /\ f.pos + 1 \notin DOMAIN log /\ Recorded(f.pos + 1, Asks(f), v)
    BY <1>3 DEF Acts
  <2>2. Asks(f) # <<"toolcall", c>>
    <3>1. CASE f.at # "claim"
      BY <1>1, <2>1, <3>1, OtherNames
    <3>2. CASE f.at = "claim"
      <4>1. Asks(f) = <<"toolcall", Next1(f)>> /\ c # Next1(f)
        BY <1>3, <3>2, AtClaim DEF Next1
      <4> QED BY <4>1
    <3> QED BY <3>1, <3>2
  <2> QED BY <2>1, <2>2, ClaimsStay
<1>4. CASE Heard(f, g)
  <2>1. PICK v : f.at \in Waits /\ f.pos + 1 \notin DOMAIN log /\ Recorded(f.pos + 1, Asks(f), v)
    BY <1>4 DEF Heard
  <2>2. Asks(f) # <<"toolcall", c>>
    BY <1>1, <2>1, OtherNames DEF Waits
  <2> QED BY <2>1, <2>2, ClaimsStay
<1>5. CASE Repeats(f) /\ ~UNCHANGED log
  <2>1. PICK n \in DOMAIN f.batch : \E v \in {"executed", "failed"} :
          f.pos + n \notin DOMAIN log /\ Recorded(f.pos + n, <<"tool", f.first + n>>, v)
    BY <1>5 DEF Repeats
  <2>2. <<"tool", f.first + n>> # <<"toolcall", c>>
    OBVIOUS
  <2> QED BY <2>1, <2>2, ClaimsStay
<1> QED BY <1>2, <1>3, <1>4, <1>5 DEF Walked, Still, Halting

\* A call's claim is journaled as the frontier has it, and after claims that threw at most.
Filed(f) ==
  /\ \A c \in Calls : c > f.first + Len(f.claims) => ClaimOf(c) \subseteq {"threw"}
  /\ \A n \in 1 .. Len(f.claims) : ClaimOf(f.first + n) \subseteq {f.claims[n], "threw"}

LEMMA FiledStill ==
  ASSUME NEW f, Shaped(f), Filed(f), NEW g, g.first = f.first, g.claims = f.claims,
         \A c \in Calls : ClaimOf(c)' \subseteq ClaimOf(c) \cup {"threw"}
  PROVE  Filed(g)'
<1>1. \A n \in 1 .. Len(f.claims) : f.first + n \in Calls
  <2>1. Len(f.claims) \in Nat /\ Len(f.batch) \in Nat /\ Len(f.claims) <= Len(f.batch)
        /\ \A n \in 1 .. Len(f.batch) : f.first + n \in Calls
    BY Front
  <2> QED BY <2>1
<1> QED BY <1>1 DEF Filed

LEMMA FiledClaim ==
  ASSUME NEW f, Shaped(f), Filed(f), f.at = "claim", NEW v, f.pos + 1 \notin DOMAIN log, Recorded(f.pos + 1, Asks(f), v),
         NEW g, g.first = f.first, g.claims = Append(f.claims, v), \A c : c # Next1(f) => ClaimOf(c)' = ClaimOf(c)
  PROVE  Filed(g)'
<1> DEFINE m == Len(f.claims)
           k == Next1(f)
<1>1. f.claims \in Seq(ClaimsOf) /\ m \in Nat /\ f.first \in Nat /\ k = f.first + (m + 1) /\ k \in Calls /\ \A c \in Calls : c \in Nat
  <2>1. m < Len(f.batch)
    BY DEF Shaped
  <2>2. m \in Nat /\ Len(f.batch) \in Nat /\ f.first \in Nat /\ f.claims \in Seq(ClaimsOf)
    BY Front
  <2>3. m + 1 \in 1 .. Len(f.batch)
    BY ONLY <2>1, <2>2
  <2>4. f.first + (m + 1) \in Calls
    BY <2>3, Front
  <2>5. k = f.first + (m + 1)
    BY ONLY <2>2 DEF Next1
  <2>6. \A c \in Calls : c \in Nat
    BY TurnAssumption DEF Calls
  <2> HIDE DEF k, m
  <2> QED BY ONLY <2>2, <2>4, <2>5, <2>6
<1>2. Len(g.claims) = m + 1 /\ g.claims[m + 1] = v /\ \A n \in 1 .. m : g.claims[n] = f.claims[n]
  BY <1>1
<1>3. ClaimOf(k)' \subseteq {v, "threw"}
  <2>1. Asks(f) = <<"toolcall", k>>
    BY AtClaim DEF Next1
  <2>2. k > f.first + m
    BY <1>1
  <2>3. ClaimOf(k) \subseteq {"threw"}
    BY <1>1, <2>2 DEF Filed
  <2> DEFINE p == f.pos + 1
  <2>4. p \notin DOMAIN log /\ Recorded(p, <<"toolcall", k>>, v)
    BY <2>1
  <2> HIDE DEF p, k
  <2> QED BY <2>3, <2>4, ClaimsGrow
<1> HIDE DEF m, k
<1>4. ASSUME NEW c \in Calls, c > g.first + Len(g.claims) PROVE ClaimOf(c)' \subseteq {"threw"}
  <2>1. c > f.first + m /\ c # k
    BY <1>1, <1>2, <1>4
  <2> QED BY <2>1 DEF Filed, m, k
<1>5. ASSUME NEW n \in 1 .. Len(g.claims) PROVE ClaimOf(g.first + n)' \subseteq {g.claims[n], "threw"}
  <2>1. CASE n = m + 1
    BY <1>1, <1>2, <1>3, <2>1
  <2>2. CASE n # m + 1
    <3>1. n \in 1 .. m /\ f.first + n # k
      BY <1>1, <1>2, <2>2
    <3>2. ClaimOf(f.first + n) \subseteq {f.claims[n], "threw"}
      BY <3>1 DEF Filed, m
    <3>3. ClaimOf(f.first + n)' = ClaimOf(f.first + n)
      BY <3>1 DEF k
    <3>4. g.claims[n] = f.claims[n] /\ g.first = f.first
      BY <1>2, <3>1
    <3> QED BY ONLY <3>2, <3>3, <3>4
  <2> QED BY <2>1, <2>2
<1> QED BY <1>4, <1>5 DEF Filed

LEMMA FiledMoves ==
  ASSUME NEW S, NEW f, Replay(S, f), Typed, Filed(f), NEW g, Advances(f, g)
  PROVE  Filed(g)'
<1>1. \/ Acts(f, g) \/ Heard(f, g) \/ Walked(f, g)
      \/ g = f /\ (Repeats(f) \/ Still(f) \/ (Closed /\ UNCHANGED <<log, engine, world>>) \/ Halting)
  BY Effects
<1>2. Shaped(f)
  BY DEF Replay, Chain
<1>3. CASE Acts(f, g) /\ f.at = "claim"
  <2>1. PICK v : \/ UNCHANGED log /\ g = f
                 \/ f.pos + 1 \notin DOMAIN log /\ Recorded(f.pos + 1, Asks(f), v) /\ Leads(f, v, g)
    BY <1>3 DEF Acts
  <2>2. \A c : c # Next1(f) => ClaimOf(c)' = ClaimOf(c)
    BY <1>3, Filing
  <2>3. CASE UNCHANGED log /\ g = f
    BY <1>2, <2>3, ClaimsStay, FiledStill
  <2>4. CASE v = "threw" /\ f.pos + 1 \notin DOMAIN log /\ Recorded(f.pos + 1, Asks(f), v) /\ Leads(f, v, g)
    <3>1. g.first = f.first /\ g.claims = f.claims
      BY <1>3, <2>4 DEF Leads
    <3>2. ClaimOf(Next1(f))' \subseteq ClaimOf(Next1(f)) \cup {"threw"}
      <4> DEFINE p == f.pos + 1
                 k == Next1(f)
      <4>1. p \notin DOMAIN log /\ Recorded(p, <<"toolcall", k>>, v)
        BY <1>3, <2>4, AtClaim DEF Next1
      <4> HIDE DEF p, k
      <4>2. ClaimOf(k)' \subseteq ClaimOf(k) \cup {v}
        BY <4>1, ClaimsGrow
      <4> QED BY <2>4, <4>2 DEF k
    <3> QED BY <1>2, <2>2, <3>1, <3>2, FiledStill
  <2>5. CASE v # "threw" /\ f.pos + 1 \notin DOMAIN log /\ Recorded(f.pos + 1, Asks(f), v) /\ Leads(f, v, g)
    <3>1. g.first = f.first /\ g.claims = Append(f.claims, v)
      BY <1>3, <2>5 DEF Leads
    <3> QED BY <1>2, <1>3, <2>2, <2>5, <3>1, FiledClaim
  <2> QED BY <2>1, <2>3, <2>4, <2>5
<1>4. ASSUME ~(Acts(f, g) /\ f.at = "claim") PROVE \A c \in Calls : ClaimOf(c)' = ClaimOf(c)
  BY <1>1, <1>4, Filing
<1>5. CASE ~(Acts(f, g) /\ f.at = "claim") /\ g.first = f.first /\ g.claims = f.claims
  BY <1>2, <1>4, <1>5, FiledStill
<1>6. CASE f.at = "results" /\ g.first = f.first + Len(f.batch) /\ g.claims = <<>>
  <2>1. Len(f.claims) = Len(f.batch) /\ Len(f.batch) \in Nat /\ f.first \in Nat /\ Len(g.claims) = 0
    BY <1>2, <1>6, Front DEF Shaped, Whole
  <2>2. g.first + Len(g.claims) = f.first + Len(f.claims)
    BY <1>6, <2>1
  <2>3. \A c \in Calls : ClaimOf(c)' = ClaimOf(c)
    BY <1>4, <1>6
  <2> QED BY <2>1, <2>2, <2>3 DEF Filed
<1>7. ASSUME ~(Acts(f, g) /\ f.at = "claim")
      PROVE  \/ g.first = f.first /\ g.claims = f.claims
             \/ f.at = "results" /\ g.first = f.first + Len(f.batch) /\ g.claims = <<>>
  <2>1. CASE Acts(f, g)
    <3>1. PICK v : f.at \in Stepped /\ (g = f \/ Leads(f, v, g))
      BY <2>1 DEF Acts
    <3> QED BY <1>7, <2>1, <3>1 DEF Leads, Same, Settled
  <2>2. CASE Heard(f, g)
    <3>1. PICK reply \in Told : g = Goes(f, reply)
      BY <2>2 DEF Heard
    <3>2. Same(f, g)
      BY <1>2, <2>2, <3>1, Waited, Zenon DEF Heard
    <3> QED BY <3>2 DEF Same
  <2>3. CASE Walked(f, g)
    <3>1. CASE f.at \in Alone /\ g = Moves(f)
      <4>1. Same(f, g) \/ Settled(f, g)
        BY <1>2, <3>1, Moving, Zenon
      <4> QED BY <4>1 DEF Same, Settled
    <3>2. CASE Joins(f, g)
      <4>1. Same(f, g)
        BY <1>2, <3>2, Joining, Zenon DEF Joins
      <4> QED BY <4>1 DEF Same
    <3> QED BY <2>3, <3>1, <3>2 DEF Walked
  <2> QED BY <1>1, <2>1, <2>2, <2>3
<1> QED BY <1>3, <1>5, <1>6, <1>7

-----------------------------------------------------------------------------
(***************************************************************************)
(* What ran, and who agreed to it.                                         *)
(***************************************************************************)
Agreed(c) == c \in replies.agreed
Posed(c)  == \E p \in DOMAIN log : log[p].name = <<"elicitation", c>>

\* A yes on its way to the engine came in time.
Yes == /\ \A c \in Calls : \A i \in DOMAIN mail[c] : mail[c][i] = "yes" => Agreed(c)
       /\ sending.reply = "yes" => Agreed(sending.call)

\* A call that ran may have, by its row and by its claim; one put to a person was agreed to.
MayRun(c) == /\ db.row[c] \notin {"rejected", "expired", "proposed"}
             /\ ClaimOf(c) \cap (Preflights \cup {"proposal"}) = {}
             /\ ClaimOf(c) \cap {"ask", "hold"} # {} => Agreed(c)

Rightly == \A c \in Calls : Ran(c) => MayRun(c)

\* A call that is done by its claim, if by anything.
ByClaim(c) == ClaimOf(c) \subseteq {"completed", "presented", "threw"}

Truly == \A c \in Calls : db.row[c] = "executed" => Ran(c) \/ Posed(c) \/ ByClaim(c)

\* What the frontier is about to do with its call, or to say of it.
Here(f) ==
  /\ f.at = "tool" /\ f.claims[Cur(f)] \in {"ask", "hold"} => Agreed(CallOf(f))
  /\ f.at = "answer" => Posed(CallOf(f))
  /\ f.at = "together" => \A n \in DOMAIN f.batch : f.pos + n \in DOMAIN log => Ran(f.first + n)
  /\ f.at = "settle" => \A n \in Cur(f) .. Len(f.batch) :
       f.outcomes[n] = "executed" /\ (n = Cur(f) \/ Together(f)) => Ran(f.first + n) \/ Posed(f.first + n)

Truth(f) == Yes /\ Rightly /\ Truly /\ Here(f)

Grows == /\ LogGrows /\ replies.agreed \subseteq replies'.agreed
         /\ \A c \in Calls : Ran(c) => Ran(c)'

LEMMA RecordGrows ==
  ASSUME NEW p, p \notin DOMAIN log, NEW name, NEW value, Recorded(p, name, value)
  PROVE  LogGrows
BY RecordedAdds DEF LogGrows

LEMMA ActsGrows ==
  ASSUME NEW S, NEW f, Replay(S, f), Typed, NEW g, Acts(f, g)
  PROVE  Grows
<1>1. PICK v \in Found(f) :
        /\ f.at \in Stepped /\ Wrote(f, v) /\ UNCHANGED <<engine, world>>
        /\ \/ UNCHANGED log
           \/ f.pos + 1 \notin DOMAIN log /\ Recorded(f.pos + 1, Asks(f), v)
  BY DEF Acts
<1>2. LogGrows /\ replies' = replies
  BY <1>1, RecordGrows DEF LogGrows, world
<1>3. \A c \in Calls : Ran(c) => Ran(c)'
  <2> SUFFICES ASSUME NEW c \in Calls, Ran(c) PROVE Ran(c)'
    OBVIOUS
  <2>1. CASE f.at # "tool"
    BY <1>1, <2>1 DEF Wrote, Ran
  <2>2. CASE f.at = "tool"
    <3>1. db'.ran = [db.ran EXCEPT ![CallOf(f)] = @ + 1]
      BY <1>1, <2>2 DEF Wrote
    <3>2. db.ran \in [Calls -> Nat]
      BY DEF Typed, Db
    <3> QED BY <3>1, <3>2 DEF Ran
  <2> QED BY <2>1, <2>2
<1> QED BY <1>2, <1>3 DEF Grows

LEMMA Growing ==
  ASSUME NEW S, NEW f, Replay(S, f), Typed, NEW g, Advances(f, g)
  PROVE  Grows
<1>1. \/ Acts(f, g) \/ Heard(f, g) \/ Walked(f, g)
      \/ g = f /\ (Repeats(f) \/ Still(f) \/ (Closed /\ UNCHANGED <<log, engine, world>>) \/ Halting)
  BY Effects
<1>2. CASE Heard(f, g)
  <2>1. LogGrows
    BY <1>2, RecordGrows DEF Heard
  <2> QED BY <1>2, <2>1 DEF Heard, Quiet, SameRan, Grows, Ran
<1>3. CASE Walked(f, g)
  BY <1>3 DEF Walked, Quiet, SameRan, Grows, Ran, LogGrows, world
<1>4. CASE Repeats(f)
  <2>1. LogGrows
    BY <1>4, RecordGrows DEF Repeats, LogGrows
  <2> QED BY <1>4, <2>1 DEF Repeats, Reran, Grows, world
<1>5. CASE Still(f)
  <2>1. LogGrows /\ \A c \in Calls : Ran(c) => Ran(c)'
    BY <1>5 DEF Still, Quiet, SameRan, Ran, LogGrows
  <2>2. replies.agreed \subseteq replies'.agreed
    <3>1. CASE Admit
      <4>1. PICK call \in Calls, reply \in Replies :
              replies' = [sent |-> replies.sent + 1, agreed |-> replies.agreed \cup (IF reply = "yes" THEN {call} ELSE {})]
        BY <3>1 DEF Admit
      <4> QED BY <4>1
    <3> QED BY <1>5, <3>1 DEF Still, Signal
  <2> QED BY <2>1, <2>2 DEF Grows
<1>6. CASE Closed /\ UNCHANGED <<log, engine, world>>
  BY <1>6 DEF Closed, SameRan, Grows, Ran, LogGrows, world
<1>7. CASE Halting
  BY <1>7 DEF Halting, SameRan, Grows, Ran, LogGrows
<1> QED BY <1>1, <1>2, <1>3, <1>4, <1>5, <1>6, <1>7, ActsGrows

LEMMA PosedStays ==
  ASSUME NEW c, Posed(c), LogGrows
  PROVE  Posed(c)'
BY DEF Posed, LogGrows

LEMMA YesMoves ==
  ASSUME NEW S, NEW f, Replay(S, f), Typed, Yes, NEW g, Advances(f, g)
  PROVE  Yes'
<1>1. /\ replies.agreed \subseteq replies'.agreed
      /\ \/ Acts(f, g) \/ Heard(f, g) \/ Walked(f, g)
         \/ g = f /\ (Repeats(f) \/ Still(f) \/ (Closed /\ UNCHANGED <<log, engine, world>>) \/ Halting)
  BY Effects, Growing DEF Grows
<1>2. mail \in [Calls -> Seq(Replies)] /\ replies \in [sent : 0 .. MaxReplies, agreed : SUBSET Calls]
      /\ (sending = NoReply \/ sending \in [call : Calls, reply : Replies])
  BY DEF Replay, Around, Typed
<1>3. CASE UNCHANGED <<mail, sending>>
  BY <1>1, <1>3 DEF Yes, Agreed
<1>4. CASE Heard(f, g)
  <2>1. UNCHANGED <<sending, replies>>
    BY <1>4 DEF Heard
  <2>2. CASE mail' = mail
    BY <1>3, <2>1, <2>2
  <2>3. CASE mail[CallOf(f)] # <<>> /\ mail' = [mail EXCEPT ![CallOf(f)] = Tail(@)]
    <3> SUFFICES ASSUME NEW c \in Calls, NEW i \in DOMAIN mail'[c], mail'[c][i] = "yes" PROVE Agreed(c)
      BY <2>1 DEF Yes, Agreed
    <3>1. CASE c # CallOf(f)
      BY <1>2, <2>3, <3>1 DEF Yes
    <3>2. CASE c = CallOf(f)
      <4> DEFINE s == mail[c]
      <4>1. mail'[c] = Tail(s) /\ s \in Seq(Replies) /\ s # <<>>
        BY <1>2, <2>3, <3>2
      <4>2. \A j \in DOMAIN s : s[j] = "yes" => Agreed(c)
        BY DEF Yes
      <4> HIDE DEF s
      <4>3. Tail(s)[i] = s[i + 1] /\ i + 1 \in DOMAIN s
        BY <4>1
      <4> QED BY <4>1, <4>2, <4>3
    <3> QED BY <3>1, <3>2
  <2> QED BY <1>4, <2>2, <2>3 DEF Heard
<1>5. CASE Admit
  <2>1. PICK call \in Calls, reply \in Replies :
          /\ replies' = [sent |-> replies.sent + 1, agreed |-> replies.agreed \cup (IF reply = "yes" THEN {call} ELSE {})]
          /\ sending' = [call |-> call, reply |-> reply] /\ mail' = mail
    BY <1>5 DEF Admit
  <2> QED BY <2>1 DEF Yes, Agreed
<1>6. CASE Signal
  <2>1. sending # NoReply /\ mail' = [mail EXCEPT ![sending.call] = Append(@, sending.reply)] /\ sending' = NoReply
        /\ replies' = replies
    BY <1>6 DEF Signal
  <2>2. sending.call \in Calls /\ sending.reply \in Replies
    BY <1>2, <2>1
  <2>3. ASSUME NEW c \in Calls, NEW i \in DOMAIN mail'[c], mail'[c][i] = "yes" PROVE Agreed(c)
    <3>1. CASE c # sending.call
      BY <1>2, <2>1, <2>3, <3>1 DEF Yes
    <3>2. CASE c = sending.call
      <4> DEFINE s == mail[c]
                 r == sending.reply
      <4>1. mail'[c] = Append(s, r) /\ s \in Seq(Replies) /\ r \in Replies
        BY <1>2, <2>1, <2>2, <3>2
      <4>2. (\A j \in DOMAIN s : s[j] = "yes" => Agreed(c)) /\ (r = "yes" => Agreed(c))
        BY <3>2 DEF Yes
      <4> HIDE DEF s, r
      <4>3. (i \in DOMAIN s /\ Append(s, r)[i] = s[i]) \/ Append(s, r)[i] = r
        BY <4>1, <2>3
      <4> QED BY <2>3, <4>1, <4>2, <4>3
    <3> QED BY <3>1, <3>2
  <2>4. sending'.reply # "yes"
    BY <2>1 DEF NoReply
  <2> QED BY <2>1, <2>3, <2>4 DEF Yes, Agreed
<1> QED BY <1>1, <1>3, <1>4, <1>5, <1>6 DEF Acts, Walked, Repeats, Still, Halting, world

\* The call a body runs, settles or waits for, among those opened.
LEMMA AtCall ==
  ASSUME NEW f, Shaped(f), Rows(f), f.at \in Serving
  PROVE  /\ CallOf(f) \in Calls /\ CallOf(f) = f.first + Cur(f) /\ Cur(f) \in 1 .. Len(f.batch)
         /\ Len(f.claims) = Len(f.batch) /\ Opened(f, Cur(f))
<1>1. Len(f.claims) = Len(f.batch) /\ Len(f.results) < Len(f.batch)
  BY DEF Shaped
<1>2. Len(f.results) \in Nat /\ Len(f.batch) \in Nat /\ Cur(f) = Len(f.results) + 1
  BY Front
<1>3. Cur(f) \in 1 .. Len(f.batch) /\ Cur(f) \in Cur(f) .. Len(f.claims)
  BY <1>1, <1>2
<1> QED BY <1>1, <1>3, FrontTypes DEF Rows, CallOf

SameClaims == \A c \in Calls : ClaimOf(c)' = ClaimOf(c)

LEMMA RightlyKept ==
  ASSUME Rightly, Grows, SameRows, SameRan, SameClaims
  PROVE  Rightly'
BY DEF Rightly, MayRun, Grows, SameRows, SameRan, SameClaims, Ran, Agreed

LEMMA RightlyClosed ==
  ASSUME Rightly, Grows, SameRan, SameClaims,
         db'.row = [c \in Calls |-> IF db.row[c] = "pending_approval" THEN "failed" ELSE db.row[c]]
  PROVE  Rightly'
BY DEF Rightly, MayRun, Grows, SameRan, SameClaims, Ran, Agreed

LEMMA RightlyActs ==
  ASSUME NEW S, NEW f, Replay(S, f), Typed, Rows(f), Filed(f), Rightly, Here(f), NEW g, Acts(f, g)
  PROVE  Rightly'
<1>1. PICK v \in Found(f) : f.at \in Stepped /\ Wrote(f, v) /\ (g = f \/ Leads(f, v, g))
  BY DEF Acts
<1>2. Shaped(f) /\ db \in Db /\ Grows
  BY ActsGrows DEF Replay, Chain, Typed
<1>2a. f.at # "claim" => SameClaims
  BY Filing DEF SameClaims
<1>3. CASE f.at \notin {"claim", "tool", "settle", "fail"}
  BY <1>1, <1>2, <1>2a, <1>3, RightlyKept DEF Wrote, SameRows, SameRan
<1>4. CASE f.at = "claim"
  <2> DEFINE k == Next1(f)
  <2>1. ~Ran(k)
    <3>1. k \in Calls /\ k > f.first + Len(f.claims)
      <4>1. Len(f.claims) < Len(f.batch)
        BY <1>2, <1>4 DEF Shaped
      <4> QED BY <1>2, <4>1, Front DEF Next1
    <3> QED BY <3>1 DEF Rows
  <2>2. SameRan /\ (db'.row = db.row \/ db'.row = [db.row EXCEPT ![k] = RowOf[v]])
    BY <1>1, <1>4 DEF Wrote, SameRan
  <2>3. \A c : c # k => ClaimOf(c)' = ClaimOf(c)
    BY Filing
  <2> HIDE DEF k
  <2>4. \A c \in Calls : Ran(c)' => Ran(c) /\ c # k
    BY <2>1, <2>2 DEF Ran, SameRan
  <2>5. \A c \in Calls : c # k => db'.row[c] = db.row[c]
    BY <1>2, <2>2 DEF Db
  <2> QED BY <1>2, <2>3, <2>4, <2>5 DEF Rightly, MayRun, Grows, Agreed
<1>5. CASE f.at = "tool"
  <2>1. SameRows /\ SameClaims /\ db'.ran = [db.ran EXCEPT ![CallOf(f)] = @ + 1]
    BY <1>1, <1>2a, <1>5 DEF Wrote, SameRows
  <2>2. /\ CallOf(f) \in Calls /\ CallOf(f) = f.first + Cur(f) /\ Opened(f, Cur(f)) /\ Cur(f) \in 1 .. Len(f.claims)
        /\ f.claims[Cur(f)] \in {"read", "auto", "ask", "hold"}
    BY <1>2, <1>5, AtCall DEF Serving, Shaped
  <2>3. db.row[CallOf(f)] \notin {"rejected", "expired", "proposed"}
    BY <1>5, <2>2 DEF Opened, Stands, RowOf
  <2>4. ClaimOf(CallOf(f)) \subseteq {f.claims[Cur(f)], "threw"}
    BY <2>2 DEF Filed
  <2>5. ClaimOf(CallOf(f)) \cap {"ask", "hold"} # {} => Agreed(CallOf(f))
    BY <1>5, <2>4 DEF Here
  <2>6. ClaimOf(CallOf(f)) \cap (Preflights \cup {"proposal"}) = {}
    BY <2>2, <2>4 DEF Preflights
  <2>7. MayRun(CallOf(f))
    BY <2>3, <2>5, <2>6 DEF MayRun
  <2>8. \A c \in Calls : c # CallOf(f) /\ Ran(c)' => Ran(c)
    BY <1>2, <2>1 DEF Db, Ran
  <2>9. ASSUME NEW c \in Calls, Ran(c)' PROVE MayRun(c)
    BY <2>7, <2>8, <2>9 DEF Rightly
  <2> QED BY <1>2, <2>1, <2>9 DEF Rightly, MayRun, Grows, Agreed, SameRows, SameClaims
<1>6. CASE f.at = "settle"
  <2>1. SameRan /\ SameClaims /\ db'.row = [db.row EXCEPT ![CallOf(f)] = f.outcomes[Cur(f)]]
    BY <1>1, <1>2a, <1>6 DEF Wrote, SameRan
  <2>2. CallOf(f) \in Calls /\ CallOf(f) = f.first + Cur(f) /\ Opened(f, Cur(f)) /\ Cur(f) \in 1 .. Len(f.batch)
    BY <1>2, <1>6, AtCall DEF Serving
  <2>3. Ran(CallOf(f)) => f.outcomes[Cur(f)] \in {"executed", "failed"}
    <3>1. Cur(f) \in Cur(f) .. Len(f.batch)
      BY <2>2
    <3> QED BY <1>2, <1>6, <2>2, <3>1 DEF Opened, Shaped
  <2>4. \A c \in Calls : db'.row[c] = db.row[c] \/ (c = CallOf(f) /\ db'.row[c] = f.outcomes[Cur(f)])
    BY <1>2, <2>1 DEF Db
  <2>5. \A c \in Calls : Ran(c)' => Ran(c)
    BY <2>1 DEF SameRan, Ran
  <2> QED BY <1>2, <2>1, <2>3, <2>4, <2>5 DEF Rightly, MayRun, Grows, Agreed, SameClaims
<1>7. CASE f.at = "fail"
  BY <1>1, <1>2, <1>2a, <1>7, RightlyClosed DEF Wrote, SameRan
<1> QED BY <1>3, <1>4, <1>5, <1>6, <1>7

LEMMA RightlyMoves ==
  ASSUME NEW S, NEW f, Replay(S, f), Typed, Rows(f), Filed(f), Rightly, Here(f), NEW g, Advances(f, g)
  PROVE  Rightly'
<1>1. /\ Grows
      /\ \/ Acts(f, g) \/ Heard(f, g) \/ Walked(f, g)
         \/ g = f /\ (Repeats(f) \/ Still(f) \/ (Closed /\ UNCHANGED <<log, engine, world>>) \/ Halting)
  BY Effects, Growing
<1>2. ~Acts(f, g) => SameClaims
  BY <1>1, Filing DEF SameClaims
<1>3. CASE ~Acts(f, g) /\ (Heard(f, g) \/ Walked(f, g) \/ Still(f) \/ Halting)
  BY <1>1, <1>2, <1>3, RightlyKept DEF Heard, Walked, Still, Halting, Quiet
<1>4. CASE ~Acts(f, g) /\ Repeats(f)
  <2>1. CASE f.at # "together"
    BY <1>1, <1>2, <1>4, <2>1, RightlyKept DEF Repeats, Reran
  <2>2. CASE f.at = "together"
    <3>1. ASSUME NEW n \in DOMAIN f.batch PROVE MayRun(f.first + n)
      <4>1. Shaped(f) /\ f.results = <<>> /\ Together(f) /\ Len(f.claims) = Len(f.batch)
        BY <2>2 DEF Replay, Chain, Shaped, Serving
      <4>2. DOMAIN f.batch = 1 .. Len(f.batch) /\ f.claims \in Seq(ClaimsOf) /\ Len(f.batch) \in Nat
        BY <4>1, Front
      <4>3. Cur(f) = 1 /\ n \in Cur(f) .. Len(f.claims) /\ n \in DOMAIN f.claims /\ n \in 1 .. Len(f.claims)
        BY <4>1, <4>2 DEF Cur
      <4>4. f.claims[n] = "read"
        BY <4>1, <4>3 DEF Together
      <4>5. Opened(f, n)
        BY <4>3 DEF Rows
      <4>6. db.row[f.first + n] \notin {"rejected", "expired", "proposed"}
        BY <2>2, <4>4, <4>5 DEF Opened, Stands, RowOf
      <4>7. ClaimOf(f.first + n) \subseteq {"read", "threw"}
        BY <4>3, <4>4 DEF Filed
      <4> QED BY <4>6, <4>7 DEF MayRun, Preflights
    <3>2. \A c \in Calls : Ran(c)' => Ran(c) \/ \E n \in DOMAIN f.batch : c = f.first + n
      BY <1>4 DEF Repeats, Reran
    <3>3. ASSUME NEW c \in Calls, Ran(c)' PROVE MayRun(c)
      BY <3>1, <3>2, <3>3 DEF Rightly
    <3> QED BY <1>1, <1>2, <1>4, <3>3 DEF Repeats, Reran, SameRows, Rightly, MayRun, Grows, Agreed, SameClaims
  <2> QED BY <2>1, <2>2
<1>5. CASE ~Acts(f, g) /\ Closed
  BY <1>1, <1>2, <1>5, RightlyClosed DEF Closed
<1> QED BY <1>1, <1>3, <1>4, <1>5, RightlyActs

LEMMA TrulyMoves ==
  ASSUME NEW S, NEW f, Replay(S, f), Typed, Rows(f), Filed(f), Truly, Here(f), NEW g, Advances(f, g)
  PROVE  Truly'
<1>1. /\ Grows
      /\ \/ Acts(f, g) \/ Heard(f, g) \/ Walked(f, g)
         \/ g = f /\ (Repeats(f) \/ Still(f) \/ (Closed /\ UNCHANGED <<log, engine, world>>) \/ Halting)
  BY Effects, Growing
<1>2. Shaped(f) /\ db \in Db
  BY DEF Replay, Chain, Typed
<1>3. CASE f.at = "claim" /\ Acts(f, g)
  <2> DEFINE k == Next1(f)
  <2>1. PICK v \in Found(f) :
          /\ Wrote(f, v)
          /\ UNCHANGED log \/ (f.pos + 1 \notin DOMAIN log /\ Recorded(f.pos + 1, Asks(f), v))
    BY <1>3 DEF Acts
  <2>2. Len(f.claims) < Len(f.batch)
    BY <1>2, <1>3 DEF Shaped
  <2>0. Asks(f) = <<"toolcall", k>> /\ v \in Claims(k, f.batch[Len(f.claims) + 1])
    BY <1>2, <1>3, AtClaim DEF Next1
  <2>3. k \in Calls /\ k > f.first + Len(f.claims) /\ f.batch[Len(f.claims) + 1] \in Kinds
    <3>1. f.first \in Nat /\ Len(f.claims) \in Nat /\ Len(f.batch) \in Nat /\ f.batch \in Seq(Kinds)
      BY <1>2, Front
    <3>2. Len(f.claims) + 1 \in 1 .. Len(f.batch) /\ k = f.first + (Len(f.claims) + 1)
      BY <2>2, <3>1 DEF Next1
    <3>3. f.first + (Len(f.claims) + 1) \in Calls
      BY <1>2, <3>2, Front
    <3> HIDE DEF k
    <3> QED BY ONLY <3>1, <3>2, <3>3
  <2>4. v \in ClaimsOf \cup {"threw"} /\ (db.row[k] # "none" => v = "threw")
    <3> DEFINE kind == f.batch[Len(f.claims) + 1]
    <3>1. v \in Claims(k, kind) /\ kind \in Kinds
      BY <2>0, <2>3
    <3> HIDE DEF kind, k
    <3> QED BY <3>1, ClaimsKinds
  <2>5. ClaimOf(k)' \subseteq ClaimOf(k) \cup {v} /\ ClaimOf(k) \subseteq {"threw"}
    <3>1. ClaimOf(k) \subseteq {"threw"}
      BY <2>3 DEF Filed
    <3>2. CASE UNCHANGED log
      BY <3>1, <3>2, ClaimsStay
    <3>3. CASE f.pos + 1 \notin DOMAIN log /\ Recorded(f.pos + 1, Asks(f), v)
      <4> DEFINE p == f.pos + 1
      <4>1. p \notin DOMAIN log /\ Recorded(p, <<"toolcall", k>>, v)
        BY <2>0, <3>3
      <4> HIDE DEF p, k
      <4> QED BY <3>1, <4>1, ClaimsGrow
    <3> QED BY <2>1, <3>2, <3>3
  <2>6. \A c : c # k => ClaimOf(c)' = ClaimOf(c)
    BY <1>3, Filing
  <2>7. IF v = "threw" THEN db'.row = db.row ELSE db'.row = [db.row EXCEPT ![k] = RowOf[v]]
    BY <1>3, <2>1 DEF Wrote
  <2> HIDE DEF k
  <2>8. \A c \in Calls : c # k => db'.row[c] = db.row[c]
    BY <1>2, <2>7 DEF Db
  <2>9. ByClaim(k)' \/ db'.row[k] # "executed"
    <3>1. CASE v \in {"completed", "presented", "threw"}
      BY <2>5, <3>1 DEF ByClaim
    <3>2. CASE v \notin {"completed", "presented", "threw"}
      <4>1. RowOf[v] # "executed"
        BY <2>4, <3>2 DEF RowOf, ClaimsOf
      <4> QED BY <1>2, <2>3, <2>7, <3>2, <4>1 DEF Db
    <3> QED BY <3>1, <3>2
  <2>10. \A c \in Calls : Posed(c) => Posed(c)'
    BY <1>1, PosedStays DEF Grows
  <2> QED BY <1>1, <2>6, <2>8, <2>9, <2>10 DEF Truly, ByClaim, Grows
<1>4. CASE ~(f.at = "claim" /\ Acts(f, g))
  <2>1. SameClaims
    BY <1>1, <1>4, Filing DEF SameClaims
  <2>2. SUFFICES ASSUME NEW c \in Calls, db'.row[c] = "executed"
                 PROVE  Ran(c) \/ Posed(c) \/ ByClaim(c)
    BY <1>1, <2>1, PosedStays DEF Truly, ByClaim, SameClaims, Grows
  <2>3. CASE db.row[c] = "executed"
    BY <2>3 DEF Truly
  <2>4. CASE db.row[c] # "executed"
    <3>1. Acts(f, g) /\ f.at # "claim"
      BY <1>1, <1>2, <1>4, <2>2, <2>4 DEF Heard, Walked, Repeats, Reran, Still, Halting, Quiet, SameRows, Closed
    <3>2. PICK v \in Found(f) : f.at \in Stepped /\ Wrote(f, v)
      BY <3>1 DEF Acts
    <3>3. CASE f.at \notin {"settle", "fail"}
      BY <2>2, <2>4, <3>1, <3>2, <3>3 DEF Wrote
    <3>4. CASE f.at = "fail"
      BY <2>2, <2>4, <3>2, <3>4 DEF Wrote
    <3>5. CASE f.at = "settle"
      <4>1. db'.row = [db.row EXCEPT ![CallOf(f)] = f.outcomes[Cur(f)]]
        BY <3>2, <3>5 DEF Wrote
      <4>2. c = CallOf(f) /\ f.outcomes[Cur(f)] = "executed"
        BY <1>2, <2>2, <2>4, <4>1 DEF Db
      <4>3. CallOf(f) = f.first + Cur(f) /\ Cur(f) \in 1 .. Len(f.batch)
        BY <1>2, <3>5, AtCall DEF Serving
      <4>4. Cur(f) \in Cur(f) .. Len(f.batch)
        BY <4>3
      <4> QED BY <3>5, <4>2, <4>3, <4>4 DEF Here
    <3> QED BY <3>3, <3>4, <3>5
  <2> QED BY <2>3, <2>4
<1> QED BY <1>3, <1>4

LEMMA HereStays ==
  ASSUME NEW f, Shaped(f), Here(f), Grows, UNCHANGED log
  PROVE  Here(f)'
<1>1. \A c : Posed(c) => Posed(c)'
  BY PosedStays DEF Grows
<1>2. \A n \in 1 .. Len(f.batch) : f.first + n \in Calls
  BY Front
<1>3. DOMAIN f.batch = 1 .. Len(f.batch) /\ Len(f.batch) \in Nat /\ Cur(f) \in Nat \ {0}
  BY FrontTypes
<1>4. f.at = "settle" => \A n \in Cur(f) .. Len(f.batch) : f.first + n \in Calls
  BY <1>2, <1>3
<1> QED BY <1>1, <1>2, <1>3, <1>4 DEF Here, Grows, Agreed

LEMMA HereActs ==
  ASSUME NEW S, NEW f, Replay(S, f), Typed, Here(f), NEW g, Shaped(g), Acts(f, g)
  PROVE  Here(g)'
<1>1. PICK v \in Found(f) :
        /\ f.at \in Stepped /\ Wrote(f, v) /\ UNCHANGED <<engine, world>>
        /\ \/ UNCHANGED log /\ g = f
           \/ f.pos + 1 \notin DOMAIN log /\ Recorded(f.pos + 1, Asks(f), v) /\ Leads(f, v, g)
  BY DEF Acts
<1>2. Shaped(f) /\ db \in Db /\ Grows
  BY ActsGrows DEF Replay, Chain, Typed
<1>3. CASE UNCHANGED log /\ g = f
  BY <1>2, <1>3, HereStays
<1>4. CASE f.pos + 1 \notin DOMAIN log /\ Recorded(f.pos + 1, Asks(f), v) /\ Leads(f, v, g)
  <2>1. ASSUME g.at = "tool" PROVE g.claims[Cur(g)] \notin {"ask", "hold"}
    <3>1. f.at \in {"claim", "settle"}
      BY <1>1, <1>4, <2>1 DEF Leads, Stepped, After, Closing
    <3> QED BY <1>4, <2>1, <3>1 DEF Leads, Settled, Cleared
  <2>2. ASSUME g.at = "answer" PROVE Posed(CallOf(g))'
    <3>1. f.at = "pose"
      BY <1>1, <1>4, <2>2 DEF Leads, Stepped, After, Closing, Settled, Serving
    <3>2. Same(f, g)
      BY <1>4, <3>1 DEF Leads
    <3>3. CallOf(g) = CallOf(f)
      BY <3>2 DEF Same, CallOf, Cur
    <3>4. Asks(f) = <<"elicitation", CallOf(f)>>
      BY <3>1, AtPose
    <3>5. f.pos + 1 \in DOMAIN log' /\ log'[f.pos + 1].name = <<"elicitation", CallOf(g)>>
      <4> DEFINE p == f.pos + 1
      <4>1. p \notin DOMAIN log /\ Recorded(p, Asks(f), v)
        BY <1>4
      <4> HIDE DEF p
      <4>2. p \in DOMAIN log' /\ log'[p].name = Asks(f)
        BY <4>1, RecordedAdds
      <4> QED BY <3>3, <3>4, <4>2 DEF p
    <3> DEFINE c == CallOf(g)
    <3>6. log'[f.pos + 1].name = <<"elicitation", c>>
      BY <3>5
    <3> HIDE DEF c
    <3>7. Posed(c)'
      BY <3>5, <3>6 DEF Posed
    <3> QED BY <3>7 DEF c
  <2>3. ASSUME g.at = "together" PROVE \A n \in DOMAIN g.batch : g.pos + n \notin DOMAIN log'
    <3>1. f.at = "claim" /\ g.pos = f.pos + 1
      BY <1>1, <1>4, <2>3 DEF Leads, Stepped, After, Closing, Settled
    <3>2. \A p \in DOMAIN log : p \in 1 .. f.pos
      BY <3>1 DEF Replay, Chain, Journal
    <3>3. DOMAIN log' = DOMAIN log \cup {f.pos + 1}
      BY <1>4, RecordedAdds
    <3>4. f.pos \in Nat /\ DOMAIN g.batch = 1 .. Len(g.batch) /\ Len(g.batch) \in Nat
      BY <1>2, FrontTypes
    <3> QED BY <3>1, <3>2, <3>3, <3>4
  <2>4. ASSUME g.at = "settle"
        PROVE  \A n \in Cur(g) .. Len(g.batch) :
                 g.outcomes[n] = "executed" /\ (n = Cur(g) \/ Together(g)) => Ran(g.first + n)' \/ Posed(g.first + n)'
    <3>1. f.at \in {"tool", "settle"}
      BY <1>1, <1>4, <2>4 DEF Leads, Stepped, After, Closing
    <3>2. CASE f.at = "tool"
      <4>1. Same(f, g) /\ ~Together(g)
        BY <1>4, <3>2 DEF Leads
      <4>2. Cur(g) = Cur(f) /\ g.first = f.first
        BY <4>1 DEF Same, Cur
      <4>3. CallOf(f) \in Calls /\ CallOf(f) = f.first + Cur(f)
        BY <1>2, <3>2, FrontTypes DEF Serving, CallOf
      <4>4. db'.ran = [db.ran EXCEPT ![CallOf(f)] = @ + 1]
        BY <1>1, <3>2 DEF Wrote
      <4>5. Ran(CallOf(f))'
        <5> DEFINE c == CallOf(f)
        <5>1. c \in Calls /\ db'.ran = [db.ran EXCEPT ![c] = db.ran[c] + 1]
          BY <4>3, <4>4
        <5> HIDE DEF c
        <5>2. Ran(c)'
          BY <1>2, <5>1 DEF Ran, Db
        <5> QED BY <5>2 DEF c
      <4> QED BY <4>1, <4>2, <4>3, <4>5
    <3>3. CASE f.at = "settle"
      <4>1. /\ Together(f) /\ g.outcomes = f.outcomes /\ g.first = f.first /\ g.batch = f.batch
            /\ g.results = Append(f.results, f.outcomes[Cur(f)])
        BY <1>4, <2>4, <3>3 DEF Leads, Settled
      <4>2. f.results \in Seq(Final) /\ Len(f.results) \in Nat /\ Cur(f) = Len(f.results) + 1 /\ Len(f.batch) \in Nat
        BY <1>2, Front
      <4>3. Len(g.results) = Len(f.results) + 1
        BY <4>1, <4>2
      <4>4. Cur(g) = Cur(f) + 1 /\ Cur(f) \in Nat
        BY <4>2, <4>3 DEF Cur
      <4>5. ASSUME NEW n \in Cur(g) .. Len(g.batch), g.outcomes[n] = "executed"
            PROVE  Ran(g.first + n)' \/ Posed(g.first + n)'
        <5>1. n \in Cur(f) .. Len(f.batch) /\ n \in 1 .. Len(f.batch)
          BY <4>1, <4>2, <4>4
        <5>2. Ran(f.first + n) \/ Posed(f.first + n)
          BY <3>3, <4>1, <4>5, <5>1 DEF Here
        <5>3. f.first + n \in Calls
          BY <1>2, <5>1, Front
        <5> QED BY <1>2, <4>1, <5>2, <5>3, PosedStays DEF Grows
      <4> QED BY <4>5
    <3> QED BY <3>1, <3>2, <3>3
  <2> QED BY <2>1, <2>2, <2>3, <2>4 DEF Here
<1> QED BY <1>1, <1>3, <1>4

LEMMA HereHeard ==
  ASSUME NEW S, NEW f, Replay(S, f), Yes, Here(f), Grows, NEW g, Heard(f, g)
  PROVE  Here(g)'
<1>1. PICK reply \in Told :
        /\ g = Goes(f, reply)
        /\ reply # "expired" => mail[CallOf(f)] # <<>> /\ reply = Head(mail[CallOf(f)])
  BY DEF Heard
<1>2. Shaped(f) /\ f.at \in Waits
  BY DEF Heard, Replay, Chain
<1>3. /\ Shaped(g) /\ Same(f, g) /\ g.at \in {"tool", "decide", "settle"}
      /\ g.at = "tool" => f.at = "decide" /\ reply = "yes"
      /\ g.at = "settle" => /\ ~Together(g)
                            /\ g.outcomes[Cur(f)] = IF f.at = "answer" THEN IF reply = "no" THEN "rejected" ELSE "executed"
                                                    ELSE IF reply = "no" THEN "rejected" ELSE "expired"
  BY <1>1, <1>2, Waited, Zenon
<1>4. Cur(g) = Cur(f) /\ CallOf(g) = CallOf(f) /\ g.first = f.first
  BY <1>3 DEF Same, Cur, CallOf
<1>5. CallOf(f) \in Calls
  BY <1>2, FrontTypes DEF Waits, Serving
<1>6. ASSUME g.at = "tool" PROVE Agreed(CallOf(g))'
  <2> DEFINE s == mail[CallOf(f)]
  <2>1. s \in Seq(Replies) /\ s # <<>> /\ Head(s) = "yes" /\ \A i \in DOMAIN s : s[i] = "yes" => Agreed(CallOf(f))
    BY <1>1, <1>3, <1>5, <1>6 DEF Replay, Around, Yes
  <2> HIDE DEF s
  <2>2. 1 \in DOMAIN s /\ s[1] = "yes"
    BY <2>1
  <2>3. CallOf(f) \in replies.agreed
    BY <2>1, <2>2 DEF Agreed
  <2> QED BY <1>4, <2>3 DEF Agreed, Grows
<1>7. ASSUME g.at = "settle", NEW n \in Cur(g) .. Len(g.batch), g.outcomes[n] = "executed", n = Cur(g) \/ Together(g)
      PROVE  Posed(g.first + n)'
  <2>1. n = Cur(f) /\ f.at = "answer"
    BY <1>3, <1>4, <1>7
  <2>2. Posed(CallOf(f))
    BY <2>1 DEF Here
  <2>3. Posed(CallOf(f))'
    BY <2>2, PosedStays DEF Grows
  <2> QED BY <1>4, <2>1, <2>3 DEF CallOf
<1> QED BY <1>3, <1>6, <1>7 DEF Here

LEMMA HereWalked ==
  ASSUME NEW S, NEW f, Replay(S, f), Here(f), Grows, NEW g, Walked(f, g)
  PROVE  Here(g)'
<1>1. Shaped(f) /\ UNCHANGED log
  BY DEF Walked, Replay, Chain
<1>2. CASE f.at \in Alone /\ g = Moves(f)
  <2>1. /\ f.at = "head"    => g.at = "llm"
        /\ f.at = "check"   => g.at = "assistant"
        /\ f.at = "close"   => g.at \in {"over", "release"}
        /\ f.at = "receipt" => Settled(f, g)
        /\ f.at = "misasked" => Same(f, g) /\ g.at = "settle" /\ ~Together(g) /\ g.outcomes[Cur(f)] = "failed"
    BY <1>1, <1>2, Moving, Zenon
  <2>2. f.at = "receipt" => ~Together(f)
    BY <1>1 DEF Shaped
  <2>3. g.at \notin {"answer", "together"} /\ (g.at = "settle" => f.at = "misasked")
    BY <1>2, <2>1, <2>2 DEF Alone, Settled, Serving
  <2>4. g.at = "tool" => g.claims[Cur(g)] \notin {"ask", "hold"}
    BY <1>2, <2>1 DEF Alone, Settled, Cleared
  <2>5. g.at = "settle" => ~Together(g) /\ g.outcomes[Cur(g)] = "failed"
    BY <2>1, <2>3 DEF Same, Cur
  <2> QED BY <2>3, <2>4, <2>5 DEF Here
<1>3. CASE Joins(f, g)
  <2>1. /\ f.at = "together" /\ Shaped(g) /\ Same(f, g) /\ g.at = "settle"
        /\ g.outcomes = [n \in DOMAIN f.batch |-> log[f.pos + n].value]
    BY <1>1, <1>3, Joining, Zenon DEF Joins
  <2>2. /\ DOMAIN f.batch = 1 .. Len(f.batch) /\ Cur(g) \in Nat \ {0} /\ g.batch = f.batch /\ g.first = f.first /\ Len(f.batch) \in Nat
    <3>1. DOMAIN f.batch = 1 .. Len(f.batch) /\ Len(f.batch) \in Nat
      BY <1>1, FrontTypes
    <3>2. Cur(g) \in Nat \ {0}
      BY <2>1, FrontTypes
    <3> QED BY <2>1, <3>1, <3>2 DEF Same
  <2>3. ASSUME NEW n \in Cur(g) .. Len(g.batch) PROVE Ran(g.first + n)'
    <3>1. n \in DOMAIN f.batch /\ n \in 1 .. Len(f.batch)
      BY <2>2
    <3>2. f.pos + n \in DOMAIN log
      BY <1>3, <3>1 DEF Joins
    <3>3. Ran(f.first + n)
      BY <2>1, <3>1, <3>2 DEF Here
    <3>4. f.first + n \in Calls
      BY <1>1, <3>1, Front
    <3> QED BY <2>2, <3>3, <3>4 DEF Grows
  <2> QED BY <2>1, <2>3 DEF Here
<1> QED BY <1>2, <1>3 DEF Walked

LEMMA HereRepeats ==
  ASSUME NEW S, NEW f, Replay(S, f), Here(f), Grows, Repeats(f)
  PROVE  Here(f)'
<1>1. Shaped(f)
  BY DEF Replay, Chain
<1>2. CASE UNCHANGED log
  BY <1>1, <1>2, HereStays
<1>3. CASE ~UNCHANGED log
  <2>1. PICK n \in DOMAIN f.batch : \E v \in {"executed", "failed"} :
          /\ f.at = "together" /\ f.pos + n \notin DOMAIN log /\ Recorded(f.pos + n, <<"tool", f.first + n>>, v)
          /\ Ran(f.first + n)'
    BY <1>3 DEF Repeats
  <2>2. DOMAIN log' = DOMAIN log \cup {f.pos + n}
    BY <2>1, RecordedAdds
  <2>3. f.pos \in Nat /\ DOMAIN f.batch = 1 .. Len(f.batch) /\ Len(f.batch) \in Nat
    BY <1>1, FrontTypes
  <2>4. ASSUME NEW m \in DOMAIN f.batch, f.pos + m \in DOMAIN log' PROVE Ran(f.first + m)'
    <3>1. CASE f.pos + m \in DOMAIN log
      <4>1. Ran(f.first + m) /\ f.first + m \in Calls
        BY <1>1, <2>1, <2>3, <3>1, Front DEF Here
      <4> QED BY <4>1 DEF Grows
    <3>2. CASE f.pos + m \notin DOMAIN log
      <4>1. m = n
        BY <2>2, <2>3, <2>4, <3>2
      <4> QED BY <2>1, <4>1
    <3> QED BY <3>1, <3>2
  <2> QED BY <2>1, <2>4 DEF Here
<1> QED BY <1>2, <1>3

LEMMA TruthMoves ==
  ASSUME NEW S, NEW f, Replay(S, f), Typed, Rows(f), Filed(f), Truth(f), NEW g, Shaped(g), Advances(f, g)
  PROVE  Truth(g)'
<1>1. /\ Grows
      /\ \/ Acts(f, g) \/ Heard(f, g) \/ Walked(f, g)
         \/ g = f /\ (Repeats(f) \/ Still(f) \/ (Closed /\ UNCHANGED <<log, engine, world>>) \/ Halting)
  BY Effects, Growing
<1>2. Yes /\ Rightly /\ Truly /\ Here(f)
  BY DEF Truth
<1>3. Yes' /\ Rightly' /\ Truly'
  BY <1>2, YesMoves, RightlyMoves, TrulyMoves
<1>4. CASE g = f /\ (Still(f) \/ (Closed /\ UNCHANGED <<log, engine, world>>) \/ Halting)
  <2>1. UNCHANGED log
    BY <1>4 DEF Still, Halting
  <2> QED BY <1>1, <1>2, <1>3, <1>4, <2>1, HereStays DEF Truth
<1>5. Here(g)'
  BY <1>1, <1>2, <1>4, HereActs, HereHeard, HereWalked, HereRepeats DEF Truth
<1> QED BY <1>3, <1>5 DEF Truth

-----------------------------------------------------------------------------
(***************************************************************************)
(* What the model was told and what its turns cost.                        *)
(***************************************************************************)
\* The loop is over and the run has not failed.
Finished(b) == b.at \in {"finish"} \cup After /\ ~b.failing

\* From f to g within a step of the loop.
Steady(f, g) ==
  /\ g.step = f.step /\ g.first = f.first
  /\ f.at # "llm" => g.batch = f.batch
  /\ f.at \notin Before => g.at \notin Before
  /\ f.failing => g.failing
  /\ f.at = "results" => g = f
  /\ Finished(f) => Finished(g) /\ g.results = f.results
  /\ Finished(g) => Finished(f) \/ (f.at = "assistant" /\ g.results = <<>>)
  /\ f.at = "gate" => g.at \in {"gate", "usage"}
  /\ f.at = "usage" => g.at = "usage" \/ (g.at = "bump" /\ db'.usage[f.step] > 0)
  /\ f.at = "bump" => g = f \/ db'.bumped[f.step] > 0

\* From a step that is told to the loop's end or its next step.
Tells(f, g) ==
  /\ f.at = "results" /\ db'.told = [db.told EXCEPT ![f.step] = f.results]
  /\ SameRows /\ db'.usage = db.usage /\ db'.bumped = db.bumped
  /\ \/ g = f
     \/ g.at = "finish" /\ Same(f, g)
     \/ /\ g.at = "head" /\ g.step = f.step + 1 /\ g.first = f.first + Len(f.batch)
        /\ g.batch = <<>> /\ g.claims = <<>> /\ g.results = <<>>

LEMMA SteadyLeads ==
  ASSUME NEW f, Shaped(f), NEW v, Wrote(f, v), db \in Db, NEW g, Leads(f, v, g), f.at \in Stepped, f.at # "results"
  PROVE  Steady(f, g)
<1>1. g.step = f.step /\ g.first = f.first /\ (f.at # "llm" => g.batch = f.batch)
  BY DEF Leads, Same, Settled
<1>2. f.at \notin Before => g.at \notin Before
  BY DEF Leads, Stepped, Before, After, Closing, Settled, Serving
<1>3. f.failing => g.failing
  BY DEF Leads, Shaped
<1>4. Finished(f) => Finished(g) /\ g.results = f.results
  BY DEF Leads, Finished, After, Closing, Same, Stepped
<1>5. Finished(g) => Finished(f) \/ (f.at = "assistant" /\ g.results = <<>>)
  <2> SUFFICES ASSUME Finished(g), ~Finished(f) PROVE f.at = "assistant" /\ g.results = <<>>
    OBVIOUS
  <2>1. f.at \notin {"finish", "fail"} \cup After
    BY DEF Leads, Finished, Shaped
  <2>2. f.at = "assistant"
    BY <2>1 DEF Leads, Finished, Stepped, After, Closing, Settled, Serving
  <2>3. f.claims = <<>> /\ g.results = f.results
    BY <2>2 DEF Shaped, Answering, Leads, Same, Before
  <2>4. Len(f.results) = 0 /\ f.results \in Seq(Final)
    <3>1. Len(f.results) \in Nat /\ Len(f.results) <= Len(f.claims) /\ f.results \in Seq(Final)
      BY Front
    <3> QED BY <2>3, <3>1
  <2>5. f.results = <<>>
    BY <2>4
  <2> QED BY <2>2, <2>3, <2>5
<1>6. f.at = "gate" => g.at \in {"gate", "usage"}
  BY DEF Leads
<1>7. f.step \in Steps
  BY Front
<1>8. f.at = "usage" => g.at = "bump" /\ db'.usage[f.step] > 0
  BY <1>7 DEF Leads, Wrote, Db
<1>9. f.at = "bump" => db'.bumped[f.step] > 0
  BY <1>7 DEF Wrote, Db
<1> QED BY <1>1, <1>2, <1>3, <1>4, <1>5, <1>6, <1>8, <1>9 DEF Steady

LEMMA SteadyStill ==
  ASSUME NEW f
  PROVE  Steady(f, f)
BY DEF Steady

LEMMA Course ==
  ASSUME NEW S, NEW f, Replay(S, f), Typed, NEW g, Shaped(g), Advances(f, g)
  PROVE  (Steady(f, g) /\ db'.told = db.told) \/ Tells(f, g)
<1>1. \/ Acts(f, g) \/ Heard(f, g) \/ Walked(f, g)
      \/ g = f /\ (Repeats(f) \/ Still(f) \/ (Closed /\ UNCHANGED <<log, engine, world>>) \/ Halting)
  BY Effects
<1>2. Shaped(f) /\ db \in Db
  BY DEF Replay, Chain, Typed
<1>3. CASE Acts(f, g)
  <2>1. PICK v \in Found(f) : f.at \in Stepped /\ Wrote(f, v) /\ (g = f \/ Leads(f, v, g))
    BY <1>3 DEF Acts
  <2>2. CASE f.at = "results"
    BY <2>1, <2>2 DEF Wrote, Tells, SameRows, Leads
  <2>3. CASE f.at # "results"
    BY <1>2, <2>1, <2>3, SteadyLeads, SteadyStill DEF Wrote
  <2> QED BY <2>2, <2>3
<1>4. CASE Heard(f, g)
  <2>1. PICK reply \in Told : g = Goes(f, reply)
    BY <1>4 DEF Heard
  <2>2. Same(f, g) /\ g.at \in {"tool", "decide", "settle"} /\ f.at \in Waits /\ ~f.failing
    <3>1. f.at \in Waits
      BY <1>4 DEF Heard
    <3>2. Same(f, g) /\ g.at \in {"tool", "decide", "settle"}
      BY <1>2, <2>1, <3>1, Waited, Zenon
    <3> QED BY <1>2, <3>1, <3>2 DEF Shaped, Waits, After, Closing
  <2> QED BY <1>4, <2>2 DEF Heard, Quiet, SameTold, Steady, Same, Waits, Before, Finished, After, Closing
<1>5. CASE Walked(f, g)
  <2>0. db'.told = db.told
    BY <1>5 DEF Walked, Quiet, SameTold
  <2>1. CASE f.at \in Alone /\ g = Moves(f)
    <3>1. /\ g.failing = f.failing
          /\ f.at # "receipt" => Same(f, g)
          /\ f.at = "head"    => g.at = "llm"
          /\ f.at = "check"   => g.at = "assistant"
          /\ f.at = "close"   => g.at \in {"over", "release"}
          /\ f.at = "receipt" => Settled(f, g)
          /\ f.at = "misasked" => g.at = "settle"
      BY <1>2, <2>1, Moving, Zenon
    <3> QED BY <2>0, <2>1, <3>1 DEF Alone, Steady, Same, Settled, Serving, Before, Finished, After, Closing
  <2>2. CASE Joins(f, g)
    <3>1. f.at = "together" /\ Same(f, g) /\ g.at = "settle" /\ ~g.failing
      BY <1>2, <2>2, Joining, Zenon DEF Joins
    <3>2. ~f.failing
      BY <1>2, <3>1 DEF Shaped, After, Closing
    <3> QED BY <2>0, <3>1, <3>2 DEF Steady, Same, Before, Finished, After, Closing
  <2> QED BY <1>5, <2>1, <2>2 DEF Walked
<1>6. CASE g = f /\ (Repeats(f) \/ Still(f) \/ (Closed /\ UNCHANGED <<log, engine, world>>) \/ Halting)
  BY <1>6, SteadyStill DEF Repeats, Reran, Still, Quiet, Closed, Halting, SameTold
<1> QED BY <1>1, <1>3, <1>4, <1>5, <1>6

\* The rows of the steps gone by have their last word.
LEMMA PastRows ==
  ASSUME NEW S, NEW f, Replay(S, f), Typed, Rows(f), NEW g, Advances(f, g), NEW c \in Calls, c <= f.first
  PROVE  db'.row[c] = db.row[c]
<1>1. \/ Acts(f, g) \/ Heard(f, g) \/ Walked(f, g)
      \/ g = f /\ (Repeats(f) \/ Still(f) \/ (Closed /\ UNCHANGED <<log, engine, world>>) \/ Halting)
  BY Effects
<1>2. Shaped(f) /\ db \in Db
  BY DEF Replay, Chain, Typed
<1>3. /\ f.first \in Nat /\ Len(f.results) \in Nat /\ Len(f.claims) \in Nat /\ c \in Int
      /\ Next1(f) = f.first + (Len(f.claims) + 1) /\ CallOf(f) = f.first + (Len(f.results) + 1)
  BY <1>2, Front, TurnAssumption DEF Next1, CallOf, Calls
<1>4. c <= f.first + Len(f.results) /\ c # Next1(f) /\ c # CallOf(f)
  BY <1>3
<1>5. db.row[c] # "pending_approval"
  BY <1>4 DEF Rows, Final, Outcomes
<1>6. CASE Acts(f, g)
  <2>1. PICK v \in Found(f) : Wrote(f, v)
    BY <1>6 DEF Acts
  <2>2. \/ db'.row = db.row
        \/ \E x : db'.row = [db.row EXCEPT ![Next1(f)] = x]
        \/ \E x : db'.row = [db.row EXCEPT ![CallOf(f)] = x]
        \/ db'.row = [d \in Calls |-> IF db.row[d] = "pending_approval" THEN "failed" ELSE db.row[d]]
    BY <2>1 DEF Wrote
  <2> QED BY <1>2, <1>4, <1>5, <2>2 DEF Db
<1>7. CASE Closed
  BY <1>5, <1>7 DEF Closed
<1> QED BY <1>1, <1>6, <1>7 DEF Heard, Walked, Repeats, Reran, Still, Halting, Quiet, SameRows

\* F numbers the steps by the call they begin after; what a step gone by told is what its rows say.
Numbered(f, F) ==
  /\ F \in [Steps -> 0 .. MaxCalls] /\ F[1] = 0 /\ F[f.step] = f.first
  /\ \A i \in Steps : i < f.step =>
       /\ F[i + 1] = F[i] + Len(db.told[i])
       /\ \A n \in DOMAIN db.told[i] : F[i] + n \in 1 .. f.first /\ db.row[F[i] + n] = db.told[i][n]
  /\ \A i \in Steps : i > f.step => db.told[i] = <<>>
  /\ db.told[f.step] = <<>> \/ (db.told[f.step] = f.results /\ (f.at = "results" \/ Finished(f)))
  /\ Finished(f) => db.told[f.step] = f.results

Telling(f) == \E F : Numbered(f, F)

LEMMA NumberedSteady ==
  ASSUME NEW f, Shaped(f), NEW F, Numbered(f, F), NEW g, Steady(f, g), db'.told = db.told,
         \A c \in Calls : c <= f.first => db'.row[c] = db.row[c]
  PROVE  Numbered(g, F)'
<1>1. g.step = f.step /\ g.first = f.first /\ f.first \in Nat /\ f.first <= MaxCalls /\ f.step \in Steps
  <2>1. f.first \in Nat /\ Len(f.batch) \in Nat /\ f.first + Len(f.batch) <= MaxCalls /\ f.step \in Steps /\ MaxCalls \in Nat
    BY Front
  <2> QED BY <2>1 DEF Steady
<1>2. \A i \in Steps : i < f.step =>
        /\ F[i + 1] = F[i] + Len(db.told[i])
        /\ \A n \in DOMAIN db.told[i] : F[i] + n \in 1 .. f.first /\ db'.row[F[i] + n] = db.told[i][n]
  <2> SUFFICES ASSUME NEW i \in Steps, i < f.step, NEW n \in DOMAIN db.told[i]
               PROVE  F[i] + n \in 1 .. f.first /\ db'.row[F[i] + n] = db.told[i][n]
    BY DEF Numbered
  <2> DEFINE c == F[i] + n
  <2>1. c \in 1 .. f.first /\ db.row[c] = db.told[i][n]
    BY DEF Numbered
  <2> HIDE DEF c
  <2>2. c \in Calls /\ c <= f.first
    BY <1>1, <2>1, TurnAssumption DEF Calls
  <2>3. c \in 1 .. f.first /\ db'.row[c] = db.told[i][n]
    BY <2>1, <2>2
  <2> QED BY <2>3 DEF c
<1>3. db.told[f.step] = <<>> \/ (db.told[f.step] = g.results /\ (g.at = "results" \/ Finished(g)))
  BY DEF Numbered, Steady
<1>4. Finished(g) => db.told[f.step] = g.results
  <2>1. CASE Finished(f)
    BY <2>1 DEF Numbered, Steady
  <2>2. CASE f.at = "assistant"
    <3>1. db.told[f.step] = <<>>
      BY <2>2 DEF Numbered, Finished, After, Closing
    <3>2. ~Finished(f)
      BY <2>2 DEF Finished, After, Closing
    <3> QED BY <3>1, <3>2 DEF Steady
  <2> QED BY <2>1, <2>2 DEF Steady
<1> QED BY <1>1, <1>2, <1>3, <1>4 DEF Numbered

\* The message of a step's results is written.
LEMMA NumberedTells ==
  ASSUME NEW f, Shaped(f), Rows(f), db \in Db, NEW F, Numbered(f, F), NEW g, Shaped(g), Tells(f, g)
  PROVE  Telling(g)'
<1>1. /\ f.first \in Nat /\ f.step \in Steps /\ Len(f.results) \in Nat /\ f.first + Len(f.results) <= MaxCalls
      /\ f.results \in Seq(Final) /\ Len(f.batch) = Len(f.results)
  <2>1. Len(f.results) = Len(f.batch)
    BY DEF Tells, Shaped, Whole
  <2> QED BY <2>1, Front
<1>2. /\ db'.told[f.step] = f.results /\ db'.row = db.row
      /\ \A i \in Steps : i # f.step => db'.told[i] = db.told[i]
  BY <1>1 DEF Tells, SameRows, Db
<1>3. Steps \subseteq Nat /\ 1 \in Steps /\ \A i \in Steps : i < f.step => i # f.step /\ i + 1 \in Steps /\ i + 1 <= f.step
  BY <1>1, TurnAssumption DEF Steps
<1>4. \A i \in Steps : i < f.step =>
        /\ F[i + 1] = F[i] + Len(db'.told[i])
        /\ \A n \in DOMAIN db'.told[i] : F[i] + n \in 1 .. f.first /\ db'.row[F[i] + n] = db'.told[i][n]
  BY SMTT(60), <1>2, <1>3 DEF Numbered
<1>5. F \in [Steps -> 0 .. MaxCalls] /\ F[1] = 0 /\ F[f.step] = f.first /\ \A i \in Steps : i > f.step => db'.told[i] = <<>>
  BY <1>2, <1>3 DEF Numbered
<1>6. CASE g = f \/ (g.at = "finish" /\ Same(f, g))
  <2>1. g.step = f.step /\ g.first = f.first /\ g.results = f.results /\ (g.at = "results" \/ Finished(g))
    <3>1. CASE g = f
      BY <3>1 DEF Tells
    <3>2. CASE g.at = "finish" /\ Same(f, g)
      BY <3>2 DEF Same, Finished, Shaped, After, Closing
    <3> QED BY <1>6, <3>1, <3>2
  <2> HIDE <1>6
  <2>2. Numbered(g, F)'
    BY <1>2, <1>4, <1>5, <2>1 DEF Numbered
  <2> QED BY <2>2 DEF Telling
<1>7. CASE g.at = "head" /\ g.step = f.step + 1 /\ g.first = f.first + Len(f.batch) /\ g.results = <<>>
  <2> DEFINE G == [F EXCEPT ![g.step] = g.first]
  <2>1. /\ g.step \in Steps /\ g.step \in Nat /\ f.step \in Nat /\ g.step = f.step + 1 /\ g.first \in Nat
        /\ g.first = f.first + Len(f.results) /\ g.first \in 0 .. MaxCalls
    <3>1. g.step \in Steps
      BY Front
    <3>2. g.first \in Nat
      BY Front
    <3>3. g.step \in Nat /\ f.step \in Nat
      BY <1>1, <1>3, <3>1
    <3>4. g.first = f.first + Len(f.results) /\ g.first <= MaxCalls
      BY <1>1, <1>7
    <3>5. g.first \in 0 .. MaxCalls
      BY <3>2, <3>4, TurnAssumption
    <3> QED BY <1>7, <3>1, <3>2, <3>3, <3>4, <3>5
  <2>2. G \in [Steps -> 0 .. MaxCalls] /\ G[g.step] = g.first /\ \A i \in Steps : i <= f.step => G[i] = F[i]
    BY <1>3, <1>5, <2>1
  <2> HIDE DEF G
  <2>3. G[1] = 0
    <3>1. 1 <= f.step
      BY <1>1, <1>3, TurnAssumption DEF Steps
    <3> QED BY <1>3, <1>5, <2>2, <3>1
  <2>4. ASSUME NEW i \in Steps, i < g.step
        PROVE  /\ G[i + 1] = G[i] + Len(db'.told[i])
               /\ \A n \in DOMAIN db'.told[i] : G[i] + n \in 1 .. g.first /\ db'.row[G[i] + n] = db'.told[i][n]
    <3>1. CASE i < f.step
      <4>1. G[i] = F[i] /\ G[i + 1] = F[i + 1]
        BY <1>3, <2>1, <2>2, <3>1
      <4>2. \A n \in DOMAIN db'.told[i] : F[i] + n \in 1 .. g.first
        BY <1>1, <1>4, <2>1, <3>1
      <4> QED BY <1>4, <3>1, <4>1, <4>2
    <3>2. CASE i = f.step
      <4>1. G[i] = f.first /\ G[i + 1] = f.first + Len(f.results) /\ db'.told[i] = f.results
        BY <1>2, <1>5, <2>1, <2>2, <3>2
      <4>2. \A n \in 1 .. Len(f.results) : f.first + n \in 1 .. g.first /\ db'.row[f.first + n] = f.results[n]
        BY <1>1, <1>2, <2>1 DEF Rows
      <4>3. DOMAIN f.results = 1 .. Len(f.results)
        BY <1>1
      <4> QED BY <4>1, <4>2, <4>3
    <3> QED BY <1>3, <2>1, <2>4, <3>1, <3>2
  <2>5. db'.told[g.step] = <<>> /\ \A i \in Steps : i > g.step => db'.told[i] = <<>>
    <3>1. \A i \in Steps : i > f.step => db'.told[i] = <<>>
      BY <1>5
    <3>2. g.step > f.step /\ \A i \in Steps : i > g.step => i > f.step
      BY <1>3, <2>1
    <3> QED BY <2>1, <3>1, <3>2, Zenon
  <2>6. ~Finished(g)
    BY <1>7 DEF Finished, After, Closing
  <2>7. Numbered(g, G)'
    BY <1>7, <2>1, <2>2, <2>3, <2>4, <2>5, <2>6 DEF Numbered
  <2> QED BY <2>7 DEF Telling
<1> QED BY <1>6, <1>7 DEF Tells

LEMMA TellingMoves ==
  ASSUME NEW S, NEW f, Replay(S, f), Typed, Rows(f), Telling(f), NEW g, Shaped(g), Advances(f, g)
  PROVE  Telling(g)'
<1>1. PICK F : Numbered(f, F)
  BY DEF Telling
<1>2. Shaped(f) /\ db \in Db
  BY DEF Replay, Chain, Typed
<1>3. CASE Steady(f, g) /\ db'.told = db.told
  <2>1. \A c \in Calls : c <= f.first => db'.row[c] = db.row[c]
    BY PastRows
  <2>2. Numbered(g, F)'
    BY <1>1, <1>2, <1>3, <2>1, NumberedSteady
  <2> QED BY <2>2 DEF Telling
<1>4. CASE Tells(f, g)
  BY <1>1, <1>2, <1>4, NumberedTells
<1> QED BY <1>3, <1>4, Course

\* Each model turn the journal holds: of a step gone by it was told and paid for; the frontier's own
\* is being paid for, or failed the run.
Spent(f) ==
  \A p \in DOMAIN log : \A i \in Steps : log[p].name = <<"llm", i>> =>
    /\ i <= f.step
    /\ i < f.step => /\ ~log[p].value.threw /\ Len(db.told[i]) = Len(log[p].value.calls)
                     /\ db.usage[i] > 0 /\ db.bumped[i] > 0
    /\ i = f.step => /\ f.at \notin Before
                     /\ log[p].value.threw => f.failing
                     /\ ~log[p].value.threw => /\ log[p].value.calls = f.batch
                                               /\ db.usage[i] > 0 \/ f.at \in {"gate", "usage"}
                                               /\ db.bumped[i] > 0 \/ f.at \in {"gate", "usage", "bump"}

Turned(f, g, v) == /\ f.at = "llm" /\ g.step = f.step
                   /\ v.threw => g.at = "fail"
                   /\ ~v.threw => g.at = "gate" /\ g.batch = v.calls

LEMMA NewEntry ==
  ASSUME NEW S, NEW f, Replay(S, f), Typed, NEW g, Advances(f, g), NEW p \in DOMAIN log', NEW i, log'[p].name = <<"llm", i>>
  PROVE  \/ p \in DOMAIN log /\ log'[p] = log[p]
         \/ i = f.step /\ Turned(f, g, log'[p].value)
<1>0. Shaped(f)
  BY DEF Replay, Chain
<1>1. \/ Acts(f, g) \/ Heard(f, g) \/ Walked(f, g)
      \/ g = f /\ (Repeats(f) \/ Still(f) \/ (Closed /\ UNCHANGED <<log, engine, world>>) \/ Halting)
  BY Effects
<1>2. CASE UNCHANGED log
  BY <1>2
<1>3. CASE Acts(f, g) /\ ~UNCHANGED log
  <2>1. PICK v : f.at \in Stepped /\ f.pos + 1 \notin DOMAIN log /\ Recorded(f.pos + 1, Asks(f), v) /\ Leads(f, v, g)
    BY <1>3 DEF Acts
  <2> DEFINE q == f.pos + 1
             name == Asks(f)
  <2>2. q \notin DOMAIN log /\ Recorded(q, name, v)
    BY <2>1
  <2> HIDE DEF q, name
  <2>3. (p \in DOMAIN log /\ log'[p] = log[p]) \/ (log'[p].name = name /\ log'[p].value = v)
    BY <2>2, RecordedAdds
  <2>4. CASE log'[p].name = name /\ log'[p].value = v
    <3>1. f.at = "llm"
      BY <1>0, <2>1, <2>4, OtherNames DEF name
    <3>2. Asks(f) = <<"llm", f.step>>
      BY <3>1, AtLlm
    <3>3. i = f.step
      BY <2>4, <3>2 DEF name
    <3>4. Turned(f, g, v)
      BY <2>1, <3>1 DEF Turned, Leads
    <3> QED BY <2>4, <3>3, <3>4
  <2> QED BY <2>3, <2>4
<1>4. CASE Heard(f, g)
  <2>1. PICK v : f.at \in Waits /\ f.pos + 1 \notin DOMAIN log /\ Recorded(f.pos + 1, Asks(f), v)
    BY <1>4 DEF Heard
  <2> DEFINE q == f.pos + 1
             name == Asks(f)
  <2>2. q \notin DOMAIN log /\ Recorded(q, name, v)
    BY <2>1
  <2>3. name # <<"llm", i>>
    BY <1>0, <2>1, OtherNames DEF Waits
  <2> HIDE DEF q, name
  <2> QED BY <2>2, <2>3, RecordedAdds
<1>5. CASE Repeats(f) /\ ~UNCHANGED log
  <2>1. PICK n \in DOMAIN f.batch : \E v \in {"executed", "failed"} :
          f.pos + n \notin DOMAIN log /\ Recorded(f.pos + n, <<"tool", f.first + n>>, v)
    BY <1>5 DEF Repeats
  <2> DEFINE q == f.pos + n
             name == <<"tool", f.first + n>>
  <2>2. name # <<"llm", i>>
    OBVIOUS
  <2>3. PICK v : q \notin DOMAIN log /\ Recorded(q, name, v)
    BY <2>1
  <2> HIDE DEF q, name
  <2> QED BY <2>2, <2>3, RecordedAdds
<1> QED BY <1>1, <1>2, <1>3, <1>4, <1>5 DEF Walked, Still, Halting

\* What was paid stays paid.
LEMMA PaidStays ==
  ASSUME NEW S, NEW f, Replay(S, f), Typed, NEW g, Advances(f, g), NEW i \in Steps
  PROVE  (db.usage[i] > 0 => db'.usage[i] > 0) /\ (db.bumped[i] > 0 => db'.bumped[i] > 0)
<1>1. \/ Acts(f, g) \/ Heard(f, g) \/ Walked(f, g)
      \/ g = f /\ (Repeats(f) \/ Still(f) \/ (Closed /\ UNCHANGED <<log, engine, world>>) \/ Halting)
  BY Effects
<1>2. CASE Acts(f, g)
  <2>1. PICK v : Wrote(f, v)
    BY <1>2 DEF Acts
  <2>2. db.usage \in [Steps -> Nat] /\ db.bumped \in [Steps -> Nat]
    BY DEF Typed, Db
  <2>3. db'.usage = db.usage \/ db'.usage = [db.usage EXCEPT ![f.step] = @ + 1]
    BY <2>1 DEF Wrote
  <2>4. db'.bumped = db.bumped \/ db'.bumped = [db.bumped EXCEPT ![f.step] = @ + 1]
    BY <2>1 DEF Wrote
  <2> QED BY <2>2, <2>3, <2>4
<1> QED BY <1>1, <1>2 DEF Heard, Walked, Repeats, Reran, Still, Closed, Halting, Quiet, SameTold

LEMMA SpentMoves ==
  ASSUME NEW S, NEW f, Replay(S, f), Typed, Spent(f), NEW g, Shaped(g), Advances(f, g)
  PROVE  Spent(g)'
<1>1. Shaped(f) /\ db \in Db /\ f.step \in Steps /\ g.step \in Steps /\ Steps \subseteq Nat
  <2>1. Shaped(f)
    BY DEF Replay, Chain
  <2> QED BY <2>1, Front, TurnAssumption DEF Typed, Steps
<1>2. (Steady(f, g) /\ db'.told = db.told) \/ Tells(f, g)
  BY Course
<1>3. SUFFICES ASSUME NEW p \in DOMAIN log', NEW i \in Steps, log'[p].name = <<"llm", i>>
               PROVE  /\ i <= g.step
                      /\ i < g.step => /\ ~log'[p].value.threw /\ Len(db'.told[i]) = Len(log'[p].value.calls)
                                       /\ db'.usage[i] > 0 /\ db'.bumped[i] > 0
                      /\ i = g.step => /\ g.at \notin Before
                                       /\ log'[p].value.threw => g.failing
                                       /\ ~log'[p].value.threw => /\ log'[p].value.calls = g.batch
                                                                  /\ db'.usage[i] > 0 \/ g.at \in {"gate", "usage"}
                                                                  /\ db'.bumped[i] > 0 \/ g.at \in {"gate", "usage", "bump"}
  BY DEF Spent
<1>4. CASE i = f.step /\ Turned(f, g, log'[p].value)
  <2>1. g.at = "fail" => g.failing
    BY DEF Shaped
  <2> QED BY <1>1, <1>4, <2>1 DEF Turned, Before
<1>5. CASE p \in DOMAIN log /\ log'[p] = log[p]
  <2> DEFINE v == log[p].value
  <2>1. /\ i <= f.step
        /\ i < f.step => ~v.threw /\ Len(db.told[i]) = Len(v.calls) /\ db.usage[i] > 0 /\ db.bumped[i] > 0
        /\ i = f.step => /\ f.at \notin Before
                         /\ v.threw => f.failing
                         /\ ~v.threw => /\ v.calls = f.batch
                                        /\ db.usage[i] > 0 \/ f.at \in {"gate", "usage"}
                                        /\ db.bumped[i] > 0 \/ f.at \in {"gate", "usage", "bump"}
    BY <1>3, <1>5 DEF Spent
  <2>2. log'[p].value = v
    BY <1>5
  <2> HIDE DEF v
  <2>3. (db.usage[i] > 0 => db'.usage[i] > 0) /\ (db.bumped[i] > 0 => db'.bumped[i] > 0)
    BY PaidStays
  <2>6. i < f.step \/ i = f.step
    <3>1. i <= f.step
      BY <2>1, Zenon
    <3>2. i \in Nat /\ f.step \in Nat
      BY <1>1
    <3> QED BY <3>1, <3>2
  <2>4. CASE Steady(f, g) /\ db'.told = db.told
    <3>1. g.step = f.step
      BY <2>4 DEF Steady
    <3>2. CASE i < f.step
      BY <1>1, <2>1, <2>2, <2>3, <2>4, <3>1, <3>2
    <3>3. CASE i = f.step
      <4>1. /\ f.at \notin Before /\ g.at \notin Before /\ g.batch = f.batch /\ (f.failing => g.failing)
        BY <2>1, <2>4, <3>3 DEF Steady, Before
      <4>2. ~v.threw => db'.usage[i] > 0 \/ g.at \in {"gate", "usage"}
        BY <2>1, <2>3, <2>4, <3>3 DEF Steady
      <4>3. ~v.threw => db'.bumped[i] > 0 \/ g.at \in {"gate", "usage", "bump"}
        BY <2>1, <2>3, <2>4, <3>3 DEF Steady
      <4>4. i <= g.step /\ ~(i < g.step)
        BY <1>1, <3>1, <3>3
      <4>5. (v.threw => g.failing) /\ (~v.threw => v.calls = g.batch)
        BY <2>1, <3>3, <4>1
      <4>6. /\ i <= g.step
            /\ i = g.step => /\ g.at \notin Before
                             /\ v.threw => g.failing
                             /\ ~v.threw => /\ v.calls = g.batch
                                            /\ db'.usage[i] > 0 \/ g.at \in {"gate", "usage"}
                                            /\ db'.bumped[i] > 0 \/ g.at \in {"gate", "usage", "bump"}
        BY <4>1, <4>2, <4>3, <4>4, <4>5, Zenon
      <4> QED BY <2>2, <4>4, <4>6, Zenon
    <3> QED BY <2>6, <3>2, <3>3
  <2>5. CASE Tells(f, g)
    <3>1. /\ f.at = "results" /\ ~f.failing /\ db'.told = [db.told EXCEPT ![f.step] = f.results]
          /\ Len(f.results) = Len(f.batch)
      BY <1>1, <2>5 DEF Tells, Shaped, After, Closing, Whole
    <3>2. db'.told[f.step] = f.results /\ \A k \in Steps : k # f.step => db'.told[k] = db.told[k]
      BY <1>1, <3>1 DEF Db
    <3>3. i = f.step => ~v.threw /\ v.calls = f.batch /\ db'.usage[i] > 0 /\ db'.bumped[i] > 0
      BY <2>1, <2>3, <3>1
    <3>4. i < f.step => Len(db'.told[i]) = Len(v.calls) /\ ~v.threw /\ db'.usage[i] > 0 /\ db'.bumped[i] > 0
      BY <1>1, <2>1, <2>3, <3>2
    <3>5. CASE g.step = f.step /\ g.batch = f.batch /\ g.at \notin Before
      BY <1>1, <2>1, <2>2, <3>3, <3>4, <3>5
    <3>6. CASE g.step = f.step + 1
      <4>1. i < g.step /\ i # g.step /\ i <= g.step
        <5>1. i \in Nat /\ f.step \in Nat
          BY <1>1
        <5> QED BY <2>6, <3>6, <5>1
      <4>2. i = f.step => Len(db'.told[i]) = Len(v.calls)
        BY <3>1, <3>2, <3>3
      <4>3. ~v.threw /\ Len(db'.told[i]) = Len(v.calls) /\ db'.usage[i] > 0 /\ db'.bumped[i] > 0
        BY <2>6, <3>3, <3>4, <4>2
      <4> QED BY <2>2, <4>1, <4>3, Zenon
    <3> QED BY <2>5, <3>1, <3>5, <3>6 DEF Tells, Same, Before
  <2> QED BY <1>2, <2>4, <2>5
<1> QED BY <1>3, <1>4, <1>5, NewEntry

-----------------------------------------------------------------------------
(***************************************************************************)
(* What is done again, and why.                                            *)
(***************************************************************************)
\* The places whose checkpoint has an effect that is counted, and what that does to the counts.
Paying == {"user", "usage", "bump", "assistant", "tool"}

Pays(f) ==
  /\ db'.users = db.users \/ (f.at = "user" /\ db'.users = db.users + 1)
  /\ db'.usage = db.usage \/ (f.at = "usage" /\ db'.usage = [db.usage EXCEPT ![f.step] = @ + 1])
  /\ db'.bumped = db.bumped \/ (f.at = "bump" /\ db'.bumped = [db.bumped EXCEPT ![f.step] = @ + 1])
  /\ db'.messages = db.messages \/ (f.at = "assistant" /\ db'.messages = [db.messages EXCEPT ![f.step] = @ + 1])
  /\ db'.ran = db.ran \/ (f.at = "tool" /\ db'.ran = [db.ran EXCEPT ![CallOf(f)] = @ + 1])

\* From which places the frontier comes to one, as far as the counts tell them apart.
Way(f, g) ==
  /\ g.at # "start"
  /\ g.at = "quota"     => f.at = "start"
  /\ g.at = "user"      => f.at = "quota"
  /\ g.at = "head"      => f.at \in {"user", "results"}
  /\ g.at = "llm"       => f.at = "head"
  /\ g.at = "gate"      => f.at = "llm"
  /\ g.at = "usage"     => f.at = "gate"
  /\ g.at = "bump"      => f.at = "usage"
  /\ g.at = "check"     => f.at = "bump"
  /\ g.at = "assistant" => f.at = "check"
  /\ \/ g.step = f.step /\ (g.at = "head" => f.at = "user")
     \/ g.step = f.step + 1 /\ g.at = "head"
  /\ g.at = "together"  => f.at = "claim"
  /\ g.at \in {"tool", "together"} =>
       /\ f.at \in {"claim", "decide", "receipt", "settle"} /\ g.first = f.first
       /\ f.at = "claim" => g.results = f.results /\ Len(g.claims) = Len(f.claims) + 1
       /\ f.at = "decide" => g.claims = f.claims /\ g.results = f.results
       /\ f.at \in {"receipt", "settle"} => /\ g.claims = f.claims /\ Len(g.results) = Len(f.results) + 1
                                            /\ ~Together(f)

\* The checkpoint of f has its effect, with a record or without.
Done(f, g) ==
  \E v : /\ f.at \in Stepped /\ Wrote(f, v) /\ f.pos + 1 \notin DOMAIN log
         /\ \/ Recorded(f.pos + 1, Asks(f), v) /\ Leads(f, v, g) /\ crashes' = crashes
            \/ UNCHANGED log /\ g = f /\ crashes' = crashes + 1

\* Nothing that is counted happens.
Idle(f, g) == SameTold /\ SameRan /\ crashes' = crashes /\ (g = f \/ (Way(f, g) /\ g.claims = f.claims /\ g.first = f.first))

LEMMA WayLeads ==
  ASSUME NEW f, Shaped(f), f.at \in Stepped, NEW v, NEW g, Leads(f, v, g)
  PROVE  Way(f, g)
<1>1. Shaped(g)
  BY DEF Leads
<1>2. f.at \in Paying \cup {"start", "quota", "llm", "gate", "pose", "present", "finish", "fail", "advance", "spawn", "restore", "release"}
        => Way(f, g)
  BY DEF Leads, Same, Way, Paying
<1>3. f.at = "claim" => Way(f, g)
  <2>1. f.claims \in Seq(ClaimsOf)
    BY Front
  <2>2. g.claims = Append(f.claims, v) => Len(g.claims) = Len(f.claims) + 1
    BY <2>1
  <2> QED BY <2>2 DEF Leads, Way
<1>4. f.at = "settle" => Way(f, g)
  <2>1. f.results \in Seq(Final)
    BY Front
  <2>2. g.results = Append(f.results, f.outcomes[Cur(f)]) => Len(g.results) = Len(f.results) + 1
    BY <2>1
  <2>3. Settled(f, g) /\ g.at = "tool" => ~Together(f)
    <3>1. Settled(f, g) => g.claims = f.claims
      BY DEF Settled
    <3>2. g.at = "tool" => ~Together(g)
      BY <1>1 DEF Shaped
    <3> QED BY <3>1, <3>2 DEF Together
  <2> QED BY <2>2, <2>3 DEF Leads, Way, Settled, Serving
<1>5. f.at = "results" => Way(f, g)
  BY DEF Leads, Same, Way
<1> QED BY <1>2, <1>3, <1>4, <1>5 DEF Stepped, Paying

LEMMA WayHeard ==
  ASSUME NEW f, Shaped(f), f.at \in Waits, NEW reply \in Told, NEW g, g = Goes(f, reply)
  PROVE  Way(f, g) /\ g.claims = f.claims /\ g.first = f.first
<1>1. Same(f, g) /\ g.at \in {"tool", "decide", "settle"} /\ (g.at = "tool" => f.at = "decide")
  BY Waited, Zenon
<1> QED BY <1>1 DEF Same, Way

LEMMA WayWalked ==
  ASSUME NEW f, Shaped(f), NEW g, (f.at \in Alone /\ g = Moves(f)) \/ Joins(f, g)
  PROVE  Way(f, g) /\ g.claims = f.claims /\ g.first = f.first
<1>1. CASE f.at \in Alone /\ g = Moves(f)
  <2>1. /\ Shaped(g)
        /\ f.at # "receipt" => Same(f, g)
        /\ f.at = "head"    => g.at = "llm"
        /\ f.at = "check"   => g.at = "assistant"
        /\ f.at = "close"   => g.at \in {"over", "release"}
        /\ f.at = "receipt" => Settled(f, g) /\ g.results = Append(f.results, RowOf[f.claims[Cur(f)]])
        /\ f.at = "misasked" => g.at = "settle"
    BY <1>1, Moving, Zenon
  <2>2. f.at = "receipt" => Len(g.results) = Len(f.results) + 1
    <3>1. f.results \in Seq(Final)
      BY Front
    <3> QED BY <2>1, <3>1
  <2>3. f.at = "receipt" => ~Together(f)
    BY DEF Shaped
  <2> QED BY <1>1, <2>1, <2>2, <2>3 DEF Alone, Same, Settled, Serving, Way
<1>2. CASE Joins(f, g)
  <2>1. Same(f, g) /\ g.at = "settle"
    BY <1>2, Joining, Zenon DEF Joins
  <2> QED BY <2>1 DEF Same, Way
<1> QED BY <1>1, <1>2

LEMMA Counting ==
  ASSUME NEW S, NEW f, Replay(S, f), Typed, NEW g, Shaped(g), Advances(f, g)
  PROVE  /\ LogGrows /\ db' \in Db /\ crashes' \in Nat
         /\ Done(f, g) \/ (g = f /\ (Runs(f) \/ (UNCHANGED log /\ Cuts(f)))) \/ Idle(f, g)
<1>1. LogGrows /\ db' \in Db /\ crashes' \in Nat
  BY Growing, Effects DEF Grows, Typed
<1>2. Shaped(f) /\ db \in Db /\ Around /\ crashes \in Nat
  BY DEF Replay, Chain, Typed
<1>3. CASE Takes(f, g) \/ (Loses(f) /\ g = f)
  <2>1. PICK v : /\ Does(f, v)
                 /\ \/ UNCHANGED crashes /\ Recorded(f.pos + 1, Asks(f), v) /\ g = Goes(f, v)
                    \/ UNCHANGED log /\ crashes < MaxCrashes /\ crashes' = crashes + 1 /\ g = f
    BY <1>3 DEF Takes, Loses
  <2>2. Wrote(f, v) /\ f.at \in Stepped /\ f.pos + 1 \notin DOMAIN log /\ v \in Found(f)
    BY <1>2, <2>1, Writing DEF Does
  <2>3. g = Goes(f, v) => Leads(f, v, g)
    BY <1>2, <2>2, Going
  <2> QED BY <1>1, <2>1, <2>2, <2>3 DEF Done
<1>4. CASE Hears(f, g)
  <2>1. PICK reply \in Told : f.at \in Waits /\ g = Goes(f, reply) /\ UNCHANGED <<db, crashes>>
    BY <1>4 DEF Hears
  <2>2. Way(f, g) /\ g.claims = f.claims /\ g.first = f.first
    BY <1>2, <2>1, WayHeard
  <2> QED BY <1>1, <2>1, <2>2 DEF Idle, SameTold, SameRan
<1>5. CASE Wanders(f, g) \/ Joins(f, g)
  <2>1. Way(f, g) /\ g.claims = f.claims /\ g.first = f.first
    BY <1>2, <1>5, WayWalked DEF Wanders
  <2>2. crashes' = crashes /\ db' \in {db, [db EXCEPT !.stream = "ended"]}
    BY <1>5 DEF Wanders, Joins
  <2>3. SameTold /\ SameRan
    BY <1>2, <2>2, StreamEnds DEF Quiet
  <2> QED BY <1>1, <2>1, <2>2, <2>3 DEF Idle
<1>6. CASE g = f /\ UNCHANGED log /\ Rests(f)
  <2>1. SUFFICES ASSUME ~Cuts(f) PROVE SameTold /\ SameRan /\ crashes' = crashes
    BY <1>1, <1>6 DEF Idle
  <2>2. CASE db' \in {db, [db EXCEPT !.stream = "ended"]} /\ UNCHANGED <<engine, crashes, world>>
    BY <1>2, <2>2, StreamEnds DEF Quiet
  <2>3. CASE Parks(f) \/ (\E b : Leaves(b)) \/ Tick \/ Admit \/ Signal
    BY <2>3 DEF Parks, Leaves, Tick, Admit, Signal, SameTold, SameRan
  <2>4. CASE RefuseDead
    BY <1>2, <2>4, CardsClose DEF RefuseDead, Closed
  <2>5. CASE Stop
    BY <1>2, <2>5, StopHalts DEF Halting, Replay
  <2> QED BY <1>6, <2>1, <2>2, <2>3, <2>4, <2>5 DEF Rests, People
<1> QED BY <1>1, <1>3, <1>4, <1>5, <1>6 DEF Advances

-----------------------------------------------------------------------------
\* What a step of the frontier does to the counts.
LEMMA Payments ==
  ASSUME NEW f, NEW g, Done(f, g) \/ Idle(f, g)
  PROVE  Pays(f)
<1>1. ASSUME NEW v, Wrote(f, v) PROVE Pays(f)
  BY <1>1 DEF Wrote, Pays
<1> QED BY <1>1 DEF Done, Idle, SameTold, SameRan, Pays

\* Overlapped reads run, none of them more than once.
Reruns(f) ==
  /\ f.at = "together" /\ SameTold
  /\ \A c \in Calls : \/ db'.ran[c] = db.ran[c]
                      \/ db'.ran[c] = db.ran[c] + 1 /\ c \in {f.first + n : n \in DOMAIN f.batch}

LEMMA Rerunning ==
  ASSUME NEW f, Shaped(f), db \in Db, Runs(f) \/ Cuts(f)
  PROVE  Reruns(f) \/ (SameTold /\ SameRan)
<1>1. PICK cut \in SUBSET {f.first + n : n \in DOMAIN f.batch} :
        /\ f.at # "together" => cut = {}
        /\ db' = [db EXCEPT !.ran = [c \in Calls |-> IF c \in cut THEN db.ran[c] + 1 ELSE db.ran[c]]]
  <2>1. CASE Cuts(f)
    BY <2>1 DEF Cuts
  <2>2. CASE Runs(f)
    <3>1. PICK n \in DOMAIN f.batch : f.at = "together" /\ db' = [db EXCEPT !.ran[f.first + n] = @ + 1]
      BY <2>2 DEF Runs
    <3>2. PICK call : call = f.first + n
      OBVIOUS
    <3>3. call \in Calls
      BY <3>1, <3>2, Front
    <3>4. db' = [db EXCEPT !.ran = [db.ran EXCEPT ![call] = db.ran[call] + 1]]
      BY <3>1, <3>2
    <3>5. [db.ran EXCEPT ![call] = db.ran[call] + 1] = [c \in Calls |-> IF c \in {call} THEN db.ran[c] + 1 ELSE db.ran[c]]
      BY <3>3 DEF Db
    <3>6. {call} \in SUBSET {f.first + k : k \in DOMAIN f.batch}
      BY <3>1, <3>2
    <3> QED BY <3>1, <3>4, <3>5, <3>6
  <2> QED BY <2>1, <2>2
<1>2. PICK ran : ran = [c \in Calls |-> IF c \in cut THEN db.ran[c] + 1 ELSE db.ran[c]]
  OBVIOUS
<1>3. db' = [db EXCEPT !.ran = ran]
  BY <1>1, <1>2
<1>4. db'.ran = ran /\ SameTold
  BY <1>3 DEF Db, SameTold
<1>5. cut = {} => ran = db.ran
  BY <1>2 DEF Db
<1>6. \A c \in Calls : ran[c] = db.ran[c] \/ (ran[c] = db.ran[c] + 1 /\ c \in cut)
  BY <1>2
<1> QED BY <1>1, <1>4, <1>5, <1>6 DEF Reruns, SameRan

-----------------------------------------------------------------------------
\* What the frontier has not come to is not yet done.
Unspent(f) ==
  /\ db.users > 0 => f.at \notin {"start", "quota"}
  /\ \A i \in Steps :
       /\ db.usage[i] > 0 => i <= f.step /\ (i = f.step => f.at \notin Before \cup {"gate"})
       /\ db.bumped[i] > 0 => i <= f.step /\ (i = f.step => f.at \notin Before \cup {"gate", "usage"})
       /\ db.messages[i] > 0 => i <= f.step /\ (i = f.step => f.at \notin Before \cup {"gate", "usage", "bump", "check"})

LEMMA UnspentMoves ==
  ASSUME NEW f, NEW g, f.step \in Steps, g.step \in Steps, db \in Db, Unspent(f), Pays(f), g = f \/ Way(f, g)
  PROVE  Unspent(g)'
<1>1. Steps \subseteq Nat
  BY TurnAssumption DEF Steps
<1>2. db.users \in Nat /\ (db'.users > 0 => g.at \notin {"start", "quota"})
  BY DEF Db, Unspent, Pays, Way
<1>3. \A i \in Steps : /\ db'.usage[i] > 0 => db.usage[i] > 0 \/ (i = f.step /\ f.at = "usage")
                       /\ db'.bumped[i] > 0 => db.bumped[i] > 0 \/ (i = f.step /\ f.at = "bump")
                       /\ db'.messages[i] > 0 => db.messages[i] > 0 \/ (i = f.step /\ f.at = "assistant")
  BY DEF Pays, Db
<1>4. /\ f.step \in Nat /\ g.step \in Nat
      /\ \/ g.step = f.step /\ (g = f \/ (Way(f, g) /\ (g.at = "head" => f.at = "user")))
         \/ g.step = f.step + 1
  BY <1>1 DEF Way
<1>5. \A i \in Steps : i \in Nat /\ (i <= f.step => i <= g.step /\ (i = g.step => i = f.step /\ g.step = f.step))
  <2> SUFFICES ASSUME NEW i \in Steps PROVE i \in Nat /\ (i <= f.step => i <= g.step /\ (i = g.step => i = f.step /\ g.step = f.step))
    OBVIOUS
  <2>1. i \in Nat
    BY <1>1
  <2>2. f.step \in Nat /\ g.step \in Nat /\ (g.step = f.step \/ g.step = f.step + 1)
    BY <1>4
  <2> QED BY <2>1, <2>2
<1>6. g.step = f.step =>
        /\ f.at \notin Before \cup {"gate"} => g.at \notin Before \cup {"gate"}
        /\ f.at \notin Before \cup {"gate", "usage"} => g.at \notin Before \cup {"gate", "usage"}
        /\ f.at \notin Before \cup {"gate", "usage", "bump", "check"} =>
             g.at \notin Before \cup {"gate", "usage", "bump", "check"}
  <2> SUFFICES ASSUME g.step = f.step, Way(f, g), g.at = "head" => f.at = "user"
               PROVE  /\ f.at \notin Before \cup {"gate"} => g.at \notin Before \cup {"gate"}
                      /\ f.at \notin Before \cup {"gate", "usage"} => g.at \notin Before \cup {"gate", "usage"}
                      /\ f.at \notin Before \cup {"gate", "usage", "bump", "check"} =>
                           g.at \notin Before \cup {"gate", "usage", "bump", "check"}
    <3>1. g.step = f.step => g.step # f.step + 1
      BY <1>4
    <3> QED BY <1>4, <3>1, Zenon
  <2> QED BY DEF Way, Before
<1>7. ASSUME NEW i \in Steps
      PROVE  /\ db'.usage[i] > 0 => i <= f.step /\ (i = f.step => f.at \notin Before \cup {"gate"})
             /\ db'.bumped[i] > 0 => i <= f.step /\ (i = f.step => f.at \notin Before \cup {"gate", "usage"})
             /\ db'.messages[i] > 0 => i <= f.step /\ (i = f.step => f.at \notin Before \cup {"gate", "usage", "bump", "check"})
  <2>1. i = f.step => i <= f.step
    BY <1>4
  <2>2. db.usage[i] > 0 \/ db.bumped[i] > 0 \/ db.messages[i] > 0 => i <= f.step
    BY DEF Unspent
  <2>3. /\ db.usage[i] > 0 => (i = f.step => f.at \notin Before \cup {"gate"})
        /\ db.bumped[i] > 0 => (i = f.step => f.at \notin Before \cup {"gate", "usage"})
        /\ db.messages[i] > 0 => (i = f.step => f.at \notin Before \cup {"gate", "usage", "bump", "check"})
    BY DEF Unspent
  <2>4. /\ "usage" \notin Before \cup {"gate"} /\ "bump" \notin Before \cup {"gate", "usage"}
        /\ "assistant" \notin Before \cup {"gate", "usage", "bump", "check"}
    BY DEF Before
  <2> QED BY <1>3, <2>1, <2>2, <2>3, <2>4, Zenon
<1>8. ASSUME NEW i \in Steps
      PROVE  /\ db'.usage[i] > 0 => i <= g.step /\ (i = g.step => g.at \notin Before \cup {"gate"})
             /\ db'.bumped[i] > 0 => i <= g.step /\ (i = g.step => g.at \notin Before \cup {"gate", "usage"})
             /\ db'.messages[i] > 0 => i <= g.step /\ (i = g.step => g.at \notin Before \cup {"gate", "usage", "bump", "check"})
  BY <1>5, <1>6, <1>7, Zenon
<1> QED BY <1>2, <1>8 DEF Unspent

-----------------------------------------------------------------------------
\* A call that the frontier comes to run has not run.
LEMMA FirstRun ==
  ASSUME NEW f, Shaped(f), Rows(f), NEW g, Shaped(g), Way(f, g), db'.ran = db.ran, f.at # "tool"
  PROVE  /\ g.at = "tool" => ~Ran(CallOf(g))'
         /\ g.at = "together" => \A n \in DOMAIN g.batch : ~Ran(g.first + n)'
<1>1. /\ f.first \in Nat /\ Len(f.results) \in Nat /\ Len(f.claims) \in Nat
      /\ Len(g.results) \in Nat /\ Len(g.claims) \in Nat /\ Len(g.batch) \in Nat /\ DOMAIN g.batch = 1 .. Len(g.batch)
      /\ \A n \in 1 .. Len(g.batch) : g.first + n \in Calls
  BY Front
<1>2. \A c : Ran(c)' = Ran(c)
  BY DEF Ran
<1>3. g.at \in {"tool", "together"} => /\ Len(g.claims) = Len(g.batch) /\ Len(g.results) < Len(g.batch)
                                       /\ g.first = f.first
  BY DEF Shaped, Serving, Way
<1>4. CallOf(g) = g.first + (Len(g.results) + 1)
  BY DEF CallOf, Cur
<1>5. \A n \in Nat : n > Len(f.claims) /\ f.first + n \in Calls => ~Ran(f.first + n)
  <2> SUFFICES ASSUME NEW n \in Nat, n > Len(f.claims), f.first + n \in Calls PROVE ~Ran(f.first + n)
    OBVIOUS
  <2>1. f.first + n > f.first + Len(f.claims)
    BY <1>1
  <2> QED BY <2>1 DEF Rows
<1>6. CASE f.at = "claim"
  <2>1. f.results = <<>> /\ Cur(f) = 1
    <3>1. f.results = <<>>
      BY <1>6 DEF Shaped
    <3> QED BY <3>1 DEF Cur
  <2>2. \A n \in 1 .. Len(f.claims) : ~Ran(f.first + n)
    BY <1>6, <2>1 DEF Rows, Opened
  <2>3. \A n \in 1 .. Len(g.batch) : g.first = f.first => ~Ran(f.first + n)
    <3> SUFFICES ASSUME NEW n \in 1 .. Len(g.batch), g.first = f.first PROVE ~Ran(f.first + n)
      OBVIOUS
    <3>1. n \in Nat /\ n >= 1 /\ f.first + n \in Calls
      BY <1>1
    <3>2. n \in 1 .. Len(f.claims) \/ n > Len(f.claims)
      BY <1>1, <3>1
    <3> QED BY <1>5, <2>2, <3>1, <3>2
  <2>4. g.at = "tool" => Len(g.results) + 1 \in 1 .. Len(g.batch)
    BY <1>1, <1>3
  <2> QED BY <1>1, <1>2, <1>3, <1>4, <2>3, <2>4
<1>7. CASE f.at = "decide"
  <2>1. Opened(f, Cur(f)) /\ CallOf(f) = f.first + Cur(f)
    BY <1>7, AtCall DEF Serving
  <2>2. ~Ran(f.first + Cur(f))
    BY <1>7, <2>1 DEF Opened
  <2>3. g.at = "tool" => CallOf(g) = f.first + Cur(f)
    BY <1>7 DEF Way, CallOf, Cur
  <2> QED BY <1>2, <1>7, <2>2, <2>3 DEF Way
<1>8. CASE f.at \in {"receipt", "settle"}
  <2> SUFFICES ASSUME g.at = "tool" PROVE ~Ran(CallOf(g))'
    BY <1>8 DEF Way
  <2>1. g.claims = f.claims /\ Len(g.results) = Len(f.results) + 1 /\ ~Together(f) /\ g.first = f.first
    BY <1>8 DEF Way
  <2> DEFINE n == Len(f.results) + 2
  <2>2. n \in Cur(f) .. Len(f.claims) /\ n # Cur(f) /\ CallOf(g) = f.first + n
    BY <1>1, <1>3, <1>4, <2>1 DEF Cur
  <2>3. Opened(f, n)
    BY <2>2 DEF Rows
  <2> HIDE DEF n
  <2>4. ~Ran(f.first + n)
    BY <1>8, <2>1, <2>2, <2>3 DEF Opened
  <2> QED BY <1>2, <2>2, <2>4
<1> QED BY <1>6, <1>7, <1>8 DEF Way

-----------------------------------------------------------------------------
\* What is counted of a deed.
Unread == Deeds \ ({"tool"} \X ReadCalls)

LEMMA TimesOf ==
  /\ Times(<<"user">>) = db.users /\ Times(<<"user">>)' = db'.users
  /\ \A i : /\ Times(<<"usage", i>>) = db.usage[i] /\ Times(<<"usage", i>>)' = db'.usage[i]
            /\ Times(<<"bump", i>>) = db.bumped[i] /\ Times(<<"bump", i>>)' = db'.bumped[i]
            /\ Times(<<"assistant", i>>) = db.messages[i] /\ Times(<<"assistant", i>>)' = db'.messages[i]
            /\ Times(<<"tool", i>>) = db.ran[i] /\ Times(<<"tool", i>>)' = db'.ran[i]
BY DEF Times

LEMMA DeedKinds ==
  ASSUME NEW e \in Deeds
  PROVE  \/ e = <<"user">>
         \/ \E i \in Steps : e = <<"usage", i>> \/ e = <<"bump", i>> \/ e = <<"assistant", i>>
         \/ \E c \in Calls : e = <<"tool", c>>
BY DEF Deeds

LEMMA TimesTyped ==
  ASSUME db \in Db, NEW e \in Deeds
  PROVE  Times(e) \in Nat
<1>1. CASE e = <<"user">>
  BY <1>1, TimesOf DEF Db
<1>2. ASSUME NEW i \in Steps, e = <<"usage", i>> \/ e = <<"bump", i>> \/ e = <<"assistant", i>> PROVE Times(e) \in Nat
  <2>1. db.usage[i] \in Nat /\ db.bumped[i] \in Nat /\ db.messages[i] \in Nat
    BY DEF Db
  <2> QED BY <1>2, <2>1, TimesOf
<1>3. ASSUME NEW c \in Calls, e = <<"tool", c>> PROVE Times(e) \in Nat
  <2>1. db.ran[c] \in Nat
    BY DEF Db
  <2> QED BY <1>3, <2>1, TimesOf
<1> QED BY <1>1, <1>2, <1>3, DeedKinds

LEMMA AsksOf ==
  ASSUME NEW f
  PROVE  /\ f.at = "user" => Asks(f) = <<"user">>
         /\ f.at = "usage" => Asks(f) = <<"usage", f.step>>
         /\ f.at = "bump" => Asks(f) = <<"bump", f.step>>
         /\ f.at = "assistant" => Asks(f) = <<"assistant", f.step>>
         /\ f.at = "tool" => Asks(f) = <<"tool", CallOf(f)>>
BY AtUser, AtUsage, AtBump, AtAssistant, AtTool

LEMMA ReadsStay ==
  ASSUME LogGrows
  PROVE  ReadCalls \subseteq ReadCalls' /\ Unread' \subseteq Unread
<1>1. ReadCalls \subseteq ReadCalls'
  BY DEF ReadCalls, LogGrows
<1>2. Deeds' = Deeds
  BY DEF Deeds
<1> QED BY <1>1, <1>2 DEF Unread

\* A step has the effect its frontier asks for, once, and no other.
LEMMA OneDeed ==
  ASSUME NEW f, db \in Db, Pays(f), f.step \in Steps, f.at = "tool" => CallOf(f) \in Calls
  PROVE  \A e \in Deeds : Times(e)' = Times(e) \/ (f.at \in Paying /\ e = Asks(f) /\ Times(e)' = Times(e) + 1)
<1> SUFFICES ASSUME NEW e \in Deeds, Times(e)' # Times(e)
             PROVE  f.at \in Paying /\ e = Asks(f) /\ Times(e)' = Times(e) + 1
  OBVIOUS
<1>1. CASE e = <<"user">>
  BY <1>1, TimesOf, AsksOf DEF Pays, Paying
<1>2. ASSUME NEW i \in Steps, e = <<"usage", i>> PROVE f.at \in Paying /\ e = Asks(f) /\ Times(e)' = Times(e) + 1
  <2>1. db'.usage[i] # db.usage[i] /\ f.at = "usage" /\ db'.usage = [db.usage EXCEPT ![f.step] = @ + 1]
    BY <1>2, TimesOf DEF Pays
  <2>2. i = f.step /\ db'.usage[i] = db.usage[i] + 1
    BY <2>1 DEF Db
  <2> QED BY <1>2, <2>1, <2>2, TimesOf, AsksOf DEF Paying
<1>3. ASSUME NEW i \in Steps, e = <<"bump", i>> PROVE f.at \in Paying /\ e = Asks(f) /\ Times(e)' = Times(e) + 1
  <2>1. db'.bumped[i] # db.bumped[i] /\ f.at = "bump" /\ db'.bumped = [db.bumped EXCEPT ![f.step] = @ + 1]
    BY <1>3, TimesOf DEF Pays
  <2>2. i = f.step /\ db'.bumped[i] = db.bumped[i] + 1
    BY <2>1 DEF Db
  <2> QED BY <1>3, <2>1, <2>2, TimesOf, AsksOf DEF Paying
<1>4. ASSUME NEW i \in Steps, e = <<"assistant", i>> PROVE f.at \in Paying /\ e = Asks(f) /\ Times(e)' = Times(e) + 1
  <2>1. /\ db'.messages[i] # db.messages[i] /\ f.at = "assistant"
        /\ db'.messages = [db.messages EXCEPT ![f.step] = @ + 1]
    BY <1>4, TimesOf DEF Pays
  <2>2. i = f.step /\ db'.messages[i] = db.messages[i] + 1
    BY <2>1 DEF Db
  <2> QED BY <1>4, <2>1, <2>2, TimesOf, AsksOf DEF Paying
<1>5. ASSUME NEW c \in Calls, e = <<"tool", c>> PROVE f.at \in Paying /\ e = Asks(f) /\ Times(e)' = Times(e) + 1
  <2>1. db'.ran[c] # db.ran[c] /\ f.at = "tool" /\ db'.ran = [db.ran EXCEPT ![CallOf(f)] = @ + 1]
    BY <1>5, TimesOf DEF Pays
  <2>2. c = CallOf(f) /\ db'.ran[c] = db.ran[c] + 1
    <3>1. PICK call \in Calls : call = CallOf(f)
      BY <2>1
    <3> QED BY <2>1, <3>1 DEF Db
  <2> QED BY <1>5, <2>1, <2>2, TimesOf, AsksOf DEF Paying
<1> QED BY <1>1, <1>2, <1>3, <1>4, <1>5, DeedKinds

\* A repetition more for a deed that is done once more, if it was done before.
LEMMA RepetitionsStay ==
  ASSUME Unread' \subseteq Unread, \A e \in Unread' : Times(e)' = Times(e)
  PROVE  Repetitions' \subseteq Repetitions
<1> SUFFICES ASSUME NEW x \in Repetitions' PROVE x \in Repetitions
  OBVIOUS
<1>1. PICK e \in Unread' : x \in {<<e, n>> : n \in 2 .. Times(e)'}
  BY DEF Repetitions, Unread
<1>2. x \in {<<e, n>> : n \in 2 .. Times(e)} /\ e \in Unread
  BY <1>1
<1> QED BY <1>2 DEF Repetitions, Unread

LEMMA RepetitionsGrow ==
  ASSUME Unread' \subseteq Unread, db \in Db, NEW d,
         \A e \in Deeds : Times(e)' = Times(e) \/ (e = d /\ Times(e)' = Times(e) + 1)
  PROVE  /\ Repetitions' \subseteq Repetitions \cup {<<d, Times(d) + 1>>}
         /\ d \notin Unread \/ Times(d) = 0 => Repetitions' \subseteq Repetitions
<1> SUFFICES ASSUME NEW x \in Repetitions'
             PROVE  x \in Repetitions \/ (x = <<d, Times(d) + 1>> /\ d \in Unread /\ Times(d) # 0)
  OBVIOUS
<1>1. PICK e \in Unread' : x \in {<<e, n>> : n \in 2 .. Times(e)'}
  BY DEF Repetitions, Unread
<1>2. PICK n \in 2 .. Times(e)' : x = <<e, n>>
  BY <1>1
<1>3. e \in Unread /\ e \in Deeds /\ Times(e) \in Nat
  BY <1>1, TimesTyped DEF Unread
<1>4. PICK t \in Nat : t = Times(e)
  BY <1>3
<1>5. CASE n \in 2 .. Times(e)
  BY <1>2, <1>3, <1>5 DEF Repetitions, Unread
<1>6. CASE n \notin 2 .. Times(e)
  <2>1. e = d /\ Times(e)' = t + 1
    BY <1>3, <1>4, <1>6
  <2>2. n = t + 1 /\ t # 0
    BY <1>4, <1>6, <2>1
  <2> QED BY <1>2, <1>3, <1>4, <2>1, <2>2
<1> QED BY <1>5, <1>6

-----------------------------------------------------------------------------
\* The step's calls that were claimed as reads are so in the journal.
Known(f) == \A n \in 1 .. Len(f.claims) : f.claims[n] = "read" => f.first + n \in ReadCalls

LEMMA KnownMoves ==
  ASSUME NEW f, Shaped(f), Known(f), LogGrows, NEW g, Shaped(g), Done(f, g) \/ g = f \/ Idle(f, g)
  PROVE  Known(g)'
<1>1. ReadCalls \subseteq ReadCalls'
  BY ReadsStay
<1>2. CASE g.claims = f.claims /\ g.first = f.first
  BY <1>1, <1>2 DEF Known
<1>3. CASE g.claims = <<>>
  BY <1>3 DEF Known
<1>4. ASSUME NEW v, f.at = "claim", f.pos + 1 \notin DOMAIN log, Recorded(f.pos + 1, Asks(f), v),
             g.first = f.first, g.claims = Append(f.claims, v)
      PROVE  Known(g)'
  <2> DEFINE n == Len(f.claims) + 1
             p == f.pos + 1
  <2>1. f.claims \in Seq(ClaimsOf) /\ Len(f.claims) \in Nat /\ f.first + n \in Calls
    <3>1. n \in 1 .. Len(f.batch)
      <4>1. Len(f.claims) < Len(f.batch)
        BY <1>4 DEF Shaped
      <4> QED BY <4>1, Front
    <3> QED BY <3>1, Front
  <2>2. log'[p].name = <<"toolcall", f.first + n>> /\ log'[p].value = v /\ p \in DOMAIN log'
    <3>1. Asks(f) = <<"toolcall", f.first + n>>
      BY <1>4, AtClaim
    <3> QED BY <1>4, <3>1, RecordedAdds
  <2>3. v = "read" => f.first + n \in ReadCalls'
    BY <2>1, <2>2 DEF ReadCalls
  <2> HIDE DEF n, p
  <2>4. Len(g.claims) = n /\ g.claims[n] = v /\ \A k \in 1 .. n : k # n => k \in 1 .. Len(f.claims) /\ g.claims[k] = f.claims[k]
    BY <1>4, <2>1 DEF n
  <2>5. ASSUME NEW k \in 1 .. Len(g.claims), g.claims[k] = "read" PROVE g.first + k \in ReadCalls'
    <3>1. CASE k = n
      BY <1>4, <2>3, <2>4, <2>5, <3>1
    <3>2. CASE k # n
      BY <1>1, <1>4, <2>4, <2>5, <3>2 DEF Known
    <3> QED BY <3>1, <3>2
  <2> QED BY <2>5 DEF Known
<1>5. CASE Done(f, g)
  <2>1. PICK v : /\ f.at \in Stepped /\ f.pos + 1 \notin DOMAIN log
                 /\ g = f \/ (Recorded(f.pos + 1, Asks(f), v) /\ Leads(f, v, g))
    BY <1>5 DEF Done
  <2> QED BY <1>2, <1>3, <1>4, <2>1 DEF Leads, Same, Settled
<1> QED BY <1>2, <1>5 DEF Idle

-----------------------------------------------------------------------------
\* A call ran at most once more than the run was cut; the one at hand has not yet.
Retried(f) ==
  /\ \A c \in Calls : db.ran[c] <= crashes + 1
  /\ f.at = "tool" => db.ran[CallOf(f)] <= crashes
  /\ f.at = "together" => \A n \in DOMAIN f.batch : f.pos + n \notin DOMAIN log => db.ran[f.first + n] <= crashes

LEMMA RetriedSteps ==
  ASSUME NEW f, Shaped(f), Rows(f), Retried(f), NEW g, Shaped(g), Way(f, g), Pays(f),
         db \in Db, db' \in Db, crashes \in Nat, crashes' = crashes
  PROVE  Retried(g)'
<1>1. /\ g.at = "tool" => CallOf(g) \in Calls
      /\ g.at = "together" => \A n \in DOMAIN g.batch : g.first + n \in Calls
      /\ f.at = "tool" => CallOf(f) \in Calls
  BY Front, FrontTypes DEF Serving
<1>2. \A c \in Calls : db.ran[c] \in Nat /\ db'.ran[c] \in Nat
  BY DEF Db
<1>3. g.at \in {"tool", "together"} => f.at # "tool" /\ db'.ran = db.ran
  BY DEF Way, Pays
<1>4. \A c \in Calls : ~Ran(c)' => db'.ran[c] <= crashes'
  BY <1>2 DEF Ran
<1>5. /\ g.at = "tool" => db'.ran[CallOf(g)] <= crashes'
      /\ g.at = "together" => \A n \in DOMAIN g.batch : db'.ran[g.first + n] <= crashes'
  BY <1>1, <1>3, <1>4, FirstRun
<1>6. ASSUME NEW c \in Calls PROVE db'.ran[c] <= crashes' + 1
  <2>1. CASE db'.ran = db.ran
    BY <2>1 DEF Retried
  <2>2. CASE f.at = "tool" /\ db'.ran = [db.ran EXCEPT ![CallOf(f)] = @ + 1]
    <3>1. PICK call \in Calls : call = CallOf(f)
      BY <1>1, <2>2
    <3>2. db.ran[call] <= crashes /\ db.ran[c] <= crashes + 1
      BY <2>2, <3>1 DEF Retried
    <3>3. db'.ran[c] = IF c = call THEN db.ran[c] + 1 ELSE db.ran[c]
      BY <2>2, <3>1 DEF Db
    <3> QED BY <1>2, <3>2, <3>3
  <2> QED BY <2>1, <2>2 DEF Pays
<1> QED BY <1>5, <1>6 DEF Retried

LEMMA RetriedCuts ==
  ASSUME NEW f, Shaped(f), Retried(f), db \in Db, crashes \in Nat, crashes' = crashes + 1, LogGrows,
         \A c \in Calls : db'.ran[c] = db.ran[c] \/ db'.ran[c] = db.ran[c] + 1
  PROVE  Retried(f)'
<1>1. /\ f.at = "tool" => CallOf(f) \in Calls
      /\ f.at = "together" => \A n \in DOMAIN f.batch : f.first + n \in Calls
  BY Front, FrontTypes DEF Serving
<1>2. \A c \in Calls : db.ran[c] \in Nat
  BY DEF Db
<1>3. \A c \in Calls : db.ran[c] <= crashes => db'.ran[c] <= crashes'
  BY <1>2
<1>4. \A c \in Calls : db.ran[c] <= crashes + 1 => db'.ran[c] <= crashes' + 1
  BY <1>2
<1>5. DOMAIN log \subseteq DOMAIN log'
  BY DEF LogGrows
<1>6. f.at = "tool" => db'.ran[CallOf(f)] <= crashes'
  BY <1>1, <1>3 DEF Retried
<1>7. f.at = "together" => \A n \in DOMAIN f.batch : f.pos + n \notin DOMAIN log' => db'.ran[f.first + n] <= crashes'
  BY <1>1, <1>3, <1>5 DEF Retried
<1>8. \A c \in Calls : db'.ran[c] <= crashes' + 1
  BY <1>4 DEF Retried
<1> QED BY <1>6, <1>7, <1>8 DEF Retried

LEMMA RetriedRuns ==
  ASSUME NEW f, Shaped(f), Retried(f), db \in Db, crashes \in Nat, crashes' = crashes, LogGrows, Runs(f)
  PROVE  Retried(f)'
<1>1. PICK n \in DOMAIN f.batch :
        /\ f.pos + n \notin DOMAIN log
        /\ db' = [db EXCEPT !.ran[f.first + n] = @ + 1]
        /\ \E v : Recorded(f.pos + n, <<"tool", f.first + n>>, v)
  <2>1. crashes' # crashes + 1
    OBVIOUS
  <2> QED BY <2>1 DEF Runs
<1>2. f.at = "together"
  BY DEF Runs
<1>3. PICK call \in Calls : call = f.first + n
  BY Front
<1>4. db' = [db EXCEPT !.ran = [db.ran EXCEPT ![call] = db.ran[call] + 1]]
  BY <1>1, <1>3
<1>5. \A c \in Calls : db.ran[c] \in Nat /\ db'.ran[c] = IF c = call THEN db.ran[c] + 1 ELSE db.ran[c]
  BY <1>3, <1>4 DEF Db
<1>6. db.ran[call] <= crashes
  BY <1>1, <1>2, <1>3 DEF Retried
<1>7. \A c \in Calls : db'.ran[c] <= crashes' + 1
  BY <1>5, <1>6 DEF Retried
<1>8. f.pos + n \in DOMAIN log' /\ DOMAIN log \subseteq DOMAIN log'
  <2>1. PICK v : Recorded(f.pos + n, <<"tool", f.first + n>>, v)
    BY <1>1
  <2>2. PICK p : p = f.pos + n
    OBVIOUS
  <2>3. DOMAIN log' = DOMAIN log \cup {p}
    BY <1>1, <2>1, <2>2, RecordedAdds
  <2> QED BY <2>2, <2>3
<1>9. ASSUME NEW k \in DOMAIN f.batch, f.pos + k \notin DOMAIN log' PROVE db'.ran[f.first + k] <= crashes'
  <2>1. k # n /\ f.pos + k \notin DOMAIN log
    BY <1>8, <1>9
  <2>2. f.first + k \in Calls /\ f.first + k # call
    <3>1. f.first \in Nat /\ k \in Nat /\ n \in Nat /\ f.first + k \in Calls
      BY Front
    <3> QED BY <1>3, <2>1, <3>1
  <2>3. db.ran[f.first + k] <= crashes
    BY <1>2, <2>1 DEF Retried
  <2> QED BY <1>5, <2>2, <2>3
<1> QED BY <1>2, <1>7, <1>9 DEF Retried

LEMMA RetriedMoves ==
  ASSUME NEW S, NEW f, Replay(S, f), Typed, Rows(f), Retried(f), NEW g, Shaped(g), Advances(f, g)
  PROVE  Retried(g)'
<1>1. Shaped(f) /\ db \in Db /\ crashes \in Nat
  BY DEF Replay, Chain, Typed
<1>2. /\ LogGrows /\ db' \in Db /\ crashes' \in Nat
      /\ Done(f, g) \/ (g = f /\ (Runs(f) \/ (UNCHANGED log /\ Cuts(f)))) \/ Idle(f, g)
  BY Counting
<1>3. CASE Done(f, g)
  <2>1. PICK v : /\ f.at \in Stepped
                 /\ \/ Leads(f, v, g) /\ crashes' = crashes
                    \/ g = f /\ crashes' = crashes + 1
    BY <1>3 DEF Done
  <2>2. Pays(f)
    BY <1>3, Payments
  <2>3. CASE Leads(f, v, g) /\ crashes' = crashes
    BY <1>1, <1>2, <2>1, <2>2, <2>3, WayLeads, RetriedSteps
  <2>4. CASE g = f /\ crashes' = crashes + 1
    <3>1. \A c \in Calls : db'.ran[c] = db.ran[c] \/ db'.ran[c] = db.ran[c] + 1
      BY <1>1, <2>2 DEF Pays, Db
    <3> QED BY <1>1, <1>2, <2>4, <3>1, RetriedCuts
  <2> QED BY <2>1, <2>3, <2>4
<1>4. CASE g = f /\ (Runs(f) \/ Cuts(f))
  <2>1. crashes' = crashes \/ crashes' = crashes + 1
    BY <1>4 DEF Runs, Cuts
  <2>2. CASE crashes' = crashes
    <3>1. ~Cuts(f)
      BY <1>1, <2>2 DEF Cuts
    <3> QED BY <1>1, <1>2, <1>4, <2>2, <3>1, RetriedRuns
  <2>3. CASE crashes' = crashes + 1
    <3>1. \A c \in Calls : db'.ran[c] = db.ran[c] \/ db'.ran[c] = db.ran[c] + 1
      BY <1>1, <1>4, Rerunning DEF Reruns, SameRan
    <3> QED BY <1>1, <1>2, <1>4, <2>3, <3>1, RetriedCuts
  <2> QED BY <2>1, <2>2, <2>3
<1>5. CASE Idle(f, g)
  <2>1. crashes' = crashes /\ db'.ran = db.ran
    BY <1>5 DEF Idle, SameRan
  <2>2. CASE g = f
    BY <1>2, <2>1, <2>2 DEF Retried, LogGrows
  <2>3. CASE Way(f, g)
    BY <1>1, <1>2, <1>5, <2>1, <2>3, Payments, RetriedSteps
  <2> QED BY <1>5, <2>2, <2>3 DEF Idle
<1> QED BY <1>2, <1>3, <1>4, <1>5

-----------------------------------------------------------------------------
\* The effect the frontier is about to have was cut from its record before.
Owed(f) == f.at \in Paying /\ Asks(f) \in Unread /\ Times(Asks(f)) > 0

\* Each repetition was paid for by a crash; one more crash has cut what the frontier will repeat.
Counted(f) ==
  \E R : /\ IsFiniteSet(R) /\ Repetitions \subseteq R
         /\ Cardinality(R) <= crashes /\ (Owed(f) => Cardinality(R) < crashes)

LEMMA NothingOwed ==
  ASSUME NEW f, Shaped(f), Rows(f), Unspent(f), db \in Db, Pays(f), NEW g, Shaped(g), Way(f, g)
  PROVE  ~Owed(g)'
<1>1. f.step \in Steps /\ (g.at \in Paying => g.step = f.step)
  BY Front DEF Way, Paying
<1>2. CASE g.at = "user"
  <2>1. f.at = "quota" /\ db.users \in Nat
    BY <1>2 DEF Way, Db
  <2>2. db'.users = 0
    BY <2>1 DEF Pays, Unspent
  <2> QED BY <1>2, <2>2, AsksOf, TimesOf DEF Owed
<1>3. CASE g.at = "usage"
  <2>1. f.at = "gate" /\ db.usage[f.step] \in Nat
    BY <1>1, <1>3 DEF Way, Db
  <2>2. db'.usage[g.step] = 0
    BY <1>1, <1>3, <2>1 DEF Pays, Unspent, Paying
  <2> QED BY <1>3, <2>2, AsksOf, TimesOf DEF Owed
<1>4. CASE g.at = "bump"
  <2>1. f.at = "usage" /\ db.bumped[f.step] \in Nat
    BY <1>1, <1>4 DEF Way, Db
  <2>2. db'.bumped[g.step] = 0
    BY <1>1, <1>4, <2>1 DEF Pays, Unspent, Paying
  <2> QED BY <1>4, <2>2, AsksOf, TimesOf DEF Owed
<1>5. CASE g.at = "assistant"
  <2>1. f.at = "check" /\ db.messages[f.step] \in Nat
    BY <1>1, <1>5 DEF Way, Db
  <2>2. db'.messages[g.step] = 0
    BY <1>1, <1>5, <2>1 DEF Pays, Unspent, Paying
  <2> QED BY <1>5, <2>2, AsksOf, TimesOf DEF Owed
<1>6. CASE g.at = "tool"
  <2>1. f.at # "tool" /\ db'.ran = db.ran
    BY <1>6 DEF Way, Pays
  <2>2. ~Ran(CallOf(g))'
    BY <1>6, <2>1, FirstRun
  <2>3. ~(db'.ran[CallOf(g)] > 0)
    BY <2>2 DEF Ran
  <2> QED BY <1>6, <2>3, AsksOf, TimesOf DEF Owed
<1> QED BY <1>2, <1>3, <1>4, <1>5, <1>6 DEF Owed, Paying

LEMMA CountedStays ==
  ASSUME NEW f, Counted(f), Repetitions' \subseteq Repetitions, crashes \in Nat, NEW g,
         \/ crashes' = crashes /\ (Owed(g)' => Owed(f))
         \/ crashes' = crashes + 1
  PROVE  Counted(g)'
<1>1. PICK R : /\ IsFiniteSet(R) /\ Repetitions \subseteq R
               /\ Cardinality(R) <= crashes /\ (Owed(f) => Cardinality(R) < crashes)
  BY DEF Counted
<1>2. Repetitions' \subseteq R
  BY <1>1
<1>3. PICK k \in Nat : k = Cardinality(R)
  BY <1>1, FS_CardinalityType
<1>4. Cardinality(R) <= crashes' /\ (Owed(g)' => Cardinality(R) < crashes')
  BY <1>1, <1>3
<1> QED BY <1>1, <1>2, <1>4 DEF Counted

LEMMA CountedDone ==
  ASSUME NEW f, Shaped(f), Rows(f), Unspent(f), Counted(f), db \in Db, crashes \in Nat, LogGrows,
         NEW g, Shaped(g), Done(f, g)
  PROVE  Counted(g)'
<1>1. PICK v : /\ f.at \in Stepped
               /\ \/ Leads(f, v, g) /\ crashes' = crashes
                  \/ g = f /\ crashes' = crashes + 1
  BY DEF Done
<1>2. Pays(f) /\ Unread' \subseteq Unread
  BY Payments, ReadsStay
<1>3. f.step \in Steps /\ (f.at = "tool" => CallOf(f) \in Calls)
  BY Front, FrontTypes DEF Serving
<1>4. \A e \in Deeds : Times(e)' = Times(e) \/ (f.at \in Paying /\ e = Asks(f) /\ Times(e)' = Times(e) + 1)
  BY <1>2, <1>3, OneDeed
<1>5. crashes' = crashes => ~Owed(g)'
  <2>1. crashes + 1 # crashes
    OBVIOUS
  <2>2. crashes' = crashes => Way(f, g)
    BY <1>1, <2>1, WayLeads
  <2> QED BY <1>2, <2>2, NothingOwed
<1>6. CASE Owed(f)
  <2>1. PICK R : IsFiniteSet(R) /\ Repetitions \subseteq R /\ Cardinality(R) < crashes
    BY <1>6 DEF Counted
  <2>2. PICK x : x = <<Asks(f), Times(Asks(f)) + 1>>
    OBVIOUS
  <2>3. Repetitions' \subseteq Repetitions \cup {x}
    BY <1>2, <1>4, <2>2, RepetitionsGrow
  <2>4. PICK k \in Nat : k = Cardinality(R)
    BY <2>1, FS_CardinalityType
  <2>5. IsFiniteSet(R \cup {x}) /\ Cardinality(R \cup {x}) <= k + 1
    BY <2>1, <2>4, FS_AddElement
  <2>6. PICK m \in Nat : m = Cardinality(R \cup {x})
    BY <2>5, FS_CardinalityType
  <2>7. m <= crashes' /\ (Owed(g)' => m < crashes')
    BY <1>1, <1>5, <2>1, <2>4, <2>5, <2>6
  <2>8. Repetitions' \subseteq R \cup {x}
    BY <2>1, <2>3
  <2> QED BY <2>5, <2>6, <2>7, <2>8 DEF Counted
<1>7. CASE ~Owed(f)
  <2>1. Repetitions' \subseteq Repetitions
    <3>1. CASE f.at \notin Paying
      <4>1. \A e \in Unread' : Times(e)' = Times(e)
        BY <1>2, <1>4, <3>1 DEF Unread
      <4> QED BY <1>2, <4>1, RepetitionsStay
    <3>2. CASE Asks(f) \notin Unread \/ Times(Asks(f)) = 0
      BY <1>2, <1>4, <3>2, RepetitionsGrow
    <3>3. f.at \in Paying /\ Asks(f) \in Unread => Times(Asks(f)) = 0
      <4>1. Asks(f) \in Unread => Times(Asks(f)) \in Nat
        BY TimesTyped DEF Unread
      <4> QED BY <1>7, <4>1 DEF Owed
    <3> QED BY <3>1, <3>2, <3>3
  <2> QED BY <1>1, <1>5, <2>1, CountedStays
<1> QED BY <1>6, <1>7

LEMMA CountedMoves ==
  ASSUME NEW S, NEW f, Replay(S, f), Typed, Rows(f), Known(f), Unspent(f), Counted(f),
         NEW g, Shaped(g), Advances(f, g)
  PROVE  Counted(g)'
<1>1. Shaped(f) /\ db \in Db /\ crashes \in Nat
  BY DEF Replay, Chain, Typed
<1>2. /\ LogGrows /\ db' \in Db /\ crashes' \in Nat
      /\ Done(f, g) \/ (g = f /\ (Runs(f) \/ (UNCHANGED log /\ Cuts(f)))) \/ Idle(f, g)
  BY Counting
<1>3. Unread' \subseteq Unread
  BY <1>2, ReadsStay
<1>4. CASE Done(f, g)
  BY <1>1, <1>2, <1>4, CountedDone
<1>5. SUFFICES ASSUME ~Done(f, g) PROVE Counted(g)'
  BY <1>4
<1>6. \A e \in Unread : Times(e)' = Times(e)
  <2>1. CASE SameTold /\ SameRan
    <3>1. \A e \in Deeds : Times(e)' = Times(e)
      BY <2>1, DeedKinds, TimesOf DEF SameTold, SameRan
    <3> QED BY <3>1 DEF Unread
  <2>2. CASE Reruns(f)
    <3>1. ASSUME NEW c \in Calls, c \notin ReadCalls PROVE db'.ran[c] = db.ran[c]
      <4>1. ASSUME NEW n \in DOMAIN f.batch PROVE f.first + n \in ReadCalls
        <5>1. n \in 1 .. Len(f.claims) /\ f.claims[n] = "read"
          <6>1. Together(f) /\ Len(f.claims) = Len(f.batch)
            BY <1>1, <2>2 DEF Reruns, Shaped, Serving
          <6>2. DOMAIN f.batch = 1 .. Len(f.batch) /\ DOMAIN f.claims = 1 .. Len(f.claims)
            <7>1. f.claims \in Seq(ClaimsOf) /\ f.batch \in Seq(Kinds)
              BY <1>1, Front
            <7> QED BY <7>1
          <6> QED BY <6>1, <6>2 DEF Together
        <5> QED BY <5>1 DEF Known
      <4> QED BY <2>2, <3>1, <4>1 DEF Reruns
    <3>2. ASSUME NEW e \in Unread PROVE Times(e)' = Times(e)
      <4>1. e \in Deeds /\ \A c \in Calls : e = <<"tool", c>> => c \notin ReadCalls
        BY DEF Unread
      <4> QED BY <2>2, <3>1, <4>1, DeedKinds, TimesOf DEF Reruns, SameTold
    <3> QED BY <3>2
  <2> QED BY <1>1, <1>2, <1>5, <2>1, <2>2, Rerunning DEF Idle
<1>7. Repetitions' \subseteq Repetitions
  BY <1>3, <1>6, RepetitionsStay
<1>8. Owed(f)' => Owed(f)
  BY <1>3, <1>6 DEF Owed
<1>9. CASE g = f /\ (Runs(f) \/ Cuts(f))
  <2>1. crashes' = crashes \/ crashes' = crashes + 1
    BY <1>9 DEF Runs, Cuts
  <2> QED BY <1>1, <1>7, <1>8, <1>9, <2>1, CountedStays
<1>10. CASE Idle(f, g)
  <2>1. Owed(g)' => Owed(f)
    <3>1. CASE Way(f, g)
      BY <1>1, <1>10, <3>1, Payments, NothingOwed
    <3> QED BY <1>8, <1>10, <3>1 DEF Idle
  <2> QED BY <1>1, <1>7, <1>10, <2>1, CountedStays DEF Idle
<1> QED BY <1>2, <1>5, <1>9, <1>10

-----------------------------------------------------------------------------
Accounted(f) == Known(f) /\ Unspent(f) /\ Retried(f) /\ Counted(f)

LEMMA AccountedMoves ==
  ASSUME NEW S, NEW f, Replay(S, f), Typed, Rows(f), Accounted(f), NEW g, Shaped(g), Advances(f, g)
  PROVE  Accounted(g)'
<1>1. Shaped(f) /\ db \in Db /\ f.step \in Steps /\ g.step \in Steps
  <2>1. Shaped(f)
    BY DEF Replay, Chain
  <2> QED BY <2>1, Front DEF Typed
<1>2. /\ LogGrows
      /\ Done(f, g) \/ (g = f /\ (Runs(f) \/ (UNCHANGED log /\ Cuts(f)))) \/ Idle(f, g)
  BY Counting
<1>3. Known(g)'
  BY <1>1, <1>2, KnownMoves DEF Accounted
<1>4. Unspent(g)'
  <2>1. CASE Done(f, g) \/ Idle(f, g)
    <3>1. g = f \/ Way(f, g)
      BY <1>1, <2>1, WayLeads DEF Done, Idle
    <3> QED BY <1>1, <2>1, <3>1, Payments, UnspentMoves DEF Accounted
  <2>2. CASE g = f /\ (Runs(f) \/ Cuts(f))
    <3>1. SameTold
      BY <1>1, <2>2, Rerunning DEF Reruns
    <3> QED BY <2>2, <3>1 DEF Accounted, Unspent, SameTold
  <2> QED BY <1>2, <2>1, <2>2
<1>5. Retried(g)' /\ Counted(g)'
  BY RetriedMoves, CountedMoves DEF Accounted
<1> QED BY <1>3, <1>4, <1>5 DEF Accounted

LEMMA AccountedStill ==
  ASSUME NEW f, Accounted(f), UNCHANGED <<log, db, crashes>>
  PROVE  Accounted(f)'
<1>1. ReadCalls' = ReadCalls /\ Deeds' = Deeds /\ \A e : Times(e)' = Times(e)
  BY DEF ReadCalls, Deeds, Times
<1>2. Repetitions' = Repetitions /\ (Owed(f)' <=> Owed(f))
  BY <1>1 DEF Repetitions, Owed, Unread
<1>3. Counted(f)'
  BY <1>2 DEF Accounted, Counted
<1> QED BY <1>1, <1>3 DEF Accounted, Known, Unspent, Retried

LEMMA AccountedFirst ==
  ASSUME log = <<>>, crashes = 0, db.users = 0, db.ran = [c \in Calls |-> 0],
         db.usage = [i \in Steps |-> 0], db.bumped = [i \in Steps |-> 0], db.messages = [i \in Steps |-> 0]
  PROVE  Accounted(Fresh)
<1>1. Fresh.claims = <<>> /\ Fresh.at = "start"
  BY DEF Fresh
<1>2. Known(Fresh)
  BY <1>1 DEF Known
<1>3. Unspent(Fresh)
  BY DEF Unspent
<1>4. Retried(Fresh)
  BY <1>1 DEF Retried
<1>5. \A e \in Deeds : Times(e) = 0
  BY DeedKinds, TimesOf
<1>6. Repetitions = {}
  <2> SUFFICES ASSUME NEW x \in Repetitions PROVE FALSE
    OBVIOUS
  <2>1. PICK e \in Deeds : x \in {<<e, n>> : n \in 2 .. Times(e)}
    BY DEF Repetitions
  <2> QED BY <1>5, <2>1
<1>7. Counted(Fresh)
  <2>1. ~Owed(Fresh)
    BY <1>1 DEF Owed, Paying
  <2> QED BY <1>6, <2>1, FS_EmptySet DEF Counted
<1> QED BY <1>2, <1>3, <1>4, <1>7 DEF Accounted

LEMMA AccountedRepeats ==
  ASSUME NEW f, Accounted(f), crashes \in Nat
  PROVE  RepeatedOnlyByCrash
<1>1. PICK R : IsFiniteSet(R) /\ Repetitions \subseteq R /\ Cardinality(R) <= crashes
  BY DEF Accounted, Counted
<1>2. PICK k \in Nat, m \in Nat : k = Cardinality(R) /\ m = Cardinality(Repetitions) /\ m <= k
  BY <1>1, FS_Subset, FS_CardinalityType
<1>3. Cardinality(Repetitions) <= crashes
  BY <1>1, <1>2
<1>4. \A c \in ReadCalls : db.ran[c] <= crashes + 1
  BY DEF ReadCalls, Accounted, Retried
<1> QED BY <1>3, <1>4 DEF RepeatedOnlyByCrash

-----------------------------------------------------------------------------
(***************************************************************************)
(* The inductive invariant: a chain of bodies reaches a frontier that the  *)
(* journal ends at, and the store is what that frontier says.              *)
(***************************************************************************)
Frontier(f) == /\ Thread(f) /\ Rows(f) /\ Completed(f) /\ NoCard(f)
               /\ Filed(f) /\ Truth(f) /\ Telling(f) /\ Spent(f) /\ Accounted(f)

Settles == \E S, f : Replay(S, f) /\ Typed /\ Frontier(f)

LEMMA SettlesFirst == Init => Settles
<1> SUFFICES ASSUME Init PROVE Replay({Fresh}, Fresh) /\ Typed /\ Frontier(Fresh)
  BY DEF Settles
<1>1. PICK interrupt \in BOOLEAN :
        db = [run |-> "none", users |-> 0,
              usage |-> [i \in Steps |-> 0], bumped |-> [i \in Steps |-> 0],
              messages |-> [i \in Steps |-> 0], told |-> [i \in Steps |-> <<>>],
              row |-> [c \in Calls |-> "none"], expires |-> [c \in Calls |-> Never],
              ran |-> [c \in Calls |-> 0],
              holder |-> "run", waiting |-> Waiting, interrupt |-> interrupt, paused |-> FALSE,
              next |-> 0, stream |-> "open"]
  BY DEF Init
<1>2. Typed
  <2>1. <<>> \in Seq(Final) /\ "none" \in Statuses /\ Never \in Nat /\ Waiting \in Nat /\ 0 \in 0 .. 1
    BY TurnAssumption DEF Statuses, Never
  <2>2. db \in Db
    BY <1>1, <2>1 DEF Db
  <2>3. replies \in [sent : 0 .. MaxReplies, agreed : SUBSET Calls] /\ crashes \in 0 .. MaxCrashes
    BY TurnAssumption DEF Init
  <2> QED BY <2>2, <2>3 DEF Init, Typed
<1>3. Thread(Fresh)
  BY <1>1, FreshShaped DEF Init, Thread, After, Closing
<1>4. Rows(Fresh)
  <2>1. \A c \in Calls : c \in Int /\ c > 0 /\ db.row[c] = "none" /\ db.ran[c] = 0
    BY <1>1, TurnAssumption DEF Calls
  <2>2. Fresh.first = 0 /\ Fresh.claims = <<>> /\ Fresh.results = <<>> /\ Len(Fresh.claims) = 0 /\ Len(Fresh.results) = 0
    BY DEF Fresh
  <2> QED BY <2>1, <2>2 DEF Rows, Ran, Cur
<1>5. Completed(Fresh) /\ NoCard(Fresh)
  BY <1>1, FreshShaped DEF Completed, NoCard, After, Closing
<1>5a. Filed(Fresh)
  <2>1. \A c : ClaimOf(c) = {}
    BY DEF Init, ClaimOf
  <2>2. Fresh.claims = <<>> /\ Len(Fresh.claims) = 0
    BY DEF Fresh
  <2> QED BY <2>1, <2>2 DEF Filed
<1>6. Truth(Fresh)
  <2>1. \A c \in Calls : ~Ran(c) /\ db.row[c] = "none" /\ mail[c] = <<>>
    BY <1>1, TurnAssumption DEF Ran, Init
  <2>2. sending.reply # "yes" /\ Fresh.at = "start"
    BY FreshShaped DEF Init, NoReply
  <2> QED BY <2>1, <2>2 DEF Truth, Yes, Rightly, Truly, Here
<1>7. Telling(Fresh)
  <2> DEFINE F == [i \in Steps |-> 0]
  <2>1. 1 \in Steps /\ Steps \subseteq Nat /\ 0 \in 0 .. MaxCalls /\ \A i \in Steps : ~(i < 1)
    BY TurnAssumption DEF Steps
  <2>2. F \in [Steps -> 0 .. MaxCalls] /\ F[1] = 0
    BY <2>1
  <2> HIDE DEF F
  <2>3. Fresh.step = 1 /\ Fresh.first = 0 /\ Fresh.at = "start"
    BY DEF Fresh
  <2>4. ~Finished(Fresh) /\ \A i \in Steps : db.told[i] = <<>>
    BY <1>1, <2>3 DEF Finished, After, Closing
  <2>5. Numbered(Fresh, F)
    BY <2>1, <2>2, <2>3, <2>4 DEF Numbered
  <2> QED BY <2>5 DEF Telling
<1>8. Spent(Fresh)
  BY DEF Spent, Init
<1>9. Accounted(Fresh)
  BY <1>1, AccountedFirst DEF Init
<1> QED BY <1>2, <1>3, <1>4, <1>5, <1>5a, <1>6, <1>7, <1>8, <1>9, Started DEF Frontier

LEMMA SettlesNext ==
  ASSUME Settles, Next
  PROVE  Settles'
<1>1. PICK S, f : Replay(S, f) /\ Typed /\ Frontier(f)
  BY DEF Settles
<1>2. PICK T, g : Replay(T, g)' /\ Advances(f, g)
  BY <1>1, Moved DEF Onward
<1>3. Shaped(g)
  BY <1>2 DEF Replay, Chain
<1>4. Typed'
  BY <1>1, <1>2, Effects
<1>5. Thread(g)' /\ Rows(g)' /\ Completed(g)' /\ NoCard(g)'
  BY <1>1, <1>2, <1>3, ThreadMoves, RowsMoves, EndMoves DEF Frontier
<1>6. Filed(g)' /\ Truth(g)' /\ Telling(g)' /\ Spent(g)'
  BY <1>1, <1>2, <1>3, FiledMoves, TruthMoves, TellingMoves, SpentMoves DEF Frontier
<1>7. Accounted(g)'
  BY <1>1, <1>2, <1>3, AccountedMoves DEF Frontier
<1>8. Replay(T, g)' /\ Typed' /\ Frontier(g)'
  BY <1>2, <1>4, <1>5, <1>6, <1>7 DEF Frontier
<1> QED BY <1>8 DEF Settles

LEMMA SettlesStill ==
  ASSUME Settles, UNCHANGED vars
  PROVE  Settles'
<1>1. PICK S, f : Replay(S, f) /\ Typed /\ Frontier(f)
  BY DEF Settles
<1>2. UNCHANGED <<body, log, engine, mail, sending, now, db, stop, replies, crashes>>
  BY DEF vars, world
<1>3. Replay(S, f)'
  BY <1>1, <1>2, ReplayStill
<1>4. Typed'
  BY <1>1, <1>2 DEF Typed
<1>5. Thread(f)' /\ Completed(f)' /\ NoCard(f)'
  BY <1>1, <1>2 DEF Frontier, Thread, Completed, NoCard
<1>6. Rows(f)'
  BY <1>1, <1>2, RowsStay DEF Frontier, SameRows, SameRan
<1>6a. \A c : ClaimOf(c)' = ClaimOf(c)
  BY <1>2 DEF ClaimOf
<1>6b. Filed(f)'
  BY <1>1, <1>6a DEF Frontier, Filed
<1>7. Truth(f)'
  BY <1>1, <1>2, <1>6a DEF Frontier, Truth, Yes, Rightly, MayRun, Truly, ByClaim, Here, Agreed, Posed, Ran
<1>8. Telling(f)'
  <2>1. PICK F : Numbered(f, F)
    BY <1>1 DEF Frontier, Telling
  <2>2. Numbered(f, F)'
    BY <1>2, <2>1 DEF Numbered
  <2> QED BY <2>2 DEF Telling
<1>9. Spent(f)'
  BY <1>1, <1>2 DEF Frontier, Spent
<1>10. Accounted(f)'
  BY <1>1, <1>2, AccountedStill DEF Frontier
<1>11. Replay(S, f)' /\ Typed' /\ Frontier(f)'
  BY <1>3, <1>4, <1>5, <1>6, <1>6b, <1>7, <1>8, <1>9, <1>10 DEF Frontier
<1> QED BY <1>11 DEF Settles

LEMMA SettlesAlways == Spec => []Settles
<1>1. Settles /\ [Next]_vars => Settles'
  BY SettlesNext, SettlesStill
<1> QED BY <1>1, SettlesFirst, PTL DEF Spec

-----------------------------------------------------------------------------
(***************************************************************************)
(* The properties of the turn.                                             *)
(***************************************************************************)
LEMMA SettlesEnded == Settles => EndedIsSettled
<1> SUFFICES ASSUME NEW S, NEW f, Replay(S, f), Typed, Frontier(f) PROVE EndedIsSettled
  BY DEF Settles
<1> QED BY DEF Frontier, Thread, NoCard, EndedIsSettled, Ended

\* A run that ended by itself, whatever failed, crashed or was stopped on the way, left a settled row
\* and no card that waits for a person (ctx.localStep('run:end'), failUnsettledToolCalls).
THEOREM EndLeavesNoCard == Spec => []EndedIsSettled
BY SettlesAlways, SettlesEnded, PTL

LEMMA SettlesStarted == Settles => NextWaitsItsTurn
<1> SUFFICES ASSUME NEW S, NEW f, Replay(S, f), Typed, Frontier(f) PROVE NextWaitsItsTurn
  BY DEF Settles
<1> QED BY DEF Frontier, Thread, NextWaitsItsTurn

\* The message queued behind a turn starts only once the turn's row says how it ended, whether the
\* turn's own advance or a Stop from outside starts it.
THEOREM OneTurnAtATime == Spec => []NextWaitsItsTurn
BY SettlesAlways, SettlesStarted, PTL

LEMMA SettlesStopped == Settles => StoppedThreadMovesOn
<1> SUFFICES ASSUME NEW S, NEW f, Replay(S, f), Typed, Frontier(f) PROVE StoppedThreadMovesOn
  BY DEF Settles
<1> QED BY DEF Frontier, Thread, StoppedThreadMovesOn

\* A Stop that came to its end has taken the thread from the run, and a queue nobody drains is
\* paused, however the Stop interleaved with the body's own end.
THEOREM StopFreesTheThread == Spec => []StoppedThreadMovesOn
BY SettlesAlways, SettlesStopped, PTL

LEMMA SettlesTyped == Settles => TypeOK
<1> SUFFICES ASSUME NEW S, NEW f, Replay(S, f), Typed, Frontier(f) PROVE TypeOK
  BY DEF Settles
<1>1. body.at # "off" => body.pos \in Nat /\ body.step \in Steps /\ body.first \in 0 .. MaxCalls
                         /\ Len(body.results) <= Len(body.batch) /\ Len(body.claims) <= Len(body.batch)
  <2>1. ASSUME NEW b, Shaped(b)
        PROVE  b.pos \in Nat /\ b.step \in Steps /\ b.first \in 0 .. MaxCalls
               /\ Len(b.results) <= Len(b.batch) /\ Len(b.claims) <= Len(b.batch)
    BY <2>1, Front, FrontTypes
  <2>2. CASE body = Off
    BY <2>2 DEF Off
  <2>3. CASE body \in S
    BY <2>1, <2>3 DEF Replay, Chain
  <2>4. ASSUME NEW b \in S, NEW o, Under(b, o)
        PROVE  body.pos \in Nat /\ body.step \in Steps /\ body.first \in 0 .. MaxCalls
               /\ Len(body.results) <= Len(body.batch) /\ Len(body.claims) <= Len(body.batch)
    <3>1. Shaped(b) /\ b \in Bodies
      BY DEF Replay, Chain, Shaped
    <3>2. /\ body.pos = b.pos /\ body.step = b.step /\ body.first = b.first
          /\ body.results = b.results /\ body.batch = b.batch /\ body.claims = b.claims
      BY <2>4, <3>1 DEF Under, Bodies
    <3> QED BY <2>1, <3>1, <3>2
  <2> QED BY <2>2, <2>3, <2>4 DEF Replay, OnWay
<1>2. engine.parked.call \in 0 .. MaxCalls /\ (engine.parked # NotParked => body = Off /\ engine.parked.pos \notin DOMAIN log)
  <2>1. CASE engine.parked = NotParked
    BY <2>1, TurnAssumption DEF NotParked
  <2>2. CASE engine.parked # NotParked
    <3>1. body = Off /\ f.at \in Waits /\ engine.parked.pos = f.pos + 1 /\ engine.parked.call = CallOf(f)
      BY <2>2 DEF Replay, Parked
    <3>2. Shaped(f) /\ f.at \in Serving /\ f.at # "together"
      BY <3>1 DEF Replay, Chain, Waits, Serving
    <3>3. f.pos \in Nat /\ CallOf(f) \in Calls
      BY <3>2, FrontTypes
    <3>4. f.pos + 1 \notin DOMAIN log
      BY <3>2, <3>3 DEF Replay, Chain, Journal
    <3> QED BY <3>1, <3>3, <3>4, TurnAssumption DEF Calls
  <2> QED BY <2>1, <2>2
<1>3. engine.status \in {"active", "completed", "failed", "cancelled"} /\ mail \in [Calls -> Seq(Replies)] /\ now \in Nat
  BY DEF Replay, Around
<1>4. /\ db.run \in {"none", "running"} \cup Terminal /\ db.row \in [Calls -> Statuses]
      /\ db.holder \in {"run", "next", "nobody"} /\ db.waiting \in Nat /\ db.next \in 0 .. 1
  BY DEF Typed, Db
<1>5. replies.sent \in 0 .. MaxReplies /\ replies.agreed \subseteq Calls
  BY DEF Typed
<1> QED BY <1>1, <1>2, <1>3, <1>4, <1>5 DEF TypeOK, Typed

\* Type correctness, and the run is parked only without a body and at a position nothing recorded.
THEOREM TurnTyped == Spec => []TypeOK
BY SettlesAlways, SettlesTyped, PTL

LEMMA SettlesAgreed == Settles => RunsOnlyApproved
<1> SUFFICES ASSUME NEW S, NEW f, Replay(S, f), Typed, Frontier(f) PROVE RunsOnlyApproved
  BY DEF Settles
<1> QED BY DEF Frontier, Truth, Rightly, MayRun, Ran, Agreed, RunsOnlyApproved

\* A call put to a person ran only if a person said yes to it before its card lapsed, whatever was
\* sent late or twice and however often the body was replayed (awaitDecision, mayDecide).
THEOREM ToldToRun == Spec => []RunsOnlyApproved
BY SettlesAlways, SettlesAgreed, PTL

LEMMA SettlesTrue == Settles => RowsTellTheTruth
<1> SUFFICES ASSUME NEW S, NEW f, Replay(S, f), Typed, Frontier(f) PROVE RowsTellTheTruth
  BY DEF Settles
<1>1. Shaped(f) /\ Rows(f) /\ Rightly /\ Truly /\ Telling(f)
  BY DEF Frontier, Truth, Replay, Chain
<1>2. ASSUME NEW c \in Calls
      PROVE  /\ db.row[c] \in {"rejected", "expired", "proposed"} => db.ran[c] = 0
             /\ ClaimOf(c) \cap (Preflights \cup {"proposal"}) # {} => db.ran[c] = 0
             /\ db.row[c] = "executed" => db.ran[c] > 0 \/ Posed(c) \/ ByClaim(c)
  <2>1. db.ran[c] \in Nat
    BY <1>2 DEF Typed, Db
  <2>2. db.ran[c] > 0 => MayRun(c)
    BY <1>1, <1>2 DEF Rightly, Ran
  <2>3. ~(db.ran[c] > 0) => db.ran[c] = 0
    BY <2>1
  <2>4. db.row[c] = "executed" => db.ran[c] > 0 \/ Posed(c) \/ ByClaim(c)
    BY <1>1, <1>2, Zenon DEF Truly, Ran
  <2>5. db.row[c] \in {"rejected", "expired", "proposed"} => ~MayRun(c)
    BY DEF MayRun
  <2>6. ClaimOf(c) \cap (Preflights \cup {"proposal"}) # {} => ~MayRun(c)
    BY DEF MayRun
  <2> QED BY <2>2, <2>3, <2>4, <2>5, <2>6, Zenon
<1>3. PICK F : Numbered(f, F)
  BY <1>1 DEF Telling
<1> DEFINE L == Len(db.told[f.step])
           G == [i \in Steps |-> IF i <= f.step THEN F[i] ELSE f.first + L]
<1>4. /\ f.first \in Nat /\ f.step \in Steps /\ f.step \in Nat /\ Steps \subseteq Nat /\ 1 \in Steps /\ 1 <= f.step
      /\ \A i \in Steps : i < f.step => i + 1 <= f.step
      /\ \A i \in Steps : i >= f.step => i = f.step \/ i > f.step
  <2>1. f.first \in Nat /\ f.step \in Steps
    BY <1>1, Front
  <2>2. Steps = 1 .. MaxSteps /\ MaxSteps \in Nat \ {0}
    BY TurnAssumption DEF Steps
  <2> QED BY <2>1, <2>2
<1>5. /\ F \in [Steps -> 0 .. MaxCalls] /\ F[1] = 0 /\ F[f.step] = f.first
      /\ \A i \in Steps : i < f.step =>
           /\ F[i + 1] = F[i] + Len(db.told[i])
           /\ \A n \in DOMAIN db.told[i] : db.row[F[i] + n] = db.told[i][n]
      /\ \A i \in Steps : i > f.step => db.told[i] = <<>>
      /\ db.told[f.step] = <<>> \/ db.told[f.step] = f.results
  BY <1>3 DEF Numbered
<1>6. L \in Nat /\ f.first + L <= MaxCalls
  <2>1. Len(f.results) \in Nat /\ f.first + Len(f.results) <= MaxCalls /\ f.first <= MaxCalls
    <3>1. /\ f.first \in Nat /\ Len(f.results) \in Nat /\ Len(f.claims) \in Nat /\ Len(f.batch) \in Nat
          /\ Len(f.results) <= Len(f.claims) /\ Len(f.claims) <= Len(f.batch)
          /\ f.first + Len(f.batch) <= MaxCalls /\ MaxCalls \in Nat
      BY ONLY <1>1, Front
    <3> QED BY ONLY <3>1
  <2>2. f.first \in Nat /\ MaxCalls \in Nat
    BY <1>4, TurnAssumption
  <2>3. L = 0 \/ L = Len(f.results)
    BY <1>5
  <2> HIDE DEF L
  <2> QED BY ONLY <2>1, <2>2, <2>3
<1>7. \A n \in DOMAIN db.told[f.step] : db.row[f.first + n] = db.told[f.step][n]
  <2>1. f.results \in Seq(Final) /\ DOMAIN f.results = 1 .. Len(f.results)
    BY <1>1, Front
  <2>2. CASE db.told[f.step] = f.results
    BY <1>1, <2>1, <2>2 DEF Rows
  <2> QED BY <1>5, <2>2
<1> HIDE DEF L
<1>8. G \in [Steps -> 0 .. MaxCalls]
  <2>1. f.first + L \in 0 .. MaxCalls
    BY <1>4, <1>6, TurnAssumption
  <2> QED BY <1>5, <2>1
<1>9. /\ \A i \in Steps : i <= f.step => G[i] = F[i]
      /\ \A i \in Steps : i > f.step => G[i] = f.first + L
  BY <1>4
<1> HIDE DEF G
<1>10. Numbers(G)
  <2>1. G[1] = 0
    BY <1>4, <1>5, <1>9
  <2>2. ASSUME NEW i \in Steps, i + 1 \in Steps PROVE G[i + 1] = G[i] + Len(db.told[i])
    <3>1. i \in Nat /\ f.step \in Nat
      BY <1>4, <2>2
    <3>2. CASE i < f.step
      <4>1. i <= f.step /\ i + 1 <= f.step
        BY <3>1, <3>2
      <4> QED BY <1>5, <1>9, <2>2, <3>2, <4>1
    <3>3. CASE i = f.step
      <4>1. i <= f.step /\ i + 1 > f.step
        BY <3>1, <3>3
      <4> QED BY <1>5, <1>9, <2>2, <3>3, <4>1 DEF L
    <3>4. CASE i > f.step
      <4>1. i + 1 > f.step /\ Len(db.told[i]) = 0
        BY <1>5, <2>2, <3>1, <3>4
      <4> QED BY <1>4, <1>6, <1>9, <2>2, <3>4, <4>1
    <3> QED BY <3>1, <3>2, <3>3, <3>4
  <2> QED BY <2>1, <2>2 DEF Numbers
<1>11. ASSUME NEW i \in Steps, NEW n \in DOMAIN db.told[i] PROVE db.row[G[i] + n] = db.told[i][n]
  <2>1. i \in Nat /\ f.step \in Nat
    BY <1>4
  <2>2. CASE i < f.step
    <3>1. G[i] = F[i]
      BY <1>9, <2>1, <2>2
    <3>2. \A j \in DOMAIN db.told[i] : db.row[F[i] + j] = db.told[i][j]
      BY <1>5, <2>2
    <3> QED BY ONLY <3>1, <3>2, n \in DOMAIN db.told[i]
  <2>3. CASE i = f.step
    BY <1>5, <1>7, <1>9, <1>11, <2>1, <2>3
  <2>4. CASE i > f.step
    BY <1>5, <1>11, <2>4
  <2> QED BY <2>1, <2>2, <2>3, <2>4
<1>12. \A c \in Calls :
         /\ db.row[c] \in {"rejected", "expired", "proposed"} => db.ran[c] = 0
         /\ ClaimOf(c) \cap (Preflights \cup {"proposal"}) # {} => db.ran[c] = 0
         /\ db.row[c] = "executed" =>
              \/ db.ran[c] > 0
              \/ \E p \in DOMAIN log : log[p].name = <<"elicitation", c>>
              \/ ClaimOf(c) \subseteq {"completed", "presented", "threw"}
  BY ONLY <1>2, Zenon DEF Posed, ByClaim
<1> QED BY <1>8, <1>10, <1>11, <1>12 DEF RowsTellTheTruth

\* A call told or shown as rejected, expired or only proposed never ran, nor did one its claim
\* settled; one shown as executed ran, was answered or was completed by its claim; and what the
\* model was told of each call is what its row says (claimToolCall, settle, persistToolResults).
THEOREM ToldWhatHappened == Spec => []RowsTellTheTruth
BY SettlesAlways, SettlesTrue, PTL

LEMMA SettlesWhole == Settles => CompletedIsWhole
<1> SUFFICES ASSUME NEW S, NEW f, Replay(S, f), Typed, Frontier(f), db.run = "completed"
             PROVE  /\ \A c \in Calls : db.row[c] \in Outcomes \cup {"none", "proposed"}
                    /\ \A p \in DOMAIN log : \A i \in Steps :
                         log[p].name = <<"llm", i>> => Len(db.told[i]) = Len(log[p].value.calls)
  BY DEF Settles, CompletedIsWhole
<1>1. Shaped(f) /\ Rows(f) /\ Spent(f) /\ Telling(f) /\ Finished(f)
  BY DEF Frontier, Replay, Chain, Completed, Finished
<1>2. /\ Whole(f) /\ ~f.failing /\ f.at # "claim"
  BY <1>1 DEF Shaped, Finished, After, Closing
<1>3. \A c \in Calls : db.row[c] \in Outcomes \cup {"none", "proposed"}
  <2> SUFFICES ASSUME NEW c \in Calls PROVE db.row[c] \in Outcomes \cup {"none", "proposed"}
    OBVIOUS
  <2>1. f.first \in Nat /\ Len(f.results) \in Nat /\ Len(f.claims) = Len(f.results)
    BY <1>1, <1>2, Front DEF Whole
  <2>2. c <= f.first + Len(f.results) \/ c > f.first + Len(f.claims)
    BY <2>1 DEF Calls
  <2> QED BY <1>1, <1>2, <2>2 DEF Rows, Final
<1>4. ASSUME NEW p \in DOMAIN log, NEW i \in Steps, log[p].name = <<"llm", i>>
      PROVE  Len(db.told[i]) = Len(log[p].value.calls)
  <2>1. i <= f.step /\ i \in Nat /\ f.step \in Nat
    BY <1>1, <1>4, Front DEF Spent, Steps
  <2>2. CASE i < f.step
    BY <1>1, <1>4, <2>2 DEF Spent
  <2>3. CASE i = f.step
    <3>1. log[p].value.calls = f.batch
      BY <1>1, <1>2, <1>4, <2>3 DEF Spent
    <3>2. db.told[f.step] = f.results
      BY <1>1 DEF Telling, Numbered
    <3> QED BY <1>2, <2>3, <3>1, <3>2 DEF Whole
  <2> QED BY <2>1, <2>2, <2>3
<1> QED BY <1>3, <1>4

\* A completed run answered every call it made: each row has its outcome and each step's message has
\* one result for each call the model asked for, whatever was replayed on the way.
THEOREM CompletedAnsweredAll == Spec => []CompletedIsWhole
BY SettlesAlways, SettlesWhole, PTL

LEMMA SettlesPaid == Settles => SpendIsRecorded
<1> SUFFICES ASSUME NEW S, NEW f, Replay(S, f), Typed, Frontier(f), Ended,
                    NEW p \in DOMAIN log, NEW i \in Steps, log[p].name = <<"llm", i>>, ~log[p].value.threw
             PROVE  db.usage[i] > 0 /\ db.bumped[i] > 0
  BY DEF Settles, SpendIsRecorded
<1>1. f.at \in After /\ Shaped(f) /\ Spent(f)
  BY DEF Frontier, Thread, Ended, Replay, Chain
<1>2. f.at \notin {"gate", "usage", "bump"}
  BY <1>1 DEF After, Closing
<1>3. i <= f.step /\ i \in Nat /\ f.step \in Nat
  BY <1>1, Front DEF Spent, Steps
<1>4. CASE i < f.step
  BY <1>1, <1>4 DEF Spent
<1>5. CASE i = f.step
  BY <1>1, <1>2, <1>5 DEF Spent
<1> QED BY <1>3, <1>4, <1>5

\* Every model turn of a run that ended by itself is in the usage and in the quota, also the turn
\* whose refused answer failed the run.
THEOREM EveryTurnPaid == Spec => []SpendIsRecorded
BY SettlesAlways, SettlesPaid, PTL

LEMMA SettlesCounted == Settles => RepeatedOnlyByCrash
<1> SUFFICES ASSUME NEW S, NEW f, Typed, Frontier(f) PROVE RepeatedOnlyByCrash
  BY DEF Settles
<1> QED BY AccountedRepeats DEF Frontier, Typed

\* Whatever the body does outside its journal it does again only where a crash cut it off from its
\* record, once for each crash, and a read at most once more than the run was cut (ctx.localStep).
THEOREM RepetitionsPaid == Spec => []RepeatedOnlyByCrash
BY SettlesAlways, SettlesCounted, PTL

=============================================================================
