--------------------------- MODULE Indexer_proofs ---------------------------
(* What holds of the indexers for any number of programs, songs, policies and
   products, and without a bound on edits and passes. *)
EXTENDS Indexer, TLAPS

(* execute leaves a result and rows of one of the four kinds. *)
LEMMA ExecuteType ==
  ASSUME TypeOK, NEW j \in Jobs, NEW k \in Results, NEW found, Execute(j, k, found)
  PROVE  /\ result' \in [Jobs -> {Null} \cup Results]
         /\ alive' \in [Jobs -> SUBSET Results]
  BY Zenon DEF TypeOK, Execute

(* The query for the songs of a pass keeps the types. *)
LEMMA SelectType ==
  ASSUME TypeOK, NEW j \in Jobs, NEW S \in SUBSET Rids, Select(j, S)
  PROVE  TypeOK'
<1> USE DEF TypeOK, PCs, AtSong, AtPay, AtAudio, db, redis, bounds
<1>1. CASE Ends(j) /\ quiet' \subseteq quiet
  BY Zenon, <1>1 DEF Select, Ends, Goto
<1>2. CASE /\ rows' = [rows EXCEPT ![j] = Snapshot(S)] /\ Execute(j, "rows", S) /\ Goto(j, "row")
           /\ UNCHANGED <<row, audioSourceId, item, todo, dirty, quiet>>
  <2>1. Snapshot(S) \in SUBSET Rows
    BY DEF Snapshot, Rows, Songs
  <2>2. result' \in [Jobs -> {Null} \cup Results] /\ alive' \in [Jobs -> SUBSET Results]
    BY Zenon, <1>2, ExecuteType DEF Results
  <2> QED
    BY Zenon, <1>2, <2>1, <2>2 DEF Select, Goto
<1> QED
  BY Zenon, <1>1, <1>2 DEF Select

(* Every step of a pass keeps the types. *)
LEMMA PassType ==
  ASSUME TypeOK, NEW j \in Jobs, Start(j) \/ JobStep(j) \/ Dies(j)
  PROVE  TypeOK'
<1> USE DEF TypeOK, PCs, AtSong, AtPay, AtAudio, db, redis, local, song, conn, bounds
<1>1. CASE QueryMax(j)
  <2>1. CASE Execute(j, "max", {}) /\ Goto(j, "select") /\ UNCHANGED <<local, dirty, quiet>>
    BY Zenon, <1>1, <2>1, ExecuteType DEF QueryMax, Goto, Results
  <2>2. CASE Ends(j) /\ quiet' = {}
    BY Zenon, <1>1, <2>2 DEF QueryMax, Ends, Goto
  <2> QED
    BY Zenon, <1>1, <2>1, <2>2 DEF QueryMax
<1>2. CASE SelectBatch(j)
  BY Zenon, <1>2, SelectType, IndexerAssumption DEF SelectBatch
<1>3. CASE SelectRecent(j)
  BY Zenon, <1>3, SelectType DEF SelectRecent
<1>4. CASE NextRow(j)
  BY <1>4 DEF NextRow, Goto, Rows, AsNumber
<1>5. CASE LastRow(j)
  BY Zenon, <1>5 DEF LastRow, Goto, Ends
<1>6. CASE SetHash(j)
  BY <1>6 DEF SetHash, Goto, Refused, AsText, Words, Rows
<1>7. CASE QueryPay(j)
  <2> DEFINE found == pay[row[j].id]
  <2>1. found \subseteq Policies
    BY Zenon, <1>7 DEF QueryPay, Rows
  <2>2. CASE Execute(j, "pay", found)
             /\ todo' = [todo EXCEPT ![j] = found]
             /\ Goto(j, IF found = {} THEN "none" ELSE "paynext") /\ UNCHANGED <<dirty, quiet>>
    <3>1. result' \in [Jobs -> {Null} \cup Results] /\ alive' \in [Jobs -> SUBSET Results]
      BY Zenon, <2>2, ExecuteType DEF Results
    <3> QED
      BY Zenon, <1>7, <2>1, <2>2, <3>1 DEF QueryPay, Goto
  <2>3. CASE ExecuteFails(j, "pay") /\ Goto(j, "none") /\ UNCHANGED todo
    BY Zenon, <1>7, <2>3 DEF QueryPay, Goto, ExecuteFails, Results
  <2> QED
    BY Zenon, <1>7, <2>2, <2>3 DEF QueryPay
<1>8. CASE SetNone(j)
  BY <1>8 DEF SetNone, Goto, Refused, AddTo
<1>9. CASE NextPay(j)
  BY <1>9 DEF NextPay, Goto, Refused, AddTo
<1>10. CASE AddPay(j)
  BY <1>10 DEF AddPay, Goto, Refused, AddTo
<1>11. CASE DelNone(j)
  BY <1>11 DEF DelNone, Goto, Refused, RemoveFrom
<1>12. CASE LastPay(j)
  BY Zenon, <1>12 DEF LastPay, Goto, Free
<1>13. CASE QueryAudio(j)
  <2> DEFINE found == ProductsOf[audioSourceId[j]]
  <2>1. found \subseteq Products
    BY <1>13 DEF QueryAudio, Products
  <2>2. CASE Execute(j, "audio", found)
             /\ todo' = [todo EXCEPT ![j] = found]
             /\ Goto(j, IF found = {} THEN "row" ELSE "audnext") /\ UNCHANGED <<dirty, quiet>>
    <3>1. result' \in [Jobs -> {Null} \cup Results] /\ alive' \in [Jobs -> SUBSET Results]
      BY Zenon, <2>2, ExecuteType DEF Results
    <3> QED
      BY Zenon, <1>13, <2>1, <2>2, <3>1 DEF QueryAudio, Goto
  <2>3. CASE ExecuteFails(j, "audio") /\ Goto(j, "row") /\ UNCHANGED todo
    BY Zenon, <1>13, <2>3 DEF QueryAudio, Goto, ExecuteFails, Results
  <2> QED
    BY Zenon, <1>13, <2>2, <2>3 DEF QueryAudio
<1>14. CASE SkipAudio(j)
  BY Zenon, <1>14 DEF SkipAudio, Goto
<1>15. CASE NextAudio(j)
  BY <1>15 DEF NextAudio, Goto, Refused
<1>16. CASE AddAudio(j)
  BY <1>16 DEF AddAudio, Goto, Refused, AddTo
<1>17. CASE LastAudio(j)
  BY Zenon, <1>17 DEF LastAudio, Goto, Free
<1>18. CASE Start(j)
  BY <1>18 DEF Start, Goto
<1>19. CASE Dies(j)
  BY Zenon, <1>19 DEF Dies, Goto, Ends
<1> QED
  BY Zenon, <1>1, <1>2, <1>3, <1>4, <1>5, <1>6, <1>7, <1>8, <1>9, <1>10,
     <1>11, <1>12, <1>13, <1>14, <1>15, <1>16, <1>17, <1>18, <1>19 DEF JobStep

(* Every step keeps the types. *)
LEMMA TypeStep ==
  ASSUME TypeOK, [Next]_vars
  PROVE  TypeOK'
<1>1. CASE Edit
  BY <1>1 DEF Edit, TypeOK, redis, local, song, conn
<1>2. CASE UNCHANGED vars
  BY Zenon, <1>2 DEF TypeOK, vars, db, redis, local, song, conn, bounds
<1>3. QED
  BY Zenon, PassType, <1>1, <1>2 DEF Next, AtRest

(* What a step of one pass leaves alone: the tables, the other passes, and
   whether those may go by old data. *)
OtherPasses(j) ==
  /\ UNCHANGED db
  /\ \A k \in Jobs \ {j} :
       /\ pc'[k] = pc[k] /\ rows'[k] = rows[k] /\ row'[k] = row[k] /\ alive'[k] = alive[k]
       /\ audioSourceId'[k] = audioSourceId[k] /\ item'[k] = item[k] /\ todo'[k] = todo[k]
  /\ dirty' \ {j} = dirty \ {j}
  /\ quiet' = {} \/ dirty' \subseteq dirty
  /\ quiet' \subseteq quiet \/ (dirty = {} /\ quiet' \subseteq quiet \cup {j})

LEMMA EndsAlone ==
  ASSUME TypeOK, NEW j \in Jobs, Ends(j), UNCHANGED db, quiet' \subseteq quiet
  PROVE  OtherPasses(j)
BY Zenon DEF TypeOK, Ends, Goto, OtherPasses

LEMMA PassAlone ==
  ASSUME TypeOK, NEW j \in Jobs, Start(j) \/ JobStep(j) \/ Dies(j)
  PROVE  OtherPasses(j)
<1>0. /\ pc \in [Jobs -> PCs] /\ rows \in [Jobs -> SUBSET Rows] /\ row \in [Jobs -> {Null} \cup Rows]
      /\ audioSourceId \in [Jobs -> {Null} \cup Sources] /\ alive \in [Jobs -> SUBSET Results]
      /\ item \in [Jobs -> {Null} \cup Policies \cup Products]
      /\ todo \in [Jobs -> SUBSET (Policies \cup Products)]
  BY Zenon DEF TypeOK
<1>1. CASE Start(j)
  BY Zenon, <1>0, <1>1 DEF Start, Goto, OtherPasses, local, song, conn
<1>2. CASE Dies(j)
  BY Zenon, <1>2, EndsAlone DEF Dies
<1>3. CASE QueryMax(j)
  <2>1. CASE Ends(j) /\ quiet' = {}
    BY Zenon, <1>3, <2>1, EndsAlone DEF QueryMax
  <2>2. CASE Goto(j, "select") /\ Execute(j, "max", {}) /\ UNCHANGED <<local, dirty, quiet>>
    BY Zenon, <1>0, <1>3, <2>2 DEF QueryMax, Goto, Execute, OtherPasses, local, song
  <2>3. QED
    BY Zenon, <1>3, <2>1, <2>2 DEF QueryMax
<1>4. ASSUME NEW S, Select(j, S) PROVE OtherPasses(j)
  <2>1. CASE Ends(j) /\ quiet' \subseteq quiet
    BY Zenon, <1>4, <2>1, EndsAlone DEF Select
  <2>2. CASE /\ rows' = [rows EXCEPT ![j] = Snapshot(S)] /\ Goto(j, "row") /\ Execute(j, "rows", S)
             /\ UNCHANGED <<row, audioSourceId, item, todo, dirty, quiet>>
    BY Zenon, <1>0, <1>4, <2>2 DEF Select, Goto, Execute, OtherPasses
  <2>3. QED
    BY Zenon, <1>4, <2>1, <2>2 DEF Select
<1>5. CASE SelectBatch(j) \/ SelectRecent(j)
  BY Zenon, <1>4, <1>5 DEF SelectBatch, SelectRecent
<1>6. CASE NextRow(j)
  BY Zenon, <1>0, <1>6 DEF NextRow, Goto, OtherPasses, conn
<1>7. CASE LastRow(j)
  BY Zenon, <1>7, EndsAlone DEF LastRow
<1>8. CASE SetHash(j) \/ SetNone(j) \/ AddPay(j) \/ DelNone(j) \/ AddAudio(j)
  BY Zenon, <1>0, <1>8 DEF SetHash, SetNone, AddPay, DelNone, AddAudio, Goto, OtherPasses, local, song, conn, Refused
<1>9. CASE QueryPay(j) \/ QueryAudio(j)
  BY Zenon, <1>0, <1>9 DEF QueryPay, QueryAudio, Execute, ExecuteFails, Goto, OtherPasses, song
<1>10. CASE NextPay(j) \/ NextAudio(j)
  BY Zenon, <1>0, <1>10 DEF NextPay, NextAudio, Goto, OtherPasses, song, conn, Refused
<1>11. CASE LastPay(j) \/ SkipAudio(j) \/ LastAudio(j)
  BY Zenon, <1>0, <1>11 DEF LastPay, SkipAudio, LastAudio, Free, Goto, OtherPasses, local, song, conn
<1>12. QED
  BY Zenon, <1>1, <1>2, <1>3, <1>5, <1>6, <1>7, <1>8, <1>9, <1>10, <1>11 DEF JobStep

(* Nothing is taken away from Redis but "none". *)
LEMMA RedisGrows ==
  ASSUME TypeOK, NEW j \in Jobs, Start(j) \/ JobStep(j) \/ Dies(j)
  PROVE  /\ refused \subseteq refused' /\ audioHash \subseteq audioHash'
         /\ \A r \in Rids : payHash[r] \subseteq payHash'[r] /\ paySet[r] \ {none} \subseteq paySet'[r]
<1> DEFINE Grows == /\ refused \subseteq refused' /\ audioHash \subseteq audioHash'
                    /\ \A r \in Rids : /\ payHash[r] \subseteq payHash'[r]
                                       /\ paySet[r] \ {none} \subseteq paySet'[r]
<1>0. payHash \in [Rids -> SUBSET Policies] /\ paySet \in [Rids -> SUBSET ({none} \cup Policies)]
  BY Zenon DEF TypeOK
<1>1. CASE SetNone(j) \/ AddPay(j) \/ DelNone(j)
  BY Zenon, <1>0, <1>1 DEF SetNone, AddPay, DelNone, AddTo, RemoveFrom, Refused
<1>2. CASE NextPay(j)
  BY Zenon, <1>0, <1>2 DEF NextPay, AddTo, Refused
<1>3. CASE SetHash(j) \/ NextAudio(j) \/ AddAudio(j)
  BY Zenon, <1>3 DEF SetHash, NextAudio, AddAudio, Refused
<1>4. CASE UNCHANGED <<refused, redis>>
  BY Zenon, <1>4 DEF redis
<1>5. QED
  BY Zenon, <1>1, <1>2, <1>3, <1>4 DEF JobStep, Start, QueryMax, SelectBatch, SelectRecent, Select,
     NextRow, LastRow, QueryPay, LastPay, QueryAudio, SkipAudio, LastAudio, Dies

(* The steps by which a pass comes to the places where it has just written. *)
LEMMA Arrivals ==
  ASSUME TypeOK, NEW j \in Jobs, Start(j) \/ JobStep(j) \/ Dies(j)
  PROVE  /\ pc'[j] = "payadd" => NextPay(j)
         /\ pc'[j] = "paydel" => AddPay(j)
         /\ pc'[j] = "audadd" => NextAudio(j)
<1>0. pc \in [Jobs -> PCs]
  BY Zenon DEF TypeOK
<1>1. CASE Start(j) \/ Dies(j) \/ QueryMax(j) \/ SelectBatch(j) \/ SelectRecent(j) \/ NextRow(j) \/ LastRow(j)
  BY Zenon, <1>0, <1>1 DEF Start, Dies, QueryMax, SelectBatch, SelectRecent, Select, NextRow, LastRow, Ends, Goto
<1>2. CASE SetHash(j) \/ QueryPay(j) \/ SetNone(j) \/ DelNone(j) \/ LastPay(j)
  BY Zenon, <1>0, <1>2 DEF SetHash, QueryPay, SetNone, DelNone, LastPay, Goto
<1>3. CASE QueryAudio(j) \/ SkipAudio(j) \/ AddAudio(j) \/ LastAudio(j)
  BY Zenon, <1>0, <1>3 DEF QueryAudio, SkipAudio, AddAudio, LastAudio, Goto
<1>4. CASE NextPay(j) \/ AddPay(j) \/ NextAudio(j)
  BY Zenon, <1>0, <1>4 DEF NextPay, AddPay, NextAudio, Goto
<1>5. QED
  BY Zenon, <1>1, <1>2, <1>3, <1>4 DEF JobStep

(* What one pass needs of the rows it goes through. *)
RowsOf(j) == /\ pc[j] \in {"row"} \cup AtSong => "rows" \in alive[j]
             /\ pc[j] \in AtPay => "pay" \in alive[j]
             /\ pc[j] \in AtAudio => "audio" \in alive[j]

(* A step of the pass keeps them. *)
LEMMA OwnRows ==
  ASSUME TypeOK, NEW j \in Jobs, RowsOf(j), Start(j) \/ JobStep(j) \/ Dies(j)
  PROVE  RowsOf(j)'
<1>0. pc \in [Jobs -> PCs] /\ alive \in [Jobs -> SUBSET Results]
  BY Zenon DEF TypeOK
<1> USE DEF RowsOf, AtSong, AtPay, AtAudio, Goto
<1>1. CASE Start(j)
  BY Zenon, <1>0, <1>1 DEF Start
<1>2. CASE QueryMax(j)
  BY Zenon, <1>0, <1>2 DEF QueryMax, Ends
<1>3. ASSUME NEW S, Select(j, S) PROVE RowsOf(j)'
  BY Zenon, <1>0, <1>3 DEF Select, Execute, Ends
<1>4. CASE SelectBatch(j) \/ SelectRecent(j)
  BY Zenon, <1>3, <1>4 DEF SelectBatch, SelectRecent
<1>5. CASE NextRow(j) \/ SetHash(j) \/ SetNone(j)
  BY Zenon, <1>0, <1>5 DEF NextRow, SetHash, SetNone, conn
<1>6. CASE LastRow(j) \/ Dies(j)
  BY Zenon, <1>0, <1>6 DEF LastRow, Dies, Ends
<1>7. CASE QueryPay(j)
  BY <1>0, <1>7 DEF QueryPay, Execute, ExecuteFails
<1>8. CASE NextPay(j) \/ AddPay(j) \/ DelNone(j)
  BY Zenon, <1>0, <1>8 DEF NextPay, AddPay, DelNone, conn
<1>9. CASE LastPay(j) \/ LastAudio(j)
  BY Zenon, <1>0, <1>9 DEF LastPay, LastAudio, Free
<1>10. CASE QueryAudio(j)
  BY <1>0, <1>10 DEF QueryAudio, Execute, ExecuteFails
<1>11. CASE SkipAudio(j) \/ NextAudio(j) \/ AddAudio(j)
  BY Zenon, <1>0, <1>11 DEF SkipAudio, NextAudio, AddAudio, conn
<1>12. QED
  BY Zenon, <1>1, <1>2, <1>4, <1>5, <1>6, <1>7, <1>8, <1>9, <1>10, <1>11 DEF JobStep

(* Every step keeps the rows that a pass goes through. *)
LEMMA RowsStep ==
  ASSUME TypeOK, IteratedRowsExist, [Next]_vars
  PROVE  IteratedRowsExist'
<1>1. ASSUME NEW j \in Jobs, Start(j) \/ JobStep(j) \/ Dies(j)
      PROVE  IteratedRowsExist'
  <2>1. OtherPasses(j) /\ RowsOf(j)
    BY Zenon, <1>1, PassAlone DEF IteratedRowsExist, RowsOf
  <2>2. RowsOf(j)'
    BY Zenon, <1>1, <2>1, OwnRows
  <2> QED
    BY Zenon, <2>1, <2>2 DEF OtherPasses, IteratedRowsExist, RowsOf
<1>2. CASE UNCHANGED <<pc, alive>>
  BY Zenon, <1>2 DEF IteratedRowsExist
<1>3. QED
  BY Zenon, <1>1, <1>2 DEF Next, Edit, AtRest, vars, conn

(* What a pass knows of the hash it wrote last, and of the set it added to. *)
HashWritten ==
  \A j \in Jobs :
    /\ pc[j] = "payadd" =>
         item[j] \in payHash[row[j].id] \/ <<"pay", row[j].id, item[j]>> \in refused
    /\ pc[j] = "audadd" => item[j] \in audioHash \/ <<"audio", item[j]>> \in refused

PolicyAdded ==
  \A j \in Jobs :
    pc[j] = "paydel" => item[j] \in paySet[row[j].id] \/ <<"add", row[j].id>> \in refused

(* Every step keeps both: nobody takes away what another pass has written. *)
LEMMA WrittenStep ==
  ASSUME TypeOK, HashWritten, PolicyAdded, [Next]_vars
  PROVE  HashWritten' /\ PolicyAdded'
<1>1. ASSUME NEW j \in Jobs, Start(j) \/ JobStep(j) \/ Dies(j)
      PROVE  HashWritten' /\ PolicyAdded'
  <2>1. /\ payHash \in [Rids -> SUBSET Policies] /\ paySet \in [Rids -> SUBSET ({none} \cup Policies)]
        /\ pc \in [Jobs -> PCs] /\ row \in [Jobs -> {Null} \cup Rows]
        /\ item \in [Jobs -> {Null} \cup Policies \cup Products]
        /\ \A k \in Jobs : /\ pc[k] \in {"paynext", "payadd", "paydel"} => row[k].id \in Rids
                           /\ pc[k] = "paydel" => item[k] # none
    BY Zenon, IndexerAssumption DEF TypeOK, AtSong, AtPay, Rows
  <2>2. OtherPasses(j)
    BY Zenon, <1>1, PassAlone
  <2>3. /\ refused \subseteq refused' /\ audioHash \subseteq audioHash'
        /\ \A r \in Rids : payHash[r] \subseteq payHash'[r] /\ paySet[r] \ {none} \subseteq paySet'[r]
    BY Zenon, <1>1, RedisGrows
  <2>4. pc'[j] = "payadd" => item'[j] \in payHash'[row'[j].id] \/ <<"pay", row'[j].id, item'[j]>> \in refused'
    <3>1. SUFFICES ASSUME NextPay(j) 
                   PROVE  item'[j] \in payHash'[row'[j].id] \/ <<"pay", row'[j].id, item'[j]>> \in refused'
      BY Zenon, <1>1, Arrivals
    <3>2. QED
      BY <2>1, <3>1 DEF NextPay, AddTo, Refused, song
  <2>5. pc'[j] = "audadd" => item'[j] \in audioHash' \/ <<"audio", item'[j]>> \in refused'
    <3>1. SUFFICES ASSUME NextAudio(j) PROVE item'[j] \in audioHash' \/ <<"audio", item'[j]>> \in refused'
      BY Zenon, <1>1, Arrivals
    <3>2. QED
      BY Zenon, <2>1, <3>1 DEF NextAudio, Refused
  <2>6. pc'[j] = "paydel" => item'[j] \in paySet'[row'[j].id] \/ <<"add", row'[j].id>> \in refused'
    <3>1. SUFFICES ASSUME AddPay(j) PROVE item'[j] \in paySet'[row'[j].id] \/ <<"add", row'[j].id>> \in refused'
      BY Zenon, <1>1, Arrivals
    <3>2. QED
      BY <2>1, <3>1 DEF AddPay, AddTo, Refused, local, song
  <2>7. HashWritten'
    BY <2>1, <2>2, <2>3, <2>4, <2>5 DEF OtherPasses, HashWritten
  <2>8. PolicyAdded'
    BY <2>1, <2>2, <2>3, <2>6 DEF OtherPasses, PolicyAdded
  <2>9. QED
    BY Zenon, <2>7, <2>8
<1>2. CASE UNCHANGED <<redis, pc, local, refused>>
  BY Zenon, <1>2 DEF HashWritten, PolicyAdded, redis, local, song
<1>3. QED
  BY Zenon, <1>1, <1>2 DEF Next, Edit, AtRest, vars

(* Every step keeps references resolved: most leave Redis alone or add a hash,
   and the ones that add to a set come after the hash. *)
LEMMA RefsStep ==
  ASSUME TypeOK, HashWritten, ReferencesResolve, [Next]_vars
  PROVE  ReferencesResolve'
<1> DEFINE PayResolved(r, p) == p \in payHash[r] \/ <<"pay", r, p>> \in refused
           AudioResolved(a) == a \in audioHash \/ <<"audio", a>> \in refused
<1>1. ASSUME UNCHANGED <<paySet, audioSet, audioHash>>, refused \subseteq refused',
             \A r \in Rids : payHash[r] \subseteq payHash'[r]
      PROVE  ReferencesResolve'
  BY Zenon, <1>1 DEF ReferencesResolve
<1>2. ASSUME UNCHANGED <<paySet, audioSet, payHash>>, refused \subseteq refused',
             audioHash \subseteq audioHash'
      PROVE  ReferencesResolve'
  BY Zenon, <1>2 DEF ReferencesResolve
<1>3. ASSUME NEW r \in Rids, NEW p, p = none \/ PayResolved(r, p),
             paySet' = [paySet EXCEPT ![r] = @ \cup {p}] \/ paySet' = [paySet EXCEPT ![r] = @ \ {p}],
             UNCHANGED <<payHash, audioHash, audioSet, refused>>
      PROVE  ReferencesResolve'
  <2>1. paySet \in [Rids -> SUBSET ({none} \cup Policies)]
    BY Zenon DEF TypeOK
  <2>2. \A s \in Rids : \A q \in paySet'[s] : q \in paySet[s] \/ (s = r /\ q = p)
    BY Zenon, <1>3, <2>1
  <2> QED
    BY Zenon, <1>3, <2>2 DEF ReferencesResolve
<1>4. ASSUME NEW r \in Rids, NEW a, AudioResolved(a),
             audioSet' = [audioSet EXCEPT ![r] = @ \cup {a}],
             UNCHANGED <<payHash, audioHash, paySet, refused>>
      PROVE  ReferencesResolve'
  <2>1. audioSet \in [Rids -> SUBSET Products]
    BY Zenon DEF TypeOK
  <2>2. \A s \in Rids : \A b \in audioSet'[s] : b \in audioSet[s] \/ b = a
    BY Zenon, <1>4, <2>1
  <2> QED
    BY Zenon, <1>4, <2>2 DEF ReferencesResolve
<1>5. ASSUME NEW j \in Jobs, Start(j) \/ JobStep(j) \/ Dies(j)
      PROVE  ReferencesResolve'
  <2>0. pc[j] \in AtSong => row[j].id \in Rids
    BY Zenon, <1>5 DEF TypeOK, Rows
  <2>1. CASE SetHash(j)
    BY Zenon, <1>1, <2>1 DEF SetHash, Refused
  <2>2. CASE SetNone(j)
    BY Zenon, <1>1, <1>3, <2>0, <2>2 DEF SetNone, Refused, AddTo, AtSong
  <2>3. CASE NextPay(j)
    <3>1. payHash \in [Rids -> SUBSET Policies] /\ row[j].id \in Rids
      BY Zenon, <2>0, <2>3 DEF NextPay, TypeOK, AtSong, AtPay
    <3>2. PICK p \in todo[j] : payHash' = AddTo(payHash, row[j].id, p) \/ UNCHANGED payHash
      BY Zenon, <2>3 DEF NextPay
    <3>3. \A r \in Rids : payHash[r] \subseteq payHash'[r]
      BY Zenon, <3>1, <3>2 DEF AddTo
    <3> QED
      BY Zenon, <1>1, <2>3, <3>3 DEF NextPay, Refused
  <2>4. CASE AddPay(j)
    <3>1. row[j].id \in Rids /\ PayResolved(row[j].id, item[j])
      BY Zenon, <1>5, <2>0, <2>4 DEF AddPay, HashWritten, AtSong, AtPay
    <3> QED
      BY Zenon, <1>1, <1>3, <2>4, <3>1 DEF AddPay, Refused, AddTo
  <2>5. CASE DelNone(j)
    BY Zenon, <1>1, <1>3, <2>0, <2>5 DEF DelNone, Refused, RemoveFrom, AtSong, AtPay
  <2>6. CASE NextAudio(j)
    BY Zenon, <1>2, <2>6 DEF NextAudio, Refused
  <2>7. CASE AddAudio(j)
    <3>1. row[j].id \in Rids /\ AudioResolved(item[j])
      BY Zenon, <1>5, <2>0, <2>7 DEF AddAudio, HashWritten, AtSong, AtAudio
    <3> QED
      BY Zenon, <1>1, <1>4, <2>7, <3>1 DEF AddAudio, Refused, AddTo
  <2>8. CASE Start(j) \/ QueryMax(j) \/ SelectBatch(j) \/ SelectRecent(j) \/ NextRow(j) \/ LastRow(j) \/ QueryPay(j)
             \/ LastPay(j) \/ QueryAudio(j) \/ SkipAudio(j) \/ LastAudio(j) \/ Dies(j)
    BY Zenon, <1>1, <2>8 DEF Start, QueryMax, SelectBatch, SelectRecent, Select, NextRow, LastRow, QueryPay, LastPay, QueryAudio,
       SkipAudio, LastAudio, Dies, redis
  <2> QED
    BY Zenon, <1>5, <2>1, <2>2, <2>3, <2>4, <2>5, <2>6, <2>7, <2>8 DEF JobStep
<1>6. CASE Edit \/ UNCHANGED vars
  BY Zenon, <1>1, <1>6 DEF Edit, vars, redis
<1> QED
  BY Zenon, <1>5, <1>6 DEF Next, AtRest

(* No step empties the set of policies of a song: only DelNone removes, and the
   policy it added is there. *)
LEMMA KnownStep ==
  ASSUME TypeOK, PolicyAdded, [Next]_vars, NEW r \in Rids, paySet[r] # {}, <<"add", r>> \notin refused
  PROVE  paySet'[r] # {}
<1>0. paySet \in [Rids -> SUBSET ({none} \cup Policies)]
  BY Zenon DEF TypeOK
<1>1. ASSUME NEW j \in Jobs, Start(j) \/ JobStep(j) \/ Dies(j)
      PROVE  paySet'[r] # {}
  <2>1. CASE SetNone(j)
    BY Zenon, <1>0, <2>1 DEF SetNone, AddTo
  <2>2. CASE AddPay(j)
    BY Zenon, <1>0, <2>2 DEF AddPay, AddTo
  <2>3. CASE DelNone(j)
    <3>1. CASE row[j].id # r \/ UNCHANGED paySet
      BY Zenon, <1>0, <2>3, <3>1 DEF DelNone, RemoveFrom
    <3>2. CASE row[j].id = r /\ paySet' = [paySet EXCEPT ![row[j].id] = @ \ {none}]
      <4>1. item[j] \in paySet[r] /\ item[j] # none
        BY Zenon, <1>1, <2>3, <3>2, IndexerAssumption DEF DelNone, PolicyAdded, TypeOK
      <4> QED
        BY Zenon, <1>0, <3>2, <4>1
    <3> QED
      BY Zenon, <2>3, <3>1, <3>2 DEF DelNone, RemoveFrom
  <2>4. CASE UNCHANGED paySet
    BY Zenon, <2>4
  <2> QED
    BY Zenon, <1>1, <2>1, <2>2, <2>3, <2>4 DEF JobStep, Start, QueryMax, SelectBatch, SelectRecent, Select, NextRow, LastRow, SetHash,
       QueryPay, NextPay, LastPay, QueryAudio, SkipAudio, NextAudio, AddAudio, LastAudio, Dies, redis
<1>2. CASE Edit \/ UNCHANGED vars
  BY Zenon, <1>2 DEF Edit, vars, redis
<1> QED
  BY Zenon, <1>1, <1>2 DEF Next, AtRest

(* What holds in every state: the properties, and the two facts about what a pass
   has just written, without which they are not inductive. *)
IndexerInv == TypeOK /\ IteratedRowsExist /\ HashWritten /\ PolicyAdded /\ ReferencesResolve

(* All of it holds in the beginning. *)
LEMMA InitInv == Init => IndexerInv
<1> SUFFICES ASSUME Init PROVE IndexerInv
  OBVIOUS
<1>1. TypeOK
  BY Zenon DEF Init, TypeOK, PCs, AtSong, AtPay, AtAudio, Results
<1>2. IteratedRowsExist /\ HashWritten /\ PolicyAdded /\ ReferencesResolve
  BY Zenon DEF Init, IteratedRowsExist, HashWritten, PolicyAdded, ReferencesResolve, AtSong, AtPay, AtAudio
<1> QED
  BY Zenon, <1>1, <1>2 DEF IndexerInv

(* And always. *)
LEMMA Invariance == Spec => []IndexerInv
<1>1. IndexerInv /\ [Next]_vars => IndexerInv'
  BY Zenon, TypeStep, RowsStep, WrittenStep, RefsStep DEF IndexerInv
<1> QED
  BY InitInv, <1>1, PTL DEF Spec

(* The types, which say that a pass has a song in hand wherever it uses one
   (indexer.cpp:187-313). *)
THEOREM TypeCorrect == Spec => []TypeOK
BY Invariance, PTL DEF IndexerInv

(* The rows that a pass goes through exist (mysqlconn.cpp:165), for any number
   of rows and queries. *)
THEOREM RowsExist == Spec => []IteratedRowsExist
BY Invariance, PTL DEF IndexerInv

(* A policy or product in a song's set has its hash, unless Redis refused it
   (indexer.cpp:238-248 and 294-302): for any number of programs that run side by
   side and die anywhere. *)
THEOREM Resolved == Spec => []ReferencesResolve
BY Invariance, PTL DEF IndexerInv

(* A song's set of policies never becomes empty again (indexer.cpp:243-248). *)
THEOREM PayKnown == Spec => PayStaysKnown
<1>1. IndexerInv /\ [Next]_vars =>
        [\A r \in Rids : paySet[r] # {} /\ <<"add", r>> \notin refused => paySet'[r] # {}]_vars
  BY Zenon, KnownStep DEF IndexerInv
<1> QED
  BY Invariance, <1>1, PTL DEF Spec, PayStaysKnown

(* What a song's data in Redis have to do with MySQL. *)
HashDone(r) == songHash[r] = AsText(music[r].name)
PayDone(r) == pay[r] \subseteq paySet[r] /\ (none \in paySet[r] <=> pay[r] = {})
AudioDone(r) == music[r].source # Null => ProductsOf[music[r].source] \subseteq audioSet[r]
Done(r) == HashDone(r) /\ PayDone(r) /\ AudioDone(r)

(* What a pass goes by is what MySQL has. *)
IsCurrent(x) == x.name = music[x.id].name /\ x.source = music[x.id].source

Current(j) ==
  /\ \A x \in rows[j] : IsCurrent(x)
  /\ pc[j] \in AtSong => /\ IsCurrent(row[j])
                         /\ row[j].source # Null => audioSourceId[j] = row[j].source
  /\ pc[j] = "none" => pay[row[j].id] = {}
  /\ pc[j] \in AtPay => todo[j] \subseteq pay[row[j].id] /\ pay[row[j].id] # {}
  /\ pc[j] \in {"payadd", "paydel"} => item[j] \in pay[row[j].id]

(* A pass that began after the last edit, and had no error from MySQL, goes by
   what MySQL has; while some pass is quiet, all passes are like that. *)
AllCurrent == /\ quiet # {} => dirty = {}
              /\ \A j \in Jobs : pc[j] = "idle" => rows[j] = {}
              /\ \A j \in Jobs \ dirty : Current(j)

(* What is still to be added to a set. *)
Pending(j) == IF pc[j] \in {"payadd", "audadd"} THEN todo[j] \cup {item[j]} ELSE todo[j]

(* How far a pass is with the song at hand. *)
InWork(j, r) ==
  /\ r = row[j].id
  /\ pc[j] # "hash" => HashDone(r)
  /\ pc[j] \in AtPay => pay[r] \ Pending(j) \subseteq paySet[r]
  /\ pc[j] = "paynext" => todo[j] = pay[r] \/ none \notin paySet[r]
  /\ pc[j] \in {"audio"} \cup AtAudio => PayDone(r)
  /\ pc[j] \in AtAudio /\ music[r].source # Null
       => ProductsOf[music[r].source] \ Pending(j) \subseteq audioSet[r]

(* A quiet full pass has every song of the batch before it, at hand or behind it. *)
Covered(j) ==
  \A r \in FirstBatch :
    /\ pc[j] = "idle" => Done(r)
    /\ pc[j] \in {"row"} \cup AtSong => \/ Done(r)
                                        \/ \E x \in rows[j] : x.id = r
                                        \/ pc[j] \in AtSong /\ InWork(j, r)

AllCovered == \A j \in Full \cap quiet : Covered(j)

(* A pass goes by what MySQL has, if it did so before. *)
LEMMA OwnCurrent ==
  ASSUME TypeOK, NEW j \in Jobs, Start(j) \/ JobStep(j) \/ Dies(j),
         pc[j] = "idle" => rows[j] = {}, j \notin dirty => Current(j)
  PROVE  (pc'[j] = "idle" => rows'[j] = {}) /\ (j \notin dirty' => Current(j)')
<1> DEFINE Good == (pc'[j] = "idle" => rows'[j] = {}) /\ (j \notin dirty' => Current(j)')
<1> SUFFICES Good
  OBVIOUS
<1> USE DEF AtSong, AtPay, AtAudio, db
<1>0. /\ pc \in [Jobs -> PCs] /\ rows \in [Jobs -> SUBSET Rows] /\ row \in [Jobs -> {Null} \cup Rows]
      /\ audioSourceId \in [Jobs -> {Null} \cup Sources]
      /\ item \in [Jobs -> {Null} \cup Policies \cup Products]
      /\ todo \in [Jobs -> SUBSET (Policies \cup Products)]
  BY Zenon DEF TypeOK
<1>1. ASSUME Ends(j) PROVE Good
  BY Zenon, <1>0, <1>1 DEF Ends, Goto, Current
<1>2. CASE Start(j)
  BY Zenon, <1>0, <1>2 DEF Start, Goto, Current, local, song, IsCurrent
<1>3. CASE Dies(j) \/ LastRow(j)
  BY Zenon, <1>1, <1>3 DEF Dies, LastRow
<1>4. CASE QueryMax(j)
  BY Zenon, <1>0, <1>1, <1>4 DEF QueryMax, Goto, Current, local, song, IsCurrent
<1>5. ASSUME NEW S \in SUBSET Rids, Select(j, S) PROVE Good
  <2>1. CASE /\ rows' = [rows EXCEPT ![j] = Snapshot(S)] /\ Goto(j, "row")
    <3>1. \A x \in Snapshot(S) : IsCurrent(x)
      BY DEF Snapshot, IsCurrent
    <3>2. QED
      BY Zenon, <1>0, <1>5, <2>1, <3>1 DEF Select, Goto, Current, IsCurrent
  <2>2. QED
    BY Zenon, <1>1, <1>5, <2>1 DEF Select
<1>6. CASE SelectBatch(j) \/ SelectRecent(j)
  BY Zenon, <1>5, <1>6, IndexerAssumption DEF SelectBatch, SelectRecent
<1>7. CASE NextRow(j)
  BY <1>0, <1>7 DEF NextRow, Goto, Current, IsCurrent, AsNumber
<1>8. CASE SetHash(j) \/ SetNone(j) \/ AddPay(j) \/ DelNone(j) \/ AddAudio(j)
  BY Zenon, <1>0, <1>8 DEF SetHash, SetNone, AddPay, DelNone, AddAudio, Goto, Current, IsCurrent, local, song
<1>9. CASE QueryPay(j)
  BY Zenon, <1>0, <1>9 DEF QueryPay, ExecuteFails, Goto, Current, IsCurrent, song
<1>10. CASE QueryAudio(j)
  BY Zenon, <1>0, <1>10 DEF QueryAudio, ExecuteFails, Goto, Current, IsCurrent, song
<1>11. CASE NextPay(j)
  BY Zenon, <1>0, <1>11 DEF NextPay, Goto, Current, IsCurrent, song
<1>12. CASE NextAudio(j)
  BY Zenon, <1>0, <1>12 DEF NextAudio, Goto, Current, IsCurrent, song
<1>13. CASE LastPay(j) \/ SkipAudio(j) \/ LastAudio(j)
  BY Zenon, <1>0, <1>13 DEF LastPay, SkipAudio, LastAudio, Goto, Current, IsCurrent, local, song
<1>14. QED
  BY Zenon, <1>2, <1>3, <1>4, <1>6, <1>7, <1>8, <1>9, <1>10, <1>11, <1>12, <1>13 DEF JobStep

(* What Redis has of a song as MySQL has it stays. *)
Kept == \A r \in Rids :
  /\ HashDone(r) => songHash'[r] = AsText(music[r].name)
  /\ pay[r] \cap paySet[r] \subseteq paySet'[r]
  /\ pay[r] = {} /\ none \in paySet[r] => none \in paySet'[r]
  /\ pay[r] # {} /\ none \notin paySet[r] => none \notin paySet'[r]
  /\ audioSet[r] \subseteq audioSet'[r]

LEMMA CurrentKeeps ==
  ASSUME TypeOK, NEW j \in Jobs, Start(j) \/ JobStep(j) \/ Dies(j), Current(j)
  PROVE  Kept
<1>0. /\ songHash \in [Rids -> {Null} \cup Words]
      /\ paySet \in [Rids -> SUBSET ({none} \cup Policies)]
      /\ audioSet \in [Rids -> SUBSET Products] /\ pay \in [Rids -> SUBSET Policies]
      /\ none \notin Policies
  BY Zenon, IndexerAssumption DEF TypeOK
<1>1. pc[j] \in AtSong => row[j].id \in Rids /\ row[j].name = music[row[j].id].name
  BY Zenon DEF TypeOK, Rows, Current, IsCurrent
<1> USE DEF AtSong, AtPay, AtAudio
<1>2. CASE SetHash(j)
  BY Zenon, <1>0, <1>1, <1>2 DEF SetHash, Kept, HashDone, AsText
<1>3. CASE SetNone(j)
  <2>1. /\ pay[row[j].id] = {} /\ UNCHANGED <<songHash, audioSet>>
        /\ paySet' = paySet \/ paySet' = [paySet EXCEPT ![row[j].id] = @ \cup {none}]
    BY Zenon, <1>3 DEF SetNone, AddTo, Current
  <2>2. QED
    BY Zenon, <1>0, <1>1, <1>3, <2>1 DEF Kept, HashDone, SetNone
<1>4. CASE AddPay(j)
  <2>1. /\ item[j] \in pay[row[j].id] /\ UNCHANGED <<songHash, audioSet>>
        /\ paySet' = paySet \/ paySet' = [paySet EXCEPT ![row[j].id] = @ \cup {item[j]}]
    BY Zenon, <1>4 DEF AddPay, AddTo, Current
  <2>2. QED
    BY <1>0, <1>1, <1>4, <2>1 DEF Kept, HashDone, AddPay
<1>5. CASE DelNone(j)
  <2>1. /\ pay[row[j].id] # {} /\ UNCHANGED <<songHash, audioSet>>
        /\ paySet' = paySet \/ paySet' = [paySet EXCEPT ![row[j].id] = @ \ {none}]
    BY Zenon, <1>5 DEF DelNone, RemoveFrom, Current
  <2>2. QED
    BY ZenonT(60), <1>0, <1>1, <1>5, <2>1 DEF Kept, HashDone, DelNone
<1>6. CASE AddAudio(j)
  <2>1. /\ UNCHANGED <<songHash, paySet>>
        /\ audioSet' = audioSet \/ audioSet' = [audioSet EXCEPT ![row[j].id] = @ \cup {item[j]}]
    BY Zenon, <1>6 DEF AddAudio, AddTo
  <2>2. QED
    BY Zenon, <1>0, <1>1, <1>6, <2>1 DEF Kept, HashDone, AddAudio
<1>7. CASE UNCHANGED <<songHash, paySet, audioSet>>
  BY Zenon, <1>7 DEF Kept, HashDone
<1>8. QED
  BY Zenon, <1>2, <1>3, <1>4, <1>5, <1>6, <1>7 DEF JobStep, Start, QueryMax, SelectBatch,
     SelectRecent, Select, NextRow, LastRow, QueryPay, NextPay, LastPay, QueryAudio, SkipAudio,
     NextAudio, LastAudio, Dies, redis

LEMMA DoneStays ==
  ASSUME TypeOK, Kept, UNCHANGED db, NEW r \in Rids
  PROVE  /\ HashDone(r) => HashDone(r)'
         /\ PayDone(r) => PayDone(r)'
         /\ Done(r) => Done(r)'
<1>1. HashDone(r) => HashDone(r)'
  BY Zenon DEF Kept, HashDone, db, AsText
<1>2. PayDone(r) => PayDone(r)'
  BY Zenon DEF Kept, PayDone, db, TypeOK
<1>3. AudioDone(r) => AudioDone(r)'
  BY Zenon DEF Kept, AudioDone, db
<1>4. QED
  BY Zenon, <1>1, <1>2, <1>3 DEF Done

(* The pass that does not move has its songs where they were. *)
LEMMA OthersCovered ==
  ASSUME TypeOK, Kept, UNCHANGED db, NEW k \in Jobs, Covered(k), Current(k),
         pc'[k] = pc[k], rows'[k] = rows[k], row'[k] = row[k], item'[k] = item[k], todo'[k] = todo[k]
  PROVE  Covered(k)'
<1>1. ASSUME NEW r \in Rids, InWork(k, r), pc[k] \in AtSong PROVE InWork(k, r)'
  <2>1. HashDone(r) => HashDone(r)'
    BY Zenon, DoneStays
  <2>2. PayDone(r) => PayDone(r)'
    BY Zenon, DoneStays
  <2>3. Pending(k)' = Pending(k)
    BY Zenon DEF Pending
  <2>4. pc[k] \in AtPay => pay[r] \ Pending(k) \subseteq paySet'[r]
    BY Zenon, <1>1 DEF Kept, InWork
  <2>5. pc[k] = "paynext" => todo[k] = pay[r] \/ none \notin paySet'[r]
    BY Zenon, <1>1 DEF Kept, InWork, Current, AtPay
  <2>6. pc[k] \in AtAudio /\ music[r].source # Null
          => ProductsOf[music[r].source] \ Pending(k) \subseteq audioSet'[r]
    BY Zenon, <1>1 DEF Kept, InWork
  <2>7. QED
    BY Zenon, <1>1, <2>1, <2>2, <2>3, <2>4, <2>5, <2>6 DEF InWork, db
<1>2. QED
  BY Zenon, <1>1, DoneStays, IndexerAssumption DEF Covered

(* A step that stays with the song or ends with it done. *)
LEMMA SongCovered ==
  ASSUME TypeOK, Kept, UNCHANGED db, NEW j \in Jobs, Covered(j), pc[j] \in AtSong,
         rows'[j] = rows[j], pc'[j] \in {"row"} \cup AtSong,
         \A r \in Rids : InWork(j, r) => Done(r)' \/ (pc'[j] \in AtSong /\ InWork(j, r)')
  PROVE  Covered(j)'
<1>1. pc'[j] # "idle"
  BY Zenon DEF AtSong, AtPay, AtAudio
<1>2. \A r \in FirstBatch : r \in Rids /\ (Done(r) => Done(r)')
  BY Zenon, DoneStays, IndexerAssumption
<1>3. QED
  BY Zenon, <1>1, <1>2 DEF Covered

(* The song that a pass has at hand, and a step that keeps it and finds neither
   MySQL nor Redis failing. *)
AtHand(j, r) ==
  /\ pc \in [Jobs -> PCs] /\ todo \in [Jobs -> SUBSET (Policies \cup Products)]
  /\ item \in [Jobs -> {Null} \cup Policies \cup Products]
  /\ songHash \in [Rids -> {Null} \cup Words] /\ paySet \in [Rids -> SUBSET ({none} \cup Policies)]
  /\ audioSet \in [Rids -> SUBSET Products]
  /\ pay[r] \subseteq Policies /\ row[j].id = r

Smooth(j, r) ==
  /\ pay' = pay /\ music' = music /\ row'[j].id = r
  /\ \A keys : ~Refused(j, keys)
  /\ \A k : ~ExecuteFails(j, k)
  /\ HashDone(r) => HashDone(r)'
  /\ PayDone(r) => PayDone(r)'

(* The steps with the song at hand: up to its policies, and with its products. *)
PayStep(j) == \/ SetHash(j) \/ QueryPay(j) \/ SetNone(j) \/ NextPay(j) \/ AddPay(j) \/ DelNone(j)
              \/ LastPay(j)
AudioStep(j) == QueryAudio(j) \/ SkipAudio(j) \/ NextAudio(j) \/ AddAudio(j) \/ LastAudio(j)

(* What the song at hand has come to, place by place. *)
LEMMA FromWork ==
  ASSUME NEW j \in Jobs, NEW r \in Rids, AtHand(j, r), Smooth(j, r), Current(j), InWork(j, r), pc[j] \in AtSong
  PROVE  /\ pc[j] # "hash" => HashDone(r)'
         /\ row[j].name = music[r].name
         /\ music[r].source # Null => audioSourceId[j] = music[r].source
         /\ pc[j] = "none" => pay[r] = {}
         /\ pc[j] = "paynext" => /\ pay[r] # {} /\ pay[r] \ todo[j] \subseteq paySet[r]
                                 /\ todo[j] = pay[r] \/ none \notin paySet[r]
         /\ pc[j] = "payadd" => pay[r] \ (todo[j] \cup {item[j]}) \subseteq paySet[r]
         /\ pc[j] = "paydel" => pay[r] \ todo[j] \subseteq paySet[r]
         /\ pc[j] \in {"audio", "audnext", "audadd"} => PayDone(r)'
         /\ music[r].source # Null =>
              /\ pc[j] = "audnext" => ProductsOf[music[r].source] \ todo[j] \subseteq audioSet[r]
              /\ pc[j] = "audadd" => ProductsOf[music[r].source] \ (todo[j] \cup {item[j]}) \subseteq audioSet[r]
<1>1. /\ row[j].name = music[r].name /\ (music[r].source # Null => audioSourceId[j] = music[r].source)
      /\ pc[j] = "none" => pay[r] = {}
      /\ pc[j] = "paynext" => pay[r] # {}
  BY Zenon DEF Current, IsCurrent, AtHand, AtSong, AtPay
<1>2. QED
  BY Zenon, <1>1 DEF InWork, Pending, Smooth, AtPay, AtAudio

(* And what shows that it is in work after a step. *)
LEMMA IntoWork ==
  ASSUME NEW j, NEW r, row'[j].id = r, HashDone(r)',
         \/ pc'[j] \in {"pay", "none"}
         \/ pc'[j] = "paynext" /\ pay'[r] \ todo'[j] \subseteq paySet'[r]
            /\ (todo'[j] = pay'[r] \/ none \notin paySet'[r])
         \/ pc'[j] = "payadd" /\ pay'[r] \ (todo'[j] \cup {item'[j]}) \subseteq paySet'[r]
         \/ pc'[j] = "paydel" /\ pay'[r] \ todo'[j] \subseteq paySet'[r]
  PROVE  pc'[j] \in AtSong /\ InWork(j, r)'
BY Zenon DEF InWork, Pending, AtSong, AtPay, AtAudio

LEMMA IntoProducts ==
  ASSUME NEW j, NEW r, row'[j].id = r, HashDone(r)', PayDone(r)',
         pc'[j] \in {"audio", "audnext", "audadd"},
         music'[r].source # Null =>
           /\ pc'[j] = "audnext" => ProductsOf[music'[r].source] \ todo'[j] \subseteq audioSet'[r]
           /\ pc'[j] = "audadd" => ProductsOf[music'[r].source] \ (todo'[j] \cup {item'[j]}) \subseteq audioSet'[r]
  PROVE  pc'[j] \in AtSong /\ InWork(j, r)'
BY Zenon DEF InWork, Pending, AtSong, AtPay, AtAudio

(* The song at hand, up to its policies: what is in work stays so. *)
LEMMA PayWork ==
  ASSUME NEW j \in Jobs, NEW r \in Rids, AtHand(j, r), Smooth(j, r), Current(j), InWork(j, r), PayStep(j)
  PROVE  pc'[j] \in AtSong /\ InWork(j, r)'
<1>0. pc[j] \in AtSong
  BY Zenon DEF PayStep, SetHash, QueryPay, SetNone, NextPay, AddPay, DelNone, LastPay, AtSong, AtPay
<1>1. /\ pc[j] # "hash" => HashDone(r)'
      /\ row[j].name = music[r].name
      /\ pc[j] = "none" => pay[r] = {}
      /\ pc[j] = "paynext" => /\ pay[r] # {} /\ pay[r] \ todo[j] \subseteq paySet[r]
                              /\ todo[j] = pay[r] \/ none \notin paySet[r]
      /\ pc[j] = "payadd" => pay[r] \ (todo[j] \cup {item[j]}) \subseteq paySet[r]
      /\ pc[j] = "paydel" => pay[r] \ todo[j] \subseteq paySet[r]
  BY Zenon, <1>0, FromWork
<1>2. row'[j].id = r /\ pay' = pay
  BY Zenon DEF Smooth
<1>3. CASE SetHash(j)
  <2>1. songHash' = [songHash EXCEPT ![r] = AsText(row[j].name)] /\ pc'[j] = "pay"
    BY Zenon, <1>3 DEF SetHash, Goto, AtHand, Smooth
  <2>2. HashDone(r)'
    BY Zenon, <1>1, <2>1 DEF HashDone, AsText, AtHand, Smooth
  <2>3. QED
    BY Zenon, <1>2, <2>1, <2>2, IntoWork
<1>4. CASE QueryPay(j)
  <2>1. todo'[j] = pay[r] /\ pc'[j] \in {"none", "paynext"} /\ HashDone(r)'
    BY Zenon, <1>1, <1>4 DEF QueryPay, Goto, AtHand, Smooth
  <2>2. QED
    BY Zenon, <1>2, <2>1, IntoWork
<1>5. CASE SetNone(j)
  <2>1. paySet' = [paySet EXCEPT ![r] = @ \cup {none}] /\ pay[r] = {} /\ pc'[j] = "audio" /\ HashDone(r)'
    BY Zenon, <1>1, <1>5 DEF SetNone, Goto, AddTo, AtHand, Smooth
  <2>2. PayDone(r)'
    BY Zenon, <2>1 DEF PayDone, AtHand, Smooth
  <2>3. QED
    BY Zenon, <1>2, <2>1, <2>2, IntoProducts
<1>6. CASE NextPay(j)
  <2>1. PICK p \in todo[j] : item'[j] = p /\ todo'[j] = todo[j] \ {p}
    BY <1>6, Zenon DEF NextPay, AtHand
  <2>2. /\ pc'[j] = "payadd" /\ paySet' = paySet /\ HashDone(r)'
        /\ pay[r] \ todo[j] \subseteq paySet[r]
    BY Zenon, <1>1, <1>6 DEF NextPay, Goto, AtHand
  <2>3. pay[r] \ (todo'[j] \cup {item'[j]}) \subseteq paySet'[r]
    BY Zenon, <2>1, <2>2
  <2>4. QED
    BY Zenon, <1>2, <2>2, <2>3, IntoWork
<1>7. CASE AddPay(j)
  <2>1. /\ paySet' = [paySet EXCEPT ![r] = @ \cup {item[j]}] /\ todo' = todo /\ pc'[j] = "paydel"
        /\ HashDone(r)' /\ pay[r] \ (todo[j] \cup {item[j]}) \subseteq paySet[r]
    BY Zenon, <1>1, <1>7 DEF AddPay, Goto, AddTo, local, AtHand, Smooth
  <2>2. pay[r] \ todo'[j] \subseteq paySet'[r]
    BY Zenon, <2>1 DEF AtHand
  <2>3. QED
    BY Zenon, <1>2, <2>1, <2>2, IntoWork
<1>8. CASE DelNone(j)
  <2>1. /\ paySet' = [paySet EXCEPT ![r] = @ \ {none}] /\ todo' = todo /\ pc'[j] = "paynext"
        /\ HashDone(r)' /\ pay[r] \ todo[j] \subseteq paySet[r]
    BY Zenon, <1>1, <1>8 DEF DelNone, Goto, RemoveFrom, local, AtHand, Smooth
  <2>2. pay[r] \ todo'[j] \subseteq paySet'[r] /\ none \notin paySet'[r]
    BY Zenon, <2>1, IndexerAssumption DEF AtHand
  <2>3. QED
    BY Zenon, <1>2, <2>1, <2>2, IntoWork
<1>9. CASE LastPay(j)
  <2>1. pay[r] # {} /\ pay[r] \subseteq paySet[r] /\ none \notin paySet[r] /\ HashDone(r)'
    BY Zenon, <1>1, <1>9 DEF LastPay
  <2>2. pc'[j] = "audio" /\ paySet' = paySet
    BY Zenon, <1>9 DEF LastPay, Goto, redis, AtHand
  <2>3. PayDone(r)'
    BY Zenon, <1>2, <2>1, <2>2 DEF PayDone
  <2>4. QED
    BY Zenon, <1>2, <2>1, <2>2, <2>3, IntoProducts
<1>10. QED
  BY <1>3, <1>4, <1>5, <1>6, <1>7, <1>8, <1>9, Zenon DEF PayStep

(* The song at hand with its products: it stays in work or is done. *)
LEMMA AudioWork ==
  ASSUME NEW j \in Jobs, NEW r \in Rids, AtHand(j, r), Smooth(j, r), Current(j), InWork(j, r), AudioStep(j)
  PROVE  Done(r)' \/ (pc'[j] \in AtSong /\ InWork(j, r)')
<1> DEFINE Stays == Done(r)' \/ (pc'[j] \in AtSong /\ InWork(j, r)')
<1> HIDE DEF Stays
<1> SUFFICES Stays
  BY Zenon DEF Stays
<1>0. pc[j] \in {"audio", "audnext", "audadd"} /\ pc[j] \in AtSong
  BY Zenon DEF AudioStep, QueryAudio, SkipAudio, NextAudio, AddAudio, LastAudio, AtSong, AtAudio
<1>1. /\ HashDone(r)' /\ PayDone(r)'
      /\ music[r].source # Null =>
           /\ audioSourceId[j] = music[r].source
           /\ pc[j] = "audnext" => ProductsOf[music[r].source] \ todo[j] \subseteq audioSet[r]
           /\ pc[j] = "audadd" => ProductsOf[music[r].source] \ (todo[j] \cup {item[j]}) \subseteq audioSet[r]
  BY Zenon, <1>0, FromWork
<1>2. row'[j].id = r /\ music' = music
  BY Zenon DEF Smooth
<1>3. AudioDone(r)' => Stays
  BY Zenon, <1>1 DEF Done, Stays
<1>4. ASSUME pc'[j] \in {"audnext", "audadd"},
             music[r].source # Null =>
               /\ pc'[j] = "audnext" => ProductsOf[music[r].source] \ todo'[j] \subseteq audioSet'[r]
               /\ pc'[j] = "audadd" => ProductsOf[music[r].source] \ (todo'[j] \cup {item'[j]}) \subseteq audioSet'[r]
      PROVE  Stays
  BY Zenon, <1>1, <1>2, <1>4, IntoProducts DEF Stays
<1>5. CASE QueryAudio(j)
  <2>1. /\ todo'[j] = ProductsOf[audioSourceId[j]]
        /\ pc'[j] = IF todo'[j] = {} THEN "row" ELSE "audnext"
    BY Zenon, <1>5 DEF QueryAudio, Goto, AtHand, Smooth
  <2>2. CASE todo'[j] = {}
    BY <1>1, <1>2, <1>3, <2>1, <2>2, Zenon DEF AudioDone
  <2>3. CASE todo'[j] # {}
    BY Zenon, <1>1, <1>4, <2>1, <2>3
  <2>4. QED
    BY Zenon, <2>2, <2>3
<1>6. CASE SkipAudio(j)
  BY Zenon, <1>1, <1>2, <1>3, <1>6 DEF SkipAudio, AudioDone
<1>7. CASE NextAudio(j)
  <2>1. PICK p \in todo[j] : item'[j] = p /\ todo'[j] = todo[j] \ {p}
    BY <1>7, Zenon DEF NextAudio, AtHand
  <2>2. pc[j] = "audnext" /\ pc'[j] = "audadd" /\ audioSet' = audioSet
    BY Zenon, <1>7 DEF NextAudio, Goto, AtHand
  <2>3. QED
    BY Zenon, <1>1, <1>4, <2>1, <2>2
<1>8. CASE AddAudio(j)
  <2>1. /\ audioSet' = [audioSet EXCEPT ![r] = @ \cup {item[j]}] /\ todo' = todo
        /\ pc[j] = "audadd" /\ pc'[j] = "audnext"
    BY Zenon, <1>8 DEF AddAudio, Goto, AddTo, local, AtHand, Smooth
  <2>2. audioSet'[r] = audioSet[r] \cup {item[j]}
    BY Zenon, <2>1 DEF AtHand
  <2>3. QED
    BY Zenon, <1>1, <1>4, <2>1, <2>2
<1>9. CASE LastAudio(j)
  <2>1. audioSet' = audioSet /\ pc[j] = "audnext" /\ todo[j] = {}
    BY Zenon, <1>9 DEF LastAudio, redis
  <2>2. QED
    BY Zenon, <1>1, <1>2, <1>3, <2>1 DEF AudioDone
<1>10. QED
  BY <1>5, <1>6, <1>7, <1>8, <1>9, Zenon DEF AudioStep

(* A quiet full pass keeps track of every song of the batch. *)
LEMMA OwnCovered ==
  ASSUME TypeOK, NEW j \in Full, j \in quiet', Start(j) \/ JobStep(j) \/ Dies(j),
         Current(j), j \in quiet => Covered(j), Kept, UNCHANGED db
  PROVE  Covered(j)'
<1> USE DEF AtSong, AtPay, AtAudio
<1>0. /\ pc \in [Jobs -> PCs] /\ rows \in [Jobs -> SUBSET Rows] /\ row \in [Jobs -> {Null} \cup Rows]
      /\ audioSourceId \in [Jobs -> {Null} \cup Sources]
      /\ item \in [Jobs -> {Null} \cup Policies \cup Products]
      /\ todo \in [Jobs -> SUBSET (Policies \cup Products)] /\ j \in Jobs
      /\ pay' = pay /\ music' = music /\ j \notin Incremental
  BY Zenon, IndexerAssumption DEF TypeOK, Jobs, db
<1>1. CASE Start(j)
  BY Zenon, <1>0, <1>1 DEF Start, Goto, Covered
<1>2. SUFFICES ASSUME JobStep(j) PROVE Covered(j)'
  BY Zenon, <1>1 DEF Dies
<1>3. ASSUME quiet' = quiet, Ends(j), \A r \in FirstBatch : Done(r) PROVE Covered(j)'
  <2>1. \A r \in FirstBatch : Done(r)'
    BY Zenon, <1>3, DoneStays, IndexerAssumption
  <2>2. QED
    BY Zenon, <1>0, <1>3, <2>1 DEF Ends, Goto, Covered
<1>4. CASE QueryMax(j)
  BY Zenon, <1>0, <1>4 DEF QueryMax, Goto, Covered
<1>5. CASE SelectBatch(j)
  <2>1. CASE FirstBatch = {}
    BY Zenon, <2>1 DEF Covered
  <2>2. CASE rows' = [rows EXCEPT ![j] = Snapshot(FirstBatch)] /\ Goto(j, "row")
    <3>1. \A r \in FirstBatch : \E x \in rows'[j] : x.id = r
      <4>1. ASSUME NEW r \in FirstBatch
            PROVE  [id |-> r, name |-> music[r].name, source |-> music[r].source] \in Snapshot(FirstBatch)
        BY Zenon DEF Snapshot
      <4>2. QED
        BY <1>0, <2>2, <4>1, Zenon
    <3>2. QED
      BY Zenon, <1>0, <2>2, <3>1 DEF Goto, Covered
  <2>3. QED
    BY Zenon, <1>5, <2>1, <2>2 DEF SelectBatch, Select
<1>6. CASE NextRow(j)
  <2>1. PICK x \in rows[j] : rows'[j] = rows[j] \ {x} /\ row'[j] = x
    BY Zenon, <1>0, <1>6 DEF NextRow
  <2>2. pc[j] = "row" /\ pc'[j] = "hash" /\ Covered(j)
    BY Zenon, <1>0, <1>6 DEF NextRow, Goto
  <2>3. ASSUME NEW r \in FirstBatch PROVE Done(r)' \/ (\E y \in rows'[j] : y.id = r) \/ InWork(j, r)'
    <3>1. CASE Done(r)
      BY Zenon, <3>1, DoneStays, IndexerAssumption
    <3>2. CASE x.id = r
      BY Zenon, <2>1, <2>2, <3>2 DEF InWork
    <3>3. CASE \E y \in rows[j] \ {x} : y.id = r
      BY Zenon, <2>1, <3>3
    <3>4. QED
      BY Zenon, <2>2, <3>1, <3>2, <3>3 DEF Covered
  <2>4. QED
    BY Zenon, <2>2, <2>3 DEF Covered
<1>7. CASE LastRow(j)
  <2>1. \A r \in FirstBatch : Done(r)
    BY Zenon, <1>7 DEF LastRow, Covered
  <2>2. QED
    BY Zenon, <1>3, <1>7, <2>1 DEF LastRow
<1>8. ASSUME PayStep(j) \/ AudioStep(j) PROVE Covered(j)'
  <2>1. pc[j] \in AtSong /\ rows' = rows /\ row' = row /\ quiet' \subseteq quiet
    BY <1>8, Zenon DEF PayStep, SetHash, QueryPay, SetNone, NextPay, AddPay, DelNone, LastPay, AudioStep, QueryAudio,
       SkipAudio, NextAudio, AddAudio, LastAudio, local, song, Refused, ExecuteFails, AtSong, AtPay, AtAudio
  <2>2. pc'[j] \in {"row"} \cup AtSong
    BY Zenon, <1>0, <1>8 DEF PayStep, SetHash, QueryPay, SetNone, NextPay, AddPay, DelNone, LastPay, AudioStep, QueryAudio,
       SkipAudio, NextAudio, AddAudio, LastAudio, Goto
  <2>3. (\A keys : ~Refused(j, keys)) /\ (\A k : ~ExecuteFails(j, k))
    BY Zenon DEF Refused, ExecuteFails
  <2>4. ASSUME NEW r \in Rids, InWork(j, r) PROVE Done(r)' \/ (pc'[j] \in AtSong /\ InWork(j, r)')
    <3>1. AtHand(j, r)
      BY Zenon, <2>4 DEF AtHand, TypeOK, InWork
    <3>2. (HashDone(r) => HashDone(r)') /\ (PayDone(r) => PayDone(r)')
      BY Zenon, DoneStays
    <3>3. Smooth(j, r)
      BY Zenon, <1>0, <2>1, <2>3, <3>1, <3>2 DEF AtHand, Smooth
    <3>4. QED
      BY Zenon, <1>0, <1>8, <2>4, <3>1, <3>3, PayWork, AudioWork
  <2>5. QED
    BY Zenon, <1>0, <2>1, <2>2, <2>4, SongCovered
<1>9. QED
  BY <1>0, <1>2, <1>4, <1>5, <1>6, <1>7, <1>8, Zenon DEF JobStep, SelectRecent, PayStep, AudioStep

LEMMA FreshStep ==
  ASSUME TypeOK, AllCurrent, AllCovered, [Next]_vars
  PROVE  AllCurrent' /\ AllCovered'
<1>1. ASSUME NEW j \in Jobs, Start(j) \/ JobStep(j) \/ Dies(j)
      PROVE  AllCurrent' /\ AllCovered'
  <2>1. OtherPasses(j)
    BY Zenon, <1>1, PassAlone
  <2>2. (pc'[j] = "idle" => rows'[j] = {}) /\ (j \notin dirty' => Current(j)')
    BY Zenon, <1>1, OwnCurrent DEF AllCurrent
  <2>3. ASSUME NEW k \in Jobs \ {j}
        PROVE  (pc'[k] = "idle" => rows'[k] = {}) /\ (k \notin dirty' => Current(k)')
    <3>1. /\ pc'[k] = pc[k] /\ rows'[k] = rows[k] /\ row'[k] = row[k] /\ audioSourceId'[k] = audioSourceId[k]
          /\ item'[k] = item[k] /\ todo'[k] = todo[k] /\ music' = music /\ pay' = pay
          /\ k \notin dirty' => k \notin dirty
      BY Zenon, <2>1 DEF OtherPasses, db
    <3>2. (pc[k] = "idle" => rows[k] = {}) /\ (k \notin dirty => Current(k))
      BY Zenon DEF AllCurrent
    <3>3. Current(k)' <=> Current(k)
      BY Zenon, <3>1 DEF Current, IsCurrent
    <3>4. QED
      BY Zenon, <3>1, <3>2, <3>3
  <2>4. quiet' # {} => dirty' = {} /\ dirty = {}
    BY Zenon, <2>1 DEF OtherPasses, AllCurrent
  <2>5. AllCurrent'
    BY Zenon, <2>2, <2>3, <2>4 DEF AllCurrent
  <2>6. ASSUME NEW k \in Full \cap quiet' PROVE Covered(k)'
    <3>1. /\ k \in Jobs /\ Current(k) /\ Current(j) /\ UNCHANGED db
          /\ k # j => k \in quiet
      BY Zenon, <1>1, <2>1, <2>4, <2>6 DEF AllCurrent, OtherPasses, Jobs
    <3>2. Kept
      BY Zenon, <1>1, <3>1, CurrentKeeps
    <3>3. CASE k = j
      BY Zenon, <1>1, <3>1, <3>2, <3>3, OwnCovered DEF AllCovered
    <3>4. CASE k # j
      BY Zenon, <2>1, <3>1, <3>2, <3>4, OthersCovered DEF AllCovered, OtherPasses
    <3>5. QED
      BY Zenon, <3>3, <3>4
  <2>7. QED
    BY Zenon, <2>5, <2>6 DEF AllCovered
<1>2. CASE Edit
  <2>1. /\ dirty' = {j \in Jobs : pc[j] # "idle"} /\ quiet' = {} /\ UNCHANGED <<pc, rows>>
    BY Zenon, <1>2 DEF Edit, local, song
  <2>2. \A j \in Jobs \ dirty' : pc'[j] = "idle" /\ rows'[j] = {}
    BY Zenon, <2>1 DEF AllCurrent
  <2>3. QED
    BY Zenon, <2>1, <2>2 DEF AllCurrent, AllCovered, Current, AtSong, AtPay, AtAudio
<1>3. CASE UNCHANGED vars
  <2>1. UNCHANGED <<db, redis, pc, local, dirty, quiet>>
    BY Zenon, <1>3 DEF vars
  <2>2. AllCurrent'
    BY <2>1 DEF db, local, song, AllCurrent, Current, IsCurrent
  <2>3. UNCHANGED <<music, pay, songHash, paySet, audioSet, pc, rows, row, item, todo, quiet>>
    BY Zenon, <2>1 DEF db, redis, local, song
  <2>4. ASSUME NEW r PROVE (Done(r)' <=> Done(r)) /\ (HashDone(r)' <=> HashDone(r)) /\ (PayDone(r)' <=> PayDone(r))
    BY Zenon, <2>3 DEF Done, HashDone, PayDone, AudioDone, AsText
  <2>5. ASSUME NEW j, NEW r PROVE InWork(j, r)' <=> InWork(j, r)
    BY Zenon, <2>3, <2>4 DEF InWork, Pending
  <2>6. QED
    BY Zenon, <2>2, <2>3, <2>4, <2>5 DEF AllCovered, Covered
<1>4. QED
  BY <1>1, <1>2, <1>3, Zenon DEF Next, AtRest

(* After a full pass that nothing interfered with Redis has the first batch as
   MySQL has it (indexer.cpp:182-313), for any number of songs, policies, products
   and programs that run side by side, with any errors and deaths around it. *)
THEOREM FreshAfterQuietPass == Spec => []FreshWhenQuiet
<1>1. Init => AllCurrent /\ AllCovered
  BY Zenon DEF Init, AllCurrent, AllCovered, Current, AtSong, AtPay, AtAudio
<1>2. AllCovered => FreshWhenQuiet
  BY Zenon DEF AllCovered, Covered, FreshWhenQuiet, Done, HashDone, PayDone, AudioDone
<1>3. QED
  BY <1>1, <1>2, FreshStep, TypeCorrect, PTL DEF Spec
==============================================================================
