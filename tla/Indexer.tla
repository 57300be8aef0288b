------------------------------ MODULE Indexer ------------------------------
(***************************************************************************)
(* The programs of indexer/ and indexer_inc/, which copy songs from MySQL  *)
(* to Redis: the first one all songs of the first batch, the second one    *)
(* the songs that changed lately.  Both make one pass and end; somebody    *)
(* starts them again.  They run side by side, and the tables change while  *)
(* they do.  A pass reads a set of songs with one query and then, song by  *)
(* song, writes its hash, reads and writes its payment policies, and reads *)
(* and writes its audio products; each query and each Redis command is a   *)
(* step of its own.                                                        *)
(*                                                                         *)
(* In Redis a song has a hash, a set of policies with "none" for a song    *)
(* without any, and a set of audio products; every policy and product has  *)
(* a hash too.  Of a hash only the song's name is kept here.               *)
(***************************************************************************)
EXTENDS Integers, FiniteSets

CONSTANTS Full, Incremental,   \* the running programs of either kind
          Rids,                \* the songs in the table Music
          FirstBatch,          \* those with an id below the step
          Names, FirstWord,    \* names, and the first word of each
          Sources, ProductsOf, \* audio sources, and their audio products
          Policies,
          none,                \* the member "none" of a set of policies
          Null,                \* a column that is NULL, a key Redis does not have
          MaxEdits, MaxPasses, \* bounds
          Faults               \* which of "sql", "redis", "die" may happen

Jobs == Full \cup Incremental
Words == {FirstWord[n] : n \in Names}
Products == UNION {ProductsOf[s] : s \in Sources}

ASSUME IndexerAssumption ==
  /\ Full \cap Incremental = {}
  /\ FirstBatch \subseteq Rids
  /\ DOMAIN FirstWord = Names /\ DOMAIN ProductsOf = Sources
  /\ none \notin Policies
  /\ Null \notin Sources /\ Null \notin Rids /\ Null \notin Words
  /\ MaxEdits \in Nat /\ MaxPasses \in Nat

VARIABLES music, pay,                   \* MySQL: the songs, and their policies
          songHash, payHash, audioHash, \* Redis: the hashes
          paySet, audioSet,             \* Redis: the sets
          pc,
          rows,                         \* the songs of the pass still to come
          row,                          \* the song at hand
          audioSourceId,
          item, todo,                   \* the policy or product at hand, and the next ones
          result,                       \* the last result of the connection
          alive,                        \* the results whose rows exist
          edits, passes,                \* for the bounds
          refused,                      \* history: writes Redis refused that matter
          dirty,                        \* history: passes that may go by old or wrong data
          quiet                         \* history: passes nothing interfered with

db == <<music, pay>>
redis == <<songHash, payHash, audioHash, paySet, audioSet>>
song == <<rows, row, audioSourceId>>
local == <<song, item, todo>>
conn == <<result, alive>>
bounds == <<edits, passes>>
vars == <<db, redis, pc, local, conn, bounds, refused, dirty, quiet>>

Songs == [name : Names, source : {Null} \cup Sources]
Rows == [id : Rids, name : Names, source : {Null} \cup Sources]
Results == {"max", "rows", "pay", "audio"}

(* Where a program is: at a song, in the loop over its policies or in the loop
   over its products. *)
AtPay == {"paynext", "payadd", "paydel"}
AtAudio == {"audnext", "audadd"}
AtSong == {"hash", "pay", "none", "audio"} \cup AtPay \cup AtAudio
PCs == {"idle", "max", "select", "row"} \cup AtSong

Init == /\ music \in [Rids -> Songs]
        /\ pay \in [Rids -> SUBSET Policies]
        /\ songHash = [r \in Rids |-> Null]
        /\ payHash = [r \in Rids |-> {}] /\ audioHash = {}
        /\ paySet = [r \in Rids |-> {}] /\ audioSet = [r \in Rids |-> {}]
        /\ pc = [j \in Jobs |-> "idle"]
        /\ rows = [j \in Jobs |-> {}] /\ row = [j \in Jobs |-> Null]
        /\ audioSourceId = [j \in Jobs |-> Null]
        /\ item = [j \in Jobs |-> Null] /\ todo = [j \in Jobs |-> {}]
        /\ result = [j \in Jobs |-> Null] /\ alive = [j \in Jobs |-> {}]
        /\ edits = 0 /\ passes = 0
        /\ refused = {} /\ dirty = {} /\ quiet = {}

Goto(j, l) == pc' = [pc EXCEPT ![j] = l]

------------------------------------------------------------------------------
(* mysqlconnector::execute replaces the connection's result by a new one, with
   rows or without; what the old one holds stays in memory. *)
Execute_Frees(j, k, found) ==
  /\ result' = [result EXCEPT ![j] = k]
  /\ alive' = [alive EXCEPT ![j] = (@ \ {result[j]}) \cup (IF found = {} THEN {} ELSE {k})]

Execute(j, k, found) ==
  /\ result' = [result EXCEPT ![j] = k]
  /\ alive' = [alive EXCEPT ![j] = @ \cup (IF found = {} THEN {} ELSE {k})]

(* It returns -1: the old result is still there, or replaced by an empty one. *)
ExecuteFails(j, k) == /\ "sql" \in Faults
                      /\ result' \in {result, [result EXCEPT ![j] = k]}
                      /\ dirty' = dirty \cup {j} /\ quiet' = {}
                      /\ UNCHANGED alive

(* mysqlresult::free. *)
Free(j, k) == alive' = [alive EXCEPT ![j] = @ \ {k}]

(* An error reply of Redis: the command did nothing, and the caller goes on. *)
Refused(j, keys) == /\ "redis" \in Faults
                    /\ refused' = refused \cup keys
                    /\ quiet' = quiet \ {j}

------------------------------------------------------------------------------
(* A program starts: init reads the configuration and connects.  One that finds a
   key missing ends at once, and changes nothing. *)
Start(j) == /\ pc[j] = "idle" /\ passes < MaxPasses
            /\ passes' = passes + 1
            /\ Goto(j, IF j \in Full THEN "max" ELSE "select")
            /\ quiet' = IF dirty = {} THEN quiet \cup {j} ELSE quiet \ {j}
            /\ UNCHANGED <<db, redis, local, conn, edits, refused, dirty>>

(* The process ends, and its memory is gone. *)
Ends(j) == /\ Goto(j, "idle")
           /\ rows' = [rows EXCEPT ![j] = {}] /\ row' = [row EXCEPT ![j] = Null]
           /\ audioSourceId' = [audioSourceId EXCEPT ![j] = Null]
           /\ item' = [item EXCEPT ![j] = Null] /\ todo' = [todo EXCEPT ![j] = {}]
           /\ result' = [result EXCEPT ![j] = Null] /\ alive' = [alive EXCEPT ![j] = {}]
           /\ dirty' = dirty \ {j}

(* select max(id): an error counts as an empty table, and the pass is over. *)
QueryMax(j) == /\ pc[j] = "max"
               /\ \/ /\ Goto(j, "select") /\ Execute(j, "max", {})
                     /\ UNCHANGED <<local, dirty, quiet>>
                  \/ "sql" \in Faults /\ Ends(j) /\ quiet' = {}
               /\ UNCHANGED <<db, redis, bounds, refused>>

Snapshot(S) == {[id |-> r, name |-> music[r].name, source |-> music[r].source] : r \in S}

(* The query for the songs S of the pass. *)
Select(j, S) ==
  /\ pc[j] = "select"
  /\ \/ /\ S # {}
        /\ rows' = [rows EXCEPT ![j] = Snapshot(S)]
        /\ Execute(j, "rows", S)
        /\ Goto(j, "row")
        /\ UNCHANGED <<row, audioSourceId, item, todo, dirty, quiet>>
     \/ S = {} /\ Ends(j) /\ UNCHANGED quiet
     \/ "sql" \in Faults /\ Ends(j) /\ quiet' = {}
  /\ UNCHANGED <<db, redis, bounds, refused>>

SelectBatch(j) == j \in Full /\ Select(j, FirstBatch)

(* Those whose timestamp is recent may be any. *)
SelectRecent(j) == j \in Incremental /\ \E S \in SUBSET Rids : Select(j, S)

(* What a column gives: of a text the first word, and for a number that is NULL
   whatever was in memory. *)
AsText(n) == FirstWord[n]
AsNumber(s) == IF s = Null THEN {Null} \cup Sources ELSE {s}

(* The next song. *)
NextRow(j) == /\ pc[j] = "row"
              /\ \E r \in rows[j] :
                   /\ rows' = [rows EXCEPT ![j] = @ \ {r}]
                   /\ row' = [row EXCEPT ![j] = r]
                   /\ \E s \in AsNumber(r.source) :
                        audioSourceId' = [audioSourceId EXCEPT ![j] = s]
              /\ Goto(j, "hash")
              /\ UNCHANGED <<db, redis, item, todo, conn, bounds, refused, dirty, quiet>>

(* The rows are not freed: the process ends. *)
LastRow(j) == /\ pc[j] = "row" /\ rows[j] = {}
              /\ Ends(j)
              /\ UNCHANGED <<db, redis, bounds, refused, quiet>>

(* setHash of the song. *)
SetHash(j) == /\ pc[j] = "hash"
              /\ Goto(j, "pay")
              /\ \/ /\ songHash' = [songHash EXCEPT ![row[j].id] = AsText(row[j].name)]
                    /\ UNCHANGED <<refused, quiet>>
                 \/ Refused(j, {}) /\ UNCHANGED songHash
              /\ UNCHANGED <<db, payHash, audioHash, paySet, audioSet, local, conn, bounds, dirty>>

------------------------------------------------------------------------------
(* The policies of the song; an error counts as none. *)
QueryPay(j) ==
  /\ pc[j] = "pay"
  /\ LET found == pay[row[j].id]
     IN \/ /\ Execute(j, "pay", found)
           /\ todo' = [todo EXCEPT ![j] = found]
           /\ Goto(j, IF found = {} THEN "none" ELSE "paynext")
           /\ UNCHANGED <<dirty, quiet>>
        \/ ExecuteFails(j, "pay") /\ Goto(j, "none") /\ UNCHANGED todo
  /\ UNCHANGED <<db, redis, song, item, bounds, refused>>

(* SADD and SREM. *)
AddTo(set, r, x) == [set EXCEPT ![r] = @ \cup {x}]
RemoveFrom(set, r, x) == [set EXCEPT ![r] = @ \ {x}]

SetNone(j) == /\ pc[j] = "none"
              /\ Goto(j, "audio")
              /\ \/ paySet' = AddTo(paySet, row[j].id, none) /\ UNCHANGED <<refused, quiet>>
                 \/ Refused(j, {}) /\ UNCHANGED paySet
              /\ UNCHANGED <<db, songHash, payHash, audioHash, audioSet, local, conn, bounds, dirty>>

(* setHash of the next policy. *)
NextPay(j) ==
  /\ pc[j] = "paynext"
  /\ \E p \in todo[j] :
       /\ item' = [item EXCEPT ![j] = p] /\ todo' = [todo EXCEPT ![j] = @ \ {p}]
       /\ \/ payHash' = AddTo(payHash, row[j].id, p) /\ UNCHANGED <<refused, quiet>>
          \/ Refused(j, {<<"pay", row[j].id, p>>}) /\ UNCHANGED payHash
  /\ Goto(j, "payadd")
  /\ UNCHANGED <<db, songHash, audioHash, paySet, audioSet, song, conn, bounds, dirty>>

(* A buggy order: "none" is removed before the policy is there. *)
AddPay_DelFirst(j) == /\ pc[j] = "payadd"
                      /\ Goto(j, "paydel")
                      /\ paySet' = [paySet EXCEPT ![row[j].id] = @ \ {none}]
                      /\ UNCHANGED <<db, songHash, payHash, audioHash, audioSet, local, conn, bounds,
                                     refused, dirty, quiet>>

(* setAdd of the policy, then setDel of "none". *)
AddPay(j) == /\ pc[j] = "payadd"
             /\ Goto(j, "paydel")
             /\ \/ paySet' = AddTo(paySet, row[j].id, item[j]) /\ UNCHANGED <<refused, quiet>>
                \/ Refused(j, {<<"add", row[j].id>>}) /\ UNCHANGED paySet
             /\ UNCHANGED <<db, songHash, payHash, audioHash, audioSet, local, conn, bounds, dirty>>

(* A buggy step that leaves "none" where it is. *)
DelNone_Keep(j) == /\ pc[j] = "paydel"
                   /\ Goto(j, "paynext")
                   /\ UNCHANGED <<db, redis, local, conn, bounds, refused, dirty, quiet>>

DelNone(j) == /\ pc[j] = "paydel"
              /\ Goto(j, "paynext")
              /\ \/ /\ paySet' = RemoveFrom(paySet, row[j].id, none)
                    /\ UNCHANGED <<refused, quiet>>
                 \/ Refused(j, {}) /\ UNCHANGED paySet
              /\ UNCHANGED <<db, songHash, payHash, audioHash, audioSet, local, conn, bounds, dirty>>

LastPay(j) == /\ pc[j] = "paynext" /\ todo[j] = {}
              /\ Free(j, "pay")
              /\ Goto(j, "audio")
              /\ UNCHANGED <<db, redis, local, result, bounds, refused, dirty, quiet>>

------------------------------------------------------------------------------
(* The products of the song's audio source, if it has one. *)
QueryAudio(j) ==
  /\ pc[j] = "audio" /\ audioSourceId[j] # Null
  /\ LET found == ProductsOf[audioSourceId[j]]
     IN \/ /\ Execute(j, "audio", found)
           /\ todo' = [todo EXCEPT ![j] = found]
           /\ Goto(j, IF found = {} THEN "row" ELSE "audnext")
           /\ UNCHANGED <<dirty, quiet>>
        \/ ExecuteFails(j, "audio") /\ Goto(j, "row") /\ UNCHANGED todo
  /\ UNCHANGED <<db, redis, song, item, bounds, refused>>

SkipAudio(j) == /\ pc[j] = "audio" /\ audioSourceId[j] = Null
                /\ Goto(j, "row")
                /\ UNCHANGED <<db, redis, local, conn, bounds, refused, dirty, quiet>>

(* A buggy order: the product joins the set without its hash. *)
NextAudio_NoHash(j) ==
  /\ pc[j] = "audnext"
  /\ \E a \in todo[j] :
       item' = [item EXCEPT ![j] = a] /\ todo' = [todo EXCEPT ![j] = @ \ {a}]
  /\ Goto(j, "audadd")
  /\ UNCHANGED <<db, redis, song, conn, bounds, refused, dirty, quiet>>

(* setHash of the next product, then setAdd. *)
NextAudio(j) ==
  /\ pc[j] = "audnext"
  /\ \E a \in todo[j] :
       /\ item' = [item EXCEPT ![j] = a] /\ todo' = [todo EXCEPT ![j] = @ \ {a}]
       /\ \/ audioHash' = audioHash \cup {a} /\ UNCHANGED <<refused, quiet>>
          \/ Refused(j, {<<"audio", a>>}) /\ UNCHANGED audioHash
  /\ Goto(j, "audadd")
  /\ UNCHANGED <<db, songHash, payHash, paySet, audioSet, song, conn, bounds, dirty>>

AddAudio(j) == /\ pc[j] = "audadd"
               /\ Goto(j, "audnext")
               /\ \/ audioSet' = AddTo(audioSet, row[j].id, item[j]) /\ UNCHANGED <<refused, quiet>>
                  \/ Refused(j, {}) /\ UNCHANGED audioSet
               /\ UNCHANGED <<db, songHash, payHash, audioHash, paySet, local, conn, bounds, dirty>>

LastAudio(j) == /\ pc[j] = "audnext" /\ todo[j] = {}
                /\ Free(j, "audio")
                /\ Goto(j, "row")
                /\ UNCHANGED <<db, redis, local, result, bounds, refused, dirty, quiet>>

------------------------------------------------------------------------------
(* A reconnection that fails throws, and a lost connection to Redis gives a
   reply that is a null pointer: the process dies. *)
Dies(j) == /\ "die" \in Faults
           /\ pc[j] # "idle"
           /\ Ends(j)
           /\ quiet' = quiet \ {j}
           /\ UNCHANGED <<db, redis, bounds, refused>>

(* Somebody changes a song or its policies. *)
Edit == /\ edits < MaxEdits
        /\ edits' = edits + 1
        /\ \E r \in Rids :
             \/ /\ \E s \in Songs \ {music[r]} : music' = [music EXCEPT ![r] = s]
                /\ UNCHANGED pay
             \/ /\ \E P \in SUBSET Policies \ {pay[r]} : pay' = [pay EXCEPT ![r] = P]
                /\ UNCHANGED music
        /\ dirty' = {j \in Jobs : pc[j] # "idle"}
        /\ quiet' = {}
        /\ UNCHANGED <<redis, pc, local, conn, passes, refused>>

(* A step of a pass; the loop of indexer_inc is a copy of that of indexer. *)
JobStep(j) == \/ QueryMax(j) \/ SelectBatch(j) \/ SelectRecent(j) \/ NextRow(j) \/ LastRow(j) \/ SetHash(j)
              \/ QueryPay(j) \/ SetNone(j) \/ NextPay(j) \/ AddPay(j) \/ DelNone(j) \/ LastPay(j)
              \/ QueryAudio(j) \/ SkipAudio(j) \/ NextAudio(j) \/ AddAudio(j) \/ LastAudio(j)

(* Every pass is over. *)
AtRest == /\ passes = MaxPasses
          /\ \A j \in Jobs : pc[j] = "idle"
          /\ UNCHANGED vars

Next == \/ \E j \in Jobs : Start(j) \/ JobStep(j) \/ Dies(j)
        \/ Edit
        \/ AtRest

Spec == Init /\ [][Next]_vars

------------------------------------------------------------------------------
TypeOK == /\ music \in [Rids -> Songs] /\ pay \in [Rids -> SUBSET Policies]
          /\ songHash \in [Rids -> {Null} \cup Words]
          /\ payHash \in [Rids -> SUBSET Policies] /\ audioHash \in SUBSET Products
          /\ paySet \in [Rids -> SUBSET ({none} \cup Policies)]
          /\ audioSet \in [Rids -> SUBSET Products]
          /\ pc \in [Jobs -> PCs]
          /\ rows \in [Jobs -> SUBSET Rows] /\ row \in [Jobs -> {Null} \cup Rows]
          /\ audioSourceId \in [Jobs -> {Null} \cup Sources]
          /\ item \in [Jobs -> {Null} \cup Policies \cup Products]
          /\ todo \in [Jobs -> SUBSET (Policies \cup Products)]
          /\ result \in [Jobs -> {Null} \cup Results] /\ alive \in [Jobs -> SUBSET Results]
          /\ edits \in Nat /\ passes \in Nat
          /\ dirty \subseteq Jobs /\ quiet \subseteq Jobs
          /\ \A j \in Jobs :
               /\ pc[j] \in AtSong => row[j] \in Rows
               /\ pc[j] \in AtPay => todo[j] \subseteq Policies
               /\ pc[j] \in AtAudio => todo[j] \subseteq Products
               /\ pc[j] \in {"payadd", "paydel"} => item[j] \in Policies
               /\ pc[j] = "audadd" => item[j] \in Products

(* mysqlconn.cpp:165 and indexer.cpp:187-313: while a pass goes through the rows
   of a result those rows exist, although the same connection executes other
   queries in the meantime.  (They do because execute forgets the old result
   and does not delete it.) *)
IteratedRowsExist ==
  \A j \in Jobs : /\ pc[j] \in {"row"} \cup AtSong => "rows" \in alive[j]
                  /\ pc[j] \in AtPay => "pay" \in alive[j]
                  /\ pc[j] \in AtAudio => "audio" \in alive[j]

(* indexer.cpp:238-248 and 294-302: who finds a policy or a product in the set of
   a song finds its hash too, unless Redis refused that hash: a pass may die,
   and another may run beside it. *)
ReferencesResolve ==
  /\ \A r \in Rids : \A p \in paySet[r] \ {none} :
       p \in payHash[r] \/ <<"pay", r, p>> \in refused
  /\ \A r \in Rids : \A a \in audioSet[r] :
       a \in audioHash \/ <<"audio", a>> \in refused

(* indexer.cpp:243-248: a song whose set of policies is known never becomes one
   with an empty set, which would be neither free nor paid: the policy is added
   before "none" is removed.  A setAdd that Redis refused is the exception. *)
PayStaysKnown ==
  [][\A r \in Rids : paySet[r] # {} /\ <<"add", r>> \notin refused => paySet'[r] # {}]_vars

(* indexer.cpp:182-313: after a full pass that nothing interfered with (no edit
   since it began, no pass beside it that began before the last edit, no error)
   Redis has the songs of the first batch as MySQL has them; only a policy or a
   product that MySQL no longer has may remain. *)
FreshWhenQuiet ==
  \A j \in Full \cap quiet : pc[j] = "idle" =>
    \A r \in FirstBatch :
      /\ songHash[r] = AsText(music[r].name)
      /\ pay[r] \subseteq paySet[r]
      /\ none \in paySet[r] <=> pay[r] = {}
      /\ music[r].source # Null => ProductsOf[music[r].source] \subseteq audioSet[r]
==============================================================================
