---------------------------- MODULE CalcsigServer ----------------------------
(***************************************************************************)
(* src/server.cpp: the HTTP server.  Its main thread starts the workers,   *)
(* waits until all have registered, and then answers requests in its event *)
(* loop; a valid one becomes a task of the thread pool.  Each worker takes *)
(* a task, downloads its source to a temporary file, moves the file to the *)
(* path that its signature gives, and posts the signature to the callback  *)
(* URL.                                                                    *)
(*                                                                         *)
(* The pool is ThreadPool98 (the main thread is the only producer, nobody  *)
(* stops the pool) and mkdirs is Mkdirs, both step by step.  Two steps are *)
(* separate here when another thread can see the difference; what a worker *)
(* does to its own task and its own temporary file alone is one step.      *)
(*                                                                         *)
(* A file is the set of the chunks of its source that were written to it.  *)
(* Temporary names are random and taken to be different, so the temporary  *)
(* file of a task is named by the task; equal files have equal signatures  *)
(* and paths, and different files are taken to have different ones.        *)
(***************************************************************************)
EXTENDS Integers, Sequences, FiniteSets

CONSTANTS Workers, Main,      \* the threads
          Requests,           \* HTTP requests, each sent once
          Kind,               \* what each asks for
          Source,             \* what the source URL of a valid one holds
          Chunks,             \* the number of chunks in which a source arrives
          threadnum,          \* the number of threads in the configuration
          Dirs, Parent,       \* directories
          Present,            \* those there are when the server starts
          TmpPath, SigPath,   \* the temporary directory; that of each source
          Faults,             \* which system calls may fail
          NoTask, NoThread, NoFile

(* POST /calcsig with the three parameters, without them, with an empty body;
   another method; the two other pages. *)
Kinds == {"calcsig", "missing", "blank", "get", "test", "other"}

ASSUME ServerAssumption ==
  /\ threadnum \in Int
  /\ IsFiniteSet(Workers) /\ Cardinality(Workers) = IF threadnum > 1 THEN threadnum ELSE 1
  /\ Main \notin Workers
  /\ NoThread \notin Workers \cup {Main} /\ NoTask \notin Requests
  /\ Kind \in [Requests -> Kinds]
  /\ Faults \subseteq {"mkdir", "open", "curl", "write", "read", "rename", "evbuffer", "listen", "head"}
  /\ Chunks \in Nat \ {0}
  /\ \A f \in SUBSET (1..Chunks) : f # NoFile

(* The arguments of mkdirs, and what its module assumes of them. *)
AskedPaths == {TmpPath} \cup {SigPath[Source[r]] : r \in Requests}

ASSUME DirsAssumption ==
  /\ AskedPaths \subseteq Seq(Dirs) \ {<<>>}
  /\ Parent \in [Dirs -> Dirs]
  /\ \A p \in AskedPaths :
       /\ Parent[p[1]] = p[1]
       /\ \A i \in 2..Len(p) : p[i-1] = p[i] \/ p[i-1] = Parent[p[i]]
  /\ Present \subseteq Dirs
  /\ \A d \in Present : Parent[d] \in Present

VARIABLES
  mutex, task_queue, is_stopped, pc, task, unborn, taken,   \* ThreadPool98
  dirs, call, path, level,                                  \* Mkdirs
  isstop,       \* the server's own stop flag, which nothing initialises
  init_count,   \* workers that have registered
  main,         \* where the main thread is
  answer,       \* what each request was answered
  stage,        \* where each worker is, outside get_task and mkdirs
  got,          \* content_read: the chunks its transfer has received
  length,       \* content_length: the size that the last header gave
  told,         \* history: tasks whose source gave its size
  sig,          \* the signature it has computed: the file it stands for
  tmp,          \* the temporary file of each task
  stored,       \* the files under their signature paths
  sent,         \* what was posted for each task: a file's signature
  outcome       \* how the work on each task ended

poolVars == <<mutex, task_queue, is_stopped, pc, task, unborn, taken>>
mkVars == <<dirs, call, path, level>>
startVars == <<isstop, init_count>>
headVars == <<length, told>>
fileVars == <<got, headVars, sig, tmp, stored>>
doneVars == <<sent, outcome>>
workVars == <<stage, fileVars, doneVars>>
vars == <<poolVars, mkVars, startVars, main, answer, workVars>>

Pool == INSTANCE ThreadPool98 WITH Producers <- {Main}, Tasks <- Requests, CanStop <- FALSE
Mk == INSTANCE Mkdirs WITH Callers <- Workers, CanFail <- "mkdir" \in Faults,
                           Paths <- AskedPaths

------------------------------------------------------------------------------
(* isstop is read without ever having been written: it may hold anything. *)
Init == /\ Pool!Init
        /\ Mk!Init /\ path = [w \in Workers |-> TmpPath]
        /\ isstop \in BOOLEAN
        /\ init_count = 0
        /\ main = "start"
        /\ answer = [r \in Requests |-> "pending"]
        /\ stage = [w \in Workers |-> "new"]
        /\ got = [w \in Workers |-> 0]
        /\ length = [w \in Workers |-> 0] /\ told = {}
        /\ sig = [w \in Workers |-> NoFile]
        /\ tmp = [r \in Requests |-> NoFile]
        /\ stored = {}
        /\ sent = [r \in Requests |-> {}]
        /\ outcome = [r \in Requests |-> "none"]

To(w, s) == stage' = [stage EXCEPT ![w] = s]

(* The process lives until the main thread returns. *)
Running == main # "returned"

(* pool->start: one pthread_create after the other. *)
StartWorker(w) == /\ main = "start"
                  /\ Pool!Start(w)
                  /\ To(w, "register")
                  /\ UNCHANGED <<mkVars, startVars, main, answer, fileVars, doneVars>>

StartDone == /\ main = "start"
             /\ Pool!Started
             /\ main' = "barrier"
             /\ UNCHANGED <<poolVars, mkVars, startVars, answer, workVars>>

(* init_lock is held from the test of init_count to the wait, and during a
   registration: each is one step, and a wake-up tests again. *)
Barrier == /\ main = "barrier"
           /\ main' = IF init_count < threadnum THEN "waiting" ELSE "listen"
           /\ UNCHANGED <<poolVars, mkVars, startVars, answer, workVars>>

(* A buggy barrier that tests init_count only once. *)
SpuriousWake_Through == /\ main = "waiting"
                        /\ main' = "listen"
                        /\ UNCHANGED <<poolVars, mkVars, startVars, answer, workVars>>

SpuriousWake == /\ main = "waiting"
                /\ main' = "barrier"
                /\ UNCHANGED <<poolVars, mkVars, startVars, answer, workVars>>

(* event_base_new, evhttp_new and the bind; when one fails the process ends. *)
Listen == /\ main = "listen"
          /\ \/ main' = "serving"
             \/ "listen" \in Faults /\ main' = "returned"
          /\ UNCHANGED <<poolVars, mkVars, startVars, answer, workVars>>

Register(w) == /\ stage[w] = "register"
               /\ init_count' = init_count + 1
               /\ main' = IF main = "waiting" THEN "barrier" ELSE main
               /\ To(w, "loop")
               /\ UNCHANGED <<poolVars, mkVars, isstop, answer, fileVars, doneVars>>

------------------------------------------------------------------------------
(* The event loop.  Pages that add no task; evbuffer calls that fail leave
   the request without an answer. *)
Reject(r) == /\ main = "serving"
             /\ answer[r] = "pending" /\ Kind[r] # "calcsig"
             /\ \/ answer' = [answer EXCEPT ![r] = IF Kind[r] = "test" THEN "0" ELSE "-1"]
                \/ "evbuffer" \in Faults /\ answer' = [answer EXCEPT ![r] = "silent"]
             /\ UNCHANGED <<poolVars, mkVars, startVars, main, workVars>>

(* A buggy handler that answers before the task is in the pool. *)
Accept_NoAdd(r) == /\ main = "serving"
                   /\ answer[r] = "pending" /\ Kind[r] \in {"calcsig", "blank"}
                   /\ answer' = [answer EXCEPT ![r] = "0"]
                   /\ UNCHANGED <<poolVars, mkVars, startVars, main, workVars>>

(* calcsig_process up to add_task.  An empty body leaves the buffer as an
   earlier request left it, and may be taken for a valid one. *)
Accept(r) == /\ main = "serving"
             /\ answer[r] = "pending" /\ Kind[r] \in {"calcsig", "blank"}
             /\ Pool!AddTask_Check(Main, r)
             /\ main' = "adding"
             /\ answer' = [answer EXCEPT ![r] = "parsed"]
             /\ UNCHANGED <<mkVars, startVars, workVars>>

(* evbuffer_new fails: the request is dropped before it is read. *)
Ignore(r) == /\ main = "serving"
             /\ answer[r] = "pending"
             /\ "evbuffer" \in Faults
             /\ answer' = [answer EXCEPT ![r] = "silent"]
             /\ UNCHANGED <<poolVars, mkVars, startVars, main, workVars>>

AddTask == /\ main = "adding"
           /\ \/ Pool!AddTask_Lock(Main) /\ UNCHANGED main
              \/ Pool!AddTask_Push(Main) /\ main' = "replying"
           /\ UNCHANGED <<mkVars, startVars, answer, workVars>>

Reply(r) == /\ main = "replying"
            /\ answer[r] = "parsed"
            /\ main' = "serving"
            /\ \/ answer' = [answer EXCEPT ![r] = "0"]
               \/ "evbuffer" \in Faults /\ answer' = [answer EXCEPT ![r] = "silent"]
            /\ UNCHANGED <<poolVars, mkVars, startVars, workVars>>

------------------------------------------------------------------------------
(* The worker's loop: the server's stop flag, then get_task. *)
Loop(w) == /\ stage[w] = "loop"
           /\ IF isstop THEN To(w, "exit") /\ UNCHANGED poolVars
                        ELSE To(w, "get") /\ Pool!Loop(w)
           /\ UNCHANGED <<mkVars, startVars, main, answer, fileVars, doneVars>>

GetTask(w) == /\ stage[w] = "get"
              /\ \/ Pool!GetTask_Lock(w) /\ UNCHANGED stage
                 \/ Pool!GetTask_Wait(w) /\ UNCHANGED stage
                 \/ Pool!GetTask_Take(w) /\ To(w, "tmp_dir")
              /\ UNCHANGED <<mkVars, startVars, main, answer, fileVars, doneVars>>

GetTask_Wake(w) == /\ stage[w] = "get"
                   /\ Pool!SpuriousWake(w)
                   /\ UNCHANGED <<mkVars, startVars, main, answer, workVars>>

(* A buggy end of the body that leaves the task in the worker's hands. *)
Finish_KeepsTask(w, o) == /\ pc' = [pc EXCEPT ![w] = "loop"]
                          /\ To(w, "loop")
                          /\ outcome' = [outcome EXCEPT ![task[w]] = o]
                          /\ UNCHANGED <<mutex, task_queue, is_stopped, task, unborn, taken>>

(* The end of the loop's body, for the reason o. *)
Finish(w, o) == /\ Pool!EndRun(w)
                /\ To(w, "loop")
                /\ outcome' = [outcome EXCEPT ![task[w]] = o]

TmpDir == TmpPath[Len(TmpPath)]
SigDir(r) == SigPath[Source[r]][Len(SigPath[Source[r]])]

(* access on the temporary directory, and mkdirs if it is not there. *)
TmpAccess(w) == /\ stage[w] = "tmp_dir"
                /\ IF TmpDir \in dirs
                   THEN To(w, "open") /\ UNCHANGED mkVars
                   ELSE To(w, "tmp_mkdirs") /\ Mk!Call(w, TmpPath)
                /\ UNCHANGED <<poolVars, startVars, main, answer, fileVars, doneVars>>

Mkdirs_Step(w) == /\ stage[w] \in {"tmp_mkdirs", "sig_mkdirs"}
                  /\ Mk!Step(w)
                  /\ UNCHANGED <<poolVars, startVars, main, answer, workVars>>

(* A task is given up when mkdirs does not return 0. *)
TmpMkdirs_Return(w) == /\ stage[w] = "tmp_mkdirs"
                       /\ Mk!Return(w)
                       /\ IF call[w] = "ok"
                          THEN To(w, "open") /\ UNCHANGED <<poolVars, outcome>>
                          ELSE Finish(w, "no_tmp_dir")
                       /\ UNCHANGED <<startVars, main, answer, fileVars, sent>>

(* open, whose result nobody looks at, and curl_easy_init. *)
Open(w) == /\ stage[w] = "open"
           /\ \/ tmp' = [tmp EXCEPT ![task[w]] = {}]
              \/ "open" \in Faults /\ UNCHANGED tmp
           /\ got' = [got EXCEPT ![w] = 0]
           /\ length' = [length EXCEPT ![w] = 0]
           /\ \/ To(w, "transfer") /\ UNCHANGED <<poolVars, outcome>>
              \/ "curl" \in Faults /\ Finish(w, "no_curl")
           /\ UNCHANGED <<mkVars, startVars, main, answer, told, sig, stored, sent>>

(* head_reader: the header of the source gives its size, that of a redirection
   that is followed the size of another page; one without it changes nothing. *)
OtherSize == Chunks + 1
HeadReader(w) == /\ stage[w] = "transfer"
                 /\ got[w] = 0 /\ task[w] \notin told
                 /\ \/ length' = [length EXCEPT ![w] = Chunks] /\ told' = told \cup {task[w]}
                    \/ /\ "head" \in Faults /\ length[w] = 0
                       /\ length' = [length EXCEPT ![w] = OtherSize] /\ UNCHANGED told
                 /\ UNCHANGED <<poolVars, mkVars, startVars, main, answer, stage, got, sig, tmp, stored, doneVars>>

(* A write, also one on no file, may leave the data out; nobody looks. *)
Written(f, c) == {IF f = NoFile THEN NoFile ELSE f \cup {c}}
                   \cup IF "write" \in Faults THEN {f} ELSE {}

(* data_reader: one chunk arrives, without a size before it only when the
   source may leave it out. *)
Receive(w) == /\ stage[w] = "transfer"
              /\ got[w] < Chunks
              /\ task[w] \in told \/ "head" \in Faults
              /\ got' = [got EXCEPT ![w] = @ + 1]
              /\ \E f \in Written(tmp[task[w]], got[w] + 1) : tmp' = [tmp EXCEPT ![task[w]] = f]
              /\ UNCHANGED <<poolVars, mkVars, startVars, main, answer, stage, headVars, sig, stored, doneVars>>

(* A buggy failure path that keeps the temporary file. *)
TransferFails_Keep(w) == /\ stage[w] = "transfer"
                         /\ Finish(w, "no_download")
                         /\ UNCHANGED <<mkVars, startVars, main, answer, fileVars, sent>>

(* A buggy failure path that removes the whole temporary directory. *)
TransferFails_Rmdir(w) == /\ stage[w] = "transfer"
                          /\ tmp' = [tmp EXCEPT ![task[w]] = NoFile]
                          /\ dirs' = dirs \ {TmpDir}
                          /\ Finish(w, "no_download")
                          /\ UNCHANGED <<call, path, level, startVars, main, answer, got, headVars, sig, stored, sent>>

(* The transfer fails, or ends with a status other than 200: the file goes. *)
TransferFails(w) == /\ stage[w] = "transfer"
                    /\ tmp' = [tmp EXCEPT ![task[w]] = NoFile]
                    /\ Finish(w, "no_download")
                    /\ UNCHANGED <<mkVars, startVars, main, answer, got, headVars, sig, stored, sent>>

(* A buggy end of the transfer that does not look at its result. *)
CalcSig_Early(w) == /\ stage[w] = "transfer"
                    /\ tmp[task[w]] # NoFile
                    /\ sig' = [sig EXCEPT ![w] = <<Source[task[w]], tmp[task[w]]>>]
                    /\ To(w, "sig_dir")
                    /\ UNCHANGED <<poolVars, mkVars, startVars, main, answer, got, headVars, tmp, stored, doneVars>>

(* The transfer is complete: calcSig reads the file. *)
CalcSig(w) == /\ stage[w] = "transfer"
              /\ got[w] = Chunks
              /\ \/ /\ tmp[task[w]] # NoFile
                    /\ sig' = [sig EXCEPT ![w] = <<Source[task[w]], tmp[task[w]]>>]
                    /\ To(w, "sig_dir") /\ UNCHANGED <<poolVars, outcome>>
                 \/ /\ tmp[task[w]] = NoFile \/ "read" \in Faults
                    /\ Finish(w, "no_sig") /\ UNCHANGED sig
              /\ UNCHANGED <<mkVars, startVars, main, answer, got, headVars, tmp, stored, sent>>

(* mvfile has failed: the temporary file stays. *)
NotMoved(w) == Finish(w, "not_moved")

(* mvfile: access on the directory of the signature, mkdirs, rename. *)
SigAccess(w) == /\ stage[w] = "sig_dir"
                /\ IF SigDir(task[w]) \in dirs
                   THEN To(w, "rename") /\ UNCHANGED mkVars
                   ELSE To(w, "sig_mkdirs") /\ Mk!Call(w, SigPath[Source[task[w]]])
                /\ UNCHANGED <<poolVars, startVars, main, answer, fileVars, doneVars>>

SigMkdirs_Return(w) == /\ stage[w] = "sig_mkdirs"
                       /\ Mk!Return(w)
                       /\ IF call[w] = "ok"
                          THEN To(w, "rename") /\ UNCHANGED <<poolVars, outcome>>
                          ELSE NotMoved(w)
                       /\ UNCHANGED <<startVars, main, answer, fileVars, sent>>

(* A buggy mvfile that does not look at the result of rename. *)
Rename_Unchecked(w) == /\ stage[w] = "rename"
                       /\ To(w, "report")
                       /\ UNCHANGED <<poolVars, mkVars, startVars, main, answer, fileVars, doneVars>>

Rename(w) == /\ stage[w] = "rename"
             /\ \/ /\ SigDir(task[w]) \in dirs
                   /\ stored' = stored \cup {<<Source[task[w]], tmp[task[w]]>>}
                   /\ tmp' = [tmp EXCEPT ![task[w]] = NoFile]
                   /\ To(w, "report") /\ UNCHANGED <<poolVars, outcome>>
                \/ /\ SigDir(task[w]) \notin dirs \/ "rename" \in Faults
                   /\ NotMoved(w) /\ UNCHANGED <<tmp, stored>>
             /\ UNCHANGED <<mkVars, startVars, main, answer, got, headVars, sig, sent>>

(* The callback: it is posted, or cannot be; nothing is tried again. *)
Post(w) == /\ stage[w] = "report"
           /\ \/ /\ sent' = [sent EXCEPT ![task[w]] = @ \cup {<<sig[w], length[w]>>}]
                 /\ To(w, "posted") /\ UNCHANGED <<poolVars, outcome>>
              \/ UNCHANGED <<poolVars, outcome, sent>> /\ To(w, "posted")
              \/ "curl" \in Faults /\ Finish(w, "no_callback") /\ UNCHANGED sent
           /\ UNCHANGED <<mkVars, startVars, main, answer, fileVars>>

PostReturns(w) == /\ stage[w] = "posted"
                  /\ Finish(w, "done")
                  /\ UNCHANGED <<mkVars, startVars, main, answer, fileVars, sent>>

------------------------------------------------------------------------------
(* What a worker does without waiting for the network. *)
LocalStep(w) == /\ Running
                /\ \/ Register(w) \/ Loop(w) \/ GetTask(w)
                   \/ TmpAccess(w) \/ Mkdirs_Step(w) \/ TmpMkdirs_Return(w) \/ Open(w)
                   \/ SigAccess(w) \/ SigMkdirs_Return(w) \/ Rename(w)

NetworkStep(w) == HeadReader(w) \/ Receive(w) \/ TransferFails(w) \/ CalcSig(w) \/ Post(w) \/ PostReturns(w)

MainStep == \/ \E w \in Workers : StartWorker(w)
            \/ StartDone \/ Barrier \/ Listen
            \/ AddTask \/ \E r \in Requests : Reply(r)

Arrival(r) == Reject(r) \/ Accept(r) \/ Ignore(r)

(* Nothing is left to do: the process ended, or every request was answered
   and the workers are back in get_task or have left their loop. *)
AtRest == /\ \/ ~Running
             \/ /\ main = "serving" /\ \A r \in Requests : answer[r] # "pending"
                /\ \A w \in Workers : stage[w] = "exit" \/ pc[w] = "wait"
          /\ UNCHANGED vars

Next == \/ MainStep \/ SpuriousWake
        \/ \E r \in Requests : Arrival(r)
        \/ \E w \in Workers : LocalStep(w) \/ NetworkStep(w)
        \/ \E w \in Workers : Running /\ GetTask_Wake(w)
        \/ AtRest

Spec == Init /\ [][Next]_vars

(* Threads that can run do, and get the pool's mutex in the end.  Nobody has
   to send a request, and a transfer may take forever: no timeout is set. *)
FairSpec == /\ Spec
            /\ WF_vars(MainStep) /\ SF_vars(AddTask)
            /\ \A w \in Workers : WF_vars(LocalStep(w)) /\ SF_vars(Running /\ GetTask(w))

------------------------------------------------------------------------------
Files == {Source[r] : r \in Requests} \X SUBSET (1..Chunks)

Stages == {"new", "register", "loop", "get", "exit", "tmp_dir", "tmp_mkdirs", "open",
           "transfer", "sig_dir", "sig_mkdirs", "rename", "report", "posted"}

Outcomes == {"no_tmp_dir", "no_curl", "no_download", "no_sig", "not_moved",
             "no_callback", "done"}

OwnTypeOK == /\ isstop \in BOOLEAN
             /\ init_count \in 0..Cardinality(Workers)
             /\ main \in {"start", "barrier", "waiting", "listen", "serving", "adding",
                         "replying", "returned"}
             /\ answer \in [Requests -> {"pending", "parsed", "silent", "0", "-1"}]
             /\ stage \in [Workers -> Stages]
             /\ got \in [Workers -> 0..Chunks]
             /\ sig \in [Workers -> {NoFile} \cup Files]
             /\ tmp \in [Requests -> {NoFile} \cup SUBSET (1..Chunks)]
             /\ stored \in SUBSET Files
             /\ length \in [Workers -> {0, Chunks, OtherSize}] /\ told \subseteq Requests
             /\ sent \in [Requests -> SUBSET (Files \X {0, Chunks, OtherSize})]
             /\ outcome \in [Requests -> Outcomes \cup {"none"}]

TypeOK == Pool!TypeOK /\ Mk!TypeOK /\ OwnTypeOK

(* server.cpp:375-408: requests are served only once every thread the
   configuration asks for has registered. *)
ServesWhenReady ==
  main \in {"listen", "serving", "adding", "replying"} => init_count >= threadnum

(* server.cpp:519-522: a request that was answered "OK" is a task: it is in the
   queue, in the hands of one worker, or its work has ended, and only one of
   these. *)
InProgress(r) == {w \in Workers : task[w] = r}
Queued(r) == {i \in 1..Len(task_queue) : task_queue[i] = r}

EveryTaskAccounted ==
  \A r \in Requests :
    /\ Kind[r] = "calcsig" /\ answer[r] = "0"
         => Queued(r) # {} \/ InProgress(r) # {} \/ outcome[r] # "none"
    /\ Cardinality(Queued(r)) + Cardinality(InProgress(r))
         + (IF outcome[r] = "none" THEN 0 ELSE 1) <= 1

(* server.cpp:203-234: a signature is reported only for a file that is under
   its path by then, came from the source of the task, and is no longer a
   temporary file; the size reported with it is that of the source when the
   source gave one, whatever a redirection said before (94-99, 231). *)
ReportedIsStored ==
  \A r \in Requests : \A x \in sent[r] :
    LET f == x[1]
    IN /\ f \in stored /\ f[1] = Source[r] /\ tmp[r] = NoFile
       /\ r \in told => x[2] = Chunks

(* server.cpp:189-192 and 203, utils.cpp:48-55: when no write fails, only
   complete files are stored and reported; and when mvfile comes to rename one,
   the target's directory exists, whoever made it. *)
StoredIsComplete ==
  /\ "write" \notin Faults => \A f \in stored : f[2] = 1..Chunks
  /\ \A w \in Workers : stage[w] = "rename" => SigDir(task[w]) \in dirs

(* server.cpp:195-221: a temporary file outlives the work on its task only when
   that ended before the transfer or after it: a failed download leaves none,
   nor does a task that was reported. *)
TmpFilesAccounted ==
  \A r \in Requests :
    tmp[r] # NoFile => \/ \E w \in InProgress(r) : stage[w] \in {"transfer", "sig_dir", "sig_mkdirs", "rename"}
                       \/ outcome[r] \in {"no_curl", "no_sig", "not_moved"}

(* threadpool_98.hpp as the server uses it: whatever the server's threads do to
   the pool is a step of ThreadPool98, so what is proved of it holds here. *)
UsesPool == Pool!Spec

(* utils.cpp as the server uses it: whatever its threads do to directories is a
   step of Mkdirs. *)
UsesMkdirs == Mk!Spec

(* A worker waits for the network in these stages. *)
Blocked == \A w \in Workers : stage[w] \in {"transfer", "report", "posted"}

(* server.cpp:375-379 and 141-143: the start-up barrier opens, and a queued task
   is taken, unless the stop flag happened to be set, or transfers that never
   end hold every worker. *)
TasksAreTaken ==
  /\ <>(main \in {"serving", "returned"})
  /\ isstop \/ <>[]Blocked \/ \A r \in Requests : (Queued(r) # {}) ~> (Queued(r) = {})

==============================================================================
