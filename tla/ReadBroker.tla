----------------------------- MODULE ReadBroker -----------------------------
(***************************************************************************)
(* The read side of a processor (src/broker.cc, src/asio_processor.cc).    *)
(* Two threads share one broker.  The read thread runs broker::read: query *)
(* the collection for the next m_limit documents after m_last_doc_id, push *)
(* them into m_queue, repeat.  The io thread runs the client's commands,   *)
(* one at a time: OPEN starts the read thread, READ pops a batch, REWIND   *)
(* forgets m_last_doc_id, and term (the last CLOSE) makes the read thread  *)
(* exit and joins it.                                                      *)
(*                                                                         *)
(* Documents are numbered in the order of their _id, and the collection    *)
(* holds 1..inserted: the documents that match the conditions, which other *)
(* clients of the database keep adding at the end.  A negative m_skip,     *)
(* which init lets through to every query, is left out: what becomes of it *)
(* is up to the database.                                                  *)
(***************************************************************************)
EXTENDS SizedQueue, FiniteSets, BrokerInit

CONSTANTS
  NumDocs,       \* bound: documents ever inserted
  Limit,         \* m_limit, as init leaves it
  Skip,          \* m_skip, when it is not negative
  ReadTimeout,   \* m_read_timeout; 0 makes pop wait without a timeout
  ReadRetry,     \* m_read_retry
  Fits,          \* how many documents fit into a response (max_body_length)
  MaxOpens,      \* bound: how often the processor is opened
  MaxRewinds,    \* bound: REWINDs per opening
  CanTerm        \* whether the last connection may close

ASSUME ReadAssumption ==
  /\ Thread = {"reader", "io"}
  /\ NumDocs \in Nat
  /\ Limit \in Int
  /\ Skip \in Nat
  /\ ReadTimeout \in Nat
  /\ ReadRetry \in Nat
  /\ Fits \in Nat
  /\ MaxOpens \in Nat
  /\ MaxRewinds \in Nat
  /\ CanTerm \in BOOLEAN

VARIABLES
  inserted,      \* the collection
  last_id,       \* m_last_doc_id; 0 is the empty string
  do_exit, reach_end, querying, connected,     \* the broker's flags
  qlock,         \* whether m_query_done_mutex is locked
  reader,        \* where the read thread is
  cond,          \* the id its query starts after; 0 when unconstrained
  docs,          \* its vector of documents
  io,            \* where the io thread is
  cmd,           \* the command it runs
  out,           \* batch_pop's vector
  left, retry,   \* batch_pop's pops left in this attempt, and its retry counter
  opens,         \* history: how often the processor was opened
  delivered,     \* history: the documents sent to clients since the opening
  dropped,       \* history: those that made up a response that was too long
  rewinds        \* history: Len(delivered) at each REWIND since the opening

queueVars == <<queue, wait>>
queryVars == <<querying, qlock>>
flags == <<do_exit, reach_end, connected>>
readerVars == <<reader, cond, docs>>
batchVars == <<out, left, retry>>
ioVars == <<io, cmd, batchVars>>
sentVars == <<delivered, dropped>>
history == <<opens, sentVars, rewinds>>
vars == <<queueVars, inserted, last_id, flags, queryVars, readerVars, ioVars, history>>

Init ==
  /\ QueueInit
  /\ inserted \in 0..NumDocs
  /\ last_id = 0
  /\ do_exit = FALSE /\ reach_end = FALSE /\ querying = FALSE /\ connected = FALSE
  /\ qlock = FALSE
  /\ reader = "none" /\ cond = 0 /\ docs = <<>>
  /\ io = "idle" /\ cmd = "none" /\ out = <<>> /\ left = 0 /\ retry = 0
  /\ opens = 0 /\ delivered = <<>> /\ dropped = <<>> /\ rewinds = <<>>

(* Somebody adds a document to the collection.                             *)
Insert ==
  /\ inserted < NumDocs
  /\ inserted' = inserted + 1
  /\ UNCHANGED <<queueVars, last_id, flags, queryVars, readerVars, ioVars, history>>

----------------------------------------------------------------------------
(* The read thread: broker::read and broker::query.                        *)

(* while( !m_do_exit )                                                     *)
ReaderTest ==
  /\ reader = "test"
  /\ reader' = IF do_exit THEN "exited" ELSE "lock"
  /\ docs' = <<>>
  /\ UNCHANGED <<queueVars, inserted, last_id, flags, queryVars, cond, ioVars,
                 history>>

QueryLock ==
  /\ reader = "lock"
  /\ ~qlock
  /\ qlock' = TRUE
  /\ querying' = TRUE
  /\ reader' = "prepare"
  /\ UNCHANGED <<queueVars, inserted, last_id, flags, cond, docs, ioVars, history>>

(* Mutant: the empty id is not told apart.                                 *)
PrepareAlways ==
  /\ reader = "prepare"
  /\ reader' = "oid"
  /\ cond' = 0
  /\ UNCHANGED <<queueVars, inserted, last_id, flags, queryVars, docs, ioVars,
                 history>>

(* prepare_condition reads m_last_doc_id twice, without m_rewind_mutex:    *)
(* is it empty,                                                            *)
PrepareCondition ==
  /\ reader = "prepare"
  /\ reader' = IF last_id = 0 THEN "cursor" ELSE "oid"
  /\ cond' = 0
  /\ UNCHANGED <<queueVars, inserted, last_id, flags, queryVars, docs, ioVars,
                 history>>

(* and what is it: OID::init refuses an empty string with an exception     *)
(* that nobody catches, which ends the process.                            *)
PrepareOid ==
  /\ reader = "oid"
  /\ cond' = last_id
  /\ IF last_id = 0
     THEN reader' = "crashed" /\ io' = "crashed"
     ELSE reader' = "cursor" /\ UNCHANGED io
  /\ UNCHANGED <<queueVars, inserted, last_id, flags, queryVars, docs, cmd,
                 batchVars, history>>

(* The answer of the database: in the order of _id, leave out the first    *)
(* m_skip documents after the given one, return at most m_limit; to the    *)
(* database 0 is no limit, and the sign of a limit does not matter.        *)
Found(after) ==
  LET first == after + Skip + 1
      upto  == first - 1 + (IF Limit < 0 THEN -Limit ELSE Limit)
      last  == IF Limit = 0 \/ inserted < upto THEN inserted ELSE upto
  IN  [i \in 1 .. (IF last < first THEN 0 ELSE last - first + 1) |-> first + i - 1]

QueryCursor ==
  /\ reader = "cursor"
  /\ docs' = Found(cond)
  /\ reader' = "save"
  /\ UNCHANGED <<queueVars, inserted, last_id, flags, queryVars, cond, ioVars,
                 history>>

(* Mutant: the first document's id is kept instead of the last one's.      *)
SaveFirstId ==
  /\ reader = "save"
  /\ last_id' = IF docs = <<>> THEN last_id ELSE Head(docs)
  /\ reader' = "done"
  /\ UNCHANGED <<queueVars, inserted, flags, queryVars, cond, docs, ioVars, history>>

QuerySave ==
  /\ reader = "save"
  /\ last_id' = IF docs = <<>> THEN last_id ELSE Last(docs)
  /\ reader' = "done"
  /\ UNCHANGED <<queueVars, inserted, flags, queryVars, cond, docs, ioVars, history>>

(* Mutant: m_con_query.notify_all() is forgotten.                          *)
QueryDoneSilently ==
  /\ reader = "done"
  /\ querying' = FALSE
  /\ reader' = "unlock"
  /\ UNCHANGED <<queueVars, inserted, last_id, flags, qlock, cond, docs, ioVars,
                 history>>

(* m_querying = false, and m_con_query.notify_all().                       *)
QueryDone ==
  /\ reader = "done"
  /\ querying' = FALSE
  /\ io' = IF io = "asleep" THEN "relock" ELSE io
  /\ reader' = "unlock"
  /\ UNCHANGED <<queueVars, inserted, last_id, flags, qlock, cond, docs, cmd,
                 batchVars, history>>

(* query returns: its scoped_lock unlocks the mutex, whoever locked it.    *)
QueryUnlock ==
  /\ reader = "unlock"
  /\ qlock' = FALSE
  /\ reader' = "branch"
  /\ UNCHANGED <<queueVars, inserted, last_id, flags, querying, cond, docs, ioVars,
                 history>>

(* Mutant: the read thread returns at the end of the collection.           *)
ReaderBranchOnce ==
  /\ reader = "branch"
  /\ reach_end' = (docs = <<>>)
  /\ reader' = IF docs = <<>> THEN "exited" ELSE "more"
  /\ UNCHANGED <<queueVars, inserted, last_id, do_exit, connected, queryVars, cond,
                 docs, ioVars, history>>

(* No documents: m_reach_end, sleep(3) and try again.                      *)
ReaderBranch ==
  /\ reader = "branch"
  /\ reach_end' = (docs = <<>>)
  /\ reader' = IF docs = <<>> THEN "test" ELSE "more"
  /\ UNCHANGED <<queueVars, inserted, last_id, do_exit, connected, queryVars, cond,
                 docs, ioVars, history>>

(* while( docs.size() > 0 && !m_do_exit )                                  *)
ReaderMore ==
  /\ reader = "more"
  /\ reader' = IF docs # <<>> /\ ~do_exit THEN "push" ELSE "test"
  /\ UNCHANGED <<queueVars, inserted, last_id, flags, queryVars, cond, docs,
                 ioVars, history>>

(* m_queue.push(docs,0): without a timeout, the handler is never entered.  *)
ReaderPush ==
  /\ reader = "push"
  /\ \/ /\ PushBlock("reader")
        /\ UNCHANGED <<reader, docs>>
     \/ /\ PushEnter("reader", docs) \/ PushResume("reader", docs)
        /\ docs' = Kept(docs, Moved(docs))
        /\ reader' = "more"
  /\ UNCHANGED <<inserted, last_id, flags, queryVars, cond, ioVars, history>>

ReaderStep ==
  \/ ReaderTest \/ QueryLock \/ PrepareCondition \/ PrepareOid \/ QueryCursor
  \/ QuerySave \/ QueryDone \/ QueryUnlock \/ ReaderBranch \/ ReaderMore \/ ReaderPush

----------------------------------------------------------------------------
(* The io thread between commands.                                         *)

(* broker::open: init reads the options and empties the queue.             *)
Connect ==
  /\ Clear
  /\ connected' = TRUE

(* OPEN: connect, and start the read thread.                              *)
Open ==
  /\ io = "idle"
  /\ ~connected
  /\ opens < MaxOpens
  /\ Connect
  /\ reader' = "test"
  /\ docs' = <<>>
  /\ opens' = opens + 1
  /\ delivered' = <<>> /\ dropped' = <<>> /\ rewinds' = <<>>
  /\ UNCHANGED <<inserted, last_id, do_exit, reach_end, queryVars, cond, ioVars>>

(* Both callers of batch_pop(docs,n) hand it an empty vector; it asserts   *)
(* that n is not 0.                                                        *)
BatchPop(n) ==
  /\ io' = IF n = 0 THEN "aborted" ELSE "pop"
  /\ out' = <<>>
  /\ left' = n
  /\ retry' = 0

(* get_limit(), passed as size_t                                           *)
BatchSize == ToSize(Limit)

(* READ                                                                    *)
Read ==
  /\ io = "idle"
  /\ connected
  /\ cmd' = "read"
  /\ BatchPop(BatchSize)
  /\ reader' = IF BatchSize = 0 THEN "aborted" ELSE reader
  /\ UNCHANGED <<queueVars, inserted, last_id, flags, queryVars, cond, docs,
                 history>>

(* REWIND                                                                  *)
Rewind ==
  /\ io = "idle"
  /\ connected
  /\ Len(rewinds) < MaxRewinds
  /\ last_id' = 0
  /\ reach_end' = FALSE
  /\ rewinds' = Append(rewinds, Len(delivered))
  /\ UNCHANGED <<queueVars, inserted, do_exit, connected, queryVars, readerVars,
                 ioVars, opens, sentVars>>

(* term: set_exit,                                                         *)
Term ==
  /\ CanTerm
  /\ io = "idle"
  /\ connected
  /\ do_exit' = TRUE
  /\ cmd' = "term"
  /\ io' = "drain"
  /\ UNCHANGED <<queueVars, inserted, last_id, reach_end, connected, queryVars,
                 readerVars, batchVars, history>>

(* Mutant: term joins the thread without making room in the queue.         *)
TermNoDrain ==
  /\ io = "drain"
  /\ io' = "join"
  /\ UNCHANGED <<queueVars, inserted, last_id, flags, queryVars, readerVars, cmd,
                 batchVars, history>>

(* then one document is taken out, in case the read thread is blocked,     *)
TermDrain ==
  /\ io = "drain"
  /\ IF queue # <<>> \/ ~reach_end
     THEN BatchPop(1)
     ELSE io' = "join" /\ UNCHANGED batchVars
  /\ UNCHANGED <<queueVars, inserted, last_id, flags, queryVars, readerVars, cmd,
                 history>>

(* then the thread is joined and the broker reset.                         *)
TermJoin ==
  /\ io = "join"
  /\ reader = "exited"
  /\ reader' = "none"
  /\ io' = "idle" /\ cmd' = "none" /\ out' = <<>>
  /\ do_exit' = FALSE /\ reach_end' = FALSE /\ querying' = FALSE /\ connected' = FALSE
  /\ last_id' = 0
  /\ UNCHANGED <<queueVars, inserted, qlock, cond, docs, left, retry, history>>

----------------------------------------------------------------------------
(* The io thread inside batch_pop.                                         *)

(* Mutant: a response as long as the limit is refused as well.             *)
RespondShort(result) ==
  IF Len(result) < Fits
  THEN delivered' = delivered \o result /\ UNCHANGED dropped
  ELSE dropped' = dropped \o result /\ UNCHANGED delivered

(* get_response_string: a response that is too long is replaced by an      *)
(* error, and the documents in it are gone.                                *)
Respond(result) ==
  IF Len(result) <= Fits
  THEN delivered' = delivered \o result /\ UNCHANGED dropped
  ELSE dropped' = dropped \o result /\ UNCHANGED delivered

(* batch_pop returns: READ answers with the documents, however few, and    *)
(* with NoMoreItem when there are none; term throws its document away.     *)
BatchReturn(result) ==
  IF cmd = "read"
  THEN /\ io' = "idle" /\ cmd' = "none" /\ out' = <<>>
       /\ Respond(result)
  ELSE /\ io' = "join" /\ out' = result
       /\ UNCHANGED <<cmd, sentVars>>

BatchPopDoc ==
  /\ io = "pop"
  /\ PopEnter("io") \/ PopResume("io")
  /\ left' = left - 1
  /\ IF left > 1
     THEN out' = Append(out, Head(queue)) /\ UNCHANGED <<io, cmd, sentVars>>
     ELSE BatchReturn(Append(out, Head(queue)))
  /\ UNCHANGED <<inserted, last_id, flags, queryVars, readerVars, retry, opens,
                 rewinds>>

BatchPopBlock ==
  /\ io = "pop"
  /\ PopBlock("io")
  /\ UNCHANGED <<inserted, last_id, flags, queryVars, readerVars, ioVars, history>>

BatchPopTimeout ==
  /\ io = "pop"
  /\ ReadTimeout > 0
  /\ PopTimeout("io")
  /\ io' = "caught"
  /\ UNCHANGED <<inserted, last_id, flags, queryVars, readerVars, cmd, batchVars,
                 history>>

(* if( m_querying ), read without a lock                                   *)
BatchCaught ==
  /\ io = "caught"
  /\ io' = IF querying THEN "wait" ELSE "retry"
  /\ UNCHANGED <<queueVars, inserted, last_id, flags, queryVars, readerVars, cmd,
                 batchVars, history>>

(***************************************************************************)
(* m_con_query.wait unlocks m_query_done_mutex, which this thread does not *)
(* hold, and sleeps; once notified it locks the mutex, and the statement   *)
(* after it unlocks it again.  Unlocking a mutex of another thread is      *)
(* undefined; a default glibc mutex is then simply unlocked.               *)
(***************************************************************************)
BatchWait ==
  /\ io = "wait"
  /\ qlock' = FALSE
  /\ io' = "asleep"
  /\ UNCHANGED <<queueVars, inserted, last_id, flags, querying, readerVars, cmd,
                 batchVars, history>>

BatchRelock ==
  /\ io = "relock"
  /\ ~qlock
  /\ qlock' = TRUE
  /\ io' = "unlock"
  /\ UNCHANGED <<queueVars, inserted, last_id, flags, querying, readerVars, cmd,
                 batchVars, history>>

(* Mutant: the mutex that the wait has locked again stays locked.          *)
BatchKeepLock ==
  /\ io = "unlock"
  /\ io' = "retry"
  /\ UNCHANGED <<queueVars, inserted, last_id, flags, queryVars, readerVars, cmd,
                 batchVars, history>>

BatchUnlock ==
  /\ io = "unlock"
  /\ qlock' = FALSE
  /\ io' = "retry"
  /\ UNCHANGED <<queueVars, inserted, last_id, flags, querying, readerVars, cmd,
                 batchVars, history>>

(* Mutant: an off-by-one in the condition of the loop.                     *)
AgainOnceMore(n) == ReadRetry + 1 >= n

(* while( m_read_retry >= retry )                                          *)
Again(n) == ReadRetry >= n

(* The next attempt pops a whole batch again, on top of what it has.       *)
BatchRetry ==
  /\ io = "retry"
  /\ retry' = retry + 1
  /\ IF Again(retry + 1)
     THEN io' = "pop" /\ UNCHANGED <<cmd, out, sentVars>>
     ELSE BatchReturn(out)
  /\ left' = IF Again(retry + 1) THEN (IF cmd = "read" THEN BatchSize ELSE 1) ELSE left
  /\ UNCHANGED <<queueVars, inserted, last_id, flags, queryVars, readerVars, opens,
                 rewinds>>

BatchStep ==
  \/ BatchPopDoc \/ BatchPopBlock \/ BatchPopTimeout \/ BatchCaught \/ BatchWait
  \/ BatchUnlock \/ BatchRetry \/ TermDrain \/ TermJoin

Next ==
  \/ Insert \/ Open \/ Read \/ Rewind \/ Term
  \/ ReaderStep
  \/ BatchStep
  \/ BatchRelock

Spec == Init /\ [][Next]_vars

(***************************************************************************)
(* Both threads are scheduled, a timed wait ends, and a thread that waits  *)
(* for a mutex that is released again and again gets it.                   *)
(***************************************************************************)
FairSpec ==
  /\ Spec
  /\ WF_vars(ReaderStep)
  /\ WF_vars(BatchStep)
  /\ SF_vars(BatchRelock)

----------------------------------------------------------------------------
(* Properties.                                                             *)

ReadTypeOK ==
  /\ queue \in Seq(1..NumDocs)
  /\ wait \in [Thread -> WaitState]
  /\ inserted \in 0..NumDocs
  /\ last_id \in 0..NumDocs
  /\ {do_exit, reach_end, querying, connected, qlock} \subseteq BOOLEAN
  /\ reader \in {"none", "test", "lock", "prepare", "oid", "cursor", "save", "done",
                 "unlock", "branch", "more", "push", "exited", "crashed", "aborted"}
  /\ cond \in 0..NumDocs
  /\ docs \in Seq(1..NumDocs)
  /\ io \in {"idle", "pop", "caught", "wait", "asleep", "relock", "unlock", "retry",
             "drain", "join", "crashed", "aborted"}
  /\ cmd \in {"none", "read", "term"}
  /\ out \in Seq(1..NumDocs)
  /\ left \in (0..BatchSize) \cup {1}
  /\ retry \in 0..(ReadRetry + 1)
  /\ opens \in 0..MaxOpens
  /\ delivered \in Seq(1..NumDocs)
  /\ dropped \in Seq(1..NumDocs)
  /\ rewinds \in Seq(Nat)

(* The io thread, coming back from its wait in pop, finds a document: the  *)
(* read thread notifies it only after a push that leaves one.              *)
ReadPopFindsItem == ~PopUndefined("io")

(* Of the values init computes only two break the broker itself: a limit   *)
(* of 0 fails the assertion of batch_pop, and a queue of size 0 makes pop  *)
(* read the front of an empty deque.                                       *)
BreaksOnlyAtZero ==
  /\ io = "aborted" => Limit = 0
  /\ PopUndefined("io") => LimitSize = 0

(* The last document any query has returned.                               *)
Fetched == IF reader = "save" /\ docs # <<>> THEN Last(docs) ELSE last_id

(***************************************************************************)
(* Unless the client rewinds, every document after the first m_skip ones   *)
(* and up to the last one fetched is in exactly one place: sent, dropped   *)
(* with a response that was too long, in the batch being made up, queued,  *)
(* or in the read thread's vector.  Pushes cut short by a full queue,      *)
(* batches cut short by timeouts, retries and documents inserted meanwhile *)
(* neither lose nor repeat one.  (A read thread that is told to exit drops *)
(* its vector, and so does a process that has been aborted.)               *)
(***************************************************************************)
EachDocOnce ==
  (connected /\ ~do_exit /\ rewinds = <<>> /\ io # "aborted") =>
    LET all == delivered \o dropped \o out \o queue \o docs
    IN  /\ ToSet(all) = (Skip + 1)..Fetched
        /\ IsInjective(all)

(* A READ may answer with more than m_limit documents, but never with      *)
(* 2 * m_limit (m_read_retry is 1): an attempt that times out has popped   *)
(* at most m_limit - 1 of them.                                            *)
BatchBounded ==
  [][Len(delivered') + Len(dropped') <=
       Len(delivered) + Len(dropped) + (ReadRetry + 1) * (Limit - 1) + 1]_vars

(* When the m_limit documents of a batch fit into a response, documents    *)
(* are dropped all the same, but only by a READ that has timed out once    *)
(* and then popped a whole batch on top of what it had.                    *)
DropNeedsTimeout ==
  [][(Fits >= Limit /\ Len(dropped') > Len(dropped)) => retry > 0 /\ Len(out) >= Limit]_vars

(* How often a READ may still answer with d.                               *)
Credit(d) ==
  LET answers == delivered \o dropped
  IN  1 + Len(rewinds) - Cardinality({i \in DOMAIN answers : answers[i] = d})

CursorOf ==
  INSTANCE Cursor WITH
    Doc        <- 1..NumDocs,
    collection <- 1..inserted,
    credit     <- [d \in 1..NumDocs |-> IF opens = 0 THEN 0 ELSE Credit(d)]

(* The broker implements Cursor: a READ answers with documents of the      *)
(* collection, each at most once and once more for every REWIND, although  *)
(* REWIND clears m_last_doc_id alone and under the read thread's feet.     *)
ImplementsCursor == CursorOf!Spec

(* The read thread dies in OID::init only after a REWIND since the         *)
(* opening: nothing else empties m_last_doc_id between the two places of   *)
(* prepare_condition that read it, the reset of term included.             *)
CrashNeedsRewind == reader = "crashed" => rewinds # <<>>

(* When term gets to pthread_join the read thread is not blocked in push,  *)
(* nor on the way to a full queue: nobody would ever pop again.            *)
JoinUnblocked ==
  io = "join" => /\ wait["reader"] # "can_push"
                 /\ reader = "push" => ~Full \/ wait["reader"] = "woken"

(* The two waits that nobody ends: the io thread sleeps on m_con_query     *)
(* while the read thread waits for room, or after it has exited.           *)
Stranded == io = "asleep" /\ (wait["reader"] = "can_push" \/ reader = "exited")

(* Where a thread waits for the other one, with no timeout to end it; a    *)
(* read thread that has exited wakes nobody either.                        *)
ReaderWaits ==
  reader = "exited" \/ (reader = "lock" /\ qlock) \/ wait["reader"] = "can_push"

IoWaits ==
  \/ io = "asleep" \/ (io = "relock" /\ qlock)
  \/ io = "pop" /\ wait["io"] = "can_pop" /\ ReadTimeout = 0
  \/ io = "join" /\ reader # "exited"

(* The two threads wait for each other in no other way, although each of   *)
(* them may unlock m_query_done_mutex while the other one holds it: nobody *)
(* leaves it locked, and a full queue and an empty one are never waited    *)
(* for at once.                                                            *)
DeadlockOnlyStranded ==
  IoWaits /\ ReaderWaits =>
    Stranded \/ (ReadTimeout = 0 /\ io = "pop" /\ reader = "exited")

----------------------------------------------------------------------------
(* What tests and documentation say, and the code does not do.             *)

(* Every term comes to its end, as the tests that call term() expect.      *)
TermReturns == (cmd = "term") ~> (cmd # "term")

(* When the last document of the collection has been popped the queue is   *)
(* empty, as the test of broker::read expects: the documents come in the   *)
(* order of the collection.                                                *)
LastDocLast ==
  (rewinds = <<>> /\ NumDocs \in ToSet(delivered \o dropped \o out)) => queue = <<>>

(* After a REWIND the first document a READ answers with is one of the     *)
(* first m_limit documents again, those the first READ answered with.      *)
RewindRestarts ==
  \A i \in DOMAIN rewinds :
    Len(delivered) > rewinds[i] => delivered[rewinds[i] + 1] <= Skip + Limit
=============================================================================
