----------------------------- MODULE StatusRace -----------------------------
(***************************************************************************)
(* The ServerStatus singleton under the threads of the pool                *)
(* (server_status.cc).  insertRecord takes no lock: each ++ is a lookup in *)
(* a std::map (an insertion, the first time), a load and a store, and a    *)
(* status page reads the total and then the two maps.                      *)
(*                                                                         *)
(* An insertion is in progress while a thread is at "insert".  A map       *)
(* operation that overlaps one of another thread is undefined behaviour.   *)
(* Its outcomes are taken to be: nothing, a crash of the process, and a    *)
(* node of the same key that hides the old one.                            *)
(***************************************************************************)
EXTENDS ServerStatus, Sequences, FiniteSets, Functions

CONSTANTS
  Threads,      \* the threads that run io_service::run
  Codes,        \* the response codes the handlers leave
  MaxRecords    \* bound: calls of insertRecord

ASSUME MaxRecordsAssumption == MaxRecords \in Nat

TotalVisit == <<"total_visit", "">>
UriCounters == {"uri_visit_count"} \X VisitKeys
CodeCounters == {"status_code_count"} \X StatusCodes
Counters == UriCounters \cup CodeCounters \cup {TotalVisit}

VARIABLES
  count,     \* the counters; one that has no entry in its map is 0
  present,   \* the counters that have an entry
  pc,        \* per thread: what it does next
  todo,      \* per thread: the counters it still has to increment
  reg,       \* per thread: the value it loaded
  page,      \* per thread: the page it is composing, as counter values
  crashed,   \* the process crashed inside a map
  overlapped, \* history: a call began while another was in progress
  begun,     \* history: calls of insertRecord
  recorded   \* history: completed increments of each counter

threadVars == <<pc, todo, reg, page>>
vars == <<count, present, pc, todo, reg, page, crashed, overlapped, begun, recorded>>

Zero == [c \in Counters |-> 0]

\* Mutant: the total is forgotten.
Increments_NoTotal(uri, code) ==
  << <<"uri_visit_count", VisitKey(uri, code)>>,
     <<"status_code_count", responseToString(code)>> >>

\* Mutant: only successful requests are counted under their URI.
Increments_OkOnly(uri, code) ==
  (IF code = 200 THEN << <<"uri_visit_count", uri>> >> ELSE <<>>)
    \o << <<"status_code_count", responseToString(code)>>, TotalVisit >>

\* The three counters insertRecord increments, in its order.
Increments(uri, code) ==
  << <<"uri_visit_count", VisitKey(uri, code)>>,
     <<"status_code_count", responseToString(code)>>, TotalVisit >>

Counter(t) == Head(todo[t])

\* Another thread is inserting into the map.
Overlaps(t, map) ==
  \E u \in Threads \ {t} : pc[u] = "insert" /\ Counter(u)[1] = map

\* A call of insertRecord or getStatusString is in progress.
Busy == \E u \in Threads : pc[u] # "idle"

Init ==
  /\ count = Zero /\ present = {TotalVisit}
  /\ pc = [t \in Threads |-> "idle"]
  /\ todo = [t \in Threads |-> <<>>]
  /\ reg = [t \in Threads |-> 0]
  /\ page = [t \in Threads |-> Zero]
  /\ crashed = FALSE /\ overlapped = FALSE
  /\ begun = 0 /\ recorded = Zero

BeginRecord(t) ==
  /\ pc[t] = "idle" /\ begun < MaxRecords
  /\ \E uri \in Uris, code \in Codes :
       todo' = [todo EXCEPT ![t] = Increments(uri, code)]
  /\ pc' = [pc EXCEPT ![t] = "find"]
  /\ begun' = begun + 1
  /\ overlapped' = (overlapped \/ Busy)
  /\ UNCHANGED <<count, present, reg, page, crashed, recorded>>

\* operator[] descends to the key, or to the place where it belongs.
FindEntry(t) ==
  /\ pc[t] = "find"
  /\ pc' = [pc EXCEPT ![t] = IF Counter(t) \in present THEN "load" ELSE "insert"]
  /\ UNCHANGED <<count, present, todo, reg, page, crashed, overlapped, begun, recorded>>

\* Mutant: a new counter starts at 1.
InsertEntry_One(t) ==
  /\ pc[t] = "insert"
  /\ present' = present \cup {Counter(t)}
  /\ count' = [count EXCEPT ![Counter(t)] = 1]
  /\ pc' = [pc EXCEPT ![t] = "load"]
  /\ UNCHANGED <<todo, reg, page, crashed, overlapped, begun, recorded>>

\* The new node is linked in; it hides one that was linked in meanwhile.
InsertEntry(t) ==
  /\ pc[t] = "insert"
  /\ present' = present \cup {Counter(t)}
  /\ count' = [count EXCEPT ![Counter(t)] = 0]
  /\ pc' = [pc EXCEPT ![t] = "load"]
  /\ UNCHANGED <<todo, reg, page, crashed, overlapped, begun, recorded>>

Load(t) ==
  /\ pc[t] = "load"
  /\ reg' = [reg EXCEPT ![t] = count[Counter(t)]]
  /\ pc' = [pc EXCEPT ![t] = "store"]
  /\ UNCHANGED <<count, present, todo, page, crashed, overlapped, begun, recorded>>

\* Mutant: the thread goes on after its last counter.
Store_GoesOn(t) ==
  /\ pc[t] = "store"
  /\ count' = [count EXCEPT ![Counter(t)] = reg[t] + 1]
  /\ recorded' = [recorded EXCEPT ![Counter(t)] = @ + 1]
  /\ todo' = [todo EXCEPT ![t] = Tail(@)]
  /\ pc' = [pc EXCEPT ![t] = "find"]
  /\ UNCHANGED <<present, reg, page, crashed, overlapped, begun>>

Store(t) ==
  /\ pc[t] = "store"
  /\ count' = [count EXCEPT ![Counter(t)] = reg[t] + 1]
  /\ recorded' = [recorded EXCEPT ![Counter(t)] = @ + 1]
  /\ todo' = [todo EXCEPT ![t] = Tail(@)]
  /\ pc' = [pc EXCEPT ![t] = IF Len(todo[t]) = 1 THEN "idle" ELSE "find"]
  /\ UNCHANGED <<present, reg, page, crashed, overlapped, begun>>

(***************************************************************************)
(* getStatusString: the total, then uri_visit_count, then                  *)
(* status_code_count.                                                      *)
(***************************************************************************)
ReadCounters(t, S, from, to) ==
  /\ pc[t] = from
  /\ page' = [page EXCEPT ![t] = [c \in Counters |-> IF c \in S THEN count[c] ELSE @[c]]]
  /\ pc' = [pc EXCEPT ![t] = to]
  /\ overlapped' = (overlapped \/ (from = "idle" /\ Busy))
  /\ UNCHANGED <<count, present, todo, reg, crashed, begun, recorded>>

ReadTotal(t) == ReadCounters(t, {TotalVisit}, "idle", "page_uris")
ReadUris(t)  == ReadCounters(t, UriCounters, "page_uris", "page_codes")
ReadCodes(t) == ReadCounters(t, CodeCounters, "page_codes", "idle")

MapInUse(t) ==
  CASE pc[t] \in {"find", "insert"} -> Counter(t)[1]
    [] pc[t] = "page_uris" -> "uri_visit_count"
    [] pc[t] = "page_codes" -> "status_code_count"
    [] OTHER -> "none"

Crash(t) ==
  /\ Overlaps(t, MapInUse(t))
  /\ crashed' = TRUE
  /\ UNCHANGED <<count, present, threadVars, overlapped, begun, recorded>>

Step(t) ==
  \/ BeginRecord(t) \/ FindEntry(t) \/ InsertEntry(t) \/ Load(t) \/ Store(t)
  \/ ReadTotal(t) \/ ReadUris(t) \/ ReadCodes(t)
  \/ Crash(t)

Next == ~crashed /\ \E t \in Threads : Step(t)

Spec == Init /\ [][Next]_vars

-----------------------------------------------------------------------------
(***************************************************************************)
(* Properties.                                                             *)
(***************************************************************************)
\* The type invariant; a thread that increments has a counter to increment.
TypeOK ==
  /\ count \in [Counters -> Nat]
  /\ present \subseteq Counters
  /\ pc \in [Threads -> {"idle", "find", "insert", "load", "store",
                         "page_uris", "page_codes"}]
  /\ todo \in [Threads -> Seq(Counters)]
  /\ \A t \in Threads : pc[t] \in {"find", "insert", "load", "store"} => todo[t] # <<>>
  /\ reg \in [Threads -> Nat]
  /\ page \in [Threads -> [Counters -> Nat]]
  /\ crashed \in BOOLEAN /\ overlapped \in BOOLEAN
  /\ begun \in Nat
  /\ recorded \in [Counters -> Nat]

\* The counters are the number of insertRecord calls under each key, and the
\* total is their number: whenever no call is in progress.
CountsExact ==
  ~Busy /\ ~crashed =>
    /\ count = recorded
    /\ count[TotalVisit] = begun
    /\ SumFunctionOnSet(count, UriCounters) = begun
    /\ SumFunctionOnSet(count, CodeCounters) = begun

\* So they are as long as no two calls have overlapped, on whichever threads
\* they run.
SequentialCountsExact == ~overlapped => CountsExact

\* A finished status page agrees with itself as long as no two calls have
\* overlapped: the URIs and the codes it lists both add up to its total.
PageConsistent ==
  \A t \in Threads :
    pc[t] = "idle" /\ ~overlapped =>
      /\ SumFunctionOnSet(page[t], UriCounters) = page[t][TotalVisit]
      /\ SumFunctionOnSet(page[t], CodeCounters) = page[t][TotalVisit]

\* Races lose increments, they never invent them: no counter, and no page,
\* ever shows more than was recorded.
NeverOvercounts ==
  \A c \in Counters :
    /\ count[c] <= recorded[c]
    /\ \A t \in Threads : page[t][c] <= recorded[c]

\* For the proof of NeverOvercounts (module StatusRaceProofs): what a thread is
\* about to store is at most one more than what is recorded.
LoadedRecorded ==
  \A t \in Threads : pc[t] = "store" => reg[t] <= recorded[Counter(t)]

IndInv == TypeOK /\ LoadedRecorded /\ NeverOvercounts
=============================================================================
