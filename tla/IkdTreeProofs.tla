---------------------------- MODULE IkdTreeProofs ----------------------------
(****************************************************************************)
(* Proofs about the k-d tree, for any points, path, boxes and cells and any *)
(* number of searching threads:                                             *)
(*   Spec => []LockedReadsSafe   no search that took a lock, or counted     *)
(*                               itself, is left in a freed subtree         *)
(*   Spec => []TypeOK            every variable keeps its type              *)
(*   Spec => []MapAsAsked        between two calls the map holds the points *)
(*                               it was asked to hold                       *)
(*                                                                          *)
(* The first needs nothing of what the tree holds (SearchInv): the counter  *)
(* counts the searches that are in, so that none is when the rebuild thread *)
(* has closed it; a search which did not count itself saw no rebuild, and   *)
(* none begins until it is out, or it has an old pointer from before the    *)
(* swap and stays among those the property leaves out; and the mutex of the searches, taken once   *)
(* more after the swap, waits for the main thread's search by range.        *)
(*                                                                          *)
(* The second adds Types, the third MapOK, which holds as long as no        *)
(* rebuild has fallen into a gap.  Live says which points a search that     *)
(* pushes down what it meets would find below a node; a node marked as      *)
(* deleted has none.  While the rebuild thread replays, what is in its log, *)
(* applied to what lives in the new subtree, gives what lives in the old    *)
(* one, so that the subtrees agree when the log is found empty and the lock *)
(* is kept; the swap then changes nothing that a search finds.              *)
(****************************************************************************)
EXTENDS IkdTree, FiniteSetTheorems, SequenceTheorems, WellFoundedInduction, TLAPS

Counted == {r \in Searcher : reader[r] = "counted"}

\* The rebuild thread has locked the searches out.
Closed == rpc \in {"copy", "swap", "unlock"}

\* The rebuild thread needs the pointer from where it looked at it to its reset.
Rebuilding == rpc \in {"lock copy", "copy", "drain", "replay", "lock swap", "swap", "unlock"}

\* Where readers can be.
ReaderOK ==
  /\ reader \in [Reader -> {"out", "start", "son", "wait", "inside", "counted", "locked", "bare"}]
  /\ \A r \in Searcher : reader[r] # "locked"
  /\ \A r \in Searcher : reader[r] # "out" => mpc = "search"
  /\ reader["main"] \in {"out", "locked", "bare"}
  /\ reader["main"] # "out" => mpc = "ranging"

\* The counter counts, unless it is closed; then nobody is counted.
CounterOK ==
  /\ Closed => Counted = {}
  /\ search_mutex_counter = IF Closed THEN -1 ELSE Cardinality(Counted)

PointerOK ==
  /\ Rebuilding => Rebuild_Ptr # None
  /\ \A r \in Searcher : reader[r] = "inside" => Rebuild_Ptr = None

StaleOK ==
  /\ stale \subseteq {r \in Reader : reader[r] \in {"locked", "bare", "son"}}
  /\ rpc # "unlock" => \A r \in stale : reader[r] \in {"bare", "son"}

SearchInv == ReaderOK /\ CounterOK /\ PointerOK /\ StaleOK

-----------------------------------------------------------------------------
LEMMA CountedFinite == IsFiniteSet(Counted) /\ Cardinality(Counted) \in Nat
<1>1. Counted \subseteq Searcher
  BY DEF Counted
<1>2. IsFiniteSet(Counted)
  BY <1>1, IkdAssumption, FS_Subset DEF IkdAssumption
<1>. QED
  BY <1>2, FS_CardinalityType

LEMMA InitSearchInv == Init => SearchInv
<1>. SUFFICES ASSUME Init PROVE SearchInv
  OBVIOUS
<1>1. ReaderOK /\ PointerOK /\ StaleOK
  BY IkdAssumption DEF Init, ReaderOK, PointerOK, StaleOK, Reader, Rebuilding, IkdAssumption
<1>2. Counted = {}
  BY DEF Init, Counted, Reader
<1>3. CounterOK
  BY <1>2, FS_EmptySet DEF Init, CounterOK, Closed
<1>. QED
  BY <1>1, <1>3 DEF SearchInv

\* A step that leaves the readers, the counter and the rebuild thread alone keeps
\* the invariant, if it does not end the parallel search or Search_by_range and
\* asks for no rebuild while there are searches.
LEMMA MainMoves ==
  ASSUME SearchInv,
         mpc \notin {"search", "ranging"} \/ mpc' = mpc,
         mpc # "search" \/ Rebuild_Ptr' = Rebuild_Ptr,
         Rebuilding => Rebuild_Ptr' = Rebuild_Ptr,
         UNCHANGED <<reader, stale, search_mutex_counter, rpc>>
  PROVE  SearchInv'
<1>1. ReaderOK'
  BY DEF SearchInv, ReaderOK
<1>2. Counted' = Counted /\ Closed' = Closed /\ Rebuilding' = Rebuilding
  BY DEF Counted, Closed, Rebuilding
<1>3. CounterOK'
  BY <1>2 DEF SearchInv, CounterOK
<1>4. PointerOK'
  BY <1>2 DEF SearchInv, PointerOK, ReaderOK
<1>5. StaleOK'
  BY DEF SearchInv, StaleOK
<1>. QED
  BY <1>1, <1>3, <1>4, <1>5 DEF SearchInv

-----------------------------------------------------------------------------
(* The main thread. *)

LEMMA CallKeeps == SearchInv /\ Call => SearchInv'
<1>. SUFFICES ASSUME SearchInv, Call PROVE SearchInv'
  OBVIOUS
<1>1. mpc = "rest"
  BY DEF Call
<1>2. UNCHANGED <<theTree, locks, rebuilding, reading>>
  BY DEF Call
<1>. QED
  BY <1>1, <1>2, MainMoves DEF theTree, locks, rebuilding, reading

\* When the main thread starts a parallel search, nobody reads.
LEMMA NobodyReads ==
  ASSUME SearchInv, mpc \notin {"search", "ranging"}
  PROVE  /\ \A r \in Reader : reader[r] = "out"
         /\ Counted = {} /\ stale = {}
<1>1. \A r \in Reader : reader[r] = "out"
  BY DEF SearchInv, ReaderOK, Reader
<1>. QED
  BY <1>1 DEF Counted, Reader, SearchInv, StaleOK

LEMMA SearchAllKeeps == SearchInv /\ SearchAll => SearchInv'
<1>. SUFFICES ASSUME SearchInv, SearchAll PROVE SearchInv'
  OBVIOUS
<1>1. mpc = "rest" /\ mpc' = "search" /\ stale' = stale
      /\ reader' = [r \in Reader |-> IF r = "main" THEN "out" ELSE "start"]
      /\ Rebuild_Ptr' = Rebuild_Ptr /\ rpc' = rpc
      /\ search_mutex_counter' = search_mutex_counter
  BY DEF SearchAll, theTree, locks, rebuilding
<1>2. Counted = {} /\ stale = {}
  BY <1>1, NobodyReads
<1>3. ReaderOK'
  BY <1>1, IkdAssumption DEF ReaderOK, Reader, IkdAssumption
<1>4. Counted' = Counted /\ Closed' = Closed /\ Rebuilding' = Rebuilding
  BY <1>1, <1>2, IkdAssumption DEF Counted, Closed, Rebuilding, Reader, IkdAssumption
<1>5. CounterOK'
  BY <1>1, <1>4 DEF SearchInv, CounterOK
<1>6. PointerOK'
  BY <1>1, <1>4, IkdAssumption DEF SearchInv, PointerOK, Reader, IkdAssumption
<1>7. StaleOK'
  BY <1>1, <1>2 DEF StaleOK
<1>. QED
  BY <1>3, <1>5, <1>6, <1>7 DEF SearchInv

LEMMA SearchByRangeKeeps == SearchInv /\ Search_by_range => SearchInv'
<1>. SUFFICES ASSUME SearchInv, Search_by_range PROVE SearchInv'
  OBVIOUS
<1>1. mpc = "range" /\ mpc' = "ranging" /\ stale' = stale
      /\ reader' = [reader EXCEPT !["main"] = IF Rebuild_Ptr \in 1 .. Depth
                                              THEN "locked" ELSE "bare"]
      /\ Rebuild_Ptr' = Rebuild_Ptr /\ rpc' = rpc
      /\ search_mutex_counter' = search_mutex_counter
  BY DEF Search_by_range, theTree, locks, rebuilding
<1>2. stale = {} /\ \A r \in Reader : reader[r] = "out"
  BY <1>1, NobodyReads
<1>3. ReaderOK'
  BY <1>1, <1>2, IkdAssumption DEF SearchInv, ReaderOK, Reader, IkdAssumption
<1>4. \A r \in Searcher : reader'[r] = reader[r]
  BY <1>1, IkdAssumption DEF SearchInv, ReaderOK, Reader, IkdAssumption
<1>5. Counted' = Counted /\ Closed' = Closed /\ Rebuilding' = Rebuilding
  BY <1>1, <1>4 DEF Counted, Closed, Rebuilding
<1>6. CounterOK' /\ PointerOK'
  BY <1>1, <1>4, <1>5 DEF SearchInv, CounterOK, PointerOK
<1>7. StaleOK'
  BY <1>1, <1>2 DEF StaleOK
<1>. QED
  BY <1>3, <1>6, <1>7 DEF SearchInv

LEMMA DownsampleKeeps == SearchInv /\ Downsample => SearchInv'
<1>. SUFFICES ASSUME SearchInv, Downsample PROVE SearchInv'
  OBVIOUS
<1>1. mpc = "ranging" /\ stale' = stale \ {"main"}
      /\ reader' = [reader EXCEPT !["main"] = "out"]
      /\ Rebuild_Ptr' = Rebuild_Ptr /\ rpc' = rpc
      /\ search_mutex_counter' = search_mutex_counter
  BY DEF Downsample, theTree, locks, rebuilding
<1>2. \A r \in Searcher : reader[r] = "out" /\ reader'[r] = "out"
  BY <1>1, IkdAssumption DEF SearchInv, ReaderOK, Reader, IkdAssumption
<1>3. ReaderOK'
  BY <1>1, <1>2 DEF SearchInv, ReaderOK, Reader
<1>4. Counted' = Counted /\ Closed' = Closed /\ Rebuilding' = Rebuilding
  BY <1>1, <1>2 DEF Counted, Closed, Rebuilding
<1>5. CounterOK' /\ PointerOK'
  BY <1>1, <1>2, <1>4 DEF SearchInv, CounterOK, PointerOK
<1>6. stale' = {}
  BY <1>1, <1>2 DEF SearchInv, StaleOK, Reader
<1>7. StaleOK'
  BY <1>6 DEF StaleOK
<1>. QED
  BY <1>3, <1>5, <1>7 DEF SearchInv

LEMMA SearchedAllKeeps == SearchInv /\ SearchedAll => SearchInv'
<1>. SUFFICES ASSUME SearchInv, SearchedAll PROVE SearchInv'
  OBVIOUS
<1>1. /\ \A r \in Reader : reader[r] = "out"
      /\ UNCHANGED <<Rebuild_Ptr, search_mutex_counter, rpc, reader, stale>>
  BY DEF SearchedAll, theTree, locks, rebuilding, reading
<1>2. ReaderOK'
  BY <1>1 DEF SearchInv, ReaderOK, Reader
<1>3. Counted' = Counted /\ Closed' = Closed /\ Rebuilding' = Rebuilding
  BY <1>1 DEF Counted, Closed, Rebuilding
<1>4. CounterOK' /\ PointerOK' /\ StaleOK'
  BY <1>1, <1>3 DEF SearchInv, CounterOK, PointerOK, StaleOK
<1>. QED
  BY <1>2, <1>4 DEF SearchInv

LEMMA SearchPushDownKeeps ==
  ASSUME NEW r \in Reader, SearchInv, SearchPushDown(r)
  PROVE  SearchInv'
<1>1. UNCHANGED <<mpc, Rebuild_Ptr, search_mutex_counter, rpc, reader, stale>>
  BY DEF SearchPushDown, locks, rebuilding, operating, reading
<1>. QED
  BY <1>1, MainMoves

LEMMA MainKeeps == SearchInv /\ Main => SearchInv'
<1>. SUFFICES ASSUME SearchInv, Main PROVE SearchInv'
  OBVIOUS
<1>1. CASE TestRoot
  <2>1. mpc = "test" /\ UNCHANGED <<Rebuild_Ptr, search_mutex_counter, rpc, reader, stale>>
    BY <1>1 DEF TestRoot, theTree, locks, rebuilding, reading
  <2>. QED
    BY <2>1, MainMoves
<1>2. CASE Operate
  <2>1. mpc = "lock" /\ UNCHANGED <<Rebuild_Ptr, search_mutex_counter, rpc, reader, stale>>
    BY <1>2 DEF Operate, rebuilding, reading
  <2>. QED
    BY <2>1, MainMoves
<1>3. CASE Log
  <2>1. mpc = "log" /\ UNCHANGED <<Rebuild_Ptr, search_mutex_counter, rpc, reader, stale>>
    BY <1>3 DEF Log, rebuilding, reading
  <2>. QED
    BY <2>1, MainMoves
<1>4. CASE PushDownLocked
  <2>1. mpc = "down" /\ UNCHANGED <<Rebuild_Ptr, search_mutex_counter, rpc, reader, stale>>
    BY <1>4 DEF PushDownLocked, locks, rebuilding, reading
  <2>. QED
    BY <2>1, MainMoves
<1>5. CASE Descend
  <2>1. mpc = "down" /\ UNCHANGED <<Rebuild_Ptr, search_mutex_counter, rpc, reader, stale>>
    BY <1>5 DEF Descend, locks, rebuilding, reading
  <2>. QED
    BY <2>1, MainMoves
<1>6. CASE Ascent
  <2>1. mpc = "up" /\ UNCHANGED <<search_mutex_counter, rpc, reader, stale>>
    BY <1>6 DEF Ascent, locks, rebuilding, reading
  <2>2. Rebuilding => Rebuild_Ptr' = Rebuild_Ptr
    BY <1>6 DEF Ascent, MayRequest, Rebuilding
  <2>. QED
    BY <2>1, <2>2, MainMoves
<1>7. CASE SearchPushDown("main")
  BY <1>7, SearchPushDownKeeps DEF Reader
<1>. QED
  BY <1>1, <1>2, <1>3, <1>4, <1>5, <1>6, <1>7, SearchByRangeKeeps, DownsampleKeeps,
     SearchedAllKeeps DEF Main

-----------------------------------------------------------------------------
(* The searching threads. *)

LEMMA ReadBoxKeeps ==
  ASSUME NEW r \in Searcher, SearchInv, ReadBox(r)
  PROVE  SearchInv'
<1>1. /\ reader[r] = "start"
      /\ reader' = [reader EXCEPT ![r] = "son"]
      /\ UNCHANGED <<mpc, Rebuild_Ptr, search_mutex_counter, rpc, stale>>
  BY DEF ReadBox, theTree, locks, rebuilding, operating
<1>2. ReaderOK'
  BY <1>1, IkdAssumption DEF SearchInv, ReaderOK, Reader, IkdAssumption
<1>3. Counted' = Counted
  BY <1>1 DEF Counted, SearchInv, ReaderOK, Reader
<1>4. Closed' = Closed /\ Rebuilding' = Rebuilding /\ None' = None
  BY <1>1 DEF Closed, Rebuilding, None
<1>5. CounterOK'
  BY <1>1, <1>3, <1>4 DEF SearchInv, CounterOK
<1>6. PointerOK'
  BY <1>1, <1>4 DEF SearchInv, PointerOK, ReaderOK, Reader
<1>7. StaleOK'
  BY <1>1 DEF SearchInv, StaleOK, ReaderOK, Reader
<1>. QED
  BY <1>2, <1>5, <1>6, <1>7 DEF SearchInv

\* A search that goes on with an old pointer stays stale, and "bare".
LEMMA TestRebuildPtrKeeps ==
  ASSUME NEW r \in Searcher, SearchInv, TestRebuildPtr(r)
  PROVE  SearchInv'
<1>. PICK at \in {"inside", "wait", "bare"} :
       /\ reader' = [reader EXCEPT ![r] = at]
       /\ at = "inside" => Rebuild_Ptr = None
       /\ stale' = IF at = "bare" THEN stale ELSE stale \ {r}
  <2>1. \/ /\ reader' = [reader EXCEPT ![r] = IF Rebuild_Ptr = None THEN "inside" ELSE "wait"]
           /\ stale' = stale \ {r}
        \/ /\ reader' = [reader EXCEPT ![r] = "bare"]
           /\ stale' = stale
    BY DEF TestRebuildPtr
  <2>. QED
    BY <2>1
<1>1. /\ reader[r] \in {"start", "son"}
      /\ UNCHANGED <<mpc, Rebuild_Ptr, search_mutex_counter, rpc>>
  BY DEF TestRebuildPtr, theTree, locks, rebuilding, operating
<1>2. ReaderOK'
  BY <1>1, IkdAssumption DEF SearchInv, ReaderOK, Reader, IkdAssumption
<1>3. Counted' = Counted
  BY <1>1 DEF Counted, SearchInv, ReaderOK, Reader
<1>4. Closed' = Closed /\ Rebuilding' = Rebuilding /\ None' = None
  BY <1>1 DEF Closed, Rebuilding, None
<1>5. CounterOK'
  BY <1>1, <1>3, <1>4 DEF SearchInv, CounterOK
<1>6. PointerOK'
  BY <1>1, <1>4 DEF SearchInv, PointerOK, ReaderOK, Reader
<1>7. StaleOK'
  BY <1>1 DEF SearchInv, StaleOK, ReaderOK, Reader
<1>. QED
  BY <1>2, <1>5, <1>6, <1>7 DEF SearchInv

LEMMA EnterSearchKeeps ==
  ASSUME NEW r \in Searcher, SearchInv, EnterSearch(r)
  PROVE  SearchInv'
<1>1. /\ reader[r] = "wait" /\ search_mutex_counter # -1
      /\ search_mutex_counter' = search_mutex_counter + 1
      /\ reader' = [reader EXCEPT ![r] = "counted"]
      /\ UNCHANGED <<mpc, Rebuild_Ptr, rpc, stale>>
  BY DEF EnterSearch, theTree, rebuilding, operating
<1>2. ReaderOK'
  BY <1>1, IkdAssumption DEF SearchInv, ReaderOK, Reader, IkdAssumption
<1>3. ~Closed /\ Closed' = Closed /\ Rebuilding' = Rebuilding
  BY <1>1 DEF Closed, Rebuilding, SearchInv, CounterOK
<1>4. Counted' = Counted \cup {r} /\ r \notin Counted
  BY <1>1 DEF Counted, SearchInv, ReaderOK, Reader
<1>5. Cardinality(Counted') = Cardinality(Counted) + 1
  BY <1>4, CountedFinite, FS_AddElement
<1>6. CounterOK'
  BY <1>1, <1>3, <1>5 DEF SearchInv, CounterOK
<1>7. PointerOK'
  BY <1>1, <1>3 DEF SearchInv, PointerOK, ReaderOK, Reader
<1>8. StaleOK'
  BY <1>1 DEF SearchInv, StaleOK, ReaderOK, Reader
<1>. QED
  BY <1>2, <1>6, <1>7, <1>8 DEF SearchInv

LEMMA LeaveSearchKeeps ==
  ASSUME NEW r \in Searcher, SearchInv, LeaveSearch(r)
  PROVE  SearchInv'
<1>1. /\ reader[r] \in {"inside", "counted", "bare"}
      /\ reader' = [reader EXCEPT ![r] = "out"]
      /\ stale' = stale \ {r}
      /\ UNCHANGED <<mpc, Rebuild_Ptr, rpc>>
  BY DEF LeaveSearch, theTree, rebuilding, operating
<1>2. ReaderOK'
  BY <1>1, IkdAssumption DEF SearchInv, ReaderOK, Reader, IkdAssumption
<1>3. Closed' = Closed /\ Rebuilding' = Rebuilding
  BY <1>1 DEF Closed, Rebuilding
<1>4. PointerOK'
  BY <1>1, <1>3 DEF SearchInv, PointerOK, ReaderOK, Reader
<1>5. StaleOK'
  BY <1>1 DEF SearchInv, StaleOK, ReaderOK, Reader
<1>6. CounterOK'
  <2>1. CASE reader[r] \in {"inside", "bare"}
    <3>1. search_mutex_counter' = search_mutex_counter
      BY <2>1 DEF LeaveSearch
    <3>2. Counted' = Counted
      BY <1>1, <2>1 DEF Counted, SearchInv, ReaderOK, Reader
    <3>. QED
      BY <1>3, <3>1, <3>2 DEF SearchInv, CounterOK
  <2>2. CASE reader[r] = "counted"
    <3>1. Counted' = Counted \ {r} /\ r \in Counted
      BY <1>1, <2>2 DEF Counted, SearchInv, ReaderOK, Reader
    <3>2. ~Closed /\ search_mutex_counter = Cardinality(Counted)
      BY <3>1 DEF SearchInv, CounterOK
    <3>3. search_mutex_counter' = search_mutex_counter - 1
      BY <2>2 DEF LeaveSearch
    <3>4. Cardinality(Counted') = Cardinality(Counted) - 1
      BY <3>1, CountedFinite, FS_RemoveElement
    <3>. QED
      BY <1>3, <3>2, <3>3, <3>4 DEF CounterOK
  <2>. QED
    BY <1>1, <2>1, <2>2
<1>. QED
  BY <1>2, <1>4, <1>5, <1>6 DEF SearchInv

-----------------------------------------------------------------------------
(* The rebuild thread. *)

\* A step of the rebuild thread while the counter is open.
LEMMA RebuilderMoves ==
  ASSUME SearchInv,
         UNCHANGED <<reader, mpc, stale, search_mutex_counter, Rebuild_Ptr>>,
         ~Closed /\ ~Closed',
         Rebuilding' => Rebuild_Ptr # None
  PROVE  SearchInv'
<1>1. ReaderOK' /\ Counted' = Counted /\ None' = None
  BY DEF SearchInv, ReaderOK, Counted, None
<1>2. CounterOK' /\ PointerOK'
  BY <1>1 DEF SearchInv, CounterOK, PointerOK
<1>3. rpc # "unlock"
  BY DEF Closed
<1>4. StaleOK'
  BY <1>3 DEF SearchInv, StaleOK
<1>. QED
  BY <1>1, <1>2, <1>4 DEF SearchInv

LEMMA LockSearchKeeps == SearchInv /\ LockSearch => SearchInv'
<1>. SUFFICES ASSUME SearchInv, LockSearch PROVE SearchInv'
  OBVIOUS
<1>1. /\ rpc \in {"lock copy", "lock swap"} /\ rpc' \in {"copy", "swap"}
      /\ search_mutex_counter = 0 /\ search_mutex_counter' = -1
      /\ UNCHANGED <<reader, mpc, stale, Rebuild_Ptr>>
  BY DEF LockSearch, theTree, operating, reading
<1>2. Counted = {}
  BY <1>1, CountedFinite, FS_EmptySet DEF SearchInv, CounterOK, Closed
<1>3. Counted' = {} /\ Closed' /\ Rebuilding /\ None' = None
  BY <1>1, <1>2 DEF Counted, Closed, Rebuilding, None
<1>4. CounterOK'
  BY <1>1, <1>3 DEF CounterOK
<1>5. ReaderOK' /\ PointerOK' /\ StaleOK'
  BY <1>1, <1>3 DEF SearchInv, ReaderOK, PointerOK, StaleOK
<1>. QED
  BY <1>4, <1>5 DEF SearchInv

LEMMA CopyKeeps == SearchInv /\ Copy => SearchInv'
<1>. SUFFICES ASSUME SearchInv, Copy PROVE SearchInv'
  OBVIOUS
<1>1. /\ rpc = "copy" /\ rpc' \in {"lock swap", "drain"}
      /\ search_mutex_counter' = 0
      /\ UNCHANGED <<reader, mpc, stale, Rebuild_Ptr>>
  BY DEF Copy, operating, reading
<1>2. Counted' = {} /\ ~Closed' /\ Rebuilding /\ None' = None
  BY <1>1 DEF SearchInv, CounterOK, Counted, Closed, Rebuilding, None
<1>3. CounterOK'
  BY <1>1, <1>2, FS_EmptySet DEF CounterOK
<1>4. ReaderOK' /\ PointerOK' /\ StaleOK'
  BY <1>1, <1>2 DEF SearchInv, ReaderOK, PointerOK, StaleOK
<1>. QED
  BY <1>3, <1>4 DEF SearchInv

\* Only the main thread's search by range can be in the subtree that goes, and
\* searches that read its box.
LEMMA SwapKeeps == SearchInv /\ Swap => SearchInv'
<1>. SUFFICES ASSUME SearchInv, Swap PROVE SearchInv'
  OBVIOUS
<1>1. /\ rpc = "swap" /\ rpc' = "unlock"
      /\ stale' = {r \in Reader : reader[r] \in {"son", "inside", "counted", "locked", "bare"}}
      /\ UNCHANGED <<reader, mpc, search_mutex_counter, Rebuild_Ptr>>
  BY DEF Swap, locks, operating
<1>2. Closed /\ Closed' /\ Rebuilding /\ Counted' = Counted /\ None' = None
  BY <1>1 DEF Closed, Rebuilding, Counted, None
<1>3. \A r \in Searcher : reader[r] \notin {"inside", "counted"}
  BY <1>2 DEF SearchInv, PointerOK, CounterOK, Counted
<1>4. stale' \subseteq {r \in Reader : reader[r] \in {"locked", "bare", "son"}}
  BY <1>1, <1>3 DEF SearchInv, ReaderOK, Reader
<1>5. ReaderOK' /\ CounterOK' /\ PointerOK'
  BY <1>1, <1>2 DEF SearchInv, ReaderOK, CounterOK, PointerOK
<1>6. StaleOK'
  BY <1>1, <1>4 DEF StaleOK
<1>. QED
  BY <1>5, <1>6 DEF SearchInv

\* The mutex of the searches, taken once more, has waited for the main thread.
LEMMA EndSwapKeeps == SearchInv /\ EndSwap => SearchInv'
<1>. SUFFICES ASSUME SearchInv, EndSwap PROVE SearchInv'
  OBVIOUS
<1>1. /\ rpc = "unlock" /\ rpc' = "clear flag" /\ SearchMutexFree
      /\ search_mutex_counter' = 0 /\ Rebuild_Ptr' = None
      /\ UNCHANGED <<reader, mpc, stale>>
  BY DEF EndSwap, operating, reading
<1>2. Counted' = {} /\ ~Closed' /\ ~Rebuilding' /\ None' = None
  BY <1>1 DEF SearchInv, CounterOK, Counted, Closed, Rebuilding, None
<1>3. CounterOK'
  BY <1>1, <1>2, FS_EmptySet DEF CounterOK
<1>4. \A r \in stale : reader[r] \in {"bare", "son"}
  BY <1>1 DEF SearchInv, StaleOK, ReaderOK, Reader, SearchMutexFree
<1>5. ReaderOK' /\ PointerOK' /\ StaleOK'
  BY <1>1, <1>2, <1>4 DEF SearchInv, ReaderOK, PointerOK, StaleOK
<1>. QED
  BY <1>3, <1>5 DEF SearchInv

LEMMA RebuilderKeeps == SearchInv /\ Rebuilder => SearchInv'
<1>. SUFFICES ASSUME SearchInv, Rebuilder PROVE SearchInv'
  OBVIOUS
<1>1. CASE BeginRebuild
  <2>1. /\ rpc = "idle" /\ rpc' = "lock copy" /\ Rebuild_Ptr # None
        /\ UNCHANGED <<reader, mpc, stale, search_mutex_counter, Rebuild_Ptr>>
    BY <1>1 DEF BeginRebuild, operating, reading
  <2>2. ~Closed /\ ~Closed'
    BY <2>1 DEF Closed
  <2>. QED
    BY <2>1, <2>2, RebuilderMoves
<1>2. CASE Drain
  <2>1. /\ rpc = "drain" /\ rpc' \in {"lock swap", "replay"}
        /\ UNCHANGED <<reader, mpc, stale, search_mutex_counter, Rebuild_Ptr>>
    BY <1>2 DEF Drain, operating, reading
  <2>2. Rebuild_Ptr # None
    BY <2>1 DEF SearchInv, PointerOK, Rebuilding
  <2>3. ~Closed /\ ~Closed'
    BY <2>1 DEF Closed
  <2>. QED
    BY <2>1, <2>2, <2>3, RebuilderMoves
<1>3. CASE Replay
  <2>1. /\ rpc = "replay" /\ rpc' = "drain"
        /\ UNCHANGED <<reader, mpc, stale, search_mutex_counter, Rebuild_Ptr>>
    BY <1>3 DEF Replay, theTree, locks, operating, reading
  <2>2. Rebuild_Ptr # None
    BY <2>1 DEF SearchInv, PointerOK, Rebuilding
  <2>3. ~Closed /\ ~Closed'
    BY <2>1 DEF Closed
  <2>. QED
    BY <2>1, <2>2, <2>3, RebuilderMoves
<1>4. CASE ClearFlag
  <2>1. /\ rpc = "clear flag" /\ rpc' = "free"
        /\ UNCHANGED <<reader, mpc, stale, search_mutex_counter, Rebuild_Ptr>>
    BY <1>4 DEF ClearFlag, locks, operating, reading
  <2>2. ~Closed /\ ~Closed' /\ ~Rebuilding'
    BY <2>1 DEF Closed, Rebuilding
  <2>. QED
    BY <2>1, <2>2, RebuilderMoves
<1>5. CASE delete_tree_nodes
  <2>1. /\ rpc = "free" /\ rpc' = "idle"
        /\ UNCHANGED <<reader, mpc, stale, search_mutex_counter, Rebuild_Ptr>>
    BY <1>5 DEF delete_tree_nodes, theTree, locks, operating, reading
  <2>2. ~Closed /\ ~Closed' /\ ~Rebuilding'
    BY <2>1 DEF Closed, Rebuilding
  <2>. QED
    BY <2>1, <2>2, RebuilderMoves
<1>. QED
  BY <1>1, <1>2, <1>3, <1>4, <1>5, LockSearchKeeps, CopyKeeps, SwapKeeps, EndSwapKeeps
     DEF Rebuilder

-----------------------------------------------------------------------------
LEMMA NextKeeps == SearchInv /\ [Next]_vars => SearchInv'
<1>. SUFFICES ASSUME SearchInv, [Next]_vars PROVE SearchInv'
  OBVIOUS
<1>1. ASSUME NEW r \in Searcher, Search(r) PROVE SearchInv'
  BY <1>1, ReadBoxKeeps, TestRebuildPtrKeeps, EnterSearchKeeps, LeaveSearchKeeps,
     SearchPushDownKeeps DEF Search, Reader
<1>2. CASE UNCHANGED vars
  <2>1. UNCHANGED <<Rebuild_Ptr, search_mutex_counter, rpc, reader, stale, mpc>>
    BY <1>2 DEF vars, theTree, locks, rebuilding, operating, reading
  <2>. QED
    BY <2>1, MainMoves
<1>. QED
  BY <1>1, <1>2, CallKeeps, SearchAllKeeps, MainKeeps, RebuilderKeeps DEF Next

\* Whoever searches, and however the rebuild thread and the main thread
\* interleave, the counter of the searches is exact and closed only when nobody
\* is counted (ikd_Tree.cpp:260-268, :431-440).
THEOREM SearchesAreCounted == Spec => []SearchInv
<1>. QED
  BY InitSearchInv, NextKeeps, PTL DEF Spec

\* No search that counted itself, took the mutex, or saw no rebuild is left in a
\* subtree that the rebuild thread frees (ikd_Tree.cpp:303-354).  It leaves out the
\* Search_by_range that met the rebuild of the root without a lock, and a search
\* that has read the pointer to the son for its box, before it tests and counts.
THEOREM SearchesAreSafe == Spec => []LockedReadsSafe
<1>1. SearchInv => LockedReadsSafe
  BY DEF SearchInv, StaleOK, LockedReadsSafe
<1>. QED
  BY <1>1, SearchesAreCounted, PTL

-----------------------------------------------------------------------------
\* The smallest of a set of natural numbers.
LEMMA MinIs ==
  ASSUME NEW S \in SUBSET Nat, S # {}
  PROVE  Min(S) \in S /\ \A x \in S : Min(S) <= x
<1>. DEFINE Less == {ss \in Nat \X Nat : ss[1] < ss[2]}
<1>1. IsWellFoundedOn(Less, Nat)
  BY NatLessThanWellFounded DEF OpToRel
<1>2. PICK x \in S : \A y \in S : ~(<<y, x>> \in Less)
  BY <1>1, WFMin
<1>3. \A y \in S : x <= y
  <2>. TAKE y \in S
  <2>1. y \in Nat /\ x \in Nat /\ ~(<<y, x>> \in Less)
    BY <1>2
  <2>2. <<y, x>> \in Nat \X Nat /\ <<y, x>>[1] = y /\ <<y, x>>[2] = x
    BY <2>1
  <2>3. ~(y < x)
    BY <2>1, <2>2
  <2>. QED
    BY <2>1, <2>3
<1>. QED
  BY <1>3 DEF Min

-----------------------------------------------------------------------------
(* Types. *)

Sub(t) == [t .. Depth -> Node]

\* Operations as they are asked for and logged: a point is added alone.
Asked == {o \in Operation : o.op = "ADD_POINT" => \E p \in Point : o.box = {p}}
MainOp == {o \in Asked : o.op # "PUSH_DOWN"}

LEMMA LevelsAreInt == Depth \in Nat /\ 0 \in Level /\ Depth \in Level /\ Level \subseteq Nat
BY IkdAssumption DEF IkdAssumption, Level

LEMMA NodeFields ==
  ASSUME NEW node \in Node
  PROVE  /\ node.valid \in SUBSET Point /\ node.deleted \in SUBSET Point
         /\ node.tree_deleted \in BOOLEAN
         /\ node.need_push_down \in BOOLEAN
         /\ node.working_flag \in BOOLEAN
BY DEF Node


\* A node with new contents and marks.
With(node, v, d, a, b) ==
  [node EXCEPT !.tree_deleted = a, !.valid = v, !.deleted = d, !.need_push_down = b]

LEMMA WithIs ==
  \A node \in Node : \A v, d \in SUBSET Point : \A a, b \in BOOLEAN :
    /\ With(node, v, d, a, b) \in Node
    /\ With(node, v, d, a, b).valid = v
    /\ With(node, v, d, a, b).deleted = d
    /\ With(node, v, d, a, b).tree_deleted = a
    /\ With(node, v, d, a, b).need_push_down = b
<1>. SUFFICES ASSUME NEW node \in Node, NEW v \in SUBSET Point, NEW d \in SUBSET Point,
                     NEW a \in BOOLEAN, NEW b \in BOOLEAN
              PROVE  /\ With(node, v, d, a, b) \in Node
                     /\ With(node, v, d, a, b).valid = v
                     /\ With(node, v, d, a, b).deleted = d
                     /\ With(node, v, d, a, b).tree_deleted = a
                     /\ With(node, v, d, a, b).need_push_down = b
  OBVIOUS
<1>. QED
  BY DEF Node, With

LEMMA InheritIs ==
  ASSUME NEW node \in Node, NEW dead \in BOOLEAN, NEW n
  PROVE  /\ Inherit(node, dead, n) \in Node
         /\ Inherit(node, dead, n).valid = IF dead THEN {} ELSE node.valid \cup node.deleted
         /\ Inherit(node, dead, n).deleted = IF dead THEN node.deleted \cup node.valid ELSE {}
         /\ Inherit(node, dead, n).tree_deleted = dead
         /\ Inherit(node, dead, n).need_push_down = (n < Depth)
<1>. DEFINE v == IF dead THEN {} ELSE node.valid \cup node.deleted
            d == IF dead THEN node.deleted \cup node.valid ELSE {}
            b == n < Depth
<1>1. Inherit(node, dead, n) = With(node, v, d, dead, b)
  BY Zenon DEF Inherit, With
<1>2. b \in BOOLEAN /\ v \in SUBSET Point /\ d \in SUBSET Point
  BY NodeFields
<1>. HIDE DEF b, v, d
<1>9. /\ With(node, v, d, dead, b) \in Node
      /\ With(node, v, d, dead, b).valid = v
      /\ With(node, v, d, dead, b).deleted = d
  BY <1>2, WithIs
<1>8. With(node, v, d, dead, b).tree_deleted = dead
  BY <1>2, WithIs
<1>7. With(node, v, d, dead, b).need_push_down = b
  BY <1>2, WithIs
<1>3. /\ Inherit(node, dead, n) \in Node
      /\ Inherit(node, dead, n).valid = v
      /\ Inherit(node, dead, n).deleted = d
      /\ Inherit(node, dead, n).tree_deleted = dead
      /\ Inherit(node, dead, n).need_push_down = b
  BY <1>1, <1>9, <1>8, <1>7, Zenon
<1>. QED
  BY <1>3, Zenon DEF b, v, d

Entered(node) == [node EXCEPT !.working_flag = TRUE, !.need_push_down = FALSE]

LEMMA EnteredIs ==
  ASSUME NEW node \in Node
  PROVE  /\ Entered(node) \in Node
         /\ Entered(node).valid = node.valid
         /\ Entered(node).deleted = node.deleted
         /\ Entered(node).tree_deleted = node.tree_deleted
         /\ Entered(node).need_push_down = FALSE
BY DEF Node, Entered

Struck(node, v, d) == [node EXCEPT !.valid = v, !.deleted = d]

LEMMA StruckIs ==
  \A node \in Node : \A v, d \in SUBSET Point :
    /\ Struck(node, v, d) \in Node
    /\ Struck(node, v, d).valid = v
    /\ Struck(node, v, d).deleted = d
    /\ Struck(node, v, d).tree_deleted = node.tree_deleted
    /\ Struck(node, v, d).need_push_down = node.need_push_down
<1>. SUFFICES ASSUME NEW node \in Node, NEW v \in SUBSET Point, NEW d \in SUBSET Point
              PROVE  /\ Struck(node, v, d) \in Node
                     /\ Struck(node, v, d).valid = v
                     /\ Struck(node, v, d).deleted = d
                     /\ Struck(node, v, d).tree_deleted = node.tree_deleted
                     /\ Struck(node, v, d).need_push_down = node.need_push_down
  OBVIOUS
<1>. QED
  BY DEF Node, Struck

Turns == {"deleted", "outside", "covered", "son", "update"}

\* What an operation makes of the node at which it takes a turn.
LEMMA ChangeIs ==
  \A node \in Node : \A turn \in Turns : \A o \in Operation : \A n :
    /\ Change(node, turn, o, n) \in Node
    /\ turn = "deleted" => Change(node, turn, o, n) = node
    /\ turn = "outside" => /\ Change(node, turn, o, n).valid = node.valid
                           /\ Change(node, turn, o, n).tree_deleted <=> node.tree_deleted
                           /\ ~Change(node, turn, o, n).need_push_down
    /\ turn = "covered" => /\ Change(node, turn, o, n).valid = {}
                           /\ Change(node, turn, o, n).tree_deleted
                           /\ Change(node, turn, o, n).need_push_down <=> n < Depth
    /\ turn \in {"son", "update"} =>
         /\ o.op = "ADD_POINT" => Change(node, turn, o, n).valid
                                    = node.valid \cup {p \in o.box : Home[p] <= n}
         /\ o.op # "ADD_POINT" => Change(node, turn, o, n).valid = node.valid \ o.box
         /\ ~Change(node, turn, o, n).need_push_down
<1>. TAKE node \in Node
<1>. TAKE turn \in Turns
<1>. TAKE o \in Operation
<1>. TAKE n
<1>1. CASE turn = "deleted"
  BY <1>1, Zenon DEF Change
<1>2. CASE turn = "outside"
  <2>1. Change(node, turn, o, n) = Entered(node)
    BY <1>2, Zenon DEF Change, Entered
  <2>. QED
    BY <1>2, <2>1, EnteredIs, Zenon
<1>3. CASE turn = "covered"
  <2>. DEFINE e == Entered(node)
              d == e.deleted \cup node.valid
              b == n < Depth
              none == {}
              yes == TRUE
  <2>1. Change(node, turn, o, n) =
          [e EXCEPT !.tree_deleted = TRUE, !.need_push_down = b, !.deleted = d, !.valid = {}]
    BY <1>3, Zenon DEF Change, Entered
  <2>2. e \in Node
    BY EnteredIs
  <2>3. e.deleted \in SUBSET Point /\ node.valid \in SUBSET Point
    BY <2>2, NodeFields
  <2>4. b \in BOOLEAN /\ d \in SUBSET Point /\ yes \in BOOLEAN /\ none \in SUBSET Point
    BY <2>3
  <2>. HIDE DEF b, d, e
  <2>5. Change(node, turn, o, n) = With(e, none, d, yes, b)
    BY <2>1, <2>2, <2>4 DEF With, Node
  <2>. HIDE DEF none, yes
  <2>6. /\ With(e, none, d, yes, b) \in Node
        /\ With(e, none, d, yes, b).valid = none
    BY <2>2, <2>4, WithIs
  <2>7. With(e, none, d, yes, b).tree_deleted = yes
    BY <2>2, <2>4, WithIs
  <2>8. With(e, none, d, yes, b).need_push_down = b
    BY <2>2, <2>4, WithIs
  <2>9. /\ Change(node, turn, o, n) \in Node
        /\ Change(node, turn, o, n).valid = none
        /\ Change(node, turn, o, n).tree_deleted = yes
        /\ Change(node, turn, o, n).need_push_down = b
    BY <2>5, <2>6, <2>7, <2>8, Zenon
  <2>. QED
    BY <1>3, <2>9, Zenon DEF b, none, yes
<1>4. CASE turn \in {"son", "update"}
  <2>. DEFINE v == IF o.op = "ADD_POINT" THEN node.valid \cup {p \in o.box : Home[p] <= n}
                   ELSE node.valid \ o.box
              d == IF o.op = "DELETE_BOX" THEN node.deleted \cup (node.valid \cap o.box)
                   ELSE node.deleted
  <2>1. Change(node, turn, o, n) = Struck(Entered(node), v, d)
    BY <1>4, EnteredIs DEF Change, Struck, Entered, Node
  <2>2. v \in SUBSET Point /\ d \in SUBSET Point
    BY NodeFields DEF Operation
  <2>. HIDE DEF d, v
  <2>4. Entered(node) \in Node
    BY EnteredIs
  <2>5. /\ Struck(Entered(node), v, d) \in Node
        /\ Struck(Entered(node), v, d).valid = v
    BY <2>2, <2>4, StruckIs
  <2>8. /\ Struck(Entered(node), v, d).tree_deleted = Entered(node).tree_deleted
        /\ Struck(Entered(node), v, d).need_push_down = Entered(node).need_push_down
    BY <2>2, <2>4, StruckIs
  <2>6. Entered(node).tree_deleted = node.tree_deleted
    BY EnteredIs
  <2>7. Entered(node).need_push_down = FALSE
    BY EnteredIs
  <2>3. /\ Change(node, turn, o, n) \in Node
        /\ Change(node, turn, o, n).valid = v
        /\ Change(node, turn, o, n).tree_deleted = node.tree_deleted
        /\ Change(node, turn, o, n).need_push_down = FALSE
    BY <2>1, <2>5, <2>6, <2>7, <2>8, Zenon
  <2>. QED
    BY <1>4, <2>3, Zenon DEF v
<1>. QED
  BY <1>1, <1>2, <1>3, <1>4 DEF Turns

-----------------------------------------------------------------------------
LEMMA TurnIs ==
  \A node, inside, o, n :
    /\ Turn(node, inside, o, n) \in Turns
    /\ o.op = "ADD_POINT" => Turn(node, inside, o, n) \in {"son", "update"}
    /\ o \in MainOp => Turn(node, inside, o, Depth) # "son"
<1>. SUFFICES ASSUME NEW node, NEW inside, NEW o, NEW n
              PROVE  /\ Turn(node, inside, o, n) \in Turns
                     /\ o.op = "ADD_POINT" => Turn(node, inside, o, n) \in {"son", "update"}
                     /\ o \in MainOp => Turn(node, inside, o, Depth) # "son"
  OBVIOUS
<1>1. CASE o.op = "ADD_POINT"
  <2>1. o \in MainOp => \E p \in o.box : Home[p] <= Depth
    <3>. SUFFICES ASSUME o \in MainOp PROVE \E p \in o.box : Home[p] <= Depth
      OBVIOUS
    <3>1. PICK p \in Point : o.box = {p}
      BY <1>1 DEF MainOp, Asked
    <3>2. Home[p] \in 0 .. Depth /\ Depth \in Nat
      BY IkdAssumption DEF IkdAssumption
    <3>. QED
      BY <3>1, <3>2
  <2>. QED
    BY <1>1, <2>1 DEF Turn, Turns
<1>2. CASE o.op # "ADD_POINT"
  <2>1. ~(Depth < Depth)
    BY LevelsAreInt
  <2>2. CASE node.tree_deleted
    BY <1>2, <2>2 DEF Turn, Turns
  <2>3. CASE ~node.tree_deleted /\ inside \cap o.box = {}
    BY <1>2, <2>3 DEF Turn, Turns
  <2>4. CASE /\ ~node.tree_deleted /\ inside \cap o.box # {}
             /\ inside # {} /\ inside \subseteq o.box /\ o.op = "DELETE_BOX"
    BY <1>2, <2>4 DEF Turn, Turns
  <2>5. CASE /\ ~node.tree_deleted /\ inside \cap o.box # {}
             /\ ~(inside # {} /\ inside \subseteq o.box /\ o.op = "DELETE_BOX")
    BY <1>2, <2>1, <2>5 DEF Turn, Turns
  <2>. QED
    BY <2>2, <2>3, <2>4, <2>5
<1>. QED
  BY <1>1, <1>2

LEMMA InheritType ==
  \A node \in Node : \A dead \in BOOLEAN : \A n : Inherit(node, dead, n) \in Node
BY InheritIs, Zenon

\* The uppermost mark reaches all that is below it.
LEMMA SettledIs ==
  ASSUME NEW a \in Level, NEW t \in a .. Depth, NEW tr \in Sub(a)
  PROVE  /\ Settled(tr, t) \in Sub(t)
         /\ \A n \in t .. Depth :
              \/ /\ \A m \in t .. n - 1 : ~tr[m].need_push_down
                 /\ Settled(tr, t)[n] = tr[n]
              \/ \E m \in t .. n - 1 : /\ tr[m].need_push_down
                                       /\ Settled(tr, t)[n] = Inherit(tr[n], tr[m].tree_deleted, n)
<1>. DEFINE owing(n) == {m \in t .. n - 1 : tr[m].need_push_down}
            S == Settled(tr, t)
<1>1. /\ DOMAIN S = t .. Depth
      /\ S = [n \in t .. Depth |-> S[n]]
      /\ \A n \in t .. Depth :
           S[n] = IF owing(n) = {} THEN tr[n]
                  ELSE Inherit(tr[n], tr[Min(owing(n))].tree_deleted, n)
  BY DEF Settled
<1>2. a \in Nat /\ t \in Nat /\ Depth \in Nat /\ a <= t
  BY LevelsAreInt
<1>. HIDE DEF S
<1>3. ASSUME NEW n \in t .. Depth
      PROVE  /\ S[n] \in Node
             /\ \/ /\ \A m \in t .. n - 1 : ~tr[m].need_push_down
                   /\ S[n] = tr[n]
                \/ \E m \in t .. n - 1 : /\ tr[m].need_push_down
                                         /\ S[n] = Inherit(tr[n], tr[m].tree_deleted, n)
  <2>1. n \in a .. Depth /\ tr[n] \in Node
    BY <1>2 DEF Sub
  <2>2. CASE owing(n) = {}
    <3>1. S[n] = tr[n]
      BY <1>1, <2>2
    <3>2. \A m \in t .. n - 1 : ~tr[m].need_push_down
      BY <2>2
    <3>. QED
      BY <2>1, <3>1, <3>2
  <2>3. CASE owing(n) # {}
    <3>. DEFINE m == Min(owing(n))
    <3>1. owing(n) \in SUBSET Nat
      BY <1>2
    <3>2. m \in owing(n)
      BY <2>3, <3>1, MinIs
    <3>3. S[n] = Inherit(tr[n], tr[m].tree_deleted, n)
      BY <1>1, <2>3
    <3>. HIDE DEF m
    <3>4. m \in t .. n - 1 /\ tr[m].need_push_down
      BY <3>2
    <3>5. m \in a .. Depth
      BY <1>2, <3>4
    <3>6. tr[m] \in Node
      BY <3>5 DEF Sub
    <3>7. tr[m].tree_deleted \in BOOLEAN
      BY <3>6, NodeFields
    <3>8. S[n] \in Node
      BY <2>1, <3>3, <3>7, InheritType, Zenon
    <3>. QED
      BY <3>3, <3>4, <3>8
  <2>. QED
    BY <2>2, <2>3
<1>4. S \in Sub(t)
  BY <1>1, <1>3 DEF Sub
<1>. QED
  BY <1>3, <1>4 DEF S

LEMMA ChangeType ==
  \A node \in Node : \A turn \in Turns : \A o \in Operation : \A n :
    Change(node, turn, o, n) \in Node
BY ChangeIs, Zenon

LEMMA OperatedType ==
  ASSUME NEW a \in Level, NEW t \in a .. Depth, NEW m \in t .. Depth, NEW tr \in Sub(a),
         NEW turn \in Turns, NEW o \in Operation
  PROVE  Operated(tr, t, m, turn, o) \in Sub(a)
<1>. DEFINE settled == Settled(tr, t)
            reached == IF turn = "deleted" THEN m ELSE m + 1
            new(n) == CASE n < t \/ n > reached -> tr[n]
                        [] n \in t .. m - 1 -> Change(settled[n], "son", o, n)
                        [] n = m -> Change(settled[n], turn, o, n)
                        [] n = m + 1 /\ n = reached -> settled[n]
<1>1. a \in Nat /\ t \in Nat /\ Depth \in Nat /\ a <= t /\ m \in Nat
  BY LevelsAreInt
<1>2. settled \in Sub(t)
  BY SettledIs
<1>. HIDE DEF settled
<1>3. ASSUME NEW n \in a .. Depth PROVE new(n) \in Node
  <2>1. CASE n < t \/ n > reached
    BY <1>1, <2>1 DEF Sub
  <2>2. CASE n \in t .. m - 1
    <3>1. new(n) = Change(settled[n], "son", o, n)
      BY <1>1, <2>2
    <3>2. settled[n] \in Node
      BY <1>1, <1>2, <2>2 DEF Sub
    <3>. QED
      BY <3>1, <3>2, ChangeType DEF Turns
  <2>3. CASE n = m
    <3>1. new(n) = Change(settled[n], turn, o, n)
      BY <1>1, <2>3
    <3>2. settled[n] \in Node
      BY <1>1, <1>2, <2>3 DEF Sub
    <3>. QED
      BY <3>1, <3>2, ChangeType
  <2>4. CASE n = m + 1 /\ n = reached
    <3>1. new(n) = settled[n]
      BY <1>1, <2>4
    <3>. QED
      BY <1>1, <1>2, <2>4, <3>1 DEF Sub
  <2>. QED
    BY <1>1, <2>1, <2>2, <2>3, <2>4
<1>. HIDE DEF reached
<1>4. Operated(tr, t, m, turn, o) = [n \in DOMAIN tr |-> new(n)]
  BY Zenon DEF Operated, settled, reached
<1>5. DOMAIN tr = a .. Depth
  BY DEF Sub
<1>. HIDE DEF new
<1>. QED
  BY <1>3, <1>4, <1>5 DEF Sub

LEMMA UpdateType ==
  ASSUME NEW a \in Level, NEW tr \in Sub(a), NEW t, NEW m
  PROVE  /\ Update(tr, t, m) \in Sub(a)
         /\ UpdateAndLeave(tr, t, m) \in Sub(a)
<1>. DEFINE dead(n) == /\ \A k \in n .. m : tr[k].valid = {}
                       /\ m < Depth => tr[m + 1].tree_deleted
            U == Update(tr, t, m)
<1>1. DOMAIN tr = a .. Depth
  BY DEF Sub
<1>2. \A n \in a .. Depth : tr[n] \in Node
  BY DEF Sub
<1>3. \A node \in Node : \A d \in BOOLEAN : [node EXCEPT !.tree_deleted = d] \in Node
  BY DEF Node
<1>4. \A node \in Node : [node EXCEPT !.working_flag = FALSE] \in Node
  BY DEF Node
<1>5. U = [n \in a .. Depth |-> IF n \in t .. m THEN [tr[n] EXCEPT !.tree_deleted = dead(n)] ELSE tr[n]]
  BY <1>1, Zenon DEF Update
<1>6. \A n \in a .. Depth : dead(n) \in BOOLEAN
  OBVIOUS
<1>. HIDE DEF dead, U
<1>7. \A n \in a .. Depth : U[n] \in Node
  BY <1>2, <1>3, <1>5, <1>6
<1>8. U \in Sub(a)
  BY <1>5, <1>7 DEF Sub
<1>9. UpdateAndLeave(tr, t, m) =
        [n \in a .. Depth |-> IF n \in t .. m THEN [U[n] EXCEPT !.working_flag = FALSE] ELSE tr[n]]
  BY <1>1, Zenon DEF UpdateAndLeave, U
<1>10. UpdateAndLeave(tr, t, m) \in Sub(a)
  BY <1>2, <1>4, <1>7, <1>9 DEF Sub
<1>. QED
  BY <1>8, <1>10 DEF U

-----------------------------------------------------------------------------
\* An operation goes down to a node at which it turns back.
LEMMA LastIs ==
  ASSUME NEW t \in Level, NEW tr, NEW o \in MainOp
  PROVE  LET last == Min({n \in t .. Depth : TurnAt(tr, t, n, o) # "son"})
         IN  /\ last \in t .. Depth
             /\ TurnAt(tr, t, last, o) # "son"
             /\ \A n \in t .. last - 1 : TurnAt(tr, t, n, o) = "son"
<1>. DEFINE S == {n \in t .. Depth : TurnAt(tr, t, n, o) # "son"}
<1>1. t \in Nat /\ Depth \in Nat /\ t <= Depth
  BY LevelsAreInt DEF Level
<1>2. TurnAt(tr, t, Depth, o) # "son"
  BY TurnIs DEF TurnAt
<1>3. Depth \in S
  BY <1>1, <1>2
<1>4. S \in SUBSET Nat /\ S # {}
  BY <1>1, <1>3
<1>5. Min(S) \in S /\ \A x \in S : Min(S) <= x
  BY <1>4, MinIs
<1>6. ASSUME NEW n \in t .. Min(S) - 1 PROVE TurnAt(tr, t, n, o) = "son"
  <2>1. Min(S) \in Nat /\ Min(S) <= Depth
    BY <1>1, <1>5
  <2>2. n \in t .. Depth /\ n \notin S
    BY <1>1, <1>5, <2>1
  <2>. QED
    BY <2>2
<1>. QED
  BY <1>5, <1>6

LEMMA OperateDeepType ==
  \A a \in Level : \A t \in a .. Depth : \A tr \in Sub(a) : \A o \in MainOp :
    OperateDeep(tr, t, o) \in Sub(a)
<1>. SUFFICES ASSUME NEW a \in Level, NEW t \in a .. Depth, NEW tr \in Sub(a), NEW o \in MainOp
              PROVE  OperateDeep(tr, t, o) \in Sub(a)
  OBVIOUS
<1>. DEFINE last == Min({n \in t .. Depth : TurnAt(tr, t, n, o) # "son"})
            turn == TurnAt(tr, t, last, o)
            down == Operated(tr, t, last, turn, o)
<1>1. t \in Level
  BY LevelsAreInt DEF Level
<1>2. last \in t .. Depth
  BY <1>1, LastIs
<1>. HIDE DEF last
<1>3. turn \in Turns
  BY TurnIs DEF TurnAt
<1>4. o \in Operation
  BY DEF MainOp, Asked
<1>. HIDE DEF turn
<1>5. down \in Sub(a)
  BY <1>2, <1>3, <1>4, OperatedType
<1>. HIDE DEF down
<1>6. OperateDeep(tr, t, o) = UpdateAndLeave(down, t, IF turn = "update" THEN last ELSE last - 1)
  BY Zenon DEF OperateDeep, down, turn, last
<1>. QED
  BY <1>5, <1>6, UpdateType

LEMMA run_operationType ==
  ASSUME NEW a \in Level, NEW tr \in Sub(a), NEW o \in Asked
  PROVE  run_operation(tr, a, o) \in Sub(a)
<1>1. a \in a .. Depth /\ o.tree_deleted \in BOOLEAN
  BY LevelsAreInt DEF Level, Asked, Operation
<1>2. CASE o.op = "PUSH_DOWN"
  <2>1. run_operation(tr, a, o) = [tr EXCEPT ![a] = Inherit(tr[a], o.tree_deleted, a)]
    BY <1>2 DEF run_operation
  <2>2. tr[a] \in Node
    BY <1>1 DEF Sub
  <2>3. Inherit(tr[a], o.tree_deleted, a) \in Node
    BY <1>1, <2>2, InheritType
  <2>. QED
    BY <1>1, <2>1, <2>3 DEF Sub
<1>3. CASE o.op # "PUSH_DOWN"
  <2>1. o \in MainOp
    BY <1>3 DEF MainOp
  <2>2. OperateDeep(tr, a, o) \in Sub(a)
    BY <1>1, <2>1, OperateDeepType
  <2>. QED
    BY <1>3, <2>2 DEF run_operation
<1>. QED
  BY <1>2, <1>3

-----------------------------------------------------------------------------
(* A fold over one or two operations. *)

LEMMA MaxOfOneOrTwo ==
  /\ \A x \in Nat : Max({x}) = x
  /\ Max({1, 2}) = 2
<1>1. ASSUME NEW x \in Nat PROVE Max({x}) = x
  <2>1. x >= x
    OBVIOUS
  <2>2. \A y \in {x} : y = x
    OBVIOUS
  <2>. QED
    BY <2>1, <2>2 DEF Max
<1>2. \A y \in {1, 2} : (\A z \in {1, 2} : y >= z) => y = 2
  OBVIOUS
<1>3. 2 \in {1, 2} /\ \A z \in {1, 2} : 2 >= z
  OBVIOUS
<1>. QED
  BY <1>1, <1>2, <1>3 DEF Max

AfterAll(points, ops) == FoldLeft(After, points, ops)

LEMMA AfterOne ==
  ASSUME NEW points, NEW x
  PROVE  AfterAll(points, <<x>>) = After(points, x)
<1>. DEFINE s == <<x>>
            step(w, S) == IF S = {} THEN points
                          ELSE LET i == Max(S) IN After(w[S \ {i}], s[i])
            Is(w) == w = [S \in SUBSET (DOMAIN s) |-> step(w, S)]
            iter == CHOOSE w : Is(w)
            f == [S \in SUBSET {1} |-> IF S = {} THEN points ELSE After(points, x)]
<1>1. DOMAIN s = {1} /\ s[1] = x
  OBVIOUS
<1>2. AfterAll(points, s) = iter[DOMAIN s]
  BY DEF FoldLeft, MapThenFoldSet, AfterAll
<1>3. \A S \in SUBSET {1} : S = {} \/ S = {1}
  OBVIOUS
<1>4. Max({1}) = 1 /\ {1} \ {1} = {}
  BY MaxOfOneOrTwo
<1>5. Is(f)
  <2>1. \A S \in SUBSET {1} : f[S] = step(f, S)
    BY <1>1, <1>3, <1>4
  <2>. QED
    BY <1>1, <2>1
<1>6. Is(iter)
  BY <1>5
<1>. HIDE DEF iter
<1>7. iter[{}] = points
  BY <1>1, <1>6
<1>8. iter[{1}] = After(iter[{}], x)
  BY <1>1, <1>4, <1>6
<1>. QED
  BY <1>1, <1>2, <1>7, <1>8

LEMMA AfterTwo ==
  ASSUME NEW points, NEW x, NEW y
  PROVE  AfterAll(points, <<x, y>>) = After(After(points, x), y)
<1>. DEFINE s == <<x, y>>
            step(w, S) == IF S = {} THEN points
                          ELSE LET i == Max(S) IN After(w[S \ {i}], s[i])
            Is(w) == w = [S \in SUBSET (DOMAIN s) |-> step(w, S)]
            iter == CHOOSE w : Is(w)
            none == points
            first == After(points, x)
            second == After(points, y)
            both == After(first, y)
            f == [S \in SUBSET {1, 2} |->
                    IF S = {} THEN none ELSE IF S = {1} THEN first
                    ELSE IF S = {2} THEN second ELSE both]
<1>1. DOMAIN s = {1, 2} /\ s[1] = x /\ s[2] = y
  OBVIOUS
<1>2. AfterAll(points, s) = iter[DOMAIN s]
  BY DEF FoldLeft, MapThenFoldSet, AfterAll
<1>3. \A S \in SUBSET {1, 2} : S = {} \/ S = {1} \/ S = {2} \/ S = {1, 2}
  OBVIOUS
<1>4. /\ Max({1}) = 1 /\ Max({2}) = 2 /\ Max({1, 2}) = 2
      /\ {1} \ {1} = {} /\ {2} \ {2} = {} /\ {1, 2} \ {2} = {1}
  BY MaxOfOneOrTwo
<1>5. Is(f)
  <2>. HIDE DEF s
  <2>1. f[{}] = step(f, {})
    OBVIOUS
  <2>2. f[{1}] = step(f, {1})
    BY <1>1, <1>4
  <2>3. f[{2}] = step(f, {2})
    BY <1>1, <1>4
  <2>4. f[{1, 2}] = step(f, {1, 2})
    BY <1>1, <1>4
  <2>. HIDE DEF step
  <2>5. \A S \in SUBSET {1, 2} : f[S] = step(f, S)
    BY <1>3, <2>1, <2>2, <2>3, <2>4
  <2>6. f = [S \in SUBSET {1, 2} |-> f[S]]
    OBVIOUS
  <2>. QED
    BY <1>1, <2>5, <2>6
<1>6. Is(iter)
  BY <1>5
<1>. HIDE DEF iter
<1>7. iter[{}] = points
  BY <1>1, <1>6
<1>8. iter[{1}] = After(iter[{}], x)
  <2>1. {1} \in SUBSET (DOMAIN s) /\ {1} # {}
    BY <1>1
  <2>. HIDE DEF s
  <2>2. iter[{1}] = step(iter, {1})
    BY <1>6, <2>1
  <2>. QED
    BY <1>1, <1>4, <2>1, <2>2
<1>9. iter[{1, 2}] = After(iter[{1}], y)
  BY <1>1, <1>4, <1>6
<1>. QED
  BY <1>1, <1>2, <1>7, <1>8, <1>9

LEMMA OperateOne ==
  ASSUME NEW tr, NEW t, NEW x
  PROVE  OperateAll(tr, t, <<x>>) = OperateDeep(tr, t, x)
<1>. DEFINE s == <<x>>
            step(w, S) == IF S = {} THEN tr
                          ELSE LET i == Max(S) IN OperateDeep(w[S \ {i}], t, s[i])
            Is(w) == w = [S \in SUBSET (DOMAIN s) |-> step(w, S)]
            iter == CHOOSE w : Is(w)
            f == [S \in SUBSET {1} |-> IF S = {} THEN tr ELSE OperateDeep(tr, t, x)]
<1>1. DOMAIN s = {1} /\ s[1] = x
  OBVIOUS
<1>2. OperateAll(tr, t, s) = iter[DOMAIN s]
  BY DEF FoldLeft, MapThenFoldSet, OperateAll
<1>3. \A S \in SUBSET {1} : S = {} \/ S = {1}
  OBVIOUS
<1>4. Max({1}) = 1 /\ {1} \ {1} = {}
  BY MaxOfOneOrTwo
<1>5. Is(f)
  <2>1. \A S \in SUBSET {1} : f[S] = step(f, S)
    BY <1>1, <1>3, <1>4
  <2>. QED
    BY <1>1, <2>1
<1>6. Is(iter)
  BY <1>5
<1>. HIDE DEF iter
<1>7. iter[{}] = tr
  BY <1>1, <1>6
<1>8. iter[{1}] = OperateDeep(iter[{}], t, x)
  BY <1>1, <1>4, <1>6
<1>. QED
  BY <1>1, <1>2, <1>7, <1>8

LEMMA OperateTwo ==
  ASSUME NEW tr, NEW t, NEW x, NEW y
  PROVE  OperateAll(tr, t, <<x, y>>) = OperateDeep(OperateDeep(tr, t, x), t, y)
<1>. DEFINE s == <<x, y>>
            step(w, S) == IF S = {} THEN tr
                          ELSE LET i == Max(S) IN OperateDeep(w[S \ {i}], t, s[i])
            Is(w) == w = [S \in SUBSET (DOMAIN s) |-> step(w, S)]
            iter == CHOOSE w : Is(w)
            none == tr
            first == OperateDeep(tr, t, x)
            second == OperateDeep(tr, t, y)
            both == OperateDeep(first, t, y)
            f == [S \in SUBSET {1, 2} |->
                    IF S = {} THEN none ELSE IF S = {1} THEN first
                    ELSE IF S = {2} THEN second ELSE both]
<1>1. DOMAIN s = {1, 2} /\ s[1] = x /\ s[2] = y
  OBVIOUS
<1>2. OperateAll(tr, t, s) = iter[DOMAIN s]
  BY DEF FoldLeft, MapThenFoldSet, OperateAll
<1>3. \A S \in SUBSET {1, 2} : S = {} \/ S = {1} \/ S = {2} \/ S = {1, 2}
  OBVIOUS
<1>4. /\ Max({1}) = 1 /\ Max({2}) = 2 /\ Max({1, 2}) = 2
      /\ {1} \ {1} = {} /\ {2} \ {2} = {} /\ {1, 2} \ {2} = {1}
  BY MaxOfOneOrTwo
<1>5. Is(f)
  <2>. HIDE DEF s
  <2>1. f[{}] = step(f, {})
    OBVIOUS
  <2>2. f[{1}] = step(f, {1})
    BY <1>1, <1>4
  <2>3. f[{2}] = step(f, {2})
    BY <1>1, <1>4
  <2>4. f[{1, 2}] = step(f, {1, 2})
    BY <1>1, <1>4
  <2>. HIDE DEF step
  <2>5. \A S \in SUBSET {1, 2} : f[S] = step(f, S)
    BY <1>3, <2>1, <2>2, <2>3, <2>4
  <2>6. f = [S \in SUBSET {1, 2} |-> f[S]]
    OBVIOUS
  <2>. QED
    BY <1>1, <2>5, <2>6
<1>6. Is(iter)
  BY <1>5
<1>. HIDE DEF iter
<1>7. iter[{}] = tr
  BY <1>1, <1>6
<1>8. iter[{1}] = OperateDeep(iter[{}], t, x)
  <2>1. {1} \in SUBSET (DOMAIN s) /\ {1} # {}
    BY <1>1
  <2>. HIDE DEF s
  <2>2. iter[{1}] = step(iter, {1})
    BY <1>6, <2>1
  <2>. QED
    BY <1>1, <1>4, <2>1, <2>2
<1>9. iter[{1, 2}] = OperateDeep(iter[{1}], t, y)
  BY <1>1, <1>4, <1>6
<1>. QED
  BY <1>1, <1>2, <1>7, <1>8, <1>9

-----------------------------------------------------------------------------
Replaying == rpc \in {"drain", "replay", "lock swap", "swap"}

MapTypes ==
  /\ tree \in Sub(0)
  /\ Rebuild_Ptr \in Level \cup {None}
  /\ rebuild_flag \in BOOLEAN
  /\ Rebuild_Logger \in Seq(Asked)

\* A call has at most two operations, the second of which adds a point.
CallTypes ==
  /\ mpc \in {"rest", "test", "range", "ranging", "lock", "log", "down", "up", "search"}
  /\ todo \in Seq(MainOp) /\ Len(todo) <= 2
  /\ mpc \in {"test", "lock", "log", "down", "up"} => todo # <<>>
  /\ mpc \in {"range", "ranging"} =>
       Len(todo) = 2 /\ \E p \in Point : todo[2] = Request("ADD_POINT", {p})
  /\ level \in Level
  /\ calls \in 0 .. MaxCalls
  /\ asked \in SUBSET Point

\* There is a new subtree in the place of the old one until it is swapped.
RebuildTypes ==
  /\ rpc \in {"idle", "lock copy", "copy", "drain", "replay", "lock swap", "swap",
              "unlock", "clear flag", "free"}
  /\ working_flag_mutex \in {"free", "main", "rebuild"}
  /\ fresh = <<>> \/ \E t \in Level : fresh \in Sub(t)
  /\ Replaying => fresh \in Sub(Rebuild_Ptr)
  /\ job = <<>> \/ job \in Asked
  /\ rpc = "replay" => job \in Asked

HolesType == holes \subseteq {"late log", "nothing copied", "mark withdrawn", "untested"}

-----------------------------------------------------------------------------
LEMMA ShortSeq ==
  \A s \in Seq(MainOp) : s # <<>> /\ Len(s) <= 2 =>
    /\ s[1] \in MainOp /\ Head(s) = s[1] /\ Len(s) \in {1, 2}
    /\ Len(s) = 1 => s = <<s[1]>>
    /\ Len(s) = 2 => s[2] \in MainOp /\ s = <<s[1], s[2]>>
<1>. SUFFICES ASSUME NEW s \in Seq(MainOp), s # <<>>, Len(s) <= 2
              PROVE  /\ s[1] \in MainOp /\ Head(s) = s[1] /\ Len(s) \in {1, 2}
                     /\ Len(s) = 1 => s = <<s[1]>>
                     /\ Len(s) = 2 => s[2] \in MainOp /\ s = <<s[1], s[2]>>
  OBVIOUS
<1>1. Len(s) \in {1, 2} /\ s[1] \in MainOp /\ Head(s) = s[1]
  <2>1. Len(s) \in Nat /\ Len(s) # 0
    BY EmptySeq, LenProperties
  <2>2. Len(s) \in {1, 2}
    <3>. DEFINE l == Len(s)
    <3>1. l \in Nat /\ l # 0 /\ l <= 2
      BY <2>1
    <3>. HIDE DEF l
    <3>2. l \in {1, 2}
      BY <3>1
    <3>. QED
      BY <3>2 DEF l
  <2>3. Head(s) = s[1] /\ s[1] \in MainOp
    BY <2>2
  <2>. QED
    BY <2>2, <2>3
<1>2. ASSUME Len(s) = 1 PROVE s = <<s[1]>>
  BY <1>2
<1>3. ASSUME Len(s) = 2 PROVE s[2] \in MainOp /\ s = <<s[1], s[2]>>
  BY <1>3
<1>. QED
  BY <1>1, <1>2, <1>3

LEMMA OpsAreOps == MainOp \subseteq Asked /\ Asked \subseteq Operation
BY DEF MainOp, Asked

LEMMA RequestIs ==
  /\ \A p \in Point : Request("ADD_POINT", {p}) \in MainOp
  /\ \A box \in SUBSET Point : /\ Request("DELETE_BOX", box) \in MainOp
                               /\ Request("DOWNSAMPLE_DELETE", box) \in MainOp
  /\ \A op, box : Request(op, box).op = op /\ Request(op, box).box = box
BY DEF Request, MainOp, Asked, Operation

LEMMA AfterType ==
  \A points \in SUBSET Point : \A o \in Operation : After(points, o) \in SUBSET Point
BY DEF After, Operation

LEMMA AfterAllType ==
  ASSUME NEW points \in SUBSET Point, NEW s \in Seq(MainOp), s # <<>>, Len(s) <= 2
  PROVE  AfterAll(points, s) \in SUBSET Point
<1>1. s[1] \in Operation /\ After(points, s[1]) \in SUBSET Point
  BY ShortSeq, OpsAreOps, AfterType
<1>2. CASE Len(s) = 1
  <2>1. s = <<s[1]>>
    BY <1>2, ShortSeq
  <2>2. AfterAll(points, <<s[1]>>) = After(points, s[1])
    BY AfterOne
  <2>. QED
    BY <1>1, <2>1, <2>2
<1>3. CASE Len(s) = 2
  <2>1. s = <<s[1], s[2]>> /\ s[2] \in Operation
    BY <1>3, ShortSeq, OpsAreOps
  <2>2. AfterAll(points, <<s[1], s[2]>>) = After(After(points, s[1]), s[2])
    BY AfterTwo
  <2>3. After(After(points, s[1]), s[2]) \in SUBSET Point
    BY <1>1, <2>1, AfterType
  <2>. QED
    BY <2>1, <2>2, <2>3
<1>. QED
  BY <1>2, <1>3, ShortSeq

LEMMA OperateAllType ==
  ASSUME NEW t \in Level, NEW tr \in Sub(0), NEW s \in Seq(MainOp), s # <<>>, Len(s) <= 2
  PROVE  OperateAll(tr, t, s) \in Sub(0)
<1>1. s[1] \in MainOp /\ 0 \in Level /\ t \in 0 .. Depth
  BY ShortSeq, LevelsAreInt DEF Level
<1>2. OperateDeep(tr, t, s[1]) \in Sub(0)
  BY <1>1, OperateDeepType
<1>3. CASE Len(s) = 1
  <2>1. s = <<s[1]>>
    BY <1>3, ShortSeq
  <2>2. OperateAll(tr, t, <<s[1]>>) = OperateDeep(tr, t, s[1])
    BY OperateOne
  <2>. QED
    BY <1>2, <2>1, <2>2
<1>4. CASE Len(s) = 2
  <2>1. s = <<s[1], s[2]>> /\ s[2] \in MainOp
    BY <1>4, ShortSeq
  <2>2. OperateAll(tr, t, <<s[1], s[2]>>) = OperateDeep(OperateDeep(tr, t, s[1]), t, s[2])
    BY OperateTwo
  <2>3. OperateDeep(OperateDeep(tr, t, s[1]), t, s[2]) \in Sub(0)
    BY <1>1, <1>2, <2>1, OperateDeepType
  <2>. QED
    BY <2>1, <2>2, <2>3
<1>. QED
  BY <1>3, <1>4, ShortSeq

LEMMA BuiltType ==
  ASSUME NEW t \in Level, NEW points \in SUBSET Point
  PROVE  Built(points, t) \in Sub(t)
BY DEF Built, Sub, Node

LEMMA LockedIs ==
  ASSUME CallTypes, todo # <<>>
  PROVE  /\ Locked \in Seq(MainOp) /\ Locked # <<>> /\ Len(Locked) <= 2
         /\ Len(Locked) <= Len(todo)
         /\ Head(todo) \in MainOp
<1>1. Head(todo) \in MainOp /\ Len(todo) \in {1, 2}
  BY ShortSeq DEF CallTypes
<1>2. <<Head(todo)>> \in Seq(MainOp) /\ <<Head(todo)>> # <<>> /\ Len(<<Head(todo)>>) = 1
  BY <1>1
<1>. QED
  BY <1>1, <1>2 DEF Locked, CallTypes

\* Once an operation, or all that there are, is done.
LEMMA FinishTypes ==
  ASSUME CallTypes, todo # <<>>,
         NEW ops \in Seq(MainOp), ops # <<>>, Len(ops) <= Len(todo), Finish(ops),
         UNCHANGED calls
  PROVE  CallTypes'
<1>1. Len(ops) \in Nat /\ Len(ops) > 0 /\ Len(todo) \in {1, 2}
  BY ShortSeq, EmptySeq, LenProperties DEF CallTypes
<1>2. asked' \in SUBSET Point
  BY <1>1, AfterAllType DEF CallTypes, Finish, AfterAll
<1>3. /\ todo' \in Seq(MainOp)
      /\ Len(todo') = Len(todo) - Len(ops)
  <2>1. todo' = SubSeq(todo, Len(ops) + 1, Len(todo))
    BY DEF Finish
  <2>2. \A i \in Len(ops) + 1 .. Len(todo) : todo[i] \in MainOp
    BY <1>1 DEF CallTypes
  <2>3. Len(ops) + 1 \in Nat /\ Len(todo) \in Nat
    BY <1>1
  <2>. QED
    BY <1>1, <2>1, <2>2, <2>3, SubSeqProperties DEF CallTypes
<1>4. todo' # <<>> \/ mpc' = "rest"
  <2>1. todo' = <<>> => Len(todo') = 0
    BY EmptySeq
  <2>. QED
    BY <1>1, <1>3, <2>1 DEF Finish
<1>5. mpc' \in {"rest", "down"} /\ level' = 0
  BY DEF Finish
<1>6. 0 \in Level
  BY LevelsAreInt
<1>7. Len(todo') <= 2
  <2>. DEFINE l == Len(todo')
              k == Len(todo)
              m == Len(ops)
  <2>1. l = k - m /\ m \in Nat /\ k \in {1, 2}
    BY <1>1, <1>3
  <2>. HIDE DEF l, k, m
  <2>2. l <= 2
    BY <2>1
  <2>. QED
    BY <2>2 DEF l
<1>. QED
  BY <1>2, <1>3, <1>4, <1>5, <1>6, <1>7 DEF CallTypes

LEMMA AscendTypes ==
  ASSUME CallTypes, todo # <<>>, Ascend(level), UNCHANGED calls
  PROVE  CallTypes'
<1>1. CASE level = 0
  <2>1. Finish(<<Head(todo)>>)
    BY <1>1 DEF Ascend
  <2>2. /\ <<Head(todo)>> \in Seq(MainOp) /\ <<Head(todo)>> # <<>>
        /\ Len(<<Head(todo)>>) <= Len(todo)
    BY ShortSeq DEF CallTypes
  <2>. QED
    BY <2>1, <2>2, FinishTypes
<1>2. CASE level # 0
  <2>1. level' = level - 1 /\ mpc' = "up" /\ todo' = todo /\ asked' = asked
    BY <1>2 DEF Ascend
  <2>2. level - 1 \in Level
    BY <1>2, LevelsAreInt DEF CallTypes, Level
  <2>. QED
    BY <2>1, <2>2 DEF CallTypes
<1>. QED
  BY <1>1, <1>2

-----------------------------------------------------------------------------
Types == MapTypes /\ CallTypes /\ RebuildTypes /\ HolesType

LEMMA InitTypes == Init => Types
<1>. SUFFICES ASSUME Init PROVE Types
  OBVIOUS
<1>1. Built(Initial, 0) \in Sub(0)
  BY BuiltType, LevelsAreInt, IkdAssumption DEF IkdAssumption
<1>2. <<>> \in Seq(Asked) /\ <<>> \in Seq(MainOp) /\ Len(<<>>) = 0
  BY EmptySeq
<1>3. MapTypes
  BY <1>1, <1>2 DEF Init, MapTypes
<1>4. CallTypes
  BY <1>2, LevelsAreInt, IkdAssumption DEF Init, CallTypes, IkdAssumption
<1>5. RebuildTypes /\ HolesType
  BY DEF Init, RebuildTypes, Replaying, HolesType
<1>. QED
  BY <1>3, <1>4, <1>5 DEF Types

\* The calls and the searches change neither the map nor the rebuild thread.
LEMMA RebuildTypesKept ==
  ASSUME RebuildTypes, UNCHANGED <<rpc, fresh, job, working_flag_mutex>>,
         Replaying => Rebuild_Ptr' = Rebuild_Ptr
  PROVE  RebuildTypes'
<1>1. Sub(Rebuild_Ptr)' = Sub(Rebuild_Ptr') /\ Replaying' = Replaying
  BY DEF Sub, Replaying
<1>. QED
  BY <1>1 DEF RebuildTypes

LEMMA CallKeepsTypes == Types /\ Call => Types'
<1>. SUFFICES ASSUME Types, Call PROVE Types'
  OBVIOUS
<1>1. /\ UNCHANGED <<theTree, locks, rebuilding, reading, holes, level, asked>>
      /\ mpc = "rest" /\ calls < MaxCalls /\ calls' = calls + 1
  BY DEF Call
<1>2. MapTypes' /\ RebuildTypes' /\ HolesType'
  BY <1>1, RebuildTypesKept
     DEF Types, MapTypes, HolesType, theTree, locks, rebuilding
<1>3. calls' \in 0 .. MaxCalls
  BY <1>1, IkdAssumption DEF Types, CallTypes, IkdAssumption
<1>4. /\ todo' \in Seq(MainOp) /\ Len(todo') <= 2
      /\ \/ mpc' = "test" /\ todo' # <<>>
         \/ mpc' = "range" /\ Len(todo') = 2 /\ \E p \in Point : todo'[2] = Request("ADD_POINT", {p})
  <2>1. ASSUME NEW p \in Point, Add_Points(p) PROVE <1>4
    <3>. DEFINE o == Request("ADD_POINT", {p})
    <3>1. o \in MainOp /\ todo' = <<o>> /\ mpc' = "test"
      BY <2>1, RequestIs DEF Add_Points
    <3>. HIDE DEF o
    <3>. QED
      BY <3>1
  <2>2. ASSUME NEW box \in Boxes, Delete_Point_Boxes(box) PROVE <1>4
    <3>. DEFINE o == Request("DELETE_BOX", box)
    <3>1. o \in MainOp /\ todo' = <<o>> /\ mpc' = "test"
      BY <2>2, RequestIs, IkdAssumption DEF Delete_Point_Boxes, IkdAssumption
    <3>. HIDE DEF o
    <3>. QED
      BY <3>1
  <2>3. ASSUME NEW cell \in Cells, NEW p \in Point, Add_Points_downsampled(p, cell) PROVE <1>4
    <3>. DEFINE o == Request("DOWNSAMPLE_DELETE", cell)
                q == Request("ADD_POINT", {p})
    <3>1. /\ o \in MainOp /\ q \in MainOp /\ todo' = <<o, q>> /\ mpc' = "range"
      BY <2>3, RequestIs, IkdAssumption DEF Add_Points_downsampled, IkdAssumption
    <3>2. q = Request("ADD_POINT", {p})
      OBVIOUS
    <3>. HIDE DEF o, q
    <3>3. <<o, q>> \in Seq(MainOp) /\ Len(<<o, q>>) = 2 /\ <<o, q>>[2] = q
      BY <3>1
    <3>. QED
      BY <3>1, <3>2, <3>3
  <2>. QED
    BY <2>1, <2>2, <2>3 DEF Call
<1>5. CallTypes'
  BY <1>1, <1>3, <1>4 DEF Types, CallTypes
<1>. QED
  BY <1>2, <1>5 DEF Types

LEMMA SearchAllKeepsTypes == Types /\ SearchAll => Types'
<1>. SUFFICES ASSUME Types, SearchAll PROVE Types'
  OBVIOUS
<1>1. /\ UNCHANGED <<theTree, locks, rebuilding, stale, holes, todo, level, asked>>
      /\ mpc' = "search" /\ calls < MaxCalls /\ calls' = calls + 1
  BY DEF SearchAll
<1>2. calls' \in 0 .. MaxCalls
  BY <1>1, IkdAssumption DEF Types, CallTypes, IkdAssumption
<1>3. CallTypes'
  BY <1>1, <1>2 DEF Types, CallTypes
<1>. QED
  BY <1>1, <1>3, RebuildTypesKept
     DEF Types, MapTypes, HolesType, theTree, locks, rebuilding

LEMMA PairIs == \A x, y \in MainOp : <<x>> \o <<y>> = <<x, y>>
<1>. SUFFICES ASSUME NEW x \in MainOp, NEW y \in MainOp PROVE <<x>> \o <<y>> = <<x, y>>
  OBVIOUS
<1>. DEFINE a == <<x>>
            b == <<y>>
<1>1. a \in Seq(MainOp) /\ b \in Seq(MainOp) /\ Len(a) = 1 /\ Len(b) = 1 /\ a[1] = x /\ b[1] = y
  OBVIOUS
<1>. HIDE DEF a, b
<1>2. /\ Len(a \o b) = 2 /\ a \o b \in Seq(MainOp)
      /\ (a \o b)[1] = x /\ (a \o b)[2] = y
  BY <1>1, ConcatProperties
<1>. DEFINE c == a \o b
<1>3. c \in Seq(MainOp) /\ Len(c) = 2 /\ c[1] = x /\ c[2] = y
  BY <1>2
<1>. HIDE DEF c
<1>4. c # <<>>
  <2>1. Len(<<>>) = 0
    BY EmptySeq
  <2>2. c = <<>> => Len(c) = Len(<<>>)
    OBVIOUS
  <2>. QED
    BY <1>3, <2>1, <2>2
<1>5. c = <<c[1], c[2]>>
  BY <1>3, <1>4, ShortSeq
<1>6. c = <<x, y>>
  BY <1>3, <1>5
<1>. QED
  BY <1>6 DEF a, b, c

LEMMA DownsampleKeepsTypes == Types /\ Downsample => Types'
<1>. SUFFICES ASSUME Types, Downsample PROVE Types'
  OBVIOUS
<1>. DEFINE cell == todo[1].box
            p == todo[2].box
            found == Flattened(tree, 0) \cap cell
<1>1. /\ mpc = "ranging"
      /\ UNCHANGED <<theTree, locks, rebuilding, holes, level, calls, asked>>
      /\ \E nearest \in p \cup found :
           \/ /\ todo' = (IF found = {} THEN <<>> ELSE <<todo[1]>>)
                         \o <<Request("ADD_POINT", {nearest})>>
              /\ mpc' = "test"
           \/ todo' = <<>> /\ mpc' = "rest"
  BY DEF Downsample
<1>2. Len(todo) = 2 /\ \E q \in Point : todo[2] = Request("ADD_POINT", {q})
  BY <1>1 DEF Types, CallTypes
<1>3. p \in SUBSET Point
  <2>1. PICK q \in Point : todo[2] = Request("ADD_POINT", {q})
    BY <1>2
  <2>2. Request("ADD_POINT", {q}).box = {q}
    BY RequestIs
  <2>3. todo[2].box = {q}
    BY <2>1, <2>2
  <2>. QED
    BY <2>3
<1>4. todo # <<>> /\ todo[1] \in MainOp
  BY <1>2 DEF Types, CallTypes
<1>5. cell \in SUBSET Point
  BY <1>4, OpsAreOps DEF Operation
<1>. HIDE DEF p, cell
<1>6. p \cup found \in SUBSET Point
  BY <1>3, <1>5
<1>. HIDE DEF found
<1>7. /\ todo' \in Seq(MainOp) /\ Len(todo') <= 2
      /\ (mpc' = "test" /\ todo' # <<>>) \/ mpc' = "rest"
  <2>1. PICK nearest \in p \cup found :
           \/ /\ todo' = (IF found = {} THEN <<>> ELSE <<todo[1]>>)
                         \o <<Request("ADD_POINT", {nearest})>>
              /\ mpc' = "test"
           \/ todo' = <<>> /\ mpc' = "rest"
    BY <1>1
  <2>. DEFINE o == Request("ADD_POINT", {nearest})
  <2>2. o \in MainOp
    BY <1>6, RequestIs
  <2>. HIDE DEF o
  <2>3. CASE todo' = <<>> /\ mpc' = "rest"
    BY <2>3, EmptySeq
  <2>4. CASE found = {} /\ todo' = <<>> \o <<o>> /\ mpc' = "test"
    <3>1. <<>> \o <<o>> = <<o>>
      BY <2>2
    <3>. QED
      BY <2>2, <2>4, <3>1
  <2>5. CASE found # {} /\ todo' = <<todo[1]>> \o <<o>> /\ mpc' = "test"
    <3>. DEFINE d == todo[1]
    <3>1. d \in MainOp
      BY <1>4
    <3>2. todo' = <<d>> \o <<o>>
      BY <2>5
    <3>. HIDE DEF d
    <3>3. <<d>> \o <<o>> = <<d, o>>
      BY <2>2, <3>1, PairIs
    <3>4. <<d, o>> \in Seq(MainOp) /\ Len(<<d, o>>) = 2 /\ <<d, o>> # <<>>
      BY <2>2, <3>1
    <3>. QED
      BY <2>5, <3>2, <3>3, <3>4
  <2>. QED
    BY <2>1, <2>3, <2>4, <2>5 DEF o
<1>8. CallTypes'
  BY <1>1, <1>7 DEF Types, CallTypes
<1>. QED
  BY <1>1, <1>8, RebuildTypesKept
     DEF Types, MapTypes, HolesType, theTree, locks, rebuilding

-----------------------------------------------------------------------------
\* A step of the main thread that leaves the rebuild thread and the log alone.
LEMMA MainStepTypes ==
  ASSUME Types, CallTypes', tree' \in Sub(0), HolesType',
         UNCHANGED <<Rebuild_Ptr, rebuild_flag, Rebuild_Logger, working_flag_mutex,
                     rpc, fresh, job>>
  PROVE  Types'
BY RebuildTypesKept DEF Types, MapTypes

LEMMA TestRootKeepsTypes == Types /\ TestRoot => Types'
<1>. SUFFICES ASSUME Types, TestRoot PROVE Types'
  OBVIOUS
<1>1. /\ mpc = "test" /\ mpc' \in {"lock", "down"} /\ level' = 0
      /\ UNCHANGED <<theTree, locks, rebuilding, reading, holes, todo, calls, asked>>
  BY DEF TestRoot
<1>2. CallTypes'
  BY <1>1, LevelsAreInt DEF Types, CallTypes
<1>. QED
  BY <1>1, <1>2, MainStepTypes
     DEF Types, MapTypes, HolesType, theTree, locks, rebuilding

LEMMA OperateKeepsTypes == Types /\ Operate => Types'
<1>. SUFFICES ASSUME Types, Operate PROVE Types'
  OBVIOUS
<1>1. /\ mpc = "lock" /\ mpc' = "log" /\ working_flag_mutex' = "main"
      /\ tree' = OperateAll(tree, level, Locked)
      /\ UNCHANGED <<Rebuild_Ptr, rebuild_flag, Rebuild_Logger, search_mutex_counter,
                     rebuilding, reading, holes, todo, level, calls, asked>>
  BY DEF Operate
<1>2. todo # <<>> /\ level \in Level /\ tree \in Sub(0)
  BY <1>1 DEF Types, CallTypes, MapTypes
<1>3. tree' \in Sub(0)
  BY <1>1, <1>2, LockedIs, OperateAllType DEF Types
<1>4. CallTypes'
  BY <1>1 DEF Types, CallTypes
<1>5. MapTypes' /\ HolesType'
  BY <1>1, <1>3 DEF Types, MapTypes, HolesType
<1>6. RebuildTypes'
  BY <1>1 DEF Types, RebuildTypes, Replaying, rebuilding, Sub
<1>. QED
  BY <1>4, <1>5, <1>6 DEF Types

LEMMA LogKeepsTypes == Types /\ Log => Types'
<1>. SUFFICES ASSUME Types, Log PROVE Types'
  OBVIOUS
<1>1. /\ mpc = "log" /\ working_flag_mutex' = "free"
      /\ Rebuild_Logger' = IF rebuild_flag THEN Rebuild_Logger \o Locked ELSE Rebuild_Logger
      /\ IF level = 0 THEN Finish(todo) ELSE Ascend(level)
      /\ UNCHANGED <<tree, Rebuild_Ptr, rebuild_flag, search_mutex_counter, rebuilding,
                     reading, holes, calls>>
  BY DEF Log
<1>2. todo # <<>> /\ CallTypes
  BY <1>1 DEF Types, CallTypes
<1>3. Locked \in Seq(Asked)
  <2>1. Seq(MainOp) \subseteq Seq(Asked)
    BY OpsAreOps
  <2>. QED
    BY <1>2, <2>1, LockedIs
<1>4. Rebuild_Logger' \in Seq(Asked)
  BY <1>1, <1>3, ConcatProperties DEF Types, MapTypes
<1>5. CallTypes'
  <2>1. CASE level = 0
    <3>1. todo \in Seq(MainOp) /\ Len(todo) <= Len(todo)
      BY <1>2, LenProperties DEF CallTypes
    <3>. QED
      BY <1>1, <1>2, <2>1, <3>1, FinishTypes
  <2>2. CASE level # 0
    BY <1>1, <1>2, <2>2, AscendTypes
  <2>. QED
    BY <2>1, <2>2
<1>6. MapTypes' /\ HolesType'
  BY <1>1, <1>4 DEF Types, MapTypes, HolesType
<1>7. RebuildTypes'
  BY <1>1 DEF Types, RebuildTypes, Replaying, rebuilding, Sub
<1>. QED
  BY <1>5, <1>6, <1>7 DEF Types

LEMMA PushDownTypes ==
  \A tr \in Sub(0) : \A n \in 0 .. Depth :
    n < Depth => /\ Push_Down(tr, n) \in Sub(0)
                 /\ [op |-> "PUSH_DOWN", box |-> {}, tree_deleted |-> tr[n].tree_deleted] \in Asked
<1>. SUFFICES ASSUME NEW tr \in Sub(0), NEW n \in 0 .. Depth, n < Depth
              PROVE  /\ Push_Down(tr, n) \in Sub(0)
                     /\ [op |-> "PUSH_DOWN", box |-> {},
                         tree_deleted |-> tr[n].tree_deleted] \in Asked
  OBVIOUS
<1>1. n + 1 \in 0 .. Depth /\ n # n + 1
  BY LevelsAreInt
<1>2. tr[n] \in Node /\ tr[n + 1] \in Node
  BY <1>1 DEF Sub
<1>. DEFINE dead == tr[n].tree_deleted
            next == Inherit(tr[n + 1], dead, n + 1)
            node == [tr[n] EXCEPT !.need_push_down = FALSE]
<1>3. dead \in BOOLEAN
  BY <1>2, NodeFields
<1>. HIDE DEF dead
<1>4. next \in Node
  BY <1>2, <1>3, InheritType
<1>5. node \in Node
  BY <1>2 DEF Node
<1>6. Push_Down(tr, n) = tr \/ Push_Down(tr, n) = [[tr EXCEPT ![n] = node] EXCEPT ![n + 1] = next]
  <2>1. tr = [k \in 0 .. Depth |-> tr[k]]
    BY DEF Sub
  <2>. QED
    BY <1>1, <2>1 DEF Push_Down, dead
<1>. HIDE DEF next, node
<1>7. [[tr EXCEPT ![n] = node] EXCEPT ![n + 1] = next] \in Sub(0)
  BY <1>1, <1>4, <1>5 DEF Sub
<1>8. [op |-> "PUSH_DOWN", box |-> {}, tree_deleted |-> dead] \in Asked
  BY <1>3 DEF Asked, Operation
<1>. QED
  BY <1>6, <1>7, <1>8 DEF dead

LEMMA PushDownStepTypes ==
  ASSUME Types, NEW tr \in Sub(0), NEW n \in 0 .. Depth, n < Depth, PushDown(tr, n),
         UNCHANGED <<Rebuild_Ptr, rebuild_flag, locks, rebuilding, operating, holes>>
  PROVE  Types'
<1>1. tree' = Push_Down(tr, n) /\ tree' \in Sub(0)
  BY PushDownTypes DEF PushDown
<1>. DEFINE o == [op |-> "PUSH_DOWN", box |-> {}, tree_deleted |-> tr[n].tree_deleted]
<1>2. o \in Asked
  BY PushDownTypes
<1>3. Rebuild_Logger' = Rebuild_Logger \/ Rebuild_Logger' = Append(Rebuild_Logger, o)
  BY DEF PushDown
<1>. HIDE DEF o
<1>4. Rebuild_Logger' \in Seq(Asked)
  BY <1>2, <1>3, AppendProperties DEF Types, MapTypes
<1>5. MapTypes' /\ HolesType'
  BY <1>1, <1>4 DEF Types, MapTypes, HolesType
<1>6. CallTypes'
  BY DEF Types, CallTypes, operating
<1>. QED
  BY <1>5, <1>6, RebuildTypesKept DEF Types, locks, rebuilding

LEMMA PushDownLockedKeepsTypes == Types /\ PushDownLocked => Types'
<1>. SUFFICES ASSUME Types, PushDownLocked PROVE Types'
  OBVIOUS
<1>1. /\ level < Depth
      /\ PushDown([tree EXCEPT ![level].working_flag = TRUE], level)
      /\ UNCHANGED <<Rebuild_Ptr, rebuild_flag, locks, rebuilding, operating, holes>>
  BY DEF PushDownLocked
<1>2. level \in 0 .. Depth /\ tree \in Sub(0)
  BY DEF Types, CallTypes, MapTypes, Level
<1>3. [tree EXCEPT ![level].working_flag = TRUE] \in Sub(0)
  BY <1>2 DEF Sub, Node
<1>. QED
  BY <1>1, <1>2, <1>3, PushDownStepTypes

LEMMA SearchPushDownKeepsTypes ==
  ASSUME NEW r, Types, SearchPushDown(r) PROVE Types'
<1>1. PICK n \in 0 .. Depth - 1 : PushDown(tree, n)
  BY DEF SearchPushDown
<1>2. UNCHANGED <<Rebuild_Ptr, rebuild_flag, locks, rebuilding, operating, holes>>
  BY DEF SearchPushDown
<1>3. n \in 0 .. Depth /\ n < Depth /\ tree \in Sub(0)
  BY LevelsAreInt DEF Types, MapTypes
<1>. QED
  BY <1>1, <1>2, <1>3, PushDownStepTypes

LEMMA DescendKeepsTypes == Types /\ Descend => Types'
<1>. SUFFICES ASSUME Types, Descend PROVE Types'
  OBVIOUS
<1>. DEFINE o == Head(todo)
            turn == TurnAt(tree, level, level, o)
<1>1. mpc = "down" /\ todo # <<>> /\ level \in Level /\ tree \in Sub(0)
  BY DEF Descend, Types, CallTypes, MapTypes
<1>2. o \in MainOp
  BY <1>1, LockedIs DEF Types
<1>3. turn \in Turns
  BY TurnIs DEF TurnAt
<1>4. turn = "son" => level # Depth
  BY <1>2, TurnIs DEF TurnAt
<1>5. /\ tree' = Operated(tree, level, level, turn, o)
      /\ CASE turn = "son" -> /\ level' = level + 1
                              /\ mpc' = IF Rebuild_Ptr = level + 1 THEN "lock" ELSE "down"
                              /\ UNCHANGED <<todo, asked>>
           [] turn = "update" -> mpc' = "up" /\ UNCHANGED <<level, todo, asked>>
           [] OTHER -> Ascend(level)
      /\ holes' = IF rpc # "idle" /\ level >= Rebuild_Ptr
                  THEN holes \cup {"untested"} ELSE holes
      /\ UNCHANGED <<Rebuild_Ptr, rebuild_flag, Rebuild_Logger, locks, rebuilding, reading,
                     calls>>
  BY DEF Descend
<1>. HIDE DEF turn
<1>6. tree' \in Sub(0)
  <2>1. level \in 0 .. Depth /\ level \in level .. Depth /\ 0 \in Level /\ o \in Operation
    BY <1>1, <1>2, OpsAreOps, LevelsAreInt DEF Level
  <2>. QED
    BY <1>1, <1>3, <1>5, <2>1, OperatedType
<1>. HIDE DEF o
<1>7. CallTypes'
  <2>1. CASE turn = "son"
    <3>1. level + 1 \in Level
      BY <1>1, <1>4, <2>1, LevelsAreInt DEF Level
    <3>2. level' = level + 1 /\ mpc' \in {"lock", "down"} /\ UNCHANGED <<todo, asked, calls>>
      BY <1>5, <2>1
    <3>. QED
      BY <1>1, <3>1, <3>2 DEF Types, CallTypes
  <2>2. CASE turn = "update"
    <3>1. mpc' = "up" /\ UNCHANGED <<level, todo, asked, calls>>
      BY <1>5, <2>2
    <3>. QED
      BY <1>1, <3>1 DEF Types, CallTypes
  <2>3. CASE turn \notin {"son", "update"}
    <3>1. Ascend(level)
      BY <1>5, <2>3
    <3>. QED
      BY <1>1, <1>5, <3>1, AscendTypes DEF Types
  <2>. QED
    BY <2>1, <2>2, <2>3
<1>8. HolesType'
  BY <1>5 DEF Types, HolesType
<1>. QED
  BY <1>5, <1>6, <1>7, <1>8, MainStepTypes DEF locks, rebuilding

LEMMA AscentKeepsTypes == Types /\ Ascent => Types'
<1>. SUFFICES ASSUME Types, Ascent PROVE Types'
  OBVIOUS
<1>1. /\ mpc = "up"
      /\ tree' = UpdateAndLeave(tree, level, level)
      /\ \/ UNCHANGED Rebuild_Ptr
         \/ rpc = "idle" /\ Rebuild_Ptr' = level
         \/ rpc = "idle" /\ Rebuild_Ptr' = None
      /\ Ascend(level)
      /\ UNCHANGED <<rebuild_flag, Rebuild_Logger, locks, rebuilding, reading, holes, calls>>
  BY DEF Ascent, MayRequest
<1>2. todo # <<>> /\ level \in Level /\ tree \in Sub(0)
  BY <1>1 DEF Types, CallTypes, MapTypes
<1>3. CallTypes'
  BY <1>1, <1>2, AscendTypes DEF Types
<1>4. tree' \in Sub(0)
  BY <1>1, <1>2, LevelsAreInt, UpdateType
<1>5. MapTypes' /\ HolesType'
  BY <1>1, <1>2, <1>4 DEF Types, MapTypes, HolesType, None
<1>6. Replaying => Rebuild_Ptr' = Rebuild_Ptr
  BY <1>1 DEF Replaying
<1>. QED
  BY <1>1, <1>3, <1>5, <1>6, RebuildTypesKept DEF Types, locks, rebuilding

LEMMA MainKeepsTypes == Types /\ Main => Types'
<1>. SUFFICES ASSUME Types, Main PROVE Types'
  OBVIOUS
<1>1. CASE Search_by_range
  <2>1. /\ mpc = "range" /\ mpc' = "ranging"
        /\ UNCHANGED <<theTree, locks, rebuilding, holes, todo, level, calls, asked>>
    BY <1>1 DEF Search_by_range
  <2>2. CallTypes'
    BY <2>1 DEF Types, CallTypes
  <2>. QED
    BY <2>1, <2>2, MainStepTypes DEF Types, MapTypes, HolesType, theTree, locks, rebuilding
<1>2. CASE SearchedAll
  <2>1. /\ mpc = "search" /\ mpc' = "rest"
        /\ UNCHANGED <<theTree, locks, rebuilding, holes, todo, level, calls, asked>>
    BY <1>2 DEF SearchedAll
  <2>2. CallTypes'
    BY <2>1 DEF Types, CallTypes
  <2>. QED
    BY <2>1, <2>2, MainStepTypes DEF Types, MapTypes, HolesType, theTree, locks, rebuilding
<1>. QED
  BY <1>1, <1>2, DownsampleKeepsTypes, TestRootKeepsTypes, OperateKeepsTypes, LogKeepsTypes,
     PushDownLockedKeepsTypes, DescendKeepsTypes, AscentKeepsTypes, SearchPushDownKeepsTypes
     DEF Main

-----------------------------------------------------------------------------
LEMMA CopyKeepsTypes == SearchInv /\ Types /\ Copy => Types'
<1>. SUFFICES ASSUME SearchInv, Types, Copy PROVE Types'
  OBVIOUS
<1>. DEFINE t == Rebuild_Ptr
            settled == Settled(tree, t)
            points == Flattened(tree, t)
<1>1. /\ rpc = "copy"
      /\ tree' = [n \in Level |-> IF n < t THEN tree[n]
                                  ELSE [settled[n] EXCEPT !.need_push_down = FALSE]]
      /\ fresh' = Built(points, t)
      /\ rpc' \in {"lock swap", "drain"}
      /\ holes' \in {holes, holes \cup {"nothing copied"}}
      /\ working_flag_mutex' = "free"
      /\ UNCHANGED <<Rebuild_Ptr, rebuild_flag, Rebuild_Logger, job, operating, reading>>
  BY DEF Copy
<1>2. t \in Level /\ t \in 0 .. Depth /\ 0 \in Level /\ tree \in Sub(0)
  BY <1>1, LevelsAreInt DEF SearchInv, PointerOK, Rebuilding, Types, MapTypes, Level
<1>3. settled \in Sub(t)
  BY <1>2, SettledIs
<1>4. points \in SUBSET Point
  <2>1. \A n \in t .. Depth : settled[n].valid \in SUBSET Point
    BY <1>3, NodeFields DEF Sub
  <2>. QED
    BY <2>1 DEF Flattened
<1>. HIDE DEF settled, points
<1>5. Built(points, t) \in Sub(t)
  BY <1>2, <1>4, BuiltType
<1>6. tree' \in Sub(0)
  <2>1. \A n \in Level : n < t => tree[n] \in Node
    BY <1>2 DEF Sub, Level
  <2>2. \A node \in Node : [node EXCEPT !.need_push_down = FALSE] \in Node
    BY DEF Node
  <2>3. \A n \in Level : ~(n < t) => settled[n] \in Node
    BY <1>2, <1>3, LevelsAreInt DEF Sub, Level
  <2>. QED
    BY <1>1, <2>1, <2>2, <2>3 DEF Sub, Level
<1>7. MapTypes' /\ HolesType' /\ CallTypes'
  BY <1>1, <1>6 DEF Types, MapTypes, HolesType, CallTypes, operating
<1>8. fresh' \in Sub(t) /\ Sub(Rebuild_Ptr)' = Sub(t)
  BY <1>1, <1>5 DEF Sub
<1>9. RebuildTypes'
  BY <1>1, <1>2, <1>8 DEF Types, RebuildTypes
<1>. QED
  BY <1>7, <1>9 DEF Types

LEMMA DrainKeepsTypes == Types /\ Drain => Types'
<1>. SUFFICES ASSUME Types, Drain PROVE Types'
  OBVIOUS
<1>1. /\ rpc = "drain"
      /\ \/ /\ working_flag_mutex' = "rebuild" /\ rpc' = "lock swap"
            /\ UNCHANGED <<Rebuild_Logger, job>>
         \/ /\ Rebuild_Logger # <<>>
            /\ job' = Head(Rebuild_Logger)
            /\ Rebuild_Logger' = Tail(Rebuild_Logger)
            /\ rpc' = "replay"
            /\ UNCHANGED working_flag_mutex
      /\ UNCHANGED <<tree, Rebuild_Ptr, rebuild_flag, search_mutex_counter, fresh,
                     operating, reading, holes>>
  BY DEF Drain
<1>2. Rebuild_Logger # <<>> => /\ Head(Rebuild_Logger) \in Asked
                               /\ Tail(Rebuild_Logger) \in Seq(Asked)
  BY HeadTailProperties DEF Types, MapTypes
<1>3. MapTypes' /\ HolesType' /\ CallTypes'
  BY <1>1, <1>2 DEF Types, MapTypes, HolesType, CallTypes, operating
<1>4. Sub(Rebuild_Ptr)' = Sub(Rebuild_Ptr) /\ fresh \in Sub(Rebuild_Ptr)
  BY <1>1 DEF Sub, Types, RebuildTypes, Replaying
<1>5. RebuildTypes'
  BY <1>1, <1>2, <1>4 DEF Types, RebuildTypes
<1>. QED
  BY <1>3, <1>5 DEF Types

LEMMA ReplayKeepsTypes == SearchInv /\ Types /\ Replay => Types'
<1>. SUFFICES ASSUME SearchInv, Types, Replay PROVE Types'
  OBVIOUS
<1>1. /\ rpc = "replay" /\ rpc' = "drain" /\ job' = <<>>
      /\ fresh' = run_operation(fresh, Rebuild_Ptr, job)
      /\ UNCHANGED <<theTree, locks, operating, reading, holes>>
  BY DEF Replay
<1>2. Rebuild_Ptr \in Level /\ fresh \in Sub(Rebuild_Ptr) /\ job \in Asked
  BY <1>1 DEF SearchInv, PointerOK, Rebuilding, Types, MapTypes, RebuildTypes, Replaying
<1>3. fresh' \in Sub(Rebuild_Ptr)
  BY <1>1, <1>2, run_operationType
<1>4. MapTypes' /\ HolesType' /\ CallTypes'
  BY <1>1 DEF Types, MapTypes, HolesType, CallTypes, operating, theTree
<1>5. Sub(Rebuild_Ptr)' = Sub(Rebuild_Ptr)
  BY <1>1 DEF Sub, theTree
<1>6. RebuildTypes'
  BY <1>1, <1>2, <1>3, <1>5 DEF Types, RebuildTypes, locks
<1>. QED
  BY <1>4, <1>6 DEF Types

LEMMA SwapKeepsTypes == SearchInv /\ Types /\ Swap => Types'
<1>. SUFFICES ASSUME SearchInv, Types, Swap PROVE Types'
  OBVIOUS
<1>. DEFINE swapped == [n \in Level |-> IF n < Rebuild_Ptr THEN tree[n] ELSE fresh[n]]
<1>1. /\ rpc = "swap" /\ rpc' = "unlock"
      /\ tree' = Refreshed(swapped, Rebuild_Ptr)
      /\ holes' \in {holes, holes \cup {"mark withdrawn"}}
      /\ UNCHANGED <<Rebuild_Ptr, rebuild_flag, Rebuild_Logger, locks, fresh, job, operating,
                     reader>>
  BY DEF Swap
<1>2. Rebuild_Ptr \in Level /\ fresh \in Sub(Rebuild_Ptr) /\ tree \in Sub(0)
  BY <1>1 DEF SearchInv, PointerOK, Rebuilding, Types, MapTypes, RebuildTypes, Replaying
<1>3. swapped \in Sub(0)
  BY <1>2, LevelsAreInt DEF Sub, Level
<1>. HIDE DEF swapped
<1>4. tree' \in Sub(0)
  BY <1>1, <1>3, LevelsAreInt, UpdateType DEF Refreshed
<1>5. MapTypes' /\ HolesType' /\ CallTypes'
  BY <1>1, <1>4 DEF Types, MapTypes, HolesType, CallTypes, operating
<1>6. RebuildTypes'
  BY <1>1 DEF Types, RebuildTypes, Replaying, locks
<1>. QED
  BY <1>5, <1>6 DEF Types

LEMMA RebuilderKeepsTypes == SearchInv /\ Types /\ Rebuilder => Types'
<1>. SUFFICES ASSUME SearchInv, Types, Rebuilder PROVE Types'
  OBVIOUS
<1>1. CASE BeginRebuild
  <2>1. /\ rpc = "idle" /\ rpc' = "lock copy" /\ rebuild_flag' = TRUE
        /\ working_flag_mutex' = "rebuild"
        /\ holes' \in {holes, holes \cup {"late log"}}
        /\ UNCHANGED <<tree, Rebuild_Ptr, Rebuild_Logger, fresh, job, operating>>
    BY <1>1 DEF BeginRebuild
  <2>2. MapTypes' /\ HolesType' /\ CallTypes'
    BY <2>1 DEF Types, MapTypes, HolesType, CallTypes, operating
  <2>3. RebuildTypes'
    BY <2>1 DEF Types, RebuildTypes, Replaying
  <2>. QED
    BY <2>2, <2>3 DEF Types
<1>2. CASE LockSearch
  <2>1. /\ \/ rpc = "lock copy" /\ rpc' = "copy"
           \/ rpc = "lock swap" /\ rpc' = "swap"
        /\ UNCHANGED <<theTree, working_flag_mutex, fresh, job, operating, holes>>
    BY <1>2 DEF LockSearch
  <2>2. MapTypes' /\ HolesType' /\ CallTypes'
    BY <2>1 DEF Types, MapTypes, HolesType, CallTypes, operating, theTree
  <2>3. Sub(Rebuild_Ptr)' = Sub(Rebuild_Ptr) /\ (Replaying' => Replaying)
    BY <2>1 DEF Sub, theTree, Replaying
  <2>4. RebuildTypes'
    BY <2>1, <2>3 DEF Types, RebuildTypes
  <2>. QED
    BY <2>2, <2>4 DEF Types
<1>3. CASE EndSwap
  <2>1. /\ rpc = "unlock" /\ rpc' = "clear flag" /\ Rebuild_Ptr' = None
        /\ working_flag_mutex' = "free"
        /\ UNCHANGED <<tree, rebuild_flag, Rebuild_Logger, fresh, job, operating, holes>>
    BY <1>3 DEF EndSwap
  <2>2. MapTypes' /\ HolesType' /\ CallTypes'
    BY <2>1 DEF Types, MapTypes, HolesType, CallTypes, operating, None
  <2>3. RebuildTypes'
    BY <2>1 DEF Types, RebuildTypes, Replaying
  <2>. QED
    BY <2>2, <2>3 DEF Types
<1>4. CASE ClearFlag
  <2>1. /\ rpc = "clear flag" /\ rpc' = "free" /\ rebuild_flag' = FALSE
        /\ UNCHANGED <<tree, Rebuild_Ptr, Rebuild_Logger, locks, fresh, job, operating, holes>>
    BY <1>4 DEF ClearFlag
  <2>2. MapTypes' /\ HolesType' /\ CallTypes'
    BY <2>1 DEF Types, MapTypes, HolesType, CallTypes, operating
  <2>3. RebuildTypes'
    BY <2>1 DEF Types, RebuildTypes, Replaying, locks
  <2>. QED
    BY <2>2, <2>3 DEF Types
<1>5. CASE delete_tree_nodes
  <2>1. /\ rpc = "free" /\ rpc' = "idle" /\ fresh' = <<>>
        /\ UNCHANGED <<theTree, locks, job, operating, holes>>
    BY <1>5 DEF delete_tree_nodes
  <2>2. MapTypes' /\ HolesType' /\ CallTypes'
    BY <2>1 DEF Types, MapTypes, HolesType, CallTypes, operating, theTree
  <2>3. RebuildTypes'
    BY <2>1 DEF Types, RebuildTypes, Replaying, locks
  <2>. QED
    BY <2>2, <2>3 DEF Types
<1>. QED
  BY <1>1, <1>2, <1>3, <1>4, <1>5, CopyKeepsTypes, DrainKeepsTypes, ReplayKeepsTypes,
     SwapKeepsTypes DEF Rebuilder

LEMMA NextKeepsTypes == SearchInv /\ Types /\ [Next]_vars => Types'
<1>. SUFFICES ASSUME SearchInv, Types, [Next]_vars PROVE Types'
  OBVIOUS
<1>1. ASSUME UNCHANGED <<theTree, working_flag_mutex, rebuilding, operating, holes>> PROVE Types'
  <2>1. MapTypes' /\ HolesType' /\ CallTypes'
    BY <1>1 DEF Types, MapTypes, HolesType, CallTypes, operating, theTree
  <2>. QED
    BY <1>1, <2>1, RebuildTypesKept DEF Types, theTree, rebuilding
<1>2. ASSUME NEW r \in Searcher, Search(r) PROVE Types'
  BY <1>1, <1>2, SearchPushDownKeepsTypes
     DEF Search, ReadBox, TestRebuildPtr, EnterSearch, LeaveSearch, locks
<1>3. CASE UNCHANGED vars
  BY <1>1, <1>3 DEF vars, locks
<1>. QED
  BY <1>2, <1>3, CallKeepsTypes, SearchAllKeepsTypes, MainKeepsTypes, RebuilderKeepsTypes DEF Next

LEMMA CounterType == SearchInv => search_mutex_counter \in -1 .. Cardinality(Searcher)
<1>. SUFFICES ASSUME SearchInv PROVE search_mutex_counter \in -1 .. Cardinality(Searcher)
  OBVIOUS
<1>1. IsFiniteSet(Searcher) /\ Cardinality(Searcher) \in Nat
  BY IkdAssumption, FS_CardinalityType DEF IkdAssumption
<1>2. Counted \subseteq Searcher
  BY DEF Counted
<1>3. Cardinality(Counted) <= Cardinality(Searcher)
  BY <1>1, <1>2, FS_Subset
<1>. QED
  BY <1>1, <1>3, CountedFinite DEF SearchInv, CounterOK

\* The searches and the types are kept together: the counter of the searches
\* has its range because it counts them, and the subtree the rebuild thread
\* builds starts where the pointer says as long as the pointer stays.
THEOREM MapTypesHold == Spec => [](SearchInv /\ Types)
<1>1. Init => SearchInv /\ Types
  BY InitSearchInv, InitTypes
<1>2. SearchInv /\ Types /\ [Next]_vars => (SearchInv /\ Types)'
  BY NextKeeps, NextKeepsTypes
<1>. QED
  BY <1>1, <1>2, PTL DEF Spec

\* Every variable keeps its type: the nodes that add_by_point and the deletes
\* make of nodes are nodes, the levels they go through are levels of the path,
\* what is logged can be replayed, and the counter of the searches stays between
\* -1 and the number of searching threads.
THEOREM IkdTypes == Spec => []TypeOK
<1>1. SearchInv /\ Types => TypeOK
  <2>. SUFFICES ASSUME SearchInv, Types PROVE TypeOK
    OBVIOUS
  <2>1. tree \in [Level -> Node]
    BY DEF Types, MapTypes, Sub, Level
  <2>2. Rebuild_Logger \in Seq(Operation) /\ todo \in Seq(Operation)
    BY OpsAreOps DEF Types, MapTypes, CallTypes
  <2>3. fresh = <<>> \/ \E t \in Level : fresh \in [t .. Depth -> Node]
    BY DEF Types, RebuildTypes, Sub
  <2>4. job = <<>> \/ job \in Operation
    BY OpsAreOps DEF Types, RebuildTypes
  <2>5. stale \subseteq Reader
    BY DEF SearchInv, StaleOK
  <2>. QED
    BY <2>1, <2>2, <2>3, <2>4, <2>5, CounterType
       DEF TypeOK, Types, MapTypes, CallTypes, RebuildTypes, HolesType, SearchInv, ReaderOK
<1>. QED
  BY <1>1, MapTypesHold, PTL

-----------------------------------------------------------------------------
(* The points of a subtree. *)

\* No mark is owed to level n from level t on.
Clear(tr, t, n) == \A m \in t .. n - 1 : ~tr[m].need_push_down

\* The points that are in the subtree from level t on.
Live(tr, t) == {p \in Point : /\ Home[p] >= t
                              /\ p \in tr[Home[p]].valid
                              /\ Clear(tr, t, Home[p])}

\* Points are in the buckets they belong to, and only a deletion is owed.
Sound(tr, t) ==
  \A n \in t .. Depth : /\ \A p \in tr[n].valid : Home[p] = n
                        /\ tr[n].need_push_down => n < Depth /\ tr[n].tree_deleted

\* A node that is marked as deleted has nothing below it.
Dead(tr, n) == tr[n].tree_deleted => Live(tr, n) = {}

LEMMA HomeIs == \A p \in Point : Home[p] \in 0 .. Depth /\ Home[p] \in Int
BY IkdAssumption DEF IkdAssumption

\* Points and marks, and nothing else of a node, say what lives.
LEMMA LiveSame ==
  ASSUME NEW t \in Level, NEW tr, NEW new,
         \A n \in t .. Depth : /\ new[n].valid = tr[n].valid
                               /\ new[n].need_push_down <=> tr[n].need_push_down
  PROVE  Live(new, t) = Live(tr, t)
<1>1. t \in Nat /\ Depth \in Nat
  BY LevelsAreInt
<1>2. ASSUME NEW p \in Point, Home[p] >= t
      PROVE  /\ new[Home[p]].valid = tr[Home[p]].valid
             /\ Clear(new, t, Home[p]) <=> Clear(tr, t, Home[p])
  <2>1. Home[p] \in t .. Depth
    BY <1>1, <1>2, HomeIs
  <2>2. \A m \in t .. Home[p] - 1 : m \in t .. Depth
    BY <1>1, <2>1
  <2>. QED
    BY <2>1, <2>2 DEF Clear
<1>. QED
  BY <1>2 DEF Live

\* What lives from level t on, as far as it belongs to level u and below.
LEMMA LiveFrom ==
  ASSUME NEW t \in Level, NEW u \in t .. Depth, NEW tr, NEW p \in Point, Home[p] >= u
  PROVE  p \in Live(tr, t) <=> p \in Live(tr, u) /\ Clear(tr, t, u)
<1>1. t \in Nat /\ Depth \in Nat /\ u \in Nat /\ t <= u /\ Home[p] \in Int
  BY LevelsAreInt, HomeIs
<1>2. Clear(tr, t, Home[p]) <=> Clear(tr, u, Home[p]) /\ Clear(tr, t, u)
  <2>1. \A m \in t .. Home[p] - 1 : m \in u .. Home[p] - 1 \/ m \in t .. u - 1
    BY <1>1
  <2>2. \A m \in u .. Home[p] - 1 : m \in t .. Home[p] - 1
    BY <1>1
  <2>3. \A m \in t .. u - 1 : m \in t .. Home[p] - 1
    BY <1>1
  <2>. QED
    BY <2>1, <2>2, <2>3 DEF Clear
<1>3. Home[p] >= t
  BY <1>1
<1>. QED
  BY <1>2, <1>3 DEF Live

LEMMA InheritDeath ==
  ASSUME NEW node \in Node, NEW n
  PROVE  /\ Inherit(node, TRUE, n).valid = {}
         /\ Inherit(node, TRUE, n).tree_deleted
         /\ Inherit(node, TRUE, n).need_push_down = (n < Depth)
         /\ Inherit(node, TRUE, n) \in Node
<1>. DEFINE none == {}
            yes == TRUE
            d == node.deleted \cup node.valid
            b == n < Depth
<1>1. Inherit(node, TRUE, n) = With(node, none, d, yes, b)
  BY Zenon DEF Inherit, With
<1>2. none \in SUBSET Point /\ d \in SUBSET Point /\ yes \in BOOLEAN /\ b \in BOOLEAN
  BY NodeFields
<1>. HIDE DEF none, yes, d, b
<1>3. /\ With(node, none, d, yes, b) \in Node
      /\ With(node, none, d, yes, b).valid = none
  BY <1>2, WithIs
<1>4. With(node, none, d, yes, b).tree_deleted = yes
  BY <1>2, WithIs
<1>5. With(node, none, d, yes, b).need_push_down = b
  BY <1>2, WithIs
<1>. QED
  BY <1>1, <1>3, <1>4, <1>5, Zenon DEF none, yes, b

\* A node of a settled subtree is what it was, or deleted.
LEMMA SettledNode ==
  ASSUME NEW a \in Level, NEW t \in a .. Depth, NEW tr \in Sub(a), Sound(tr, t),
         NEW n \in t .. Depth
  PROVE  /\ Clear(tr, t, n) => Settled(tr, t)[n] = tr[n]
         /\ ~Clear(tr, t, n) => /\ Settled(tr, t)[n].valid = {}
                                /\ Settled(tr, t)[n].tree_deleted
                                /\ Settled(tr, t)[n].need_push_down = (n < Depth)
<1>1. a \in Nat /\ t \in Nat /\ Depth \in Nat /\ a <= t
  BY LevelsAreInt
<1>2. CASE Clear(tr, t, n) /\ Settled(tr, t)[n] = tr[n]
  BY <1>2
<1>3. ASSUME NEW m \in t .. n - 1, tr[m].need_push_down,
             Settled(tr, t)[n] = Inherit(tr[n], tr[m].tree_deleted, n)
      PROVE  /\ ~Clear(tr, t, n)
             /\ Settled(tr, t)[n].valid = {}
             /\ Settled(tr, t)[n].tree_deleted
             /\ Settled(tr, t)[n].need_push_down = (n < Depth)
  <2>1. ~Clear(tr, t, n)
    BY <1>3 DEF Clear
  <2>2. m \in t .. Depth /\ m \in a .. Depth
    BY <1>1
  <2>3. tr[m] \in Node /\ tr[n] \in Node
    BY <1>1, <2>2 DEF Sub
  <2>4. tr[m].tree_deleted
    BY <1>3, <2>2 DEF Sound
  <2>5. tr[m].tree_deleted = TRUE
    BY <2>3, <2>4, NodeFields, Zenon
  <2>6. Settled(tr, t)[n] = Inherit(tr[n], TRUE, n)
    BY <1>3, <2>5
  <2>7. /\ Inherit(tr[n], TRUE, n).valid = {}
        /\ Inherit(tr[n], TRUE, n).tree_deleted
        /\ Inherit(tr[n], TRUE, n).need_push_down = (n < Depth)
    BY <2>3, InheritDeath, Zenon
  <2>. QED
    BY <2>1, <2>6, <2>7, Zenon
<1>4. \/ Clear(tr, t, n) /\ Settled(tr, t)[n] = tr[n]
      \/ \E m \in t .. n - 1 : /\ tr[m].need_push_down
                               /\ Settled(tr, t)[n] = Inherit(tr[n], tr[m].tree_deleted, n)
  BY SettledIs DEF Clear
<1>. QED
  BY <1>2, <1>3, <1>4, Zenon

\* What flatten and the searches find is what lives.
LEMMA InsideIs ==
  ASSUME NEW a \in Level, NEW t \in a .. Depth, NEW tr \in Sub(a), Sound(tr, t),
         NEW n \in t .. Depth
  PROVE  Inside(Settled(tr, t), n) = {p \in Live(tr, t) : Home[p] >= n}
<1>1. a \in Nat /\ t \in Nat /\ Depth \in Nat /\ a <= t /\ n \in Nat
  BY LevelsAreInt
<1>. DEFINE S == Settled(tr, t)
<1>2. S \in Sub(t)
  BY SettledIs
<1>. HIDE DEF S
<1>3. ASSUME NEW p \in Inside(S, n) PROVE p \in Live(tr, t) /\ Home[p] >= n
  <2>1. PICK m \in n .. Depth : p \in S[m].valid
    BY DEF Inside
  <2>2. m \in t .. Depth
    BY <1>1
  <2>3. Clear(tr, t, m) /\ S[m] = tr[m]
    BY <2>1, <2>2, SettledNode DEF S
  <2>4. p \in tr[m].valid /\ Home[p] = m
    BY <2>1, <2>2, <2>3 DEF Sound
  <2>5. p \in Point
    BY <1>2, <2>1, <2>2, NodeFields DEF Sub
  <2>. QED
    BY <1>1, <2>2, <2>3, <2>4, <2>5 DEF Live
<1>4. ASSUME NEW p \in Live(tr, t), Home[p] >= n PROVE p \in Inside(S, n)
  <2>1. p \in Point /\ p \in tr[Home[p]].valid /\ Clear(tr, t, Home[p])
    BY DEF Live
  <2>2. Home[p] \in n .. Depth /\ Home[p] \in t .. Depth
    BY <1>1, <1>4, <2>1, HomeIs
  <2>3. S[Home[p]] = tr[Home[p]]
    BY <2>1, <2>2, SettledNode DEF S
  <2>. QED
    BY <2>1, <2>2, <2>3 DEF Inside
<1>. QED
  BY <1>3, <1>4 DEF S

LEMMA FlattenedIsLive ==
  ASSUME NEW a \in Level, NEW t \in a .. Depth, NEW tr \in Sub(a), Sound(tr, t)
  PROVE  Flattened(tr, t) = Live(tr, t)
<1>1. t \in Nat /\ Depth \in Nat /\ t \in t .. Depth
  BY LevelsAreInt
<1>2. Flattened(tr, t) = Inside(Settled(tr, t), t)
  BY DEF Flattened, Inside
<1>3. \A p \in Live(tr, t) : Home[p] >= t
  BY DEF Live
<1>. QED
  BY <1>1, <1>2, <1>3, InsideIs

-----------------------------------------------------------------------------
\* Update changes the marks of the nodes from level x up to level m only.
LEMMA UpdatedNodes ==
  ASSUME NEW a \in Level, NEW tr \in Sub(a), NEW x, NEW m, NEW n \in a .. Depth
  PROVE  LET dead == /\ \A k \in n .. m : tr[k].valid = {}
                     /\ m < Depth => tr[m + 1].tree_deleted
         IN  /\ Update(tr, x, m)[n].valid = tr[n].valid
             /\ Update(tr, x, m)[n].need_push_down = tr[n].need_push_down
             /\ n \notin x .. m => Update(tr, x, m)[n] = tr[n]
             /\ n \in x .. m => (Update(tr, x, m)[n].tree_deleted <=> dead)
<1>. DEFINE dead == /\ \A k \in n .. m : tr[k].valid = {}
                    /\ m < Depth => tr[m + 1].tree_deleted
<1>1. n \in DOMAIN tr /\ tr[n] \in Node
  BY DEF Sub
<1>2. \A node \in Node : \A d \in BOOLEAN :
        /\ [node EXCEPT !.tree_deleted = d].valid = node.valid
        /\ [node EXCEPT !.tree_deleted = d].need_push_down = node.need_push_down
        /\ [node EXCEPT !.tree_deleted = d].tree_deleted = d
  BY DEF Node
<1>3. dead \in BOOLEAN
  OBVIOUS
<1>4. Update(tr, x, m)[n] = IF n \in x .. m THEN [tr[n] EXCEPT !.tree_deleted = dead] ELSE tr[n]
  BY <1>1, Zenon DEF Update
<1>. HIDE DEF dead
<1>5. CASE n \in x .. m
  <2>1. Update(tr, x, m)[n] = [tr[n] EXCEPT !.tree_deleted = dead]
    BY <1>4, <1>5
  <2>2. /\ [tr[n] EXCEPT !.tree_deleted = dead].valid = tr[n].valid
        /\ [tr[n] EXCEPT !.tree_deleted = dead].need_push_down = tr[n].need_push_down
        /\ [tr[n] EXCEPT !.tree_deleted = dead].tree_deleted = dead
    BY <1>1, <1>2, <1>3, Zenon
  <2>. QED
    BY <1>5, <2>1, <2>2, Zenon DEF dead
<1>6. CASE n \notin x .. m
  <2>1. Update(tr, x, m)[n] = tr[n]
    BY <1>4, <1>6
  <2>. QED
    BY <1>6, <2>1, Zenon
<1>. QED
  BY <1>5, <1>6, Zenon

\* Leaving the nodes changes nothing else.
LEMMA LeftNodes ==
  ASSUME NEW a \in Level, NEW tr \in Sub(a), NEW x, NEW m, NEW n \in a .. Depth
  PROVE  LET U == Update(tr, x, m)
             L == UpdateAndLeave(tr, x, m)
         IN  /\ L[n].valid = U[n].valid
             /\ L[n].need_push_down = U[n].need_push_down
             /\ L[n].tree_deleted = U[n].tree_deleted
             /\ n \notin x .. m => L[n] = tr[n]
<1>. DEFINE U == Update(tr, x, m)
            L == UpdateAndLeave(tr, x, m)
<1>1. n \in DOMAIN tr
  BY DEF Sub
<1>2. U \in Sub(a)
  BY UpdateType
<1>3. U[n] \in Node
  BY <1>2 DEF Sub
<1>4. n \notin x .. m => U[n] = tr[n]
  BY UpdatedNodes
<1>5. L[n] = IF n \in x .. m THEN [U[n] EXCEPT !.working_flag = FALSE] ELSE tr[n]
  BY <1>1, Zenon DEF UpdateAndLeave
<1>6. \A node \in Node : LET new == [node EXCEPT !.working_flag = FALSE]
                         IN  /\ new.valid = node.valid
                             /\ new.need_push_down = node.need_push_down
                             /\ new.tree_deleted = node.tree_deleted
  BY DEF Node
<1>. HIDE DEF U, L
<1>7. CASE n \in x .. m
  <2>1. L[n] = [U[n] EXCEPT !.working_flag = FALSE]
    BY <1>5, <1>7
  <2>. QED
    BY <1>3, <1>6, <1>7, <2>1, Zenon DEF U, L
<1>8. CASE n \notin x .. m
  BY <1>4, <1>5, <1>8, Zenon DEF U, L
<1>. QED
  BY <1>7, <1>8, Zenon

\* Update makes the marks of the nodes it goes through true, and loses nothing.
LEMMA UpdateKeeps ==
  ASSUME NEW t \in Level, NEW tr, NEW new, NEW x \in t .. Depth, NEW m \in Int,
         x <= m + 1, m <= Depth, Sound(tr, t),
         \A n \in t .. Depth :
           /\ new[n].valid = tr[n].valid
           /\ new[n].need_push_down <=> tr[n].need_push_down
           /\ n \notin x .. m => new[n] = tr[n]
           /\ n \in x .. m => (new[n].tree_deleted <=>
                                 /\ \A k \in n .. m : tr[k].valid = {}
                                 /\ m < Depth => tr[m + 1].tree_deleted),
         m < Depth => Dead(tr, m + 1)
  PROVE  /\ Live(new, t) = Live(tr, t)
         /\ \A n \in x .. m : Dead(new, n)
         /\ \A n \in t .. Depth : n \notin x .. m => (Dead(tr, n) <=> Dead(new, n))
         /\ (\A n \in x .. m : new[n].need_push_down => new[n].tree_deleted) => Sound(new, t)
<1>1. t \in Nat /\ Depth \in Nat /\ t <= x
  BY LevelsAreInt
<1>2. \A n \in t .. Depth : Live(new, n) = Live(tr, n)
  <2>. TAKE n \in t .. Depth
  <2>1. n \in Level /\ \A k \in n .. Depth : k \in t .. Depth
    BY <1>1 DEF Level
  <2>. QED
    BY <2>1, LiveSame
<1>3. t \in t .. Depth
  BY <1>1 DEF Level
<1>4. ASSUME NEW n \in x .. m, new[n].tree_deleted PROVE Live(new, n) = {}
  <2>1. n \in t .. Depth /\ n \in Level
    BY <1>1 DEF Level
  <2>2. /\ \A k \in n .. m : tr[k].valid = {}
        /\ m < Depth => tr[m + 1].tree_deleted
    BY <1>4, <2>1
  <2>3. ASSUME NEW p \in Live(tr, n) PROVE FALSE
    <3>1. p \in Point /\ Home[p] >= n /\ p \in tr[Home[p]].valid
      BY DEF Live
    <3>2. Home[p] \in 0 .. Depth
      BY <3>1, HomeIs
    <3>3. ~(Home[p] <= m)
      BY <2>1, <2>2, <3>1, <3>2
    <3>4. m < Depth /\ m + 1 \in n .. Depth /\ Home[p] >= m + 1
      BY <1>1, <2>1, <3>2, <3>3
    <3>5. p \in Live(tr, m + 1)
      BY <2>1, <3>1, <3>4, LiveFrom
    <3>. QED
      BY <2>2, <3>4, <3>5 DEF Dead
  <2>. QED
    BY <1>2, <2>1, <2>3
<1>5. (\A n \in x .. m : new[n].need_push_down => new[n].tree_deleted) => Sound(new, t)
  <2>. SUFFICES ASSUME \A n \in x .. m : new[n].need_push_down => new[n].tree_deleted,
                       NEW n \in t .. Depth
                PROVE  /\ \A p \in new[n].valid : Home[p] = n
                       /\ new[n].need_push_down => n < Depth /\ new[n].tree_deleted
    BY DEF Sound
  <2>1. n \in x .. m \/ new[n] = tr[n]
    OBVIOUS
  <2>. QED
    BY <2>1 DEF Sound
<1>6. \A n \in t .. Depth : n \notin x .. m => (Dead(tr, n) <=> Dead(new, n))
  BY <1>2 DEF Dead
<1>. QED
  BY <1>2, <1>3, <1>4, <1>5, <1>6 DEF Dead

-----------------------------------------------------------------------------
LEMMA PushedNodes ==
  ASSUME NEW a \in Level, NEW tr \in Sub(a), NEW n \in a .. Depth, n < Depth,
         tr[n].need_push_down
  PROVE  /\ Push_Down(tr, n) \in Sub(a)
         /\ \A k \in a .. Depth : k \notin {n, n + 1} => Push_Down(tr, n)[k] = tr[k]
         /\ Push_Down(tr, n)[n].valid = tr[n].valid
         /\ ~Push_Down(tr, n)[n].need_push_down
         /\ Push_Down(tr, n)[n].tree_deleted = tr[n].tree_deleted
         /\ Push_Down(tr, n)[n + 1] = Inherit(tr[n + 1], tr[n].tree_deleted, n + 1)
<1>. DEFINE node == [tr[n] EXCEPT !.need_push_down = FALSE]
            next == Inherit(tr[n + 1], tr[n].tree_deleted, n + 1)
            P == Push_Down(tr, n)
<1>1. a \in Nat /\ n \in Nat /\ n + 1 \in a .. Depth /\ n # n + 1
  BY LevelsAreInt
<1>2. tr[n] \in Node /\ tr[n + 1] \in Node
  BY <1>1 DEF Sub
<1>3. node \in Node
  BY <1>2 DEF Node
<1>4. tr[n].tree_deleted \in BOOLEAN
  BY <1>2, NodeFields
<1>5. next \in Node
  BY <1>2, <1>4, InheritType, Zenon
<1>6. /\ node.valid = tr[n].valid /\ ~node.need_push_down
      /\ node.tree_deleted = tr[n].tree_deleted
  BY <1>2 DEF Node
<1>7. P = [[tr EXCEPT ![n] = node] EXCEPT ![n + 1] = next]
  <2>1. Push_Down(tr, n) = [tr EXCEPT ![n].need_push_down = FALSE,
                                      ![n + 1] = Inherit(@, tr[n].tree_deleted, n + 1)]
    BY Zenon DEF Push_Down
  <2>2. tr[n + 1] = [tr EXCEPT ![n].need_push_down = FALSE][n + 1]
    BY <1>1 DEF Sub
  <2>. QED
    BY <2>1, <2>2
<1>. HIDE DEF node, next, P
<1>8. /\ P \in Sub(a)
      /\ \A k \in a .. Depth : k \notin {n, n + 1} => P[k] = tr[k]
      /\ P[n] = node /\ P[n + 1] = next
  BY <1>1, <1>3, <1>5, <1>7 DEF Sub
<1>. QED
  BY <1>6, <1>8, Zenon DEF P, next

\* Pushing a deletion down moves the mark and changes nothing that lives.
LEMMA PushDownKeeps ==
  ASSUME NEW a \in Level, NEW tr \in Sub(a), NEW t \in a .. Depth, Sound(tr, t),
         NEW n \in t .. Depth, n < Depth, tr[n].need_push_down
  PROVE  /\ Sound(Push_Down(tr, n), t)
         /\ \A k \in t .. n : Live(Push_Down(tr, n), k) = Live(tr, k)
         /\ Live(Push_Down(tr, n), n + 1) = {}
         /\ \A k \in t .. Depth : Dead(tr, k) => Dead(Push_Down(tr, n), k)
<1>. DEFINE P == Push_Down(tr, n)
<1>1. /\ a \in Nat /\ t \in Nat /\ Depth \in Nat /\ n \in Nat /\ a <= t
      /\ n \in a .. Depth /\ n + 1 \in a .. Depth /\ n + 1 \in t .. Depth
  BY LevelsAreInt
<1>2. tr[n] \in Node /\ tr[n + 1] \in Node
  BY <1>1 DEF Sub
<1>3. tr[n].tree_deleted
  BY DEF Sound
<1>4. tr[n].tree_deleted = TRUE
  BY <1>2, <1>3, NodeFields, Zenon
<1>5. /\ \A k \in a .. Depth : k \notin {n, n + 1} => P[k] = tr[k]
      /\ P[n].valid = tr[n].valid
      /\ ~P[n].need_push_down
      /\ P[n].tree_deleted
  BY <1>1, <1>3, PushedNodes
<1>6. P[n + 1] = Inherit(tr[n + 1], TRUE, n + 1)
  BY <1>1, <1>4, PushedNodes
<1>7. P[n + 1].valid = {} /\ P[n + 1].tree_deleted
  BY <1>2, <1>6, InheritDeath, Zenon
<1>8. P[n + 1].need_push_down = (n + 1 < Depth)
  <2>. DEFINE l == n + 1
  <2>. HIDE DEF l
  <2>1. Inherit(tr[n + 1], TRUE, l).need_push_down = (l < Depth)
    BY <1>2, InheritDeath, Zenon
  <2>. QED
    BY <1>6, <2>1, Zenon DEF l
<1>. HIDE DEF P
<1>9. \A k \in t .. Depth : k \in a .. Depth
  BY <1>1
<1>10. Sound(P, t)
  <2>. SUFFICES ASSUME NEW k \in t .. Depth
                PROVE  /\ \A p \in P[k].valid : Home[p] = k
                       /\ P[k].need_push_down => k < Depth /\ P[k].tree_deleted
    BY DEF Sound
  <2>1. CASE k = n
    BY <1>5, <2>1 DEF Sound
  <2>2. CASE k = n + 1
    BY <1>7, <1>8, <2>2
  <2>3. CASE k \notin {n, n + 1}
    BY <1>5, <1>9, <2>3 DEF Sound
  <2>. QED
    BY <2>1, <2>2, <2>3
<1>11. ASSUME NEW k \in t .. n + 1, NEW p \in Point, Home[p] > n PROVE p \notin Live(P, k)
  <2>1. Home[p] \in 0 .. Depth
    BY HomeIs
  <2>2. CASE Home[p] = n + 1
    BY <1>7, <2>2 DEF Live
  <2>3. CASE Home[p] # n + 1
    <3>1. n + 1 \in k .. Home[p] - 1 /\ n + 1 < Depth
      BY <1>1, <1>11, <2>1, <2>3
    <3>2. P[n + 1].need_push_down
      BY <1>8, <3>1
    <3>. QED
      BY <3>1, <3>2 DEF Live, Clear
  <2>. QED
    BY <2>2, <2>3
<1>12. ASSUME NEW k \in t .. n PROVE Live(P, k) = Live(tr, k)
  <2>1. ASSUME NEW p \in Point PROVE p \in Live(P, k) <=> p \in Live(tr, k)
    <3>1. Home[p] \in 0 .. Depth
      BY HomeIs
    <3>2. CASE Home[p] > n
      <4>1. k \in t .. n + 1
        BY <1>1
      <4>2. p \notin Live(P, k)
        BY <1>11, <3>2, <4>1
      <4>3. n \in k .. Home[p] - 1
        BY <1>1, <3>1, <3>2
      <4>4. p \notin Live(tr, k)
        BY <4>3 DEF Live, Clear
      <4>. QED
        BY <4>2, <4>4
    <3>3. CASE Home[p] <= n /\ Home[p] >= k
      <4>1. Home[p] \in a .. Depth /\ Home[p] # n + 1
        BY <1>1, <3>1, <3>3
      <4>2. P[Home[p]].valid = tr[Home[p]].valid
        BY <1>5, <4>1
      <4>3. \A m \in k .. Home[p] - 1 : m \in a .. Depth /\ m \notin {n, n + 1}
        BY <1>1, <3>1, <3>3
      <4>4. Clear(P, k, Home[p]) <=> Clear(tr, k, Home[p])
        BY <1>5, <4>3 DEF Clear
      <4>. QED
        BY <4>2, <4>4 DEF Live
    <3>4. CASE ~(Home[p] >= k)
      BY <3>4 DEF Live
    <3>. QED
      BY <1>1, <3>1, <3>2, <3>3, <3>4
  <2>. QED
    BY <2>1 DEF Live
<1>13. Live(P, n + 1) = {}
  <2>1. \A p \in Point : Home[p] >= n + 1 => Home[p] > n
    BY <1>1, HomeIs
  <2>2. n + 1 \in t .. n + 1
    BY <1>1
  <2>. QED
    BY <1>11, <2>1, <2>2 DEF Live
<1>14. ASSUME NEW k \in t .. Depth, Dead(tr, k) PROVE Dead(P, k)
  <2>1. CASE k = n
    <3>1. Live(P, n) = Live(tr, n) /\ tr[n].tree_deleted
      BY <1>1, <1>3, <1>12
    <3>. QED
      BY <1>14, <2>1, <3>1 DEF Dead
  <2>2. CASE k < n
    <3>1. k \in t .. n /\ k \notin {n, n + 1} /\ k \in a .. Depth
      BY <1>1, <2>2
    <3>2. Live(P, k) = Live(tr, k) /\ P[k] = tr[k]
      BY <1>5, <1>12, <3>1
    <3>. QED
      BY <1>14, <3>2 DEF Dead
  <2>3. CASE k = n + 1
    BY <1>13, <2>3 DEF Dead
  <2>4. CASE k > n + 1
    <3>1. k \in Level /\ k \in a .. Depth /\ k \notin {n, n + 1}
      BY <1>1, <2>4 DEF Level
    <3>2. \A m \in k .. Depth : m \in a .. Depth /\ m \notin {n, n + 1}
      BY <1>1, <2>4
    <3>3. Live(P, k) = Live(tr, k) /\ P[k] = tr[k]
      BY <1>5, <3>1, <3>2, LiveSame
    <3>. QED
      BY <1>14, <3>3 DEF Dead
  <2>. QED
    BY <1>1, <2>1, <2>2, <2>3, <2>4
<1>. QED
  BY <1>10, <1>12, <1>13, <1>14 DEF P

\* A subtree that is built holds its points, and nothing is owed in it.
LEMMA BuiltKeeps ==
  ASSUME NEW t \in Level, NEW points \in SUBSET Point, \A p \in points : Home[p] >= t
  PROVE  /\ Sound(Built(points, t), t)
         /\ Live(Built(points, t), t) = points
         /\ \A n \in t .. Depth : /\ ~Built(points, t)[n].need_push_down
                                  /\ Dead(Built(points, t), n)
<1>. DEFINE B == Built(points, t)
<1>1. t \in Nat /\ Depth \in Nat
  BY LevelsAreInt
<1>2. \A p \in points : Place(p, t) = Home[p]
  BY <1>1, HomeIs DEF Place
<1>3. \A n \in t .. Depth : /\ B[n].valid = {p \in points : Home[p] = n}
                            /\ ~B[n].need_push_down
                            /\ B[n].tree_deleted <=> \A p \in points : Home[p] < n
  BY <1>2 DEF Built
<1>. HIDE DEF B
<1>4. Sound(B, t)
  BY <1>3 DEF Sound
<1>5. Live(B, t) = points
  <2>1. ASSUME NEW p \in points PROVE p \in Live(B, t)
    <3>1. p \in Point /\ Home[p] >= t /\ Home[p] \in t .. Depth
      BY <1>1, HomeIs
    <3>2. \A m \in t .. Home[p] - 1 : m \in t .. Depth
      BY <1>1, <3>1
    <3>. QED
      BY <1>3, <3>1, <3>2 DEF Live, Clear
  <2>2. ASSUME NEW p \in Live(B, t) PROVE p \in points
    <3>1. p \in Point /\ Home[p] >= t /\ Home[p] \in t .. Depth /\ p \in B[Home[p]].valid
      BY <1>1, HomeIs DEF Live
    <3>. QED
      BY <1>3, <3>1
  <2>. QED
    BY <2>1, <2>2
<1>6. ASSUME NEW n \in t .. Depth PROVE Dead(B, n)
  <2>. SUFFICES ASSUME B[n].tree_deleted, NEW p \in Live(B, n) PROVE FALSE
    BY DEF Dead
  <2>1. p \in Point /\ Home[p] >= n /\ Home[p] \in t .. Depth /\ p \in B[Home[p]].valid
    BY <1>1, HomeIs DEF Live
  <2>2. p \in points /\ Home[p] < n
    BY <1>3, <2>1
  <2>. QED
    BY <1>1, <2>1, <2>2
<1>. QED
  BY <1>3, <1>4, <1>5, <1>6 DEF B

-----------------------------------------------------------------------------
\* What an operation finds at a node when it takes its turn.
LEMMA TurnMeans ==
  ASSUME NEW node, NEW inside, NEW o \in MainOp, NEW n, NEW turn,
         turn = Turn(node, inside, o, n)
  PROVE  /\ turn \in Turns
         /\ o.op = "ADD_POINT" =>
              \/ turn = "update" /\ (\E p \in o.box : Home[p] <= n)
              \/ turn = "son" /\ ~(\E p \in o.box : Home[p] <= n)
         /\ o.op # "ADD_POINT" =>
              /\ turn = "deleted" <=> node.tree_deleted
              /\ turn = "outside" => inside \cap o.box = {}
              /\ turn = "covered" => inside \subseteq o.box
              /\ turn = "son" => n < Depth
              /\ turn = "update" => ~(n < Depth)
<1>1. CASE o.op = "ADD_POINT"
  BY <1>1 DEF Turn, Turns
<1>2. CASE o.op # "ADD_POINT"
  <2>1. CASE node.tree_deleted
    BY <1>2, <2>1 DEF Turn, Turns
  <2>2. CASE ~node.tree_deleted /\ inside \cap o.box = {}
    BY <1>2, <2>2 DEF Turn, Turns
  <2>3. CASE /\ ~node.tree_deleted /\ inside \cap o.box # {}
             /\ inside # {} /\ inside \subseteq o.box /\ o.op = "DELETE_BOX"
    BY <1>2, <2>3 DEF Turn, Turns
  <2>4. CASE /\ ~node.tree_deleted /\ inside \cap o.box # {}
             /\ ~(inside # {} /\ inside \subseteq o.box /\ o.op = "DELETE_BOX")
    BY <1>2, <2>4 DEF Turn, Turns
  <2>. QED
    BY <2>1, <2>2, <2>3, <2>4
<1>. QED
  BY <1>1, <1>2

\* The nodes of a subtree after an operation.
LEMMA OperatedNodes ==
  ASSUME NEW a \in Level, NEW t \in a .. Depth, NEW m \in t .. Depth, NEW tr \in Sub(a),
         NEW turn, NEW o, NEW n \in a .. Depth
  PROVE  /\ n < t => Operated(tr, t, m, turn, o)[n] = tr[n]
         /\ n \in t .. m - 1 =>
              Operated(tr, t, m, turn, o)[n] = Change(Settled(tr, t)[n], "son", o, n)
         /\ n = m => Operated(tr, t, m, turn, o)[n] = Change(Settled(tr, t)[n], turn, o, n)
         /\ n = m + 1 /\ turn # "deleted" => Operated(tr, t, m, turn, o)[n] = Settled(tr, t)[n]
         /\ n = m + 1 /\ turn = "deleted" => Operated(tr, t, m, turn, o)[n] = tr[n]
         /\ n > m + 1 => Operated(tr, t, m, turn, o)[n] = tr[n]
<1>. DEFINE S == Settled(tr, t)
            reached == IF turn = "deleted" THEN m ELSE m + 1
            D == Operated(tr, t, m, turn, o)
            change(k) == CASE k < t \/ k > reached -> tr[k]
                           [] k \in t .. m - 1 -> Change(S[k], "son", o, k)
                           [] k = m -> Change(S[k], turn, o, k)
                           [] k = m + 1 /\ k = reached -> S[k]
<1>1. a \in Nat /\ t \in Nat /\ Depth \in Nat /\ m \in Nat /\ t <= m
  BY LevelsAreInt
<1>2. n \in DOMAIN tr
  BY DEF Sub
<1>3. D = [k \in DOMAIN tr |-> change(k)]
  BY Zenon DEF Operated
<1>4. D[n] = change(n)
  BY <1>2, <1>3
<1>. HIDE DEF D, S
<1>5. n < t => D[n] = tr[n]
  BY <1>1, <1>4
<1>6. n \in t .. m - 1 => D[n] = Change(S[n], "son", o, n)
  BY <1>1, <1>4
<1>7. n = m => D[n] = Change(S[n], turn, o, n)
  BY <1>1, <1>4
<1>8. n = m + 1 /\ turn # "deleted" => D[n] = S[n]
  BY <1>1, <1>4
<1>9. n = m + 1 /\ turn = "deleted" => D[n] = tr[n]
  BY <1>1, <1>4
<1>10. n > m + 1 => D[n] = tr[n]
  BY <1>1, <1>4
<1>. QED
  BY <1>5, <1>6, <1>7, <1>8, <1>9, <1>10 DEF D, S

\* An empty bucket that owes a deletion to what is below it.
LEMMA NothingLives ==
  ASSUME NEW n \in Level, NEW tr, tr[n].valid = {}, n < Depth => tr[n].need_push_down
  PROVE  Live(tr, n) = {}
<1>. SUFFICES ASSUME NEW p \in Live(tr, n) PROVE FALSE
  OBVIOUS
<1>1. p \in Point /\ Home[p] >= n /\ p \in tr[Home[p]].valid /\ Clear(tr, n, Home[p])
  BY DEF Live
<1>2. Home[p] \in 0 .. Depth /\ n \in Nat /\ Depth \in Nat
  BY <1>1, HomeIs, LevelsAreInt
<1>3. Home[p] # n
  BY <1>1
<1>4. n \in n .. Home[p] - 1 /\ n < Depth
  BY <1>1, <1>2, <1>3
<1>. QED
  BY <1>1, <1>4 DEF Clear

\* What lives in a subtree is what its settled nodes hold.
LEMMA SettledLive ==
  ASSUME NEW a \in Level, NEW t \in a .. Depth, NEW tr \in Sub(a), Sound(tr, t),
         NEW n \in t .. Depth
  PROVE  /\ \A p \in Point : Home[p] = n => (p \in Settled(tr, t)[n].valid <=> p \in Live(tr, t))
         /\ \A p \in Settled(tr, t)[n].valid : p \in Point /\ Home[p] = n
         /\ Settled(tr, t)[n].need_push_down => n < Depth /\ Settled(tr, t)[n].tree_deleted
<1>1. n >= t /\ n \in a .. Depth /\ tr[n] \in Node
  BY LevelsAreInt DEF Sub
<1>2. CASE Clear(tr, t, n)
  <2>1. Settled(tr, t)[n] = tr[n]
    BY <1>2, SettledNode
  <2>2. \A p \in Point : Home[p] = n => (p \in tr[n].valid <=> p \in Live(tr, t))
    BY <1>1, <1>2 DEF Live
  <2>3. \A p \in tr[n].valid : p \in Point /\ Home[p] = n
    BY <1>1, NodeFields DEF Sound
  <2>4. tr[n].need_push_down => n < Depth /\ tr[n].tree_deleted
    BY DEF Sound
  <2>. QED
    BY <2>1, <2>2, <2>3, <2>4
<1>3. CASE ~Clear(tr, t, n)
  <2>1. /\ Settled(tr, t)[n].valid = {}
        /\ Settled(tr, t)[n].tree_deleted
        /\ Settled(tr, t)[n].need_push_down = (n < Depth)
    BY <1>3, SettledNode
  <2>2. \A p \in Point : Home[p] = n => p \notin Live(tr, t)
    BY <1>3 DEF Live
  <2>. QED
    BY <2>1, <2>2
<1>. QED
  BY <1>2, <1>3

\* Where a settled node is marked as deleted, nothing lives from there on.
LEMMA DeadInside ==
  ASSUME NEW a \in Level, NEW t \in a .. Depth, NEW tr \in Sub(a), Sound(tr, t),
         NEW n \in t .. Depth, Dead(tr, n), Settled(tr, t)[n].tree_deleted
  PROVE  \A p \in Live(tr, t) : ~(Home[p] >= n)
<1>. SUFFICES ASSUME NEW p \in Live(tr, t), Home[p] >= n PROVE FALSE
  OBVIOUS
<1>1. p \in Point /\ t \in Level
  BY LevelsAreInt DEF Live, Level
<1>2. p \in Live(tr, n) /\ Clear(tr, t, n)
  BY <1>1, LiveFrom
<1>3. Settled(tr, t)[n] = tr[n]
  BY <1>2, SettledNode
<1>. QED
  BY <1>2, <1>3 DEF Dead

\* A settled node keeps its subtree: what lives from there on lived there before.
LEMMA SettledDead ==
  ASSUME NEW a \in Level, NEW t \in a .. Depth, NEW tr \in Sub(a), Sound(tr, t),
         NEW n \in t .. Depth, Dead(tr, n), NEW new, new[n] = Settled(tr, t)[n],
         \A k \in n + 1 .. Depth : new[k] = tr[k]
  PROVE  /\ Dead(new, n)
         /\ Clear(tr, t, n) => Live(new, n) = Live(tr, n)
         /\ ~Clear(tr, t, n) => Live(new, n) = {}
<1>1. a \in Nat /\ t \in Nat /\ Depth \in Nat /\ n \in Level
  BY LevelsAreInt DEF Level
<1>2. CASE Clear(tr, t, n)
  <2>1. new[n] = tr[n]
    BY <1>2, SettledNode
  <2>2. \A k \in n .. Depth : new[k] = tr[k]
    BY <1>1, <2>1 DEF Level
  <2>3. Live(new, n) = Live(tr, n)
    BY <1>1, <2>2, LiveSame
  <2>. QED
    BY <1>2, <2>1, <2>3 DEF Dead
<1>3. CASE ~Clear(tr, t, n)
  <2>3. /\ Settled(tr, t)[n].valid = {}
        /\ Settled(tr, t)[n].need_push_down = (n < Depth)
    BY <1>3, SettledNode
  <2>1. new[n].valid = {} /\ (n < Depth => new[n].need_push_down)
    BY <2>3
  <2>2. Live(new, n) = {}
    BY <1>1, <2>1, NothingLives
  <2>. QED
    BY <1>3, <2>2 DEF Dead
<1>. QED
  BY <1>2, <1>3

-----------------------------------------------------------------------------
\* What an operation leaves of a node at which it takes its turn.
LEMMA ChangedNode ==
  ASSUME NEW a \in Level, NEW t \in a .. Depth, NEW tr \in Sub(a), Sound(tr, t),
         NEW n \in t .. Depth, Dead(tr, n), NEW o \in MainOp,
         o.op = "ADD_POINT" => \A p \in o.box : Home[p] >= n,
         NEW turn, turn = TurnAt(tr, t, n, o),
         NEW new, new = Change(Settled(tr, t)[n], turn, o, n)
  PROVE  /\ \A p \in Point : Home[p] = n => (p \in new.valid <=> p \in After(Live(tr, t), o))
         /\ \A p \in new.valid : p \in Point /\ Home[p] = n
         /\ new.need_push_down => n < Depth /\ new.tree_deleted
         /\ turn \in {"outside", "son", "update"} => ~new.need_push_down
         /\ turn = "outside" => ~new.tree_deleted
         /\ turn = "covered" => new.valid = {} /\ (n < Depth => new.need_push_down)
<1>. DEFINE S == Settled(tr, t)
            L == Live(tr, t)
<1>1. n \in Int /\ S[n] \in Node /\ o \in Operation
  <2>1. S \in Sub(t)
    BY SettledIs
  <2>. QED
    BY <2>1, LevelsAreInt, OpsAreOps DEF Sub
<1>2. Inside(S, n) = {p \in L : Home[p] >= n}
  BY InsideIs
<1>3. /\ \A p \in Point : Home[p] = n => (p \in S[n].valid <=> p \in L)
      /\ \A p \in S[n].valid : p \in Point /\ Home[p] = n
      /\ S[n].need_push_down => n < Depth /\ S[n].tree_deleted
  BY SettledLive
<1>4. S[n].tree_deleted => \A p \in L : ~(Home[p] >= n)
  BY DeadInside
<1>. HIDE DEF S, L
<1>5. turn = Turn(S[n], Inside(S, n), o, n)
  BY DEF TurnAt, S
<1>. DEFINE add == o.op = "ADD_POINT"
<1>6. /\ turn \in Turns
      /\ add => \/ turn = "update" /\ (\E p \in o.box : Home[p] <= n)
                \/ turn = "son" /\ ~(\E p \in o.box : Home[p] <= n)
      /\ ~add => /\ turn = "deleted" <=> S[n].tree_deleted
                 /\ turn = "outside" => Inside(S, n) \cap o.box = {}
                 /\ turn = "covered" => Inside(S, n) \subseteq o.box
  <2>. DEFINE inside == Inside(S, n)
              node == S[n]
  <2>1. turn = Turn(node, inside, o, n)
    BY <1>5
  <2>. HIDE DEF inside, node
  <2>2. turn \in Turns
    BY <2>1, TurnMeans
  <2>3. add => \/ turn = "update" /\ (\E p \in o.box : Home[p] <= n)
               \/ turn = "son" /\ ~(\E p \in o.box : Home[p] <= n)
    BY <2>1, TurnMeans
  <2>4. ~add => (turn = "deleted" <=> node.tree_deleted)
    BY <2>1, TurnMeans
  <2>5. ~add => (turn = "outside" => inside \cap o.box = {})
    BY <2>1, TurnMeans
  <2>6. ~add => (turn = "covered" => inside \subseteq o.box)
    BY <2>1, TurnMeans
  <2>. QED
    BY <2>2, <2>3, <2>4, <2>5, <2>6 DEF inside, node
<1>7. \A p \in Point : p \in After(L, o) <=> IF add THEN p \in L \/ p \in o.box
                                             ELSE p \in L /\ p \notin o.box
  BY DEF After
<1>. DEFINE c == Change(S[n], turn, o, n)
<1>8. new = c
  BY DEF S
<1>9. CASE turn = "deleted"
  <2>1. c = S[n]
    BY <1>9, Zenon DEF Change
  <2>2. ~add /\ S[n].tree_deleted
    BY <1>6, <1>9
  <2>3. \A p \in Point : Home[p] = n => p \notin L
    BY <1>1, <1>4, <2>2
  <2>4. \A p \in Point : Home[p] = n => (p \in c.valid <=> p \in After(L, o))
    BY <1>3, <1>7, <2>1, <2>2, <2>3
  <2>5. \A p \in c.valid : p \in Point /\ Home[p] = n
    BY <1>3, <2>1
  <2>6. c.need_push_down => n < Depth /\ c.tree_deleted
    BY <1>3, <2>1
  <2>. QED
    BY <1>8, <1>9, <2>4, <2>5, <2>6 DEF L
<1>10. CASE turn = "outside"
  <2>1. c.valid = S[n].valid /\ ~c.need_push_down /\ (c.tree_deleted <=> S[n].tree_deleted)
    BY <1>1, <1>6, <1>10, ChangeIs
  <2>2. ~add /\ ~S[n].tree_deleted /\ \A p \in L : Home[p] >= n => p \notin o.box
    BY <1>2, <1>6, <1>10
  <2>3. \A p \in Point : Home[p] = n /\ p \in L => p \notin o.box
    BY <1>1, <2>2
  <2>. QED
    BY <1>3, <1>7, <1>8, <1>10, <2>1, <2>2, <2>3 DEF L
<1>11. CASE turn = "covered"
  <2>1. c.valid = {} /\ c.tree_deleted /\ (c.need_push_down <=> n < Depth)
    BY <1>1, <1>6, <1>11, ChangeIs
  <2>2. ~add /\ \A p \in L : Home[p] >= n => p \in o.box
    BY <1>2, <1>6, <1>11
  <2>3. \A p \in Point : Home[p] = n /\ p \in L => p \in o.box
    BY <1>1, <2>2
  <2>. QED
    BY <1>7, <1>8, <1>11, <2>1, <2>2, <2>3 DEF L
<1>12. CASE turn \in {"son", "update"}
  <2>1. /\ add => c.valid = S[n].valid \cup {p \in o.box : Home[p] <= n}
        /\ ~add => c.valid = S[n].valid \ o.box
    BY <1>1, <1>6, <1>12, ChangeIs
  <2>2. ~c.need_push_down
    BY <1>1, <1>6, <1>12, ChangeIs
  <2>3. CASE ~add
    <3>1. c.valid = S[n].valid \ o.box
      BY <2>1, <2>3
    <3>. QED
      BY <1>3, <1>7, <1>8, <1>12, <2>2, <2>3, <3>1 DEF L
  <2>4. CASE add
    <3>1. c.valid = S[n].valid \cup {p \in o.box : Home[p] <= n}
      BY <2>1, <2>4
    <3>2. \A p \in o.box : p \in Point /\ Home[p] \in Int /\ Home[p] >= n
      BY <1>1, <2>4, HomeIs DEF Operation
    <3>3. \A p \in o.box : Home[p] <= n <=> Home[p] = n
      BY <1>1, <3>2
    <3>4. \A p \in c.valid : p \in Point /\ Home[p] = n
      BY <1>3, <3>1, <3>2, <3>3
    <3>5. \A p \in Point : Home[p] = n => (p \in c.valid <=> p \in L \/ p \in o.box)
      BY <1>3, <3>1, <3>3
    <3>. QED
      BY <1>7, <1>8, <1>12, <2>2, <2>4, <3>4, <3>5 DEF L
  <2>. QED
    BY <2>3, <2>4
<1>. QED
  BY <1>6, <1>9, <1>10, <1>11, <1>12 DEF Turns

-----------------------------------------------------------------------------
\* An operation can go down to level m of a subtree, where it takes a turn.
Reaches(tr, t, m, turn, o) ==
  /\ \A n \in t .. m - 1 : TurnAt(tr, t, n, o) = "son"
  /\ turn = TurnAt(tr, t, m, o)

\* An operation belongs to the subtree from level t on.
Belongs(o, t) == o.op = "ADD_POINT" => \A p \in o.box : Home[p] >= t

\* An addition that reaches a node belongs to it.
LEMMA BelongsBelow ==
  ASSUME NEW t \in Level, NEW m \in t .. Depth, NEW tr, NEW o \in MainOp, Belongs(o, t),
         \A n \in t .. m - 1 : TurnAt(tr, t, n, o) = "son"
  PROVE  \A n \in t .. m : Belongs(o, n)
<1>. SUFFICES ASSUME NEW n \in t .. m, o.op = "ADD_POINT", NEW p \in o.box
              PROVE  Home[p] >= n
  BY DEF Belongs
<1>1. t \in Nat /\ m \in Nat /\ Home[p] \in Int
  BY LevelsAreInt, HomeIs, OpsAreOps DEF Operation
<1>2. CASE n = t
  BY <1>2 DEF Belongs
<1>3. CASE n # t
  <2>1. n - 1 \in t .. m - 1
    BY <1>1, <1>3
  <2>2. TurnAt(tr, t, n - 1, o) = "son"
    BY <2>1
  <2>3. ~(\E q \in o.box : Home[q] <= n - 1)
    BY <2>2 DEF TurnAt, Turn
  <2>. QED
    BY <1>1, <2>3
<1>. QED
  BY <1>2, <1>3

\* What an operation leaves at the nodes it changes, and below.
LEMMA OperatedParts ==
  ASSUME NEW a \in Level, NEW t \in a .. Depth, NEW m \in t .. Depth, NEW tr \in Sub(a),
         Sound(tr, t), \A n \in t .. Depth : Dead(tr, n),
         NEW o \in MainOp, Belongs(o, t), NEW turn, Reaches(tr, t, m, turn, o)
  PROVE  LET D == Operated(tr, t, m, turn, o)
         IN  /\ \A n \in a .. t - 1 : D[n] = tr[n]
             /\ \A n \in t .. m :
                  /\ \A p \in Point : Home[p] = n =>
                       (p \in D[n].valid <=> p \in After(Live(tr, t), o))
                  /\ \A p \in D[n].valid : Home[p] = n
                  /\ D[n].need_push_down => n < Depth /\ D[n].tree_deleted
             /\ \A n \in t .. m - 1 : ~D[n].need_push_down
             /\ turn \in {"outside", "son", "update"} => ~D[m].need_push_down
             /\ turn = "outside" => ~D[m].tree_deleted
             /\ turn = "covered" => D[m].valid = {} /\ (m < Depth => D[m].need_push_down)
             /\ turn = "deleted" => /\ D[m] = Settled(tr, t)[m]
                                    /\ Settled(tr, t)[m].tree_deleted
                                    /\ \A n \in m + 1 .. Depth : D[n] = tr[n]
             /\ turn # "deleted" /\ m < Depth => D[m + 1] = Settled(tr, t)[m + 1]
             /\ \A n \in m + 2 .. Depth : D[n] = tr[n]
<1>. DEFINE D == Operated(tr, t, m, turn, o)
            S == Settled(tr, t)
            A == After(Live(tr, t), o)
<1>1. a \in Nat /\ t \in Nat /\ Depth \in Nat /\ m \in Nat /\ a <= t /\ t <= m /\ m <= Depth
  BY LevelsAreInt
<1>2. \A n \in t .. m : Belongs(o, n)
  <2>1. t \in Level /\ \A n \in t .. m - 1 : TurnAt(tr, t, n, o) = "son"
    BY <1>1 DEF Reaches, Level
  <2>. QED
    BY <2>1, BelongsBelow
<1>3. ASSUME NEW n \in t .. m - 1
      PROVE  /\ \A p \in Point : Home[p] = n => (p \in D[n].valid <=> p \in A)
             /\ \A p \in D[n].valid : Home[p] = n
             /\ D[n].need_push_down => n < Depth /\ D[n].tree_deleted
             /\ ~D[n].need_push_down
  <2>1. n \in a .. Depth /\ n \in t .. Depth /\ n \in t .. m
    BY <1>1
  <2>2. D[n] = Change(S[n], "son", o, n)
    BY <2>1, OperatedNodes
  <2>3. TurnAt(tr, t, n, o) = "son"
    BY DEF Reaches
  <2>4. o.op = "ADD_POINT" => \A p \in o.box : Home[p] >= n
    BY <1>2, <2>1 DEF Belongs
  <2>. HIDE DEF D, A
  <2>5. /\ \A p \in Point : Home[p] = n => (p \in D[n].valid <=> p \in A)
        /\ \A p \in D[n].valid : p \in Point /\ Home[p] = n
        /\ ~D[n].need_push_down
    BY <2>1, <2>2, <2>3, <2>4, ChangedNode DEF A
  <2>. QED
    BY <2>5
<1>4. m \in a .. Depth /\ m \in t .. Depth
  BY <1>1
<1>5. D[m] = Change(S[m], turn, o, m) /\ turn = TurnAt(tr, t, m, o)
  BY <1>4, OperatedNodes DEF Reaches
<1>6. o.op = "ADD_POINT" => \A p \in o.box : Home[p] >= m
  BY <1>1, <1>2 DEF Belongs
<1>7. /\ \A p \in Point : Home[p] = m => (p \in D[m].valid <=> p \in A)
      /\ \A p \in D[m].valid : Home[p] = m
      /\ D[m].need_push_down => m < Depth /\ D[m].tree_deleted
      /\ turn \in {"outside", "son", "update"} => ~D[m].need_push_down
      /\ turn = "outside" => ~D[m].tree_deleted
      /\ turn = "covered" => D[m].valid = {} /\ (m < Depth => D[m].need_push_down)
  <2>. HIDE DEF D, A
  <2>. QED
    BY <1>4, <1>5, <1>6, ChangedNode DEF A
<1>8. turn = "deleted" => D[m] = S[m] /\ S[m].tree_deleted
  <2>. SUFFICES ASSUME turn = "deleted" PROVE D[m] = S[m] /\ S[m].tree_deleted
    OBVIOUS
  <2>1. D[m] = S[m]
    BY <1>5 DEF Change
  <2>2. S[m].tree_deleted
    <3>. DEFINE node == S[m]
                inside == Inside(S, m)
    <3>1. turn = Turn(node, inside, o, m)
      BY <1>5 DEF TurnAt
    <3>. HIDE DEF node, inside
    <3>2. node.tree_deleted
      BY <3>1, TurnMeans
    <3>. QED
      BY <3>2 DEF node
  <2>. QED
    BY <2>1, <2>2
<1>9. \A n \in a .. t - 1 : D[n] = tr[n]
  <2>. TAKE n \in a .. t - 1
  <2>1. n \in a .. Depth /\ n < t
    BY <1>1
  <2>. QED
    BY <2>1, OperatedNodes
<1>10. \A n \in m + 2 .. Depth : D[n] = tr[n]
  <2>. TAKE n \in m + 2 .. Depth
  <2>1. n \in a .. Depth /\ n > m + 1
    BY <1>1
  <2>. QED
    BY <2>1, OperatedNodes
<1>11. turn # "deleted" /\ m < Depth => D[m + 1] = S[m + 1]
  <2>1. m < Depth => m + 1 \in a .. Depth
    BY <1>1
  <2>. QED
    BY <2>1, OperatedNodes
<1>12. turn = "deleted" => \A n \in m + 1 .. Depth : D[n] = tr[n]
  <2>. SUFFICES ASSUME turn = "deleted", NEW n \in m + 1 .. Depth PROVE D[n] = tr[n]
    OBVIOUS
  <2>1. n \in a .. Depth /\ (n = m + 1 \/ n > m + 1)
    BY <1>1
  <2>. QED
    BY <2>1, OperatedNodes
<1>. HIDE DEF D, S, A
<1>13. \A n \in t .. m : n \in t .. m - 1 \/ n = m
  BY <1>1
<1>14. \A n \in t .. m :
         /\ \A p \in Point : Home[p] = n => (p \in D[n].valid <=> p \in A)
         /\ \A p \in D[n].valid : Home[p] = n
         /\ D[n].need_push_down => n < Depth /\ D[n].tree_deleted
  BY <1>3, <1>7, <1>13
<1>. QED
  BY <1>3, <1>7, <1>8, <1>9, <1>10, <1>11, <1>12, <1>14 DEF D, S, A

-----------------------------------------------------------------------------
\* An operation that has gone down to level m, but not yet below.
Done(q, turn, m) == ~(turn = "son" /\ Home[q] > m)

\* What an operation leaves alive on its way down; what owes and what is dead.
LEMMA OperatedKeeps ==
  ASSUME NEW a \in Level, NEW t \in a .. Depth, NEW m \in t .. Depth, NEW tr \in Sub(a),
         Sound(tr, t), \A n \in t .. Depth : Dead(tr, n),
         NEW o \in MainOp, Belongs(o, t), NEW turn, Reaches(tr, t, m, turn, o)
  PROVE  LET D == Operated(tr, t, m, turn, o)
         IN  /\ \A n \in a .. t - 1 : D[n] = tr[n]
             /\ Sound(D, t)
             /\ \A p \in Point : Home[p] >= t =>
                  /\ Done(p, turn, m) => (p \in Live(D, t) <=> p \in After(Live(tr, t), o))
                  /\ ~Done(p, turn, m) => (p \in Live(D, t) <=> p \in Live(tr, t))
             /\ \A n \in m + 1 .. Depth : Dead(D, n)
             /\ turn \in {"deleted", "outside", "covered"} => Dead(D, m)
             /\ \A n \in t .. m - 1 : ~D[n].need_push_down
             /\ turn \in {"outside", "son", "update"} => ~D[m].need_push_down
<1>. DEFINE D == Operated(tr, t, m, turn, o)
            S == Settled(tr, t)
            L == Live(tr, t)
            A == After(L, o)
<1>1. a \in Nat /\ t \in Nat /\ Depth \in Nat /\ m \in Nat /\ a <= t /\ t <= m /\ m <= Depth
      /\ t \in Level /\ m \in Level
  BY LevelsAreInt DEF Level
<1>2. /\ \A n \in a .. t - 1 : D[n] = tr[n]
      /\ \A n \in t .. m :
           /\ \A p \in Point : Home[p] = n => (p \in D[n].valid <=> p \in A)
           /\ \A p \in D[n].valid : Home[p] = n
           /\ D[n].need_push_down => n < Depth /\ D[n].tree_deleted
      /\ \A n \in t .. m - 1 : ~D[n].need_push_down
      /\ turn \in {"outside", "son", "update"} => ~D[m].need_push_down
      /\ turn = "outside" => ~D[m].tree_deleted
      /\ turn = "covered" => D[m].valid = {} /\ (m < Depth => D[m].need_push_down)
      /\ turn = "deleted" => /\ D[m] = S[m] /\ S[m].tree_deleted
                             /\ \A n \in m + 1 .. Depth : D[n] = tr[n]
      /\ turn # "deleted" /\ m < Depth => D[m + 1] = S[m + 1]
      /\ \A n \in m + 2 .. Depth : D[n] = tr[n]
  BY OperatedParts
<1>. HIDE DEF D
<1>3. Inside(S, m) = {p \in L : Home[p] >= m}
  BY InsideIs
<1>. DEFINE add == o.op = "ADD_POINT"
<1>4. /\ turn \in Turns
      /\ add => \/ turn = "update" /\ (\E p \in o.box : Home[p] <= m)
                \/ turn = "son" /\ ~(\E p \in o.box : Home[p] <= m)
      /\ ~add => /\ turn = "deleted" <=> S[m].tree_deleted
                 /\ turn = "outside" => Inside(S, m) \cap o.box = {}
                 /\ turn = "covered" => Inside(S, m) \subseteq o.box
                 /\ turn = "update" => ~(m < Depth)
  <2>. DEFINE inside == Inside(S, m)
              node == S[m]
  <2>1. turn = Turn(node, inside, o, m)
    BY DEF Reaches, TurnAt
  <2>. HIDE DEF inside, node
  <2>2. turn \in Turns /\ o \in MainOp
    BY <2>1, TurnMeans
  <2>3. add => \/ turn = "update" /\ (\E p \in o.box : Home[p] <= m)
               \/ turn = "son" /\ ~(\E p \in o.box : Home[p] <= m)
    BY <2>1, TurnMeans
  <2>4. ~add => /\ turn = "deleted" <=> node.tree_deleted
                /\ turn = "outside" => inside \cap o.box = {}
                /\ turn = "covered" => inside \subseteq o.box
    BY <2>1, TurnMeans
  <2>5. ~add => (turn = "update" => ~(m < Depth))
    BY <2>1, TurnMeans
  <2>. QED
    BY <2>2, <2>3, <2>4, <2>5 DEF inside, node
<1>5. \A p \in Point : p \in A <=> IF add THEN p \in L \/ p \in o.box
                                   ELSE p \in L /\ p \notin o.box
  BY DEF After
<1>6. add => \E p \in Point : o.box = {p}
  BY DEF MainOp, Asked
<1>7. \A n \in t .. Depth : n \in t .. m \/ n = m + 1 \/ n \in m + 2 .. Depth
  BY <1>1
<1>8. Sound(D, t)
  <2>. SUFFICES ASSUME NEW n \in t .. Depth
                PROVE  /\ \A p \in D[n].valid : Home[p] = n
                       /\ D[n].need_push_down => n < Depth /\ D[n].tree_deleted
    BY DEF Sound
  <2>1. CASE n \in t .. m
    BY <1>2, <2>1
  <2>2. CASE D[n] = tr[n]
    BY <2>2 DEF Sound
  <2>3. CASE n = m + 1 /\ turn # "deleted"
    <3>1. D[n] = S[n]
      BY <1>1, <1>2, <2>3
    <3>. QED
      BY <3>1, SettledLive DEF S
  <2>4. n = m + 1 /\ turn = "deleted" => D[n] = tr[n]
    BY <1>1, <1>2
  <2>. QED
    BY <1>2, <1>7, <2>1, <2>2, <2>3, <2>4
<1>9. turn = "deleted" => Dead(D, m) /\ D[m].tree_deleted
  <2>. SUFFICES ASSUME turn = "deleted" PROVE Dead(D, m) /\ D[m].tree_deleted
    OBVIOUS
  <2>1. D[m] = Settled(tr, t)[m] /\ \A n \in m + 1 .. Depth : D[n] = tr[n]
    BY <1>2
  <2>2. m \in t .. Depth /\ Dead(tr, m)
    BY <1>1
  <2>3. Dead(D, m)
    BY <2>1, <2>2, SettledDead
  <2>. QED
    BY <1>2, <2>3
<1>10. turn = "covered" => Live(D, m) = {}
  BY <1>1, <1>2, NothingLives
<1>11. ASSUME turn # "deleted", m < Depth
       PROVE  /\ Dead(D, m + 1)
              /\ Clear(tr, t, m + 1) => Live(D, m + 1) = Live(tr, m + 1)
              /\ ~Clear(tr, t, m + 1) => Live(D, m + 1) = {}
  <2>. DEFINE u == m + 1
  <2>1. u \in t .. Depth /\ D[u] = Settled(tr, t)[u] /\ \A k \in u + 1 .. Depth : D[k] = tr[k]
    BY <1>1, <1>2, <1>11
  <2>2. Dead(tr, u)
    BY <2>1
  <2>. HIDE DEF u
  <2>3. /\ Dead(D, u)
        /\ Clear(tr, t, u) => Live(D, u) = Live(tr, u)
        /\ ~Clear(tr, t, u) => Live(D, u) = {}
    BY <2>1, <2>2, SettledDead
  <2>. QED
    BY <2>3 DEF u
<1>12. ASSUME NEW n \in m + 1 .. Depth PROVE Dead(D, n)
  <2>0. n \in Level /\ Dead(tr, n)
    BY <1>1 DEF Level
  <2>1. CASE turn # "deleted" /\ n = m + 1
    BY <1>1, <1>11, <2>1
  <2>2. CASE turn = "deleted" \/ n # m + 1
    <3>1. \A k \in n .. Depth : D[k] = tr[k]
      BY <1>1, <1>2, <2>2
    <3>2. Live(D, n) = Live(tr, n)
      BY <2>0, <3>1, LiveSame
    <3>3. D[n] = tr[n]
      BY <1>1, <3>1
    <3>. QED
      BY <2>0, <3>2, <3>3 DEF Dead
  <2>. QED
    BY <2>1, <2>2
<1>13. turn \in {"deleted", "outside", "covered"} => Dead(D, m)
  BY <1>2, <1>9, <1>10 DEF Dead
<1>14. ASSUME NEW p \in Point, Home[p] >= t
       PROVE  /\ Done(p, turn, m) => (p \in Live(D, t) <=> p \in A)
              /\ ~Done(p, turn, m) => (p \in Live(D, t) <=> p \in L)
  <2>1. Home[p] \in t .. Depth
    BY <1>1, <1>14, HomeIs
  <2>2. CASE Home[p] <= m
    <3>1. Home[p] \in t .. m /\ Done(p, turn, m)
      BY <1>1, <2>1, <2>2 DEF Done
    <3>2. p \in D[Home[p]].valid <=> p \in A
      BY <1>2, <3>1
    <3>3. Clear(D, t, Home[p])
      <4>1. \A k \in t .. Home[p] - 1 : k \in t .. m - 1
        BY <1>1, <3>1
      <4>. QED
        BY <1>2, <4>1 DEF Clear
    <3>4. p \in Live(D, t) <=> p \in A
      BY <1>14, <3>2, <3>3 DEF Live
    <3>. QED
      BY <3>1, <3>4
  <2>3. CASE Home[p] > m /\ turn \in {"deleted", "covered"}
    <3>1. Home[p] >= m /\ Done(p, turn, m) /\ m \in t .. Depth
      BY <1>1, <2>1, <2>3 DEF Done
    <3>2. Live(D, m) = {}
      BY <1>9, <1>10, <2>3 DEF Dead
    <3>3. p \notin Live(D, t)
      BY <1>1, <3>1, <3>2, LiveFrom
    <3>4. p \notin A
      <4>1. ~add
        BY <1>4, <2>3
      <4>2. CASE turn = "deleted"
        <5>1. p \notin L
          BY <1>2, <3>1, <4>2, DeadInside DEF S, L
        <5>. QED
          BY <1>5, <4>1, <5>1
      <4>3. CASE turn = "covered"
        <5>1. p \in L => p \in o.box
          BY <1>3, <1>4, <3>1, <4>1, <4>3
        <5>. QED
          BY <1>5, <4>1, <5>1
      <4>. QED
        BY <2>3, <4>2, <4>3
    <3>. QED
      BY <3>1, <3>3, <3>4
  <2>4. CASE Home[p] > m /\ turn \in {"outside", "son", "update"}
    <3>1. Home[p] >= m + 1 /\ m < Depth /\ m + 1 \in t .. Depth
      BY <1>1, <2>1, <2>4
    <3>2. Clear(D, t, m + 1)
      <4>1. \A k \in t .. m + 1 - 1 : k \in t .. m - 1 \/ k = m
        BY <1>1
      <4>. QED
        BY <1>2, <2>4, <4>1 DEF Clear
    <3>3. p \in Live(D, t) <=> p \in Live(D, m + 1)
      BY <1>1, <3>1, <3>2, LiveFrom
    <3>4. p \in L <=> p \in Live(tr, m + 1) /\ Clear(tr, t, m + 1)
      BY <1>1, <3>1, LiveFrom
    <3>5. p \in Live(D, t) <=> p \in L
      BY <1>11, <2>4, <3>1, <3>3, <3>4
    <3>6. turn = "outside" => (p \in L <=> p \in A)
      <4>. SUFFICES ASSUME turn = "outside" PROVE p \in L <=> p \in A
        OBVIOUS
      <4>1. ~add
        BY <1>4
      <4>2. Home[p] >= m
        BY <1>1, <2>1, <2>4
      <4>3. p \in L => p \notin o.box
        BY <1>3, <1>4, <4>1, <4>2
      <4>. QED
        BY <1>5, <4>1, <4>3
    <3>7. turn = "update" => (p \in L <=> p \in A)
      <4>. SUFFICES ASSUME turn = "update" PROVE p \in L <=> p \in A
        OBVIOUS
      <4>1. add
        BY <1>4, <3>1
      <4>2. \E q \in o.box : Home[q] <= m
        BY <1>4, <4>1
      <4>3. p \notin o.box
        <5>1. PICK q \in Point : o.box = {q}
          BY <1>6, <4>1
        <5>2. Home[q] <= m /\ Home[q] \in Int /\ Home[p] \in Int
          BY <4>2, <5>1, HomeIs
        <5>3. p # q
          BY <1>1, <2>4, <5>2
        <5>. QED
          BY <5>1, <5>3
      <4>. QED
        BY <1>5, <4>1, <4>3
    <3>8. Done(p, turn, m) <=> turn # "son"
      BY <2>4 DEF Done
    <3>. QED
      BY <2>4, <3>5, <3>6, <3>7, <3>8
  <2>. QED
    BY <1>1, <1>4, <2>1, <2>2, <2>3, <2>4 DEF Turns
<1>. QED
  BY <1>2, <1>8, <1>12, <1>13, <1>14 DEF D

-----------------------------------------------------------------------------
\* The way back up from level m to level x.
LEMMA UpdateAndLeaveKeeps ==
  ASSUME NEW a \in Level, NEW tr \in Sub(a), NEW t \in a .. Depth, NEW x \in t .. Depth,
         NEW m \in Int, x <= m + 1, m <= Depth, Sound(tr, t),
         m < Depth => Dead(tr, m + 1), \A n \in x .. m : ~tr[n].need_push_down
  PROVE  LET new == UpdateAndLeave(tr, x, m)
         IN  /\ new \in Sub(a)
             /\ Sound(new, t)
             /\ Live(new, t) = Live(tr, t)
             /\ \A n \in a .. Depth : /\ new[n].valid = tr[n].valid
                                      /\ new[n].need_push_down <=> tr[n].need_push_down
                                      /\ n \notin x .. m => new[n] = tr[n]
             /\ \A n \in x .. m : Dead(new, n)
             /\ \A n \in t .. Depth : n \notin x .. m => (Dead(tr, n) <=> Dead(new, n))
<1>. DEFINE new == UpdateAndLeave(tr, x, m)
<1>1. a \in Nat /\ t \in Nat /\ Depth \in Nat /\ a <= t /\ t \in Level
  BY LevelsAreInt DEF Level
<1>2. new \in Sub(a)
  BY UpdateType
<1>3. ASSUME NEW n \in a .. Depth
      PROVE  /\ new[n].valid = tr[n].valid
             /\ new[n].need_push_down <=> tr[n].need_push_down
             /\ n \notin x .. m => new[n] = tr[n]
             /\ n \in x .. m => (new[n].tree_deleted <=>
                                   /\ \A k \in n .. m : tr[k].valid = {}
                                   /\ m < Depth => tr[m + 1].tree_deleted)
  <2>. DEFINE U == Update(tr, x, m)
              dead == /\ \A k \in n .. m : tr[k].valid = {}
                      /\ m < Depth => tr[m + 1].tree_deleted
  <2>1. /\ U[n].valid = tr[n].valid
        /\ U[n].need_push_down = tr[n].need_push_down
        /\ n \in x .. m => (U[n].tree_deleted <=> dead)
    BY UpdatedNodes
  <2>2. /\ new[n].valid = U[n].valid
        /\ new[n].need_push_down = U[n].need_push_down
        /\ new[n].tree_deleted = U[n].tree_deleted
        /\ n \notin x .. m => new[n] = tr[n]
    BY LeftNodes
  <2>. HIDE DEF U, new, dead
  <2>3. n \in x .. m => (new[n].tree_deleted <=> dead)
    BY <2>1, <2>2, Zenon
  <2>. QED
    BY <2>1, <2>2, <2>3, Zenon DEF dead
<1>. HIDE DEF new
<1>4. \A n \in t .. Depth : n \in a .. Depth
  BY <1>1
<1>5. /\ Live(new, t) = Live(tr, t)
      /\ \A n \in x .. m : Dead(new, n)
      /\ \A n \in t .. Depth : n \notin x .. m => (Dead(tr, n) <=> Dead(new, n))
      /\ (\A n \in x .. m : new[n].need_push_down => new[n].tree_deleted) => Sound(new, t)
  <2>1. \A n \in t .. Depth :
           /\ new[n].valid = tr[n].valid
           /\ new[n].need_push_down <=> tr[n].need_push_down
           /\ n \notin x .. m => new[n] = tr[n]
           /\ n \in x .. m => (new[n].tree_deleted <=>
                                 /\ \A k \in n .. m : tr[k].valid = {}
                                 /\ m < Depth => tr[m + 1].tree_deleted)
    BY <1>3, <1>4
  <2>. QED
    BY <1>1, <2>1, UpdateKeeps
<1>6. \A n \in x .. m : ~new[n].need_push_down
  <2>1. \A n \in x .. m : n \in a .. Depth
    BY <1>1
  <2>. QED
    BY <1>3, <2>1
<1>. QED
  BY <1>2, <1>3, <1>5, <1>6 DEF new

\* A whole operation on a subtree does to what lives there what it is to do.
LEMMA OperateDeepKeeps ==
  ASSUME NEW a \in Level, NEW t \in a .. Depth, NEW tr \in Sub(a),
         Sound(tr, t), \A n \in t .. Depth : Dead(tr, n),
         NEW o \in MainOp, Belongs(o, t)
  PROVE  LET new == OperateDeep(tr, t, o)
         IN  /\ new \in Sub(a)
             /\ \A n \in a .. t - 1 : new[n] = tr[n]
             /\ Sound(new, t)
             /\ \A n \in t .. Depth : Dead(new, n)
             /\ Live(new, t) = After(Live(tr, t), o)
<1>. DEFINE m == Min({n \in t .. Depth : TurnAt(tr, t, n, o) # "son"})
            turn == TurnAt(tr, t, m, o)
            down == Operated(tr, t, m, turn, o)
            end == IF turn = "update" THEN m ELSE m - 1
            new == UpdateAndLeave(down, t, end)
            A == After(Live(tr, t), o)
<1>1. a \in Nat /\ t \in Nat /\ Depth \in Nat /\ a <= t /\ t \in Level /\ t <= Depth
  BY LevelsAreInt DEF Level
<1>2. m \in t .. Depth /\ turn # "son" /\ \A n \in t .. m - 1 : TurnAt(tr, t, n, o) = "son"
  BY <1>1, LastIs
<1>3. OperateDeep(tr, t, o) = new
  BY Zenon DEF OperateDeep
<1>. HIDE DEF m
<1>4. Reaches(tr, t, m, turn, o) /\ turn \in Turns
  BY <1>2, TurnIs DEF Reaches, TurnAt
<1>. HIDE DEF turn
<1>5. down \in Sub(a)
  BY <1>2, <1>4, OperatedType, OpsAreOps
<1>6. /\ \A n \in a .. t - 1 : down[n] = tr[n]
      /\ Sound(down, t)
      /\ \A p \in Point : Home[p] >= t =>
           /\ Done(p, turn, m) => (p \in Live(down, t) <=> p \in A)
           /\ ~Done(p, turn, m) => (p \in Live(down, t) <=> p \in Live(tr, t))
      /\ \A n \in m + 1 .. Depth : Dead(down, n)
      /\ turn \in {"deleted", "outside", "covered"} => Dead(down, m)
      /\ \A n \in t .. m - 1 : ~down[n].need_push_down
      /\ turn \in {"outside", "son", "update"} => ~down[m].need_push_down
  BY <1>2, <1>4, OperatedKeeps
<1>. HIDE DEF down
<1>7. end \in Int /\ t <= end + 1 /\ end <= Depth /\ end \in {m, m - 1} /\ m \in Nat
  BY <1>1, <1>2
<1>8. end < Depth => Dead(down, end + 1)
  <2>1. CASE turn = "update"
    BY <1>1, <1>2, <1>6, <1>7, <2>1
  <2>2. CASE turn # "update"
    <3>1. end + 1 = m
      BY <1>7, <2>2
    <3>. QED
      BY <1>2, <1>4, <1>6, <2>2, <3>1 DEF Turns
  <2>. QED
    BY <2>1, <2>2
<1>9. \A n \in t .. end : ~down[n].need_push_down
  <2>1. \A n \in t .. end : n \in t .. m - 1 \/ (n = m /\ turn = "update")
    BY <1>1, <1>7
  <2>. QED
    BY <1>6, <2>1
<1>10. \A n \in m .. Depth : n \notin t .. end => Dead(down, n)
  <2>1. \A n \in m .. Depth : n = m \/ n \in m + 1 .. Depth
    BY <1>7
  <2>2. turn = "update" => m \in t .. end
    BY <1>2, <1>7
  <2>. QED
    BY <1>2, <1>4, <1>6, <2>1, <2>2 DEF Turns
<1>. HIDE DEF end
<1>11. t \in t .. Depth
  BY <1>1
<1>12. /\ new \in Sub(a)
       /\ Sound(new, t)
       /\ Live(new, t) = Live(down, t)
       /\ \A n \in a .. Depth : n \notin t .. end => new[n] = down[n]
       /\ \A n \in t .. end : Dead(new, n)
       /\ \A n \in t .. Depth : n \notin t .. end => (Dead(down, n) <=> Dead(new, n))
  BY <1>5, <1>6, <1>7, <1>8, <1>9, <1>11, UpdateAndLeaveKeeps
<1>. HIDE DEF new
<1>13. \A n \in a .. t - 1 : new[n] = tr[n]
  <2>1. \A n \in a .. t - 1 : n \in a .. Depth /\ n \notin t .. end
    BY <1>1, <1>7
  <2>. QED
    BY <1>6, <1>12, <2>1
<1>14. \A n \in t .. Depth : Dead(new, n)
  <2>1. \A n \in t .. Depth : n \in t .. end \/ n \in m .. Depth
    BY <1>1, <1>7
  <2>. QED
    BY <1>10, <1>12, <2>1
<1>15. Live(down, t) = A
  <2>1. \A p \in Live(down, t) : p \in Point /\ Home[p] >= t
    BY DEF Live
  <2>2. \A p \in A : p \in Point /\ Home[p] >= t
    <3>1. o.box \in SUBSET Point
      BY DEF MainOp, Asked, Operation
    <3>2. \A p \in Live(tr, t) : p \in Point /\ Home[p] >= t
      BY DEF Live
    <3>. QED
      BY <3>1, <3>2 DEF After, Belongs
  <2>3. \A p : Done(p, turn, m)
    BY <1>2 DEF Done
  <2>. QED
    BY <1>6, <2>1, <2>2, <2>3
<1>. QED
  BY <1>3, <1>12, <1>13, <1>14, <1>15

-----------------------------------------------------------------------------
(* What replaying does to the points of the new subtree. *)

\* A logged operation, on the points of the subtree.
Effect(points, o) == IF o.op = "PUSH_DOWN" THEN {} ELSE After(points, o)

\* The operations that are logged for a subtree from level t on.
Fit(t) == {o \in Asked : Belongs(o, t) /\ (o.op = "PUSH_DOWN" => o.tree_deleted)}

LEMMA EffectType ==
  \A points \in SUBSET Point : \A o \in Asked : Effect(points, o) \in SUBSET Point
BY AfterType, OpsAreOps DEF Effect

LEMMA run_operationKeeps ==
  ASSUME NEW t \in Level, NEW tr \in Sub(t), Sound(tr, t), \A n \in t .. Depth : Dead(tr, n),
         NEW o \in Fit(t)
  PROVE  LET new == run_operation(tr, t, o)
         IN  /\ new \in Sub(t)
             /\ Sound(new, t)
             /\ \A n \in t .. Depth : Dead(new, n)
             /\ Live(new, t) = Effect(Live(tr, t), o)
<1>. DEFINE new == run_operation(tr, t, o)
<1>1. t \in Nat /\ Depth \in Nat /\ t \in t .. Depth /\ o \in Asked /\ Belongs(o, t)
  BY LevelsAreInt DEF Level, Fit
<1>2. CASE o.op # "PUSH_DOWN"
  <2>1. o \in MainOp /\ new = OperateDeep(tr, t, o)
    BY <1>1, <1>2 DEF MainOp, run_operation
  <2>2. Effect(Live(tr, t), o) = After(Live(tr, t), o)
    BY <1>2 DEF Effect
  <2>. HIDE DEF new
  <2>. QED
    BY <1>1, <2>1, <2>2, OperateDeepKeeps DEF new
<1>3. CASE o.op = "PUSH_DOWN"
  <2>. DEFINE i == Inherit(tr[t], TRUE, t)
  <2>1. tr[t] \in Node
    BY <1>1 DEF Sub
  <2>2. o.tree_deleted = TRUE
    BY <1>1, <1>3 DEF Fit, Asked, Operation
  <2>3. new = [tr EXCEPT ![t] = i]
    BY <1>3, <2>2 DEF run_operation
  <2>4. i.valid = {} /\ i.tree_deleted /\ i \in Node
    BY <2>1, InheritDeath, Zenon
  <2>5. i.need_push_down <=> t < Depth
    BY <2>1, InheritDeath, Zenon
  <2>. HIDE DEF new, i
  <2>6. new \in Sub(t)
    BY <1>1, <2>3, <2>4 DEF Sub
  <2>7. new[t] = i /\ \A n \in t + 1 .. Depth : new[n] = tr[n]
    BY <1>1, <2>3 DEF Sub
  <2>8. Live(new, t) = {}
    BY <1>1, <2>4, <2>5, <2>7, NothingLives
  <2>9. \A n \in t .. Depth : n = t \/ n \in t + 1 .. Depth
    BY <1>1
  <2>10. Sound(new, t)
    BY <2>4, <2>5, <2>7, <2>9 DEF Sound
  <2>11. ASSUME NEW n \in t .. Depth PROVE Dead(new, n)
    <3>1. CASE n = t
      BY <2>8, <3>1 DEF Dead
    <3>2. CASE n # t
      <4>1. n \in Level /\ \A k \in n .. Depth : new[k] = tr[k]
        BY <1>1, <2>7, <3>2 DEF Level
      <4>2. Live(new, n) = Live(tr, n)
        BY <4>1, LiveSame
      <4>3. n \in n .. Depth
        BY <1>1
      <4>. QED
        BY <4>1, <4>2, <4>3 DEF Dead
    <3>. QED
      BY <3>1, <3>2
  <2>12. Effect(Live(tr, t), o) = {}
    BY <1>3 DEF Effect
  <2>. QED
    BY <2>6, <2>8, <2>10, <2>11, <2>12 DEF new
<1>. QED
  BY <1>2, <1>3

\* Operations, one after the other, make of the points a the points b.
Replays(a, ops, b) ==
  \E P \in [0 .. Len(ops) -> SUBSET Point] :
    /\ P[0] = a
    /\ P[Len(ops)] = b
    /\ \A i \in 1 .. Len(ops) : P[i] = Effect(P[i - 1], ops[i])

LEMMA ReplaysNothing ==
  \A a, b \in SUBSET Point : Replays(a, <<>>, b) <=> a = b
<1>. SUFFICES ASSUME NEW a \in SUBSET Point, NEW b \in SUBSET Point
              PROVE  Replays(a, <<>>, b) <=> a = b
  OBVIOUS
<1>1. Len(<<>>) = 0
  BY EmptySeq
<1>2. ASSUME a = b PROVE Replays(a, <<>>, b)
  <2>. DEFINE P == [i \in 0 .. 0 |-> a]
  <2>1. P \in [0 .. Len(<<>>) -> SUBSET Point] /\ P[0] = a /\ P[Len(<<>>)] = b
    BY <1>1, <1>2
  <2>2. \A i \in 1 .. Len(<<>>) : FALSE
    BY <1>1
  <2>. QED
    BY <2>1, <2>2 DEF Replays
<1>3. Replays(a, <<>>, b) => a = b
  BY <1>1 DEF Replays
<1>. QED
  BY <1>2, <1>3

LEMMA ReplaysOneMore ==
  ASSUME NEW a \in SUBSET Point, NEW b \in SUBSET Point, NEW s \in Seq(Asked), NEW o \in Asked,
         Replays(a, s, b)
  PROVE  Replays(a, Append(s, o), Effect(b, o))
<1>. DEFINE z == Append(s, o)
            l == Len(s)
            c == Effect(b, o)
<1>1. PICK P \in [0 .. l -> SUBSET Point] :
        P[0] = a /\ P[l] = b /\ \A i \in 1 .. l : P[i] = Effect(P[i - 1], s[i])
  BY DEF Replays
<1>2. /\ l \in Nat /\ Len(z) = l + 1 /\ z[l + 1] = o
      /\ \A i \in 1 .. l : z[i] = s[i]
  BY AppendProperties, LenProperties
<1>3. c \in SUBSET Point
  BY EffectType
<1>. HIDE DEF z, l, c
<1>. DEFINE Q == [i \in 0 .. l + 1 |-> IF i = l + 1 THEN c ELSE P[i]]
<1>4. Q \in [0 .. l + 1 -> SUBSET Point]
  <2>1. \A i \in 0 .. l + 1 : i = l + 1 \/ i \in 0 .. l
    BY <1>2
  <2>. QED
    BY <1>3, <2>1
<1>5. Q[0] = a /\ Q[l + 1] = c
  BY <1>1, <1>2
<1>6. ASSUME NEW i \in 1 .. l + 1 PROVE Q[i] = Effect(Q[i - 1], z[i])
  <2>1. CASE i = l + 1
    <3>1. i - 1 = l /\ Q[l] = P[l] /\ Q[i] = c /\ z[i] = o
      BY <1>2, <2>1
    <3>. QED
      BY <1>1, <3>1 DEF c
  <2>2. CASE i # l + 1
    <3>1. i \in 1 .. l
      BY <1>2, <2>2
    <3>2. Q[i] = P[i] /\ Q[i - 1] = P[i - 1]
      BY <1>2, <3>1
    <3>. QED
      BY <1>1, <1>2, <3>1, <3>2
  <2>. QED
    BY <2>1, <2>2
<1>. HIDE DEF Q
<1>7. Replays(a, z, c)
  BY <1>2, <1>4, <1>5, <1>6 DEF Replays
<1>. QED
  BY <1>7 DEF z, c

LEMMA ReplaysFirst ==
  ASSUME NEW a \in SUBSET Point, NEW b \in SUBSET Point, NEW s \in Seq(Asked), s # <<>>,
         Replays(a, s, b)
  PROVE  Replays(Effect(a, Head(s)), Tail(s), b)
<1>. DEFINE z == Tail(s)
            l == Len(s)
            o == Head(s)
<1>1. PICK P \in [0 .. l -> SUBSET Point] :
        P[0] = a /\ P[l] = b /\ \A i \in 1 .. l : P[i] = Effect(P[i - 1], s[i])
  BY DEF Replays
<1>2. /\ l \in Nat /\ l # 0 /\ Len(z) = l - 1 /\ o = s[1]
      /\ \A i \in 1 .. l - 1 : z[i] = s[i + 1]
  BY HeadTailProperties, EmptySeq, LenProperties
<1>. HIDE DEF z, l, o
<1>. DEFINE Q == [i \in 0 .. l - 1 |-> P[i + 1]]
<1>4. Q \in [0 .. l - 1 -> SUBSET Point]
  <2>1. \A i \in 0 .. l - 1 : i + 1 \in 0 .. l
    BY <1>2
  <2>. QED
    BY <2>1
<1>5. Q[0] = Effect(a, o) /\ Q[l - 1] = b
  <2>1. 1 \in 1 .. l /\ 1 - 1 = 0 /\ 0 \in 0 .. l - 1 /\ 0 + 1 = 1
        /\ l - 1 \in 0 .. l - 1 /\ (l - 1) + 1 = l
    BY <1>2
  <2>2. P[1] = Effect(P[1 - 1], s[1])
    BY <1>1, <2>1
  <2>3. Q[0] = P[1] /\ Q[l - 1] = P[l]
    BY <2>1
  <2>. QED
    BY <1>1, <1>2, <2>1, <2>2, <2>3
<1>6. ASSUME NEW i \in 1 .. l - 1 PROVE Q[i] = Effect(Q[i - 1], z[i])
  <2>1. /\ i \in 0 .. l - 1 /\ i - 1 \in 0 .. l - 1 /\ i + 1 \in 1 .. l
        /\ (i + 1) - 1 = i /\ (i - 1) + 1 = i
    BY <1>2
  <2>2. Q[i] = P[i + 1] /\ Q[i - 1] = P[i]
    BY <2>1
  <2>3. P[i + 1] = Effect(P[i], s[i + 1])
    BY <1>1, <2>1
  <2>. QED
    BY <1>2, <2>2, <2>3
<1>. HIDE DEF Q
<1>7. Replays(Effect(a, o), z, b)
  BY <1>2, <1>4, <1>5, <1>6 DEF Replays
<1>. QED
  BY <1>7 DEF z, o

-----------------------------------------------------------------------------
\* The first operation that is left, where it has been and where it has not.
Partly(points, o, l) ==
  {q \in Point : IF Home[q] < l THEN q \in After(points, o) ELSE q \in points}

\* A tree is what is above level t, where nothing is owed, and what is below.
LEMMA WholeTree ==
  ASSUME NEW t \in Level, NEW tr, Sound(tr, 0), NEW new, Sound(new, t),
         \A n \in 0 .. t - 1 : new[n] = tr[n] /\ ~tr[n].need_push_down
  PROVE  /\ Sound(new, 0)
         /\ \A p \in Point :
              /\ Home[p] >= t => /\ p \in Live(new, 0) <=> p \in Live(new, t)
                                 /\ p \in Live(tr, 0) <=> p \in Live(tr, t)
              /\ Home[p] < t => (p \in Live(new, 0) <=> p \in Live(tr, 0))
<1>1. t \in Nat /\ Depth \in Nat /\ t \in 0 .. Depth /\ 0 \in Level
  BY LevelsAreInt DEF Level
<1>2. \A n \in 0 .. Depth : n \in 0 .. t - 1 \/ n \in t .. Depth
  BY <1>1
<1>3. Sound(new, 0)
  BY <1>2 DEF Sound
<1>4. Clear(new, 0, t) /\ Clear(tr, 0, t)
  BY DEF Clear
<1>5. ASSUME NEW p \in Point, Home[p] < t PROVE p \in Live(new, 0) <=> p \in Live(tr, 0)
  <2>1. Home[p] \in 0 .. t - 1
    BY <1>1, <1>5, HomeIs
  <2>2. \A m \in 0 .. Home[p] - 1 : m \in 0 .. t - 1
    BY <1>1, <2>1
  <2>. QED
    BY <2>1, <2>2 DEF Live, Clear
<1>6. ASSUME NEW p \in Point, Home[p] >= t
      PROVE  /\ p \in Live(new, 0) <=> p \in Live(new, t)
             /\ p \in Live(tr, 0) <=> p \in Live(tr, t)
  BY <1>1, <1>4, <1>6, LiveFrom
<1>. QED
  BY <1>3, <1>5, <1>6

\* All the operations that are done under the lock.
LEMMA OperateAllKeeps ==
  ASSUME NEW t \in Level, NEW tr \in Sub(0), Sound(tr, t), \A n \in t .. Depth : Dead(tr, n),
         NEW s \in Seq(MainOp), s # <<>>, Len(s) <= 2, \A i \in 1 .. Len(s) : Belongs(s[i], t)
  PROVE  LET new == OperateAll(tr, t, s)
         IN  /\ new \in Sub(0)
             /\ \A n \in 0 .. t - 1 : new[n] = tr[n]
             /\ Sound(new, t)
             /\ \A n \in t .. Depth : Dead(new, n)
             /\ Live(new, t) = AfterAll(Live(tr, t), s)
<1>. DEFINE x == s[1]
            y == s[2]
            one == OperateDeep(tr, t, x)
            two == OperateDeep(one, t, y)
<1>1. x \in MainOp /\ Len(s) \in {1, 2} /\ 0 \in Level /\ t \in 0 .. Depth /\ Belongs(x, t)
  <2>1. x \in MainOp /\ Len(s) \in {1, 2} /\ 0 \in Level /\ t \in 0 .. Depth
    BY ShortSeq, LevelsAreInt DEF Level
  <2>2. 1 \in 1 .. Len(s)
    BY <2>1
  <2>. QED
    BY <2>1, <2>2
<1>2. /\ one \in Sub(0)
      /\ \A n \in 0 .. t - 1 : one[n] = tr[n]
      /\ Sound(one, t)
      /\ \A n \in t .. Depth : Dead(one, n)
      /\ Live(one, t) = After(Live(tr, t), x)
  <2>. HIDE DEF x
  <2>. QED
    BY <1>1, OperateDeepKeeps
<1>3. CASE Len(s) = 1
  <2>1. s = <<x>>
    BY <1>3, ShortSeq
  <2>. HIDE DEF x
  <2>2. OperateAll(tr, t, <<x>>) = OperateDeep(tr, t, x)
    BY OperateOne
  <2>3. AfterAll(Live(tr, t), <<x>>) = After(Live(tr, t), x)
    BY AfterOne
  <2>. QED
    BY <1>2, <2>1, <2>2, <2>3
<1>4. CASE Len(s) = 2
  <2>1. s = <<x, y>> /\ y \in MainOp
    BY <1>4, ShortSeq
  <2>2. Belongs(y, t)
    BY <1>4
  <2>. HIDE DEF x, y, one
  <2>3. OperateAll(tr, t, <<x, y>>) = two
    BY OperateTwo DEF one
  <2>4. AfterAll(Live(tr, t), <<x, y>>) = After(After(Live(tr, t), x), y)
    BY AfterTwo
  <2>5. /\ two \in Sub(0)
        /\ \A n \in 0 .. t - 1 : two[n] = one[n]
        /\ Sound(two, t)
        /\ \A n \in t .. Depth : Dead(two, n)
        /\ Live(two, t) = After(Live(one, t), y)
    BY <1>1, <1>2, <2>1, <2>2, OperateDeepKeeps
  <2>. HIDE DEF two
  <2>. QED
    BY <1>2, <2>1, <2>3, <2>4, <2>5
<1>. QED
  BY <1>1, <1>3, <1>4

LEMMA ConcatTwo ==
  ASSUME NEW s \in Seq(Asked), NEW x \in Asked, NEW y \in Asked
  PROVE  s \o <<x>> = Append(s, x) /\ s \o <<x, y>> = Append(Append(s, x), y)
<1>. DEFINE u == <<x>>
            v == <<y>>
            w == <<x, y>>
            a == Append(s, x)
<1>1. /\ u \in Seq(Asked) /\ v \in Seq(Asked) /\ w \in Seq(Asked) /\ a \in Seq(Asked)
      /\ Len(u) = 1 /\ u[1] = x /\ Len(w) = 2 /\ w[1] = x /\ w[2] = y
  BY AppendProperties
<1>2. s \o u = a
  BY AppendIsConcat
<1>. DEFINE b == Append(a, y)
<1>. HIDE DEF u, v, a, w
<1>3. /\ b \in Seq(Asked) /\ Len(b) = Len(a) + 1 /\ b[Len(a) + 1] = y
      /\ \A i \in 1 .. Len(a) : b[i] = a[i]
  BY <1>1, AppendProperties
<1>. DEFINE c == s \o w
<1>. HIDE DEF b
<1>4. /\ Len(s) \in Nat /\ c \in Seq(Asked) /\ Len(c) = Len(s) + 2
      /\ \A i \in 1 .. Len(s) + 2 : c[i] = IF i <= Len(s) THEN s[i] ELSE w[i - Len(s)]
  <2>1. Len(s) \in Nat /\ Len(w) = 2
    BY <1>1, LenProperties
  <2>2. /\ c \in Seq(Asked) /\ Len(c) = Len(s) + Len(w)
        /\ \A i \in 1 .. Len(s) + Len(w) : c[i] = IF i <= Len(s) THEN s[i] ELSE w[i - Len(s)]
    BY <1>1, ConcatProperties
  <2>. HIDE DEF c
  <2>. QED
    BY <2>1, <2>2
<1>5. /\ Len(a) = Len(s) + 1 /\ a[Len(s) + 1] = x
      /\ \A i \in 1 .. Len(s) : a[i] = s[i]
  BY AppendProperties DEF a
<1>6. c = b
  <2>. HIDE DEF c
  <2>1. Len(c) = Len(b)
    BY <1>3, <1>4, <1>5
  <2>2. ASSUME NEW i \in 1 .. Len(c) PROVE c[i] = b[i]
    <3>1. CASE i <= Len(s)
      <4>1. i \in 1 .. Len(s) /\ i \in 1 .. Len(a) /\ i \in 1 .. Len(s) + 2
        BY <1>4, <1>5, <3>1
      <4>. QED
        BY <1>3, <1>4, <1>5, <4>1, <3>1
    <3>2. CASE i = Len(s) + 1
      <4>1. i \in 1 .. Len(a) /\ i \in 1 .. Len(s) + 2 /\ ~(i <= Len(s)) /\ i - Len(s) = 1
        BY <1>4, <1>5, <3>2
      <4>2. c[i] = w[1]
        BY <1>4, <4>1
      <4>. QED
        BY <1>1, <1>3, <1>5, <3>2, <4>1, <4>2
    <3>3. CASE i = Len(s) + 2
      <4>1. i = Len(a) + 1 /\ i \in 1 .. Len(s) + 2 /\ ~(i <= Len(s)) /\ i - Len(s) = 2
        BY <1>4, <1>5, <3>3
      <4>2. c[i] = w[2]
        BY <1>4, <4>1
      <4>. QED
        BY <1>1, <1>3, <4>1, <4>2
    <3>. QED
      BY <1>4, <3>1, <3>2, <3>3
  <2>. QED
    BY <1>3, <1>4, <2>1, <2>2, SeqEqual
<1>. QED
  BY <1>2, <1>6 DEF u, a, b, c, w

\* What is logged under the lock, after what has been logged before.
LEMMA ReplaysLocked ==
  ASSUME NEW a \in SUBSET Point, NEW b \in SUBSET Point, NEW s \in Seq(Asked),
         Replays(a, s, b), NEW ops \in Seq(MainOp), ops # <<>>, Len(ops) <= 2
  PROVE  Replays(a, s \o ops, AfterAll(b, ops))
<1>. DEFINE x == ops[1]
            y == ops[2]
<1>1. x \in MainOp /\ x \in Asked /\ Len(ops) \in {1, 2}
  BY ShortSeq, OpsAreOps
<1>2. \A o \in MainOp : \A c : Effect(c, o) = After(c, o)
  BY DEF MainOp, Effect
<1>3. /\ Append(s, x) \in Seq(Asked)
      /\ Replays(a, Append(s, x), After(b, x))
      /\ After(b, x) \in SUBSET Point
  <2>. HIDE DEF x
  <2>1. Replays(a, Append(s, x), Effect(b, x)) /\ Append(s, x) \in Seq(Asked)
    BY <1>1, ReplaysOneMore, AppendProperties
  <2>2. After(b, x) \in SUBSET Point
    BY <1>1, AfterType, OpsAreOps
  <2>. QED
    BY <1>1, <1>2, <2>1, <2>2
<1>4. CASE Len(ops) = 1
  <2>1. ops = <<x>>
    BY <1>4, ShortSeq
  <2>. HIDE DEF x
  <2>2. AfterAll(b, <<x>>) = After(b, x)
    BY AfterOne
  <2>3. s \o <<x>> = Append(s, x)
    BY <1>1, ConcatTwo
  <2>. QED
    BY <1>3, <2>1, <2>2, <2>3
<1>5. CASE Len(ops) = 2
  <2>1. ops = <<x, y>> /\ y \in MainOp /\ y \in Asked
    BY <1>5, ShortSeq, OpsAreOps
  <2>. HIDE DEF x, y
  <2>2. AfterAll(b, <<x, y>>) = After(After(b, x), y)
    BY AfterTwo
  <2>3. s \o <<x, y>> = Append(Append(s, x), y)
    BY <1>1, <2>1, ConcatTwo
  <2>4. Replays(a, Append(Append(s, x), y), Effect(After(b, x), y))
    BY <1>3, <2>1, ReplaysOneMore
  <2>. QED
    BY <1>2, <2>1, <2>2, <2>3, <2>4
<1>. QED
  BY <1>1, <1>4, <1>5

-----------------------------------------------------------------------------
(* The map, the copy and the log, as long as no rebuild has fallen into a gap. *)

\* Between two operations, or before the first.
Waiting == {"rest", "search", "test", "range", "ranging"}

\* Where the rebuild thread holds the mutex of the operations.
Held == {"lock copy", "copy", "lock swap", "swap", "unlock"}

\* The nodes of the path above this one have pushed their marks down and wait
\* for their update.
Path == IF mpc \in {"down", "lock", "log"} THEN level
        ELSE IF mpc = "up" THEN level + 1 ELSE 0

LocksOK ==
  /\ working_flag_mutex = "main" <=> mpc = "log"
  /\ working_flag_mutex = "rebuild" <=> rpc \in Held
  /\ rebuild_flag <=> rpc \notin {"idle", "free"}
  /\ mpc \in {"lock", "log"} => Rebuild_Ptr \in {level, None}
  /\ rpc \in Held => Rebuild_Logger = <<>>

TreeOK ==
  /\ Sound(tree, 0)
  /\ \A n \in Level : n >= Path => Dead(tree, n)
  /\ \A n \in Level : n < Path => ~tree[n].need_push_down

FreshOK ==
  Replaying => /\ Sound(fresh, Rebuild_Ptr)
               /\ \A n \in Rebuild_Ptr .. Depth : Dead(fresh, n)

\* An operation that was inside the subtree when it was copied delays the replay.
InsideOK ==
  Replaying /\ mpc \in {"down", "up"} /\ level >= Rebuild_Ptr =>
    /\ Rebuild_Logger = <<>>
    /\ rpc # "replay"
    /\ \A n \in Rebuild_Ptr .. Depth : ~fresh[n].need_push_down

AddsBelow == mpc \in {"down", "lock", "log"} => Belongs(Head(todo), level)

LogOK ==
  Replaying => /\ Rebuild_Logger \in Seq(Fit(Rebuild_Ptr))
               /\ rpc = "replay" => job \in Fit(Rebuild_Ptr)

ContentOK ==
  /\ mpc \in Waiting => Live(tree, 0) = asked
  /\ mpc \in {"down", "lock"} => Live(tree, 0) = Partly(asked, Head(todo), level)
  /\ mpc = "up" \/ (mpc = "log" /\ level # 0) => Live(tree, 0) = After(asked, Head(todo))
  /\ mpc = "log" /\ level = 0 => Live(tree, 0) = AfterAll(asked, todo)

\* What the new subtree holds when the operation at hand is replayed, and what
\* is logged or is about to be.
Copied == IF rpc = "replay" THEN Effect(Live(fresh, Rebuild_Ptr), job) ELSE Live(fresh, Rebuild_Ptr)
Logged == IF mpc = "log" THEN Rebuild_Logger \o Locked ELSE Rebuild_Logger

\* The log leads from the new subtree to the old one.
RebuildOK == Replaying => Replays(Copied, Logged, Live(tree, Rebuild_Ptr))

MapOK ==
  /\ LocksOK /\ TreeOK /\ FreshOK /\ InsideOK
  /\ AddsBelow /\ LogOK /\ ContentOK /\ RebuildOK

\* The same after a step.
LEMMA TreePrimed ==
  /\ TreeOK' <=> /\ Sound(tree', 0)
                 /\ \A n \in Level : n >= Path' => Dead(tree', n)
                 /\ \A n \in Level : n < Path' => ~tree'[n].need_push_down
  /\ Path' = IF mpc' \in {"down", "lock", "log"} THEN level'
             ELSE IF mpc' = "up" THEN level' + 1 ELSE 0
BY DEF TreeOK, Path, Sound, Dead, Live, Clear

LEMMA FreshPrimed ==
  /\ Replaying' <=> rpc' \in {"drain", "replay", "lock swap", "swap"}
  /\ FreshOK' <=> (Replaying' => /\ Sound(fresh', Rebuild_Ptr')
                                 /\ \A n \in Rebuild_Ptr' .. Depth : Dead(fresh', n))
BY DEF FreshOK, Replaying, Sound, Dead, Live, Clear

LEMMA LogPrimed ==
  /\ AddsBelow' <=> (mpc' \in {"down", "lock", "log"} => Belongs(Head(todo'), level'))
  /\ LogOK' <=> (Replaying' => /\ Rebuild_Logger' \in Seq(Fit(Rebuild_Ptr'))
                               /\ rpc' = "replay" => job' \in Fit(Rebuild_Ptr'))
BY DEF AddsBelow, LogOK, Fit, Belongs

LEMMA ContentPrimed ==
  ContentOK' <=>
    /\ mpc' \in Waiting => Live(tree', 0) = asked'
    /\ mpc' \in {"down", "lock"} => Live(tree', 0) = Partly(asked', Head(todo'), level')
    /\ mpc' = "up" \/ (mpc' = "log" /\ level' # 0) => Live(tree', 0) = After(asked', Head(todo'))
    /\ mpc' = "log" /\ level' = 0 => Live(tree', 0) = AfterAll(asked', todo')
<1>1. Live(tree, 0)' = Live(tree', 0)
  BY DEF Live, Clear
<1>2. Partly(asked, Head(todo), level)' = Partly(asked', Head(todo'), level')
  BY DEF Partly, After
<1>3. After(asked, Head(todo))' = After(asked', Head(todo'))
  BY DEF After
<1>4. AfterAll(asked, todo)' = AfterAll(asked', todo')
  BY Zenon DEF AfterAll, FoldLeft, MapThenFoldSet
<1>. QED
  BY <1>1, <1>2, <1>3, <1>4 DEF ContentOK, Waiting

LEMMA RebuildPrimed ==
  /\ RebuildOK' <=> (Replaying' => Replays(Copied', Logged', Live(tree', Rebuild_Ptr')))
  /\ Copied' = IF rpc' = "replay" THEN Effect(Live(fresh', Rebuild_Ptr'), job')
               ELSE Live(fresh', Rebuild_Ptr')
  /\ Logged' = IF mpc' = "log" THEN Rebuild_Logger' \o Locked' ELSE Rebuild_Logger'
  /\ Locked' = IF level' = 0 THEN todo' ELSE <<Head(todo')>>
BY DEF RebuildOK, Copied, Logged, Locked, Replays, Live, Clear, Effect, After

-----------------------------------------------------------------------------
(* What a step does not touch. *)

LEMMA FreshKept ==
  ASSUME FreshOK, UNCHANGED <<fresh, Rebuild_Ptr>>, Replaying' => Replaying
  PROVE  FreshOK'
BY FreshPrimed DEF FreshOK

LEMMA LogKept ==
  ASSUME LogOK, UNCHANGED <<Rebuild_Logger, Rebuild_Ptr, job>>, Replaying' => Replaying,
         rpc' = "replay" => rpc = "replay"
  PROVE  LogOK'
BY LogPrimed DEF LogOK

LEMMA InsideKept ==
  ASSUME InsideOK, UNCHANGED <<Rebuild_Logger, Rebuild_Ptr, fresh>>, Replaying' => Replaying,
         rpc' = "replay" => rpc = "replay",
         Replaying' /\ mpc' \in {"down", "up"} /\ level' >= Rebuild_Ptr =>
           mpc \in {"down", "up"} /\ level >= Rebuild_Ptr
  PROVE  InsideOK'
BY DEF InsideOK

\* Steps that leave the tree alone and are not about what is logged.
LEMMA RebuildKept ==
  ASSUME RebuildOK, UNCHANGED <<Rebuild_Logger, Rebuild_Ptr, job, fresh>>,
         Replaying' => Replaying, Replaying' => (rpc' = "replay" <=> rpc = "replay"),
         Replaying' => Live(tree', Rebuild_Ptr) = Live(tree, Rebuild_Ptr),
         mpc' # "log", mpc # "log"
  PROVE  RebuildOK'
<1>. SUFFICES ASSUME Replaying' PROVE Replays(Copied', Logged', Live(tree', Rebuild_Ptr'))
  BY RebuildPrimed
<1>1. Replays(Copied, Logged, Live(tree, Rebuild_Ptr))
  BY DEF RebuildOK
<1>2. Copied' = Copied
  BY RebuildPrimed DEF Copied
<1>3. Logged' = Logged
  BY RebuildPrimed DEF Logged
<1>4. Live(tree', Rebuild_Ptr') = Live(tree, Rebuild_Ptr)
  OBVIOUS
<1>. QED
  BY <1>1, <1>2, <1>3, <1>4

\* A step that changes nothing the map depends on.
LEMMA MapSame ==
  ASSUME MapOK, UNCHANGED <<theTree, working_flag_mutex, rebuilding, mpc, todo, level, asked>>
  PROVE  MapOK'
<1>1. UNCHANGED <<tree, Rebuild_Ptr, rebuild_flag, Rebuild_Logger, working_flag_mutex,
                  rpc, fresh, job, mpc, todo, level, asked>>
  BY DEF theTree, rebuilding
<1>2. LocksOK' /\ InsideOK'
  BY <1>1 DEF MapOK, LocksOK, InsideOK, Replaying, Held
<1>3. TreeOK'
  BY <1>1, TreePrimed DEF MapOK, TreeOK, Path
<1>4. FreshOK' /\ LogOK'
  BY <1>1, FreshKept, LogKept DEF MapOK, Replaying
<1>5. AddsBelow' /\ ContentOK'
  BY <1>1, LogPrimed, ContentPrimed DEF MapOK, AddsBelow, ContentOK
<1>6. Locked' = Locked /\ Copied' = Copied /\ Logged' = Logged /\ Replaying' = Replaying
  BY <1>1, RebuildPrimed DEF Locked, Copied, Logged, Replaying
<1>7. RebuildOK'
  BY <1>1, <1>6, RebuildPrimed DEF MapOK, RebuildOK
<1>. QED
  BY <1>2, <1>3, <1>4, <1>5, <1>7 DEF MapOK

\* The main thread between two operations.
LEMMA MapWaits ==
  ASSUME MapOK, mpc \in Waiting, mpc' \in Waiting,
         UNCHANGED <<theTree, working_flag_mutex, rebuilding, asked>>
  PROVE  MapOK'
<1>1. UNCHANGED <<tree, Rebuild_Ptr, rebuild_flag, Rebuild_Logger, working_flag_mutex,
                  rpc, fresh, job, asked>>
  BY DEF theTree, rebuilding
<1>2. /\ mpc \notin {"down", "lock", "log", "up"} /\ mpc' \notin {"down", "lock", "log", "up"}
      /\ Replaying' = Replaying
  BY <1>1 DEF Waiting, Replaying
<1>3. LocksOK' /\ InsideOK'
  BY <1>1, <1>2 DEF MapOK, LocksOK, InsideOK, Held
<1>4. TreeOK'
  BY <1>1, <1>2, TreePrimed DEF MapOK, TreeOK, Path
<1>5. FreshOK' /\ LogOK'
  BY <1>1, <1>2, FreshKept, LogKept DEF MapOK
<1>6. AddsBelow' /\ ContentOK'
  BY <1>1, <1>2, LogPrimed, ContentPrimed DEF MapOK, ContentOK
<1>7. RebuildOK'
  BY <1>1, <1>2, RebuildKept DEF MapOK
<1>. QED
  BY <1>3, <1>4, <1>5, <1>6, <1>7 DEF MapOK

LEMMA InitMapOK == Init => MapOK
<1>. SUFFICES ASSUME Init PROVE MapOK
  OBVIOUS
<1>1. Initial \in SUBSET Point /\ \A p \in Initial : Home[p] >= 0
  BY IkdAssumption, HomeIs DEF IkdAssumption
<1>2. 0 \in Level /\ Level = 0 .. Depth
  BY LevelsAreInt DEF Level
<1>3. /\ Sound(tree, 0) /\ Live(tree, 0) = Initial
      /\ \A n \in Level : ~tree[n].need_push_down /\ Dead(tree, n)
  BY <1>1, <1>2, BuiltKeeps DEF Init
<1>4. ~Replaying /\ mpc = "rest" /\ level = 0
  BY DEF Init, Replaying
<1>5. TreeOK
  BY <1>3 DEF TreeOK
<1>6. LocksOK
  BY DEF Init, LocksOK, Held
<1>7. ContentOK
  BY <1>3, <1>4 DEF Init, ContentOK
<1>8. FreshOK /\ InsideOK /\ AddsBelow /\ LogOK /\ RebuildOK
  BY <1>4 DEF FreshOK, InsideOK, AddsBelow, LogOK, RebuildOK
<1>. QED
  BY <1>5, <1>6, <1>7, <1>8 DEF MapOK

-----------------------------------------------------------------------------
LEMMA NothingAbove ==
  \A points \in SUBSET Point : \A o : Partly(points, o, 0) = points
<1>. SUFFICES ASSUME NEW points \in SUBSET Point, NEW o PROVE Partly(points, o, 0) = points
  OBVIOUS
<1>1. \A p \in Point : ~(Home[p] < 0)
  BY HomeIs
<1>. QED
  BY <1>1 DEF Partly

LEMMA EverythingBelongs == \A o \in MainOp : Belongs(o, 0)
<1>1. \A o \in MainOp : \A p \in o.box : p \in Point
  BY OpsAreOps DEF Operation
<1>2. \A p \in Point : Home[p] >= 0
  BY HomeIs
<1>. QED
  BY <1>1, <1>2 DEF Belongs

LEMMA TestRootKeepsMap == Types /\ MapOK /\ TestRoot => MapOK'
<1>. SUFFICES ASSUME Types, MapOK, TestRoot PROVE MapOK'
  OBVIOUS
<1>1. /\ mpc = "test" /\ level' = 0
      /\ mpc' = IF Rebuild_Ptr = 0 THEN "lock" ELSE "down"
      /\ UNCHANGED <<tree, Rebuild_Ptr, rebuild_flag, Rebuild_Logger, working_flag_mutex,
                     rpc, fresh, job, todo, asked>>
  BY DEF TestRoot, theTree, locks, rebuilding
<1>2. mpc' \in {"lock", "down"} /\ Replaying' = Replaying /\ Path = 0 /\ Path' = 0
  BY <1>1, TreePrimed DEF Replaying, Path
<1>3. /\ todo # <<>> /\ todo \in Seq(MainOp) /\ Len(todo) <= 2 /\ asked \in SUBSET Point
      /\ Head(todo) \in MainOp
  BY <1>1, ShortSeq DEF Types, CallTypes
<1>4. LocksOK'
  BY <1>1, <1>2 DEF MapOK, LocksOK, Held
<1>5. TreeOK'
  BY <1>1, <1>2, TreePrimed DEF MapOK, TreeOK
<1>6. FreshOK' /\ LogOK'
  BY <1>1, <1>2, FreshKept, LogKept DEF MapOK
<1>7. InsideOK'
  <2>1. Rebuild_Ptr \in Nat
    BY LevelsAreInt DEF Types, MapTypes, None
  <2>2. mpc' = "down" => ~(level' >= Rebuild_Ptr)
    BY <1>1, <2>1
  <2>. QED
    BY <1>1, <1>2, <2>2 DEF InsideOK
<1>8. AddsBelow'
  BY <1>1, <1>3, EverythingBelongs, LogPrimed
<1>9. ContentOK'
  <2>1. Live(tree, 0) = asked
    BY <1>1 DEF MapOK, ContentOK, Waiting
  <2>2. Partly(asked, Head(todo), 0) = asked
    BY <1>3, NothingAbove
  <2>. QED
    BY <1>1, <1>2, <2>1, <2>2, ContentPrimed DEF Waiting
<1>10. RebuildOK'
  BY <1>1, <1>2, RebuildKept DEF MapOK
<1>. QED
  BY <1>4, <1>5, <1>6, <1>7, <1>8, <1>9, <1>10 DEF MapOK

-----------------------------------------------------------------------------
(* The marks that are pushed down. *)

\* The nodes of a tree but for who is at them.
LEMMA SameNodes ==
  ASSUME NEW tr, NEW new,
         \A n \in Level : /\ new[n].valid = tr[n].valid
                          /\ new[n].tree_deleted <=> tr[n].tree_deleted
                          /\ new[n].need_push_down <=> tr[n].need_push_down
  PROVE  /\ \A n \in Level : Live(new, n) = Live(tr, n) /\ (Dead(new, n) <=> Dead(tr, n))
         /\ Sound(new, 0) <=> Sound(tr, 0)
<1>1. ASSUME NEW n \in Level PROVE Live(new, n) = Live(tr, n) /\ (Dead(new, n) <=> Dead(tr, n))
  <2>1. \A k \in n .. Depth : k \in Level
    BY LevelsAreInt DEF Level
  <2>2. Live(new, n) = Live(tr, n)
    BY <2>1, LiveSame
  <2>. QED
    BY <2>2 DEF Dead
<1>2. Sound(new, 0) <=> Sound(tr, 0)
  BY DEF Sound, Level
<1>. QED
  BY <1>1, <1>2

LEMMA PushDownKeepsMap ==
  ASSUME Types, MapOK, mpc # "log", NEW tr \in Sub(0),
         \A n \in Level : /\ tr[n].valid = tree[n].valid
                          /\ tr[n].tree_deleted <=> tree[n].tree_deleted
                          /\ tr[n].need_push_down <=> tree[n].need_push_down,
         NEW n \in Level, n < Depth, tr[n].need_push_down, n >= Path,
         mpc \in {"down", "up"} /\ level >= Rebuild_Ptr => Rebuild_Ptr # n + 1,
         PushDown(tr, n),
         UNCHANGED <<Rebuild_Ptr, rebuild_flag, working_flag_mutex, rpc, fresh, job,
                     mpc, todo, level, asked>>
  PROVE  MapOK'
<1>1. /\ tree' = Push_Down(tr, n)
      /\ Rebuild_Ptr # n + 1 => Rebuild_Logger' = Rebuild_Logger
      /\ Rebuild_Ptr = n + 1 =>
           /\ working_flag_mutex = "free"
           /\ rebuild_flag => Rebuild_Logger'
                = Append(Rebuild_Logger, [op |-> "PUSH_DOWN", box |-> {},
                                          tree_deleted |-> tr[n].tree_deleted])
           /\ ~rebuild_flag => Rebuild_Logger' = Rebuild_Logger
  BY DEF PushDown
<1>2. /\ 0 \in Level /\ 0 \in 0 .. Depth /\ n \in 0 .. Depth /\ n \in Nat /\ Depth \in Nat
      /\ n + 1 \in Level
  BY LevelsAreInt DEF Level
<1>3. /\ Sound(tr, 0)
      /\ \A k \in Level : Live(tr, k) = Live(tree, k) /\ (Dead(tr, k) <=> Dead(tree, k))
  BY SameNodes DEF MapOK, TreeOK
<1>4. /\ Sound(tree', 0)
      /\ \A k \in 0 .. n : Live(tree', k) = Live(tr, k)
      /\ Live(tree', n + 1) = {}
      /\ \A k \in 0 .. Depth : Dead(tr, k) => Dead(tree', k)
  BY <1>1, <1>2, <1>3, PushDownKeeps
<1>5. /\ \A k \in 0 .. Depth : k \notin {n, n + 1} => tree'[k] = tr[k]
      /\ ~tree'[n].need_push_down
  BY <1>1, <1>2, PushedNodes
<1>6. /\ Replaying' = Replaying /\ Path' = Path
  BY TreePrimed DEF Replaying, Path
<1>7. Path \in Nat
  BY LevelsAreInt DEF Types, CallTypes, Path
<1>8. TreeOK'
  <2>1. \A k \in Level : k < Path => k \notin {n, n + 1} /\ k \in 0 .. Depth
    BY <1>2, <1>7 DEF Level
  <2>2. \A k \in Level : k < Path => ~tree'[k].need_push_down
    BY <1>5, <2>1 DEF MapOK, TreeOK
  <2>3. \A k \in Level : k >= Path => Dead(tree', k)
    BY <1>3, <1>4 DEF MapOK, TreeOK, Level
  <2>. QED
    BY <1>4, <1>6, <2>2, <2>3, TreePrimed
<1>9. Live(tree', 0) = Live(tree, 0)
  BY <1>2, <1>3, <1>4
<1>10. ContentOK' /\ AddsBelow'
  BY <1>9, ContentPrimed, LogPrimed DEF MapOK, ContentOK, AddsBelow
<1>11. FreshOK'
  BY <1>6, FreshKept DEF MapOK
<1>12. tr[n].tree_deleted = TRUE
  <2>1. tr[n] \in Node
    BY <1>2 DEF Sub
  <2>2. tr[n].tree_deleted
    BY <1>2, <1>3 DEF Sound
  <2>. QED
    BY <2>1, <2>2, NodeFields, Zenon
<1>13. CASE Rebuild_Ptr # n + 1
  <2>1. Rebuild_Logger' = Rebuild_Logger
    BY <1>1, <1>13
  <2>2. LocksOK'
    BY <2>1 DEF MapOK, LocksOK, Held
  <2>3. LogOK' /\ InsideOK'
    BY <1>6, <2>1, LogKept, InsideKept DEF MapOK
  <2>4. Replaying => Live(tree', Rebuild_Ptr) = Live(tree, Rebuild_Ptr)
    <3>. SUFFICES ASSUME Replaying PROVE Live(tree', Rebuild_Ptr) = Live(tree, Rebuild_Ptr)
      OBVIOUS
    <3>1. Rebuild_Ptr \in Nat /\ Rebuild_Ptr <= Depth + 1
      BY LevelsAreInt DEF Types, MapTypes, None, Level
    <3>2. CASE Rebuild_Ptr <= n
      BY <1>2, <1>3, <1>4, <3>1, <3>2 DEF Level
    <3>3. CASE Rebuild_Ptr > n + 1 /\ Rebuild_Ptr <= Depth
      <4>1. Rebuild_Ptr \in Level /\ \A k \in Rebuild_Ptr .. Depth : k \in 0 .. Depth /\ k \notin {n, n + 1}
        BY <1>2, <3>1, <3>3 DEF Level
      <4>2. \A k \in Rebuild_Ptr .. Depth : tree'[k] = tr[k]
        BY <1>5, <4>1
      <4>3. Live(tree', Rebuild_Ptr) = Live(tr, Rebuild_Ptr)
        BY <4>1, <4>2, LiveSame
      <4>. QED
        BY <1>3, <4>1, <4>3
    <3>4. CASE Rebuild_Ptr = Depth + 1
      <4>1. \A p \in Point : ~(Home[p] >= Rebuild_Ptr)
        BY <1>2, <3>4, HomeIs
      <4>. QED
        BY <4>1 DEF Live
    <3>. QED
      BY <1>2, <1>13, <3>1, <3>2, <3>3, <3>4
  <2>5. RebuildOK'
    BY <1>6, <2>1, <2>4, RebuildKept DEF MapOK
  <2>. QED
    BY <1>8, <1>10, <1>11, <2>2, <2>3, <2>5 DEF MapOK
<1>14. CASE Rebuild_Ptr = n + 1
  <2>. DEFINE o == [op |-> "PUSH_DOWN", box |-> {}, tree_deleted |-> TRUE]
  <2>1. working_flag_mutex = "free" /\ rpc \notin Held
    BY <1>1, <1>14 DEF MapOK, LocksOK
  <2>2. LocksOK'
    BY <1>14, <2>1 DEF MapOK, LocksOK
  <2>3. Replaying => Rebuild_Logger' = Append(Rebuild_Logger, o)
    <3>1. Replaying => rebuild_flag
      BY DEF MapOK, LocksOK, Replaying
    <3>. QED
      BY <1>1, <1>12, <1>14, <3>1
  <2>4. o \in Fit(Rebuild_Ptr) /\ o \in Asked
    BY DEF Fit, Asked, Operation, Belongs
  <2>5. \A c : Effect(c, o) = {}
    BY DEF Effect
  <2>. HIDE DEF o
  <2>6. LogOK'
    <3>. SUFFICES ASSUME Replaying
                  PROVE  /\ Rebuild_Logger' \in Seq(Fit(Rebuild_Ptr))
                         /\ rpc = "replay" => job \in Fit(Rebuild_Ptr)
      BY <1>6, LogPrimed
    <3>. DEFINE F == Fit(Rebuild_Ptr)
    <3>1. Rebuild_Logger \in Seq(F) /\ o \in F
      BY <2>4 DEF MapOK, LogOK
    <3>. HIDE DEF F
    <3>2. Append(Rebuild_Logger, o) \in Seq(F)
      BY <3>1, AppendProperties
    <3>. QED
      BY <2>3, <3>2 DEF F, MapOK, LogOK
  <2>7. InsideOK'
    BY <1>14 DEF InsideOK
  <2>8. RebuildOK'
    <3>. SUFFICES ASSUME Replaying
                  PROVE  Replays(Copied', Logged', Live(tree', Rebuild_Ptr'))
      BY <1>6, RebuildPrimed
    <3>1. Replays(Copied, Rebuild_Logger, Live(tree, Rebuild_Ptr))
      BY DEF MapOK, RebuildOK, Logged
    <3>2. Copied' = Copied /\ Logged' = Append(Rebuild_Logger, o)
      BY <2>3, RebuildPrimed DEF Copied
    <3>3. /\ Copied \in SUBSET Point /\ Live(tree, Rebuild_Ptr) \in SUBSET Point
          /\ Rebuild_Logger \in Seq(Asked)
      <4>1. \A x, y : Live(x, y) \in SUBSET Point
        BY DEF Live
      <4>2. rpc = "replay" => job \in Asked
        BY DEF Types, RebuildTypes
      <4>. QED
        BY <4>1, <4>2, EffectType DEF Copied, Types, MapTypes
    <3>4. Live(tree', Rebuild_Ptr') = Effect(Live(tree, Rebuild_Ptr), o)
      BY <1>4, <1>14, <2>5
    <3>. QED
      BY <2>4, <3>1, <3>2, <3>3, <3>4, ReplaysOneMore
  <2>. QED
    BY <1>8, <1>10, <1>11, <2>2, <2>6, <2>7, <2>8 DEF MapOK
<1>. QED
  BY <1>13, <1>14

LEMMA SearchPushDownKeepsMap ==
  ASSUME SearchInv, Types, MapOK, NEW r \in Reader, SearchPushDown(r)
  PROVE  MapOK'
<1>1. PICK n \in 0 .. Depth - 1 :
        /\ tree[n].need_push_down
        /\ \/ /\ reader[r] = "start" \/ (r = "main" /\ mpc = "range")
              /\ n < Rebuild_Ptr
           \/ reader[r] \in {"inside", "counted", "locked", "bare"}
        /\ PushDown(tree, n)
        /\ UNCHANGED <<Rebuild_Ptr, rebuild_flag, locks, rebuilding, operating, reading, holes>>
  BY DEF SearchPushDown
<1>2. mpc \in Waiting
  BY <1>1 DEF SearchInv, ReaderOK, Reader, Waiting
<1>3. n \in Level /\ n < Depth /\ n >= 0
  BY LevelsAreInt DEF Level
<1>4. Path = 0 /\ mpc \notin {"log", "down", "up"}
  BY <1>2 DEF Path, Waiting
<1>5. tree \in Sub(0)
  BY DEF Types, MapTypes
<1>. QED
  BY <1>1, <1>3, <1>4, <1>5, PushDownKeepsMap DEF locks, rebuilding, operating

LEMMA PushDownLockedKeepsMap ==
  ASSUME Types, MapOK, PushDownLocked
  PROVE  MapOK'
<1>. DEFINE tr == [tree EXCEPT ![level].working_flag = TRUE]
<1>1. /\ mpc = "down" /\ level < Depth /\ tree[level].need_push_down
      /\ Rebuild_Ptr = level + 1
      /\ PushDown(tr, level)
      /\ UNCHANGED <<Rebuild_Ptr, rebuild_flag, locks, rebuilding, operating>>
  BY DEF PushDownLocked
<1>2. level \in Level /\ level \in Nat /\ tree \in Sub(0)
  BY LevelsAreInt DEF Types, CallTypes, MapTypes
<1>3. \A n \in Level : tree[n] \in Node
  BY <1>2 DEF Sub, Level
<1>4. /\ tr \in Sub(0)
      /\ \A n \in Level : /\ tr[n].valid = tree[n].valid
                          /\ tr[n].tree_deleted <=> tree[n].tree_deleted
                          /\ tr[n].need_push_down <=> tree[n].need_push_down
  <2>. DEFINE node == [tree[level] EXCEPT !.working_flag = TRUE]
  <2>1. /\ node \in Node
        /\ node.valid = tree[level].valid
        /\ node.tree_deleted = tree[level].tree_deleted
        /\ node.need_push_down = tree[level].need_push_down
    BY <1>2, <1>3 DEF Node
  <2>2. tr = [tree EXCEPT ![level] = node]
    OBVIOUS
  <2>. HIDE DEF node, tr
  <2>3. tr[level] = node /\ \A n \in Level : n # level => tr[n] = tree[n]
    BY <1>2, <2>2 DEF Sub, Level
  <2>4. tr \in Sub(0)
    BY <1>2, <2>1, <2>2 DEF Sub, Level
  <2>. QED
    BY <2>1, <2>3, <2>4
<1>. HIDE DEF tr
<1>5. tr[level].need_push_down /\ level >= Path /\ ~(level >= Rebuild_Ptr)
  BY <1>1, <1>2, <1>4 DEF Path
<1>. QED
  BY <1>1, <1>2, <1>4, <1>5, PushDownKeepsMap DEF locks, rebuilding, operating

-----------------------------------------------------------------------------
LEMMA LiveType == \A x, y : Live(x, y) \in SUBSET Point
BY DEF Live

\* A membership in what an operation leaves.
LEMMA AfterHas ==
  \A a, b, o, p : (p \in a <=> p \in b) => (p \in After(a, o) <=> p \in After(b, o))
BY DEF After

\* What is done under the lock belongs to the subtree.
LEMMA LockedFits ==
  ASSUME Types, AddsBelow, mpc \in {"lock", "log"}
  PROVE  /\ Locked \in Seq(MainOp) /\ Locked # <<>> /\ Len(Locked) <= 2
         /\ \A i \in 1 .. Len(Locked) : Belongs(Locked[i], level)
         /\ Locked \in Seq(Fit(level))
         /\ level # 0 => Locked = <<Head(todo)>> /\ Head(todo) \in MainOp
         /\ level = 0 => Locked = todo
<1>1. todo # <<>> /\ todo \in Seq(MainOp) /\ level \in Level
  BY DEF Types, CallTypes
<1>2. Locked \in Seq(MainOp) /\ Locked # <<>> /\ Len(Locked) <= 2 /\ Head(todo) \in MainOp
  BY <1>1, LockedIs DEF Types
<1>3. /\ level # 0 => Locked = <<Head(todo)>>
      /\ level = 0 => Locked = todo
  BY DEF Locked
<1>4. \A i \in 1 .. Len(Locked) : Belongs(Locked[i], level)
  <2>1. CASE level = 0
    <3>1. \A i \in 1 .. Len(Locked) : Locked[i] \in MainOp
      BY <1>2
    <3>. QED
      BY <2>1, <3>1, EverythingBelongs
  <2>2. CASE level # 0
    <3>. DEFINE h == Head(todo)
    <3>1. Locked = <<h>> /\ Belongs(h, level)
      BY <1>3, <2>2 DEF AddsBelow
    <3>. HIDE DEF h
    <3>2. Len(<<h>>) = 1 /\ \A i \in 1 .. 1 : <<h>>[i] = h
      OBVIOUS
    <3>. QED
      BY <3>1, <3>2
  <2>. QED
    BY <2>1, <2>2
<1>5. Locked \in Seq(Fit(level))
  <2>. DEFINE s == Locked
              F == Fit(level)
  <2>1. \A i \in 1 .. Len(s) : s[i] \in MainOp /\ Belongs(s[i], level)
    BY <1>2, <1>4
  <2>2. \A o \in MainOp : Belongs(o, level) => o \in F
    BY DEF MainOp, Fit
  <2>3. s \in Seq(MainOp)
    BY <1>2
  <2>. HIDE DEF s, F
  <2>4. \A i \in 1 .. Len(s) : s[i] \in F
    BY <2>1, <2>2
  <2>5. s \in Seq(F)
    BY <2>3, <2>4
  <2>. QED
    BY <2>5 DEF s, F
<1>. QED
  BY <1>2, <1>3, <1>4, <1>5

\* A rebuild that has taken its copy is of the subtree that is locked.
LEMMA LockedPtr ==
  ASSUME SearchInv, MapOK, Replaying, mpc \in {"lock", "log"}
  PROVE  Rebuild_Ptr = level /\ rebuild_flag
<1>1. Rebuild_Ptr # None
  BY DEF SearchInv, PointerOK, Rebuilding, Replaying
<1>. QED
  BY <1>1 DEF MapOK, LocksOK, Replaying

LEMMA OperateKeepsMap ==
  ASSUME SearchInv, Types, MapOK, Operate
  PROVE  MapOK'
<1>1. /\ mpc = "lock" /\ mpc' = "log"
      /\ working_flag_mutex = "free" /\ working_flag_mutex' = "main"
      /\ tree' = OperateAll(tree, level, Locked)
      /\ UNCHANGED <<Rebuild_Ptr, rebuild_flag, Rebuild_Logger, rpc, fresh, job, todo, level, asked>>
  BY DEF Operate, rebuilding
<1>2. /\ level \in Level /\ level \in Nat /\ Depth \in Nat /\ tree \in Sub(0) /\ asked \in SUBSET Point
      /\ 0 \in Level
  BY LevelsAreInt DEF Types, CallTypes, MapTypes
<1>3. /\ Locked \in Seq(MainOp) /\ Locked # <<>> /\ Len(Locked) <= 2
      /\ \A i \in 1 .. Len(Locked) : Belongs(Locked[i], level)
      /\ Locked \in Seq(Fit(level))
      /\ level # 0 => Locked = <<Head(todo)>> /\ Head(todo) \in MainOp
      /\ level = 0 => Locked = todo
  BY <1>1, LockedFits DEF MapOK
<1>4. Path = level /\ Path' = level /\ Replaying' = Replaying
  BY <1>1, TreePrimed DEF Path, Replaying
<1>5. /\ Sound(tree, 0) /\ Sound(tree, level)
      /\ \A n \in level .. Depth : Dead(tree, n)
      /\ \A n \in 0 .. level - 1 : ~tree[n].need_push_down
  <2>1. /\ \A n \in level .. Depth : n \in 0 .. Depth /\ n \in Level /\ n >= level
        /\ \A n \in 0 .. level - 1 : n \in Level /\ n < level
    BY <1>2 DEF Level
  <2>. QED
    BY <1>4, <2>1 DEF MapOK, TreeOK, Sound
<1>6. /\ tree' \in Sub(0)
      /\ \A n \in 0 .. level - 1 : tree'[n] = tree[n]
      /\ Sound(tree', level)
      /\ \A n \in level .. Depth : Dead(tree', n)
      /\ Live(tree', level) = AfterAll(Live(tree, level), Locked)
  BY <1>1, <1>2, <1>3, <1>5, OperateAllKeeps
<1>7. /\ Sound(tree', 0)
      /\ \A p \in Point :
           /\ Home[p] >= level => /\ p \in Live(tree', 0) <=> p \in Live(tree', level)
                                  /\ p \in Live(tree, 0) <=> p \in Live(tree, level)
           /\ Home[p] < level => (p \in Live(tree', 0) <=> p \in Live(tree, 0))
  BY <1>2, <1>5, <1>6, WholeTree
<1>8. TreeOK'
  <2>1. \A n \in Level : n >= level => n \in level .. Depth
    BY <1>2 DEF Level
  <2>2. \A n \in Level : n < level => n \in 0 .. level - 1
    BY <1>2 DEF Level
  <2>. QED
    BY <1>4, <1>5, <1>6, <1>7, <2>1, <2>2, TreePrimed
<1>9. LocksOK'
  BY <1>1 DEF MapOK, LocksOK, Held
<1>10. FreshOK' /\ LogOK'
  BY <1>1, <1>4, FreshKept, LogKept DEF MapOK
<1>11. InsideOK'
  BY <1>1 DEF InsideOK
<1>12. AddsBelow'
  BY <1>1, LogPrimed DEF MapOK, AddsBelow
<1>13. ContentOK'
  <2>1. Live(tree, 0) = Partly(asked, Head(todo), level)
    BY <1>1 DEF MapOK, ContentOK
  <2>2. CASE level = 0
    <3>1. Live(tree, 0) = asked
      BY <1>2, <2>1, <2>2, NothingAbove
    <3>2. Live(tree', 0) = AfterAll(asked, todo)
      BY <1>3, <1>6, <2>2, <3>1
    <3>. QED
      BY <1>1, <2>2, <3>2, ContentPrimed DEF Waiting
  <2>3. CASE level # 0
    <3>. DEFINE o == Head(todo)
    <3>1. Locked = <<o>> /\ o \in MainOp
      BY <1>3, <2>3
    <3>2. Live(tree, 0) = Partly(asked, o, level)
      BY <2>1
    <3>. HIDE DEF o
    <3>3. Live(tree', level) = After(Live(tree, level), o)
      BY <1>6, <3>1, AfterOne
    <3>4. ASSUME NEW p \in Point PROVE p \in Live(tree', 0) <=> p \in After(asked, o)
      <4>1. CASE Home[p] < level
        BY <1>7, <3>2, <4>1 DEF Partly
      <4>2. CASE Home[p] >= level /\ ~(Home[p] < level)
        <5>1. p \in Live(tree, level) <=> p \in asked
          BY <1>7, <3>2, <4>2 DEF Partly
        <5>2. p \in Live(tree', 0) <=> p \in After(Live(tree, level), o)
          BY <1>7, <3>3, <4>2
        <5>. QED
          BY <5>1, <5>2, AfterHas
      <4>. QED
        BY <1>2, <4>1, <4>2, HomeIs
    <3>5. After(asked, o) \in SUBSET Point /\ Live(tree', 0) \in SUBSET Point
      BY <1>2, <3>1, AfterType, OpsAreOps, LiveType
    <3>6. Live(tree', 0) = After(asked, o)
      BY <3>4, <3>5
    <3>. QED
      BY <1>1, <2>3, <3>6, ContentPrimed DEF o, Waiting
  <2>. QED
    BY <2>2, <2>3
<1>14. RebuildOK'
  <2>. SUFFICES ASSUME Replaying PROVE Replays(Copied', Logged', Live(tree', Rebuild_Ptr'))
    BY <1>4, RebuildPrimed
  <2>1. Rebuild_Ptr = level
    BY <1>1, LockedPtr
  <2>2. Copied' = Copied /\ Logged' = Rebuild_Logger \o Locked /\ Logged = Rebuild_Logger
    BY <1>1, RebuildPrimed DEF Copied, Logged, Locked
  <2>3. Replays(Copied, Rebuild_Logger, Live(tree, level))
    BY <2>1, <2>2 DEF MapOK, RebuildOK
  <2>4. Copied \in SUBSET Point /\ Rebuild_Logger \in Seq(Asked)
    BY LiveType, EffectType DEF Copied, Types, MapTypes, RebuildTypes
  <2>5. Replays(Copied, Rebuild_Logger \o Locked, AfterAll(Live(tree, level), Locked))
    BY <1>3, <2>3, <2>4, LiveType, ReplaysLocked
  <2>. QED
    BY <1>1, <1>6, <2>1, <2>2, <2>5
<1>. QED
  BY <1>8, <1>9, <1>10, <1>11, <1>12, <1>13, <1>14 DEF MapOK

LEMMA LogKeepsMap ==
  ASSUME SearchInv, Types, MapOK, Log
  PROVE  MapOK'
<1>1. /\ mpc = "log"
      /\ rebuild_flag => Rebuild_Logger' = Rebuild_Logger \o Locked
      /\ ~rebuild_flag => Rebuild_Logger' = Rebuild_Logger
      /\ working_flag_mutex' = "free"
      /\ level = 0 => Finish(todo)
      /\ level # 0 => Ascend(level)
      /\ UNCHANGED <<tree, Rebuild_Ptr, rebuild_flag, rpc, fresh, job>>
  BY DEF Log, rebuilding
<1>2. /\ level = 0 => mpc' = "rest" /\ asked' = AfterAll(asked, todo)
      /\ level # 0 => /\ mpc' = "up" /\ level' = level - 1
                      /\ todo' = todo /\ asked' = asked
  BY <1>1 DEF Finish, Ascend, AfterAll
<1>3. level \in Nat /\ level \in Level
  BY LevelsAreInt DEF Types, CallTypes
<1>4. Path = level /\ Path' = level /\ Replaying' = Replaying
  BY <1>1, <1>2, <1>3, TreePrimed DEF Path, Replaying
<1>5. working_flag_mutex = "main" /\ rpc \notin Held
  BY <1>1 DEF MapOK, LocksOK
<1>6. mpc' \in {"rest", "up"}
  BY <1>2
<1>7. LocksOK'
  BY <1>1, <1>5, <1>6 DEF MapOK, LocksOK, Held
<1>8. TreeOK'
  BY <1>1, <1>4, TreePrimed DEF MapOK, TreeOK
<1>9. FreshOK'
  BY <1>1, <1>4, FreshKept DEF MapOK
<1>10. Replaying => Rebuild_Ptr = level /\ Rebuild_Logger' = Rebuild_Logger \o Locked
  BY <1>1, LockedPtr
<1>11. LogOK'
  <2>. SUFFICES ASSUME Replaying
                PROVE  /\ Rebuild_Logger' \in Seq(Fit(Rebuild_Ptr))
                       /\ rpc = "replay" => job \in Fit(Rebuild_Ptr)
    BY <1>1, <1>4, LogPrimed
  <2>. DEFINE F == Fit(Rebuild_Ptr)
  <2>1. Rebuild_Logger \in Seq(F) /\ (rpc = "replay" => job \in F)
    BY DEF MapOK, LogOK
  <2>2. Locked \in Seq(F)
    BY <1>1, <1>10, LockedFits DEF MapOK
  <2>. HIDE DEF F
  <2>3. Rebuild_Logger \o Locked \in Seq(F)
    BY <2>1, <2>2, ConcatProperties
  <2>. QED
    BY <1>10, <2>1, <2>3 DEF F
<1>12. InsideOK'
  <2>1. Replaying' /\ mpc' \in {"down", "up"} => ~(level' >= Rebuild_Ptr')
    BY <1>1, <1>2, <1>3, <1>4, <1>10
  <2>. QED
    BY <2>1 DEF InsideOK
<1>13. AddsBelow'
  BY <1>6, LogPrimed
<1>14. ContentOK'
  BY <1>1, <1>2, ContentPrimed DEF MapOK, ContentOK, Waiting
<1>15. RebuildOK'
  <2>. SUFFICES ASSUME Replaying PROVE Replays(Copied', Logged', Live(tree', Rebuild_Ptr'))
    BY <1>4, RebuildPrimed
  <2>1. Copied' = Copied
    BY <1>1, RebuildPrimed DEF Copied
  <2>2. Logged' = Logged
    BY <1>1, <1>6, <1>10, RebuildPrimed DEF Logged
  <2>. QED
    BY <1>1, <2>1, <2>2 DEF MapOK, RebuildOK
<1>. QED
  BY <1>7, <1>8, <1>9, <1>11, <1>12, <1>13, <1>14, <1>15 DEF MapOK

-----------------------------------------------------------------------------
\* Once the operation is done at a node, it goes on with its father or is over.
LEMMA AscendMeans ==
  ASSUME Types, todo # <<>>, Ascend(level), UNCHANGED calls,
         Live(tree', 0) = After(asked, Head(todo))
  PROVE  /\ level # 0 => mpc' = "up" /\ level' = level - 1
         /\ level = 0 => mpc' \in {"rest", "down"} /\ level' = 0
         /\ Path' = level
         /\ AddsBelow' /\ ContentOK'
<1>. DEFINE o == Head(todo)
<1>1. level \in Nat /\ asked \in SUBSET Point /\ o \in MainOp
  BY LevelsAreInt, ShortSeq DEF Types, CallTypes
<1>2. After(asked, o) \in SUBSET Point
  BY <1>1, AfterType, OpsAreOps
<1>3. CASE level = 0
  <2>1. Finish(<<o>>)
    BY <1>3 DEF Ascend
  <2>2. mpc' \in {"rest", "down"} /\ level' = 0 /\ asked' = AfterAll(asked, <<o>>)
    BY <2>1 DEF Finish, AfterAll
  <2>3. asked' = After(asked, o)
    BY <2>2, AfterOne
  <2>4. CallTypes'
    BY AscendTypes DEF Types
  <2>5. Path' = 0
    BY <2>2, TreePrimed
  <2>6. mpc' = "down" => Head(todo') \in MainOp
    <3>1. mpc' = "down" => todo' # <<>> /\ todo' \in Seq(MainOp) /\ Len(todo') <= 2
      BY <2>4 DEF CallTypes
    <3>. QED
      BY <3>1, ShortSeq
  <2>7. AddsBelow'
    BY <2>2, <2>6, EverythingBelongs, LogPrimed
  <2>8. Partly(asked', Head(todo'), 0) = asked'
    BY <1>2, <2>3, NothingAbove
  <2>9. ContentOK'
    BY <2>2, <2>3, <2>8, ContentPrimed
  <2>. QED
    BY <1>3, <2>2, <2>5, <2>7, <2>9
<1>4. CASE level # 0
  <2>1. mpc' = "up" /\ level' = level - 1 /\ todo' = todo /\ asked' = asked
    BY <1>4 DEF Ascend
  <2>2. Path' = level
    BY <1>1, <2>1, TreePrimed
  <2>3. AddsBelow'
    BY <2>1, LogPrimed
  <2>4. ContentOK'
    BY <2>1, ContentPrimed DEF Waiting
  <2>. QED
    BY <1>4, <2>1, <2>2, <2>3, <2>4
<1>. QED
  BY <1>3, <1>4

LEMMA AscentKeepsMap ==
  ASSUME SearchInv, Types, MapOK, Ascent
  PROVE  MapOK'
<1>1. /\ mpc = "up" /\ tree' = UpdateAndLeave(tree, level, level) /\ Ascend(level)
      /\ Rebuild_Ptr' = Rebuild_Ptr \/ rpc = "idle"
      /\ UNCHANGED <<rebuild_flag, Rebuild_Logger, working_flag_mutex, rpc, fresh, job, calls>>
  BY DEF Ascent, MayRequest, locks, rebuilding
<1>2. /\ level \in Level /\ level \in Nat /\ Depth \in Nat /\ tree \in Sub(0) /\ 0 \in Level
      /\ level \in 0 .. Depth /\ 0 \in 0 .. Depth /\ level <= Depth /\ level \in Int
      /\ todo # <<>>
  BY <1>1, LevelsAreInt DEF Types, CallTypes, MapTypes, Level
<1>3. Path = level + 1 /\ Replaying' = Replaying /\ (Replaying => Rebuild_Ptr' = Rebuild_Ptr)
  BY <1>1 DEF Path, Replaying
<1>4. /\ Sound(tree, 0)
      /\ level < Depth => Dead(tree, level + 1)
      /\ \A n \in level .. level : ~tree[n].need_push_down
  <2>1. level < Depth => level + 1 \in Level
    BY <1>2 DEF Level
  <2>2. \A n \in level .. level : n \in Level /\ n < level + 1
    BY <1>2
  <2>. QED
    BY <1>2, <1>3, <2>1, <2>2 DEF MapOK, TreeOK
<1>5. /\ Sound(tree', 0)
      /\ Live(tree', 0) = Live(tree, 0)
      /\ \A n \in 0 .. Depth : /\ tree'[n].valid = tree[n].valid
                               /\ tree'[n].need_push_down <=> tree[n].need_push_down
      /\ \A n \in level .. level : Dead(tree', n)
      /\ \A n \in 0 .. Depth : n \notin level .. level => (Dead(tree, n) <=> Dead(tree', n))
  <2>. DEFINE new == UpdateAndLeave(tree, level, level)
  <2>1. level <= level + 1
    BY <1>2
  <2>2. /\ Sound(new, 0)
        /\ Live(new, 0) = Live(tree, 0)
        /\ \A n \in 0 .. Depth : /\ new[n].valid = tree[n].valid
                                 /\ new[n].need_push_down <=> tree[n].need_push_down
        /\ \A n \in level .. level : Dead(new, n)
        /\ \A n \in 0 .. Depth : n \notin level .. level => (Dead(tree, n) <=> Dead(new, n))
    BY <1>2, <1>4, <2>1, UpdateAndLeaveKeeps
  <2>. QED
    BY <1>1, <2>2
<1>6. Live(tree', 0) = After(asked, Head(todo))
  BY <1>1, <1>5 DEF MapOK, ContentOK
<1>7. /\ level # 0 => mpc' = "up" /\ level' = level - 1
      /\ level = 0 => mpc' \in {"rest", "down"} /\ level' = 0
      /\ Path' = level
      /\ AddsBelow' /\ ContentOK'
  BY <1>1, <1>2, <1>6, AscendMeans
<1>8. mpc' \in {"rest", "down", "up"}
  BY <1>7
<1>9. LocksOK'
  BY <1>1, <1>8 DEF MapOK, LocksOK, Held
<1>10. TreeOK'
  <2>1. \A n \in Level : n >= level => Dead(tree', n)
    <3>1. \A n \in Level : n >= level => n \in level .. level \/ (n >= level + 1 /\ n \notin level .. level /\ n \in 0 .. Depth)
      BY <1>2 DEF Level
    <3>. QED
      BY <1>3, <1>5, <3>1 DEF MapOK, TreeOK
  <2>2. \A n \in Level : n < level => ~tree'[n].need_push_down
    <3>1. \A n \in Level : n < level => n < level + 1 /\ n \in 0 .. Depth
      BY <1>2 DEF Level
    <3>. QED
      BY <1>3, <1>5, <3>1 DEF MapOK, TreeOK
  <2>. QED
    BY <1>5, <1>7, <2>1, <2>2, TreePrimed
<1>11. CASE ~Replaying
  <2>1. FreshOK' /\ LogOK' /\ InsideOK' /\ RebuildOK'
    BY <1>3, <1>11 DEF FreshOK, LogOK, InsideOK, RebuildOK
  <2>. QED
    BY <1>7, <1>9, <1>10, <2>1 DEF MapOK
<1>12. CASE Replaying
  <2>1. Rebuild_Ptr' = Rebuild_Ptr /\ Rebuild_Ptr \in Level
    <3>1. Rebuild_Ptr # None
      BY <1>12 DEF SearchInv, PointerOK, Rebuilding, Replaying
    <3>. QED
      BY <1>3, <1>12, <3>1 DEF Types, MapTypes
  <2>2. FreshOK' /\ LogOK'
    BY <1>1, <1>3, <2>1, FreshKept, LogKept DEF MapOK
  <2>3. mpc' \in {"down", "up"} /\ level' >= Rebuild_Ptr => level >= Rebuild_Ptr
    BY <1>2, <1>7, <2>1, LevelsAreInt
  <2>4. InsideOK'
    BY <1>1, <1>3, <2>1, <2>3, InsideKept DEF MapOK
  <2>5. Live(tree', Rebuild_Ptr) = Live(tree, Rebuild_Ptr)
    <3>1. \A n \in Rebuild_Ptr .. Depth : n \in 0 .. Depth
      BY <2>1, LevelsAreInt
    <3>. QED
      BY <1>5, <2>1, <3>1, LiveSame
  <2>6. RebuildOK'
    BY <1>1, <1>3, <1>8, <2>1, <2>5, RebuildKept DEF MapOK
  <2>. QED
    BY <1>7, <1>9, <1>10, <2>2, <2>4, <2>6 DEF MapOK
<1>. QED
  BY <1>11, <1>12

LEMMA DescendKeepsMap ==
  ASSUME SearchInv, Types, MapOK, Descend, holes' = {}
  PROVE  MapOK'
<1>. DEFINE o == Head(todo)
            turn == TurnAt(tree, level, level, o)
<1>1. /\ mpc = "down"
      /\ \/ level = Depth \/ ~tree[level].need_push_down
         \/ Rebuild_Ptr # level + 1 \/ turn = "deleted"
      /\ tree' = Operated(tree, level, level, turn, o)
      /\ turn = "son" => /\ level' = level + 1
                         /\ mpc' = IF Rebuild_Ptr = level + 1 THEN "lock" ELSE "down"
                         /\ todo' = todo /\ asked' = asked
      /\ turn = "update" => mpc' = "up" /\ level' = level /\ todo' = todo /\ asked' = asked
      /\ turn \notin {"son", "update"} => Ascend(level)
      /\ rpc = "idle" \/ ~(level >= Rebuild_Ptr)
      /\ UNCHANGED <<Rebuild_Ptr, rebuild_flag, Rebuild_Logger, working_flag_mutex, rpc, fresh,
                     job, calls>>
  <2>. HIDE DEF o
  <2>1. /\ mpc = "down"
        /\ \/ level = Depth \/ ~tree[level].need_push_down
           \/ Rebuild_Ptr # level + 1 \/ turn = "deleted"
        /\ tree' = Operated(tree, level, level, turn, o)
        /\ CASE turn = "son" -> /\ level' = level + 1
                                /\ mpc' = IF Rebuild_Ptr = level + 1 THEN "lock" ELSE "down"
                                /\ UNCHANGED <<todo, asked>>
             [] turn = "update" -> mpc' = "up" /\ UNCHANGED <<level, todo, asked>>
             [] OTHER -> Ascend(level)
        /\ holes' = IF rpc # "idle" /\ level >= Rebuild_Ptr THEN holes \cup {"untested"} ELSE holes
        /\ UNCHANGED <<Rebuild_Ptr, rebuild_flag, Rebuild_Logger, locks, rebuilding, reading, calls>>
    BY DEF Descend, o
  <2>. HIDE DEF turn
  <2>. QED
    BY <2>1 DEF locks, rebuilding
<1>2. /\ level \in Level /\ level \in Nat /\ Depth \in Nat /\ tree \in Sub(0) /\ 0 \in Level
      /\ level \in 0 .. Depth /\ level \in level .. Depth /\ level <= Depth
      /\ todo # <<>> /\ o \in MainOp /\ asked \in SUBSET Point
  BY <1>1, LevelsAreInt, ShortSeq DEF Types, CallTypes, MapTypes, Level
<1>3. Path = level /\ Replaying' = Replaying /\ Belongs(o, level)
      /\ Live(tree, 0) = Partly(asked, o, level)
  BY <1>1 DEF Path, Replaying, MapOK, AddsBelow, ContentOK
<1>4. /\ Sound(tree, 0) /\ Sound(tree, level)
      /\ \A n \in level .. Depth : Dead(tree, n)
      /\ \A n \in 0 .. level - 1 : ~tree[n].need_push_down
  <2>1. /\ \A n \in level .. Depth : n \in 0 .. Depth /\ n \in Level /\ n >= level
        /\ \A n \in 0 .. level - 1 : n \in Level /\ n < level
    BY <1>2 DEF Level
  <2>. QED
    BY <1>3, <2>1 DEF MapOK, TreeOK, Sound
<1>5. Reaches(tree, level, level, turn, o) /\ turn \in Turns
      /\ (turn = "son" => level < Depth /\ Belongs(o, level + 1))
  <2>1. \A n \in level .. level - 1 : FALSE
    BY <1>2
  <2>2. turn \in Turns
    BY TurnIs DEF TurnAt
  <2>3. turn = "son" => level # Depth
    BY <1>2, TurnIs DEF TurnAt
  <2>4. turn = "son" => Belongs(o, level + 1)
    <3>. SUFFICES ASSUME turn = "son", o.op = "ADD_POINT", NEW p \in o.box
                  PROVE  Home[p] >= level + 1
      BY DEF Belongs
    <3>1. ~(Home[p] <= level)
      BY DEF TurnAt, Turn
    <3>2. p \in Point
      BY <1>2, OpsAreOps DEF Operation
    <3>. QED
      BY <1>2, <3>1, <3>2, HomeIs
  <2>. QED
    BY <1>2, <2>1, <2>2, <2>3, <2>4 DEF Reaches
<1>. HIDE DEF o, turn
<1>6. /\ \A n \in 0 .. level - 1 : tree'[n] = tree[n]
      /\ Sound(tree', level)
      /\ \A p \in Point : Home[p] >= level =>
           /\ Done(p, turn, level) => (p \in Live(tree', level) <=> p \in After(Live(tree, level), o))
           /\ ~Done(p, turn, level) => (p \in Live(tree', level) <=> p \in Live(tree, level))
      /\ \A n \in level + 1 .. Depth : Dead(tree', n)
      /\ turn \in {"deleted", "outside", "covered"} => Dead(tree', level)
      /\ turn \in {"outside", "son", "update"} => ~tree'[level].need_push_down
  BY <1>1, <1>2, <1>3, <1>4, <1>5, OperatedKeeps
<1>7. /\ Sound(tree', 0)
      /\ \A p \in Point :
           /\ Home[p] >= level => /\ p \in Live(tree', 0) <=> p \in Live(tree', level)
                                  /\ p \in Live(tree, 0) <=> p \in Live(tree, level)
           /\ Home[p] < level => (p \in Live(tree', 0) <=> p \in Live(tree, 0))
  BY <1>2, <1>4, <1>6, WholeTree
<1>8. ASSUME NEW p \in Point
      PROVE  /\ Done(p, turn, level) \/ Home[p] < level => (p \in Live(tree', 0) <=> p \in After(asked, o))
             /\ ~Done(p, turn, level) /\ ~(Home[p] < level) => (p \in Live(tree', 0) <=> p \in asked)
  <2>1. CASE Home[p] < level
    BY <1>3, <1>7, <2>1 DEF Partly
  <2>2. CASE ~(Home[p] < level)
    <3>1. Home[p] >= level
      BY <1>2, <2>2, HomeIs
    <3>2. p \in Live(tree, level) <=> p \in asked
      BY <1>3, <1>7, <2>2, <3>1 DEF Partly
    <3>3. p \in After(Live(tree, level), o) <=> p \in After(asked, o)
      BY <3>2, AfterHas
    <3>. QED
      BY <1>6, <1>7, <2>2, <3>1, <3>2, <3>3
  <2>. QED
    BY <2>1, <2>2
<1>9. /\ After(asked, o) \in SUBSET Point /\ Live(tree', 0) \in SUBSET Point
      /\ Partly(asked, o, level + 1) \in SUBSET Point
  BY <1>2, AfterType, OpsAreOps, LiveType DEF Partly
<1>10. turn # "son" => Live(tree', 0) = After(asked, o)
  <2>1. turn # "son" => \A p \in Point : Done(p, turn, level)
    BY DEF Done
  <2>. QED
    BY <1>8, <1>9, <2>1
<1>11. turn = "son" => Live(tree', 0) = Partly(asked, o, level + 1)
  <2>. SUFFICES ASSUME turn = "son", NEW p \in Point
                PROVE  p \in Live(tree', 0) <=> p \in Partly(asked, o, level + 1)
    BY <1>9
  <2>1. CASE Home[p] < level + 1
    <3>1. Done(p, turn, level)
      BY <1>2, <2>1, HomeIs DEF Done
    <3>. QED
      BY <1>8, <2>1, <3>1 DEF Partly
  <2>2. CASE ~(Home[p] < level + 1)
    <3>1. ~Done(p, turn, level) /\ ~(Home[p] < level)
      BY <1>2, <2>2, HomeIs DEF Done
    <3>. QED
      BY <1>8, <2>2, <3>1 DEF Partly
  <2>. QED
    BY <2>1, <2>2
<1>12. /\ AddsBelow' /\ ContentOK'
       /\ turn \in {"son", "update"} => Path' = level + 1
       /\ turn \notin {"son", "update"} => Path' = level
       /\ mpc' \in {"rest", "down", "up", "lock"}
       /\ mpc' = "lock" => level' = Rebuild_Ptr
       /\ mpc' \in {"down", "up"} => level' <= level \/ (mpc' = "down" /\ level' = level + 1 /\ level' # Rebuild_Ptr)
  <2>1. CASE turn = "son"
    <3>1. mpc' \in {"lock", "down"} /\ level' = level + 1 /\ todo' = todo /\ asked' = asked
      BY <1>1, <2>1
    <3>2. AddsBelow'
      BY <1>5, <2>1, <3>1, LogPrimed DEF o
    <3>3. ContentOK'
      BY <1>11, <2>1, <3>1, ContentPrimed DEF o, Waiting
    <3>4. Path' = level + 1
      BY <3>1, TreePrimed
    <3>. QED
      BY <1>1, <2>1, <3>1, <3>2, <3>3, <3>4
  <2>2. CASE turn = "update"
    <3>1. mpc' = "up" /\ level' = level /\ todo' = todo /\ asked' = asked
      BY <1>1, <2>2
    <3>2. AddsBelow'
      BY <3>1, LogPrimed
    <3>3. ContentOK'
      BY <1>10, <2>2, <3>1, ContentPrimed DEF o, Waiting
    <3>4. Path' = level + 1
      BY <3>1, TreePrimed
    <3>. QED
      BY <1>2, <2>2, <3>1, <3>2, <3>3, <3>4
  <2>3. CASE turn \notin {"son", "update"}
    <3>1. Ascend(level) /\ Live(tree', 0) = After(asked, Head(todo))
      BY <1>1, <1>10, <2>3 DEF o
    <3>2. /\ level # 0 => mpc' = "up" /\ level' = level - 1
          /\ level = 0 => mpc' \in {"rest", "down"} /\ level' = 0
          /\ Path' = level
          /\ AddsBelow' /\ ContentOK'
      BY <1>1, <1>2, <3>1, AscendMeans
    <3>. QED
      BY <1>2, <2>3, <3>2
  <2>. QED
    BY <2>1, <2>2, <2>3
<1>13. LocksOK'
  BY <1>1, <1>12 DEF MapOK, LocksOK, Held
<1>14. TreeOK'
  <2>1. ASSUME NEW n \in Level, n >= Path' PROVE Dead(tree', n)
    <3>1. CASE turn \in {"son", "update"}
      <4>1. n \in level + 1 .. Depth
        BY <1>2, <1>12, <2>1, <3>1 DEF Level
      <4>. QED
        BY <1>6, <4>1
    <3>2. CASE turn \notin {"son", "update"}
      <4>1. n = level \/ n \in level + 1 .. Depth
        BY <1>2, <1>12, <2>1, <3>2 DEF Level
      <4>2. Dead(tree', level)
        BY <1>5, <1>6, <3>2 DEF Turns
      <4>. QED
        BY <1>6, <4>1, <4>2
    <3>. QED
      BY <3>1, <3>2
  <2>2. ASSUME NEW n \in Level, n < Path' PROVE ~tree'[n].need_push_down
    <3>1. n \in 0 .. level - 1 \/ (n = level /\ turn \in {"son", "update"})
      BY <1>2, <1>12, <2>2 DEF Level
    <3>. QED
      BY <1>4, <1>6, <3>1
  <2>. QED
    BY <1>7, <2>1, <2>2, TreePrimed
<1>15. CASE ~Replaying
  <2>1. FreshOK' /\ LogOK' /\ InsideOK' /\ RebuildOK'
    BY <1>3, <1>15 DEF FreshOK, LogOK, InsideOK, RebuildOK
  <2>. QED
    BY <1>12, <1>13, <1>14, <2>1 DEF MapOK
<1>16. CASE Replaying
  <2>1. Rebuild_Ptr \in Level /\ Rebuild_Ptr \in Nat /\ level < Rebuild_Ptr
    <3>1. Rebuild_Ptr # None
      BY <1>16 DEF SearchInv, PointerOK, Rebuilding, Replaying
    <3>2. rpc # "idle"
      BY <1>16 DEF Replaying
    <3>3. Rebuild_Ptr \in Level /\ Rebuild_Ptr \in Nat
      BY <3>1, LevelsAreInt DEF Types, MapTypes
    <3>. QED
      BY <1>1, <1>2, <3>2, <3>3
  <2>2. FreshOK' /\ LogOK'
    BY <1>1, <1>3, FreshKept, LogKept DEF MapOK
  <2>3. mpc' \in {"down", "up"} => ~(level' >= Rebuild_Ptr')
    <3>1. level' <= level => ~(level' >= Rebuild_Ptr)
      <4>1. level' \in Int
        BY <1>1, <1>2 DEF Ascend, Finish
      <4>. QED
        BY <1>2, <2>1, <4>1
    <3>2. level' = level + 1 /\ level' # Rebuild_Ptr => ~(level' >= Rebuild_Ptr)
      BY <1>2, <2>1
    <3>. QED
      BY <1>1, <1>12, <3>1, <3>2
  <2>4. InsideOK'
    BY <2>3 DEF InsideOK
  <2>5. ASSUME NEW n \in Rebuild_Ptr .. Depth PROVE tree'[n] = tree[n]
    <3>1. n \in 0 .. Depth /\ n >= level + 1
      BY <1>2, <2>1
    <3>2. CASE n > level + 1
      BY <1>1, <1>2, <3>1, <3>2, OperatedNodes
    <3>3. CASE n = level + 1 /\ turn = "deleted"
      BY <1>1, <1>2, <3>1, <3>3, OperatedNodes
    <3>4. CASE n = level + 1 /\ turn # "deleted"
      <4>1. tree'[n] = Settled(tree, level)[n]
        BY <1>1, <1>2, <3>1, <3>4, OperatedNodes
      <4>2. Rebuild_Ptr = level + 1 /\ level # Depth
        BY <1>2, <2>1, <3>1, <3>4
      <4>3. ~tree[level].need_push_down
        BY <1>1, <3>4, <4>2
      <4>4. Clear(tree, level, n)
        <5>1. \A m \in level .. n - 1 : m = level
          BY <1>2, <3>4
        <5>. QED
          BY <4>3, <5>1 DEF Clear
      <4>5. n \in level .. Depth
        BY <1>2, <3>1
      <4>. QED
        BY <1>2, <1>4, <4>1, <4>4, <4>5, SettledNode
    <3>. QED
      BY <1>2, <3>1, <3>2, <3>3, <3>4
  <2>6. Live(tree', Rebuild_Ptr) = Live(tree, Rebuild_Ptr)
    BY <2>1, <2>5, LiveSame
  <2>7. RebuildOK'
    BY <1>1, <1>3, <1>12, <2>6, RebuildKept DEF MapOK
  <2>. QED
    BY <1>12, <1>13, <1>14, <2>2, <2>4, <2>7 DEF MapOK
<1>. QED
  BY <1>15, <1>16

-----------------------------------------------------------------------------
\* The rebuild thread leaves the main thread where it is.
LEMMA MainStays ==
  ASSUME MapOK, UNCHANGED <<mpc, todo, level, asked>>, Live(tree', 0) = Live(tree, 0)
  PROVE  AddsBelow' /\ ContentOK' /\ Path' = Path
<1>1. AddsBelow' /\ Path' = Path
  BY LogPrimed, TreePrimed DEF MapOK, AddsBelow, Path
<1>2. ContentOK'
  BY ContentPrimed DEF MapOK, ContentOK
<1>. QED
  BY <1>1, <1>2

\* The steps of the rebuild thread that leave the tree and the log alone.
LEMMA QuietKeepsMap ==
  ASSUME Types, MapOK, holes' = {},
         BeginRebuild \/ LockSearch \/ EndSwap \/ ClearFlag \/ delete_tree_nodes
  PROVE  MapOK'
<1>1. UNCHANGED <<tree, Rebuild_Logger, job, mpc, todo, level, asked>>
  BY DEF BeginRebuild, LockSearch, EndSwap, ClearFlag, delete_tree_nodes, theTree, operating
<1>2. AddsBelow' /\ ContentOK' /\ Path' = Path
  BY <1>1, MainStays
<1>3. TreeOK'
  BY <1>1, <1>2, TreePrimed DEF MapOK, TreeOK
<1>4. LocksOK'
  <2>1. CASE BeginRebuild
    <3>1. /\ rpc = "idle" /\ rpc' = "lock copy" /\ rebuild_flag' = TRUE
          /\ working_flag_mutex = "free" /\ working_flag_mutex' = "rebuild"
          /\ Rebuild_Logger = <<>> /\ Rebuild_Ptr' = Rebuild_Ptr
      BY <2>1 DEF BeginRebuild
    <3>. QED
      BY <1>1, <3>1 DEF MapOK, LocksOK, Held
  <2>2. CASE LockSearch
    <3>1. /\ \/ rpc = "lock copy" /\ rpc' = "copy"
             \/ rpc = "lock swap" /\ rpc' = "swap"
          /\ UNCHANGED <<theTree, working_flag_mutex>>
      BY <2>2 DEF LockSearch
    <3>. QED
      BY <1>1, <3>1 DEF MapOK, LocksOK, Held, theTree
  <2>3. CASE EndSwap
    <3>1. /\ rpc = "unlock" /\ rpc' = "clear flag" /\ Rebuild_Ptr' = None
          /\ working_flag_mutex' = "free" /\ rebuild_flag' = rebuild_flag
      BY <2>3 DEF EndSwap
    <3>. QED
      BY <1>1, <3>1 DEF MapOK, LocksOK, Held
  <2>4. CASE ClearFlag
    <3>1. /\ rpc = "clear flag" /\ rpc' = "free" /\ rebuild_flag' = FALSE
          /\ UNCHANGED <<Rebuild_Ptr, working_flag_mutex>>
      BY <2>4 DEF ClearFlag, locks
    <3>. QED
      BY <1>1, <3>1 DEF MapOK, LocksOK, Held
  <2>5. CASE delete_tree_nodes
    <3>1. /\ rpc = "free" /\ rpc' = "idle" /\ UNCHANGED <<theTree, working_flag_mutex>>
      BY <2>5 DEF delete_tree_nodes, locks
    <3>. QED
      BY <1>1, <3>1 DEF MapOK, LocksOK, Held, theTree
  <2>. QED
    BY <2>1, <2>2, <2>3, <2>4, <2>5
<1>5. CASE LockSearch /\ rpc = "lock swap"
  <2>1. /\ rpc' = "swap" /\ UNCHANGED <<Rebuild_Ptr, Rebuild_Logger, fresh, job>>
    BY <1>5 DEF LockSearch, theTree
  <2>2. Replaying /\ rpc' # "replay" /\ rpc # "replay" /\ mpc # "log"
    BY <1>5, <2>1 DEF Replaying, MapOK, LocksOK, Held
  <2>3. FreshOK' /\ LogOK'
    BY <2>1, <2>2, FreshKept, LogKept DEF MapOK
  <2>4. InsideOK'
    BY <1>1, <2>1, <2>2, InsideKept DEF MapOK
  <2>5. RebuildOK'
    BY <1>1, <2>1, <2>2, RebuildKept DEF MapOK
  <2>. QED
    BY <1>2, <1>3, <1>4, <2>3, <2>4, <2>5 DEF MapOK
<1>6. CASE ~(LockSearch /\ rpc = "lock swap")
  <2>1. ~Replaying'
    <3>1. rpc' \in {"lock copy", "copy", "clear flag", "free", "idle"}
      BY <1>6 DEF BeginRebuild, LockSearch, EndSwap, ClearFlag, delete_tree_nodes
    <3>. QED
      BY <3>1, FreshPrimed
  <2>2. FreshOK' /\ LogOK' /\ InsideOK' /\ RebuildOK'
    BY <2>1 DEF FreshOK, LogOK, InsideOK, RebuildOK
  <2>. QED
    BY <1>2, <1>3, <1>4, <2>2 DEF MapOK
<1>. QED
  BY <1>5, <1>6

LEMMA DrainKeepsMap ==
  ASSUME SearchInv, Types, MapOK, Drain
  PROVE  MapOK'
<1>1. /\ rpc = "drain" /\ working_flag_mutex = "free"
      /\ \/ /\ Rebuild_Logger = <<>> /\ working_flag_mutex' = "rebuild" /\ rpc' = "lock swap"
            /\ UNCHANGED <<Rebuild_Logger, job>>
         \/ /\ Rebuild_Logger # <<>>
            /\ job' = Head(Rebuild_Logger)
            /\ Rebuild_Logger' = Tail(Rebuild_Logger)
            /\ rpc' = "replay"
            /\ working_flag_mutex' = working_flag_mutex
      /\ UNCHANGED <<tree, Rebuild_Ptr, rebuild_flag, fresh, mpc, todo, level, asked>>
  BY DEF Drain, operating
<1>2. AddsBelow' /\ ContentOK' /\ Path' = Path
  BY <1>1, MainStays
<1>3. TreeOK'
  BY <1>1, <1>2, TreePrimed DEF MapOK, TreeOK
<1>4. Replaying /\ Replaying' /\ rpc # "replay" /\ mpc # "log" /\ mpc' # "log"
  BY <1>1, FreshPrimed DEF Replaying, MapOK, LocksOK
<1>5. FreshOK'
  BY <1>1, <1>4, FreshKept DEF MapOK
<1>6. LocksOK'
  BY <1>1, <1>4 DEF MapOK, LocksOK, Held
<1>7. CASE Rebuild_Logger = <<>>
  <2>1. rpc' = "lock swap" /\ UNCHANGED <<Rebuild_Logger, job>>
    BY <1>1, <1>7
  <2>2. LogOK' /\ InsideOK'
    BY <1>1, <1>4, <2>1, LogKept, InsideKept DEF MapOK
  <2>3. RebuildOK'
    BY <1>1, <1>4, <2>1, RebuildKept DEF MapOK
  <2>. QED
    BY <1>2, <1>3, <1>5, <1>6, <2>2, <2>3 DEF MapOK
<1>8. CASE Rebuild_Logger # <<>>
  <2>. DEFINE F == Fit(Rebuild_Ptr)
              s == Rebuild_Logger
  <2>1. rpc' = "replay" /\ job' = Head(s) /\ Rebuild_Logger' = Tail(s)
    BY <1>1, <1>8
  <2>2. s \in Seq(F) /\ s # <<>> /\ s \in Seq(Asked)
    BY <1>4, <1>8 DEF MapOK, LogOK, Types, MapTypes
  <2>3. InsideOK'
    BY <1>1, <1>4, <1>8 DEF MapOK, InsideOK
  <2>4. Replays(Live(fresh, Rebuild_Ptr), s, Live(tree, Rebuild_Ptr))
    BY <1>4 DEF MapOK, RebuildOK, Copied, Logged
  <2>. HIDE DEF F, s
  <2>5. Head(s) \in F /\ Tail(s) \in Seq(F)
    BY <2>2, HeadTailProperties
  <2>6. LogOK'
    BY <1>1, <2>1, <2>5, LogPrimed DEF F
  <2>7. Replays(Effect(Live(fresh, Rebuild_Ptr), Head(s)), Tail(s), Live(tree, Rebuild_Ptr))
    BY <2>2, <2>4, LiveType, ReplaysFirst
  <2>8. /\ Copied' = Effect(Live(fresh, Rebuild_Ptr), Head(s))
        /\ Logged' = Tail(s)
        /\ Live(tree', Rebuild_Ptr') = Live(tree, Rebuild_Ptr)
    BY <1>1, <1>4, <2>1, RebuildPrimed
  <2>9. RebuildOK'
    BY <2>7, <2>8, RebuildPrimed
  <2>. QED
    BY <1>2, <1>3, <1>5, <1>6, <2>3, <2>6, <2>9 DEF MapOK
<1>. QED
  BY <1>7, <1>8

LEMMA ReplayKeepsMap ==
  ASSUME SearchInv, Types, MapOK, Replay
  PROVE  MapOK'
<1>1. /\ rpc = "replay" /\ rpc' = "drain" /\ job' = <<>>
      /\ fresh' = run_operation(fresh, Rebuild_Ptr, job)
      /\ UNCHANGED <<tree, Rebuild_Ptr, rebuild_flag, Rebuild_Logger, working_flag_mutex,
                     mpc, todo, level, asked>>
  BY DEF Replay, theTree, locks, operating
<1>2. AddsBelow' /\ ContentOK' /\ Path' = Path
  BY <1>1, MainStays
<1>3. TreeOK'
  BY <1>1, <1>2, TreePrimed DEF MapOK, TreeOK
<1>4. Replaying /\ Replaying'
  BY <1>1, FreshPrimed DEF Replaying
<1>5. LocksOK'
  BY <1>1 DEF MapOK, LocksOK, Held
<1>6. Rebuild_Ptr \in Level /\ fresh \in Sub(Rebuild_Ptr)
  BY <1>1, <1>4 DEF SearchInv, PointerOK, Rebuilding, Types, MapTypes, RebuildTypes
<1>7. job \in Fit(Rebuild_Ptr) /\ Rebuild_Logger \in Seq(Fit(Rebuild_Ptr))
  BY <1>1, <1>4 DEF MapOK, LogOK
<1>8. /\ Sound(fresh', Rebuild_Ptr)
      /\ \A n \in Rebuild_Ptr .. Depth : Dead(fresh', n)
      /\ Live(fresh', Rebuild_Ptr) = Effect(Live(fresh, Rebuild_Ptr), job)
  BY <1>1, <1>4, <1>6, <1>7, run_operationKeeps DEF MapOK, FreshOK
<1>9. FreshOK'
  BY <1>1, <1>8, FreshPrimed
<1>10. LogOK'
  BY <1>1, <1>7, LogPrimed
<1>11. InsideOK'
  BY <1>1, <1>4 DEF MapOK, InsideOK
<1>12. RebuildOK'
  <2>1. Copied' = Copied /\ Logged' = Logged /\ Live(tree', Rebuild_Ptr') = Live(tree, Rebuild_Ptr)
    BY <1>1, <1>8, RebuildPrimed DEF Copied, Logged, Locked
  <2>. QED
    BY <1>4, <2>1, RebuildPrimed DEF MapOK, RebuildOK
<1>. QED
  BY <1>2, <1>3, <1>5, <1>9, <1>10, <1>11, <1>12 DEF MapOK

-----------------------------------------------------------------------------
(* The copy. *)

\* A tree whose nodes from level t on have been replaced by a subtree that holds
\* the same points.
LEMMA GraftKeeps ==
  ASSUME NEW tr \in Sub(0), NEW new, NEW t \in Level, Sound(tr, 0), Sound(new, t),
         \A n \in 0 .. t - 1 : new[n] = tr[n],
         Live(new, t) = Live(tr, t)
  PROVE  /\ Sound(new, 0)
         /\ \A n \in 0 .. t : Live(new, n) = Live(tr, n)
         /\ \A n \in 0 .. t - 1 : Dead(tr, n) => Dead(new, n)
<1>1. t \in Nat /\ Depth \in Nat /\ t <= Depth
  BY LevelsAreInt DEF Level
<1>2. Sound(new, 0)
  <2>1. \A n \in 0 .. Depth : n \in 0 .. t - 1 \/ n \in t .. Depth
    BY <1>1
  <2>. QED
    BY <2>1 DEF Sound
<1>3. ASSUME NEW n \in 0 .. t PROVE Live(new, n) = Live(tr, n)
  <2>. SUFFICES ASSUME NEW p \in Point PROVE p \in Live(new, n) <=> p \in Live(tr, n)
    BY DEF Live
  <2>1. CASE Home[p] >= t
    <3>1. n \in Level /\ t \in n .. Depth
      BY <1>1 DEF Level
    <3>2. Clear(new, n, t) <=> Clear(tr, n, t)
      <4>1. \A m \in n .. t - 1 : m \in 0 .. t - 1
        BY <1>1
      <4>. QED
        BY <4>1 DEF Clear
    <3>3. p \in Live(new, n) <=> p \in Live(new, t) /\ Clear(new, n, t)
      BY <2>1, <3>1, LiveFrom
    <3>4. p \in Live(tr, n) <=> p \in Live(tr, t) /\ Clear(tr, n, t)
      BY <2>1, <3>1, LiveFrom
    <3>. QED
      BY <3>2, <3>3, <3>4
  <2>2. CASE Home[p] < t
    <3>1. Home[p] \in 0 .. t - 1
      BY <1>1, <2>2, HomeIs
    <3>2. \A m \in n .. Home[p] - 1 : m \in 0 .. t - 1
      BY <1>1, <3>1
    <3>. QED
      BY <3>1, <3>2 DEF Live, Clear
  <2>. QED
    BY <1>1, <2>1, <2>2, HomeIs
<1>4. \A n \in 0 .. t - 1 : Dead(tr, n) => Dead(new, n)
  <2>1. \A n \in 0 .. t - 1 : n \in 0 .. t
    BY <1>1
  <2>. QED
    BY <1>3, <2>1 DEF Dead
<1>. QED
  BY <1>2, <1>3, <1>4

\* flatten leaves nothing owed, and nothing changed.
LEMMA FlattenKeeps ==
  ASSUME NEW tr \in Sub(0), NEW t \in Level, Sound(tr, 0),
         NEW new,
         \A n \in t .. Depth :
           /\ new[n].valid = Settled(tr, t)[n].valid
           /\ new[n].tree_deleted <=> Settled(tr, t)[n].tree_deleted
           /\ ~new[n].need_push_down
  PROVE  /\ Sound(new, t)
         /\ Live(new, t) = Live(tr, t)
         /\ \A n \in t .. Depth : Dead(tr, n) => Dead(new, n)
<1>1. /\ t \in Nat /\ Depth \in Nat /\ 0 \in Level /\ t \in 0 .. Depth
      /\ \A n \in t .. Depth : n \in 0 .. Depth /\ n \in Level
  BY LevelsAreInt DEF Level
<1>2. Sound(tr, t)
  BY <1>1 DEF Sound
<1>3. \A n \in t .. Depth :
        /\ \A p \in Point : Home[p] = n => (p \in Settled(tr, t)[n].valid <=> p \in Live(tr, t))
        /\ \A p \in Settled(tr, t)[n].valid : p \in Point /\ Home[p] = n
  BY <1>1, <1>2, SettledLive
<1>4. Sound(new, t)
  BY <1>3 DEF Sound
<1>5. ASSUME NEW n \in t .. Depth, NEW p \in Point
      PROVE  p \in Live(new, n) <=> p \in Live(tr, t) /\ Home[p] >= n
  <2>1. CASE Home[p] >= n
    <3>1. Home[p] \in t .. Depth
      BY <1>1, <2>1, HomeIs
    <3>2. p \in new[Home[p]].valid <=> p \in Live(tr, t)
      BY <1>3, <3>1
    <3>3. \A m \in n .. Home[p] - 1 : m \in t .. Depth
      BY <1>1, <3>1
    <3>4. Clear(new, n, Home[p])
      BY <3>3 DEF Clear
    <3>. QED
      BY <2>1, <3>2, <3>4 DEF Live
  <2>2. CASE ~(Home[p] >= n)
    BY <2>2 DEF Live
  <2>. QED
    BY <2>1, <2>2
<1>6. Live(new, t) = Live(tr, t)
  <2>1. t \in t .. Depth
    BY <1>1
  <2>2. \A p \in Live(tr, t) : Home[p] >= t
    BY DEF Live
  <2>3. \A p \in Point : p \in Live(new, t) <=> p \in Live(tr, t)
    BY <1>5, <2>1, <2>2
  <2>. QED
    BY <2>3 DEF Live
<1>7. ASSUME NEW n \in t .. Depth, Dead(tr, n) PROVE Dead(new, n)
  <2>. SUFFICES ASSUME new[n].tree_deleted, NEW p \in Live(new, n) PROVE FALSE
    BY DEF Dead
  <2>1. p \in Point
    BY DEF Live
  <2>2. p \in Live(tr, t) /\ Home[p] >= n
    BY <1>5, <2>1
  <2>3. \A q \in Live(tr, t) : ~(Home[q] >= n)
    BY <1>1, <1>2, <1>7, DeadInside
  <2>. QED
    BY <2>2, <2>3
<1>. QED
  BY <1>4, <1>6, <1>7

LEMMA CopyKeepsMap ==
  ASSUME SearchInv, Types, MapOK, Copy, holes' = {}
  PROVE  MapOK'
<1>. DEFINE t == Rebuild_Ptr
            settled == Settled(tree, t)
            points == Flattened(tree, t)
<1>1. /\ rpc = "copy" /\ rpc' = "drain"
      /\ tree' = [n \in Level |-> IF n < t THEN tree[n]
                                  ELSE [settled[n] EXCEPT !.need_push_down = FALSE]]
      /\ fresh' = Built(points, t)
      /\ working_flag_mutex' = "free"
      /\ UNCHANGED <<Rebuild_Ptr, rebuild_flag, Rebuild_Logger, job, mpc, todo, level, asked>>
  <2>1. points # {}
    BY DEF Copy
  <2>. QED
    BY <2>1 DEF Copy, operating
<1>2. /\ t \in Level /\ t \in 0 .. Depth /\ 0 \in Level /\ tree \in Sub(0)
      /\ t \in Nat /\ Depth \in Nat /\ t \in t .. Depth
  BY <1>1, LevelsAreInt DEF SearchInv, PointerOK, Rebuilding, Types, MapTypes, Level
<1>3. settled \in Sub(t)
  BY <1>2, SettledIs
<1>4. Sound(tree, 0) /\ Sound(tree, t)
  <2>1. \A n \in t .. Depth : n \in 0 .. Depth
    BY <1>2
  <2>. QED
    BY <2>1 DEF MapOK, TreeOK, Sound
<1>5. points = Live(tree, t)
  BY <1>2, <1>4, FlattenedIsLive
<1>6. /\ Replaying' /\ ~Replaying /\ Rebuild_Logger = <<>> /\ mpc # "log" /\ mpc' # "log"
      /\ working_flag_mutex = "rebuild"
  BY <1>1, FreshPrimed DEF Replaying, MapOK, LocksOK, Held
<1>7. \A n \in t .. Depth :
        /\ tree'[n].valid = settled[n].valid
        /\ tree'[n].tree_deleted <=> settled[n].tree_deleted
        /\ ~tree'[n].need_push_down
  <2>. TAKE n \in t .. Depth
  <2>1. n \in Level /\ ~(n < t)
    BY <1>2 DEF Level
  <2>2. tree'[n] = [settled[n] EXCEPT !.need_push_down = FALSE]
    BY <1>1, <2>1
  <2>3. settled[n] \in Node
    BY <1>3 DEF Sub
  <2>. HIDE DEF settled
  <2>. QED
    BY <2>2, <2>3 DEF Node
<1>8. \A n \in 0 .. t - 1 : tree'[n] = tree[n]
  BY <1>1, <1>2 DEF Level
<1>9. /\ Sound(tree', t)
      /\ Live(tree', t) = Live(tree, t)
      /\ \A n \in t .. Depth : Dead(tree, n) => Dead(tree', n)
  BY <1>2, <1>4, <1>7, FlattenKeeps
<1>10. /\ Sound(tree', 0)
       /\ \A n \in 0 .. t : Live(tree', n) = Live(tree, n)
       /\ \A n \in 0 .. t - 1 : Dead(tree, n) => Dead(tree', n)
  BY <1>2, <1>4, <1>8, <1>9, GraftKeeps
<1>11. AddsBelow' /\ ContentOK' /\ Path' = Path
  <2>1. Live(tree', 0) = Live(tree, 0)
    BY <1>2, <1>10
  <2>. QED
    BY <1>1, <2>1, MainStays
<1>12. TreeOK'
  <2>1. \A n \in Level : n \in 0 .. t - 1 \/ n \in t .. Depth
    BY <1>2 DEF Level
  <2>2. \A n \in Level : n >= Path => Dead(tree', n)
    BY <1>9, <1>10, <2>1 DEF MapOK, TreeOK
  <2>3. \A n \in Level : n < Path => ~tree'[n].need_push_down
    BY <1>7, <1>8, <2>1 DEF MapOK, TreeOK
  <2>. QED
    BY <1>10, <1>11, <2>2, <2>3, TreePrimed
<1>13. LocksOK'
  BY <1>1, <1>6 DEF MapOK, LocksOK, Held
<1>14. /\ Sound(fresh', t) /\ Live(fresh', t) = points
       /\ \A n \in t .. Depth : ~fresh'[n].need_push_down /\ Dead(fresh', n)
  <2>. HIDE DEF points
  <2>1. points \in SUBSET Point /\ \A p \in points : Home[p] >= t
    BY <1>5 DEF Live
  <2>2. /\ Sound(Built(points, t), t)
        /\ Live(Built(points, t), t) = points
        /\ \A n \in t .. Depth : /\ ~Built(points, t)[n].need_push_down
                                 /\ Dead(Built(points, t), n)
    BY <1>2, <2>1, BuiltKeeps
  <2>. QED
    BY <1>1, <2>2
<1>. HIDE DEF points, settled
<1>15. FreshOK'
  BY <1>1, <1>14, FreshPrimed
<1>16. InsideOK'
  BY <1>1, <1>6, <1>14 DEF InsideOK
<1>17. LogOK'
  BY <1>1, <1>6, LogPrimed, EmptySeq
<1>18. RebuildOK'
  <2>1. Copied' = Live(tree, t) /\ Logged' = <<>> /\ Live(tree', Rebuild_Ptr') = Live(tree, t)
    BY <1>1, <1>5, <1>6, <1>9, <1>14, RebuildPrimed
  <2>2. Replays(Live(tree, t), <<>>, Live(tree, t))
    BY LiveType, ReplaysNothing
  <2>. QED
    BY <2>1, <2>2, RebuildPrimed
<1>. QED
  BY <1>11, <1>12, <1>13, <1>15, <1>16, <1>17, <1>18 DEF MapOK

-----------------------------------------------------------------------------
(* The swap. *)

\* The ancestors of the new subtree are left alone, or updated from one of
\* them on.
LEMMA RefreshedIs ==
  ASSUME NEW tr, NEW t \in Nat
  PROVE  \/ Refreshed(tr, t) = tr
         \/ \E x \in 0 .. t - 1 : Refreshed(tr, t) = Update(tr, x, t - 1)
<1>. DEFINE reached == {n \in 0 .. t - 1 : \A k \in n .. t - 1 :
                                              /\ ~tr[k].working_flag
                                              /\ k > 0 => ~tr[k - 1].need_push_down}
<1>1. Refreshed(tr, t) = IF reached = {} THEN tr ELSE Update(tr, Min(reached), t - 1)
  BY DEF Refreshed
<1>2. reached \in SUBSET Nat /\ reached \subseteq 0 .. t - 1
  OBVIOUS
<1>. HIDE DEF reached
<1>3. CASE reached = {}
  BY <1>1, <1>3
<1>4. CASE reached # {}
  <2>1. Min(reached) \in 0 .. t - 1
    BY <1>2, <1>4, MinIs
  <2>. QED
    BY <1>1, <1>4, <2>1
<1>. QED
  BY <1>3, <1>4

\* It leaves alone, too, what lives, if no mark is withdrawn.
LEMMA RefreshedKeeps ==
  ASSUME NEW t \in Level, NEW tr \in Sub(0), Sound(tr, 0), Dead(tr, t), NEW new,
         new = Refreshed(tr, t),
         \A n \in Level : tr[n].need_push_down => new[n] = tr[n]
  PROVE  /\ Sound(new, 0)
         /\ \A n \in Level : Live(new, n) = Live(tr, n)
         /\ \A n \in Level : Dead(tr, n) => Dead(new, n)
         /\ \A n \in Level : new[n].need_push_down <=> tr[n].need_push_down
<1>1. t \in Nat /\ Depth \in Nat /\ t <= Depth /\ 0 \in Level /\ Level = 0 .. Depth
  BY LevelsAreInt DEF Level
<1>2. CASE new = tr
  BY <1>2
<1>3. CASE new # tr
  <2>1. PICK x \in 0 .. t - 1 : new = Update(tr, x, t - 1)
    BY <1>1, <1>3, RefreshedIs
  <2>2. \A n \in Level :
          /\ new[n].valid = tr[n].valid
          /\ new[n].need_push_down = tr[n].need_push_down
          /\ n \notin x .. t - 1 => new[n] = tr[n]
          /\ n \in x .. t - 1 => (new[n].tree_deleted <=>
                                    /\ \A k \in n .. t - 1 : tr[k].valid = {}
                                    /\ t - 1 < Depth => tr[t - 1 + 1].tree_deleted)
    BY <1>1, <2>1, UpdatedNodes
  <2>3. x \in 0 .. Depth /\ t - 1 \in Int /\ x <= t - 1 + 1 /\ t - 1 <= Depth /\ t - 1 + 1 = t
    BY <1>1
  <2>4. \A n \in x .. t - 1 : n \in Level
    BY <1>1
  <2>5. \A n \in x .. t - 1 : new[n].need_push_down => new[n].tree_deleted
    BY <1>1, <2>2, <2>4 DEF Sound
  <2>6. /\ \A n \in x .. t - 1 : Dead(new, n)
        /\ \A n \in Level : n \notin x .. t - 1 => (Dead(tr, n) <=> Dead(new, n))
        /\ Sound(new, 0)
    <3>1. PICK m \in Int : m = t - 1
      BY <1>1
    <3>2. PICK a \in Level : a = 0
      BY <1>1
    <3>3. x \in a .. Depth /\ x <= m + 1 /\ m <= Depth /\ Sound(tr, a)
      BY <2>3, <3>1, <3>2
    <3>4. m < Depth => Dead(tr, m + 1)
      BY <2>3, <3>1
    <3>5. \A n \in a .. Depth :
            /\ new[n].valid = tr[n].valid
            /\ new[n].need_push_down <=> tr[n].need_push_down
            /\ n \notin x .. m => new[n] = tr[n]
            /\ n \in x .. m => (new[n].tree_deleted <=>
                                  /\ \A k \in n .. m : tr[k].valid = {}
                                  /\ m < Depth => tr[m + 1].tree_deleted)
      BY <1>1, <2>2, <3>1, <3>2
    <3>6. \A n \in x .. m : new[n].need_push_down => new[n].tree_deleted
      BY <2>5, <3>1
    <3>7. /\ Live(new, a) = Live(tr, a)
          /\ \A n \in x .. m : Dead(new, n)
          /\ \A n \in a .. Depth : n \notin x .. m => (Dead(tr, n) <=> Dead(new, n))
          /\ (\A n \in x .. m : new[n].need_push_down => new[n].tree_deleted) => Sound(new, a)
      BY ONLY a \in Level, m \in Int, <3>3, <3>4, <3>5, UpdateKeeps
    <3>. QED
      BY <1>1, <3>1, <3>2, <3>6, <3>7
  <2>7. \A n \in Level : Live(new, n) = Live(tr, n)
    <3>. TAKE n \in Level
    <3>1. \A m \in n .. Depth : m \in Level
      BY <1>1
    <3>2. \A m \in n .. Depth : /\ new[m].valid = tr[m].valid
                                /\ new[m].need_push_down <=> tr[m].need_push_down
      BY <2>2, <3>1
    <3>. QED
      BY <3>2, LiveSame
  <2>. QED
    BY <2>2, <2>6, <2>7
<1>. QED
  BY <1>2, <1>3

LEMMA SwapKeepsMap ==
  ASSUME SearchInv, Types, MapOK, Swap, holes' = {}
  PROVE  MapOK'
<1>. DEFINE t == Rebuild_Ptr
            swapped == [n \in Level |-> IF n < t THEN tree[n] ELSE fresh[n]]
<1>1. /\ rpc = "swap" /\ rpc' = "unlock"
      /\ tree' = Refreshed(swapped, t)
      /\ \A n \in Level : swapped[n].need_push_down => tree'[n] = swapped[n]
      /\ UNCHANGED <<Rebuild_Ptr, rebuild_flag, Rebuild_Logger, working_flag_mutex,
                     fresh, job, mpc, todo, level, asked>>
  <2>1. ~ \E n \in Level : swapped[n].need_push_down /\ tree'[n] # swapped[n]
    BY Zenon DEF Swap
  <2>2. rpc = "swap" /\ rpc' = "unlock" /\ tree' = Refreshed(swapped, t)
    BY DEF Swap
  <2>3. UNCHANGED <<Rebuild_Ptr, rebuild_flag, Rebuild_Logger, working_flag_mutex,
                    fresh, job, mpc, todo, level, asked>>
    BY DEF Swap, locks, operating
  <2>. HIDE DEF swapped
  <2>. QED
    BY <2>1, <2>2, <2>3
<1>2. /\ t \in Level /\ 0 \in Level /\ tree \in Sub(0) /\ fresh \in Sub(t)
      /\ t \in Nat /\ Depth \in Nat /\ t # None /\ t <= Depth /\ Level = 0 .. Depth
  BY <1>1, LevelsAreInt
     DEF SearchInv, PointerOK, Rebuilding, Types, MapTypes, RebuildTypes, Replaying, Level
<1>3. /\ Replaying /\ rpc # "replay" /\ Rebuild_Logger = <<>> /\ mpc # "log"
      /\ mpc = "lock" => t = level
  BY <1>1, <1>2 DEF Replaying, MapOK, LocksOK, Held
<1>4. Live(fresh, t) = Live(tree, t)
  <2>1. Replays(Live(fresh, t), <<>>, Live(tree, t))
    BY <1>3 DEF MapOK, RebuildOK, Copied, Logged
  <2>. QED
    BY <2>1, LiveType, ReplaysNothing
<1>5. /\ \A n \in 0 .. t - 1 : swapped[n] = tree[n]
      /\ \A n \in t .. Depth : swapped[n] = fresh[n]
  BY <1>2
<1>6. swapped \in Sub(0)
  <2>1. \A n \in Level : (n < t => tree[n] \in Node) /\ (~(n < t) => fresh[n] \in Node)
    BY <1>2 DEF Sub
  <2>. QED
    BY <2>1 DEF Sub, Level
<1>. HIDE DEF swapped
<1>7. \A n \in t .. Depth : Live(swapped, n) = Live(fresh, n) /\ Dead(swapped, n)
  <2>. TAKE n \in t .. Depth
  <2>1. n \in Level /\ \A m \in n .. Depth : m \in t .. Depth
    BY <1>2
  <2>2. Live(swapped, n) = Live(fresh, n)
    BY <1>5, <2>1, LiveSame
  <2>3. Dead(fresh, n)
    BY <1>3 DEF MapOK, FreshOK
  <2>. QED
    BY <1>5, <2>2, <2>3 DEF Dead
<1>8. /\ Sound(swapped, 0)
      /\ \A n \in 0 .. t : Live(swapped, n) = Live(tree, n)
      /\ \A n \in 0 .. t - 1 : Dead(tree, n) => Dead(swapped, n)
  <2>1. Sound(tree, 0) /\ Sound(fresh, t)
    BY <1>3 DEF MapOK, TreeOK, FreshOK
  <2>2. Sound(swapped, t)
    BY <1>5, <2>1 DEF Sound
  <2>3. t \in t .. Depth
    BY <1>2
  <2>4. Live(swapped, t) = Live(tree, t)
    BY <1>4, <1>7, <2>3
  <2>. QED
    BY <1>2, <1>5, <2>1, <2>2, <2>4, GraftKeeps
<1>9. /\ Sound(tree', 0)
      /\ \A n \in Level : Live(tree', n) = Live(swapped, n)
      /\ \A n \in Level : Dead(swapped, n) => Dead(tree', n)
      /\ \A n \in Level : tree'[n].need_push_down <=> swapped[n].need_push_down
  <2>1. Dead(swapped, t)
    BY <1>2, <1>7
  <2>. QED
    BY <1>1, <1>2, <1>6, <1>8, <2>1, RefreshedKeeps
<1>10. AddsBelow' /\ ContentOK' /\ Path' = Path
  <2>1. Live(tree', 0) = Live(tree, 0)
    BY <1>2, <1>8, <1>9
  <2>. QED
    BY <1>1, <2>1, MainStays
<1>11. TreeOK'
  <2>1. \A n \in Level : n \in 0 .. t - 1 \/ n \in t .. Depth
    BY <1>2
  <2>2. \A n \in Level : n >= Path => Dead(tree', n)
    BY <1>7, <1>8, <1>9, <2>1 DEF MapOK, TreeOK
  <2>3. ASSUME NEW n \in t .. Depth, n < Path PROVE ~fresh[n].need_push_down
    <3>1. level \in Nat
      BY LevelsAreInt DEF Types, CallTypes
    <3>2. mpc \in {"down", "up"} /\ level >= t
      BY <1>2, <1>3, <2>3, <3>1 DEF Path
    <3>. QED
      BY <1>3, <3>2 DEF MapOK, InsideOK
  <2>4. \A n \in Level : n < Path => ~tree'[n].need_push_down
    BY <1>5, <1>9, <2>1, <2>3 DEF MapOK, TreeOK
  <2>. QED
    BY <1>9, <1>10, <2>2, <2>4, TreePrimed
<1>12. LocksOK'
  BY <1>1 DEF MapOK, LocksOK, Held
<1>13. ~Replaying'
  BY <1>1, FreshPrimed
<1>14. FreshOK' /\ LogOK' /\ InsideOK' /\ RebuildOK'
  BY <1>13 DEF FreshOK, LogOK, InsideOK, RebuildOK
<1>. QED
  BY <1>10, <1>11, <1>12, <1>14 DEF MapOK

-----------------------------------------------------------------------------
(* The map as it was asked for. *)

\* A gap that a rebuild has fallen into stays named.
LEMMA HolesStay == [Next]_vars => holes \subseteq holes'
<1>. SUFFICES ASSUME [Next]_vars PROVE holes \subseteq holes'
  OBVIOUS
<1>1. CASE UNCHANGED vars
  BY <1>1 DEF vars
<1>2. CASE Call \/ SearchAll
  BY <1>2 DEF Call, SearchAll
<1>3. CASE Main
  <2>1. CASE Descend
    BY <2>1 DEF Descend
  <2>2. CASE SearchPushDown("main")
    BY <2>2 DEF SearchPushDown
  <2>. QED
    BY <1>3, <2>1, <2>2 DEF Main, Search_by_range, Downsample, TestRoot, Operate, Log,
                            PushDownLocked, Ascent, SearchedAll
<1>4. CASE Rebuilder
  <2>1. CASE Swap
    BY <2>1, Zenon DEF Swap
  <2>2. CASE Copy
    <3>1. holes' \in {holes, holes \cup {"nothing copied"}}
      BY <2>2 DEF Copy
    <3>. QED
      BY <3>1
  <2>. QED
    BY <1>4, <2>1, <2>2 DEF Rebuilder, BeginRebuild, LockSearch, Drain, Replay, EndSwap,
                            ClearFlag, delete_tree_nodes
<1>5. ASSUME NEW r \in Searcher, Search(r) PROVE holes \subseteq holes'
  BY <1>5 DEF Search, ReadBox, TestRebuildPtr, EnterSearch, LeaveSearch, SearchPushDown
<1>. QED
  BY <1>1, <1>2, <1>3, <1>4, <1>5 DEF Next

LEMMA MainKeepsMap ==
  ASSUME SearchInv, Types, MapOK, Call \/ SearchAll \/ Main, holes' = {}
  PROVE  MapOK'
<1>1. CASE Call \/ SearchAll \/ Search_by_range \/ Downsample \/ SearchedAll
  <2>1. mpc \in Waiting /\ mpc' \in Waiting
    <3>1. CASE Call
      BY <3>1 DEF Call, Add_Points, Delete_Point_Boxes, Add_Points_downsampled, Waiting
    <3>2. CASE Downsample
      BY <3>2, Zenon DEF Downsample, Waiting
    <3>. QED
      BY <1>1, <3>1, <3>2 DEF SearchAll, Search_by_range, SearchedAll, Waiting
  <2>2. UNCHANGED <<theTree, working_flag_mutex, rebuilding, asked>>
    BY <1>1 DEF Call, SearchAll, Search_by_range, Downsample, SearchedAll, locks
  <2>. QED
    BY <2>1, <2>2, MapWaits
<1>2. CASE TestRoot
  BY <1>2, TestRootKeepsMap
<1>3. CASE Operate \/ Log
  BY <1>3, OperateKeepsMap, LogKeepsMap
<1>4. CASE PushDownLocked
  BY <1>4, PushDownLockedKeepsMap
<1>5. CASE Descend \/ Ascent
  BY <1>5, DescendKeepsMap, AscentKeepsMap
<1>6. CASE SearchPushDown("main")
  BY <1>6, SearchPushDownKeepsMap DEF Reader
<1>. QED
  BY <1>1, <1>2, <1>3, <1>4, <1>5, <1>6 DEF Main

LEMMA SearchKeepsMap ==
  ASSUME SearchInv, Types, MapOK, NEW r \in Searcher, Search(r)
  PROVE  MapOK'
<1>1. CASE ReadBox(r) \/ TestRebuildPtr(r) \/ EnterSearch(r) \/ LeaveSearch(r)
  <2>1. UNCHANGED <<theTree, working_flag_mutex, rebuilding, operating>>
    BY <1>1 DEF ReadBox, TestRebuildPtr, EnterSearch, LeaveSearch, locks
  <2>2. UNCHANGED <<mpc, todo, level, asked>>
    BY <2>1 DEF operating
  <2>. QED
    BY <2>1, <2>2, MapSame
<1>2. CASE SearchPushDown(r)
  BY <1>2, SearchPushDownKeepsMap DEF Reader
<1>. QED
  BY <1>1, <1>2 DEF Search

LEMMA NextKeepsMap ==
  ASSUME SearchInv, Types, MapOK, [Next]_vars, holes' = {}
  PROVE  MapOK'
<1>1. CASE UNCHANGED vars
  BY <1>1, MapSame DEF vars, locks, operating
<1>2. CASE Call \/ SearchAll \/ Main
  BY <1>2, MainKeepsMap
<1>3. CASE Rebuilder
  BY <1>3, QuietKeepsMap, CopyKeepsMap, DrainKeepsMap, ReplayKeepsMap, SwapKeepsMap DEF Rebuilder
<1>4. CASE \E r \in Searcher : Search(r)
  BY <1>4, SearchKeepsMap
<1>. QED
  BY <1>1, <1>2, <1>3, <1>4 DEF Next

\* "Rebuild and update missed operations" (ikd_Tree.cpp:279): whatever the
\* rebuild thread is doing, between two calls the map holds exactly the points
\* that the calls have left in it, unless a rebuild has fallen into one of the
\* gaps that holes names.
THEOREM MapHoldsWhatWasAsked == Spec => []MapAsAsked
<1>. DEFINE MapInv == holes = {} => MapOK
<1>1. Init => MapInv
  BY InitMapOK
<1>2. SearchInv /\ Types /\ MapInv /\ [Next]_vars => MapInv'
  <2>. SUFFICES ASSUME SearchInv, Types, holes = {} => MapOK, [Next]_vars, holes' = {}
                PROVE  MapOK'
    OBVIOUS
  <2>1. holes = {}
    BY HolesStay
  <2>. QED
    BY <2>1, NextKeepsMap
<1>3. SearchInv /\ Types /\ MapInv => MapAsAsked
  <2>. SUFFICES ASSUME Types, MapOK, AtRest PROVE Flattened(tree, 0) = asked
    BY DEF MapAsAsked, MissedOperationsReplayed
  <2>1. 0 \in Level /\ 0 \in 0 .. Depth /\ tree \in Sub(0) /\ Sound(tree, 0)
    BY LevelsAreInt DEF Types, MapTypes, MapOK, TreeOK
  <2>2. Live(tree, 0) = asked
    BY DEF MapOK, ContentOK, AtRest, Waiting
  <2>. QED
    BY <2>1, <2>2, FlattenedIsLive
<1>. QED
  BY <1>1, <1>2, <1>3, MapTypesHold, PTL DEF Spec
=============================================================================
