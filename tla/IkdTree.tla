------------------------------ MODULE IkdTree ------------------------------
(***************************************************************************)
(* The map of FAST_LIO: the incremental k-d tree of ikd_Tree.cpp, whose     *)
(* large unbalanced subtrees are rebuilt by a thread of their own while the *)
(* main thread goes on adding, deleting and searching points.               *)
(*                                                                          *)
(* The rebuild thread copies a subtree, builds a balanced one from the      *)
(* copy, replays on it the operations the main thread has logged meanwhile, *)
(* and puts it in the old one's place.                                      *)
(*                                                                          *)
(* The tree is seen along one path of nodes that are large enough to be     *)
(* rebuilt in the background: level 0 is Root_Node, level n + 1 the son of  *)
(* level n on the path.  What else hangs on a node, its own point and its   *)
(* other son, is its bucket; Home says in whose bucket a point belongs.     *)
(* Deletion is lazy along the path, as in the code: a node marked as        *)
(* deleted owes its son a Push_Down.  Coordinates, distances and sizes are  *)
(* left out; whether a node asks to be rebuilt is a free choice.            *)
(***************************************************************************)
EXTENDS Integers, SequencesExt

CONSTANTS Point,    \* the points that are ever added
          Initial,  \* those of the first scan, with which the tree is built
          Depth,    \* the last level of the path
          Home,     \* the level in whose bucket a point belongs
          Boxes,    \* what falls outside the local map: sets of points
          Cells,    \* the downsampling cells: disjoint sets of points
          Searcher, \* the threads that search in parallel
          MaxCalls  \* bound of the model on the calls of the main thread

ASSUME IkdAssumption ==
  /\ Depth \in Nat
  /\ Initial \subseteq Point
  /\ Home \in [Point -> 0 .. Depth]
  /\ Boxes \subseteq SUBSET Point
  /\ Cells \subseteq SUBSET Point
  /\ MaxCalls \in Nat
  /\ IsFiniteSet(Searcher) /\ "main" \notin Searcher

Level == 0 .. Depth
None == Depth + 1    \* a null Rebuild_Ptr

Operation == [op : {"ADD_POINT", "DELETE_BOX", "DOWNSAMPLE_DELETE", "PUSH_DOWN"},
              box : SUBSET Point,
              tree_deleted : BOOLEAN]

Node == [valid : SUBSET Point,       \* points of the bucket that a search finds
         deleted : SUBSET Point,     \* points deleted, but still nodes
         tree_deleted : BOOLEAN,
         need_push_down : BOOLEAN,
         working_flag : BOOLEAN]

Reader == Searcher \cup {"main"}

VARIABLES
  tree,                 \* the nodes of the path
  Rebuild_Ptr,          \* the level whose rebuild was asked for, or None
  rebuild_flag,
  Rebuild_Logger,
  working_flag_mutex,   \* who holds it: "free", "main" or "rebuild"
  search_mutex_counter, \* searches inside the subtree, or -1
  rpc,                  \* where the rebuild thread is
  fresh,                \* the subtree it builds
  job,                  \* the operation it replays
  mpc,                  \* where the main thread is
  todo,                 \* the operations of its call that are left
  level,                \* the node its operation is at
  reader,               \* what each reader is doing
  stale,                \* the readers that are in a replaced subtree, or read its box
  calls,                \* calls made so far
  asked,                \* the points the completed operations leave
  holes                 \* how the rebuild has gone wrong so far, if it has

theTree == <<tree, Rebuild_Ptr, rebuild_flag, Rebuild_Logger>>
locks == <<working_flag_mutex, search_mutex_counter>>
rebuilding == <<rpc, fresh, job>>
operating == <<mpc, todo, level, calls, asked>>
reading == <<reader, stale>>
vars == <<theTree, locks, rebuilding, operating, reading, holes>>

\* The level of a point in a subtree that starts at level t.
Place(p, t) == IF Home[p] < t THEN t ELSE Home[p]

\* What BuildTree and Update make of a set of points, from level t on.
Built(points, t) ==
  [n \in t .. Depth |->
     [valid |-> {p \in points : Place(p, t) = n}, deleted |-> {},
      tree_deleted |-> \A p \in points : Place(p, t) < n,
      need_push_down |-> FALSE, working_flag |-> FALSE]]

Init ==
  /\ tree = Built(Initial, 0)
  /\ Rebuild_Ptr = None
  /\ rebuild_flag = FALSE
  /\ Rebuild_Logger = <<>>
  /\ working_flag_mutex = "free"
  /\ search_mutex_counter = 0
  /\ rpc = "idle"
  /\ fresh = <<>>
  /\ job = <<>>
  /\ mpc = "rest"
  /\ todo = <<>>
  /\ level = 0
  /\ reader = [r \in Reader |-> "out"]
  /\ stale = {}
  /\ calls = 0
  /\ asked = Initial
  /\ holes = {}

-----------------------------------------------------------------------------
(* The tree. *)

\* What a node takes over from its father when the father's mark is pushed
\* down to it.  A mark that was withdrawn revives what is deleted.
Inherit(node, dead, n) ==
  [node EXCEPT !.tree_deleted = dead,
               !.valid = IF dead THEN {} ELSE @ \cup node.deleted,
               !.deleted = IF dead THEN @ \cup node.valid ELSE {},
               !.need_push_down = n < Depth]

Push_Down(tr, n) ==
  IF n < Depth /\ tr[n].need_push_down
  THEN [tr EXCEPT ![n].need_push_down = FALSE,
                  ![n + 1] = Inherit(@, tr[n].tree_deleted, n + 1)]
  ELSE tr

\* The nodes from level t on when flatten, or a search, has pushed down
\* every mark on its way: the uppermost one reaches all that is below it.
Settled(tr, t) ==
  LET owing(n) == {m \in t .. n - 1 : tr[m].need_push_down}
  IN  [n \in t .. Depth |->
         IF owing(n) = {} THEN tr[n] ELSE Inherit(tr[n], tr[Min(owing(n))].tree_deleted, n)]

Flattened(tr, t) == UNION {Settled(tr, t)[n].valid : n \in t .. Depth}

\* Update of the nodes from level m up to level t: a node is deleted if its
\* bucket and its son are.
Update(tr, t, m) ==
  [n \in DOMAIN tr |->
     IF n \in t .. m
     THEN [tr[n] EXCEPT !.tree_deleted = /\ \A k \in n .. m : tr[k].valid = {}
                                         /\ m < Depth => tr[m + 1].tree_deleted]
     ELSE tr[n]]

\* The main thread also leaves the nodes it updates.
UpdateAndLeave(tr, t, m) ==
  [n \in DOMAIN tr |-> IF n \in t .. m
                       THEN [Update(tr, t, m)[n] EXCEPT !.working_flag = FALSE]
                       ELSE tr[n]]

\* The points that a delete finds from level n on, in settled nodes.
Inside(settled, n) == UNION {settled[m].valid : m \in n .. Depth}

\* What an operation does at a node before its recursive calls.  A delete
\* turns back at a deleted node, at one that holds none of its points, and at
\* one that it covers, which it only marks.  A cell is too small to cover a
\* node of the path.
Turn(node, inside, o, n) ==
  IF o.op = "ADD_POINT"
  THEN IF \E p \in o.box : Home[p] <= n THEN "update" ELSE "son"
  ELSE CASE node.tree_deleted -> "deleted"
         [] ~node.tree_deleted /\ inside \cap o.box = {} -> "outside"
         [] ~node.tree_deleted /\ inside # {} /\ inside \subseteq o.box
            /\ o.op = "DELETE_BOX" -> "covered"
         [] OTHER -> IF n < Depth THEN "son" ELSE "update"

Change(node, turn, o, n) ==
  LET entered == [node EXCEPT !.working_flag = TRUE, !.need_push_down = FALSE]
      struck == node.valid \cap o.box
  IN  CASE turn = "deleted" -> node
        [] turn = "outside" -> entered
        [] turn = "covered" -> [entered EXCEPT !.tree_deleted = TRUE,
                                               !.need_push_down = n < Depth,
                                               !.deleted = @ \cup node.valid,
                                               !.valid = {}]
        [] turn \in {"son", "update"} ->
             IF o.op = "ADD_POINT"
             THEN [entered EXCEPT !.valid = @ \cup {p \in o.box : Home[p] <= n}]
             ELSE [entered EXCEPT !.valid = @ \ o.box,
                                  !.deleted = IF o.op = "DELETE_BOX" THEN @ \cup struck ELSE @]

\* An operation at the nodes t to m of the path, at the last of which it takes
\* the given turn.  It has pushed down the marks it met, also to the next node.
Operated(tr, t, m, turn, o) ==
  LET settled == Settled(tr, t)
      reached == IF turn = "deleted" THEN m ELSE m + 1
  IN  [n \in DOMAIN tr |->
         CASE n < t \/ n > reached -> tr[n]
           [] n \in t .. m - 1 -> Change(settled[n], "son", o, n)
           [] n = m -> Change(settled[n], turn, o, n)
           [] n = m + 1 /\ n = reached -> settled[n]]

\* The turn of an operation at node n, reached from node t.
TurnAt(tr, t, n, o) ==
  Turn(Settled(tr, t)[n], Inside(Settled(tr, t), n), o, n)

\* A whole operation on the subtree from level t on, which nobody rebuilds:
\* it goes down to where it turns back and updates the nodes on its way up.
OperateDeep(tr, t, o) ==
  LET last == Min({n \in t .. Depth : TurnAt(tr, t, n, o) # "son"})
      turn == TurnAt(tr, t, last, o)
  IN  UpdateAndLeave(Operated(tr, t, last, turn, o), t,
                     IF turn = "update" THEN last ELSE last - 1)

run_operation(tr, t, o) ==
  IF o.op = "PUSH_DOWN" THEN [tr EXCEPT ![t] = Inherit(@, o.tree_deleted, t)]
  ELSE OperateDeep(tr, t, o)

OperateAll(tr, t, ops) == FoldLeft(LAMBDA acc, o : OperateDeep(acc, t, o), tr, ops)

-----------------------------------------------------------------------------
(* The main thread: one call after another, of Add_Points,                  *)
(* Delete_Point_Boxes or, in parallel, Nearest_Search.                      *)

Request(op, box) == [op |-> op, box |-> box, tree_deleted |-> FALSE]

After(points, o) == IF o.op = "ADD_POINT" THEN points \cup o.box ELSE points \ o.box

\* Add_Points without downsampling, one point.
Add_Points(p) ==
  /\ todo' = <<Request("ADD_POINT", {p})>>
  /\ mpc' = "test"

\* Delete_Point_Boxes, one box.
Delete_Point_Boxes(box) ==
  /\ todo' = <<Request("DELETE_BOX", box)>>
  /\ mpc' = "test"

\* Add_Points with downsampling looks first for the points of the cell.
Add_Points_downsampled(p, cell) ==
  /\ p \in cell
  /\ todo' = <<Request("DOWNSAMPLE_DELETE", cell), Request("ADD_POINT", {p})>>
  /\ mpc' = "range"

Call ==
  /\ mpc = "rest"
  /\ calls < MaxCalls
  /\ calls' = calls + 1
  /\ \/ \E p \in Point : Add_Points(p)
     \/ \E box \in Boxes : Delete_Point_Boxes(box)
     \/ \E cell \in Cells, p \in Point : Add_Points_downsampled(p, cell)
  /\ UNCHANGED <<theTree, locks, rebuilding, reading, holes, level, asked>>

\* Search_by_range enters the tree.  It takes the mutex of the searches, not
\* their counter, around the son that is being rebuilt, and nothing at all
\* if that is the root.
Search_by_range ==
  /\ mpc = "range"
  /\ mpc' = "ranging"
  /\ reader' = [reader EXCEPT !["main"] = IF Rebuild_Ptr \in 1 .. Depth
                                          THEN "locked" ELSE "bare"]
  /\ UNCHANGED <<theTree, locks, rebuilding, stale, holes, todo, level, calls, asked>>

\* The points found decide: the one nearest to the middle of the cell is to
\* be the only one left.
Downsample ==
  /\ mpc = "ranging"
  /\ reader' = [reader EXCEPT !["main"] = "out"]
  /\ stale' = stale \ {"main"}
  /\ LET cell == todo[1].box
         p == todo[2].box
         found == Flattened(tree, 0) \cap cell
     IN  \E nearest \in p \cup found :
           IF {nearest} = p \/ \E q, r \in found : q # r
           THEN /\ todo' = (IF found = {} THEN <<>> ELSE <<todo[1]>>)
                            \o <<Request("ADD_POINT", {nearest})>>
                /\ mpc' = "test"
           ELSE /\ todo' = <<>>
                /\ mpc' = "rest"
  /\ UNCHANGED <<theTree, locks, rebuilding, holes, level, calls, asked>>

\* The test whether the root is being rebuilt, once for all that is to do.
TestRoot ==
  /\ mpc = "test"
  /\ level' = 0
  /\ mpc' = IF Rebuild_Ptr = 0 THEN "lock" ELSE "down"
  /\ UNCHANGED <<theTree, locks, rebuilding, reading, holes, todo, calls, asked>>

\* The operations done under the lock: all of them on the root, otherwise
\* the one whose turn it is.
Locked == IF level = 0 THEN todo ELSE <<Head(todo)>>

\* The operation is done: on to the next one, which is not tested again.
Finish(ops) ==
  /\ asked' = FoldLeft(After, asked, ops)
  /\ todo' = SubSeq(todo, Len(ops) + 1, Len(todo))
  /\ mpc' = IF Len(ops) = Len(todo) THEN "rest" ELSE "down"
  /\ level' = 0

\* A faulty ascent that does not stop at the root.
AscendFaulty(n) ==
  /\ level' = n - 1
  /\ mpc' = "up"
  /\ UNCHANGED <<todo, asked>>

\* One level up, or done.
Ascend(n) ==
  IF n = 0 THEN Finish(<<Head(todo)>>)
  ELSE /\ level' = n - 1
       /\ mpc' = "up"
       /\ UNCHANGED <<todo, asked>>

\* The subtree may be being rebuilt: it is changed under the lock ...
Operate ==
  /\ mpc = "lock"
  /\ working_flag_mutex = "free"
  /\ working_flag_mutex' = "main"
  /\ tree' = OperateAll(tree, level, Locked)
  /\ mpc' = "log"
  /\ UNCHANGED <<Rebuild_Ptr, rebuild_flag, Rebuild_Logger, search_mutex_counter,
                 rebuilding, reading, holes, todo, level, calls, asked>>

\* ... and the change logged, if the copy has been or is about to be taken.
Log ==
  /\ mpc = "log"
  /\ Rebuild_Logger' = IF rebuild_flag THEN Rebuild_Logger \o Locked ELSE Rebuild_Logger
  /\ working_flag_mutex' = "free"
  /\ IF level = 0 THEN Finish(todo) ELSE Ascend(level)
  /\ UNCHANGED <<tree, Rebuild_Ptr, rebuild_flag, search_mutex_counter, rebuilding,
                 reading, holes, calls>>

\* Push_Down at level n: what is owed to the subtree that is being rebuilt is
\* handed over under the lock, and logged.
PushDown(tr, n) ==
  /\ tree' = Push_Down(tr, n)
  /\ IF Rebuild_Ptr # n + 1 THEN UNCHANGED Rebuild_Logger
     ELSE /\ working_flag_mutex = "free"
          /\ Rebuild_Logger' =
               IF rebuild_flag
               THEN Append(Rebuild_Logger, [op |-> "PUSH_DOWN", box |-> {},
                                            tree_deleted |-> tr[n].tree_deleted])
               ELSE Rebuild_Logger

\* The mark a node owes to the son that may be being rebuilt.
PushDownLocked ==
  /\ mpc = "down"
  /\ level < Depth /\ tree[level].need_push_down /\ Rebuild_Ptr = level + 1
  /\ TurnAt(tree, level, level, Head(todo)) # "deleted"
  /\ PushDown([tree EXCEPT ![level].working_flag = TRUE], level)
  /\ UNCHANGED <<Rebuild_Ptr, rebuild_flag, locks, rebuilding, operating, reading, holes>>

\* A node outside the subtree that is being rebuilt, without the lock.
Descend ==
  /\ mpc = "down"
  /\ LET turn == TurnAt(tree, level, level, Head(todo))
     IN  /\ \/ level = Depth \/ ~tree[level].need_push_down
            \/ Rebuild_Ptr # level + 1 \/ turn = "deleted"
         /\ tree' = Operated(tree, level, level, turn, Head(todo))
         /\ CASE turn = "son" -> /\ level' = level + 1
                                 /\ mpc' = IF Rebuild_Ptr = level + 1
                                           THEN "lock" ELSE "down"
                                 /\ UNCHANGED <<todo, asked>>
              [] turn = "update" -> /\ mpc' = "up"
                                    /\ UNCHANGED <<level, todo, asked>>
              [] OTHER -> Ascend(level)
  /\ holes' = IF rpc # "idle" /\ level >= Rebuild_Ptr
              THEN holes \cup {"untested"} ELSE holes
  /\ UNCHANGED <<Rebuild_Ptr, rebuild_flag, Rebuild_Logger, locks, rebuilding, reading, calls>>

\* Rebuild: a request prevails over one for a smaller subtree, unless the
\* rebuild thread is at work.
MayRequest(n) == rpc = "idle" /\ n < Rebuild_Ptr

\* The way back through a node, which may have become too small to be rebuilt
\* by the other thread.
Ascent ==
  /\ mpc = "up"
  /\ tree' = UpdateAndLeave(tree, level, level)
  /\ \/ UNCHANGED Rebuild_Ptr
     \/ MayRequest(level) /\ Rebuild_Ptr' = level
     \/ rpc = "idle" /\ Rebuild_Ptr = level /\ Rebuild_Ptr' = None
  /\ Ascend(level)
  /\ UNCHANGED <<rebuild_flag, Rebuild_Logger, locks, rebuilding, reading, holes, calls>>

\* A search pushes down the marks on its way, one after the other; Search turns
\* back at a deleted node.  How far the search goes is a free choice.
SearchPushDown(r) ==
  \E n \in 0 .. Depth - 1 :
    /\ tree[n].need_push_down
    /\ \A m \in 0 .. n - 1 : ~tree[m].need_push_down
    /\ r # "main" => \A m \in 0 .. n : ~tree[m].tree_deleted
    /\ \/ /\ reader[r] = "start" \/ (r = "main" /\ mpc = "range")
          /\ n < Rebuild_Ptr
       \/ /\ reader[r] \in {"inside", "counted", "locked", "bare"} /\ r \notin stale
          /\ Rebuild_Ptr # n + 1
    /\ PushDown(tree, n)
    /\ UNCHANGED <<Rebuild_Ptr, rebuild_flag, locks, rebuilding, operating, reading, holes>>

\* The parallel loop of Nearest_Search, one search for each thread.
SearchAll ==
  /\ mpc = "rest"
  /\ calls < MaxCalls
  /\ calls' = calls + 1
  /\ mpc' = "search"
  /\ reader' = [r \in Reader |-> IF r = "main" THEN "out" ELSE "start"]
  /\ UNCHANGED <<theTree, locks, rebuilding, stale, holes, todo, level, asked>>

SearchedAll ==
  /\ mpc = "search"
  /\ \A r \in Reader : reader[r] = "out"
  /\ mpc' = "rest"
  /\ UNCHANGED <<theTree, locks, rebuilding, reading, holes, todo, level, calls, asked>>

Main ==
  \/ Search_by_range \/ Downsample \/ TestRoot \/ Operate \/ Log
  \/ PushDownLocked \/ Descend \/ Ascent \/ SearchedAll \/ SearchPushDown("main")

-----------------------------------------------------------------------------
(* A searching thread: Nearest_Search and Search, which count themselves    *)
(* around the subtree that is being rebuilt.                                *)

\* calc_box_dist of the son that is being rebuilt, before anything is tested: the
\* pointer to it is loaded, and its box is being read.
ReadBox(r) ==
  /\ reader[r] = "start"
  /\ Rebuild_Ptr \in 1 .. Depth
  /\ reader' = [reader EXCEPT ![r] = "son"]
  /\ UNCHANGED <<theTree, locks, rebuilding, operating, stale, holes>>

\* The root is tested at once, a son when its box is known.  The pointer is loaded
\* again, unless the compiler has kept it: a pointer that was replaced meanwhile
\* passes the test, and the search enters the old subtree.
TestRebuildPtr(r) ==
  /\ reader[r] = "son" \/ (reader[r] = "start" /\ Rebuild_Ptr \in {0, None})
  /\ \/ /\ reader' = [reader EXCEPT ![r] = IF Rebuild_Ptr = None THEN "inside" ELSE "wait"]
        /\ stale' = stale \ {r}
     \/ /\ r \in stale
        /\ reader' = [reader EXCEPT ![r] = "bare"]
        /\ UNCHANGED stale
  /\ UNCHANGED <<theTree, locks, rebuilding, operating, holes>>

EnterSearch(r) ==
  /\ reader[r] = "wait"
  /\ search_mutex_counter # -1
  /\ search_mutex_counter' = search_mutex_counter + 1
  /\ reader' = [reader EXCEPT ![r] = "counted"]
  /\ UNCHANGED <<theTree, working_flag_mutex, rebuilding, operating, stale, holes>>

LeaveSearch(r) ==
  /\ reader[r] \in {"inside", "counted", "bare"}
  /\ search_mutex_counter' = IF reader[r] = "counted" THEN search_mutex_counter - 1
                             ELSE search_mutex_counter
  /\ reader' = [reader EXCEPT ![r] = "out"]
  /\ stale' = stale \ {r}
  /\ UNCHANGED <<theTree, working_flag_mutex, rebuilding, operating, holes>>

Search(r) ==
  \/ ReadBox(r) \/ TestRebuildPtr(r) \/ EnterSearch(r) \/ LeaveSearch(r) \/ SearchPushDown(r)

-----------------------------------------------------------------------------
(* The rebuild thread, which holds rebuild_ptr_mutex_lock whenever it is    *)
(* not idle.                                                                *)

\* The mutex of the searches is held across a step only by Search_by_range.
SearchMutexFree == reader["main"] # "locked"

BeginRebuild ==
  /\ rpc = "idle"
  /\ Rebuild_Ptr # None
  /\ working_flag_mutex = "free"
  /\ working_flag_mutex' = "rebuild"
  /\ rebuild_flag' = TRUE
  /\ rpc' = "lock copy"
  /\ holes' = IF Rebuild_Logger # <<>> THEN holes \cup {"late log"} ELSE holes
  /\ UNCHANGED <<tree, Rebuild_Ptr, Rebuild_Logger, search_mutex_counter, fresh, job,
                 operating, reading>>

\* A faulty lock that does not wait for the searches that are inside.
LockSearchFaulty ==
  /\ rpc \in {"lock copy", "lock swap"}
  /\ SearchMutexFree
  /\ search_mutex_counter' = -1
  /\ rpc' = IF rpc = "lock copy" THEN "copy" ELSE "swap"
  /\ UNCHANGED <<theTree, working_flag_mutex, fresh, job, operating, reading, holes>>

LockSearch ==
  /\ rpc \in {"lock copy", "lock swap"}
  /\ SearchMutexFree
  /\ search_mutex_counter = 0
  /\ search_mutex_counter' = -1
  /\ rpc' = IF rpc = "lock copy" THEN "copy" ELSE "swap"
  /\ UNCHANGED <<theTree, working_flag_mutex, fresh, job, operating, reading, holes>>

\* flatten pushes down every mark.  If it finds no point, the code neither
\* takes the lock again nor looks at the log.
Copy ==
  /\ rpc = "copy"
  /\ SearchMutexFree
  /\ LET settled == Settled(tree, Rebuild_Ptr)
         points == Flattened(tree, Rebuild_Ptr)
     IN  /\ tree' = [n \in Level |->
                       IF n < Rebuild_Ptr THEN tree[n]
                       ELSE [settled[n] EXCEPT !.need_push_down = FALSE]]
         /\ fresh' = Built(points, Rebuild_Ptr)
         /\ rpc' = IF points = {} THEN "lock swap" ELSE "drain"
         /\ holes' = IF points = {} THEN holes \cup {"nothing copied"} ELSE holes
  /\ search_mutex_counter' = 0
  /\ working_flag_mutex' = "free"
  /\ UNCHANGED <<Rebuild_Ptr, rebuild_flag, Rebuild_Logger, job, operating, reading>>

\* A faulty drain that lets go of the lock when the log is empty.
DrainFaulty ==
  /\ rpc = "drain"
  /\ working_flag_mutex = "free"
  /\ IF Rebuild_Logger = <<>>
     THEN /\ rpc' = "lock swap"
          /\ UNCHANGED <<Rebuild_Logger, job>>
     ELSE /\ job' = Head(Rebuild_Logger)
          /\ Rebuild_Logger' = Tail(Rebuild_Logger)
          /\ rpc' = "replay"
  /\ UNCHANGED <<tree, Rebuild_Ptr, rebuild_flag, locks, fresh, operating, reading, holes>>

\* One logged operation is taken out under the lock; when there is none
\* left, the lock is kept.
Drain ==
  /\ rpc = "drain"
  /\ working_flag_mutex = "free"
  /\ IF Rebuild_Logger = <<>>
     THEN /\ working_flag_mutex' = "rebuild"
          /\ rpc' = "lock swap"
          /\ UNCHANGED <<Rebuild_Logger, job>>
     ELSE /\ job' = Head(Rebuild_Logger)
          /\ Rebuild_Logger' = Tail(Rebuild_Logger)
          /\ rpc' = "replay"
          /\ UNCHANGED working_flag_mutex
  /\ UNCHANGED <<tree, Rebuild_Ptr, rebuild_flag, search_mutex_counter, fresh,
                 operating, reading, holes>>

Replay ==
  /\ rpc = "replay"
  /\ fresh' = run_operation(fresh, Rebuild_Ptr, job)
  /\ job' = <<>>
  /\ rpc' = "drain"
  /\ UNCHANGED <<theTree, locks, operating, reading, holes>>

\* The ancestors that are updated after the swap: up to the first one that
\* the main thread is at, or that a mark is owed to.
Refreshed(tr, t) ==
  LET reached == {n \in 0 .. t - 1 : \A k \in n .. t - 1 :
                                        /\ ~tr[k].working_flag
                                        /\ k > 0 => ~tr[k - 1].need_push_down}
  IN  IF reached = {} THEN tr ELSE Update(tr, Min(reached), t - 1)

Swap ==
  /\ rpc = "swap"
  /\ LET swapped == [n \in Level |-> IF n < Rebuild_Ptr THEN tree[n] ELSE fresh[n]]
     IN  /\ tree' = Refreshed(swapped, Rebuild_Ptr)
         /\ holes' = IF \E n \in Level : /\ swapped[n].need_push_down
                                         /\ tree'[n] # swapped[n]
                     THEN holes \cup {"mark withdrawn"} ELSE holes
  /\ stale' = {r \in Reader : reader[r] \in {"son", "inside", "counted", "locked", "bare"}}
  /\ rpc' = "unlock"
  /\ UNCHANGED <<Rebuild_Ptr, rebuild_flag, Rebuild_Logger, locks, fresh, job, operating,
                 reader>>

\* A faulty end of the swap that leaves the searches locked out.
EndSwapFaulty ==
  /\ rpc = "unlock"
  /\ SearchMutexFree
  /\ Rebuild_Ptr' = None
  /\ working_flag_mutex' = "free"
  /\ rpc' = "clear flag"
  /\ UNCHANGED <<tree, rebuild_flag, Rebuild_Logger, search_mutex_counter, fresh, job,
                 operating, reading, holes>>

\* The lock is released whoever holds it.
EndSwap ==
  /\ rpc = "unlock"
  /\ SearchMutexFree
  /\ search_mutex_counter' = 0
  /\ Rebuild_Ptr' = None
  /\ working_flag_mutex' = "free"
  /\ rpc' = "clear flag"
  /\ UNCHANGED <<tree, rebuild_flag, Rebuild_Logger, fresh, job, operating, reading, holes>>

ClearFlag ==
  /\ rpc = "clear flag"
  /\ rebuild_flag' = FALSE
  /\ rpc' = "free"
  /\ UNCHANGED <<tree, Rebuild_Ptr, Rebuild_Logger, locks, fresh, job, operating, reading,
                 holes>>

delete_tree_nodes ==
  /\ rpc = "free"
  /\ fresh' = <<>>
  /\ rpc' = "idle"
  /\ UNCHANGED <<theTree, locks, job, operating, reading, holes>>

Rebuilder ==
  \/ BeginRebuild \/ LockSearch \/ Copy \/ Drain \/ Replay
  \/ Swap \/ EndSwap \/ ClearFlag \/ delete_tree_nodes

-----------------------------------------------------------------------------
Next == Call \/ SearchAll \/ Main \/ Rebuilder \/ \E r \in Searcher : Search(r)

Spec == Init /\ [][Next]_vars

\* Threads run; nobody has to call.
FairSpec ==
  /\ Spec
  /\ WF_vars(Main)
  /\ WF_vars(Rebuilder)
  /\ \A r \in Searcher : WF_vars(Search(r))

-----------------------------------------------------------------------------
\* Every variable has its type; the counter of the searches, which two threads
\* write and one resets, stays between "closed" and the number of searchers.
TypeOK ==
  /\ tree \in [Level -> Node]
  /\ Rebuild_Ptr \in Level \cup {None}
  /\ rebuild_flag \in BOOLEAN
  /\ Rebuild_Logger \in Seq(Operation)
  /\ working_flag_mutex \in {"free", "main", "rebuild"}
  /\ search_mutex_counter \in -1 .. Cardinality(Searcher)
  /\ fresh = <<>> \/ \E t \in Level : fresh \in [t .. Depth -> Node]
  /\ job = <<>> \/ job \in Operation
  /\ rpc \in {"idle", "lock copy", "copy", "drain", "replay", "lock swap", "swap",
             "unlock", "clear flag", "free"}
  /\ mpc \in {"rest", "test", "range", "ranging", "lock", "log", "down", "up", "search"}
  /\ todo \in Seq(Operation)
  /\ level \in Level
  /\ reader \in [Reader -> {"out", "start", "son", "wait", "inside", "counted", "locked", "bare"}]
  /\ stale \subseteq Reader
  /\ calls \in 0 .. MaxCalls
  /\ asked \subseteq Point
  /\ holes \subseteq {"late log", "nothing copied", "mark withdrawn", "untested"}

\* Between two operations, as the caller sees them.
AtRest == mpc \in {"rest", "search"}

\* "Rebuild and update missed operations" (ikd_Tree.cpp:279): an operation made
\* while a subtree is being rebuilt is not missed, so that between two calls
\* the map holds the points it was asked to hold.  The code does not keep this.
MissedOperationsReplayed == AtRest => Flattened(tree, 0) = asked

\* What does hold: whatever the rebuild thread is doing, between two calls the
\* map holds exactly the points that the calls have left in it, as long as no
\* rebuild has fallen into one of the gaps that holes names.  This relates the
\* lazy marks, the copy, the log and the swap.
MapAsAsked == holes = {} => MissedOperationsReplayed

\* "Lock Search" (ikd_Tree.cpp:259): once the old subtree is freed, no search is
\* left in it that counted itself, holds the mutex or entered while nothing was
\* rebuilt.  What may be left takes no lock at all: a Search_by_range that met
\* the root's rebuild, and a search that reads a son's box, or with a pointer
\* loaded for that, before it tests and counts.
LockedReadsSafe == rpc = "idle" => \A r \in stale : reader[r] \in {"bare", "son"}

\* "Delete discarded tree nodes" (ikd_Tree.cpp:353): nobody reads the nodes that are
\* freed.  The code does not keep this.
DiscardedUnread == rpc = "idle" => stale = {}

\* No thread waits for ever on the locks, the counter or the log of another: the
\* call that is running ends, and so does the rebuild that was asked for.
Settles == []<>(AtRest /\ Rebuild_Ptr = None)
=============================================================================
