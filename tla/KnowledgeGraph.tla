--------------------------- MODULE KnowledgeGraph ---------------------------
(***************************************************************************)
(* KnowledgeGraph of intelliqx_kg/graph.py over the file-system object     *)
(* store of intelliqx_storage/store.py.                                    *)
(*                                                                         *)
(* add_nodes() and add_edges() append rows to the in-memory table and to a *)
(* write buffer and then flush the buffer: the whole buffer becomes one    *)
(* object, named after the number of rows in the NODE table, and is        *)
(* cleared once put() has returned.  put() hands the write to a thread, so *)
(* other callers add rows, and flush them, while it is under way.  A row   *)
(* is a serial number: only its identity matters.                          *)
(***************************************************************************)
EXTENDS Integers, FiniteSets

CONSTANTS
    Callers,     \* tasks that call add_nodes() and add_edges()
    MaxNodes,    \* bound on the node rows ever added
    MaxEdges,    \* bound on the edge rows ever added
    MaxBatch,    \* bound on the rows of one call
    MaxRestarts  \* bound on resets and process restarts

ASSUME GraphAssumption ==
    /\ MaxNodes \in Nat /\ MaxEdges \in Nat
    /\ MaxBatch \in Nat /\ MaxRestarts \in Nat

Kind == {"nodes", "edges"}
Bound == [nodes |-> MaxNodes, edges |-> MaxEdges]
RowSets(k) == SUBSET (1..Bound[k])

VARIABLES
    table,      \* nodes_table and edges_table: the in-memory mirror
    buffer,     \* nodes_arrow and edges_arrow: the rows of the next partition
    partition,  \* the stored objects, per kind and number; epoch: which run of the graph wrote it
    call,       \* per caller, the flush it is in
    made,       \* how many rows were ever added
    epoch,      \* how often the numbering started again
    overlapped, \* history: rows were added while a flush of their kind was under way
    disturbed,  \* history: a call ended without clearing its buffer, or met a reset
    torn        \* history: the rows of the mirror whose serialisation raised

vars == <<table, buffer, partition, call, made, epoch, overlapped, disturbed, torn>>

Number == 0..MaxNodes
NoPartition == [rows |-> {}, epoch |-> -1]
Idle == [state |-> "idle", kind |-> "nodes", number |-> 0, payload |-> {}, epoch |-> 0]

\* A caller is "writing" until the thread has written the object, "written" until it is
\* resumed, and "abandoned" when it was cancelled while the thread goes on writing.
TypeOK ==
    /\ \A k \in Kind :
          /\ table[k] \in RowSets(k) /\ buffer[k] \in RowSets(k)
          /\ partition[k] \in [Number -> [rows : RowSets(k), epoch : -1..MaxRestarts]]
          /\ made[k] \in 0..Bound[k]
          /\ overlapped[k] \in BOOLEAN /\ disturbed[k] \in BOOLEAN
          /\ torn[k] \in RowSets(k)
    /\ \A c \in Callers :
          /\ call[c].state \in {"idle", "writing", "written", "abandoned"}
          /\ call[c].kind \in Kind /\ call[c].number \in Number
          /\ call[c].payload \in RowSets(call[c].kind)
          /\ call[c].epoch \in 0..MaxRestarts
    /\ epoch \in 0..MaxRestarts

Init ==
    /\ table = [k \in Kind |-> {}]
    /\ buffer = [k \in Kind |-> {}]
    /\ partition = [k \in Kind |-> [n \in Number |-> NoPartition]]
    /\ call = [c \in Callers |-> Idle]
    /\ made = [k \in Kind |-> 0]
    /\ epoch = 0
    /\ overlapped = [k \in Kind |-> FALSE]
    /\ disturbed = [k \in Kind |-> FALSE]
    /\ torn = [k \in Kind |-> {}]

InFlight(k) == {c \in Callers : call[c].state # "idle" /\ call[c].kind = k}

-----------------------------------------------------------------------------
\* Numbering from one on, and numbering by the wrong table (for the mutation checks).
NumberOffByOne(t) == Cardinality(t["nodes"]) + 1
NumberByEdges(t) == Cardinality(t["edges"])

\* The number in a partition's key is the size of the node table, for both kinds.
PartitionNumber(t) == Cardinality(t["nodes"])

\* A flush that empties the buffer before the write (for the mutation checks).
AddClearing(c, k, n) ==
    LET new == (made[k] + 1)..(made[k] + n)
    IN  /\ call[c].state = "idle"
        /\ made[k] + n <= Bound[k]
        /\ made' = [made EXCEPT ![k] = @ + n]
        /\ table' = [table EXCEPT ![k] = @ \cup new]
        /\ buffer' = [buffer EXCEPT ![k] = {}]
        /\ call' = [call EXCEPT ![c] = [state |-> "writing", kind |-> k,
                                        number |-> PartitionNumber(table'),
                                        payload |-> buffer[k] \cup new, epoch |-> epoch]]
        /\ overlapped' = [overlapped EXCEPT ![k] = @ \/ InFlight(k) # {}]
        /\ UNCHANGED <<partition, epoch, disturbed, torn>>

\* add_nodes() or add_edges() with n rows, up to the await of put() in flush().  A call
\* without rows does nothing.
Add(c, k, n) ==
    LET new == (made[k] + 1)..(made[k] + n)
    IN  /\ call[c].state = "idle"
        /\ made[k] + n <= Bound[k]
        /\ made' = [made EXCEPT ![k] = @ + n]
        /\ table' = [table EXCEPT ![k] = @ \cup new]
        /\ buffer' = [buffer EXCEPT ![k] = @ \cup new]
        /\ call' = [call EXCEPT ![c] = [state |-> "writing", kind |-> k,
                                        number |-> PartitionNumber(table'),
                                        payload |-> buffer'[k], epoch |-> epoch]]
        /\ overlapped' = [overlapped EXCEPT ![k] = @ \/ InFlight(k) # {}]
        /\ UNCHANGED <<partition, epoch, disturbed, torn>>

\* add_nodes() or add_edges() raises after n rows: each row goes to the mirror first and to
\* the buffer once its attributes are serialised, so where json.dumps() raises the last row
\* is in the mirror only; where the caller's iterable or the Parquet encoder raises, all n
\* are in both.  Nothing is flushed.
AddRaises(c, k, n) ==
    LET new == (made[k] + 1)..(made[k] + n)
    IN  /\ call[c].state = "idle"
        /\ made[k] + n <= Bound[k]
        /\ made' = [made EXCEPT ![k] = @ + n]
        /\ table' = [table EXCEPT ![k] = @ \cup new]
        /\ \E unserialised \in SUBSET {made[k] + n} :
              /\ buffer' = [buffer EXCEPT ![k] = @ \cup (new \ unserialised)]
              /\ torn' = [torn EXCEPT ![k] = @ \cup unserialised]
        /\ overlapped' = [overlapped EXCEPT ![k] = @ \/ InFlight(k) # {}]
        /\ disturbed' = [disturbed EXCEPT ![k] = TRUE]
        /\ UNCHANGED <<partition, call, epoch>>

\* The object the write of caller c leaves behind when it puts these rows.
Stored(c, rows) ==
    [partition EXCEPT ![call[c].kind][call[c].number] =
        [rows |-> rows, epoch |-> call[c].epoch]]

\* The thread has written the object, over whatever was there.
Write(c) ==
    /\ call[c].state \in {"writing", "abandoned"}
    /\ partition' = Stored(c, call[c].payload)
    /\ call' = [call EXCEPT ![c] =
                   IF call[c].state = "writing"
                   THEN [call[c] EXCEPT !.state = "written"] ELSE Idle]
    /\ UNCHANGED <<table, buffer, made, epoch, overlapped, disturbed, torn>>

\* A flush that leaves its rows buffered (for the mutation checks).
ResumeKeeping(c) ==
    /\ call[c].state = "written"
    /\ call' = [call EXCEPT ![c] = Idle]
    /\ UNCHANGED <<table, buffer, partition, made, epoch, overlapped, disturbed, torn>>

\* flush() resumes after put() and clears the buffer, rows added meanwhile included.
Resume(c) ==
    /\ call[c].state = "written"
    /\ buffer' = [buffer EXCEPT ![call[c].kind] = {}]
    /\ call' = [call EXCEPT ![c] = Idle]
    /\ UNCHANGED <<table, partition, made, epoch, overlapped, disturbed, torn>>

\* put() raises: before the write, in the middle of it, leaving an object without whole
\* rows, or after it.  The buffer keeps its rows.  (An abandoned write fails unseen.)
Fail(c) ==
    /\ call[c].state # "idle"
    /\ \/ partition' = partition
       \/ call[c].state # "written" /\ partition' = Stored(c, {})
    /\ call' = [call EXCEPT ![c] = Idle]
    /\ disturbed' = [disturbed EXCEPT ![call[c].kind] = TRUE]
    /\ UNCHANGED <<table, buffer, made, epoch, overlapped, torn>>

\* The caller is cancelled (the runtime times its agent out); the thread is not.
Abandon(c) ==
    /\ call[c].state = "writing"
    /\ call' = [call EXCEPT ![c].state = "abandoned"]
    /\ disturbed' = [disturbed EXCEPT ![call[c].kind] = TRUE]
    /\ UNCHANGED <<table, buffer, partition, made, epoch, overlapped, torn>>

\* reset(): tables and buffers are emptied, flushes under way go on.
Reset ==
    /\ epoch < MaxRestarts
    /\ epoch' = epoch + 1
    /\ table' = [k \in Kind |-> {}]
    /\ buffer' = [k \in Kind |-> {}]
    /\ disturbed' = [k \in Kind |-> disturbed[k] \/ InFlight(k) # {}]
    /\ torn' = [k \in Kind |-> {}]
    /\ UNCHANGED <<partition, call, made, overlapped>>

\* A new process builds a graph over the same store: it reads nothing back.  What a crash
\* leaves of the writes under way is what Fail and Write leave, so they come first.
Restart ==
    /\ \A c \in Callers : call[c].state = "idle"
    /\ epoch < MaxRestarts
    /\ epoch' = epoch + 1
    /\ table' = [k \in Kind |-> {}]
    /\ buffer' = [k \in Kind |-> {}]
    /\ overlapped' = [k \in Kind |-> FALSE]
    /\ disturbed' = [k \in Kind |-> FALSE]
    /\ torn' = [k \in Kind |-> {}]
    /\ UNCHANGED <<partition, call, made>>

Next ==
    \/ \E c \in Callers : \/ \E k \in Kind, n \in 1..MaxBatch : Add(c, k, n) \/ AddRaises(c, k, n)
                          \/ Write(c)
                          \/ Resume(c)
                          \/ Fail(c)
                          \/ Abandon(c)
    \/ Reset
    \/ Restart

Spec == Init /\ [][Next]_vars

-----------------------------------------------------------------------------
(* Properties *)

\* A node in the mirror that was serialised and is neither stored nor on its way to the
\* store is still buffered for the next flush, unless rows were added during a flush AND a
\* call failed or met a reset: clear() after put() drops rows another call was still to
\* write, and only that call's success makes up for it.
NodesKept ==
    \/ overlapped["nodes"] /\ disturbed["nodes"]
    \/ \A r \in table["nodes"] \ torn["nodes"] :
          \/ r \in buffer["nodes"]
          \/ \E c \in InFlight("nodes") : r \in call[c].payload
          \/ \E n \in Number : r \in partition["nodes"][n].rows

\* As long as the flushes of a process neither overlap nor fail, no node is stored twice.
NodesStoredOnce ==
    \/ overlapped["nodes"] \/ disturbed["nodes"]
    \/ \A m, n \in Number :
          m # n => partition["nodes"][m].rows \cap partition["nodes"][n].rows
                       \cap table["nodes"] = {}

\* One run of the graph never writes a node partition again: the number has grown by the
\* time of the next flush, although flushes overlap, fail, and land late.
NodePartitionsKept ==
    [][\A n \in Number :
          LET old == partition["nodes"][n]
              new == partition'["nodes"][n]
          IN  new # old => new.epoch # old.epoch]_vars

\* What flush() and the module's docstring promise of both kinds: successive partitions
\* get strictly increasing numbers, so a run of the graph, even one whose flushes neither
\* overlap nor fail, overwrites no partition of its own.
PartitionsKept ==
    [][\A k \in Kind, n \in Number :
          LET old == partition[k][n]
              new == partition'[k][n]
          IN  \/ overlapped[k] \/ disturbed'[k]
              \/ new = old \/ new.epoch # old.epoch]_vars
=============================================================================
