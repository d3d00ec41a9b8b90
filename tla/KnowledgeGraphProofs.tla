------------------------ MODULE KnowledgeGraphProofs ------------------------
(***************************************************************************)
(* What KnowledgeGraph promises for any number of callers, rows, batches   *)
(* and restarts.  The inductive invariant says which run of the graph a    *)
(* flush and a partition belong to, why two node flushes of one run never  *)
(* use the same number (every flush adds a row, and the number is the size *)
(* of the table), and where the rows of the buffer are while nothing was   *)
(* disturbed or nothing overlapped.                                        *)
(***************************************************************************)
EXTENDS KnowledgeGraph, FiniteSetTheorems, TLAPS

Flight ==
    [state : {"idle", "writing", "written", "abandoned"}, kind : Kind, number : Number,
     payload : SUBSET Nat, epoch : 0..MaxRestarts]
Partition == [rows : SUBSET Nat, epoch : -1..MaxRestarts]

\* The variables are functions of the kinds and callers.
Shape ==
    /\ table \in [Kind -> SUBSET Nat] /\ buffer \in [Kind -> SUBSET Nat]
    /\ partition \in [Kind -> [Number -> Partition]]
    /\ call \in [Callers -> Flight]
    /\ made \in [Kind -> Nat]
    /\ epoch \in 0..MaxRestarts
    /\ overlapped \in [Kind -> BOOLEAN] /\ disturbed \in [Kind -> BOOLEAN]
    /\ torn \in [Kind -> SUBSET Nat]

\* Rows are counted as they are added, and none is anywhere that was not.
RowsAreMade ==
    /\ \A k \in Kind :
          /\ made[k] <= Bound[k]
          /\ table[k] \subseteq 1..made[k] /\ buffer[k] \subseteq 1..made[k]
          /\ torn[k] \subseteq 1..made[k]
          /\ \A n \in Number : partition[k][n].rows \subseteq 1..made[k]
    /\ \A c \in Callers : call[c].payload \subseteq 1..made[call[c].kind]

\* No flush and no partition belongs to a run of the graph still to come.
EpochsPast ==
    /\ \A c \in Callers : call[c].epoch <= epoch
    /\ \A k \in Kind, n \in Number : partition[k][n].epoch <= epoch

-----------------------------------------------------------------------------
(* The node table, its buffer and its partitions *)

NodeFlush == InFlight("nodes")
Stores(n) == partition["nodes"][n]

\* No two node flushes of a run have one number, none has a number the run has used, and
\* the next number is still free.
NumbersGrow ==
    /\ \A c \in NodeFlush :
          call[c].epoch = epoch => call[c].number <= Cardinality(table["nodes"])
    /\ \A n \in Number : Stores(n).epoch = epoch => n <= Cardinality(table["nodes"])
    /\ \A c, d \in NodeFlush :
          c # d /\ call[c].epoch = call[d].epoch => call[c].number # call[d].number
    /\ \A c \in NodeFlush :
          call[c].state # "written" => Stores(call[c].number).epoch # call[c].epoch

\* What an earlier run of the graph stored, or is still writing, is not in the mirror.
StaleRowsGone ==
    /\ \A n \in Number : Stores(n).epoch # epoch => Stores(n).rows \cap table["nodes"] = {}
    /\ \A c \in NodeFlush : call[c].epoch # epoch => call[c].payload \cap table["nodes"] = {}

\* While nothing was disturbed, every flush under way is this run's, and every buffered
\* row is in the payload of one.
Undisturbed ==
    ~disturbed["nodes"] =>
        /\ \A c \in NodeFlush : call[c].epoch = epoch /\ call[c].state # "abandoned"
        /\ \A r \in buffer["nodes"] : \E c \in NodeFlush : r \in call[c].payload

\* While no flushes overlapped, the one under way writes what is buffered, or a reset has
\* emptied both the mirror and the buffer.
Alone ==
    ~overlapped["nodes"] =>
        /\ \A c, d \in NodeFlush : c = d
        /\ \A c \in NodeFlush :
              IF call[c].epoch = epoch
              THEN buffer["nodes"] = call[c].payload
              ELSE buffer["nodes"] = {} /\ table["nodes"] = {}

\* A partition keeps what a flush wrote until the flush has cleared the buffer.
WrittenKept ==
    ~(overlapped["nodes"] /\ disturbed["nodes"]) =>
        \A c \in NodeFlush :
           call[c].state = "written" => Stores(call[c].number).rows = call[c].payload

\* What an undisturbed flush is about to write is stored nowhere.
StoredApart ==
    ~(overlapped["nodes"] \/ disturbed["nodes"]) =>
        \A c \in NodeFlush : call[c].state = "writing" =>
           \A n \in Number : call[c].payload \cap Stores(n).rows = {}

NodeInv ==
    /\ NumbersGrow
    /\ StaleRowsGone
    /\ Undisturbed
    /\ Alone
    /\ WrittenKept
    /\ StoredApart
    /\ NodesKept
    /\ NodesStoredOnce

\* The inductive invariant.
IInv == Shape /\ RowsAreMade /\ EpochsPast /\ NodeInv

-----------------------------------------------------------------------------
(* The size of the node table *)

LEMMA SizeBound ==
    ASSUME NEW m \in Nat, NEW S \in SUBSET (1..m)
    PROVE  IsFiniteSet(S) /\ Cardinality(S) \in Nat /\ Cardinality(S) <= m
<1>1. IsFiniteSet(1..m) /\ Cardinality(1..m) = m
  BY FS_Interval
<1>2. IsFiniteSet(S) /\ Cardinality(S) <= m
  BY <1>1, FS_Subset
<1> QED BY <1>2, FS_CardinalityType

\* The rows of a call are new, so the table grows with every call.
LEMMA SizeGrows ==
    ASSUME NEW m \in Nat, NEW S \in SUBSET (1..m), NEW n \in Nat \ {0}
    PROVE  Cardinality(S) < Cardinality(S \cup ((m + 1)..(m + n)))
<1> DEFINE new == (m + 1)..(m + n)
           U == S \cup new
<1>1. U \in SUBSET (1..(m + n)) /\ S \in SUBSET U /\ m + 1 \in U /\ m + 1 \notin S
  OBVIOUS
<1> HIDE DEF new, U
<1>2. IsFiniteSet(U) /\ Cardinality(U) \in Nat
  BY <1>1, SizeBound, m + n \in Nat
<1>3. Cardinality(S) \in Nat
  BY SizeBound
<1>4. Cardinality(S) <= Cardinality(U) /\ (Cardinality(U) = Cardinality(S) => U = S)
  BY <1>1, <1>2, FS_Subset
<1>5. Cardinality(S) < Cardinality(U)
  BY <1>1, <1>2, <1>3, <1>4
<1> QED BY <1>5 DEF U, new

LEMMA Kinds == "nodes" \in Kind /\ "edges" \in Kind /\ Bound["nodes"] = MaxNodes
BY DEF Kind, Bound

LEMMA BoundsAreNats == \A k \in Kind : Bound[k] \in Nat
BY GraphAssumption DEF Kind, Bound

\* The size of the node table is a partition number.
LEMMA NumberIsSize ==
    ASSUME NEW m \in Nat, m <= MaxNodes, NEW S \in SUBSET (1..m)
    PROVE  Cardinality(S) \in Number
BY SizeBound, GraphAssumption DEF Number

LEMMA TypeFromIInv == Shape /\ RowsAreMade => TypeOK
<1> SUFFICES ASSUME Shape, RowsAreMade PROVE TypeOK
  OBVIOUS
<1>1. \A k \in Kind : made[k] \in Nat /\ made[k] <= Bound[k] /\ 1..made[k] \subseteq 1..Bound[k]
  BY BoundsAreNats DEF Shape, RowsAreMade
<1>2. \A k \in Kind :
         /\ table[k] \in RowSets(k) /\ buffer[k] \in RowSets(k)
         /\ partition[k] \in [Number -> [rows : RowSets(k), epoch : -1..MaxRestarts]]
         /\ made[k] \in 0..Bound[k]
         /\ overlapped[k] \in BOOLEAN /\ disturbed[k] \in BOOLEAN
         /\ torn[k] \in RowSets(k)
  <2> TAKE k \in Kind
  <2>1. \A n \in Number : /\ partition[k][n] \in Partition
                          /\ partition[k][n].rows \subseteq 1..Bound[k]
    BY <1>1 DEF Shape, RowsAreMade
  <2>2. \A n \in Number : partition[k][n] \in [rows : RowSets(k), epoch : -1..MaxRestarts]
    BY <2>1 DEF Partition, RowSets
  <2> QED BY <1>1, <2>2, BoundsAreNats DEF Shape, RowsAreMade, RowSets
<1>3. \A c \in Callers :
         /\ call[c].state \in {"idle", "writing", "written", "abandoned"}
         /\ call[c].kind \in Kind /\ call[c].number \in Number
         /\ call[c].payload \in RowSets(call[c].kind)
         /\ call[c].epoch \in 0..MaxRestarts
  BY <1>1 DEF Shape, RowsAreMade, RowSets, Flight
<1> QED BY <1>2, <1>3 DEF TypeOK, Shape

-----------------------------------------------------------------------------
(* The shape of the state, the rows made and the epochs, action by action *)

TypeInv == Shape /\ RowsAreMade /\ EpochsPast

\* What add_nodes() and add_edges() do to the rows of their kind.
LEMMA AddFacts ==
    ASSUME NEW c \in Callers, NEW k \in Kind, NEW n \in 1..MaxBatch, TypeInv,
           Add(c, k, n) \/ AddRaises(c, k, n)
    PROVE  LET new == (made[k] + 1)..(made[k] + n)
               m == made[k] + n
           IN  /\ n \in Nat \ {0} /\ made[k] \in Nat /\ m \in Nat /\ m <= Bound[k]
               /\ new \subseteq 1..m /\ new # {} /\ 1..made[k] \subseteq 1..m
               /\ new \cap (1..made[k]) = {}
               /\ PartitionNumber(table') \in Number
<1> USE DEF TypeInv
<1> DEFINE new == (made[k] + 1)..(made[k] + n)
           m == made[k] + n
<1>1. n \in Nat \ {0}
  BY GraphAssumption
<1>2. made[k] \in Nat /\ m \in Nat /\ m <= Bound[k]
  BY <1>1 DEF Add, AddRaises, Shape
<1>3. /\ new \subseteq 1..m /\ 1..made[k] \subseteq 1..m /\ new \cap (1..made[k]) = {}
      /\ made[k] + 1 \in new
  BY <1>1, <1>2
<1> HIDE DEF new, m
<1>4. PartitionNumber(table') \in Number
  <2>1. /\ table["nodes"] \in SUBSET (1..made["nodes"])
        /\ made["nodes"] \in Nat /\ made["nodes"] <= MaxNodes
    BY Kinds DEF Shape, RowsAreMade
  <2>2. CASE k = "nodes"
    <3>1. table'["nodes"] = table["nodes"] \cup new
      BY <2>2, Kinds DEF Add, AddRaises, Shape, new
    <3>2. table'["nodes"] \in SUBSET (1..m) /\ m <= MaxNodes
      BY <1>2, <1>3, <2>1, <2>2, <3>1, Kinds
    <3> QED BY <1>2, <3>2, NumberIsSize DEF PartitionNumber
  <2>3. CASE k # "nodes"
    <3>1. table'["nodes"] = table["nodes"]
      BY <2>3, Kinds DEF Add, AddRaises, Shape
    <3> QED BY <2>1, <3>1, NumberIsSize DEF PartitionNumber
  <2> QED BY <2>2, <2>3
<1> QED BY <1>1, <1>2, <1>3, <1>4 DEF new, m

LEMMA AddKeepsTypes ==
    ASSUME NEW c \in Callers, NEW k \in Kind, NEW n \in 1..MaxBatch, TypeInv, Add(c, k, n)
    PROVE  TypeInv'
<1> USE DEF TypeInv
<1> DEFINE new == (made[k] + 1)..(made[k] + n)
           m == made[k] + n
           number == PartitionNumber(table')
           flush == [state |-> "writing", kind |-> k, number |-> number,
                     payload |-> buffer[k] \cup new, epoch |-> epoch]
<1>1. /\ made[k] \in Nat /\ m \in Nat /\ m <= Bound[k]
      /\ new \subseteq 1..m /\ 1..made[k] \subseteq 1..m
      /\ number \in Number
  BY AddFacts
<1>2. /\ made' = [made EXCEPT ![k] = m]
      /\ table' = [table EXCEPT ![k] = table[k] \cup new]
      /\ buffer' = [buffer EXCEPT ![k] = buffer[k] \cup new]
      /\ call' = [call EXCEPT ![c] = flush]
      /\ overlapped' = [overlapped EXCEPT ![k] = overlapped[k] \/ InFlight(k) # {}]
      /\ UNCHANGED <<partition, epoch, disturbed, torn>>
  BY DEF Add, Shape
<1> HIDE DEF new, m, number
<1>3. new \in SUBSET Nat
  BY <1>1
<1>4. flush \in Flight
  BY <1>1, <1>3 DEF Shape, Flight
<1>5. Shape'
  BY <1>1, <1>2, <1>3, <1>4 DEF Shape
<1>6. RowsAreMade'
  <2>1. \A j \in Kind :
           /\ made'[j] <= Bound[j] /\ 1..made[j] \subseteq 1..made'[j]
           /\ table'[j] \subseteq 1..made'[j] /\ buffer'[j] \subseteq 1..made'[j]
           /\ torn'[j] \subseteq 1..made'[j]
    BY <1>1, <1>2 DEF Shape, RowsAreMade
  <2>2. \A j \in Kind, i \in Number : partition'[j][i].rows \subseteq 1..made'[j]
    BY <1>2, <2>1 DEF RowsAreMade
  <2>3. \A d \in Callers : call'[d].payload \subseteq 1..made'[call'[d].kind]
    <3> TAKE d \in Callers
    <3>1. CASE d = c
      BY <1>2, <2>1, <3>1 DEF Shape
    <3>2. CASE d # c
      BY <1>2, <2>1, <3>2 DEF Shape, RowsAreMade, Flight
    <3> QED BY <3>1, <3>2
  <2> QED BY <2>1, <2>2, <2>3 DEF RowsAreMade
<1>7. EpochsPast'
  BY <1>2 DEF Shape, EpochsPast
<1> QED BY <1>5, <1>6, <1>7

\* A call that raises adds rows of its kind and touches no flush.
LEMMA AddRaisesKeepsTypes ==
    ASSUME NEW c \in Callers, NEW k \in Kind, NEW n \in 1..MaxBatch, TypeInv, AddRaises(c, k, n)
    PROVE  TypeInv'
<1> USE DEF TypeInv
<1> DEFINE new == (made[k] + 1)..(made[k] + n)
           m == made[k] + n
<1>1. /\ made[k] \in Nat /\ m \in Nat /\ m <= Bound[k] /\ m \in new
      /\ new \subseteq 1..m /\ 1..made[k] \subseteq 1..m
  BY AddFacts
<1>2. PICK lost \in SUBSET {m} :
         /\ made' = [made EXCEPT ![k] = m]
         /\ table' = [table EXCEPT ![k] = table[k] \cup new]
         /\ buffer' = [buffer EXCEPT ![k] = buffer[k] \cup (new \ lost)]
         /\ torn' = [torn EXCEPT ![k] = torn[k] \cup lost]
         /\ overlapped' = [overlapped EXCEPT ![k] = overlapped[k] \/ InFlight(k) # {}]
         /\ disturbed' = [disturbed EXCEPT ![k] = TRUE]
         /\ UNCHANGED <<partition, call, epoch>>
  BY DEF AddRaises, Shape
<1> HIDE DEF new, m
<1>3. new \in SUBSET Nat /\ lost \in SUBSET Nat /\ lost \subseteq 1..m
  BY <1>1, <1>2
<1>4. Shape'
  BY <1>1, <1>2, <1>3 DEF Shape
<1>5. RowsAreMade'
  <2>1. \A j \in Kind :
           /\ made'[j] <= Bound[j] /\ 1..made[j] \subseteq 1..made'[j]
           /\ table'[j] \subseteq 1..made'[j] /\ buffer'[j] \subseteq 1..made'[j]
           /\ torn'[j] \subseteq 1..made'[j]
    BY <1>1, <1>2, <1>3 DEF Shape, RowsAreMade
  <2>2. \A j \in Kind, i \in Number : partition'[j][i].rows \subseteq 1..made'[j]
    BY <1>2, <2>1 DEF RowsAreMade
  <2>3. \A d \in Callers : call'[d].payload \subseteq 1..made'[call'[d].kind]
    BY <1>2, <2>1 DEF Shape, RowsAreMade, Flight
  <2> QED BY <2>1, <2>2, <2>3 DEF RowsAreMade
<1>6. EpochsPast'
  BY <1>2 DEF EpochsPast
<1> QED BY <1>4, <1>5, <1>6

\* A step that replaces one flush of c, and at most the partition it names, by what the
\* flush was to write.
LEMMA FlushKeepsTypes ==
    ASSUME NEW c \in Callers, TypeInv, NEW f \in Flight,
           f.payload \subseteq 1..made[f.kind], f.epoch <= epoch,
           call' = [call EXCEPT ![c] = f],
           NEW rows \in SUBSET call[c].payload,
           partition' \in {partition, Stored(c, rows)},
           buffer' \in [Kind -> SUBSET Nat], \A k \in Kind : buffer'[k] \subseteq buffer[k],
           disturbed' \in [Kind -> BOOLEAN],
           UNCHANGED <<table, made, epoch, overlapped, torn>>
    PROVE  TypeInv'
<1> USE DEF TypeInv
<1> DEFINE k == call[c].kind
           i == call[c].number
           new == [rows |-> rows, epoch |-> call[c].epoch]
<1>1. k \in Kind /\ i \in Number /\ new \in Partition /\ rows \subseteq 1..made[k]
  BY DEF Shape, Flight, Partition, RowsAreMade
<1>2. /\ partition' \in [Kind -> [Number -> Partition]]
      /\ \A j \in Kind, n \in Number :
            partition'[j][n] \in {partition[j][n], IF j = k /\ n = i THEN new ELSE partition[j][n]}
  <2>1. Stored(c, rows) = [partition EXCEPT ![k][i] = new]
    BY DEF Stored
  <2> HIDE DEF new, k, i
  <2>2. partition \in [Kind -> [Number -> Partition]]
    BY DEF Shape
  <2>3. CASE partition' = partition
    BY <2>2, <2>3
  <2>4. CASE partition' = [partition EXCEPT ![k][i] = new]
    <3>1. \A j \in Kind, n \in Number :
             partition'[j][n] = IF j = k /\ n = i THEN new ELSE partition[j][n]
      BY <1>1, <2>2, <2>4
    <3>2. partition' \in [Kind -> [Number -> Partition]]
      BY <1>1, <2>2, <2>4
    <3> HIDE DEF TypeInv
    <3> QED BY <3>1, <3>2
  <2> QED BY <2>1, <2>3, <2>4
<1>3. Shape'
  BY <1>2 DEF Shape
<1>4. RowsAreMade'
  <2>1. \A j \in Kind, n \in Number : partition'[j][n].rows \subseteq 1..made[j]
    <3> TAKE j \in Kind, n \in Number
    <3>1. partition[j][n].rows \subseteq 1..made[j] /\ new.rows = rows
      BY DEF RowsAreMade
    <3>2. partition'[j][n] = partition[j][n] \/ (j = k /\ partition'[j][n] = new)
      BY <1>2
    <3> HIDE DEF new, k, i
    <3> QED BY <1>1, <3>1, <3>2
  <2> QED BY <2>1 DEF Shape, RowsAreMade
<1>5. EpochsPast'
  BY <1>1, <1>2 DEF Shape, EpochsPast
<1> QED BY <1>3, <1>4, <1>5

LEMMA IdleIsFlight == Idle \in Flight /\ Idle.payload = {} /\ Idle.epoch = 0
BY GraphAssumption DEF Idle, Flight, Kind, Number

LEMMA WriteKeepsTypes ==
    ASSUME NEW c \in Callers, TypeInv, Write(c)
    PROVE  TypeInv'
<1> DEFINE f == IF call[c].state = "writing" THEN [call[c] EXCEPT !.state = "written"] ELSE Idle
<1>1. /\ f \in Flight /\ f.payload \subseteq 1..made[f.kind] /\ f.epoch <= epoch
  <2>1. CASE call[c].state = "writing"
    <3>1. call[c] \in Flight
      BY DEF TypeInv, Shape
    <3>2. /\ f \in Flight /\ f.payload = call[c].payload
          /\ f.kind = call[c].kind /\ f.epoch = call[c].epoch
      BY <2>1, <3>1 DEF Flight
    <3> HIDE DEF f
    <3> QED BY <3>2 DEF TypeInv, RowsAreMade, EpochsPast
  <2>2. CASE call[c].state # "writing"
    BY <2>2, IdleIsFlight DEF TypeInv, Shape
  <2> QED BY <2>1, <2>2
<1>2. /\ call' = [call EXCEPT ![c] = f] /\ partition' = Stored(c, call[c].payload)
      /\ UNCHANGED <<table, buffer, made, epoch, overlapped, disturbed, torn>>
  BY DEF Write
<1> HIDE DEF f
<1>3. buffer \in [Kind -> SUBSET Nat] /\ disturbed \in [Kind -> BOOLEAN]
  BY DEF TypeInv, Shape
<1> QED BY <1>1, <1>2, <1>3, FlushKeepsTypes

LEMMA ResumeKeepsTypes ==
    ASSUME NEW c \in Callers, TypeInv, Resume(c)
    PROVE  TypeInv'
<1>1. /\ Idle \in Flight /\ Idle.payload \subseteq 1..made[Idle.kind] /\ Idle.epoch <= epoch
  BY IdleIsFlight DEF TypeInv, Shape
<1>2. /\ buffer' \in [Kind -> SUBSET Nat] /\ \A k \in Kind : buffer'[k] \subseteq buffer[k]
      /\ disturbed \in [Kind -> BOOLEAN]
  BY DEF Resume, TypeInv, Shape
<1> QED BY <1>1, <1>2, FlushKeepsTypes DEF Resume

LEMMA FailKeepsTypes ==
    ASSUME NEW c \in Callers, TypeInv, Fail(c)
    PROVE  TypeInv'
<1>1. /\ Idle \in Flight /\ Idle.payload \subseteq 1..made[Idle.kind] /\ Idle.epoch <= epoch
  BY IdleIsFlight DEF TypeInv, Shape
<1>2. /\ buffer \in [Kind -> SUBSET Nat] /\ disturbed' \in [Kind -> BOOLEAN]
      /\ {} \in SUBSET call[c].payload
  BY DEF Fail, TypeInv, Shape
<1> QED BY <1>1, <1>2, FlushKeepsTypes DEF Fail

LEMMA AbandonKeepsTypes ==
    ASSUME NEW c \in Callers, TypeInv, Abandon(c)
    PROVE  TypeInv'
<1> DEFINE f == [call[c] EXCEPT !.state = "abandoned"]
<1>1. /\ f \in Flight /\ f.payload \subseteq 1..made[f.kind] /\ f.epoch <= epoch
  <2>1. call[c] \in Flight
    BY DEF TypeInv, Shape
  <2>2. f \in Flight /\ f.payload = call[c].payload /\ f.kind = call[c].kind /\ f.epoch = call[c].epoch
    BY <2>1 DEF Flight
  <2> HIDE DEF f
  <2> QED BY <2>2 DEF TypeInv, RowsAreMade, EpochsPast
<1>2. /\ call' = [call EXCEPT ![c] = f] /\ partition' = partition
      /\ UNCHANGED <<table, buffer, made, epoch, overlapped, torn>>
  BY DEF Abandon
<1> HIDE DEF f
<1>3. /\ buffer \in [Kind -> SUBSET Nat] /\ disturbed' \in [Kind -> BOOLEAN]
      /\ {} \in SUBSET call[c].payload
  BY DEF Abandon, TypeInv, Shape
<1> QED BY <1>1, <1>2, <1>3, FlushKeepsTypes

\* reset() and a new process empty the mirror and start the next run of the graph.
LEMMA AfreshKeepsTypes ==
    ASSUME TypeInv, Reset \/ Restart
    PROVE  TypeInv'
<1>1. /\ epoch < MaxRestarts /\ epoch' = epoch + 1
      /\ table' = [k \in Kind |-> {}] /\ buffer' = [k \in Kind |-> {}]
      /\ overlapped' \in [Kind -> BOOLEAN] /\ disturbed' \in [Kind -> BOOLEAN]
      /\ torn' = [k \in Kind |-> {}]
      /\ UNCHANGED <<partition, call, made>>
  BY DEF Reset, Restart, TypeInv, Shape
<1>2. Shape'
  BY <1>1, GraphAssumption DEF TypeInv, Shape
<1>3. RowsAreMade'
  BY <1>1 DEF TypeInv, Shape, RowsAreMade
<1>4. EpochsPast'
  <2>1. epoch \in Int /\ epoch <= epoch'
    BY <1>1, GraphAssumption DEF TypeInv, Shape
  <2>2. \A c \in Callers : call[c].epoch \in Int
    BY GraphAssumption DEF TypeInv, Shape, Flight
  <2>3. \A k \in Kind, n \in Number : partition[k][n].epoch \in Int
    BY GraphAssumption DEF TypeInv, Shape, Partition
  <2>4. \A e \in Int : e <= epoch => e <= epoch'
    BY <1>1, <2>1
  <2> QED BY <1>1, <2>2, <2>3, <2>4 DEF TypeInv, EpochsPast
<1> QED BY <1>2, <1>3, <1>4 DEF TypeInv

-----------------------------------------------------------------------------
(* The node table, its buffer and its partitions, action by action *)

\* Numbers and epochs are integers; what the table of nodes may be compared with.
LEMMA NodeFacts ==
    ASSUME TypeInv
    PROVE  /\ \A d \in NodeFlush : /\ d \in Callers /\ call[d] \in Flight
                                   /\ call[d].number \in Number /\ call[d].epoch \in Int
                                   /\ call[d].epoch <= epoch
                                   /\ call[d].payload \subseteq 1..made["nodes"]
           /\ \A n \in Number : /\ n \in Int /\ Stores(n).epoch \in Int
                                /\ Stores(n).epoch <= epoch
                                /\ Stores(n).rows \subseteq 1..made["nodes"]
           /\ epoch \in Int /\ made["nodes"] \in Nat
           /\ Cardinality(table["nodes"]) \in Nat
<1> USE DEF TypeInv
<1>1. \A d \in NodeFlush : /\ d \in Callers /\ call[d] \in Flight
                           /\ call[d].number \in Number /\ call[d].epoch \in Int
                           /\ call[d].epoch <= epoch
                           /\ call[d].payload \subseteq 1..made["nodes"]
  BY GraphAssumption DEF NodeFlush, InFlight, Shape, RowsAreMade, EpochsPast, Flight
<1>2. \A n \in Number : /\ n \in Int /\ Stores(n).epoch \in Int
                        /\ Stores(n).epoch <= epoch
                        /\ Stores(n).rows \subseteq 1..made["nodes"]
  BY GraphAssumption, Kinds DEF Stores, Shape, RowsAreMade, EpochsPast, Partition, Number
<1>3. epoch \in Int /\ made["nodes"] \in Nat /\ table["nodes"] \in SUBSET (1..made["nodes"])
  BY GraphAssumption, Kinds DEF Shape, RowsAreMade
<1> QED BY <1>1, <1>2, <1>3, SizeBound

\* What does not touch the nodes keeps what holds of them.
LEMMA NodesUntouched ==
    ASSUME NodeInv,
           table'["nodes"] = table["nodes"], buffer'["nodes"] = buffer["nodes"],
           torn'["nodes"] = torn["nodes"],
           partition'["nodes"] = partition["nodes"], epoch' = epoch,
           overlapped'["nodes"] = overlapped["nodes"], disturbed'["nodes"] = disturbed["nodes"],
           NodeFlush' = NodeFlush, \A d \in NodeFlush : call'[d] = call[d]
    PROVE  NodeInv'
<1> USE DEF NodeInv, Stores
<1>1. NumbersGrow' /\ StaleRowsGone'
  BY DEF NumbersGrow, StaleRowsGone
<1>2. Undisturbed' /\ Alone' /\ WrittenKept' /\ StoredApart'
  BY DEF Undisturbed, Alone, WrittenKept, StoredApart
<1>3. NodesKept' /\ NodesStoredOnce'
  <2>1. InFlight("nodes") = NodeFlush
    BY DEF NodeFlush
  <2>2. InFlight("nodes")' = NodeFlush'
    BY DEF NodeFlush
  <2> QED BY <2>1, <2>2 DEF NodesKept, NodesStoredOnce
<1> QED BY <1>1, <1>2, <1>3

LEMMA AddNodes ==
    ASSUME NEW c \in Callers, NEW n \in 1..MaxBatch, TypeInv, NodeInv, Add(c, "nodes", n)
    PROVE  NodeInv'
<1> USE DEF NodeInv, Stores
<1> DEFINE new == (made["nodes"] + 1)..(made["nodes"] + n)
           size == Cardinality(table["nodes"])
           grown == Cardinality(table'["nodes"])
<1>1. /\ table'["nodes"] = table["nodes"] \cup new /\ buffer'["nodes"] = buffer["nodes"] \cup new
      /\ ~overlapped'["nodes"] => ~overlapped["nodes"] /\ NodeFlush = {}
      /\ UNCHANGED <<partition, epoch, disturbed, torn>>
  BY Kinds DEF Add, TypeInv, Shape, NodeFlush
<1>2. /\ c \notin NodeFlush /\ NodeFlush' = NodeFlush \cup {c}
      /\ \A d \in NodeFlush : call'[d] = call[d]
      /\ call'[c] = [state |-> "writing", kind |-> "nodes", number |-> grown,
                     payload |-> buffer["nodes"] \cup new, epoch |-> epoch]
  <2>1. call[c].state = "idle" /\ c \notin NodeFlush
    BY DEF Add, NodeFlush, InFlight
  <2>2. /\ \A d \in Callers : d # c => call'[d] = call[d]
        /\ call'[c] = [state |-> "writing", kind |-> "nodes", number |-> grown,
                       payload |-> buffer["nodes"] \cup new, epoch |-> epoch]
    BY Kinds, <1>1 DEF Add, TypeInv, Shape, PartitionNumber
  <2>3. NodeFlush' = NodeFlush \cup {c}
    BY <2>1, <2>2 DEF NodeFlush, InFlight
  <2>4. \A d \in NodeFlush : call'[d] = call[d]
    BY <2>1, <2>2 DEF NodeFlush, InFlight
  <2> QED BY <2>1, <2>2, <2>3, <2>4
<1>3. size \in Nat /\ grown \in Nat /\ size < grown
  <2>1. n \in Nat \ {0} /\ table["nodes"] \in SUBSET (1..made["nodes"]) /\ made["nodes"] \in Nat
    BY GraphAssumption, Kinds DEF TypeInv, Shape, RowsAreMade
  <2>2. table'["nodes"] \in SUBSET (1..(made["nodes"] + n)) /\ made["nodes"] + n \in Nat
    BY <1>1, <2>1
  <2> QED BY <1>1, <2>1, <2>2, SizeBound, SizeGrows
<1>4. /\ \A d \in NodeFlush : /\ call[d].number \in Int /\ call[d].epoch \in Int
                              /\ call[d].payload \cap new = {}
      /\ \A i \in Number : i \in Int /\ partition["nodes"][i].rows \cap new = {}
      /\ new # {} /\ grown \in Number
  <2>1. new # {} /\ new \cap (1..made["nodes"]) = {} /\ grown \in Number
    BY AddFacts, Kinds DEF PartitionNumber
  <2> HIDE DEF new, grown
  <2> QED BY <2>1, NodeFacts
<1> HIDE DEF new, size, grown
<1>5. NumbersGrow'
  <2>1. /\ \A d \in NodeFlush' :
             call'[d].epoch = epoch => call'[d].number <= grown
        /\ \A i \in Number : partition["nodes"][i].epoch = epoch => i <= grown
    BY <1>2, <1>3, <1>4 DEF NumbersGrow, size
  <2>2. \A d \in NodeFlush : call[d].epoch = epoch => call[d].number # grown
    BY <1>3, <1>4 DEF NumbersGrow, size
  <2>3. \A d, g \in NodeFlush' :
           d # g /\ call'[d].epoch = call'[g].epoch => call'[d].number # call'[g].number
    BY <1>2, <2>2 DEF NumbersGrow
  <2>4. partition["nodes"][grown].epoch # epoch
    BY <1>3, <1>4 DEF NumbersGrow, size
  <2>5. \A d \in NodeFlush' :
           call'[d].state # "written" =>
               partition["nodes"][call'[d].number].epoch # call'[d].epoch
    BY <1>2, <2>4 DEF NumbersGrow
  <2> QED BY <1>1, <2>1, <2>3, <2>5 DEF NumbersGrow, grown
<1>6. StaleRowsGone'
  BY <1>1, <1>2, <1>4 DEF StaleRowsGone
<1>7. Undisturbed'
  BY <1>1, <1>2 DEF Undisturbed
<1>8. Alone'
  BY <1>1, <1>2 DEF Alone
<1>9. WrittenKept'
  BY <1>1, <1>2 DEF WrittenKept, Undisturbed
<1>10. StoredApart'
  <2> SUFFICES ASSUME ~overlapped'["nodes"], ~disturbed["nodes"]
               PROVE  \A d \in NodeFlush', i \in Number :
                         call'[d].payload \cap partition["nodes"][i].rows = {}
    BY <1>1 DEF StoredApart
  <2>1. NodeFlush' = {c} /\ buffer["nodes"] = {}
    BY <1>1, <1>2 DEF Undisturbed
  <2> QED BY <1>2, <1>4, <2>1
<1>11. NodesKept'
  BY <1>1, <1>2 DEF NodesKept, NodeFlush
<1>12. NodesStoredOnce'
  BY <1>1, <1>4 DEF NodesStoredOnce
<1> QED BY <1>5, <1>6, <1>7, <1>8, <1>9, <1>10, <1>11, <1>12

\* add_nodes() that raises: its rows are in the mirror, and in the buffer unless torn.
LEMMA AddRaisesNodes ==
    ASSUME NEW c \in Callers, NEW n \in 1..MaxBatch, TypeInv, NodeInv, AddRaises(c, "nodes", n)
    PROVE  NodeInv'
<1> USE DEF NodeInv, Stores
<1> DEFINE new == (made["nodes"] + 1)..(made["nodes"] + n)
           size == Cardinality(table["nodes"])
           grown == Cardinality(table'["nodes"])
<1>1. PICK lost \in SUBSET {made["nodes"] + n} :
         /\ table'["nodes"] = table["nodes"] \cup new
         /\ buffer'["nodes"] = buffer["nodes"] \cup (new \ lost)
         /\ torn'["nodes"] = torn["nodes"] \cup lost
         /\ disturbed'["nodes"]
         /\ ~overlapped'["nodes"] => ~overlapped["nodes"] /\ NodeFlush = {}
         /\ UNCHANGED <<partition, call, epoch>>
  BY Kinds DEF AddRaises, TypeInv, Shape, NodeFlush
<1>2. NodeFlush' = NodeFlush
  BY <1>1 DEF NodeFlush, InFlight
<1>3. size \in Nat /\ grown \in Nat /\ size <= grown
  <2>1. n \in Nat \ {0} /\ table["nodes"] \in SUBSET (1..made["nodes"]) /\ made["nodes"] \in Nat
    BY GraphAssumption, Kinds DEF TypeInv, Shape, RowsAreMade
  <2>2. table'["nodes"] \in SUBSET (1..(made["nodes"] + n)) /\ made["nodes"] + n \in Nat
    BY <1>1, <2>1
  <2> QED BY <1>1, <2>1, <2>2, SizeBound, SizeGrows
<1>4. /\ \A d \in NodeFlush : call[d].number \in Int /\ call[d].payload \cap new = {}
      /\ \A i \in Number : i \in Int /\ partition["nodes"][i].rows \cap new = {}
  <2>1. new \cap (1..made["nodes"]) = {}
    BY AddFacts, Kinds
  <2> HIDE DEF new
  <2> QED BY <2>1, NodeFacts
<1> HIDE DEF new, size, grown
<1>5. NumbersGrow'
  <2>1. /\ \A d \in NodeFlush : call[d].epoch = epoch => call[d].number <= size
        /\ \A i \in Number : partition["nodes"][i].epoch = epoch => i <= size
    BY DEF NumbersGrow, size
  <2>2. /\ \A d \in NodeFlush : call[d].epoch = epoch => call[d].number <= grown
        /\ \A i \in Number : partition["nodes"][i].epoch = epoch => i <= grown
    BY <1>3, <1>4, <2>1
  <2>3. /\ \A d, g \in NodeFlush :
              d # g /\ call[d].epoch = call[g].epoch => call[d].number # call[g].number
        /\ \A d \in NodeFlush :
              call[d].state # "written" =>
                  partition["nodes"][call[d].number].epoch # call[d].epoch
    BY DEF NumbersGrow
  <2>4. call' = call /\ partition' = partition /\ epoch' = epoch
    BY <1>1
  <2> QED BY <1>2, <2>2, <2>3, <2>4 DEF NumbersGrow, grown
<1>6. StaleRowsGone'
  BY <1>1, <1>2, <1>4 DEF StaleRowsGone
<1>7. Undisturbed' /\ StoredApart' /\ NodesStoredOnce'
  BY <1>1 DEF Undisturbed, StoredApart, NodesStoredOnce
<1>8. Alone' /\ WrittenKept'
  BY <1>1, <1>2 DEF Alone, WrittenKept
<1>9. NodesKept'
  BY <1>1, <1>2 DEF NodesKept, NodeFlush
<1> QED BY <1>5, <1>6, <1>7, <1>8, <1>9

\* The partition a node flush puts, and no other, changes.
LEMMA NodeStored ==
    ASSUME NEW c \in NodeFlush, TypeInv, NEW rows, partition' = Stored(c, rows)
    PROVE  \A n \in Number :
              partition'["nodes"][n] =
                 IF n = call[c].number THEN [rows |-> rows, epoch |-> call[c].epoch]
                 ELSE partition["nodes"][n]
<1>1. call[c].kind = "nodes" /\ partition["nodes"] \in [Number -> Partition]
  BY Kinds DEF NodeFlush, InFlight, TypeInv, Shape
<1>2. partition \in [Kind -> [Number -> Partition]]
  BY DEF TypeInv, Shape
<1> QED BY <1>1, <1>2, Kinds DEF Stored

LEMMA WriteNodes ==
    ASSUME NEW c \in NodeFlush, TypeInv, NodeInv, Write(c)
    PROVE  NodeInv'
<1> USE DEF NodeInv, Stores
<1> DEFINE i == call[c].number
           e == call[c].epoch
           rows == call[c].payload
<1>1. /\ i \in Number /\ e \in Int
      /\ \A n \in Number : partition'["nodes"][n] =
            IF n = i THEN [rows |-> rows, epoch |-> e] ELSE partition["nodes"][n]
      /\ UNCHANGED <<table, buffer, epoch, overlapped, disturbed, torn>>
  BY NodeFacts, NodeStored DEF Write
<1>2. /\ NodeFlush' \subseteq NodeFlush /\ NodeFlush \subseteq NodeFlush' \cup {c}
      /\ \A d \in NodeFlush : d # c => call'[d] = call[d]
      /\ c \in NodeFlush' => call'[c] = [call[c] EXCEPT !.state = "written"]
      /\ call[c].state = "writing" => c \in NodeFlush'
      /\ call[c].state \in {"writing", "abandoned"}
  <2> DEFINE f == IF call[c].state = "writing" THEN [call[c] EXCEPT !.state = "written"] ELSE Idle
  <2>1. /\ c \in Callers /\ call[c] \in Flight /\ call[c].kind = "nodes"
        /\ call[c].state \in {"writing", "abandoned"}
        /\ call' = [call EXCEPT ![c] = f]
    BY DEF Write, NodeFlush, InFlight, TypeInv, Shape
  <2>2. /\ call[c].state = "writing" => f = [call[c] EXCEPT !.state = "written"]
                                        /\ f.state = "written" /\ f.kind = "nodes"
        /\ call[c].state # "writing" => f.state = "idle"
    BY <2>1 DEF Idle, Flight
  <2> HIDE DEF f
  <2>3. call'[c] = f /\ \A d \in Callers : d # c => call'[d] = call[d]
    BY <2>1 DEF TypeInv, Shape
  <2> QED BY <2>1, <2>2, <2>3 DEF NodeFlush, InFlight
<1>3. /\ \A d \in NodeFlush : /\ call[d].number \in Number /\ call[d].epoch \in Int
                              /\ call[d] \in Flight
      /\ \A d \in NodeFlush' : /\ d \in NodeFlush /\ call'[d].number = call[d].number
                               /\ call'[d].epoch = call[d].epoch
                               /\ call'[d].payload = call[d].payload
                               /\ d # c => call'[d] = call[d]
                               /\ d = c => call'[d].state = "written"
  <2>1. \A d \in NodeFlush : /\ call[d].number \in Number /\ call[d].epoch \in Int
                             /\ call[d] \in Flight
    BY NodeFacts
  <2> QED BY <1>2, <2>1 DEF Flight
<1>4. partition["nodes"][i].epoch # e
  BY <1>2 DEF NumbersGrow
<1> HIDE DEF i, e, rows
<1>5. i = call[c].number /\ e = call[c].epoch /\ rows = call[c].payload
  BY DEF i, e, rows
<1>6. NumbersGrow'
  <2>1. /\ \A d \in NodeFlush' :
             call'[d].epoch = epoch => call'[d].number <= Cardinality(table["nodes"])
        /\ \A d, g \in NodeFlush' :
             d # g /\ call'[d].epoch = call'[g].epoch => call'[d].number # call'[g].number
    BY <1>3 DEF NumbersGrow
  <2>2. \A n \in Number : partition'["nodes"][n].epoch = epoch => n <= Cardinality(table["nodes"])
    BY <1>1, <1>5 DEF NumbersGrow
  <2>3. \A d \in NodeFlush' :
           call'[d].state # "written" =>
               partition'["nodes"][call'[d].number].epoch # call'[d].epoch
    BY <1>1, <1>3, <1>5 DEF NumbersGrow
  <2> QED BY <1>1, <2>1, <2>2, <2>3 DEF NumbersGrow
<1>7. StaleRowsGone'
  BY <1>1, <1>3, <1>5 DEF StaleRowsGone
<1>8. Undisturbed'
  BY <1>1, <1>2, <1>3 DEF Undisturbed
<1>9. Alone'
  BY <1>1, <1>3 DEF Alone
<1>10. WrittenKept'
  <2> SUFFICES ASSUME ~(overlapped["nodes"] /\ disturbed["nodes"]), NEW d \in NodeFlush',
                      call'[d].state = "written"
               PROVE  partition'["nodes"][call'[d].number].rows = call'[d].payload
    BY <1>1 DEF WrittenKept
  <2>1. CASE d = c
    BY <1>1, <1>3, <1>5, <2>1
  <2>2. CASE d # c
    <3>1. call[d].number # i
      BY <1>3, <1>5, <2>2 DEF NumbersGrow, Undisturbed, Alone
    <3> QED BY <1>1, <1>3, <2>2, <3>1 DEF WrittenKept
  <2> QED BY <2>1, <2>2
<1>11. StoredApart'
  BY <1>1, <1>3 DEF StoredApart, Alone
<1>12. NodesKept'
  <2> SUFFICES ASSUME ~(overlapped["nodes"] /\ disturbed["nodes"]),
                      NEW r \in table["nodes"] \ torn["nodes"], r \notin buffer["nodes"]
               PROVE  \/ \E d \in NodeFlush' : r \in call'[d].payload
                      \/ \E n \in Number : r \in partition'["nodes"][n].rows
    BY <1>1 DEF NodesKept, NodeFlush
  <2>1. CASE \E d \in NodeFlush : r \in call[d].payload
    BY <1>1, <1>2, <1>3, <1>5, <2>1
  <2>2. CASE \E n \in Number : r \in partition["nodes"][n].rows
    <3>1. PICK n \in Number : r \in partition["nodes"][n].rows
      BY <2>2
    <3>2. partition["nodes"][n].epoch = epoch
      BY <3>1 DEF StaleRowsGone
    <3>3. n # i
      BY <1>2, <1>4, <1>5, <3>1, <3>2 DEF Undisturbed, Alone
    <3> QED BY <1>1, <3>1, <3>3
  <2> QED BY <2>1, <2>2 DEF NodesKept, NodeFlush
<1>13. NodesStoredOnce'
  <2> SUFFICES ASSUME ~(overlapped["nodes"] \/ disturbed["nodes"]),
                      NEW m \in Number, NEW n \in Number, m # n
               PROVE  partition'["nodes"][m].rows \cap partition'["nodes"][n].rows
                         \cap table["nodes"] = {}
    BY <1>1 DEF NodesStoredOnce
  <2>1. call[c].state = "writing"
    BY <1>2 DEF Undisturbed
  <2>2. \A j \in Number : rows \cap partition["nodes"][j].rows = {}
    BY <1>5, <2>1 DEF StoredApart
  <2> QED BY <1>1, <2>2 DEF NodesStoredOnce
<1> QED BY <1>6, <1>7, <1>8, <1>9, <1>10, <1>11, <1>12, <1>13

\* A node flush that ends: the caller is idle again.
LEMMA NodeFlushEnds ==
    ASSUME NEW c \in NodeFlush, TypeInv, call' = [call EXCEPT ![c] = Idle]
    PROVE  /\ NodeFlush' = NodeFlush \ {c}
           /\ \A d \in NodeFlush : d # c => call'[d] = call[d]
<1>1. c \in Callers /\ \A d \in Callers : call'[d] = IF d = c THEN Idle ELSE call[d]
  BY DEF NodeFlush, InFlight, TypeInv, Shape
<1> QED BY <1>1 DEF NodeFlush, InFlight, Idle

LEMMA ResumeNodes ==
    ASSUME NEW c \in NodeFlush, TypeInv, NodeInv, Resume(c)
    PROVE  NodeInv'
<1> USE DEF NodeInv, Stores
<1>1. /\ call[c].state = "written" /\ buffer'["nodes"] = {} /\ call[c].number \in Number
      /\ UNCHANGED <<table, partition, epoch, overlapped, disturbed, torn>>
  BY Kinds, NodeFacts DEF Resume, NodeFlush, InFlight, TypeInv, Shape
<1>2. /\ NodeFlush' = NodeFlush \ {c}
      /\ \A d \in NodeFlush : d # c => call'[d] = call[d]
  BY NodeFlushEnds DEF Resume
<1>3. NumbersGrow' /\ StaleRowsGone'
  BY <1>1, <1>2 DEF NumbersGrow, StaleRowsGone
<1>4. Undisturbed'
  BY <1>1, <1>2 DEF Undisturbed
<1>5. Alone'
  BY <1>1, <1>2 DEF Alone
<1>6. WrittenKept' /\ StoredApart'
  BY <1>1, <1>2 DEF WrittenKept, StoredApart
<1>7. NodesKept'
  <2> SUFFICES ASSUME ~(overlapped["nodes"] /\ disturbed["nodes"]), NEW r \in table["nodes"] \ torn["nodes"]
               PROVE  \/ \E d \in NodeFlush' : r \in call'[d].payload
                      \/ \E n \in Number : r \in partition["nodes"][n].rows
    BY <1>1 DEF NodesKept, NodeFlush
  <2>1. \A s \in call[c].payload : \E n \in Number : s \in partition["nodes"][n].rows
    BY <1>1 DEF WrittenKept
  <2>2. CASE r \in buffer["nodes"]
    BY <1>2, <2>1, <2>2 DEF Undisturbed, Alone
  <2>3. CASE \E d \in NodeFlush : r \in call[d].payload
    BY <1>2, <2>1, <2>3
  <2>4. CASE \E n \in Number : r \in partition["nodes"][n].rows
    BY <2>4
  <2> QED BY <2>2, <2>3, <2>4 DEF NodesKept, NodeFlush
<1>8. NodesStoredOnce'
  BY <1>1 DEF NodesStoredOnce
<1> QED BY <1>3, <1>4, <1>5, <1>6, <1>7, <1>8

LEMMA FailNodes ==
    ASSUME NEW c \in NodeFlush, TypeInv, NodeInv, Fail(c)
    PROVE  NodeInv'
<1> USE DEF NodeInv, Stores
<1> DEFINE i == call[c].number
           e == call[c].epoch
<1>1. /\ disturbed'["nodes"] /\ i \in Number /\ e \in Int
      /\ UNCHANGED <<table, buffer, epoch, overlapped, torn>>
  BY Kinds, NodeFacts DEF Fail, NodeFlush, InFlight, TypeInv, Shape
<1>2. /\ NodeFlush' = NodeFlush \ {c}
      /\ \A d \in NodeFlush : d # c => call'[d] = call[d]
  BY NodeFlushEnds DEF Fail
<1>3. \/ \A n \in Number : partition'["nodes"][n] = partition["nodes"][n]
      \/ /\ call[c].state # "written" /\ partition["nodes"][i].epoch # e
         /\ \A n \in Number : partition'["nodes"][n] =
               IF n = i THEN [rows |-> {}, epoch |-> e] ELSE partition["nodes"][n]
  <2>1. CASE partition' = partition
    BY <2>1
  <2>2. CASE call[c].state # "written" /\ partition' = Stored(c, {})
    BY <2>2, NodeStored DEF NumbersGrow
  <2> QED BY <2>1, <2>2 DEF Fail
<1>4. \A d \in NodeFlush : call[d].number \in Number
  BY NodeFacts
<1>5. /\ call[c].number = i /\ call[c].epoch = e
      /\ i = call[c].number /\ e = call[c].epoch
  OBVIOUS
<1> HIDE DEF i, e
<1>6. NumbersGrow'
  <2>1. /\ \A d \in NodeFlush' :
             call'[d].epoch = epoch => call'[d].number <= Cardinality(table["nodes"])
        /\ \A d, g \in NodeFlush' :
             d # g /\ call'[d].epoch = call'[g].epoch => call'[d].number # call'[g].number
    BY <1>2 DEF NumbersGrow
  <2>2. \A n \in Number : partition'["nodes"][n].epoch = epoch => n <= Cardinality(table["nodes"])
    BY <1>1, <1>3, <1>5 DEF NumbersGrow
  <2>3. \A d \in NodeFlush' :
           call'[d].state # "written" =>
               partition'["nodes"][call'[d].number].epoch # call'[d].epoch
    BY <1>2, <1>3, <1>4, <1>5 DEF NumbersGrow
  <2> QED BY <1>1, <2>1, <2>2, <2>3 DEF NumbersGrow
<1>7. StaleRowsGone'
  BY <1>1, <1>2, <1>3 DEF StaleRowsGone
<1>8. Undisturbed' /\ StoredApart' /\ NodesStoredOnce'
  BY <1>1 DEF Undisturbed, StoredApart, NodesStoredOnce
<1>9. Alone' /\ WrittenKept'
  BY <1>1, <1>2 DEF Alone, WrittenKept
<1>10. NodesKept'
  <2> SUFFICES ASSUME ~overlapped["nodes"], NEW r \in table["nodes"] \ torn["nodes"]
               PROVE  \/ r \in buffer["nodes"]
                      \/ \E n \in Number : r \in partition'["nodes"][n].rows
    BY <1>1 DEF NodesKept
  <2>1. \A d \in NodeFlush : d = c
    BY DEF Alone
  <2>2. CASE r \in buffer["nodes"]
    BY <2>2
  <2>3. CASE r \in call[c].payload
    BY <2>3 DEF Alone
  <2>4. CASE \E n \in Number : r \in partition["nodes"][n].rows
    <3>1. PICK n \in Number : r \in partition["nodes"][n].rows
      BY <2>4
    <3>2. partition["nodes"][n].epoch = epoch
      BY <3>1 DEF StaleRowsGone
    <3>3. e = epoch
      BY <1>5 DEF Alone
    <3> QED BY <1>3, <3>1, <3>2, <3>3
  <2> QED BY <2>1, <2>2, <2>3, <2>4 DEF NodesKept, NodeFlush
<1> QED BY <1>6, <1>7, <1>8, <1>9, <1>10

LEMMA AbandonNodes ==
    ASSUME NEW c \in NodeFlush, TypeInv, NodeInv, Abandon(c)
    PROVE  NodeInv'
<1> USE DEF NodeInv, Stores
<1>1. /\ disturbed'["nodes"] /\ call[c].state = "writing"
      /\ UNCHANGED <<table, buffer, partition, epoch, overlapped, torn>>
  BY Kinds DEF Abandon, NodeFlush, InFlight, TypeInv, Shape
<1>2. /\ NodeFlush' = NodeFlush
      /\ \A d \in NodeFlush : d # c => call'[d] = call[d]
      /\ call'[c] = [call[c] EXCEPT !.state = "abandoned"] /\ call[c] \in Flight
  <2>1. /\ c \in Callers /\ call[c] \in Flight
        /\ call'[c] = [call[c] EXCEPT !.state = "abandoned"]
        /\ \A d \in Callers : d # c => call'[d] = call[d]
    BY DEF Abandon, NodeFlush, InFlight, TypeInv, Shape
  <2>2. call[c].kind = "nodes" /\ call'[c].kind = "nodes" /\ call'[c].state = "abandoned"
    BY <2>1 DEF NodeFlush, InFlight, Flight
  <2> QED BY <1>1, <2>1, <2>2 DEF NodeFlush, InFlight
<1>3. \A d \in NodeFlush : /\ call'[d].number = call[d].number /\ call'[d].epoch = call[d].epoch
                           /\ call'[d].payload = call[d].payload
                           /\ d # c => call'[d].state = call[d].state
                           /\ d = c => call'[d].state = "abandoned"
  BY <1>2 DEF Flight
<1>4. NumbersGrow' /\ StaleRowsGone'
  BY <1>1, <1>2, <1>3 DEF NumbersGrow, StaleRowsGone
<1>5. Undisturbed' /\ StoredApart' /\ NodesStoredOnce'
  BY <1>1 DEF Undisturbed, StoredApart, NodesStoredOnce
<1>6. Alone' /\ WrittenKept'
  BY <1>1, <1>2, <1>3 DEF Alone, WrittenKept
<1>7. NodesKept'
  BY <1>1, <1>2, <1>3 DEF NodesKept, NodeFlush
<1> QED BY <1>4, <1>5, <1>6, <1>7

\* An empty mirror and an empty buffer, and a numbering of which nothing is stored yet.
LEMMA AfreshNodes ==
    ASSUME TypeInv, NodeInv, Reset \/ Restart
    PROVE  NodeInv'
<1> USE DEF NodeInv, Stores
<1>1. /\ table'["nodes"] = {} /\ buffer'["nodes"] = {} /\ epoch' = epoch + 1
      /\ UNCHANGED <<partition, call>> /\ NodeFlush' = NodeFlush
      /\ ~disturbed'["nodes"] => NodeFlush = {}
      /\ \/ NodeFlush = {}
         \/ ~overlapped'["nodes"] => ~overlapped["nodes"]
      /\ ~(overlapped'["nodes"] /\ disturbed'["nodes"])
            => NodeFlush = {} \/ ~(overlapped["nodes"] /\ disturbed["nodes"])
  <2>1. CASE Reset
    BY <2>1, Kinds DEF Reset, NodeFlush, InFlight
  <2>2. CASE Restart
    BY <2>2, Kinds DEF Restart, NodeFlush, InFlight
  <2> QED BY <2>1, <2>2
<1>2. /\ \A d \in NodeFlush : call[d].epoch \in Int /\ call[d].epoch # epoch'
      /\ \A n \in Number : partition["nodes"][n].epoch # epoch'
  BY <1>1, NodeFacts
<1>3. NumbersGrow'
  BY <1>1, <1>2 DEF NumbersGrow
<1>4. StaleRowsGone'
  BY <1>1 DEF StaleRowsGone
<1>5. Undisturbed' /\ StoredApart'
  BY <1>1 DEF Undisturbed, StoredApart
<1>6. Alone'
  BY <1>1, <1>2 DEF Alone
<1>7. WrittenKept'
  BY <1>1 DEF WrittenKept
<1>8. NodesKept' /\ NodesStoredOnce'
  BY <1>1 DEF NodesKept, NodesStoredOnce
<1> QED BY <1>3, <1>4, <1>5, <1>6, <1>7, <1>8

\* A step of a flush of edges leaves the nodes alone.
LEMMA EdgesLeaveNodes ==
    ASSUME NEW c \in Callers, c \notin NodeFlush, TypeInv, NodeInv,
           \/ \E n \in 1..MaxBatch : Add(c, "edges", n) \/ AddRaises(c, "edges", n)
           \/ Write(c) \/ Resume(c) \/ Fail(c) \/ Abandon(c)
    PROVE  NodeInv'
<1> USE DEF TypeInv
<1>1. CASE \E n \in 1..MaxBatch : Add(c, "edges", n)
  <2>1. PICK n \in 1..MaxBatch : Add(c, "edges", n)
    BY <1>1
  <2>2. /\ table'["nodes"] = table["nodes"] /\ buffer'["nodes"] = buffer["nodes"]
        /\ overlapped'["nodes"] = overlapped["nodes"]
        /\ UNCHANGED <<partition, epoch, disturbed, torn>>
    BY <2>1, Kinds DEF Add, Shape
  <2>3. /\ \A d \in Callers : d # c => call'[d] = call[d]
        /\ call[c].state = "idle" /\ call'[c].kind = "edges"
    BY <2>1 DEF Add, Shape
  <2>4. NodeFlush' = NodeFlush /\ \A d \in NodeFlush : call'[d] = call[d]
    BY <2>3 DEF NodeFlush, InFlight
  <2> QED BY <2>2, <2>4, NodesUntouched
<1>2. CASE \E n \in 1..MaxBatch : AddRaises(c, "edges", n)
  <2>1. PICK n \in 1..MaxBatch : AddRaises(c, "edges", n)
    BY <1>2
  <2>2. /\ table'["nodes"] = table["nodes"] /\ buffer'["nodes"] = buffer["nodes"]
        /\ overlapped'["nodes"] = overlapped["nodes"] /\ disturbed'["nodes"] = disturbed["nodes"]
        /\ torn'["nodes"] = torn["nodes"]
        /\ UNCHANGED <<partition, call, epoch>>
    BY <2>1, Kinds DEF AddRaises, Shape
  <2> QED BY <2>2, NodesUntouched DEF NodeFlush, InFlight
<1>3. CASE Write(c) \/ Resume(c) \/ Fail(c) \/ Abandon(c)
  <2>1. call[c] \in Flight /\ call[c].state # "idle" /\ call[c].kind = "edges"
    BY <1>3, Kinds DEF Write, Resume, Fail, Abandon, Shape, Kind, NodeFlush, InFlight, Flight
  <2>2. \A d \in Callers : d # c => call'[d] = call[d]
    BY <1>3 DEF Write, Resume, Fail, Abandon, Shape
  <2>3. call'[c].kind = "edges" \/ call'[c].state = "idle"
    BY <1>3, <2>1 DEF Write, Resume, Fail, Abandon, Shape, Flight, Idle
  <2>4. NodeFlush' = NodeFlush /\ \A d \in NodeFlush : call'[d] = call[d]
    BY <2>1, <2>2, <2>3 DEF NodeFlush, InFlight
  <2>5. partition'["nodes"] = partition["nodes"]
    BY <1>3, <2>1, Kinds DEF Write, Resume, Fail, Abandon, Stored, Shape
  <2>6. /\ table'["nodes"] = table["nodes"] /\ buffer'["nodes"] = buffer["nodes"]
        /\ epoch' = epoch
        /\ overlapped'["nodes"] = overlapped["nodes"] /\ disturbed'["nodes"] = disturbed["nodes"]
        /\ torn'["nodes"] = torn["nodes"]
    BY <1>3, <2>1, Kinds DEF Write, Resume, Fail, Abandon, Shape
  <2> QED BY <2>4, <2>5, <2>6, NodesUntouched
<1> QED BY <1>1, <1>2, <1>3

-----------------------------------------------------------------------------
(* The inductive invariant and what follows from it *)

LEMMA InitSatisfiesIInv == Init => IInv
<1> SUFFICES ASSUME Init PROVE IInv
  OBVIOUS
<1>1. NoPartition \in Partition /\ NoPartition.rows = {} /\ NoPartition.epoch = -1
  BY GraphAssumption DEF NoPartition, Partition
<1>2. Shape
  BY <1>1, IdleIsFlight, GraphAssumption DEF Init, Shape
<1>3. RowsAreMade
  <2>1. \A k \in Kind, n \in Number : partition[k][n].rows = {}
    BY <1>1 DEF Init
  <2> QED BY <2>1, IdleIsFlight, BoundsAreNats DEF Init, RowsAreMade
<1>4. EpochsPast
  <2>1. \A k \in Kind, n \in Number : partition[k][n].epoch = -1
    BY <1>1 DEF Init
  <2> QED BY <2>1, IdleIsFlight DEF Init, EpochsPast
<1>5. /\ NodeFlush = {} /\ table["nodes"] = {} /\ buffer["nodes"] = {} /\ epoch = 0
      /\ \A n \in Number : partition["nodes"][n] = NoPartition
  BY Kinds DEF Init, NodeFlush, InFlight, Idle
<1>6. NodeInv
  <2>1. NumbersGrow /\ StaleRowsGone
    BY <1>1, <1>5 DEF NumbersGrow, StaleRowsGone, Stores
  <2>2. Undisturbed /\ Alone /\ WrittenKept /\ StoredApart
    BY <1>5 DEF Undisturbed, Alone, WrittenKept, StoredApart
  <2>3. NodesKept /\ NodesStoredOnce
    BY <1>5 DEF NodesKept, NodesStoredOnce
  <2> QED BY <2>1, <2>2, <2>3 DEF NodeInv
<1> QED BY <1>2, <1>3, <1>4, <1>6 DEF IInv

LEMMA StepKeepsIInv == IInv /\ [Next]_vars => IInv'
<1> SUFFICES ASSUME TypeInv, NodeInv, [Next]_vars PROVE TypeInv' /\ NodeInv'
  BY DEF IInv, TypeInv
<1>1. ASSUME NEW c \in Callers, NEW k \in Kind, NEW n \in 1..MaxBatch, Add(c, k, n)
      PROVE  TypeInv' /\ NodeInv'
  <2>1. TypeInv'
    BY <1>1, AddKeepsTypes
  <2>2. CASE k = "nodes"
    BY <1>1, <2>1, <2>2, AddNodes
  <2>3. CASE k # "nodes"
    <3>1. k = "edges" /\ c \notin NodeFlush
      BY <1>1, <2>3 DEF Kind, Add, NodeFlush, InFlight
    <3> QED BY <1>1, <2>1, <3>1, EdgesLeaveNodes
  <2> QED BY <2>2, <2>3
<1>2. ASSUME NEW c \in Callers, Write(c) PROVE TypeInv' /\ NodeInv'
  BY <1>2, WriteKeepsTypes, WriteNodes, EdgesLeaveNodes
<1>3. ASSUME NEW c \in Callers, Resume(c) PROVE TypeInv' /\ NodeInv'
  BY <1>3, ResumeKeepsTypes, ResumeNodes, EdgesLeaveNodes
<1>4. ASSUME NEW c \in Callers, Fail(c) PROVE TypeInv' /\ NodeInv'
  BY <1>4, FailKeepsTypes, FailNodes, EdgesLeaveNodes
<1>5. ASSUME NEW c \in Callers, Abandon(c) PROVE TypeInv' /\ NodeInv'
  BY <1>5, AbandonKeepsTypes, AbandonNodes, EdgesLeaveNodes
<1>6. CASE Reset \/ Restart
  BY <1>6, AfreshKeepsTypes, AfreshNodes
<1>7. ASSUME NEW c \in Callers, NEW k \in Kind, NEW n \in 1..MaxBatch, AddRaises(c, k, n)
      PROVE  TypeInv' /\ NodeInv'
  <2>1. TypeInv'
    BY <1>7, AddRaisesKeepsTypes
  <2>2. CASE k = "nodes"
    BY <1>7, <2>1, <2>2, AddRaisesNodes
  <2>3. CASE k # "nodes"
    <3>1. k = "edges" /\ c \notin NodeFlush
      BY <1>7, <2>3 DEF Kind, AddRaises, NodeFlush, InFlight
    <3> QED BY <1>7, <2>1, <3>1, EdgesLeaveNodes
  <2> QED BY <2>2, <2>3
<1>8. CASE UNCHANGED vars
  <2>1. TypeInv'
    BY <1>8 DEF vars, TypeInv, Shape, RowsAreMade, EpochsPast
  <2>2. NodeFlush' = NodeFlush
    BY <1>8 DEF vars, NodeFlush, InFlight
  <2> QED BY <1>8, <2>1, <2>2, NodesUntouched DEF vars
<1> QED BY <1>1, <1>2, <1>3, <1>4, <1>5, <1>6, <1>7, <1>8 DEF Next

\* The inductive invariant holds in every reachable state.
THEOREM Safety == Spec => []IInv
BY InitSatisfiesIInv, StepKeepsIInv, PTL DEF Spec

\* Type correctness: partition numbers stay in range, because no more rows than were added
\* are ever in the table (PartitionNumber()), and flushes write only rows that were added.
THEOREM TypeCorrect == Spec => []TypeOK
<1>1. IInv => TypeOK
  BY TypeFromIInv DEF IInv
<1> QED BY <1>1, Safety, PTL

\* Every node of the mirror that was serialised is buffered, on its way, or stored, unless
\* calls both overlapped and failed or met a reset: what Resume() clears, some flush has written or will.
THEOREM NodesAreKept == Spec => []NodesKept
<1>1. IInv => NodesKept
  BY DEF IInv, NodeInv
<1> QED BY <1>1, Safety, PTL

\* Undisturbed flushes that do not overlap store each node once.
THEOREM NodesAreStoredOnce == Spec => []NodesStoredOnce
<1>1. IInv => NodesStoredOnce
  BY DEF IInv, NodeInv
<1> QED BY <1>1, Safety, PTL

LEMMA StepKeepsPartitions ==
    ASSUME IInv, [Next]_vars, NEW n \in Number, partition'["nodes"][n] # partition["nodes"][n]
    PROVE  partition'["nodes"][n].epoch # partition["nodes"][n].epoch
<1> USE DEF IInv
<1>1. PICK c \in Callers : \/ Write(c)
                           \/ Fail(c) /\ call[c].state # "written" /\ partition' = Stored(c, {})
  BY DEF Next, vars, Add, AddRaises, Resume, Abandon, Fail, Reset, Restart
<1>2. PICK rows : partition' = Stored(c, rows)
  BY <1>1 DEF Write
<1>3. call[c].state \notin {"idle", "written"} /\ call[c] \in Flight
  BY <1>1 DEF Write, Fail, Shape
<1>4. c \in NodeFlush
  <2> SUFFICES ASSUME c \notin NodeFlush PROVE FALSE
    OBVIOUS
  <2>1. call[c].kind = "edges"
    BY <1>3 DEF NodeFlush, InFlight, Flight, Kind
  <2> QED BY <1>2, <2>1, Kinds DEF Stored, Shape
<1>5. partition["nodes"][call[c].number].epoch # call[c].epoch
  BY <1>3, <1>4 DEF NodeInv, NumbersGrow, Stores
<1>6. TypeInv
  BY DEF TypeInv
<1>7. partition'["nodes"][n] = IF n = call[c].number
                               THEN [rows |-> rows, epoch |-> call[c].epoch]
                               ELSE partition["nodes"][n]
  BY <1>2, <1>4, <1>6, NodeStored
<1> QED BY <1>5, <1>7

\* Within a run of the graph a node partition is never written twice.
THEOREM PartitionsAreFinal == Spec => NodePartitionsKept
<1>1. IInv /\ [Next]_vars =>
         [\A n \in Number : LET old == partition["nodes"][n]
                                new == partition'["nodes"][n]
                            IN  new # old => new.epoch # old.epoch]_vars
  BY StepKeepsPartitions
<1> QED BY <1>1, Safety, PTL DEF Spec, NodePartitionsKept
=============================================================================
