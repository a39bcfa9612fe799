-------------------------- MODULE FlowTableProofs --------------------------
(***************************************************************************)
(* Proofs about FlowTable, for every set of packets, every table size and  *)
(* timeout and any number of packets. Every flow that leaves the table     *)
(* leaves it through remove_flow_at, so what its memmove does to the       *)
(* indices is settled first; each invariant is then followed through the   *)
(* steps of get_or_create.                                                 *)
(***************************************************************************)
EXTENDS FlowTable, SequenceLemmas, FiniteSetTheorems, TLAPS

FlowType ==
    [key : Nat \X Nat, last_seen_time : Nat, app_classified : BOOLEAN,
     dirs : [Directions -> DirectionType]]

Places == {"idle", "evict_idle", "evict_closed", "lookup", "update", "final_evict", "done"}

(* The table holds flows, whose counters are numbers; nothing is reported  *)
(* before the end.                                                         *)
TypeOK ==
    /\ flows \in Seq(FlowType)
    /\ flow_counts \in [Reasons \cup {"created"} -> Nat]
    /\ totals \in [CounterNames -> Int]
    /\ pc \in Places
    /\ packet \in PacketType
    /\ observed \in [CounterNames -> Int]
    /\ last \in [key : Nat \X Nat, time : Nat]
    /\ ended \in Nat
    /\ pc # "done" => report = NoReport

(* Keys are ordered by flow_key and no two flows share one.                *)
Keys ==
    /\ \A i \in 1..Len(flows) : flows[i].key[1] <= flows[i].key[2]
    /\ \A i, j \in 1..Len(flows) : flows[i].key = flows[j].key => i = j

(* From the end of evict_idle to the next packet nothing in the table has  *)
(* been idle for the timeout.                                              *)
NoIdleInTable ==
    pc \in {"evict_closed", "lookup", "update"} => IdleFlows(packet.time) = {}

(* So when its processing has ended, either.                               *)
NoneIdleAfter == pc = "idle" => IdleFlows(last.time) = {}

(* A direction of an unclassified flow that owns no buffers has counted    *)
(* nothing, so direction_init's memset loses nothing.                      *)
NothingToForget ==
    \A i \in 1..Len(flows), d \in Directions :
        ~flows[i].app_classified /\ ~flows[i].dirs[d].allocated =>
            flows[i].dirs[d].counts = NoCounts

IInv ==
    /\ TypeOK /\ FlowAccounting /\ Keys /\ ClosedReclaimed
    /\ NoIdleInTable /\ NoneIdleAfter /\ NothingToForget
    /\ AnomaliesConserved /\ ClosuresCounted
----------------------------------------------------------------------------
(* flow_key_from_packet gives a pair in order.                             *)
LEMMA KeyOrdered ==
    ASSUME NEW p \in PacketType
    PROVE  flow_key(p) \in Nat \X Nat /\ flow_key(p)[1] <= flow_key(p)[2]
BY DEF flow_key, PacketType

(* A zeroed direction is a direction.                                      *)
LEMMA ZeroedType == Zeroed \in DirectionType /\ NoCounts \in [CounterNames -> Nat]
BY DEF Zeroed, DirectionType, NoCounts

(* What create appends is an open flow that has counted nothing.           *)
LEMMA NewFlowFacts ==
    ASSUME NEW p \in PacketType
    PROVE  /\ NewFlow(p) \in FlowType
           /\ NewFlow(p).key = flow_key(p)
           /\ NewFlow(p).last_seen_time = p.time
           /\ NewFlow(p).dirs = [d \in Directions |-> Zeroed]
           /\ ~flow_is_closed(NewFlow(p))
<1>1. p.time \in Nat
    BY DEF PacketType
<1>2. flow_key(p) \in Nat \X Nat
    BY KeyOrdered
<1>3. [d \in Directions |-> Zeroed] \in [Directions -> DirectionType]
    BY ZeroedType
<1>4. NewFlow(p) \in FlowType
    BY <1>1, <1>2, <1>3 DEF NewFlow, FlowType
<1>5. ~Zeroed.rst_seen /\ ~Zeroed.fin_seen
    BY DEF Zeroed
<1>6. NewFlow(p).dirs = [d \in Directions |-> Zeroed]
    BY DEF NewFlow
<1>7. ~flow_is_closed(NewFlow(p))
    <2>1. \A d \in Directions : NewFlow(p).dirs[d] = Zeroed
        BY <1>6
    <2>2. "a_to_b" \in Directions
        BY DEF Directions
    <2> QED
        BY <1>5, <2>1, <2>2 DEF flow_is_closed
<1> QED
    BY <1>4, <1>6, <1>7 DEF NewFlow

(* The index a flow had before the flow at i was removed.                  *)
Before(j, i) == IF j < i THEN j ELSE j + 1

(* remove_flow_at: the other flows keep their order and their content, one *)
(* reason is counted once more.                                            *)
Removes(i, reason) ==
    /\ flows' \in Seq(FlowType)
    /\ Len(flows') = Len(flows) - 1
    /\ \A j \in 1..Len(flows') :
          /\ flows'[j] = flows[Before(j, i)]
          /\ Before(j, i) \in 1..Len(flows) /\ Before(j, i) # i
    /\ \A j, k \in 1..Len(flows') : Before(j, i) = Before(k, i) => j = k
    /\ flow_counts' = [flow_counts EXCEPT ![reason] = @ + 1]
    /\ totals' = Plus(totals, FlowAnomalies(flows[i]))

(* remove_flow_at takes one flow out, keeps the others in order, and adds  *)
(* what that flow counted to the totals.                                   *)
LEMMA RemoveFacts ==
    ASSUME flows \in Seq(FlowType), NEW i \in 1..Len(flows), NEW reason \in Reasons,
           remove_flow_at(i, reason)
    PROVE  Removes(i, reason)
<1>1. flows' = RemoveAt(flows, i)
    BY DEF remove_flow_at
<1>2. /\ flows' \in Seq(FlowType)
      /\ Len(flows') = Len(flows) - 1
      /\ \A j \in 1..(Len(flows) - 1) :
            flows'[j] = IF j < i THEN flows[j] ELSE flows[j + 1]
    BY <1>1, RemoveAtElements
<1>3. Len(flows) \in Nat /\ i \in 1..Len(flows)
    OBVIOUS
<1>4. ASSUME NEW j \in 1..Len(flows')
      PROVE  /\ flows'[j] = flows[Before(j, i)]
             /\ Before(j, i) \in 1..Len(flows) /\ Before(j, i) # i
    BY <1>2, <1>3 DEF Before
<1>5. ASSUME NEW j \in 1..Len(flows'), NEW k \in 1..Len(flows'), Before(j, i) = Before(k, i)
      PROVE  j = k
    BY <1>2, <1>3, <1>5 DEF Before
<1> QED
    BY <1>2, <1>4, <1>5 DEF Removes, remove_flow_at
----------------------------------------------------------------------------
(* What each flow of a table fs contributes to the counter n.              *)
Column(fs, n) == [k \in 1..Len(fs) |-> FlowAnomalies(fs[k])[n]]

(* A flow's contribution is a number.                                      *)
LEMMA AnomaliesType ==
    ASSUME NEW f \in FlowType
    PROVE  /\ FlowAnomalies(f) \in [CounterNames -> Int]
           /\ \A n \in CounterNames :
                 FlowAnomalies(f)[n] = f.dirs["a_to_b"].counts[n] + f.dirs["b_to_a"].counts[n]
<1>1. f.dirs["a_to_b"] \in DirectionType /\ f.dirs["b_to_a"] \in DirectionType
    BY DEF FlowType, Directions
<1>2. /\ f.dirs["a_to_b"].counts \in [CounterNames -> Nat]
      /\ f.dirs["b_to_a"].counts \in [CounterNames -> Nat]
    BY <1>1 DEF DirectionType
<1> QED
    BY <1>2 DEF FlowAnomalies, Plus

(* One anomaly counter read off every flow is a sequence of numbers as     *)
(* long as the table.                                                      *)
LEMMA ColumnType ==
    ASSUME NEW fs \in Seq(FlowType), NEW n \in CounterNames
    PROVE  Column(fs, n) \in Seq(Int) /\ Len(Column(fs, n)) = Len(fs)
<1>1. ASSUME NEW k \in 1..Len(fs) PROVE FlowAnomalies(fs[k])[n] \in Int
    <2>1. fs[k] \in FlowType
        OBVIOUS
    <2> QED
        BY <2>1, AnomaliesType
<1>2. Len(fs) \in Nat
    OBVIOUS
<1> QED
    BY <1>1, <1>2 DEF Column

(* The reported totals in terms of the columns.                            *)
LEMMA SumOverIs ==
    ASSUME NEW c
    PROVE  SumOver(c) = [n \in CounterNames |-> c[n] + SumSeq(Column(flows, n))]
BY DEF SumOver, Column

(* Removing a flow takes its contribution out of the column and puts it    *)
(* into the totals.                                                        *)
LEMMA RemoveConserves ==
    ASSUME TypeOK, NEW i \in 1..Len(flows), NEW reason, Removes(i, reason)
    PROVE  /\ totals' \in [CounterNames -> Int]
           /\ SumOver(totals)' = SumOver(totals)
<1>0. flows \in Seq(FlowType) /\ flows' \in Seq(FlowType) /\ flows[i] \in FlowType
    BY DEF TypeOK, Removes
<1>1. totals \in [CounterNames -> Int] /\ FlowAnomalies(flows[i]) \in [CounterNames -> Int]
    BY <1>0, AnomaliesType DEF TypeOK
<1>2. /\ totals' \in [CounterNames -> Int]
      /\ \A n \in CounterNames : totals'[n] = totals[n] + FlowAnomalies(flows[i])[n]
    BY <1>1 DEF Removes, Plus
<1>3. ASSUME NEW n \in CounterNames
      PROVE  totals'[n] + SumSeq(Column(flows', n)) = totals[n] + SumSeq(Column(flows, n))
    <2> DEFINE s == Column(flows, n)
               t == Column(flows', n)
    <2>1. s \in Seq(Int) /\ Len(s) = Len(flows) /\ t \in Seq(Int) /\ Len(t) = Len(flows')
        BY <1>0, ColumnType
    <2>2. Len(t) = Len(s) - 1 /\ i \in 1..Len(s)
        BY <2>1 DEF Removes
    <2>3. s[i] = FlowAnomalies(flows[i])[n]
        BY DEF Column
    <2>4. ASSUME NEW j \in 1..Len(t)
          PROVE  t[j] = IF j < i THEN s[j] ELSE s[j + 1]
        <3>1. t[j] = FlowAnomalies(flows'[j])[n]
            BY <2>1 DEF Column
        <3>2. flows'[j] = flows[Before(j, i)] /\ Before(j, i) \in 1..Len(flows)
            BY <2>1 DEF Removes
        <3>3. s[Before(j, i)] = FlowAnomalies(flows[Before(j, i)])[n]
            BY <3>2 DEF Column
        <3>4. t[j] = s[Before(j, i)]
            BY <3>1, <3>2, <3>3, Zenon
        <3> HIDE DEF s, t
        <3> QED
            BY <3>4 DEF Before
    <2> HIDE DEF s, t
    <2>5. SumSeq(s) = SumSeq(t) + s[i]
        BY <2>1, <2>2, <2>4, SumRemove
    <2>6. SumSeq(s) \in Int /\ SumSeq(t) \in Int
        BY <2>1, SumType
    <2>7. totals[n] \in Int /\ FlowAnomalies(flows[i])[n] \in Int
        BY <1>1
    <2>8. totals'[n] + SumSeq(t) = totals[n] + SumSeq(s)
        BY <1>2, <2>3, <2>5, <2>6, <2>7
    <2> QED
        BY <2>8 DEF s, t
<1>4. SumOver(totals) = [n \in CounterNames |-> totals[n] + SumSeq(Column(flows, n))]
    BY SumOverIs
<1>5. SumOver(totals)' = [n \in CounterNames |-> totals'[n] + SumSeq(Column(flows', n))]
    BY DEF SumOver, Column
<1> QED
    BY <1>2, <1>3, <1>4, <1>5

(* Removing a flow keeps what is said of each flow and each pair of flows. *)
LEMMA RemoveKeeps ==
    ASSUME NEW i \in 1..Len(flows), NEW reason, Removes(i, reason)
    PROVE  /\ Keys => Keys'
           /\ NothingToForget => NothingToForget'
           /\ (\A k \in ClosedFlows : flows[k].key = last.key) /\ last' = last =>
                  (\A k \in ClosedFlows : flows[k].key = last.key)'
           /\ ClosedFlows = {} => ClosedFlows' = {}
           /\ \A now : IdleFlows(now) = {} =>
                  {k \in 1..Len(flows') : IsIdle(flows'[k], now)} = {}
<1>1. /\ \A j \in 1..Len(flows') :
            /\ flows'[j] = flows[Before(j, i)]
            /\ Before(j, i) \in 1..Len(flows)
      /\ \A j, k \in 1..Len(flows') : Before(j, i) = Before(k, i) => j = k
    BY DEF Removes
<1>2. Keys => Keys'
    BY <1>1 DEF Keys
<1>3. NothingToForget => NothingToForget'
    BY <1>1 DEF NothingToForget
<1>4. \A k \in ClosedFlows' : Before(k, i) \in ClosedFlows /\ flows'[k] = flows[Before(k, i)]
    BY <1>1 DEF ClosedFlows
<1>5. \A now : IdleFlows(now) = {} =>
          {k \in 1..Len(flows') : IsIdle(flows'[k], now)} = {}
    BY <1>1 DEF IdleFlows
<1> QED
    BY <1>2, <1>3, <1>4, <1>5
----------------------------------------------------------------------------
(* Only the flow touched last can be closed, and its key is its own.       *)
LEMMA AtMostOneClosed ==
    ASSUME Keys, ClosedReclaimed
    PROVE  ClosedFlows = {} \/ \E k \in 1..Len(flows) : ClosedFlows = {k}
<1>1. \A k \in ClosedFlows : k \in 1..Len(flows) /\ flows[k].key = last.key
    BY DEF ClosedReclaimed, ClosedFlows
<1>2. \A j, k \in ClosedFlows : j = k
    BY <1>1 DEF Keys
<1> QED
    BY <1>1, <1>2

(* Removing the closed flow leaves none, removing another leaves it.       *)
LEMMA RemoveClosed ==
    ASSUME flows \in Seq(FlowType), Keys, ClosedReclaimed,
           NEW i \in 1..Len(flows), NEW reason, Removes(i, reason)
    PROVE  /\ Cardinality(ClosedFlows) \in Nat
           /\ Cardinality(ClosedFlows') = IF i \in ClosedFlows
                                          THEN Cardinality(ClosedFlows) - 1
                                          ELSE Cardinality(ClosedFlows)
           /\ i \in ClosedFlows => ClosedFlows' = {}
<1>1. /\ \A j \in 1..Len(flows') :
            /\ flows'[j] = flows[Before(j, i)]
            /\ Before(j, i) \in 1..Len(flows) /\ Before(j, i) # i
      /\ \A j, k \in 1..Len(flows') : Before(j, i) = Before(k, i) => j = k
      /\ Len(flows') = Len(flows) - 1
    BY DEF Removes
<1>2. \A j : j \in ClosedFlows' <=> j \in 1..Len(flows') /\ Before(j, i) \in ClosedFlows
    BY <1>1 DEF ClosedFlows
<1>3. Cardinality({}) = 0
    BY FS_EmptySet
<1>4. \A k : Cardinality({k}) = 1
    BY FS_Singleton
<1>5. CASE ClosedFlows = {}
    <2>1. ClosedFlows' = {}
        BY <1>2, <1>5
    <2> QED
        BY <1>3, <1>5, <2>1
<1>6. CASE \E k \in 1..Len(flows) : ClosedFlows = {k}
    <2>1. PICK k \in 1..Len(flows) : ClosedFlows = {k}
        BY <1>6
    <2>2. CASE i = k
        <3>1. ClosedFlows' = {}
            BY <1>1, <1>2, <2>1, <2>2
        <3>2. i \in ClosedFlows /\ Cardinality(ClosedFlows) = 1
            BY <1>4, <2>1, <2>2
        <3> QED
            BY <1>3, <3>1, <3>2
    <2>3. CASE i # k
        <3> DEFINE j == IF k < i THEN k ELSE k - 1
        <3>1. j \in 1..Len(flows') /\ Before(j, i) = k
            BY <1>1, <2>3 DEF Before
        <3>2. ClosedFlows' = {j}
            <4> HIDE DEF j
            <4> QED
                BY <1>1, <1>2, <2>1, <3>1
        <3>3. i \notin ClosedFlows /\ Cardinality(ClosedFlows) = 1
            BY <1>4, <2>1, <2>3
        <3>4. Cardinality(ClosedFlows') = 1
            BY <1>4, <3>2
        <3> QED
            BY <3>3, <3>4
    <2> QED
        BY <2>2, <2>3
<1> QED
    BY <1>5, <1>6, AtMostOneClosed

(* A removal under the reason that fits keeps the whole invariant.         *)
LEMMA RemoveStep ==
    ASSUME IInv, NEW i \in 1..Len(flows), NEW reason \in Reasons,
           remove_flow_at(i, reason),
           pc \in {"evict_idle", "evict_closed", "lookup", "final_evict"},
           UNCHANGED <<pc, packet, report, observed, last, ended>>,
           \/ reason = "evicted_idle"
           \/ reason \in {"closed_fin", "closed_rst"} /\ i \in ClosedFlows
           \/ reason = "evicted_capacity" /\ i \notin ClosedFlows
    PROVE  IInv'
<1>0. flows \in Seq(FlowType) /\ Keys /\ ClosedReclaimed /\ TypeOK
    BY DEF IInv, TypeOK
<1>1. Removes(i, reason)
    BY <1>0, RemoveFacts
<1>2. flow_counts \in [Reasons \cup {"created"} -> Nat] /\ reason \in Reasons
    BY <1>0 DEF TypeOK
<1>3. /\ flow_counts' \in [Reasons \cup {"created"} -> Nat]
      /\ flow_counts'[reason] = flow_counts[reason] + 1
      /\ \A r \in Reasons \cup {"created"} : r # reason => flow_counts'[r] = flow_counts[r]
    BY <1>1, <1>2 DEF Removes
<1>4. totals' \in [CounterNames -> Int] /\ SumOver(totals)' = SumOver(totals)
    BY <1>0, <1>1, RemoveConserves
<1>5. /\ Keys => Keys'
      /\ NothingToForget => NothingToForget'
      /\ (\A k \in ClosedFlows : flows[k].key = last.key) /\ last' = last =>
             (\A k \in ClosedFlows : flows[k].key = last.key)'
      /\ ClosedFlows = {} => ClosedFlows' = {}
      /\ \A now : IdleFlows(now) = {} =>
             {k \in 1..Len(flows') : IsIdle(flows'[k], now)} = {}
    BY <1>1, RemoveKeeps
<1>6. /\ Cardinality(ClosedFlows) \in Nat
      /\ Cardinality(ClosedFlows') = IF i \in ClosedFlows
                                     THEN Cardinality(ClosedFlows) - 1
                                     ELSE Cardinality(ClosedFlows)
    BY <1>0, <1>1, RemoveClosed
<1>7. TypeOK'
    BY <1>0, <1>1, <1>3, <1>4 DEF TypeOK, Removes
<1>8. FlowAccounting'
    <2>1. /\ flow_counts["created"] = Len(flows) + Left(flow_counts)
          /\ Len(flows) <= MaxFlows
        BY DEF IInv, FlowAccounting
    <2>2. Len(flows') = Len(flows) - 1 /\ Len(flows) \in Nat
        BY <1>0, <1>1 DEF Removes
    <2>3. \A r \in Reasons \cup {"created"} : flow_counts[r] \in Nat
        BY <1>2
    <2>4. flow_counts'["created"] = flow_counts["created"]
        BY <1>2, <1>3 DEF Reasons
    <2>5. Left(flow_counts') = Left(flow_counts) + 1
        <3>1. Reasons = {"closed_fin", "closed_rst", "evicted_idle", "evicted_capacity"}
            BY DEF Reasons
        <3> DEFINE a == flow_counts["closed_fin"]
                   b == flow_counts["closed_rst"]
                   c == flow_counts["evicted_idle"]
                   d == flow_counts["evicted_capacity"]
                   e == flow_counts'["closed_fin"]
                   f == flow_counts'["closed_rst"]
                   g == flow_counts'["evicted_idle"]
                   h == flow_counts'["evicted_capacity"]
        <3>2. a \in Nat /\ b \in Nat /\ c \in Nat /\ d \in Nat
            BY <2>3, <3>1
        <3>3. \/ e = a + 1 /\ f = b /\ g = c /\ h = d
              \/ e = a /\ f = b + 1 /\ g = c /\ h = d
              \/ e = a /\ f = b /\ g = c + 1 /\ h = d
              \/ e = a /\ f = b /\ g = c /\ h = d + 1
            <4>1. CASE reason = "closed_fin"
                BY <1>3, <3>1, <4>1
            <4>2. CASE reason = "closed_rst"
                BY <1>3, <3>1, <4>2
            <4>3. CASE reason = "evicted_idle"
                BY <1>3, <3>1, <4>3
            <4>4. CASE reason = "evicted_capacity"
                BY <1>3, <3>1, <4>4
            <4> QED
                BY <1>2, <3>1, <4>1, <4>2, <4>3, <4>4
        <3>4. Left(flow_counts) = a + b + c + d /\ Left(flow_counts') = e + f + g + h
            BY DEF Left
        <3> HIDE DEF a, b, c, d, e, f, g, h
        <3> QED
            BY <3>2, <3>3, <3>4
    <2>6. Left(flow_counts) \in Nat
        <3> DEFINE a == flow_counts["closed_fin"]
                   b == flow_counts["closed_rst"]
                   c == flow_counts["evicted_idle"]
                   d == flow_counts["evicted_capacity"]
        <3>1. a \in Nat /\ b \in Nat /\ c \in Nat /\ d \in Nat
            BY <2>3 DEF Reasons
        <3>2. Left(flow_counts) = a + b + c + d
            BY DEF Left
        <3> HIDE DEF a, b, c, d
        <3> QED
            BY <3>1, <3>2
    <2>7. MaxFlows \in Nat
        BY TableAssumption
    <2> QED
        BY <2>1, <2>2, <2>4, <2>5, <2>6, <2>7 DEF FlowAccounting
<1>9. Keys' /\ NothingToForget'
    BY <1>5 DEF IInv
<1>10. ClosedReclaimed'
    BY <1>0, <1>5 DEF ClosedReclaimed
<1>11. NoIdleInTable' /\ NoneIdleAfter'
    BY <1>5 DEF IInv, NoIdleInTable, NoneIdleAfter, IdleFlows
<1>12. AnomaliesConserved'
    BY <1>0, <1>4 DEF IInv, AnomaliesConserved, TypeOK
<1>13. ClosuresCounted'
    <2>1. pc # "done" /\ pc' # "done" /\ report = NoReport /\ report' = NoReport
        BY <1>0 DEF TypeOK
    <2>2. ended - (flow_counts["closed_fin"] + flow_counts["closed_rst"])
             - Cardinality(ClosedFlows) \in 0..flow_counts["evicted_idle"]
        BY <2>1 DEF IInv, ClosuresCounted
    <2>3. \A r \in Reasons : flow_counts[r] \in Nat
        BY <1>2
    <2>4. ended \in Nat /\ ended' = ended
        BY <1>0 DEF TypeOK
    <2> DEFINE n == Cardinality(ClosedFlows)
               m == Cardinality(ClosedFlows')
    <2>5. n \in Nat /\ m = IF i \in ClosedFlows THEN n - 1 ELSE n
        BY <1>6
    <2>6. ended - (flow_counts["closed_fin"] + flow_counts["closed_rst"]) - n
             \in 0..flow_counts["evicted_idle"]
        BY <2>2
    <2>7. ended - (flow_counts'["closed_fin"] + flow_counts'["closed_rst"]) - m
             \in 0..flow_counts'["evicted_idle"]
        <3> HIDE DEF n, m
        <3>a. /\ "closed_fin" \in Reasons /\ "closed_rst" \in Reasons
              /\ "evicted_idle" \in Reasons /\ "evicted_capacity" \in Reasons
            BY DEF Reasons
        <3> DEFINE a == flow_counts["closed_fin"]
                   b == flow_counts["closed_rst"]
                   c == flow_counts["evicted_idle"]
                   e == flow_counts'["closed_fin"]
                   f == flow_counts'["closed_rst"]
                   g == flow_counts'["evicted_idle"]
        <3>b. a \in Nat /\ b \in Nat /\ c \in Nat /\ ended - (a + b) - n \in 0..c
            BY <2>3, <2>6, <3>a
        <3>c. \/ e = a /\ f = b /\ g = c + 1 /\ m \in {n, n - 1}
              \/ e = a + 1 /\ f = b /\ g = c /\ m = n - 1
              \/ e = a /\ f = b + 1 /\ g = c /\ m = n - 1
              \/ e = a /\ f = b /\ g = c /\ m = n
            <4>1. CASE reason = "evicted_idle"
                BY <1>3, <2>5, <3>a, <4>1
            <4>2. CASE reason = "closed_fin" /\ i \in ClosedFlows
                BY <1>3, <2>5, <3>a, <4>2
            <4>3. CASE reason = "closed_rst" /\ i \in ClosedFlows
                BY <1>3, <2>5, <3>a, <4>3
            <4>4. CASE reason = "evicted_capacity" /\ i \notin ClosedFlows
                BY <1>3, <2>5, <3>a, <4>4
            <4> QED
                BY <4>1, <4>2, <4>3, <4>4
        <3>d. ended - (e + f) - m \in 0..g
            <4> HIDE DEF a, b, c, e, f, g
            <4> QED
                BY SMTT(30), <2>4, <2>5, <3>b, <3>c
        <3> QED
            BY <3>d
    <2> QED
        BY <2>1, <2>4, <2>7 DEF ClosuresCounted
<1> QED
    BY <1>7, <1>8, <1>9, <1>10, <1>11, <1>12, <1>13 DEF IInv
----------------------------------------------------------------------------
(* An empty table contributes nothing.                                     *)
LEMMA EmptyColumn ==
    ASSUME NEW n \in CounterNames
    PROVE  SumSeq(Column(<<>>, n)) = 0
<1>1. <<>> \in Seq(FlowType) /\ Len(<<>>) = 0
    OBVIOUS
<1>2. Column(<<>>, n) \in Seq(Int) /\ Len(Column(<<>>, n)) = 0
    BY <1>1, ColumnType
<1>3. Column(<<>>, n) = <<>>
    BY <1>2
<1> QED
    BY <1>2, <1>3, SumType

(* flow_table_init: an empty table with zero counters satisfies the        *)
(* invariant.                                                              *)
LEMMA InitIInv == Init => IInv
<1> SUFFICES ASSUME Init PROVE IInv
    OBVIOUS
<1> USE DEF Init
<1>1. flow_counts \in [Reasons \cup {"created"} -> Nat]
    BY DEF NoFlowCounts
<1>2. totals \in [CounterNames -> Int] /\ observed \in [CounterNames -> Int]
    BY DEF NoCounts
<1>3. packet \in PacketType
    BY DEF NoPacket, PacketType
<1>4. last \in [key : Nat \X Nat, time : Nat]
    BY DEF NoLast
<1>5. TypeOK
    BY <1>1, <1>2, <1>3, <1>4 DEF TypeOK, Places
<1>6. Len(flows) = 0 /\ 1..Len(flows) = {}
    OBVIOUS
<1>7. \A r \in Reasons \cup {"created"} : flow_counts[r] = 0
    BY DEF NoFlowCounts
<1>8. FlowAccounting
    BY <1>6, <1>7, TableAssumption DEF FlowAccounting, Left, Reasons
<1>9. Keys /\ NothingToForget /\ NoIdleInTable /\ NoneIdleAfter /\ ClosedFlows = {}
    BY <1>6 DEF Keys, NothingToForget, NoIdleInTable, NoneIdleAfter, IdleFlows, ClosedFlows
<1>10. ClosedReclaimed
    BY <1>9 DEF ClosedReclaimed
<1>11. SumOver(totals) = observed
    <2>1. SumOver(totals) = [n \in CounterNames |-> totals[n] + SumSeq(Column(flows, n))]
        BY SumOverIs
    <2>2. \A n \in CounterNames : totals[n] = 0 /\ SumSeq(Column(flows, n)) = 0
        BY EmptyColumn DEF NoCounts
    <2> QED
        BY <2>1, <2>2 DEF NoCounts
<1>12. AnomaliesConserved
    BY <1>11 DEF AnomaliesConserved
<1>13. ClosuresCounted
    <2>1. Cardinality(ClosedFlows) = 0
        BY <1>9, FS_EmptySet
    <2>2. /\ flow_counts["closed_fin"] = 0 /\ flow_counts["closed_rst"] = 0
          /\ flow_counts["evicted_idle"] = 0
        BY <1>7 DEF Reasons
    <2>3. ended - (flow_counts["closed_fin"] + flow_counts["closed_rst"])
             - Cardinality(ClosedFlows) \in 0..flow_counts["evicted_idle"]
        BY <2>1, <2>2
    <2> QED
        BY <2>3 DEF ClosuresCounted
<1> QED
    BY <1>5, <1>8, <1>9, <1>10, <1>12, <1>13 DEF IInv

(* A step that leaves the table alone and goes on to where the table may.  *)
LEMMA PcStep ==
    ASSUME IInv, pc # "done", pc' \in Places \ {"done"}, packet' \in PacketType,
           UNCHANGED <<flows, flow_counts, totals, report, observed, last, ended>>,
           pc' \in {"lookup", "update"} => ClosedFlows = {},
           pc' \in {"evict_closed", "lookup", "update"} => IdleFlows(packet'.time) = {},
           pc' = "idle" => IdleFlows(last.time) = {}
    PROVE  IInv'
<1>1. TypeOK'
    BY DEF IInv, TypeOK
<1>2. ClosedFlows' = ClosedFlows /\ SumOver(totals)' = SumOver(totals)
    BY DEF ClosedFlows, SumOver
<1>3. FlowAccounting' /\ Keys' /\ NothingToForget'
    BY DEF IInv, FlowAccounting, Keys, NothingToForget
<1>4. ClosedReclaimed'
    BY <1>2 DEF IInv, ClosedReclaimed
<1>5. NoIdleInTable' /\ NoneIdleAfter'
    BY DEF NoIdleInTable, NoneIdleAfter, IdleFlows
<1>6. AnomaliesConserved' /\ ClosuresCounted'
    BY <1>2 DEF IInv, AnomaliesConserved, ClosuresCounted
<1> QED
    BY <1>1, <1>3, <1>4, <1>5, <1>6 DEF IInv

(* A captured packet becomes the packet in hand; the table stays.          *)
LEMMA ArriveStep ==
    ASSUME IInv, NEW p \in Packets, Arrive(p)
    PROVE  IInv'
<1>1. p \in PacketType
    BY TableAssumption
<1> QED
    BY <1>1, PcStep DEF Arrive, Places

(* evict_idle: one idle flow leaves, or the scan ends because none is      *)
(* left.                                                                   *)
LEMMA EvictIdleStep == IInv /\ evict_idle => IInv'
<1> SUFFICES ASSUME IInv, evict_idle PROVE IInv'
    OBVIOUS
<1>1. CASE \E i \in 1..Len(flows) :
              /\ IsFirst(i, IdleFlows(packet.time))
              /\ remove_flow_at(i, "evicted_idle")
              /\ UNCHANGED pc
    <2>1. "evicted_idle" \in Reasons
        BY DEF Reasons
    <2> QED
        BY <1>1, <2>1, RemoveStep DEF evict_idle
<1>2. CASE /\ IdleFlows(packet.time) = {} /\ pc' = "evict_closed"
           /\ UNCHANGED <<flows, flow_counts, totals>>
    <2>1. packet' = packet /\ packet \in PacketType
        BY DEF evict_idle, IInv, TypeOK
    <2> QED
        BY <1>2, <2>1, PcStep DEF evict_idle, Places
<1> QED
    BY <1>1, <1>2 DEF evict_idle

(* A closed flow is removed and counted as closed.                         *)
LEMMA EvictFirstClosedStep ==
    ASSUME IInv, EvictFirstClosed, pc \in {"evict_closed", "final_evict"},
           UNCHANGED <<pc, packet, report, observed, last, ended>>
    PROVE  IInv'
<1>1. PICK i \in 1..Len(flows) :
          IsFirst(i, ClosedFlows) /\ remove_flow_at(i, ClosedReason(flows[i]))
    BY DEF EvictFirstClosed
<1>2. i \in ClosedFlows
    BY <1>1 DEF IsFirst
<1>3. /\ ClosedReason(flows[i]) \in Reasons
      /\ ClosedReason(flows[i]) \in {"closed_fin", "closed_rst"}
    BY DEF ClosedReason, Reasons
<1> QED
    BY <1>1, <1>2, <1>3, RemoveStep

(* evict_closed: one closed flow leaves, or the scan ends because none is  *)
(* left.                                                                   *)
LEMMA EvictClosedStep == IInv /\ evict_closed => IInv'
<1> SUFFICES ASSUME IInv, evict_closed PROVE IInv'
    OBVIOUS
<1>1. CASE EvictFirstClosed /\ UNCHANGED pc
    BY <1>1, EvictFirstClosedStep DEF evict_closed
<1>2. CASE ClosedFlows = {} /\ pc' = "lookup" /\ UNCHANGED <<flows, flow_counts, totals>>
    <2>1. packet' = packet /\ packet \in PacketType
        BY DEF evict_closed, IInv, TypeOK
    <2>2. IdleFlows(packet.time) = {}
        BY DEF evict_closed, IInv, NoIdleInTable
    <2> QED
        BY <1>2, <2>1, <2>2, PcStep DEF evict_closed, Places
<1> QED
    BY <1>1, <1>2 DEF evict_closed

(* The search of flow_table_get_or_create finds the connection's flow,     *)
(* after both evictions have removed what they had to.                     *)
LEMMA LookupStep == IInv /\ lookup => IInv'
<1> SUFFICES ASSUME IInv, lookup PROVE IInv'
    OBVIOUS
<1>1. packet' = packet /\ packet \in PacketType
    BY DEF lookup, IInv, TypeOK
<1>2. IdleFlows(packet.time) = {} /\ ClosedFlows = {}
    BY DEF lookup, IInv, NoIdleInTable, ClosedReclaimed
<1> QED
    BY <1>1, <1>2, PcStep DEF lookup, Places

(* evict_oldest_flow: a full table gives up its least recently seen flow.  *)
LEMMA EvictOldestStep == IInv /\ evict_oldest_flow => IInv'
<1> SUFFICES ASSUME IInv, evict_oldest_flow PROVE IInv'
    OBVIOUS
<1>1. PICK i \in 1..Len(flows) : remove_flow_at(i, "evicted_capacity")
    BY DEF evict_oldest_flow
<1>2. i \notin ClosedFlows
    BY DEF evict_oldest_flow, IInv, ClosedReclaimed
<1>3. "evicted_capacity" \in Reasons
    BY DEF Reasons
<1> QED
    BY <1>1, <1>2, <1>3, RemoveStep DEF evict_oldest_flow

(* The capture loop ends between two packets.                              *)
LEMMA StopStep == IInv /\ StopCapture => IInv'
<1> SUFFICES ASSUME IInv, StopCapture PROVE IInv'
    OBVIOUS
<1>1. packet' = packet /\ packet \in PacketType
    BY DEF StopCapture, IInv, TypeOK
<1> QED
    BY <1>1, PcStep DEF StopCapture, Places

(* A new flow takes a free slot under a key no other flow has.             *)
LEMMA CreateStep == IInv /\ create => IInv'
<1> SUFFICES ASSUME IInv, create PROVE IInv'
    OBVIOUS
<1> DEFINE new == NewFlow(packet)
<1>0. flows \in Seq(FlowType) /\ packet \in PacketType /\ TypeOK
    BY DEF IInv, TypeOK
<1>1. /\ new \in FlowType /\ new.key = flow_key(packet)
      /\ new.last_seen_time = packet.time
      /\ new.dirs = [d \in Directions |-> Zeroed] /\ ~flow_is_closed(new)
    BY <1>0, NewFlowFacts
<1>2. flows' = Append(flows, new) /\ pc = "lookup" /\ pc' = "update" /\ packet' = packet
    BY DEF create
<1> HIDE DEF new
<1>3. /\ flows' \in Seq(FlowType) /\ Len(flows') = Len(flows) + 1 /\ Len(flows) \in Nat
      /\ \A j \in 1..Len(flows) : flows'[j] = flows[j]
      /\ flows'[Len(flows) + 1] = new
    BY <1>0, <1>1, <1>2
<1>4. \A j \in 1..Len(flows') :
          \/ j \in 1..Len(flows) /\ flows'[j] = flows[j]
          \/ j = Len(flows) + 1 /\ flows'[j] = new
    BY <1>3
<1>5. /\ flow_counts' \in [Reasons \cup {"created"} -> Nat]
      /\ flow_counts'["created"] = flow_counts["created"] + 1
      /\ \A r \in Reasons : flow_counts'[r] = flow_counts[r]
    BY <1>0 DEF create, TypeOK, Reasons
<1>6. TypeOK'
    BY <1>0, <1>2, <1>3, <1>5 DEF TypeOK, create, Places
<1>7. FlowAccounting'
    <2>1. flow_counts["created"] = Len(flows) + Left(flow_counts) /\ Len(flows) < MaxFlows
        BY DEF IInv, FlowAccounting, create
    <2>2. Left(flow_counts') = Left(flow_counts)
        BY <1>5 DEF Left, Reasons
    <2>3. \A r \in Reasons : flow_counts[r] \in Nat
        BY <1>0 DEF TypeOK
    <2>4. Left(flow_counts) \in Nat
        BY <2>3 DEF Left, Reasons
    <2>5. MaxFlows \in Nat
        BY TableAssumption
    <2>6. Len(flows') <= MaxFlows
        BY <1>3, <2>1, <2>5
    <2>7. flow_counts'["created"] = Len(flows') + Left(flow_counts')
        BY <1>3, <1>5, <2>1, <2>2, <2>4
    <2> QED
        BY <2>6, <2>7 DEF FlowAccounting
<1>8. Keys'
    <2>1. \A j \in 1..Len(flows) : flows[j].key # new.key
        BY <1>1 DEF create, Known
    <2>2. new.key[1] <= new.key[2]
        BY <1>0, <1>1, KeyOrdered
    <2> QED
        BY <1>4, <2>1, <2>2 DEF IInv, Keys
<1>9. ClosedFlows = {} /\ ClosedFlows' = {}
    <2>1. ClosedFlows = {}
        BY <1>2 DEF IInv, ClosedReclaimed
    <2> QED
        BY <1>1, <1>4, <2>1 DEF ClosedFlows
<1>10. ClosedReclaimed'
    BY <1>9 DEF ClosedReclaimed
<1>11. NoIdleInTable' /\ NoneIdleAfter'
    <2>1. IdleFlows(packet.time) = {}
        BY <1>2 DEF IInv, NoIdleInTable
    <2>2. ~IsIdle(new, packet.time)
        <3>1. packet.time \in Nat /\ Timeout \in Nat
            BY <1>0, TableAssumption DEF PacketType
        <3> QED
            BY <1>1, <3>1 DEF IsIdle, IdleSeconds
    <2>3. \A j \in 1..Len(flows') : ~IsIdle(flows'[j], packet.time)
        BY <1>4, <2>1, <2>2 DEF IdleFlows
    <2> QED
        BY <1>2, <2>3 DEF NoIdleInTable, NoneIdleAfter, IdleFlows
<1>12. NothingToForget'
    <2>1. \A d \in Directions : new.dirs[d].counts = NoCounts
        BY <1>1 DEF Zeroed
    <2> QED
        BY <1>4, <2>1 DEF IInv, NothingToForget
<1>13. AnomaliesConserved'
    <2>1. ASSUME NEW n \in CounterNames
          PROVE  SumSeq(Column(flows', n)) = SumSeq(Column(flows, n))
        <3> DEFINE s == Column(flows, n)
                   t == Column(flows', n)
        <3>1. s \in Seq(Int) /\ Len(s) = Len(flows) /\ t \in Seq(Int) /\ Len(t) = Len(flows')
            BY <1>0, <1>3, ColumnType
        <3>2. \A j \in 1..Len(s) : t[j] = s[j]
            BY <1>3, <3>1 DEF Column
        <3>3. t[Len(t)] = FlowAnomalies(new)[n]
            BY <1>3, <3>1 DEF Column
        <3>4. FlowAnomalies(new)[n] = 0
            <4>1. /\ new.dirs["a_to_b"].counts = NoCounts
                  /\ new.dirs["b_to_a"].counts = NoCounts
                BY <1>1 DEF Zeroed, Directions
            <4>2. NoCounts[n] = 0
                BY DEF NoCounts
            <4>3. /\ new.dirs["a_to_b"].counts[n] = 0
                  /\ new.dirs["b_to_a"].counts[n] = 0
                BY <4>1, <4>2
            <4>4. FlowAnomalies(new)[n]
                      = new.dirs["a_to_b"].counts[n] + new.dirs["b_to_a"].counts[n]
                BY <1>1, AnomaliesType
            <4> QED
                BY <4>3, <4>4
        <3> HIDE DEF s, t
        <3>5. SumSeq(t) = SumSeq(s) + t[Len(t)] /\ SumSeq(s) \in Int
            <4>1. Len(t) = Len(s) + 1
                BY <1>3, <3>1
            <4> QED
                BY <3>1, <3>2, <4>1, SumAppend, SumType
        <3>6. SumSeq(t) = SumSeq(s)
            BY <3>3, <3>4, <3>5
        <3> QED
            BY <3>6 DEF s, t
    <2>2. SumOver(totals) = [n \in CounterNames |-> totals[n] + SumSeq(Column(flows, n))]
        BY SumOverIs
    <2>3. SumOver(totals)' = [n \in CounterNames |-> totals'[n] + SumSeq(Column(flows', n))]
        BY DEF SumOver, Column
    <2>4. totals' = totals /\ observed' = observed /\ report' = report
        BY DEF create
    <2>5. SumOver(totals)' = SumOver(totals)
        BY <2>1, <2>2, <2>3, <2>4
    <2> QED
        BY <1>2, <2>4, <2>5 DEF IInv, AnomaliesConserved
<1>14. ClosuresCounted'
    <2>1. ended' = ended /\ report' = report /\ report = NoReport
        BY <1>0, <1>2 DEF create, TypeOK
    <2>2. /\ flow_counts'["closed_fin"] = flow_counts["closed_fin"]
          /\ flow_counts'["closed_rst"] = flow_counts["closed_rst"]
          /\ flow_counts'["evicted_idle"] = flow_counts["evicted_idle"]
        BY <1>5 DEF Reasons
    <2> QED
        BY <1>2, <1>9, <2>1, <2>2 DEF IInv, ClosuresCounted
<1> QED
    BY <1>6, <1>7, <1>8, <1>10, <1>11, <1>12, <1>13, <1>14 DEF IInv
----------------------------------------------------------------------------
(* Preparing a direction loses no count, and a direction that the stream   *)
(* decoder leaves without buffers has none.                                *)
LEMMA DirectionStep ==
    ASSUME NEW f \in FlowType, packet \in PacketType, NEW old \in DirectionType,
           ~f.app_classified /\ ~old.allocated => old.counts = NoCounts,
           NEW ready \in Prepared(f, old), NEW d \in StreamDecoded(f, ready)
    PROVE  /\ d \in DirectionType
           /\ ready.counts = old.counts
           /\ ~f.app_classified /\ ~d.allocated => d.counts = NoCounts
<1>1. packet.fin \in BOOLEAN /\ packet.rst \in BOOLEAN
    BY DEF PacketType
<1>2. ASSUME NEW c \in DirectionType
      PROVE  /\ track_flags(c, packet) \in DirectionType
             /\ track_flags(c, packet).counts = c.counts
             /\ track_flags(c, packet).allocated = c.allocated
    BY <1>1 DEF track_flags, DirectionType
<1>3. CASE ~Decodes(f)
    <2>1. ready = old
        BY <1>3 DEF Prepared
    <2>2. d = track_flags(ready, packet)
        BY <1>3 DEF StreamDecoded
    <2> QED
        BY <1>2, <2>1, <2>2
<1>4. CASE Decodes(f) /\ ready.allocated
    <2>1. ready \in DirectionType /\ ready.counts = old.counts
        <3>1. CASE old.allocated
            BY <3>1 DEF Prepared
        <3>2. CASE ~old.allocated
            <4>1. old.counts = NoCounts
                BY <1>4, <3>2 DEF Decodes
            <4>2. PICK ok \in MallocResults : ready = direction_init(ok)
                BY <1>4, <3>2 DEF Prepared
            <4>3. ok \in BOOLEAN
                BY TableAssumption
            <4>4. direction_init(ok) \in DirectionType /\ direction_init(ok).counts = NoCounts
                BY <4>3, ZeroedType DEF direction_init, Zeroed, DirectionType
            <4> QED
                BY <4>1, <4>2, <4>4
        <3> QED
            BY <3>1, <3>2
    <2>2. d \in process_segment(ready, packet)
        BY <1>4 DEF StreamDecoded
    <2>3. d \in DirectionType /\ d.allocated
        <3>1. CASE ready.unusable
            BY <1>4, <2>1, <2>2, <3>1 DEF process_segment
        <3>2. CASE ~ready.unusable
            <4> DEFINE c == track_flags(ready, packet)
            <4>1. c \in DirectionType /\ c.allocated
                BY <1>2, <1>4, <2>1
            <4>2. PICK u \in BOOLEAN, e \in Increments : d = Processed(ready, packet, u, e)
                BY <2>2, <3>2 DEF process_segment
            <4>a. d = [c EXCEPT !.unusable = u, !.counts = Plus(c.counts, e)]
                BY <4>2 DEF Processed
            <4> HIDE DEF c
            <4>3. Plus(c.counts, e) \in [CounterNames -> Nat]
                <5>1. c.counts \in [CounterNames -> Nat] /\ e \in [CounterNames -> Nat]
                    BY <4>1, MaxCountAssumption DEF DirectionType, Increments
                <5> QED
                    BY <5>1 DEF Plus
            <4> QED
                BY <4>1, <4>3, <4>a DEF DirectionType
        <3> QED
            BY <3>1, <3>2
    <2> QED
        BY <2>1, <2>3
<1>5. CASE Decodes(f) /\ ~ready.allocated
    <2>1. d = ready
        BY <1>5 DEF StreamDecoded
    <2>2. ~old.allocated
        BY <1>5 DEF Prepared
    <2>3. old.counts = NoCounts
        BY <1>5, <2>2 DEF Decodes
    <2>4. PICK ok \in MallocResults : ready = direction_init(ok)
        BY <1>5, <2>2 DEF Prepared
    <2>5. ok \in BOOLEAN
        BY TableAssumption
    <2>6. direction_init(ok) \in DirectionType /\ direction_init(ok).counts = NoCounts
        BY <2>5, ZeroedType DEF direction_init, Zeroed, DirectionType
    <2> QED
        BY <2>1, <2>3, <2>4, <2>6
<1> QED
    BY <1>3, <1>4, <1>5

(* What flow_update_packet and the decoders leave of the flow f.           *)
Touched(f, dir, d, new) ==
    /\ new \in FlowType
    /\ new.key = f.key
    /\ new.last_seen_time = packet.time
    /\ \A e \in Directions :
          new.dirs[e].counts = IF e = dir THEN d.counts ELSE f.dirs[e].counts
    /\ ~new.app_classified =>
           ~f.app_classified /\ new.dirs = [f.dirs EXCEPT ![dir] = d]

(* Updating a found flow changes its time, the direction of the packet and *)
(* its application data, and nothing else.                                 *)
LEMMA TouchedFlow ==
    ASSUME NEW f \in FlowType, packet \in PacketType, NEW dir \in Directions,
           NEW d \in DirectionType, NEW recognised \in BOOLEAN, NEW g,
           g = [f EXCEPT !.last_seen_time = packet.time, !.dirs[dir] = d]
    PROVE  Touched(f, dir, d, IF recognised THEN Classified(g) ELSE g)
<1>1. f.dirs \in [Directions -> DirectionType] /\ packet.time \in Nat
    BY DEF FlowType, PacketType
<1>2. [f.dirs EXCEPT ![dir] = d] \in [Directions -> DirectionType]
    BY <1>1
<1>3. /\ g \in FlowType /\ g.key = f.key /\ g.last_seen_time = packet.time
      /\ g.dirs = [f.dirs EXCEPT ![dir] = d] /\ g.app_classified = f.app_classified
    BY <1>1, <1>2 DEF FlowType
<1>4. \A e \in Directions : g.dirs[e] = IF e = dir THEN d ELSE f.dirs[e]
    BY <1>1, <1>3
<1>5. CASE recognised
    <2>1. ASSUME NEW c \in DirectionType
          PROVE  release_buffers(c) \in DirectionType /\ release_buffers(c).counts = c.counts
        BY DEF release_buffers, DirectionType
    <2> DEFINE new == Classified(g)
    <2>2. new = [[g EXCEPT !.dirs = [e \in Directions |-> release_buffers(g.dirs[e])]]
                     EXCEPT !.app_classified = TRUE]
        BY DEF Classified, flow_release_reassembly_buffers
    <2>3. [e \in Directions |-> release_buffers(g.dirs[e])] \in [Directions -> DirectionType]
        BY <1>3, <2>1 DEF FlowType
    <2>4. /\ new \in FlowType /\ new.key = f.key /\ new.last_seen_time = packet.time
          /\ new.dirs = [e \in Directions |-> release_buffers(g.dirs[e])]
          /\ new.app_classified = TRUE
        BY <1>3, <2>2, <2>3 DEF FlowType
    <2>5. ASSUME NEW e \in Directions
          PROVE  new.dirs[e].counts = IF e = dir THEN d.counts ELSE f.dirs[e].counts
        <3> HIDE DEF new
        <3>1. g.dirs[e] \in DirectionType
            BY <1>3 DEF FlowType
        <3>2. new.dirs[e].counts = g.dirs[e].counts
            BY <2>1, <2>4, <3>1
        <3> QED
            BY <1>4, <3>2
    <2> HIDE DEF new
    <2>6. Touched(f, dir, d, new)
        BY <2>4, <2>5 DEF Touched
    <2> QED
        BY <1>5, <2>6 DEF new
<1>6. CASE ~recognised
    BY <1>3, <1>4, <1>6 DEF Touched
<1> QED
    BY <1>5, <1>6

(* The update touches one flow, of the packet's connection: it is open     *)
(* before, fresh after, and what its direction counts is observed.         *)
LEMMA UpdateStep == IInv /\ update => IInv'
<1> SUFFICES ASSUME IInv, update PROVE IInv'
    OBVIOUS
<1> DEFINE dir == flow_direction(packet)
<1>0. flows \in Seq(FlowType) /\ packet \in PacketType /\ TypeOK
    BY DEF IInv, TypeOK
<1>1. PICK i \in 1..Len(flows) : flows[i].key = flow_key(packet) /\ UpdateFlow(i)
    BY DEF update
<1> DEFINE f == flows[i]
<1>2. f \in FlowType /\ dir \in Directions /\ f.dirs[dir] \in DirectionType
    <2>1. f \in FlowType
        BY <1>0
    <2>2. dir \in Directions
        BY DEF flow_direction, Directions
    <2> HIDE DEF f, dir
    <2> QED
        BY <2>1, <2>2 DEF FlowType
<1>3. PICK ready \in Prepared(f, f.dirs[dir]) :
      \E d \in StreamDecoded(f, ready) :
      \E recognised \in IF Decodes(f) THEN BOOLEAN ELSE {FALSE} :
          LET g == [f EXCEPT !.last_seen_time = packet.time, !.dirs[dir] = d]
          IN  /\ flows' = [flows EXCEPT ![i] = IF recognised THEN Classified(g) ELSE g]
              /\ observed' = [n \in CounterNames |->
                                 observed[n] + d.counts[n] - ready.counts[n]]
    BY <1>1 DEF UpdateFlow
<1>4. PICK d \in StreamDecoded(f, ready) :
      \E recognised \in IF Decodes(f) THEN BOOLEAN ELSE {FALSE} :
          LET g == [f EXCEPT !.last_seen_time = packet.time, !.dirs[dir] = d]
          IN  /\ flows' = [flows EXCEPT ![i] = IF recognised THEN Classified(g) ELSE g]
              /\ observed' = [n \in CounterNames |->
                                 observed[n] + d.counts[n] - ready.counts[n]]
    BY <1>3
<1>5. PICK recognised \in BOOLEAN :
          LET g == [f EXCEPT !.last_seen_time = packet.time, !.dirs[dir] = d]
          IN  /\ flows' = [flows EXCEPT ![i] = IF recognised THEN Classified(g) ELSE g]
              /\ observed' = [n \in CounterNames |->
                                 observed[n] + d.counts[n] - ready.counts[n]]
    BY <1>4
<1> DEFINE g == [f EXCEPT !.last_seen_time = packet.time, !.dirs[dir] = d]
           new == IF recognised THEN Classified(g) ELSE g
<1>6. /\ flows' = [flows EXCEPT ![i] = new]
      /\ observed' = [n \in CounterNames |-> observed[n] + d.counts[n] - ready.counts[n]]
    BY <1>5
<1>7. ~f.app_classified /\ ~f.dirs[dir].allocated => f.dirs[dir].counts = NoCounts
    BY <1>2 DEF IInv, NothingToForget
<1>8. /\ d \in DirectionType
      /\ ready.counts = f.dirs[dir].counts
      /\ ~f.app_classified /\ ~d.allocated => d.counts = NoCounts
    <2> HIDE DEF f, dir
    <2> QED
        BY <1>0, <1>2, <1>3, <1>4, <1>7, DirectionStep
<1>9. Touched(f, dir, d, new)
    <2> HIDE DEF f, dir
    <2> QED
        BY <1>0, <1>2, <1>8, TouchedFlow
<1> HIDE DEF g, new
<1>10. new \in FlowType /\ new.key = f.key /\ new.last_seen_time = packet.time
    BY <1>9 DEF Touched
<1>11. /\ flows' \in Seq(FlowType) /\ Len(flows') = Len(flows) /\ Len(flows) \in Nat
       /\ flows'[i] = new
       /\ \A j \in 1..Len(flows) : j # i => flows'[j] = flows[j]
    BY <1>0, <1>6, <1>10
<1>12. /\ pc = "update" /\ pc' = "idle" /\ packet' = NoPacket
       /\ last' = [key |-> flow_key(packet), time |-> packet.time]
       /\ UNCHANGED <<flow_counts, totals, report>>
       /\ ended' = ended + Cardinality(ClosedFlows' \ ClosedFlows)
    BY DEF update
<1>13. d.counts \in [CounterNames -> Nat] /\ ready.counts \in [CounterNames -> Nat]
    BY <1>2, <1>8 DEF DirectionType
<1>14. ClosedFlows = {}
    BY <1>12 DEF IInv, ClosedReclaimed
<1>15. \A k \in ClosedFlows' : k = i
    BY <1>11, <1>14 DEF ClosedFlows
<1>16. ClosedFlows' \ ClosedFlows = ClosedFlows' /\ Cardinality(ClosedFlows') \in Nat
    <2>1. ClosedFlows' = {} \/ ClosedFlows' = {i}
        BY <1>15
    <2>2. Cardinality({}) = 0 /\ Cardinality({i}) = 1
        BY FS_EmptySet, FS_Singleton
    <2>3. Cardinality(ClosedFlows') \in {0, 1}
        BY <2>1, <2>2
    <2>4. ClosedFlows' \ ClosedFlows = ClosedFlows'
        BY <1>14
    <2> QED
        BY <2>3, <2>4
<1>17. TypeOK'
    <2>1. observed' \in [CounterNames -> Int]
        BY <1>0, <1>6, <1>13 DEF TypeOK
    <2>2. packet' \in PacketType
        BY <1>12 DEF NoPacket, PacketType
    <2>3. last' \in [key : Nat \X Nat, time : Nat]
        <3>1. flow_key(packet) \in Nat \X Nat /\ packet.time \in Nat
            BY <1>0, KeyOrdered DEF PacketType
        <3> QED
            BY <1>12, <3>1
    <2>4. ended' \in Nat
        <3>1. ended \in Nat
            BY <1>0 DEF TypeOK
        <3>2. ended' = ended + Cardinality(ClosedFlows')
            BY <1>12, <1>16
        <3> QED
            BY <1>16, <3>1, <3>2
    <2> QED
        BY <1>0, <1>11, <1>12, <2>1, <2>2, <2>3, <2>4 DEF TypeOK, Places
<1>18. FlowAccounting'
    BY <1>11, <1>12 DEF IInv, FlowAccounting
<1>19. Keys'
    <2>1. \A j \in 1..Len(flows) : flows'[j].key = flows[j].key
        BY <1>10, <1>11
    <2> QED
        BY <1>11, <2>1 DEF IInv, Keys
<1>20. ClosedReclaimed'
    BY <1>1, <1>10, <1>11, <1>12, <1>15 DEF ClosedReclaimed
<1>21. NoIdleInTable' /\ NoneIdleAfter'
    <2>1. IdleFlows(packet.time) = {}
        BY <1>12 DEF IInv, NoIdleInTable
    <2>2. ~IsIdle(new, packet.time)
        <3>1. packet.time \in Nat /\ Timeout \in Nat
            BY <1>0, TableAssumption DEF PacketType
        <3> QED
            BY <1>10, <3>1 DEF IsIdle, IdleSeconds
    <2>3. \A j \in 1..Len(flows') : ~IsIdle(flows'[j], packet.time)
        BY <1>11, <2>1, <2>2 DEF IdleFlows
    <2>4. last'.time = packet.time
        BY <1>12
    <2> QED
        BY <1>12, <2>3, <2>4 DEF NoIdleInTable, NoneIdleAfter, IdleFlows
<1>22. NothingToForget'
    <2>1. ASSUME NEW e \in Directions, ~new.app_classified, ~new.dirs[e].allocated
          PROVE  new.dirs[e].counts = NoCounts
        <3>1. ~f.app_classified /\ new.dirs = [f.dirs EXCEPT ![dir] = d]
            BY <1>9, <2>1 DEF Touched
        <3>2. f.dirs \in [Directions -> DirectionType]
            BY <1>2 DEF FlowType
        <3>3. CASE e = dir
            BY <1>2, <1>8, <2>1, <3>1, <3>2, <3>3
        <3>4. CASE e # dir
            <4>1. new.dirs[e] = f.dirs[e]
                BY <3>1, <3>2, <3>4
            <4> QED
                BY <2>1, <3>1, <4>1 DEF IInv, NothingToForget
        <3> QED
            BY <3>3, <3>4
    <2> QED
        BY <1>11, <2>1 DEF IInv, NothingToForget
<1>23. AnomaliesConserved'
    <2>1. ASSUME NEW n \in CounterNames
          PROVE  FlowAnomalies(new)[n] = FlowAnomalies(f)[n] + d.counts[n] - ready.counts[n]
        <3>1. FlowAnomalies(new)[n] = new.dirs["a_to_b"].counts[n] + new.dirs["b_to_a"].counts[n]
            BY <1>10, AnomaliesType
        <3>2. FlowAnomalies(f)[n] = f.dirs["a_to_b"].counts[n] + f.dirs["b_to_a"].counts[n]
            BY <1>2, AnomaliesType
        <3>3. /\ new.dirs["a_to_b"].counts
                    = IF "a_to_b" = dir THEN d.counts ELSE f.dirs["a_to_b"].counts
              /\ new.dirs["b_to_a"].counts
                    = IF "b_to_a" = dir THEN d.counts ELSE f.dirs["b_to_a"].counts
            BY <1>9 DEF Touched, Directions
        <3> DEFINE a == f.dirs["a_to_b"].counts[n]
                   b == f.dirs["b_to_a"].counts[n]
                   c == d.counts[n]
        <3>4. a \in Int /\ b \in Int /\ c \in Int
            <4>1. f.dirs["a_to_b"] \in DirectionType /\ f.dirs["b_to_a"] \in DirectionType
                BY <1>2 DEF FlowType, Directions
            <4> QED
                BY <1>13, <4>1 DEF DirectionType
        <3>5. CASE dir = "a_to_b"
            <4>1. ready.counts[n] = a
                BY <1>8, <3>5
            <4>2. FlowAnomalies(new)[n] = c + b /\ FlowAnomalies(f)[n] = a + b
                BY <3>1, <3>2, <3>3, <3>5
            <4> HIDE DEF a, b, c
            <4>3. c + b = a + b + c - a
                BY <3>4
            <4> QED
                BY <4>1, <4>2, <4>3 DEF c
        <3>6. CASE dir = "b_to_a"
            <4>1. ready.counts[n] = b
                BY <1>8, <3>6
            <4>2. FlowAnomalies(new)[n] = a + c /\ FlowAnomalies(f)[n] = a + b
                BY <3>1, <3>2, <3>3, <3>6
            <4> HIDE DEF a, b, c
            <4>3. a + c = a + b + c - b
                BY <3>4
            <4> QED
                BY <4>1, <4>2, <4>3 DEF c
        <3> QED
            BY <1>2, <3>5, <3>6 DEF Directions
    <2>2. ASSUME NEW n \in CounterNames
          PROVE  totals[n] + SumSeq(Column(flows', n))
                     = totals[n] + SumSeq(Column(flows, n)) + d.counts[n] - ready.counts[n]
        <3> DEFINE s == Column(flows, n)
                   t == Column(flows', n)
        <3>1. s \in Seq(Int) /\ Len(s) = Len(flows) /\ t \in Seq(Int) /\ Len(t) = Len(flows')
            BY <1>0, <1>11, ColumnType
        <3>2. \A j \in 1..Len(s) : j # i => t[j] = s[j]
            BY <1>11, <3>1 DEF Column
        <3>3. s[i] = FlowAnomalies(f)[n] /\ t[i] = FlowAnomalies(new)[n]
            BY <1>11 DEF Column
        <3> HIDE DEF s, t, f
        <3>4. SumSeq(t) = SumSeq(s) + t[i] - s[i] /\ SumSeq(s) \in Int
            <4>1. i \in 1..Len(s) /\ Len(t) = Len(s)
                BY <1>11, <3>1
            <4> QED
                BY <3>1, <3>2, <4>1, SumReplace, SumType
        <3>5. /\ totals[n] \in Int /\ FlowAnomalies(f)[n] \in Int
              /\ d.counts[n] \in Int /\ ready.counts[n] \in Int
            BY <1>0, <1>2, <1>13, AnomaliesType DEF TypeOK
        <3>6. totals[n] + SumSeq(t) = totals[n] + SumSeq(s) + d.counts[n] - ready.counts[n]
            BY <2>1, <3>3, <3>4, <3>5
        <3> QED
            BY <3>6 DEF s, t
    <2>3. SumOver(totals) = [n \in CounterNames |-> totals[n] + SumSeq(Column(flows, n))]
        BY SumOverIs
    <2>4. SumOver(totals)' = [n \in CounterNames |-> totals'[n] + SumSeq(Column(flows', n))]
        BY DEF SumOver, Column
    <2>5. SumOver(totals) = observed /\ report = NoReport
        BY <1>0, <1>12 DEF IInv, AnomaliesConserved, TypeOK
    <2>6. \A n \in CounterNames : observed[n] = totals[n] + SumSeq(Column(flows, n))
        BY <2>3, <2>5
    <2>7. SumOver(totals)' = observed'
        BY <1>6, <1>12, <2>2, <2>4, <2>6
    <2> QED
        BY <1>12, <2>5, <2>7 DEF AnomaliesConserved
<1>24. ClosuresCounted'
    <2> DEFINE m == Cardinality(ClosedFlows')
               closed == flow_counts["closed_fin"] + flow_counts["closed_rst"]
    <2>1. report' = NoReport /\ pc # "done" /\ ended \in Nat /\ ended' = ended + m /\ m \in Nat
        BY <1>0, <1>12, <1>16 DEF TypeOK
    <2>2. Cardinality(ClosedFlows) = 0
        BY <1>14, FS_EmptySet
    <2>3. ended - closed - 0 \in 0..flow_counts["evicted_idle"]
        BY <2>1, <2>2 DEF IInv, ClosuresCounted
    <2>4. closed \in Nat
        BY <1>0 DEF TypeOK, Reasons
    <2>5. ended' - closed - m \in 0..flow_counts["evicted_idle"]
        <3> HIDE DEF m, closed
        <3>1. (ended + m) - closed - m = ended - closed - 0
            BY <2>1, <2>4
        <3> QED
            BY <2>1, <2>3, <3>1
    <2> QED
        BY <1>12, <2>1, <2>5 DEF ClosuresCounted
<1> QED
    BY <1>17, <1>18, <1>19, <1>20, <1>21, <1>22, <1>23, <1>24 DEF IInv
----------------------------------------------------------------------------
(* flow_table_cleanup leaves an empty table with its counters at zero.     *)
LEMMA CleanupStep ==
    ASSUME IInv, flow_table_cleanup, pc # "done", pc' = "done",
           UNCHANGED <<packet, observed, last, ended>>,
           report' # NoReport => /\ report'.anomalies = observed
                                 /\ ended - (report'.counts["closed_fin"]
                                               + report'.counts["closed_rst"])
                                       \in 0..report'.counts["evicted_idle"]
    PROVE  IInv'
<1>1. flows' = <<>> /\ flow_counts' = NoFlowCounts /\ totals' = NoCounts
    BY DEF flow_table_cleanup
<1>2. /\ flows' \in Seq(FlowType) /\ Len(flows') = 0 /\ 1..Len(flows') = {}
    BY <1>1
<1>3. /\ flow_counts' \in [Reasons \cup {"created"} -> Nat]
      /\ \A r \in Reasons \cup {"created"} : flow_counts'[r] = 0
    BY <1>1 DEF NoFlowCounts
<1>4. totals' \in [CounterNames -> Int]
    BY <1>1 DEF NoCounts
<1>5. TypeOK'
    BY <1>2, <1>3, <1>4 DEF IInv, TypeOK, Places
<1>6. FlowAccounting'
    BY <1>2, <1>3, TableAssumption DEF FlowAccounting, Left, Reasons
<1>7. Keys' /\ NothingToForget' /\ NoIdleInTable' /\ NoneIdleAfter'
    BY <1>2 DEF Keys, NothingToForget, NoIdleInTable, NoneIdleAfter
<1>8. ClosedReclaimed'
    BY <1>2 DEF ClosedReclaimed, ClosedFlows
<1>9. AnomaliesConserved' /\ ClosuresCounted'
    BY DEF AnomaliesConserved, ClosuresCounted
<1> QED
    BY <1>5, <1>6, <1>7, <1>8, <1>9 DEF IInv

(* capture_start after its loop: closed flows leave, then the table is     *)
(* summarised and freed.                                                   *)
LEMMA FinalEvictStep == IInv /\ FinalEvict => IInv'
<1> SUFFICES ASSUME IInv, FinalEvict PROVE IInv'
    OBVIOUS
<1>0. pc = "final_evict" /\ UNCHANGED <<packet, observed, last, ended>>
    BY DEF FinalEvict
<1>1. CASE EvictFirstClosed /\ UNCHANGED <<pc, report>>
    BY <1>0, <1>1, EvictFirstClosedStep
<1>2. CASE /\ ClosedFlows = {} /\ report' = flow_table_snapshot_stats
           /\ flow_table_cleanup /\ pc' = "done"
    <2>1. report'.anomalies = SumOver(totals) /\ report'.counts = flow_counts
        BY <1>2 DEF flow_table_snapshot_stats
    <2>2. SumOver(totals) = observed
        BY <1>0 DEF IInv, AnomaliesConserved
    <2>3. Cardinality(ClosedFlows) = 0
        BY <1>2, FS_EmptySet
    <2> DEFINE closed == flow_counts["closed_fin"] + flow_counts["closed_rst"]
    <2>4. ended - closed - 0 \in 0..flow_counts["evicted_idle"]
        BY <1>0, <2>3 DEF IInv, ClosuresCounted
    <2>5. closed \in Nat /\ ended \in Nat
        BY DEF IInv, TypeOK, Reasons
    <2>6. ended - closed \in 0..flow_counts["evicted_idle"]
        <3> HIDE DEF closed
        <3> QED
            BY <2>4, <2>5
    <2> QED
        BY <1>0, <1>2, <2>1, <2>2, <2>6, CleanupStep
<1> QED
    BY <1>1, <1>2 DEF FinalEvict

(* An error of pcap_next_ex or of the log frees the table without a        *)
(* report.                                                                 *)
LEMMA AbortStep == IInv /\ AbortCapture => IInv'
<1> SUFFICES ASSUME IInv, AbortCapture PROVE IInv'
    OBVIOUS
<1>1. report' = NoReport
    BY DEF AbortCapture, IInv, TypeOK
<1> QED
    BY <1>1, CleanupStep DEF AbortCapture

(* A step that changes no variable keeps the invariant.                    *)
LEMMA StutterStep == IInv /\ UNCHANGED vars => IInv'
BY DEF vars, IInv, TypeOK, FlowAccounting, Keys, ClosedReclaimed, ClosedFlows, NoIdleInTable,
       NoneIdleAfter, IdleFlows, NothingToForget, AnomaliesConserved, ClosuresCounted, SumOver

(* Every step of the capture keeps the invariant.                          *)
LEMMA NextIInv == IInv /\ [Next]_vars => IInv'
<1> SUFFICES ASSUME IInv, [Next]_vars PROVE IInv'
    OBVIOUS
<1>1. CASE \E p \in Packets : Arrive(p)
    BY <1>1, ArriveStep
<1>2. CASE evict_idle
    BY <1>2, EvictIdleStep
<1>3. CASE evict_closed
    BY <1>3, EvictClosedStep
<1>4. CASE lookup
    BY <1>4, LookupStep
<1>5. CASE evict_oldest_flow
    BY <1>5, EvictOldestStep
<1>6. CASE create
    BY <1>6, CreateStep
<1>7. CASE update
    BY <1>7, UpdateStep
<1>8. CASE FinalEvict
    BY <1>8, FinalEvictStep
<1>9. CASE StopCapture
    BY <1>9, StopStep
<1>10. CASE AbortCapture
    BY <1>10, AbortStep
<1>11. CASE Finished \/ UNCHANGED vars
    BY <1>11, StutterStep DEF Finished
<1> QED
    BY <1>1, <1>2, <1>3, <1>4, <1>5, <1>6, <1>7, <1>8, <1>9, <1>10, <1>11 DEF Next, Process

(* IInv holds in every state of the flow table.                            *)
LEMMA Invariance == Spec => []IInv
<1>1. Init => IInv
    BY InitIInv
<1>2. IInv /\ [Next]_vars => IInv'
    BY NextIInv
<1> QED
    BY <1>1, <1>2, PTL DEF Spec
----------------------------------------------------------------------------
(* Every flow created is in the table or left it under one counted reason, *)
(* through whichever of the four removals, and max_flows is never exceeded *)
(* (remove_flow_at and create_flow of flow.c).                             *)
THEOREM Accounted == Spec => []FlowAccounting
<1>1. IInv => FlowAccounting
    BY DEF IInv
<1> QED
    BY <1>1, Invariance, PTL

(* The two directions of a connection share one flow: flow_key_from_packet *)
(* orders the endpoints and the lookup precedes the creation.              *)
THEOREM OneFlow == Spec => []OneFlowPerConnection
<1>1. IInv => OneFlowPerConnection
    <2> SUFFICES ASSUME IInv, NEW i \in 1..Len(flows), NEW j \in 1..Len(flows),
                        {flows[i].key[1], flows[i].key[2]} = {flows[j].key[1], flows[j].key[2]}
                 PROVE  i = j
        BY DEF OneFlowPerConnection
    <2>1. flows[i].key \in Nat \X Nat /\ flows[j].key \in Nat \X Nat
        <3>1. flows[i] \in FlowType /\ flows[j] \in FlowType
            BY DEF IInv, TypeOK
        <3> QED
            BY <3>1 DEF FlowType
    <2>2. flows[i].key[1] <= flows[i].key[2] /\ flows[j].key[1] <= flows[j].key[2]
        BY DEF IInv, Keys
    <2>3. flows[i].key = flows[j].key
        <3> DEFINE a == flows[i].key[1]
                   b == flows[i].key[2]
                   c == flows[j].key[1]
                   d == flows[j].key[2]
        <3>1. a \in Nat /\ b \in Nat /\ c \in Nat /\ d \in Nat /\ a <= b /\ c <= d
            BY <2>1, <2>2
        <3>2. {a, b} = {c, d}
            OBVIOUS
        <3>3. a = c /\ b = d
            <4> HIDE DEF a, b, c, d
            <4>1. a \in {c, d} /\ b \in {c, d} /\ c \in {a, b} /\ d \in {a, b}
                BY <3>2
            <4> QED
                BY <3>1, <4>1
        <3>4. \A u, v \in Nat \X Nat : u[1] = v[1] /\ u[2] = v[2] => u = v
            OBVIOUS
        <3> QED
            BY <2>1, <3>3, <3>4
    <2> QED
        BY <2>3 DEF IInv, Keys
<1> QED
    BY <1>1, Invariance, PTL

(* A closed connection is reclaimed by the next packet, before the lookup: *)
(* flow_table_evict_closed runs on every get_or_create.                    *)
THEOREM Reclaimed == Spec => []ClosedReclaimed
<1>1. IInv => ClosedReclaimed
    BY DEF IInv
<1> QED
    BY <1>1, Invariance, PTL

(* Idle, measured by the code's guarded difference, is silent for the      *)
(* timeout.                                                                *)
LEMMA IdleIsSilent ==
    ASSUME NEW f \in FlowType, NEW now \in Nat
    PROVE  IsIdle(f, now) <=> Silent(f, now)
<1>1. f.last_seen_time \in Nat /\ Timeout \in Nat
    BY TableAssumption DEF FlowType
<1> QED
    BY <1>1 DEF IsIdle, IdleSeconds, Silent

(* Every removal is counted under its own reason, so only the one of       *)
(* evict_idle counts a flow as evicted while idle.                         *)
LEMMA OnlyEvictIdleCounts ==
    ASSUME IInv, [Next]_vars,
           flow_counts'["evicted_idle"] > flow_counts["evicted_idle"]
    PROVE  evict_idle
<1>1. flow_counts \in [Reasons \cup {"created"} -> Nat]
    BY DEF IInv, TypeOK
<1>2. flow_counts["evicted_idle"] \in Nat
    BY <1>1 DEF Reasons
<1>3. flow_counts'["evicted_idle"] # flow_counts["evicted_idle"]
    BY <1>2
<1>4. ASSUME NEW i, NEW reason, remove_flow_at(i, reason), reason # "evicted_idle"
      PROVE  FALSE
    BY <1>1, <1>3, <1>4 DEF remove_flow_at, Reasons
<1>5. ~EvictFirstClosed
    BY <1>4 DEF EvictFirstClosed, ClosedReason
<1>6. ~evict_closed
    BY <1>3, <1>5 DEF evict_closed
<1>7. ~evict_oldest_flow
    BY <1>4 DEF evict_oldest_flow
<1>8. ~create
    BY <1>1, <1>3 DEF create, Reasons
<1>9. ~flow_table_cleanup
    BY <1>2 DEF flow_table_cleanup, NoFlowCounts, Reasons
<1>10. ~FinalEvict /\ ~AbortCapture
    BY <1>5, <1>9 DEF FinalEvict, AbortCapture
<1>11. ~lookup /\ ~update /\ ~StopCapture /\ ~Finished /\ ~UNCHANGED vars
    BY <1>3 DEF lookup, update, StopCapture, Finished, vars
<1>12. ~\E p \in Packets : Arrive(p)
    BY <1>3 DEF Arrive
<1> QED
    BY <1>6, <1>7, <1>8, <1>10, <1>11, <1>12 DEF Next, Process

(* flow_table_evict_idle takes the silent flows and no others, in whatever *)
(* order timestamps come.                                                  *)
THEOREM IdleExactly == Spec => IdleEviction
<1>1. IInv => NoSilentFlow
    <2> SUFFICES ASSUME IInv, pc = "idle", NEW i \in 1..Len(flows)
                 PROVE  ~Silent(flows[i], last.time)
        BY DEF NoSilentFlow
    <2>1. flows[i] \in FlowType /\ last.time \in Nat
        BY DEF IInv, TypeOK
    <2>2. ~IsIdle(flows[i], last.time)
        BY DEF IInv, NoneIdleAfter, IdleFlows
    <2> QED
        BY <2>1, <2>2, IdleIsSilent
<1>2. IInv /\ [Next]_vars => EvictedWasSilent
    <2> SUFFICES ASSUME IInv, [Next]_vars,
                        flow_counts'["evicted_idle"] > flow_counts["evicted_idle"]
                 PROVE  \E i \in 1..Len(flows) :
                            Silent(flows[i], packet.time) /\ flows' = RemoveAt(flows, i)
        BY DEF EvictedWasSilent
    <2>1. evict_idle
        BY OnlyEvictIdleCounts
    <2>2. flow_counts["evicted_idle"] \in Nat
        BY DEF IInv, TypeOK, Reasons
    <2>3. PICK i \in 1..Len(flows) :
              IsFirst(i, IdleFlows(packet.time)) /\ remove_flow_at(i, "evicted_idle")
        BY <2>1, <2>2 DEF evict_idle
    <2>4. IsIdle(flows[i], packet.time) /\ flows' = RemoveAt(flows, i)
        BY <2>3 DEF IsFirst, IdleFlows, remove_flow_at
    <2>5. flows[i] \in FlowType /\ packet.time \in Nat
        BY DEF IInv, TypeOK, PacketType
    <2> QED
        BY <2>4, <2>5, IdleIsSilent
<1> QED
    BY <1>1, <1>2, Invariance, PTL DEF Spec, IdleEviction

(* Totals and live directions add up to every anomaly counted, and so does *)
(* the final report (accumulate_direction_totals, direction_init and       *)
(* flow_table_snapshot_stats).                                             *)
THEOREM Conserved == Spec => []AnomaliesConserved
<1>1. IInv => AnomaliesConserved
    BY DEF IInv
<1> QED
    BY <1>1, Invariance, PTL

(* Connections that ended are counted as closed unless they went idle      *)
(* first, and nothing else is; the final eviction of capture_start covers  *)
(* the last packet.                                                        *)
THEOREM Closures == Spec => []ClosuresCounted
<1>1. IInv => ClosuresCounted
    BY DEF IInv
<1> QED
    BY <1>1, Invariance, PTL
=============================================================================
