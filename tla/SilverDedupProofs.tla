-------------------------- MODULE SilverDedupProofs --------------------------
(***************************************************************************)
(* Proofs about SilverDedup for any trades, any number of writers and any  *)
(* interleaving of their commits with dbt runs; and, for one writer and a  *)
(* first run that found rows, that no committed row is skipped.            *)
(***************************************************************************)
EXTENDS SilverDedup, TLAPS

BronzeKeyed == \A r, q \in bronze : r.id = q.id => r = q

\* A writer holds one row at a time.
OneRow == \A w \in Writers : \A r, q \in writing[w] : r = q

\* Silver is a part of Bronze whose primary key it inherits.  BronzeKeyed is
\* what makes it inductive: delete+insert replaces a row only by itself.
IInv ==
    /\ TypeOK
    /\ OneRow
    /\ BronzeKeyed
    /\ SilverFromBronze
    /\ ~built => silver = {}

-----------------------------------------------------------------------------
(* The dbt model under the invariant.                                       *)

\* With a key in Bronze the ranking drops nothing.
LEMMA KeyedIsFirst ==
    ASSUME IInv, NEW S, S \subseteq bronze
    PROVE  FirstOfEach(S) = S
<1>1. \A r \in S : r.at \in Nat
    BY DEF IInv, TypeOK, Rows
<1> QED BY <1>1 DEF IInv, BronzeKeyed, FirstOfEach

\* A selected row is never another version of a row in Silver.
LEMMA SelectedIsNew ==
    ASSUME IInv, NEW n \in Selected, NEW s \in silver
    PROVE  n.id # s.id
<1>1. n \in bronze /\ s \in bronze /\ n.at > s.at
    BY DEF Selected, IInv, SilverFromBronze
<1>2. n.at \in Nat
    BY <1>1 DEF IInv, TypeOK, Rows
<1> QED BY <1>1, <1>2 DEF IInv, BronzeKeyed

\* So an incremental run adds the selected rows and touches no other.
LEMMA IncrementalAdds ==
    ASSUME IInv, IncrementalRun
    PROVE  silver' = silver \union Selected
<1>1. FirstOfEach(Selected) = Selected
    BY KeyedIsFirst DEF Selected
<1>2. {s \in silver : \A n \in Selected : n.id # s.id} = silver
    BY SelectedIsNew
<1> QED BY <1>1, <1>2 DEF IncrementalRun, Upsert

LEMMA FirstRunCopies ==
    ASSUME IInv, FirstRun
    PROVE  silver' = bronze
BY KeyedIsFirst DEF FirstRun

-----------------------------------------------------------------------------
(* The invariant.                                                           *)

LEMMA InitIInv == Init => IInv
<1> SUFFICES ASSUME Init PROVE IInv
    OBVIOUS
<1>1. 0 \in 0..MaxClock
    BY DedupAssumption
<1>2. writing \in [Writers -> SUBSET Rows]
    BY DEF Init
<1> QED BY <1>1, <1>2
        DEF Init, IInv, TypeOK, OneRow, BronzeKeyed, SilverFromBronze

LEMMA NextIInv == IInv /\ [Next]_vars => IInv'
<1> SUFFICES ASSUME IInv, [Next]_vars PROVE IInv'
    OBVIOUS
<1>0. /\ clock \in 0..MaxClock
      /\ writing \in [Writers -> SUBSET Rows]
      /\ bronze \subseteq Rows /\ silver \subseteq bronze
      /\ built \in BOOLEAN
    BY DEF IInv, TypeOK, SilverFromBronze
<1>1. ASSUME NEW w \in Writers, NEW t \in TradeIds, Stamp(w, t) PROVE IInv'
    <2>1. [id |-> t, at |-> clock] \in Rows
        BY <1>0 DEF Rows
    <2>2. writing' \in [Writers -> SUBSET Rows]
        BY <1>0, <1>1, <2>1 DEF Stamp
    <2>3. OneRow'
        BY <1>0, <1>1 DEF Stamp, OneRow, IInv
    <2> QED BY <1>1, <2>2, <2>3
            DEF Stamp, IInv, TypeOK, BronzeKeyed, SilverFromBronze
<1>2. ASSUME NEW w \in Writers, Commit(w) PROVE IInv'
    <2> DEFINE new == {r \in writing[w] : \A b \in bronze : b.id # r.id}
    <2>1. new \subseteq Rows /\ bronze' = bronze \union new
        BY <1>0, <1>2 DEF Commit
    <2>2. writing' \in [Writers -> SUBSET Rows] /\ OneRow'
        BY <1>0, <1>2 DEF Commit, OneRow, IInv
    <2>3. clock' \in 0..MaxClock
        BY <1>0, <1>2, DedupAssumption DEF Commit
    <2>4. \A r, q \in new : r = q
        BY DEF IInv, OneRow
    <2>5. BronzeKeyed'
        BY <2>1, <2>4 DEF IInv, BronzeKeyed
    <2> QED BY <1>0, <1>2, <2>1, <2>2, <2>3, <2>5
            DEF Commit, IInv, TypeOK, SilverFromBronze
<1>3. ASSUME NEW w \in Writers, CommitFails(w) PROVE IInv'
    <2>1. writing' \in [Writers -> SUBSET Rows] /\ OneRow'
        BY <1>0, <1>3 DEF CommitFails, OneRow, IInv
    <2> QED BY <1>3, <2>1
            DEF CommitFails, IInv, TypeOK, BronzeKeyed, SilverFromBronze
<1>4. ASSUME FirstRun PROVE IInv'
    <2>1. silver' = bronze
        BY <1>4, FirstRunCopies
    <2> QED BY <1>0, <1>4, <2>1
            DEF FirstRun, IInv, TypeOK, OneRow, BronzeKeyed, SilverFromBronze
<1>5. ASSUME IncrementalRun PROVE IInv'
    <2>1. silver' = silver \union Selected /\ Selected \subseteq bronze
        BY <1>5, IncrementalAdds DEF Selected
    <2> QED BY <1>0, <1>5, <2>1
            DEF IncrementalRun, IInv, TypeOK, OneRow, BronzeKeyed,
                SilverFromBronze
<1>6. CASE UNCHANGED vars
    BY <1>6 DEF vars, IInv, TypeOK, OneRow, BronzeKeyed, SilverFromBronze
<1> QED BY <1>1, <1>2, <1>3, <1>4, <1>5, <1>6 DEF Next, DbtRun

THEOREM Invariance == Spec => []IInv
BY InitIInv, NextIInv, PTL DEF Spec

\* Type correctness.
THEOREM TypeCorrect == Spec => []TypeOK
<1>1. IInv => TypeOK
    BY DEF IInv
<1> QED BY Invariance, <1>1, PTL

-----------------------------------------------------------------------------
(* Safety, whatever the writers do.                                         *)

\* The first-ingested row of a trade is the one Silver has.
THEOREM FromBronze == Spec => []SilverFromBronze
<1>1. IInv => SilverFromBronze
    BY DEF IInv
<1> QED BY Invariance, <1>1, PTL

\* No interleaving of redelivered trades and dbt runs gives Silver two rows
\* for one trade.
THEOREM Unique == Spec => []SilverUnique
<1>1. IInv => SilverUnique
    BY DEF IInv, SilverFromBronze, BronzeKeyed, SilverUnique
<1> QED BY Invariance, <1>1, PTL

\* Running dbt again at once selects nothing, also when the first run found
\* an empty Bronze.
THEOREM Rerun == Spec => RerunIsNoop
<1>1. IInv /\ DbtRun => Selected' = {}
    <2> SUFFICES ASSUME IInv, DbtRun, NEW b \in Selected' PROVE FALSE
        OBVIOUS
    <2>1. /\ b \in bronze /\ bronze' = bronze /\ b.at \in Nat
          /\ \A s \in silver' : b.at > s.at
        BY DEF Selected, DbtRun, FirstRun, IncrementalRun, IInv, TypeOK, Rows
    <2>2. CASE FirstRun
        <3>1. b \in silver'
            BY <2>1, <2>2, FirstRunCopies
        <3> QED BY <2>1, <3>1
    <2>3. CASE IncrementalRun
        <3>1. silver' = silver \union Selected /\ silver' # {}
            BY <2>3, IncrementalAdds DEF Selected
        <3>2. silver # {}
            BY <3>1 DEF Selected
        <3>3. b \in Selected
            BY <2>1, <3>1, <3>2 DEF Selected
        <3> QED BY <2>1, <3>1, <3>3
    <2> QED BY <2>2, <2>3 DEF DbtRun
<1>2. IInv /\ [Next]_vars => [DbtRun => Selected' = {}]_vars
    BY <1>1
<1> QED BY Invariance, <1>2, PTL DEF Spec, RerunIsNoop

\* delete+insert never takes a row out of Silver for good.
THEOREM Keeps == Spec => SilverKeeps
<1>1. IInv /\ [Next]_vars => [silver \subseteq silver']_vars
    <2> SUFFICES ASSUME IInv, Next PROVE silver \subseteq silver'
        OBVIOUS
    <2>1. CASE FirstRun
        BY <2>1 DEF FirstRun, IInv
    <2>2. CASE IncrementalRun
        BY <2>2, IncrementalAdds
    <2>3. CASE ~DbtRun
        BY <2>3 DEF Next, Stamp, Commit, CommitFails
    <2> QED BY <2>1, <2>2, <2>3 DEF DbtRun
<1> QED BY Invariance, <1>1, PTL DEF Spec, SilverKeeps

-----------------------------------------------------------------------------
(* Completeness with one writer.  Its stamps are in the order of its        *)
(* commits, and that is what the filter on max(ingested_at) relies on.      *)

InOrder ==
    /\ \A b \in bronze : b.at < clock
    /\ \A w \in Writers : \A r \in writing[w] :
            r.at <= clock /\ \A b \in bronze : b.at < r.at
    /\ built => silver # {}

OneWriter == \A v, w \in Writers : v = w

\* With a single writer, and a first dbt run on a Bronze that had rows, every
\* committed row is in Silver or will be selected by the next run.
THEOREM OneWriterSkipsNothing ==
    ASSUME OneWriter, ~EmptyFirstRun
    PROVE  Spec => []NoneSkipped
<1> DEFINE J == IInv /\ InOrder /\ NoneSkipped
<1>1. Init => J
    <2>1. Init => InOrder /\ NoneSkipped
        BY DEF Init, InOrder, NoneSkipped, Skipped
    <2> QED BY <2>1, InitIInv
<1>2. J /\ [Next]_vars => J'
    <2> SUFFICES ASSUME J, [Next]_vars PROVE InOrder' /\ NoneSkipped'
        BY NextIInv
    <2>0. /\ clock \in Nat /\ \A b \in bronze : b.at \in Nat
          /\ \A w \in Writers : \A r \in writing[w] : r.at \in Nat
          /\ writing \in [Writers -> SUBSET Rows]
          /\ silver \subseteq bronze
        BY DedupAssumption DEF IInv, TypeOK, Rows, SilverFromBronze
    <2>1. ASSUME NEW w \in Writers, NEW t \in TradeIds, Stamp(w, t)
          PROVE  InOrder' /\ NoneSkipped'
        <3>1. InOrder'
            BY <2>0, <2>1 DEF Stamp, InOrder
        <3>2. NoneSkipped'
            BY <2>1 DEF Stamp, NoneSkipped, Skipped, Selected
        <3> QED BY <3>1, <3>2
    <2>2. ASSUME NEW w \in Writers, Commit(w)
          PROVE  InOrder' /\ NoneSkipped'
        <3> DEFINE new == {r \in writing[w] : \A b \in bronze : b.id # r.id}
        <3>1. /\ bronze' = bronze \union new /\ clock' = clock + 1
              /\ silver' = silver /\ built' = built
            BY <2>2 DEF Commit
        <3>2. \A v \in Writers : writing'[v] = {}
            BY <2>0, <2>2 DEF Commit, OneWriter
        <3>3. \A b \in bronze' : b.at < clock'
            BY <2>0, <3>1 DEF InOrder
        <3>4. InOrder'
            BY <3>1, <3>2, <3>3 DEF InOrder
        <3>5. \A r \in new : \A s \in silver : r.at > s.at
            BY <2>0 DEF InOrder
        <3>6. NoneSkipped'
            BY <3>1, <3>5 DEF NoneSkipped, Skipped, Selected, InOrder
        <3> QED BY <3>4, <3>6
    <2>3. ASSUME NEW w \in Writers, CommitFails(w)
          PROVE  InOrder' /\ NoneSkipped'
        <3>1. InOrder'
            BY <2>0, <2>3 DEF CommitFails, InOrder
        <3>2. NoneSkipped'
            BY <2>3 DEF CommitFails, NoneSkipped, Skipped, Selected
        <3> QED BY <3>1, <3>2
    <2>4. CASE DbtRun
        <3>1. /\ bronze' = bronze /\ built' /\ clock' = clock
              /\ writing' = writing
            BY <2>4 DEF DbtRun, FirstRun, IncrementalRun
        <3>2. silver' = bronze /\ bronze # {}
            <4>1. CASE FirstRun
                BY <4>1, FirstRunCopies DEF FirstRun
            <4>2. CASE IncrementalRun
                <5>1. silver' = silver \union Selected
                    BY <4>2, IncrementalAdds
                <5>2. silver \union Selected = bronze
                    BY <2>0, <4>2
                    DEF NoneSkipped, Skipped, Selected, IncrementalRun
                <5> QED BY <2>0, <4>2, <5>1, <5>2 DEF InOrder, IncrementalRun
            <4> QED BY <2>4, <4>1, <4>2 DEF DbtRun
        <3> QED BY <3>1, <3>2 DEF InOrder, NoneSkipped, Skipped
    <2>5. CASE UNCHANGED vars
        BY <2>5 DEF vars, InOrder, NoneSkipped, Skipped, Selected
    <2> QED BY <2>1, <2>2, <2>3, <2>4, <2>5 DEF Next
<1>3. J => NoneSkipped
    OBVIOUS
<1> QED BY <1>1, <1>2, <1>3, PTL DEF Spec
=============================================================================
