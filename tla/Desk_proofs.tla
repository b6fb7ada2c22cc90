---------------------------- MODULE Desk_proofs -----------------------------
(***************************************************************************)
(* The booking form in every office: whatever the rows, the settings, the  *)
(* values its controls offer, and however long somebody stays at it.       *)
(*                                                                         *)
(* First what the pieces compute, whatever the state: the filter that      *)
(* keeps the days after the head's, the panel's rows under every edit of   *)
(* them, the availability block asked twice, and the refusals of the       *)
(* action.  Then the invariant FormInv: a step of the system does one of   *)
(* five things to the form, and each of the five keeps it.                 *)
(*                                                                         *)
(* Then the days and times of day that the form holds (ClockInv), and so   *)
(* the plan: the rule that was asked for, expanded as Recurrence_proofs    *)
(* shows a rule to be.                                                     *)
(*                                                                         *)
(* Last, the list screens: what the desk remembers of a filter             *)
(* (FiltersInv), what a query asks once it is posted, parsed and written   *)
(* again, and what the clauses built from it find.                         *)
(***************************************************************************)
EXTENDS Desk, Recurrence_proofs, SequenceTheorems

-----------------------------------------------------------------------------
(* The filter of the repeat days, by rank.                                 *)

(* A function on the first n numbers is a sequence of length n.            *)
LEMMA SeqOfFunction ==
  ASSUME NEW S, NEW n \in Nat, NEW f \in [1 .. n -> S]
  PROVE  f \in Seq(S) /\ Len(f) = n
OBVIOUS

(* Of a finite set of numbers, one has exactly n below it, for every n     *)
(* under the size of the set.                                              *)
LEMMA RankExists ==
  ASSUME NEW S \in SUBSET Int, IsFiniteSet(S), NEW n \in 1 .. Cardinality(S)
  PROVE  \E i \in S : Cardinality({j \in S : j < i}) = n - 1
<1> DEFINE Below(i) == {j \in S : j < i}
           top == Cardinality(S) - 1
           rank == [i \in S |-> Cardinality(Below(i))]
<1>1. Cardinality(S) \in Nat
  BY FS_CardinalityType
<1>2. ASSUME NEW i \in S PROVE IsFiniteSet(Below(i)) /\ Cardinality(Below(i)) \in 0 .. top
  <2>1. Below(i) \in SUBSET S /\ Below(i) # S
    OBVIOUS
  <2> HIDE DEF Below
  <2>2. /\ IsFiniteSet(Below(i)) /\ Cardinality(Below(i)) <= Cardinality(S)
        /\ Cardinality(Below(i)) # Cardinality(S)
    BY <2>1, FS_Subset
  <2>3. Cardinality(Below(i)) \in Nat
    BY <2>2, FS_CardinalityType
  <2> QED BY <1>1, <2>2, <2>3
<1>3. ASSUME NEW i \in S, NEW k \in S, i < k PROVE Cardinality(Below(i)) # Cardinality(Below(k))
  <2>1. Below(i) \in SUBSET Below(k) /\ Below(i) # Below(k)
    <3>1. i \in Below(k) /\ i \notin Below(i)
      BY <1>3
    <3>2. ASSUME NEW j \in Below(i) PROVE j \in Below(k)
      <4>1. j \in S /\ j < i
        OBVIOUS
      <4>2. j \in Int /\ i \in Int /\ k \in Int
        BY <4>1
      <4>3. j < k
        BY <1>3, <4>1, <4>2
      <4> QED BY <4>1, <4>3
    <3> HIDE DEF Below
    <3> QED BY <3>1, <3>2
  <2> HIDE DEF Below
  <2> QED BY <1>2, <2>1, FS_Subset
<1> HIDE DEF Below
<1>4. rank \in Injection(S, 0 .. top)
  <2>1. rank \in [S -> 0 .. top]
    BY <1>2
  <2>2. ASSUME NEW i \in S, NEW k \in S, rank[i] = rank[k] PROVE i = k
    <3>1. ~(i < k) /\ ~(k < i)
      BY <1>3, <2>2
    <3> QED BY <3>1
  <2> QED BY <2>1, <2>2 DEF Injection, IsInjective
<1>5. IsFiniteSet(0 .. top) /\ Cardinality(0 .. top) = Cardinality(S)
  <2>1. top \in Int /\ 0 \in Int
    BY <1>1
  <2>2. 0 > top => Cardinality(S) = 0
    BY <1>1
  <2> HIDE DEF top
  <2>3. IsFiniteSet(0 .. top) /\ Cardinality(0 .. top) = IF 0 > top THEN 0 ELSE top - 0 + 1
    BY <2>1, FS_Interval
  <2> QED BY <1>1, <2>1, <2>2, <2>3 DEF top
<1>6. rank \in Surjection(S, 0 .. top)
  <2> HIDE DEF rank, top
  <2> QED BY <1>4, <1>5, FS_Injection
<1>7. n - 1 \in 0 .. top
  BY <1>1
<1>8. \E i \in S : rank[i] = n - 1
  BY <1>6, <1>7 DEF Surjection
<1> QED BY <1>8 DEF Below

(* The days left of the others are rows of theirs, none on the head's day. *)
LEMMA OtherDaysOf ==
  ASSUME NEW S, NEW was \in Seq(S), NEW head,
         \A i \in 1 .. Len(was) : \A j \in 1 .. Len(was) :
           was[i].weekday = was[j].weekday => i = j
  PROVE  /\ OtherDays(was, head) \in Seq(S)
         /\ \A n \in 1 .. Len(OtherDays(was, head)) :
              /\ OtherDays(was, head)[n].weekday # head.weekday
              /\ \E i \in 1 .. Len(was) : OtherDays(was, head)[n] = was[i]
         /\ \A m \in 1 .. Len(OtherDays(was, head)) : \A n \in 1 .. Len(OtherDays(was, head)) :
              OtherDays(was, head)[m].weekday = OtherDays(was, head)[n].weekday => m = n
<1> DEFINE kept == {i \in 2 .. Len(was) : was[i].weekday # head.weekday}
           Nth(n) == CHOOSE i \in kept : Cardinality({j \in kept : j < i}) = n - 1
           rest == [n \in 1 .. Cardinality(kept) |-> was[Nth(n)]]
<1>1. OtherDays(was, head) = rest
  BY DEF OtherDays
<1>2. Len(was) \in Nat /\ \A i \in 1 .. Len(was) : was[i] \in S
  BY LenProperties, ElementOfSeq
<1>3. kept \in SUBSET (2 .. Len(was)) /\ kept \in SUBSET Int
  OBVIOUS
<1>3a. \A i \in kept : was[i].weekday # head.weekday
  OBVIOUS
<1> HIDE DEF kept
<1>4. IsFiniteSet(kept) /\ Cardinality(kept) \in Nat
  <2>1. IsFiniteSet(2 .. Len(was))
    BY <1>2, FS_Interval
  <2> QED BY <1>3, <2>1, FS_Subset, FS_CardinalityType
<1>5. ASSUME NEW n \in 1 .. Cardinality(kept)
      PROVE  Nth(n) \in kept /\ Cardinality({j \in kept : j < Nth(n)}) = n - 1
  <2>1. \E i \in kept : Cardinality({j \in kept : j < i}) = n - 1
    BY <1>3, <1>4, RankExists
  <2> QED BY <2>1
<1>6. \A m \in 1 .. Cardinality(kept) : \A n \in 1 .. Cardinality(kept) :
        Nth(m) = Nth(n) => m = n
  <2> SUFFICES ASSUME NEW m \in 1 .. Cardinality(kept), NEW n \in 1 .. Cardinality(kept),
                      Nth(m) = Nth(n)
               PROVE  m = n
    OBVIOUS
  <2>1. m - 1 = n - 1
    BY <1>5
  <2> QED BY <2>1
<1>7. \A n \in 1 .. Cardinality(kept) :
        Nth(n) \in 1 .. Len(was) /\ was[Nth(n)].weekday # head.weekday /\ was[Nth(n)] \in S
  <2> TAKE n \in 1 .. Cardinality(kept)
  <2>1. Nth(n) \in kept
    BY <1>5
  <2> HIDE DEF Nth
  <2>2. Nth(n) \in 2 .. Len(was) /\ was[Nth(n)].weekday # head.weekday
    BY <1>3, <1>3a, <2>1
  <2>3. Nth(n) \in 1 .. Len(was)
    BY <1>2, <2>2
  <2> QED BY <1>2, <2>2, <2>3
<1> HIDE DEF Nth
<1>8. rest \in [1 .. Cardinality(kept) -> S]
  BY <1>7
<1>9. \A n \in 1 .. Cardinality(kept) : rest[n] = was[Nth(n)]
  OBVIOUS
<1> HIDE DEF rest
<1>10. rest \in Seq(S) /\ Len(rest) = Cardinality(kept)
  BY <1>4, <1>8, SeqOfFunction
<1>11. \A n \in 1 .. Len(rest) : /\ rest[n].weekday # head.weekday
                                  /\ \E i \in 1 .. Len(was) : rest[n] = was[i]
  BY <1>7, <1>9, <1>10
<1>12. ASSUME NEW m \in 1 .. Len(rest), NEW n \in 1 .. Len(rest),
              rest[m].weekday = rest[n].weekday
       PROVE  m = n
  <2>1. Nth(m) \in 1 .. Len(was) /\ Nth(n) \in 1 .. Len(was)
    BY <1>7, <1>10
  <2>2. was[Nth(m)].weekday = was[Nth(n)].weekday
    BY <1>9, <1>10, <1>12
  <2> QED BY <1>6, <1>10, <2>1, <2>2
<1> QED BY <1>1, <1>10, <1>11, <1>12

-----------------------------------------------------------------------------
(* The rows of the repeat panel.                                           *)

RowFields == {"weekday", "length", "time"}

(* Rows the panel can hold: no two on one weekday.                         *)
Panel(rs) == /\ \E S : rs \in Seq(S)
             /\ \A i \in DOMAIN rs : DOMAIN rs[i] = RowFields
             /\ ~RowsRepeat(rs)

(* A run of more than one has a row, and not more than it has sessions.    *)
Enough(rs, n) == n > 1 => Len(rs) \in 1 .. MaxRepeatDays(n)

(* The most repeat days a run may have is between one and seven.           *)
LEMMA MostIsPositive ==
  ASSUME NEW n \in Int
  PROVE  MaxRepeatDays(n) \in 1 .. 7
BY DEF MaxRepeatDays

(* A panel without rows is one it can hold.                                *)
LEMMA NoRows == Panel(<<>>)
<1>1. <<>> \in Seq({}) /\ Len(<<>>) = 0
  BY EmptySeq
<1>2. DOMAIN <<>> = {}
  OBVIOUS
<1> QED BY <1>1, <1>2 DEF Panel, RowsRepeat

(* Brought back into line with the fields above, the rows are again rows   *)
(* the panel can hold, and as many as the run has sessions for.            *)
LEMMA ReconcileKeeps ==
  ASSUME NEW was, Panel(was), NEW previous, NEW next,
         previous.count \in Int, next.count \in Int, Enough(was, previous.count)
  PROVE  /\ Panel(Reconcile(was, previous, next))
         /\ Enough(Reconcile(was, previous, next), next.count)
<1> DEFINE head == HeadRow(was, previous, next)
           rest == OtherDays(was, head)
           settled == <<head>> \o rest
           most == MaxRepeatDays(next.count)
           cut == IF Len(settled) < most THEN Len(settled) ELSE most
           new == SubSeq(settled, 1, cut)
<1>1. CASE next = previous
  <2>1. Reconcile(was, previous, next) = was
    BY <1>1 DEF Reconcile
  <2> QED BY <1>1, <2>1
<1>2. CASE next # previous /\ next.count <= 1
  <2>1. Reconcile(was, previous, next) = <<>>
    BY <1>2 DEF Reconcile
  <2> QED BY <1>2, <2>1, NoRows DEF Enough
<1>3. CASE next # previous /\ next.count > 1
  <2>1. Reconcile(was, previous, next) = new
    <3>1. ~(next.count <= 1)
      BY <1>3
    <3> QED BY <1>3, <3>1 DEF Reconcile
  <2>2. PICK S0 : was \in Seq(S0)
    BY DEF Panel
  <2>3. DOMAIN head = RowFields
    BY DEF HeadRow, Seeded, RowFields
  <2> DEFINE S == S0 \cup {head}
  <2> HIDE DEF head
  <2>4. was \in Seq(S) /\ head \in S
    BY <2>2, SeqMonotonic
  <2> HIDE DEF S
  <2>5. /\ Len(was) \in Nat /\ DOMAIN was = 1 .. Len(was)
    BY <2>4, LenProperties
  <2>6. \A i \in 1 .. Len(was) : \A j \in 1 .. Len(was) :
          was[i].weekday = was[j].weekday => i = j
    BY <2>5 DEF Panel, RowsRepeat
  <2>7. /\ rest \in Seq(S)
        /\ \A n \in 1 .. Len(rest) : /\ rest[n].weekday # head.weekday
                                     /\ \E i \in 1 .. Len(was) : rest[n] = was[i]
        /\ \A m \in 1 .. Len(rest) : \A n \in 1 .. Len(rest) :
             rest[m].weekday = rest[n].weekday => m = n
    BY <2>4, <2>6, OtherDaysOf
  <2> HIDE DEF rest
  <2>12. \A n \in 1 .. Len(rest) : DOMAIN rest[n] = RowFields
    BY <2>5, <2>7 DEF Panel
  <2>13. Len(rest) \in Nat
    BY <2>7, LenProperties
  <2>14. <<head>> \in Seq(S) /\ Len(<<head>>) = 1 /\ <<head>>[1] = head
    BY <2>4
  <2>15. /\ settled \in Seq(S) /\ Len(settled) = 1 + Len(rest)
         /\ \A i \in 1 .. 1 + Len(rest) :
              settled[i] = IF i <= 1 THEN <<head>>[i] ELSE rest[i - 1]
    <3> DEFINE one == <<head>>
    <3>1. one \in Seq(S) /\ Len(one) = 1
      BY <2>14
    <3> HIDE DEF one
    <3>2. rest \in Seq(S)
      BY <2>7
    <3>3. /\ one \o rest \in Seq(S) /\ Len(one \o rest) = Len(one) + Len(rest)
          /\ \A i \in 1 .. Len(one) + Len(rest) :
               (one \o rest)[i] = IF i <= Len(one) THEN one[i] ELSE rest[i - Len(one)]
      BY <3>1, <3>2, ConcatProperties, Zenon
    <3>4. settled = one \o rest
      BY DEF one
    <3> HIDE DEF settled
    <3> QED BY <3>1, <3>3, <3>4 DEF one
  <2>16. \A i \in 1 .. Len(settled) : settled[i] = IF i = 1 THEN head ELSE rest[i - 1]
    BY <2>13, <2>14, <2>15
  <2>17. \A i \in 1 .. Len(settled) : i # 1 => i - 1 \in 1 .. Len(rest)
    BY <2>13, <2>15
  <2> HIDE DEF settled
  <2>18. \A i \in 1 .. Len(settled) : DOMAIN settled[i] = RowFields
    BY <2>3, <2>12, <2>16, <2>17
  <2>19. \A i, j \in 1 .. Len(settled) : i # j => settled[i].weekday # settled[j].weekday
    <3> SUFFICES ASSUME NEW i \in 1 .. Len(settled), NEW j \in 1 .. Len(settled), i # j
                 PROVE  settled[i].weekday # settled[j].weekday
      OBVIOUS
    <3>0. ASSUME NEW k \in 1 .. Len(settled), k # 1
          PROVE  settled[k].weekday # head.weekday /\ settled[k] = rest[k - 1]
      <4>1. k - 1 \in 1 .. Len(rest) /\ settled[k] = rest[k - 1]
        BY <2>16, <2>17, <3>0
      <4> QED BY <2>7, <4>1
    <3>1. CASE i = 1
      <4>1. settled[i] = head
        BY <2>16, <3>1
      <4> QED BY <3>0, <3>1, <4>1
    <3>2. CASE j = 1
      <4>1. settled[j] = head
        BY <2>16, <3>2
      <4> QED BY <3>0, <3>2, <4>1
    <3>3. CASE i # 1 /\ j # 1
      <4>1. i - 1 # j - 1
        BY <2>15, <2>13
      <4> QED BY <2>7, <2>17, <3>0, <3>3, <4>1
    <3> QED BY <3>1, <3>2, <3>3
  <2>20. most \in 1 .. 7
    BY MostIsPositive
  <2> HIDE DEF most
  <2>21. cut \in 1 .. most /\ cut \in 1 .. Len(settled)
    BY <2>13, <2>15, <2>20
  <2> HIDE DEF cut
  <2>22. \A i \in 1 .. cut : settled[i] \in S /\ i \in 1 .. Len(settled)
    BY <2>15, <2>21, ElementOfSeq
  <2>23. /\ new \in Seq(S) /\ Len(new) = cut
         /\ \A i \in 1 .. cut : new[i] = settled[i]
    <3>1. cut \in Int /\ 1 \in Int /\ cut >= 1
      BY <2>20, <2>21
    <3>2. /\ new \in Seq(S) /\ Len(new) = IF 1 <= cut THEN cut - 1 + 1 ELSE 0
          /\ \A i \in 1 .. cut - 1 + 1 : new[i] = settled[1 + i - 1]
      BY <2>22, <3>1, SubSeqProperties
    <3> HIDE DEF new
    <3> QED BY <3>1, <3>2
  <2> HIDE DEF new
  <2>24. DOMAIN new = 1 .. cut
    BY <2>23, LenProperties
  <2>25. Panel(new)
    <3>1. \A i \in DOMAIN new : DOMAIN new[i] = RowFields
      BY <2>18, <2>22, <2>23, <2>24
    <3>2. ~RowsRepeat(new)
      BY <2>19, <2>22, <2>23, <2>24 DEF RowsRepeat
    <3> QED BY <2>23, <3>1, <3>2 DEF Panel
  <2>26. Enough(new, next.count)
    BY <2>21, <2>23 DEF Enough, most
  <2> QED BY <2>1, <2>25, <2>26
<1> QED BY <1>1, <1>2, <1>3

(* The rows of a panel are numbered from one.                              *)
LEMMA PanelIsSeq ==
  ASSUME NEW rs, Panel(rs)
  PROVE  Len(rs) \in Nat /\ DOMAIN rs = 1 .. Len(rs)
<1>1. PICK S : rs \in Seq(S)
  BY DEF Panel
<1> QED BY <1>1, LenProperties

(* A row changed to a day no other row names leaves a panel.               *)
LEMMA EditRowKeeps ==
  ASSUME NEW rs, Panel(rs), NEW i \in DOMAIN rs, NEW row, DOMAIN row = RowFields,
         \A j \in DOMAIN rs : j # i => rs[j].weekday # row.weekday
  PROVE  /\ Panel([rs EXCEPT ![i] = row])
         /\ Len([rs EXCEPT ![i] = row]) = Len(rs)
<1>1. PICK S0 : rs \in Seq(S0)
  BY DEF Panel
<1> DEFINE S == S0 \cup {row}
<1>2. rs \in Seq(S) /\ row \in S
  BY <1>1, SeqMonotonic
<1> HIDE DEF S
<1>3. i \in 1 .. Len(rs) /\ DOMAIN rs = 1 .. Len(rs)
  BY PanelIsSeq
<1> DEFINE new == [rs EXCEPT ![i] = row]
<1>4. /\ new \in Seq(S) /\ Len(new) = Len(rs)
      /\ \A j \in 1 .. Len(rs) : new[j] = IF j = i THEN row ELSE rs[j]
  BY <1>2, <1>3, ExceptSeq
<1> HIDE DEF new
<1>5. DOMAIN new = DOMAIN rs
  BY <1>3, <1>4, LenProperties
<1>6. \A j \in DOMAIN new : DOMAIN new[j] = RowFields
  BY <1>3, <1>4, <1>5 DEF Panel
<1>7. ~RowsRepeat(new)
  <2> SUFFICES ASSUME NEW j \in DOMAIN rs, NEW k \in DOMAIN rs, j # k
               PROVE  new[j].weekday # new[k].weekday
    BY <1>5 DEF RowsRepeat
  <2>1. rs[j].weekday # rs[k].weekday
    BY DEF Panel, RowsRepeat
  <2>2. new[j] = (IF j = i THEN row ELSE rs[j]) /\ new[k] = (IF k = i THEN row ELSE rs[k])
    BY <1>3, <1>4
  <2>3. CASE j = i
    BY <2>2, <2>3
  <2>4. CASE k = i
    BY <2>2, <2>4
  <2>5. CASE j # i /\ k # i
    BY <2>1, <2>2, <2>5
  <2> QED BY <2>3, <2>4, <2>5
<1> QED BY <1>4, <1>6, <1>7 DEF Panel, new

(* Taking a row out leaves a panel with one row less.                      *)
LEMMA RemoveKeeps ==
  ASSUME NEW rs, Panel(rs), NEW i \in DOMAIN rs, Len(rs) > 1
  PROVE  Panel(RemoveAt(rs, i)) /\ Len(RemoveAt(rs, i)) = Len(rs) - 1
<1>1. PICK S : rs \in Seq(S)
  BY DEF Panel
<1>2. i \in 1 .. Len(rs) /\ DOMAIN rs = 1 .. Len(rs) /\ Len(rs) \in Nat
  BY PanelIsSeq
<1> DEFINE before == SubSeq(rs, 1, i - 1)
           after == SubSeq(rs, i + 1, Len(rs))
           new == before \o after
<1>3. /\ before \in Seq(S) /\ Len(before) = i - 1
      /\ \A j \in 1 .. i - 1 : before[j] = rs[j]
  <2>1. \A j \in 1 .. i - 1 : rs[j] \in S
    BY <1>1, <1>2, ElementOfSeq
  <2>2. 1 \in Int /\ i - 1 \in Int
    BY <1>2
  <2>3. /\ before \in Seq(S) /\ Len(before) = IF 1 <= i - 1 THEN i - 1 - 1 + 1 ELSE 0
        /\ \A j \in 1 .. i - 1 - 1 + 1 : before[j] = rs[1 + j - 1]
    BY <2>1, <2>2, SubSeqProperties
  <2> HIDE DEF before
  <2> QED BY <1>2, <2>3
<1>4. /\ after \in Seq(S) /\ Len(after) = Len(rs) - i
      /\ \A j \in 1 .. Len(rs) - i : after[j] = rs[j + i]
  <2>1. \A j \in i + 1 .. Len(rs) : rs[j] \in S
    BY <1>1, <1>2, ElementOfSeq
  <2>2. i + 1 \in Int /\ Len(rs) \in Int
    BY <1>2
  <2>3. /\ after \in Seq(S)
        /\ Len(after) = IF i + 1 <= Len(rs) THEN Len(rs) - (i + 1) + 1 ELSE 0
        /\ \A j \in 1 .. Len(rs) - (i + 1) + 1 : after[j] = rs[i + 1 + j - 1]
    BY <2>1, <2>2, SubSeqProperties
  <2> HIDE DEF after
  <2>4. Len(after) = Len(rs) - i /\ Len(rs) - (i + 1) + 1 = Len(rs) - i
    BY <1>2, <2>3
  <2>5. ASSUME NEW j \in 1 .. Len(rs) - i PROVE after[j] = rs[j + i]
    <3>1. j \in 1 .. Len(rs) - (i + 1) + 1 /\ i + 1 + j - 1 = j + i
      BY <1>2, <2>4
    <3> QED BY <2>3, <3>1
  <2> QED BY <2>3, <2>4, <2>5
<1> HIDE DEF before, after
<1>5. /\ new \in Seq(S) /\ Len(new) = Len(before) + Len(after)
      /\ \A j \in 1 .. Len(before) + Len(after) :
           new[j] = IF j <= Len(before) THEN before[j] ELSE after[j - Len(before)]
  BY <1>3, <1>4, ConcatProperties
<1> HIDE DEF new
<1>6. Len(new) = Len(rs) - 1 /\ DOMAIN new = 1 .. Len(rs) - 1
  BY <1>2, <1>3, <1>4, <1>5, LenProperties
<1>7. ASSUME NEW j \in DOMAIN new
      PROVE  /\ j < i => j \in DOMAIN rs /\ new[j] = rs[j]
             /\ ~(j < i) => j + 1 \in DOMAIN rs /\ new[j] = rs[j + 1]
  <2>1. j \in 1 .. Len(before) + Len(after) /\ j \in Int
    BY <1>2, <1>3, <1>4, <1>6
  <2>2. new[j] = IF j <= Len(before) THEN before[j] ELSE after[j - Len(before)]
    BY <1>5, <2>1
  <2>3. CASE j < i
    <3>1. j <= Len(before) /\ j \in 1 .. i - 1
      BY <1>2, <1>3, <2>1, <2>3
    <3>2. new[j] = rs[j]
      BY <1>3, <2>2, <3>1
    <3> QED BY <1>2, <2>3, <3>1, <3>2
  <2>4. CASE ~(j < i)
    <3>1. ~(j <= Len(before)) /\ j - (i - 1) \in 1 .. Len(rs) - i
      BY <1>2, <1>3, <1>6, <2>1, <2>4
    <3>2. new[j] = after[j - (i - 1)]
      BY <1>3, <2>2, <3>1
    <3>3. after[j - (i - 1)] = rs[j - (i - 1) + i]
      BY <1>4, <3>1
    <3>4. j - (i - 1) + i = j + 1
      BY <1>2, <2>1
    <3> QED BY <1>2, <1>6, <2>4, <3>2, <3>3, <3>4
  <2> QED BY <2>3, <2>4
<1>8. \A j \in DOMAIN new : DOMAIN new[j] = RowFields
  <2> TAKE j \in DOMAIN new
  <2> QED BY <1>7 DEF Panel
<1>9. ~RowsRepeat(new)
  <2> SUFFICES ASSUME NEW j \in DOMAIN new, NEW k \in DOMAIN new, j # k
               PROVE  new[j].weekday # new[k].weekday
    BY DEF RowsRepeat
  <2> DEFINE Was(m) == IF m < i THEN m ELSE m + 1
  <2>1. /\ Was(j) \in DOMAIN rs /\ new[j] = rs[Was(j)]
        /\ Was(k) \in DOMAIN rs /\ new[k] = rs[Was(k)]
    BY <1>7
  <2>2. Was(j) # Was(k)
    BY <1>2, <1>6
  <2> HIDE DEF Was
  <2> QED BY <2>1, <2>2 DEF Panel, RowsRepeat
<1>10. RemoveAt(rs, i) = new
  BY DEF RemoveAt, new, before, after
<1> QED BY <1>5, <1>6, <1>8, <1>9, <1>10 DEF Panel

(* A row added on a day nobody names leaves a panel with one row more.     *)
LEMMA AddKeeps ==
  ASSUME NEW rs, Panel(rs), NEW row, DOMAIN row = RowFields,
         \A j \in DOMAIN rs : rs[j].weekday # row.weekday
  PROVE  Panel(Append(rs, row)) /\ Len(Append(rs, row)) = Len(rs) + 1
<1>1. PICK S0 : rs \in Seq(S0)
  BY DEF Panel
<1> DEFINE S == S0 \cup {row}
           new == Append(rs, row)
<1>2. rs \in Seq(S) /\ row \in S
  BY <1>1, SeqMonotonic
<1> HIDE DEF S
<1>3. Len(rs) \in Nat /\ DOMAIN rs = 1 .. Len(rs)
  BY PanelIsSeq
<1>4. /\ new \in Seq(S) /\ Len(new) = Len(rs) + 1
      /\ \A j \in 1 .. Len(rs) : new[j] = rs[j]
      /\ new[Len(rs) + 1] = row
  BY <1>2, AppendProperties
<1> HIDE DEF new
<1>5. DOMAIN new = 1 .. Len(rs) + 1
  BY <1>4, LenProperties
<1>6. ASSUME NEW j \in DOMAIN new
      PROVE  \/ j \in DOMAIN rs /\ new[j] = rs[j]
             \/ j = Len(rs) + 1 /\ new[j] = row
  BY <1>3, <1>4, <1>5
<1>7. \A j \in DOMAIN new : DOMAIN new[j] = RowFields
  <2> TAKE j \in DOMAIN new
  <2> QED BY <1>6 DEF Panel
<1>8. ~RowsRepeat(new)
  <2> SUFFICES ASSUME NEW j \in DOMAIN new, NEW k \in DOMAIN new, j # k
               PROVE  new[j].weekday # new[k].weekday
    BY DEF RowsRepeat
  <2>1. CASE j \in DOMAIN rs /\ new[j] = rs[j] /\ k \in DOMAIN rs /\ new[k] = rs[k]
    BY <2>1 DEF Panel, RowsRepeat
  <2>2. CASE j \in DOMAIN rs /\ new[j] = rs[j] /\ new[k] = row
    BY <2>2
  <2>3. CASE k \in DOMAIN rs /\ new[k] = rs[k] /\ new[j] = row
    BY <2>3
  <2>4. j = Len(rs) + 1 => k # Len(rs) + 1
    OBVIOUS
  <2> QED BY <1>6, <2>1, <2>2, <2>3, <2>4
<1> QED BY <1>4, <1>7, <1>8 DEF Panel, new

(* With fewer rows than weekdays there is a weekday no row has.            *)
LEMMA FreeWeekdayIsFree ==
  ASSUME Panel(rows), Len(rows) < 7
  PROVE  FreeWeekday \in (1 .. 7) \ Taken(0)
<1> DEFINE free == (1 .. 7) \ Taken(0)
           named == [j \in DOMAIN rows |-> rows[j].weekday]
<1>1. Len(rows) \in Nat /\ DOMAIN rows = 1 .. Len(rows)
  BY PanelIsSeq
<1>2. Taken(0) = {named[j] : j \in DOMAIN rows}
  BY <1>1 DEF Taken
<1>3. named \in Surjection(DOMAIN rows, Taken(0))
  BY <1>2 DEF Surjection
<1>4. IsFiniteSet(DOMAIN rows) /\ Cardinality(DOMAIN rows) = Len(rows)
  <2>1. IsFiniteSet(1 .. Len(rows))
        /\ Cardinality(1 .. Len(rows)) = IF 1 > Len(rows) THEN 0 ELSE Len(rows) - 1 + 1
    <3>1. 1 \in Int /\ Len(rows) \in Int
      BY <1>1
    <3> QED BY <3>1, FS_Interval
  <2>2. (IF 1 > Len(rows) THEN 0 ELSE Len(rows) - 1 + 1) = Len(rows)
    BY <1>1
  <2> QED BY <1>1, <2>1, <2>2
<1> HIDE DEF named
<1>5. IsFiniteSet(Taken(0)) /\ Cardinality(Taken(0)) <= Len(rows)
  BY <1>3, <1>4, FS_Surjection
<1>6. IsFiniteSet(1 .. 7) /\ Cardinality(1 .. 7) = 7
  <2>1. IsFiniteSet(1 .. 7) /\ Cardinality(1 .. 7) = IF 1 > 7 THEN 0 ELSE 7 - 1 + 1
    <3>1. 1 \in Int /\ 7 \in Int
      OBVIOUS
    <3> QED BY <3>1, FS_Interval
  <2> QED BY <2>1
<1>7. ~((1 .. 7) \subseteq Taken(0))
  <2> SUFFICES ASSUME (1 .. 7) \in SUBSET Taken(0) PROVE FALSE
    OBVIOUS
  <2>1. Cardinality(1 .. 7) <= Cardinality(Taken(0))
    BY <1>5, FS_Subset
  <2>2. Cardinality(Taken(0)) \in Nat
    BY <1>5, FS_CardinalityType
  <2> QED BY <1>1, <1>5, <1>6, <2>1, <2>2
<1>8. free # {} /\ free \in SUBSET (1 .. 7)
  BY <1>7
<1> HIDE DEF free
<1>9. \E w \in free : \A v \in free : w <= v
  <2>1. free \in SUBSET Int /\ IsFiniteSet(free)
    <3>1. free \in SUBSET Int
      BY <1>8
    <3>2. IsFiniteSet(free)
      <4>1. IsFiniteSet(1 .. 7) /\ free \in SUBSET (1 .. 7)
        BY <1>6, <1>8
      <4> QED BY <4>1, FS_Subset
    <3> QED BY <3>1, <3>2
  <2>2. 1 \in 1 .. Cardinality(free)
    BY <1>8, <2>1, FS_EmptySet, FS_CardinalityType
  <2>3. PICK w \in free : Cardinality({j \in free : j < w}) = 1 - 1
    BY <2>1, <2>2, RankExists
  <2>4. IsFiniteSet({j \in free : j < w})
    <3>1. {j \in free : j < w} \in SUBSET free
      OBVIOUS
    <3> QED BY <2>1, <3>1, FS_Subset
  <2>5. {j \in free : j < w} = {}
    BY <2>3, <2>4, FS_EmptySet
  <2>6. ASSUME NEW v \in free PROVE w <= v
    BY <2>1, <2>5
  <2> QED BY <2>6
<1> QED BY <1>8, <1>9 DEF FreeWeekday, free

-----------------------------------------------------------------------------
(* The availability block, asked a second time with what it answered.      *)

(* The school a question is about.                                         *)
SchoolOf(asked) ==
  IF asked.school # None
  THEN IF asked.school \in MySchools THEN asked.school ELSE None
  ELSE IF Viewer.scope # None /\ Cardinality(Viewer.scope) = 1
       THEN CHOOSE s \in Viewer.scope : TRUE
       ELSE None

EligibleFor(w, asked) == EligibleInstructors(w, ResolveRoster(asked.students, asked.group))

BlockFor(w, asked) ==
  Block(w, asked, EligibleFor(w, asked), Selected(asked, EligibleFor(w, asked)))

(* What the form is told: the block, under the school's own offers.        *)
LEMMA ContextIs ==
  ASSUME NEW w, NEW asked
  PROVE  BookingContext(w, asked)
           = Over([chosenSchool |-> SchoolOf(asked),
                   students |-> OfferedStudents(asked, SchoolOf(asked)) \cap Students,
                   rooms |-> OfferedRooms(asked, SchoolOf(asked))],
                  BlockFor(w, asked))
BY DEF BookingContext, AvailabilityContext, SchoolOf, BlockFor, EligibleFor

(* Where each field of what the form is told comes from.                   *)
LEMMA ContextHas ==
  ASSUME NEW w, NEW asked
  PROVE  /\ BookingContext(w, asked).chosenSchool = SchoolOf(asked)
         /\ BookingContext(w, asked).students
              = OfferedStudents(asked, SchoolOf(asked)) \cap Students
         /\ BookingContext(w, asked).rooms = OfferedRooms(asked, SchoolOf(asked))
         /\ \A field \in {"instructors", "chosenInstructor", "chosenDuration", "matrixDays",
                          "openings", "suggestions", "grid"} :
              BookingContext(w, asked)[field] = BlockFor(w, asked)[field]
<1> DEFINE offers == [chosenSchool |-> SchoolOf(asked),
                      students |-> OfferedStudents(asked, SchoolOf(asked)) \cap Students,
                      rooms |-> OfferedRooms(asked, SchoolOf(asked))]
           block == BlockFor(w, asked)
<1>1. BookingContext(w, asked) = Over(offers, block)
  BY ContextIs
<1>2. DOMAIN offers = {"chosenSchool", "students", "rooms"}
  OBVIOUS
<1>3. {"instructors", "chosenInstructor", "chosenDuration", "matrixDays",
       "openings", "suggestions", "grid"} \subseteq DOMAIN block
  BY DEF BlockFor, Block
<1>4. /\ offers["chosenSchool"] = SchoolOf(asked)
      /\ offers["students"] = OfferedStudents(asked, SchoolOf(asked)) \cap Students
      /\ offers["rooms"] = OfferedRooms(asked, SchoolOf(asked))
  OBVIOUS
<1> HIDE DEF offers, block
<1>5. \A field \in {"chosenSchool", "students", "rooms"} :
        Over(offers, block)[field] = offers[field]
  BY <1>2 DEF Over
<1>6. \A field \in {"instructors", "chosenInstructor", "chosenDuration", "matrixDays",
                    "openings", "suggestions", "grid"} : Over(offers, block)[field] = block[field]
  BY <1>2, <1>3 DEF Over
<1> QED BY <1>1, <1>4, <1>5, <1>6 DEF block

(* The block says back who is chosen, how long, and how many days.         *)
LEMMA ChosenIs ==
  ASSUME NEW w, NEW asked
  PROVE  /\ BookingContext(w, asked).chosenInstructor = Selected(asked, EligibleFor(w, asked))
         /\ BookingContext(w, asked).chosenDuration = asked.duration
         /\ BookingContext(w, asked).matrixDays = asked.matrixDays
<1>1. /\ BlockFor(w, asked).chosenInstructor = Selected(asked, EligibleFor(w, asked))
      /\ BlockFor(w, asked).chosenDuration = asked.duration
      /\ BlockFor(w, asked).matrixDays = asked.matrixDays
  BY DEF BlockFor, Block
<1> QED BY <1>1, ContextHas

(* The school a question is about is the viewer's, or none.                *)
LEMMA SchoolIsMine ==
  ASSUME NEW asked, asked.school \in MySchools \cup {None}
  PROVE  SchoolOf(asked) \in MySchools \cup {None}
<1>1. CASE asked.school # None
  BY <1>1 DEF SchoolOf
<1>2. CASE asked.school = None /\ Viewer.scope # None /\ Cardinality(Viewer.scope) = 1
  <2>1. Viewer.scope # {}
    BY <1>2, FS_EmptySet
  <2>2. MySchools = Viewer.scope
    BY <1>2 DEF MySchools
  <2> QED BY <1>2, <2>1, <2>2 DEF SchoolOf
<1>3. CASE asked.school = None /\ ~(Viewer.scope # None /\ Cardinality(Viewer.scope) = 1)
  BY <1>3 DEF SchoolOf
<1> QED BY <1>1, <1>2, <1>3

(* Asked again with the fields as the answer left them, the server draws   *)
(* the same.                                                               *)
LEMMA AskingAgain ==
  ASSUME NEW w, NEW asked, NEW again,
         asked.school \in MySchools \cup {None},
         again.date = asked.date, again.duration = asked.duration,
         again.students = asked.students, again.matrixDays = asked.matrixDays,
         again.instructor = BookingContext(w, asked).chosenInstructor,
         again.school = Shown(Setting(asked.school, BookingContext(w, asked).chosenSchool),
                              MySchools),
         again.group = Shown(asked.group, Groups),
         asked.date # None =>
           /\ again.time = asked.time
           /\ again.repeatDays = <<>> <=> asked.repeatDays = <<>>
  PROVE  Drawn(BookingContext(w, again)) = Drawn(BookingContext(w, asked))
<1>1. ResolveRoster(again.students, again.group) = ResolveRoster(asked.students, asked.group)
  BY ControlsAssumption DEF ResolveRoster, Shown
<1>2. EligibleFor(w, again) = EligibleFor(w, asked)
  BY <1>1 DEF EligibleFor
<1>3. Selected(again, EligibleFor(w, again)) = Selected(asked, EligibleFor(w, asked))
  <2>1. again.instructor = Selected(asked, EligibleFor(w, asked))
    BY ChosenIs
  <2> QED BY <1>2, <2>1 DEF Selected
<1>4. again.school = SchoolOf(asked)
  <2>1. Setting(asked.school, SchoolOf(asked)) = SchoolOf(asked)
    BY DEF Setting, SchoolOf
  <2>2. again.school = Shown(SchoolOf(asked), MySchools)
    BY <2>1, ContextHas
  <2> QED BY <2>2, SchoolIsMine DEF Shown
<1>5. SchoolOf(again) = SchoolOf(asked)
  <2>1. CASE SchoolOf(asked) # None
    BY <1>4, <2>1, SchoolIsMine DEF SchoolOf
  <2>2. CASE SchoolOf(asked) = None
    <3>1. asked.school = None
      BY <2>2 DEF SchoolOf
    <3> QED BY <1>4, <2>2, <3>1 DEF SchoolOf
  <2> QED BY <2>1, <2>2
<1>6. SchoolOf(asked) = None => again.school = asked.school
  BY <1>4 DEF SchoolOf
<1>7. /\ OfferedStudents(again, SchoolOf(again)) = OfferedStudents(asked, SchoolOf(asked))
      /\ OfferedRooms(again, SchoolOf(again)) = OfferedRooms(asked, SchoolOf(asked))
  BY <1>5, <1>6 DEF OfferedStudents, OfferedRooms
<1> DEFINE one == BlockFor(w, asked)
           two == BlockFor(w, again)
<1>8. /\ two.instructors = one.instructors /\ two.chosenInstructor = one.chosenInstructor
      /\ two.openings = one.openings
  BY <1>2, <1>3 DEF BlockFor, Block
<1>9. two.grid = one.grid
  <2>1. CASE asked.date = None
    BY <2>1 DEF BlockFor, Block
  <2>2. CASE asked.date # None
    BY <1>2, <1>3, <2>2 DEF BlockFor, Block
  <2> QED BY <2>1, <2>2
<1>10. two.suggestions = one.suggestions
  <2>1. CASE asked.date = None
    BY <2>1 DEF BlockFor, Block
  <2>2. CASE asked.date # None
    BY <1>2, <1>3, <2>2 DEF BlockFor, Block
  <2> QED BY <2>1, <2>2
<1> HIDE DEF one, two
<1>11. /\ BookingContext(w, again).instructors = BookingContext(w, asked).instructors
       /\ BookingContext(w, again).chosenInstructor = BookingContext(w, asked).chosenInstructor
       /\ BookingContext(w, again).openings = BookingContext(w, asked).openings
       /\ BookingContext(w, again).grid = BookingContext(w, asked).grid
       /\ BookingContext(w, again).suggestions = BookingContext(w, asked).suggestions
  <2> DEFINE first == BookingContext(w, asked)
             second == BookingContext(w, again)
  <2>1. \A field \in {"instructors", "chosenInstructor", "chosenDuration", "matrixDays",
                      "openings", "suggestions", "grid"} : second[field] = two[field]
    BY ContextHas DEF two
  <2>2. \A field \in {"instructors", "chosenInstructor", "chosenDuration", "matrixDays",
                      "openings", "suggestions", "grid"} : first[field] = one[field]
    BY ContextHas DEF one
  <2> HIDE DEF first, second
  <2>3. /\ second.instructors = first.instructors
        /\ second.chosenInstructor = first.chosenInstructor
        /\ second.openings = first.openings /\ second.grid = first.grid
        /\ second.suggestions = first.suggestions
    BY <1>8, <1>9, <1>10, <2>1, <2>2
  <2> QED BY <2>3 DEF first, second
<1>12. /\ BookingContext(w, again).students = BookingContext(w, asked).students
       /\ BookingContext(w, again).rooms = BookingContext(w, asked).rooms
  <2>1. /\ BookingContext(w, again).students
             = OfferedStudents(again, SchoolOf(again)) \cap Students
        /\ BookingContext(w, again).rooms = OfferedRooms(again, SchoolOf(again))
    BY ContextHas
  <2>2. /\ BookingContext(w, asked).students
             = OfferedStudents(asked, SchoolOf(asked)) \cap Students
        /\ BookingContext(w, asked).rooms = OfferedRooms(asked, SchoolOf(asked))
    BY ContextHas
  <2> QED BY <1>7, <2>1, <2>2
<1> QED BY <1>11, <1>12 DEF Drawn

-----------------------------------------------------------------------------
(* What the action refuses.                                                *)

(* A form whose rows the action has nothing against.                       *)
RowsFit(f) ==
  f.count > 1 => ~RowsRepeat(f.rows) /\ ~(Len(f.rows) > MaxRepeatDays(f.count))

(* Whichever step is asked for, the context is that of the fields.         *)
LEMMA AnswerContext ==
  ASSUME NEW w, NEW f PROVE BookingStep(w, f).context = BookingContext(w, Asked(f))
BY DEF BookingStep, Answer, PlanStep, Confirmed

(* No error is not a refusal of rows.                                      *)
LEMMA NothingRefused == None \notin RowRefusals
BY ControlsAssumption DEF RowRefusals

(* Rows that fit are refused nowhere on the way to a plan.                 *)
LEMMA PlanErrorOfRows ==
  ASSUME NEW w, NEW f, NEW offered, RowsFit(f)
  PROVE  PlanError(w, f, offered) \notin RowRefusals
<1>1. FormError(f) \notin RowRefusals
  BY NothingRefused DEF FormError, RowsFit, RowRefusals
<1>2. SchoolError(f, offered) \notin RowRefusals
  BY NothingRefused DEF SchoolError, RowRefusals
<1> DEFINE request == BookingFromForm(f)
<1>3. ValidateRequest(w, request) \notin RowRefusals
  <2>1. TimingError(w, request) \notin RowRefusals
    BY NothingRefused DEF TimingError, RowRefusals
  <2> HIDE DEF request
  <2> QED BY <2>1 DEF ValidateRequest, RowRefusals
<1> HIDE DEF request
<1>4. ResolveStudentsError(request) \notin RowRefusals
  BY NothingRefused DEF ResolveStudentsError, RowRefusals
<1>5. EligibleError(w, request) \notin RowRefusals
  BY NothingRefused DEF EligibleError, RowRefusals
<1>6. ExpansionError(request) \notin RowRefusals
  BY NothingRefused DEF ExpansionError, RowRefusals
<1>7. ASSUME NEW error, NEW next, error \notin RowRefusals, next \notin RowRefusals
      PROVE  OrElse(error, next) \notin RowRefusals
  BY <1>7 DEF OrElse
<1>8. PlanError(w, f, offered)
        = OrElse(FormError(f), OrElse(SchoolError(f, offered),
            OrElse(ValidateRequest(w, request), OrElse(ResolveStudentsError(request),
              OrElse(EligibleError(w, request), ExpansionError(request))))))
  BY DEF PlanError, request
<1> QED BY <1>1, <1>2, <1>3, <1>4, <1>5, <1>6, <1>7, <1>8

(* The action never refuses rows that fit.                                 *)
LEMMA AnswerErrorOfRows ==
  ASSUME NEW w, NEW f, RowsFit(f)
  PROVE  BookingStep(w, f).error \notin RowRefusals
<1> DEFINE base == [context |-> BookingContext(w, Asked(f)), values |-> f,
                    plan |-> None, error |-> None, written |-> {}]
           kept == IF f.school = None THEN f.students ELSE f.students \cap base.context.students
           plan == PlanBooking(w, BookingFromForm(f))
           error == PlanError(w, f, kept)
<1>1. error \notin RowRefusals
  BY PlanErrorOfRows
<1>2. CreateError(plan) \notin RowRefusals
  <2> HIDE DEF plan
  <2> QED BY NothingRefused DEF CreateError, RowRefusals
<1>3. BookingStep(w, f)
        = IF f.step = "refresh" THEN base
          ELSE IF error # None THEN [base EXCEPT !.error = error]
          ELSE IF f.step = "confirm" THEN Confirmed(w, base, plan)
          ELSE [base EXCEPT !.plan = plan]
  BY DEF BookingStep, Answer, PlanStep
<1>4. base.error = None /\ DOMAIN base = {"context", "values", "plan", "error", "written"}
  OBVIOUS
<1> HIDE DEF base, kept, plan, error
<1>5. Confirmed(w, base, plan).error \notin RowRefusals
  BY <1>2, <1>4, NothingRefused DEF Confirmed
<1> QED BY <1>1, <1>3, <1>4, <1>5, NothingRefused

-----------------------------------------------------------------------------
(* What is sent of a form at rest.                                         *)

Resent(d, chips, rs, days, n) ==
  Over(d, [step |-> "refresh", students |-> chips, rows |-> rs, matrixDays |-> days,
           count |-> n, override |-> FALSE])

(* A form at rest sends its fields, its chips, its rows and its number.    *)
LEMMA ResentHas ==
  ASSUME NEW d, DOMAIN d = Fields, NEW chips, NEW rs, NEW days, NEW n
  PROVE  /\ \A field \in Fields : Resent(d, chips, rs, days, n)[field] = d[field]
         /\ Resent(d, chips, rs, days, n).students = chips
         /\ Resent(d, chips, rs, days, n).rows = rs
         /\ Resent(d, chips, rs, days, n).matrixDays = days
         /\ Resent(d, chips, rs, days, n).count = n
<1> DEFINE rest == [step |-> "refresh", students |-> chips, rows |-> rs, matrixDays |-> days,
                    count |-> n, override |-> FALSE]
           others == {"step", "students", "rows", "matrixDays", "count", "override"}
<1>1. /\ rest["students"] = chips /\ rest["rows"] = rs /\ rest["matrixDays"] = days
      /\ rest["count"] = n /\ DOMAIN rest = others
  OBVIOUS
<1>2. others \cap Fields = {}
  BY DEF Fields
<1>3. {"students", "rows", "matrixDays", "count"} \subseteq others
  OBVIOUS
<1>4. Resent(d, chips, rs, days, n) = Over(d, rest)
  BY DEF Resent
<1> HIDE DEF rest, others
<1>5. \A field \in Fields : Over(d, rest)[field] = d[field]
  BY DEF Over
<1>6. \A field \in others : Over(d, rest)[field] = rest[field]
  BY <1>1, <1>2 DEF Over
<1> QED BY <1>1, <1>3, <1>4, <1>5, <1>6

(* A number of days brought into its bounds stays where it is.             *)
LEMMA ClampedTwice ==
  ASSUME NEW days PROVE Clamped(Clamped(days)) = Clamped(days)
<1>1. Grid.pageDays \in Int /\ Grid.maxDays \in Int /\ Grid.pageDays <= Grid.maxDays
  BY ControlsAssumption
<1>2. CASE days < Grid.pageDays
  <2>1. Clamped(days) = Grid.pageDays
    BY <1>2 DEF Clamped
  <2> QED BY <1>1, <2>1 DEF Clamped
<1>3. CASE ~(days < Grid.pageDays) /\ days > Grid.maxDays
  <2>1. Clamped(days) = Grid.maxDays
    BY <1>3 DEF Clamped
  <2> QED BY <1>1, <2>1 DEF Clamped
<1>4. CASE ~(days < Grid.pageDays) /\ ~(days > Grid.maxDays)
  BY <1>4 DEF Clamped
<1> QED BY <1>2, <1>3, <1>4

(* Every field is restored.                                                *)
LEMMA RestoredFields == ASSUME NEW answer PROVE DOMAIN Restored(answer) = Fields
BY DEF Restored, Fields

(* What an answer was asked: the form as it stands, or as the first paint  *)
(* asks of it.                                                             *)
AskedOf(asked, f) ==
  \/ asked = Asked(f)
  \/ asked = [Asked(f) EXCEPT !.time = Grid.openTime] /\ f.date = None

(* An answer of the server's to a form about a school of the viewer's.     *)
AnswersTo(answer, w) ==
  /\ answer.values.school \in MySchools \cup {None}
  /\ \E asked : AskedOf(asked, answer.values) /\ answer.context = BookingContext(w, asked)

(* With a date, the number is the one asked about, and there are rows if   *)
(* there were any.                                                         *)
GoesWith(answer, rs, n) ==
  answer.values.date # None =>
    /\ n = answer.values.count
    /\ n > 1 => (rs = <<>> <=> answer.values.rows = <<>>)

(* A form restored to an answer, with these rows and this number, is shown *)
(* what it would be shown if it asked again.                               *)
ShowsItself(w, answer, rs, n) ==
  Drawn(answer.context)
    = Drawn(BookingContext(w, Asked(Resent(Restored(answer), answer.values.students, rs,
                                           answer.context.matrixDays, n))))

(* A form just restored to an answer shows the answer to itself.           *)
LEMMA RestIsAnswered ==
  ASSUME NEW w, NEW answer, NEW rs, NEW n, AnswersTo(answer, w), GoesWith(answer, rs, n)
  PROVE  ShowsItself(w, answer, rs, n)
<1> DEFINE f == answer.values
           d == Restored(answer)
           sent == Resent(d, f.students, rs, answer.context.matrixDays, n)
           again == Asked(sent)
<1>1. PICK asked : AskedOf(asked, f) /\ answer.context = BookingContext(w, asked)
  BY DEF AnswersTo
<1>2. f.school \in MySchools \cup {None}
  BY DEF AnswersTo
<1>3. f.date # None => n = f.count /\ (n > 1 => (rs = <<>> <=> f.rows = <<>>))
  BY DEF GoesWith
<1>4. /\ asked.date = f.date /\ asked.duration = f.duration /\ asked.students = f.students
      /\ asked.instructor = f.instructor /\ asked.group = f.group /\ asked.school = f.school
      /\ asked.matrixDays = Clamped(f.matrixDays)
      /\ f.date # None => asked.time = f.time
      /\ asked.repeatDays = IF f.count > 1 THEN f.rows ELSE <<>>
  <2>1. CASE asked = Asked(f)
    BY <2>1 DEF Asked
  <2>2. CASE asked = [Asked(f) EXCEPT !.time = Grid.openTime] /\ f.date = None
    BY <2>2 DEF Asked
  <2> QED BY <1>1, <2>1, <2>2 DEF AskedOf
<1>5. /\ d.date = f.date /\ d.time = f.time /\ d.duration = asked.duration
      /\ d.instructor = BookingContext(w, asked).chosenInstructor
      /\ d.school = Shown(Setting(f.school, BookingContext(w, asked).chosenSchool), MySchools)
      /\ d.group = Shown(f.group, Groups)
  BY <1>1, ChosenIs DEF Restored
<1>6. DOMAIN d = Fields
  BY RestoredFields
<1> HIDE DEF d
<1>7. /\ \A field \in Fields : sent[field] = d[field]
      /\ sent.students = f.students /\ sent.rows = rs /\ sent.count = n
      /\ sent.matrixDays = asked.matrixDays
  BY <1>1, <1>6, ResentHas, ChosenIs
<1> HIDE DEF sent
<1>8. /\ sent.date = d.date /\ sent.time = d.time /\ sent.duration = d.duration
      /\ sent.instructor = d.instructor /\ sent.school = d.school /\ sent.group = d.group
  BY <1>7 DEF Fields
<1>9. /\ again.date = sent.date /\ again.time = sent.time /\ again.duration = sent.duration
      /\ again.instructor = sent.instructor /\ again.group = sent.group
      /\ again.school = sent.school /\ again.students = sent.students
      /\ again.matrixDays = Clamped(sent.matrixDays)
      /\ again.repeatDays = IF sent.count > 1 THEN sent.rows ELSE <<>>
  BY DEF Asked
<1> HIDE DEF again
<1>10. again.matrixDays = asked.matrixDays
  BY <1>4, <1>7, <1>9, ClampedTwice
<1>11. asked.date # None => /\ again.time = asked.time
                            /\ again.repeatDays = <<>> <=> asked.repeatDays = <<>>
  <2> SUFFICES ASSUME asked.date # None
               PROVE  /\ again.time = asked.time
                      /\ again.repeatDays = <<>> <=> asked.repeatDays = <<>>
    OBVIOUS
  <2>1. again.time = asked.time
    BY <1>4, <1>5, <1>8, <1>9
  <2>2. sent.count = f.count /\ (f.count > 1 => (rs = <<>> <=> f.rows = <<>>))
    BY <1>3, <1>4, <1>7
  <2>3. again.repeatDays = <<>> <=> asked.repeatDays = <<>>
    <3>1. CASE f.count > 1
      <4>1. again.repeatDays = rs
        BY <1>7, <1>9, <2>2, <3>1
      <4>2. asked.repeatDays = f.rows
        BY <1>4, <3>1
      <4> QED BY <2>2, <3>1, <4>1, <4>2
    <3>2. CASE ~(f.count > 1)
      <4>1. again.repeatDays = <<>>
        BY <1>9, <2>2, <3>2
      <4>2. asked.repeatDays = <<>>
        BY <1>4, <3>2
      <4> QED BY <4>1, <4>2
    <3> QED BY <3>1, <3>2
  <2> QED BY <2>1, <2>3
<1>12. Drawn(BookingContext(w, again)) = Drawn(BookingContext(w, asked))
  BY <1>2, <1>4, <1>5, <1>7, <1>8, <1>9, <1>10, <1>11, AskingAgain
<1>13. Drawn(answer.context) = Drawn(BookingContext(w, again))
  BY <1>1, <1>12
<1> QED BY <1>13 DEF ShowsItself, again, sent, d

-----------------------------------------------------------------------------
(* The invariant.                                                          *)

Newest == queue[Len(queue)]

(* The number of sessions that is sent.                                    *)
Counted == IF state.values.date = None THEN 1 ELSE counted

(* The fields of the page are those of the form, and its select of schools *)
(* is on one of the viewer's own.                                          *)
FieldsInv == DOMAIN dom = Fields /\ dom.school \in MySchools \cup {None}

(* Submissions are under way only while the form is open.                  *)
QueueInv == /\ \E S : queue \in Seq(S)
            /\ at # "book" => queue = <<>>

(* The repeat panel holds what the run has sessions for.                   *)
RowsInv == Panel(rows) /\ counted \in Int /\ Enough(rows, counted)

(* While the newest submission is a refresh that carried the number of     *)
(* sessions, that number is the one that is remembered.                    *)
CountInv ==
  (queue # <<>> /\ Newest.step = "refresh" /\ state.values.date # None)
    => Newest.count = sentCount

(* The newest submission has rows that fit, and while no refresh waits it  *)
(* carries the chips, the rows and the number as they stand.               *)
NewestInv ==
  queue # <<>> => /\ RowsFit(Newest) /\ Newest.school \in MySchools \cup {None}
                  /\ Newest.count \in Int
                  /\ ~timer => /\ Newest.students = students /\ Newest.rows = rows
                               /\ Newest.count = Counted

(* A remembered number that is not the one that stands has a refresh       *)
(* waiting, and a form at rest is answered.                                *)
RestInv == /\ timer \in BOOLEAN /\ elsewhere \in Nat
           /\ ~timer => sentCount \in {None, counted}
           /\ RowsAlwaysAccepted
           /\ QuietFormIsAnswered

FormInv == FieldsInv /\ QueueInv /\ RowsInv /\ CountInv /\ NewestInv /\ RestInv

-----------------------------------------------------------------------------
(* What a submission carries.                                              *)

Pickable == {"date", "time", "instructor"}

(* A submission carries the form as it stands, but for what was picked.    *)
LEMMA SubmissionCarries ==
  ASSUME DOMAIN dom = Fields, NEW picked, DOMAIN picked \subseteq Pickable, NEW step, NEW override
  PROVE  /\ Over(picked, Snapshot(step, override)).step = step
         /\ Over(picked, Snapshot(step, override)).school = dom.school
         /\ Over(picked, Snapshot(step, override)).students = students
         /\ Over(picked, Snapshot(step, override)).rows = rows
         /\ Over(picked, Snapshot(step, override)).count = Counted
<1> DEFINE rest == [step |-> step, students |-> students, rows |-> rows,
                    matrixDays |-> matrixDays, count |-> Counted, override |-> override]
           added == {"step", "students", "rows", "count"}
<1>1. Snapshot(step, override) = Over(dom, rest)
  BY DEF Snapshot, Counted
<1>2. /\ added \subseteq DOMAIN rest /\ added \cap Fields = {} /\ "school" \in Fields
      /\ added \cap Pickable = {} /\ "school" \notin Pickable
  BY DEF Fields, Pickable
<1>3. /\ rest["step"] = step /\ rest["students"] = students /\ rest["rows"] = rows
      /\ rest["count"] = Counted
  OBVIOUS
<1>4. {"step", "students", "rows", "count"} \subseteq added
  OBVIOUS
<1> HIDE DEF rest, added
<1>5. /\ added \cup {"school"} \subseteq DOMAIN Over(dom, rest)
      /\ \A field \in added : Over(dom, rest)[field] = rest[field]
      /\ Over(dom, rest)["school"] = dom["school"]
  BY <1>2 DEF Over
<1>6. \A field \in added \cup {"school"} :
        Over(picked, Over(dom, rest))[field] = Over(dom, rest)[field]
  BY <1>2, <1>5 DEF Over
<1> QED BY <1>1, <1>3, <1>4, <1>5, <1>6

(* A refresh is the form at rest, sent.                                    *)
LEMMA RefreshIsResent ==
  Snapshot("refresh", FALSE) = Resent(dom, students, rows, matrixDays, Counted)
BY DEF Snapshot, Resent, Counted

(* The server answers with the values it was sent.                         *)
LEMMA AnswerEchoes == ASSUME NEW w, NEW f PROVE BookingStep(w, f).values = f
BY DEF BookingStep, Answer, PlanStep, Confirmed

(* Sending adds to the end of the queue.                                   *)
LEMMA Sent ==
  ASSUME NEW S, NEW q \in Seq(S), NEW x
  PROVE  /\ Append(q, x) \in Seq(S \cup {x}) /\ Append(q, x) # <<>>
         /\ Append(q, x)[Len(Append(q, x))] = x
<1>1. q \in Seq(S \cup {x})
  BY SeqMonotonic
<1>2. x \in S \cup {x}
  OBVIOUS
<1> QED BY <1>1, <1>2, AppendProperties

(* Serving takes the first off, and leaves the newest the newest.          *)
LEMMA Served ==
  ASSUME NEW S, NEW q \in Seq(S), q # <<>>
  PROVE  /\ Tail(q) \in Seq(S)
         /\ Len(q) = 1 => Tail(q) = <<>> /\ q[Len(q)] = Head(q)
         /\ Len(q) # 1 => Tail(q) # <<>> /\ Tail(q)[Len(Tail(q))] = q[Len(q)]
<1>1. /\ Tail(q) \in Seq(S) /\ Len(Tail(q)) = Len(q) - 1
      /\ \A i \in 1 .. Len(Tail(q)) : Tail(q)[i] = q[i + 1]
      /\ Len(q) \in Nat \ {0}
  BY HeadTailProperties, EmptySeq
<1>2. Len(q) = 1 => Tail(q) = <<>> /\ q[Len(q)] = Head(q)
  <2>1. ASSUME Len(q) = 1, Tail(q) # <<>> PROVE FALSE
    <3>1. Len(Tail(q)) \in Nat \ {0}
      BY <1>1, <2>1, EmptySeq
    <3> QED BY <1>1, <2>1, <3>1
  <2>2. Len(q) = 1 => q[Len(q)] = Head(q)
    BY <1>1
  <2> QED BY <2>1, <2>2
<1>3. Len(q) # 1 => Len(q) - 1 \in 1 .. Len(Tail(q))
  BY <1>1
<1>4. Len(q) # 1 => Tail(q) # <<>>
  <2>1. Len(<<>>) = 0
    OBVIOUS
  <2> QED BY <1>1, <2>1
<1> QED BY <1>1, <1>2, <1>3, <1>4

-----------------------------------------------------------------------------
(* The five things a step does to the form: nothing that matters here, a   *)
(* change that has a refresh waiting, one submission more, one answer, or  *)
(* the page is opened afresh.                                              *)

Rests == /\ UNCHANGED <<students, counted, sentCount, rows, matrixDays, timer, queue, state>>
         /\ DOMAIN dom' = Fields /\ \A field \in Refreshing : dom'[field] = dom[field]
         /\ at' # "book" => at # "book" \/ queue = <<>>
         /\ UNCHANGED <<world, elsewhere>> \/ elsewhere' = elsewhere + 1

Edits == /\ UNCHANGED <<sentCount, queue, state, elsewhere>> /\ timer' = TRUE /\ at' = "book"
         /\ FieldsInv' /\ RowsInv'

Sends == /\ at' = "book"
         /\ UNCHANGED <<dom, students, counted, rows, matrixDays, state, elsewhere>>
         /\ \/ /\ queue' = Append(queue, Over(<<>>, Snapshot("refresh", FALSE)))
               /\ sentCount' = counted /\ timer' = FALSE
            \/ /\ UNCHANGED <<sentCount, timer>>
               /\ \E picked : \E step \in {"preview", "confirm"}, override \in BOOLEAN :
                    /\ DOMAIN picked \subseteq Pickable
                    /\ queue' = Append(queue, Over(picked, Snapshot(step, override)))

Serves == Serve /\ at' = "book"

Opens == /\ OpenForm /\ UNCHANGED elsewhere
         /\ ~(Waiting /\ Head(queue).step = "refresh")

(* A chip added or taken away has a refresh waiting.                       *)
LEMMA ChangeRosterEdits ==
  ASSUME FormInv, at' = "book", NEW chips, ChangeRoster(chips) PROVE Edits
BY DEF ChangeRoster, Click, Edits, FormInv, FieldsInv, RowsInv

(* So have rows changed into rows the panel can hold.                      *)
LEMMA ChangeRowsEdits ==
  ASSUME FormInv, at' = "book", NEW changed, ChangeRows(changed),
         Panel(changed), Enough(changed, counted)
  PROVE  Edits
BY DEF ChangeRows, Click, Edits, FormInv, FieldsInv, RowsInv

(* So has asking for more days.                                            *)
LEMMA LoadMoreDaysEdits ==
  ASSUME FormInv, at' = "book", LoadMoreDays PROVE Edits
BY DEF LoadMoreDays, Click, Edits, FormInv, FieldsInv, RowsInv

(* A number typed brings the rows into line and has a refresh waiting.     *)
LEMMA EditCountEdits ==
  ASSUME FormInv, at' = "book", NEW n \in Counts, EditCount(n) PROVE Edits
<1>1. n \in Int
  BY ControlsAssumption
<1>2. Anchor(state, counted).count = counted /\ Anchor(state, n).count = n
  BY DEF Anchor
<1>3. counted' = n /\ rows' = Reconcile(rows, Anchor(state, counted), Anchor(state, n))
  BY DEF EditCount
<1>4. Panel(rows) /\ Enough(rows, counted) /\ counted \in Int
  BY DEF FormInv, RowsInv
<1>5. Panel(rows') /\ Enough(rows', n)
  BY <1>1, <1>2, <1>3, <1>4, ReconcileKeeps
<1>6. RowsInv'
  BY <1>1, <1>3, <1>5 DEF RowsInv
<1> QED BY <1>6 DEF EditCount, Click, Edits, FormInv, FieldsInv

(* A field filled in asks again if it matters to who is free.              *)
LEMMA FillRestsOrEdits ==
  ASSUME FormInv, at' = "book", NEW patch \in Patches, Fill(patch) PROVE Rests \/ Edits
<1>1. dom' = Over(patch, dom) /\ DOMAIN patch \subseteq Fields /\ DOMAIN dom = Fields
  BY PatchesAssumption DEF Fill, FormInv, FieldsInv
<1>2. DOMAIN dom' = Fields
  BY <1>1 DEF Over
<1>3. CASE DOMAIN patch \cap Refreshing = {}
  <2>1. \A field \in Refreshing : dom'[field] = dom[field]
    BY <1>1, <1>3 DEF Over, Refreshing, Fields
  <2>2. timer' = timer
    BY <1>3 DEF Fill, FormInv, RestInv
  <2> QED BY <1>2, <2>1, <2>2 DEF Fill, Click, Rests
<1>4. CASE DOMAIN patch \cap Refreshing # {}
  <2>1. dom'["school"] = IF "school" \in DOMAIN patch THEN patch["school"] ELSE dom["school"]
    BY <1>1 DEF Over, Fields
  <2>2. dom'.school \in MySchools \cup {None}
    BY <2>1, ControlsAssumption DEF FormInv, FieldsInv
  <2>3. timer' = TRUE
    BY <1>4 DEF Fill
  <2> QED BY <1>2, <2>2, <2>3 DEF Fill, Click, Edits, FormInv, FieldsInv, RowsInv
<1> QED BY <1>3, <1>4

(* One row of the panel is given another weekday, time or length.          *)
LEMMA RowChangesEdit ==
  ASSUME FormInv, at' = "book", NEW i \in DOMAIN rows, NEW row, DOMAIN row = RowFields,
         \A j \in DOMAIN rows : j # i => rows[j].weekday # row.weekday,
         ChangeRows([rows EXCEPT ![i] = row])
  PROVE  Edits
<1>1. Panel(rows) /\ Enough(rows, counted)
  BY DEF FormInv, RowsInv
<1> DEFINE changed == [rows EXCEPT ![i] = row]
<1>2. Panel(changed) /\ Len(changed) = Len(rows)
  BY <1>1, EditRowKeeps
<1> HIDE DEF changed
<1>3. Enough(changed, counted)
  BY <1>1, <1>2 DEF Enough
<1>4. ChangeRows(changed)
  BY DEF changed
<1> QED BY <1>2, <1>3, <1>4, ChangeRowsEdits

(* No edit of a row's day, time or length gives two rows one day.          *)
LEMMA RowEditsEdit ==
  ASSUME FormInv, at' = "book", NEW i \in DOMAIN rows,
         \/ \E w \in 1 .. 7 : EditWeekday(i, w)
         \/ \E t \in Times : EditRowTime(i, t)
         \/ \E d \in SelectableDurations : EditRowLength(i, d)
  PROVE  Edits
<1>1. Panel(rows) /\ DOMAIN rows[i] = RowFields
  BY DEF FormInv, RowsInv, Panel
<1>2. \A j \in DOMAIN rows : j # i => rows[j].weekday # rows[i].weekday
  BY <1>1 DEF Panel, RowsRepeat
<1>3. ASSUME NEW w \in 1 .. 7, EditWeekday(i, w) PROVE Edits
  <2> DEFINE row == [rows[i] EXCEPT !.weekday = w]
  <2>1. DOMAIN row = RowFields /\ row.weekday = w
    BY <1>1 DEF RowFields
  <2>2. ChangeRows([rows EXCEPT ![i] = row])
    BY <1>3 DEF EditWeekday
  <2>3. \A j \in DOMAIN rows : j # i => rows[j].weekday # w
    BY <1>3 DEF EditWeekday, Taken
  <2> HIDE DEF row
  <2> QED BY <2>1, <2>2, <2>3, RowChangesEdit
<1>4. ASSUME NEW t \in Times, EditRowTime(i, t) PROVE Edits
  <2> DEFINE row == [rows[i] EXCEPT !.time = t]
  <2>1. DOMAIN row = RowFields /\ row.weekday = rows[i].weekday
    BY <1>1 DEF RowFields
  <2>2. ChangeRows([rows EXCEPT ![i] = row])
    BY <1>4 DEF EditRowTime
  <2> HIDE DEF row
  <2> QED BY <1>2, <2>1, <2>2, RowChangesEdit
<1>5. ASSUME NEW d \in SelectableDurations, EditRowLength(i, d) PROVE Edits
  <2> DEFINE row == [rows[i] EXCEPT !.length = d]
  <2>1. DOMAIN row = RowFields /\ row.weekday = rows[i].weekday
    BY <1>1 DEF RowFields
  <2>2. ChangeRows([rows EXCEPT ![i] = row])
    BY <1>5 DEF EditRowLength
  <2> HIDE DEF row
  <2> QED BY <1>2, <2>1, <2>2, RowChangesEdit
<1> QED BY <1>3, <1>4, <1>5

(* Nor does taking a day away, which leaves at least one.                  *)
LEMMA RemoveDayEdits ==
  ASSUME FormInv, at' = "book", NEW i \in DOMAIN rows, RemoveDay(i) PROVE Edits
<1>1. Panel(rows) /\ Enough(rows, counted) /\ counted \in Int /\ Len(rows) > 1
  BY DEF FormInv, RowsInv, RemoveDay
<1> DEFINE fewer == RemoveAt(rows, i)
<1>2. Panel(fewer) /\ Len(fewer) = Len(rows) - 1
  BY <1>1, RemoveKeeps
<1>3. ChangeRows(fewer)
  BY DEF RemoveDay
<1> HIDE DEF fewer
<1>4. Enough(fewer, counted)
  <2>1. MaxRepeatDays(counted) \in 1 .. 7 /\ Len(rows) \in Nat
    BY <1>1, MostIsPositive, PanelIsSeq
  <2> QED BY <1>1, <1>2, <2>1 DEF Enough
<1> QED BY <1>2, <1>3, <1>4, ChangeRowsEdits

(* Nor does adding one, which leaves no more than the run has sessions.    *)
LEMMA AddDayEdits ==
  ASSUME FormInv, at' = "book", AddDay PROVE Edits
<1>1. /\ Panel(rows) /\ Enough(rows, counted) /\ counted \in Int
      /\ counted > 1 /\ Len(rows) < MaxRepeatDays(counted)
  BY DEF FormInv, RowsInv, AddDay
<1>2. MaxRepeatDays(counted) \in 1 .. 7 /\ Len(rows) \in Nat
  BY <1>1, MostIsPositive, PanelIsSeq
<1>3. FreeWeekday \in (1 .. 7) \ Taken(0)
  BY <1>1, <1>2, FreeWeekdayIsFree
<1> DEFINE row == [weekday |-> FreeWeekday, time |-> state.values.time,
                   length |-> state.context.chosenDuration]
           more == Append(rows, row)
<1>4. DOMAIN row = RowFields /\ row.weekday = FreeWeekday
  BY DEF RowFields
<1>5. ChangeRows(more)
  BY DEF AddDay
<1>6. \A j \in DOMAIN rows : rows[j].weekday # row.weekday
  <2>1. 0 \notin DOMAIN rows
    BY <1>1, PanelIsSeq
  <2> QED BY <1>3, <1>4, <2>1 DEF Taken
<1> HIDE DEF row
<1>7. Panel(more) /\ Len(more) = Len(rows) + 1
  BY <1>1, <1>4, <1>6, AddKeeps
<1> HIDE DEF more
<1>8. Enough(more, counted)
  BY <1>1, <1>2, <1>7 DEF Enough
<1> QED BY <1>5, <1>7, <1>8, ChangeRowsEdits

(* Nor does picking a time in the plan of the week.                        *)
LEMMA PickRepeatTimeEdits ==
  ASSUME FormInv, at' = "book", NEW w, NEW t, PickRepeatTime(w, t) PROVE Edits
<1>1. Panel(rows) /\ Enough(rows, counted)
  BY DEF FormInv, RowsInv
<1>2. Len(rows) \in Nat /\ DOMAIN rows = 1 .. Len(rows)
  BY <1>1, PanelIsSeq
<1> DEFINE Moved(i) == IF rows[i].weekday = w THEN [rows[i] EXCEPT !.time = t] ELSE rows[i]
           moved == [i \in DOMAIN rows |-> Moved(i)]
           S == {Moved(i) : i \in DOMAIN rows}
<1>3. ChangeRows(moved)
  BY DEF PickRepeatTime
<1>4. \A i \in DOMAIN rows : /\ DOMAIN Moved(i) = RowFields
                             /\ Moved(i).weekday = rows[i].weekday
  BY <1>1 DEF Panel, RowFields
<1>5. \A i \in DOMAIN rows : Moved(i) \in S
  OBVIOUS
<1> HIDE DEF Moved, S
<1>6. moved \in [1 .. Len(rows) -> S]
  BY <1>2, <1>5
<1>7. moved \in Seq(S) /\ Len(moved) = Len(rows)
  BY <1>2, <1>6, SeqOfFunction
<1>8. \A i \in DOMAIN rows : moved[i] = Moved(i)
  OBVIOUS
<1>9. DOMAIN moved = DOMAIN rows
  OBVIOUS
<1> HIDE DEF moved
<1>10. ~RowsRepeat(moved)
  BY <1>1, <1>4, <1>8, <1>9 DEF Panel, RowsRepeat
<1>11. \A i \in DOMAIN moved : DOMAIN moved[i] = RowFields
  BY <1>4, <1>8, <1>9
<1>12. Panel(moved) /\ Enough(moved, counted)
  BY <1>1, <1>7, <1>10, <1>11 DEF Panel, Enough
<1> QED BY <1>3, <1>12, ChangeRowsEdits

(* Whatever the person does at the form is one of the first three.         *)
LEMMA PersonActsIsOneOfThem ==
  ASSUME FormInv, PersonActs, at = "book", UNCHANGED deskVars
  PROVE  Rests \/ Edits \/ Sends
<1>1. at' = "book"
  BY DEF deskVars
<1>2. ASSUME NEW patch \in Patches, Fill(patch) PROVE Rests \/ Edits
  BY <1>1, <1>2, FillRestsOrEdits
<1>3. ASSUME NEW s \in Students, ChooseStudent(s) \/ RemoveStudent(s) PROVE Edits
  BY <1>1, <1>3, ChangeRosterEdits DEF ChooseStudent, RemoveStudent
<1>4. ASSUME NEW n \in Counts, EditCount(n) PROVE Edits
  BY <1>1, <1>4, EditCountEdits
<1>5. ASSUME NEW i \in DOMAIN rows,
             \/ RemoveDay(i)
             \/ \E w \in 1 .. 7 : EditWeekday(i, w)
             \/ \E t \in Times : EditRowTime(i, t)
             \/ \E d \in SelectableDurations : EditRowLength(i, d)
      PROVE  Edits
  BY <1>1, <1>5, RemoveDayEdits, RowEditsEdit
<1>6. ASSUME AddDay \/ \E w \in 1 .. 7, t \in Times : PickRepeatTime(w, t) PROVE Edits
  BY <1>1, <1>6, AddDayEdits, PickRepeatTimeEdits
<1>7. ASSUME LoadMoreDays PROVE Edits
  BY <1>1, <1>7, LoadMoreDaysEdits
<1>8. ASSUME NEW picked, DOMAIN picked \subseteq Pickable, Picks(picked) PROVE Sends
  BY <1>1, <1>8 DEF Picks, Click, Submit, Sends
<1>9. DOMAIN <<>> \subseteq Pickable
  OBVIOUS
<1>10. ASSUME NEW override \in BOOLEAN, Book(override) PROVE Sends
  BY <1>1, <1>9, <1>10 DEF Book, Click, Submit, Sends
<1>11. ASSUME NEW day, PickDate(day) PROVE Sends
  BY <1>8, <1>11 DEF PickDate, Pickable
<1>12. ASSUME NEW who, PickInstructor(who) PROVE Sends
  BY <1>8, <1>12 DEF PickInstructor, Pickable
<1>13. ASSUME NEW i, PickTime(i) PROVE Sends
  BY <1>8, <1>13 DEF PickTime, Pickable
<1>14. ASSUME ClearInstructor PROVE Sends
  BY <1>8, <1>14 DEF ClearInstructor, Pickable
<1>15. ASSUME Preview PROVE Sends
  BY <1>8, <1>9, <1>15 DEF Preview
<1> QED BY <1>2, <1>3, <1>4, <1>5, <1>6, <1>7, <1>10, <1>11, <1>12, <1>13, <1>14, <1>15
        DEF PersonActs

(* Every step of the system is one of the five.                            *)
LEMMA StepIsOneOfThem ==
  ASSUME FormInv, Next
  PROVE  Rests \/ Edits \/ Sends \/ Serves \/ Opens
<1>1. ASSUME UNCHANGED form, at # "book" \/ at' = "book",
             UNCHANGED <<world, elsewhere>> \/ elsewhere' = elsewhere + 1
      PROVE  Rests
  BY <1>1 DEF Rests, FormInv, FieldsInv, form
<1>2. ASSUME AtScreen PROVE Rests \/ Opens
  <2>0. ASSUME Click, UNCHANGED form, at # "book" \/ at' = "book" PROVE Rests
    BY <1>1, <2>0 DEF Click
  <2>1. ASSUME NEW screen \in Screens, Visit(screen) PROVE Rests
    BY <2>0, <2>1 DEF Visit, Open
  <2>2. ASSUME NEW screen \in Screens, LeaveForm(screen) PROVE Opens
    BY <2>2 DEF LeaveForm, Open, Click, Opens
  <2>3. ASSUME NEW link \in Links, FollowLink(link) PROVE Rests
    BY <2>0, <2>3 DEF FollowLink, Screens
  <2>4. ASSUME NEW query, Apply(query) PROVE Rests
    BY <2>0, <2>4 DEF Apply
  <2>5. ASSUME NEW params, Submitted(params) PROVE Rests
    BY <2>4, <2>5 DEF Submitted
  <2>6. ASSUME NEW picked \in DrawerPicks, ApplyDrawer(picked) PROVE Rests
    BY <2>5, <2>6 DEF ApplyDrawer
  <2>7. ASSUME NEW text \in Texts, Search(text) PROVE Rests
    BY <2>5, <2>7 DEF Search
  <2>8. ASSUME NEW ticks \in Ticks, CloseMenu(ticks) PROVE Rests
    BY <2>5, <2>8 DEF CloseMenu
  <2>9. ASSUME Reset PROVE Rests
    BY <2>4, <2>9 DEF Reset
  <2>10. ASSUME NEW move \in GoToMoves, GoTo(move) PROVE Rests
    BY <2>5, <2>10 DEF GoTo
  <2>11. ASSUME NEW n \in Turns, TurnPage(n) PROVE Rests
    BY <2>5, <2>11 DEF TurnPage
  <2>12. ASSUME Export PROVE Rests
    BY <2>0, <2>12 DEF Export
  <2>13. ASSUME OpenBooking PROVE Opens
    <3>1. at # "book" /\ OpenForm /\ UNCHANGED elsewhere
      BY <2>13 DEF OpenBooking, Click
    <3>2. ~Waiting
      BY <3>1 DEF FormInv, QueueInv, Waiting
    <3> QED BY <3>1, <3>2 DEF Opens
  <2> QED BY <1>2, <2>1, <2>2, <2>3, <2>6, <2>7, <2>8, <2>9, <2>10, <2>11, <2>12, <2>13
          DEF AtScreen
<1>3. ASSUME AtForm PROVE Rests \/ Edits \/ Sends \/ Serves
  <2>1. at = "book" /\ at' = "book" /\ UNCHANGED deskVars
    BY <1>3 DEF AtForm, deskVars
  <2>2. ASSUME PersonActs PROVE Rests \/ Edits \/ Sends
    BY <2>1, <2>2, PersonActsIsOneOfThem
  <2>3. ASSUME TimerFires PROVE Sends
    BY <2>1, <2>3 DEF TimerFires, Submit, Sends
  <2>4. ASSUME Serve PROVE Serves
    BY <2>1, <2>4 DEF Serves
  <2> QED BY <1>3, <2>2, <2>3, <2>4 DEF AtForm
<1>4. ASSUME FinishBooking PROVE Opens
  BY <1>4 DEF FinishBooking, Opens
<1>5. ASSUME OtherPeople PROVE Rests
  BY <1>1, <1>5 DEF OtherPeople, Elsewhere, deskVars
<1>6. ASSUME NEW held \in TabWrites, OtherTab(held.screen, held.query) PROVE Rests
  BY <1>1, <1>6 DEF OtherTab
<1> QED BY <1>2, <1>3, <1>4, <1>5, <1>6 DEF Next

-----------------------------------------------------------------------------
(* Each of the five keeps the invariant.                                   *)

(* What the server is asked does not depend on the fields that never ask.  *)
LEMMA AskedAlike ==
  ASSUME NEW d, NEW e, DOMAIN d = Fields, DOMAIN e = Fields,
         \A field \in Refreshing : e[field] = d[field],
         NEW chips, NEW rs, NEW days, NEW n
  PROVE  Asked(Resent(e, chips, rs, days, n)) = Asked(Resent(d, chips, rs, days, n))
<1> DEFINE one == Resent(d, chips, rs, days, n)
           two == Resent(e, chips, rs, days, n)
<1>1. /\ \A field \in Fields : one[field] = d[field]
      /\ one.students = chips /\ one.rows = rs /\ one.matrixDays = days /\ one.count = n
  BY ResentHas
<1>2. /\ \A field \in Fields : two[field] = e[field]
      /\ two.students = chips /\ two.rows = rs /\ two.matrixDays = days /\ two.count = n
  BY ResentHas
<1> HIDE DEF one, two
<1>3. \A field \in Refreshing : two[field] = one[field]
  BY <1>1, <1>2 DEF Refreshing, Fields
<1>4. /\ two.date = one.date /\ two.time = one.time /\ two.duration = one.duration
      /\ two.instructor = one.instructor /\ two.school = one.school /\ two.group = one.group
  BY <1>3 DEF Refreshing
<1>5. Asked(two) = Asked(one)
  BY <1>1, <1>2, <1>4 DEF Asked
<1> QED BY <1>5 DEF one, two

(* A step that leaves the form alone leaves its answer the answer.         *)
LEMMA RestsKeeps ==
  ASSUME FormInv, Rests PROVE FormInv'
<1>1. FieldsInv'
  <2>1. dom'["school"] = dom["school"]
    BY DEF Rests, Refreshing
  <2> QED BY <2>1 DEF Rests, FormInv, FieldsInv
<1>2. QueueInv' /\ RowsInv' /\ CountInv' /\ NewestInv'
  BY DEF Rests, FormInv, QueueInv, RowsInv, CountInv, NewestInv, Newest, Counted
<1>3. QuietFormIsAnswered'
  <2> SUFFICES ASSUME ~timer', ~Waiting', elsewhere' = 0
               PROVE  Drawn(state'.context)
                        = Drawn(BookingContext(world', Asked(Snapshot("refresh", FALSE)')))
    BY DEF QuietFormIsAnswered
  <2>1. UNCHANGED <<world, elsewhere>>
    BY DEF Rests, FormInv, RestInv
  <2>2. Drawn(state.context) = Drawn(BookingContext(world, Asked(Snapshot("refresh", FALSE))))
    BY <2>1 DEF Rests, FormInv, RestInv, QuietFormIsAnswered, Waiting
  <2>3. Snapshot("refresh", FALSE)' = Resent(dom', students, rows, matrixDays, Counted)
    BY DEF Rests, Snapshot, Resent, Counted
  <2>4. DOMAIN dom = Fields /\ DOMAIN dom' = Fields
    BY DEF Rests, FormInv, FieldsInv
  <2>5. \A field \in Refreshing : dom'[field] = dom[field]
    BY DEF Rests
  <2>6. Asked(Resent(dom', students, rows, matrixDays, Counted))
          = Asked(Resent(dom, students, rows, matrixDays, Counted))
    BY <2>4, <2>5, AskedAlike
  <2>7. Asked(Snapshot("refresh", FALSE)') = Asked(Snapshot("refresh", FALSE))
    BY <2>3, <2>6, RefreshIsResent
  <2>8. state' = state
    BY DEF Rests
  <2> QED BY <2>1, <2>2, <2>7, <2>8
<1>4. RestInv'
  BY <1>3 DEF Rests, FormInv, RestInv, RowsAlwaysAccepted
<1> QED BY <1>1, <1>2, <1>4 DEF FormInv

(* A change only has to leave the fields and the rows in order.            *)
LEMMA EditsKeeps ==
  ASSUME FormInv, Edits PROVE FormInv'
<1>1. FieldsInv' /\ RowsInv'
  BY DEF Edits
<1>2. QueueInv' /\ CountInv' /\ NewestInv'
  BY DEF Edits, FormInv, QueueInv, CountInv, NewestInv, Newest
<1>3. RestInv'
  BY DEF Edits, FormInv, RestInv, RowsAlwaysAccepted, QuietFormIsAnswered
<1> QED BY <1>1, <1>2, <1>3 DEF FormInv

(* Rows of the panel, sent with the number they go with, fit.              *)
LEMMA PanelFits ==
  ASSUME NEW f, Panel(f.rows), NEW n \in Int, Enough(f.rows, n), f.count \in {1, n}
  PROVE  RowsFit(f)
<1> SUFFICES ASSUME f.count > 1
             PROVE  ~RowsRepeat(f.rows) /\ ~(Len(f.rows) > MaxRepeatDays(f.count))
  BY DEF RowsFit
<1>1. f.count = n /\ n > 1
  OBVIOUS
<1>2. MaxRepeatDays(n) \in 1 .. 7 /\ Len(f.rows) \in 1 .. MaxRepeatDays(n)
  BY <1>1, MostIsPositive DEF Enough
<1> QED BY <1>1, <1>2 DEF Panel

(* What is sent fits, and is the form as it stands.                        *)
LEMMA SendsKeeps ==
  ASSUME FormInv, Sends PROVE FormInv'
<1>1. FieldsInv' /\ RowsInv'
  BY DEF Sends, FormInv, FieldsInv, RowsInv
<1>2. PICK S : queue \in Seq(S)
  BY DEF FormInv, QueueInv
<1>3. PICK picked : \E step \in {"refresh", "preview", "confirm"}, override \in BOOLEAN :
        /\ DOMAIN picked \subseteq Pickable
        /\ queue' = Append(queue, Over(picked, Snapshot(step, override)))
        /\ step = "refresh" => sentCount' = counted
  <2>1. DOMAIN <<>> \subseteq Pickable
    OBVIOUS
  <2> QED BY <2>1 DEF Sends
<1>4. PICK step \in {"refresh", "preview", "confirm"} : \E override \in BOOLEAN :
        /\ DOMAIN picked \subseteq Pickable
        /\ queue' = Append(queue, Over(picked, Snapshot(step, override)))
        /\ step = "refresh" => sentCount' = counted
  BY <1>3
<1>5. PICK override \in BOOLEAN :
        /\ DOMAIN picked \subseteq Pickable
        /\ queue' = Append(queue, Over(picked, Snapshot(step, override)))
        /\ step = "refresh" => sentCount' = counted
  BY <1>4
<1> DEFINE sent == Over(picked, Snapshot(step, override))
<1>6. /\ sent.step = step /\ sent.school = dom.school /\ sent.students = students
      /\ sent.rows = rows /\ sent.count = Counted
  BY <1>5, SubmissionCarries DEF FormInv, FieldsInv
<1>7. queue' = Append(queue, sent)
  BY <1>5
<1> HIDE DEF sent
<1>8. queue' \in Seq(S \cup {sent}) /\ queue' # <<>> /\ Newest' = sent
  BY <1>2, <1>7, Sent DEF Newest
<1>9. QueueInv'
  BY <1>8 DEF QueueInv, Sends
<1>10. CountInv'
  BY <1>5, <1>6, <1>8 DEF CountInv, Sends, Counted
<1>11. NewestInv'
  <2>1. RowsFit(sent)
    <3>1. sent.count \in {1, counted} /\ counted \in Int
      BY <1>6 DEF Counted, FormInv, RowsInv
    <3>2. Panel(sent.rows) /\ Enough(sent.rows, counted)
      BY <1>6 DEF FormInv, RowsInv
    <3> QED BY <3>1, <3>2, PanelFits
  <2>2. sent.school \in MySchools \cup {None} /\ sent.count \in Int
    BY <1>6 DEF FormInv, FieldsInv, RowsInv, Counted
  <2>3. sent.students = students' /\ sent.rows = rows' /\ sent.count = Counted'
    BY <1>6 DEF Sends, Counted
  <2> QED BY <1>8, <2>1, <2>2, <2>3 DEF NewestInv
<1>12. RestInv'
  BY <1>8 DEF Sends, FormInv, RestInv, RowsAlwaysAccepted, QuietFormIsAnswered, Waiting
<1> QED BY <1>1, <1>9, <1>10, <1>11, <1>12 DEF FormInv

(* The select of schools shows one of the viewer's own, or none.           *)
LEMMA RestoredSchool ==
  ASSUME NEW answer PROVE Restored(answer).school \in MySchools \cup {None}
BY DEF Restored, Shown

(* An answer to a form that is asked about as it stands, or as the first   *)
(* paint asks, and whose rows and number go together.                      *)
Settled(answer, w) ==
  /\ AnswersTo(answer, w)
  /\ Panel(answer.values.rows) /\ answer.values.count \in Int
  /\ Enough(answer.values.rows, answer.values.count)
  /\ answer.error \notin RowRefusals

(* The first paint is such an answer.                                      *)
LEMMA FirstPaintSettles == ASSUME NEW w PROVE Settled(FirstPaint(w), w)
<1> DEFINE f == FirstValues
           asked == [Asked(f) EXCEPT !.time = Grid.openTime]
           answer == FirstPaint(w)
<1>1. /\ answer.values = f /\ answer.context = BookingContext(w, asked)
      /\ answer.error = None
  BY DEF FirstPaint
<1>2. f.date = None /\ f.school = None /\ f.rows = <<>> /\ f.count = 1
  BY DEF FirstValues
<1> HIDE DEF f, answer
<1>3. Panel(f.rows) /\ Enough(f.rows, f.count)
  BY <1>2, NoRows DEF Enough
<1>4. answer.error \notin RowRefusals
  BY <1>1, NothingRefused
<1>5. AskedOf(asked, f)
  BY <1>2 DEF AskedOf
<1>6. Settled(answer, w)
  BY <1>1, <1>2, <1>3, <1>4, <1>5 DEF Settled, AnswersTo
<1> QED BY <1>6 DEF answer

(* So is the answer a half-filled form was painted with.                   *)
LEMMA HalfFilledSettles == ASSUME NEW w PROVE Settled(BookingStep(w, HalfFilled), w)
<1> DEFINE f == HalfFilled
           S == [weekday : 1 .. 7, length : Nat, time : 0 .. DayLen - 1]
<1>1. /\ f.count \in Nat /\ f.school \in MySchools \cup {None} /\ f.rows \in Seq(S)
      /\ ~RowsRepeat(f.rows) /\ (f.count > 1 => Len(f.rows) \in 1 .. MaxRepeatDays(f.count))
  BY HalfFilledAssumption
<1>2. \A row \in S : DOMAIN row = RowFields
  BY DEF RowFields
<1> HIDE DEF f, S
<1>3. DOMAIN f.rows = 1 .. Len(f.rows)
  BY <1>1, LenProperties
<1>4. \A i \in DOMAIN f.rows : f.rows[i] \in S
  BY <1>1, <1>3, ElementOfSeq
<1>5. Panel(f.rows)
  BY <1>1, <1>2, <1>4 DEF Panel
<1>6. Enough(f.rows, f.count) /\ f.count \in Int
  BY <1>1 DEF Enough
<1>7. RowsFit(f)
  BY <1>5, <1>6, PanelFits
<1>8. /\ BookingStep(w, f).values = f /\ BookingStep(w, f).context = BookingContext(w, Asked(f))
      /\ BookingStep(w, f).error \notin RowRefusals
  BY <1>7, AnswerEchoes, AnswerContext, AnswerErrorOfRows
<1>9. Settled(BookingStep(w, f), w)
  BY <1>1, <1>5, <1>6, <1>8 DEF Settled, AnswersTo, AskedOf
<1> QED BY <1>9 DEF f

(* A form that rests at such an answer shows the answer to itself.         *)
LEMMA SettledIsAnswered ==
  ASSUME NEW w, NEW answer, Settled(answer, w)
  PROVE  ShowsItself(w, answer, answer.values.rows,
                     IF answer.values.date = None THEN 1 ELSE answer.values.count)
<1> DEFINE n == IF answer.values.date = None THEN 1 ELSE answer.values.count
<1>1. AnswersTo(answer, w) /\ GoesWith(answer, answer.values.rows, n)
  BY DEF Settled, GoesWith
<1> HIDE DEF n
<1>2. ShowsItself(w, answer, answer.values.rows, n)
  BY <1>1, RestIsAnswered
<1> QED BY <1>2 DEF n

(* A form at rest, whichever answer left it so.                            *)
LEMMA InitFormInv ==
  ASSUME NEW answer, InitForm(AtRest(answer)), Settled(answer, world), elsewhere \in Nat
  PROVE  FormInv
<1>1. /\ state = answer /\ dom = Restored(answer) /\ students = answer.values.students
      /\ counted = answer.values.count /\ sentCount = None /\ rows = answer.values.rows
      /\ matrixDays = answer.context.matrixDays /\ timer = FALSE /\ queue = <<>>
  BY DEF InitForm, AtRest
<1>2. FieldsInv
  BY <1>1, RestoredFields, RestoredSchool DEF FieldsInv
<1>3. queue \in Seq({})
  BY <1>1, EmptySeq
<1>4. QueueInv /\ CountInv /\ NewestInv
  BY <1>1, <1>3 DEF QueueInv, CountInv, NewestInv
<1>5. RowsInv
  BY <1>1 DEF RowsInv, Settled
<1>6. Snapshot("refresh", FALSE)
        = Resent(Restored(answer), answer.values.students, answer.values.rows,
                 answer.context.matrixDays,
                 IF answer.values.date = None THEN 1 ELSE answer.values.count)
  BY <1>1 DEF Snapshot, Resent
<1>7. QuietFormIsAnswered
  BY <1>1, <1>6, SettledIsAnswered DEF QuietFormIsAnswered, ShowsItself
<1>8. RestInv
  BY <1>1, <1>7 DEF RestInv, RowsAlwaysAccepted, Settled
<1> QED BY <1>2, <1>4, <1>5, <1>8 DEF FormInv

(* A form opened afresh is at rest.                                        *)
LEMMA OpensKeeps ==
  ASSUME FormInv, Opens PROVE FormInv'
<1> DEFINE answer == FirstPaint(world')
<1>1. Settled(answer, world')
  BY FirstPaintSettles
<1>2. /\ state' = answer /\ dom' = Restored(answer) /\ students' = answer.values.students
      /\ counted' = answer.values.count /\ sentCount' = None /\ rows' = answer.values.rows
      /\ matrixDays' = answer.context.matrixDays /\ timer' = FALSE /\ queue' = <<>>
      /\ elsewhere' = elsewhere
  BY DEF Opens, OpenForm, Opened, AtRest
<1> HIDE DEF answer
<1>3. FieldsInv'
  BY <1>2, RestoredFields, RestoredSchool DEF FieldsInv
<1>4. queue' \in Seq({})
  BY <1>2, EmptySeq
<1>5. QueueInv' /\ CountInv' /\ NewestInv'
  BY <1>2, <1>4 DEF QueueInv, CountInv, NewestInv
<1>6. RowsInv'
  BY <1>1, <1>2 DEF RowsInv, Settled
<1>7. Snapshot("refresh", FALSE)'
        = Resent(Restored(answer), answer.values.students, answer.values.rows,
                 answer.context.matrixDays,
                 IF answer.values.date = None THEN 1 ELSE answer.values.count)
  BY <1>2 DEF Snapshot, Resent
<1>8. QuietFormIsAnswered'
  BY <1>1, <1>2, <1>7, SettledIsAnswered DEF QuietFormIsAnswered, ShowsItself
<1>9. RestInv'
  BY <1>1, <1>2, <1>8 DEF FormInv, RestInv, RowsAlwaysAccepted, Settled
<1> QED BY <1>3, <1>5, <1>6, <1>9 DEF FormInv

(* The last answer is painted whole, over fields nobody touched since.     *)
LEMMA ServesKeeps ==
  ASSUME FormInv, Serves
  PROVE  FormInv' /\ (state' # state /\ Head(queue).step = "refresh"
                       /\ state.values.date # None => counted' = counted)
<1>1. PICK S : queue \in Seq(S)
  BY DEF FormInv, QueueInv
<1>2. /\ queue # <<>> /\ queue' = Tail(queue) /\ at' = "book" /\ UNCHANGED <<world, elsewhere>>
      /\ Answered(ServerAnswer)
  BY DEF Serves, Serve, Waiting, Answered
<1>3. queue' \in Seq(S)
  BY <1>1, <1>2, Served
<1>4. CASE Len(queue) = 1
  <2> DEFINE req == Head(queue)
             answer == ServerAnswer
  <2>1. queue' = <<>> /\ Newest = req
    BY <1>1, <1>2, <1>4, Served DEF Newest
  <2>2. /\ RowsFit(req) /\ req.school \in MySchools \cup {None} /\ req.count \in Int
        /\ ~timer => req.students = students /\ req.rows = rows /\ req.count = Counted
    BY <1>2, <2>1 DEF FormInv, NewestInv
  <2>3. /\ answer.values = req /\ answer.context = BookingContext(world, Asked(req))
        /\ answer.error \notin RowRefusals
    BY <2>2, AnswerEchoes, AnswerContext, AnswerErrorOfRows DEF ServerAnswer
  <2>4. Commit(answer)
    BY <1>2, <1>4 DEF Answered
  <2> HIDE DEF answer, req
  <2>5. /\ state' = answer /\ dom' = Restored(answer) /\ counted' = CountAfter(answer)
        /\ sentCount' = None /\ matrixDays' = answer.context.matrixDays
        /\ timer' = (timer \/ students' # students)
        /\ rows' = Reconcile(rows, Anchor(state, counted), Anchor(answer, counted'))
    BY <2>4 DEF Commit
  <2>6. FieldsInv'
    BY <2>5, RestoredFields, RestoredSchool DEF FieldsInv
  <2>7. QueueInv' /\ CountInv' /\ NewestInv'
    BY <1>2, <1>3, <2>1 DEF QueueInv, CountInv, NewestInv
  <2>8. ~timer => counted' = req.count
    <3> SUFFICES ASSUME ~timer PROVE counted' = req.count
      OBVIOUS
    <3>1. req.count = Counted /\ sentCount \in {None, counted} /\ counted \in Int
      BY <2>2 DEF FormInv, RestInv, RowsInv
    <3>2. None # 1
      BY ControlsAssumption
    <3> QED BY <2>3, <2>5, <3>1, <3>2 DEF CountAfter, Counted
  <2>9. RowsInv'
    <3>1. Panel(rows) /\ Enough(rows, counted) /\ counted \in Int
      BY DEF FormInv, RowsInv
    <3>2. counted' \in Int
      BY <2>2, <2>3, <2>5, <3>1 DEF CountAfter
    <3>3. Anchor(state, counted).count = counted /\ Anchor(answer, counted').count = counted'
      BY DEF Anchor
    <3>4. Panel(rows') /\ Enough(rows', counted')
      BY <2>5, <3>1, <3>2, <3>3, ReconcileKeeps
    <3> QED BY <3>2, <3>4 DEF RowsInv
  <2>10. ASSUME ~timer', elsewhere' = 0
         PROVE  Drawn(state'.context)
                  = Drawn(BookingContext(world', Asked(Snapshot("refresh", FALSE)')))
    <3>1. ~timer /\ students' = students
      BY <2>5, <2>10
    <3> DEFINE n == IF req.date = None THEN 1 ELSE counted'
    <3>2. Snapshot("refresh", FALSE)'
            = Resent(Restored(answer), req.students, rows', answer.context.matrixDays, n)
      <4>1. students' = req.students
        BY <2>2, <3>1
      <4> QED BY <2>3, <2>5, <4>1 DEF Snapshot, Resent
    <3>3. req.date # None => n = req.count /\ (n > 1 => (rows' = <<>> <=> req.rows = <<>>))
      <4> SUFFICES ASSUME req.date # None
                   PROVE  n = req.count /\ (n > 1 => (rows' = <<>> <=> req.rows = <<>>))
        OBVIOUS
      <4>1. n = counted' /\ counted' = req.count
        BY <2>8, <3>1
      <4>2. ASSUME n > 1 PROVE rows' # <<>> /\ req.rows # <<>>
        <5>1. Enough(rows', counted') /\ Panel(rows') /\ counted' \in Int
          BY <2>9 DEF RowsInv
        <5>2. Enough(rows, counted) /\ counted \in Int /\ req.rows = rows /\ req.count = Counted
          BY <2>2, <3>1 DEF FormInv, RowsInv
        <5>3. counted > 1
          BY <4>1, <4>2, <5>2 DEF Counted
        <5>4. Len(rows) # 0 /\ Len(rows') # 0
          <6>1. /\ MaxRepeatDays(counted) \in 1 .. 7 /\ MaxRepeatDays(counted') \in 1 .. 7
            BY <5>1, <5>2, MostIsPositive
          <6> QED BY <4>1, <4>2, <5>1, <5>2, <5>3, <6>1 DEF Enough
        <5>5. Len(<<>>) = 0
          OBVIOUS
        <5> QED BY <5>2, <5>4, <5>5
      <4> QED BY <4>1, <4>2
    <3> HIDE DEF n
    <3>4. ShowsItself(world, answer, rows', n)
      <4> DEFINE left == rows'
      <4>1. AnswersTo(answer, world)
        BY <2>2, <2>3 DEF AnswersTo, AskedOf
      <4>2. GoesWith(answer, left, n)
        BY <2>3, <3>3 DEF GoesWith
      <4> HIDE DEF left
      <4>3. ShowsItself(world, answer, left, n)
        BY <4>1, <4>2, RestIsAnswered
      <4> QED BY <4>3 DEF left
    <3> QED BY <1>2, <2>3, <2>5, <3>2, <3>4 DEF ShowsItself
  <2>11. timer' \in BOOLEAN
    BY <2>5 DEF FormInv, RestInv
  <2>12. RestInv'
    BY <1>2, <2>3, <2>5, <2>10, <2>11
       DEF FormInv, RestInv, RowsAlwaysAccepted, QuietFormIsAnswered
  <2>13. ASSUME req.step = "refresh", state.values.date # None PROVE counted' = counted
    <3>1. answer.values.count = sentCount
      BY <1>2, <2>1, <2>3, <2>13 DEF FormInv, CountInv
    <3> QED BY <2>5, <3>1 DEF CountAfter
  <2> QED BY <2>6, <2>7, <2>9, <2>12, <2>13 DEF FormInv, req
<1>5. CASE Len(queue) # 1
  <2>1. UNCHANGED <<dom, students, counted, sentCount, rows, matrixDays, timer, state>>
    BY <1>2, <1>5 DEF Answered
  <2>2. Newest' = Newest
    BY <1>1, <1>2, <1>5, Served DEF Newest
  <2>3. queue' # <<>>
    BY <1>1, <1>2, <1>5, Served
  <2>4. FieldsInv' /\ QueueInv' /\ RowsInv'
    BY <1>2, <1>3, <2>1 DEF FormInv, FieldsInv, QueueInv, RowsInv
  <2>5. CountInv' /\ NewestInv'
    BY <1>2, <2>1, <2>2 DEF FormInv, CountInv, NewestInv, Counted
  <2>6. RestInv'
    BY <1>2, <2>1, <2>3
       DEF FormInv, RestInv, RowsAlwaysAccepted, QuietFormIsAnswered, Waiting
  <2> QED BY <2>1, <2>4, <2>5, <2>6 DEF FormInv
<1> QED BY <1>4, <1>5

(* The invariant holds.                                                    *)
LEMMA FormHolds == Spec => []FormInv
<1>1. Init => FormInv
  <2> SUFFICES ASSUME Init PROVE FormInv
    OBVIOUS
  <2>1. PICK answer : InitForm(AtRest(answer)) /\ Settled(answer, world)
    BY FirstPaintSettles, HalfFilledSettles DEF Init
  <2>2. elsewhere \in Nat
    BY DEF Init
  <2> QED BY <2>1, <2>2, InitFormInv
<1>2. FormInv /\ [Next]_vars => FormInv'
  <2> SUFFICES ASSUME FormInv, [Next]_vars PROVE FormInv'
    OBVIOUS
  <2>1. CASE UNCHANGED vars
    <3>1. UNCHANGED <<world, dom, students, counted, sentCount, rows, matrixDays, timer, queue,
                      state, elsewhere, at>>
      BY <2>1 DEF vars, formVars, form, deskVars
    <3>2. Snapshot("refresh", FALSE)' = Snapshot("refresh", FALSE)
      BY <3>1 DEF Snapshot
    <3>3. RestInv'
      BY <3>1, <3>2 DEF FormInv, RestInv, RowsAlwaysAccepted, QuietFormIsAnswered, Waiting
    <3> QED BY <3>1, <3>3
            DEF FormInv, FieldsInv, QueueInv, RowsInv, CountInv, NewestInv, Newest, Counted
  <2>2. CASE Next
    BY <2>2, StepIsOneOfThem, RestsKeeps, EditsKeeps, SendsKeeps, ServesKeeps, OpensKeeps
  <2> QED BY <2>1, <2>2
<1> QED BY <1>1, <1>2, PTL DEF Spec

(* A form at rest shows the answer to itself: for any rows, roster, patch, *)
(* order of answers and number of people elsewhere, once nothing waits and *)
(* nothing is under way, asking again would draw the same candidates, days *)
(* and times.                                                              *)
THEOREM QuietAlwaysAnswered == Spec => []QuietFormIsAnswered
<1>1. FormInv => QuietFormIsAnswered
  BY DEF FormInv, RestInv
<1> QED BY <1>1, FormHolds, PTL

(* Whatever is edited while answers are awaited, the repeat panel never    *)
(* sends rows the action refuses: not two on one weekday, and not more of  *)
(* them than the run has sessions.                                         *)
THEOREM RowsNeverRefused == Spec => []RowsAlwaysAccepted
<1>1. FormInv => RowsAlwaysAccepted
  BY DEF FormInv, RestInv
<1> QED BY <1>1, FormHolds, PTL

(* Whatever is typed while an answer is under way, and however many are,   *)
(* the answer to a refresh never puts the number of sessions back: in      *)
(* every office, for any values its controls offer.                        *)
THEOREM CountSurvives == Spec => CountEditSurvives
<1>1. FormInv /\ [Next]_vars =>
        [(Waiting /\ Head(queue).step = "refresh" /\ state' # state
          /\ state.values.date # None /\ Head(queue).date # None)
           => counted' = counted]_formVars
  <2> SUFFICES ASSUME FormInv, Next,
                      Waiting, Head(queue).step = "refresh", state' # state,
                      state.values.date # None
               PROVE  counted' = counted
    BY DEF vars
  <2>1. CASE Rests
    BY <2>1 DEF Rests
  <2>2. CASE Edits
    BY <2>2 DEF Edits
  <2>3. CASE Sends
    BY <2>3 DEF Sends
  <2>4. CASE Serves
    BY <2>4, ServesKeeps
  <2>5. CASE Opens
    BY <2>5 DEF Opens
  <2> QED BY <2>1, <2>2, <2>3, <2>4, <2>5, StepIsOneOfThem
<1> QED BY <1>1, FormHolds, PTL DEF Spec, CountEditSurvives
-----------------------------------------------------------------------------
(* The days and times of day a form holds.                                 *)

Days == Int \cup {None}
ClockTimes == 0 .. DayLen - 1

OnTheClock(rs) == \E S : rs \in Seq(S) /\ \A row \in S : row.time \in ClockTimes

(* Fields the parsers would let through.                                   *)
Timed(f) == /\ f.date \in Days /\ f.time \in ClockTimes /\ f.duration \in Int
            /\ f.count \in Int /\ OnTheClock(f.rows)

(* The days and times a person may pick from what an answer draws.         *)
DrawsTimes(context) ==
  /\ context.openings # <<>> => DOMAIN context.openings \subseteq Int
  /\ context.suggestions # None =>
       \A who \in DOMAIN context.suggestions.free : \A i \in context.suggestions.free[who] :
         context.suggestions.columns[i] \in ClockTimes

(* Every date and time of the form is one: in the page, in the panel, in   *)
(* the answer painted, in what it offers and in all that is under way.     *)
ClockInv ==
  /\ world.now \in Int
  /\ dom.date \in Days /\ dom.time \in ClockTimes /\ dom.duration \in Int
  /\ OnTheClock(rows)
  /\ Timed(state.values) /\ DrawsTimes(state.context)
  /\ \E S : queue \in Seq(S) /\ \A f \in S : Timed(f)

(* Day by day, the list of openings is about days.                         *)
LEMMA OpeningDays ==
  ASSUME NEW rules, NEW candidates, NEW start \in Int, NEW days, NEW duration, NEW busy
  PROVE  DOMAIN Openings(rules, candidates, start, days, duration, busy) \subseteq Int
BY DEF Openings, Roomy

(* The columns of a grid are times of day.                                 *)
LEMMA ColumnTimes ==
  ASSUME NEW rules, NEW candidates, NEW day \in Int, NEW from \in Int, NEW duration,
         NEW z \in Zones, NEW columns, NEW step \in Int, NEW busy
  PROVE  LET g == DayGrid(rules, candidates, day, from, duration, z, columns, step, busy)
         IN  \A who \in DOMAIN g.free : \A i \in g.free[who] : g.columns[i] \in ClockTimes
<1> DEFINE slots == GridColumns(day, from, z, columns, step)
           resolved == ResolveRange(rules, candidates, day, 1)
           g == Cells(slots, resolved, candidates, day, duration, z, busy)
<1>1. At(day, from, z) \in Int
  BY ResolvedAt
<1>2. \A i \in DOMAIN slots : slots[i] \in Int
  BY <1>1 DEF GridColumns
<1> HIDE DEF slots, resolved
<1>3. /\ g.columns = [i \in DOMAIN slots |-> CivilTimeOf(slots[i], z)]
      /\ DOMAIN g.free = candidates
      /\ \A who \in candidates : g.free[who] \subseteq DOMAIN slots
  BY DEF Cells
<1>4. \A i \in DOMAIN slots : CivilTimeOf(slots[i], z) \in ClockTimes
  <2> SUFFICES ASSUME NEW i \in DOMAIN slots PROVE CivilTimeOf(slots[i], z) \in ClockTimes
    OBVIOUS
  <2>1. WallOf(z, slots[i]) \in Int
    BY <1>2, ZoneFacts DEF WallOf, Offset
  <2> QED BY <2>1, DayLenAssumption DEF CivilTimeOf, ClockTimes
<1>5. DayGrid(rules, candidates, day, from, duration, z, columns, step, busy) = g
  BY DEF DayGrid, slots, resolved
<1> HIDE DEF g
<1>6. \A who \in DOMAIN g.free : \A i \in g.free[who] : g.columns[i] \in ClockTimes
  BY <1>3, <1>4
<1> QED BY <1>5, <1>6

(* What an answer offers are days and times.                               *)
LEMMA ContextDrawsTimes ==
  ASSUME NEW w, w.now \in Int, NEW asked, asked.date = None \/ asked.time \in Int,
         asked.date \in Days
  PROVE  DrawsTimes(BookingContext(w, asked))
<1> DEFINE eligible == EligibleFor(w, asked)
           selected == Selected(asked, eligible)
           block == BlockFor(w, asked)
<1>1. /\ BookingContext(w, asked).openings = block.openings
      /\ BookingContext(w, asked).suggestions = block.suggestions
  BY ContextHas
<1>2. Today(w) \in Int
  <2>1. WallOf(Viewer.zone, w.now) \in Int
    BY InputsAssumption, ZoneFacts DEF WallOf, Offset
  <2> QED BY <2>1, DayLenAssumption DEF Today, CivilDate
<1>3. ASSUME block.openings # <<>> PROVE DOMAIN block.openings \subseteq Int
  <2> DEFINE shortlist == IF selected # None THEN {selected} ELSE eligible.instructors
  <2>1. block.openings = IF asked.date # None THEN <<>>
                         ELSE Openings(w.rules, shortlist, Today(w), asked.matrixDays,
                                       asked.duration,
                                       BookedOver(w, shortlist, Today(w), asked.matrixDays))
    BY DEF BlockFor, Block
  <2> HIDE DEF shortlist, block
  <2> QED BY <1>2, <1>3, <2>1, OpeningDays
<1>4. ASSUME block.suggestions # None
      PROVE  \A who \in DOMAIN block.suggestions.free : \A i \in block.suggestions.free[who] :
               block.suggestions.columns[i] \in ClockTimes
  <2>1. block.suggestions
          = IF asked.date = None \/ selected = None \/ asked.repeatDays # <<>> THEN None
            ELSE DayGrid(w.rules, {selected}, asked.date, asked.time, asked.duration, Viewer.zone,
                         Grid.suggestColumns, Grid.suggestStep,
                         BookedOver(w, {selected}, asked.date, 1))
    BY DEF BlockFor, Block
  <2> HIDE DEF block, selected
  <2>2. asked.date \in Int /\ asked.time \in Int
    BY <1>4, <2>1 DEF Days
  <2> QED BY <1>4, <2>1, <2>2, InputsAssumption, ColumnTimes
<1> HIDE DEF block
<1> QED BY <1>1, <1>3, <1>4 DEF DrawsTimes

(* Rows brought back into line keep their times, or take the head's.       *)
LEMMA ReconcileOnTheClock ==
  ASSUME NEW was, Panel(was), OnTheClock(was), NEW previous, NEW next,
         next.time \in ClockTimes, next.count \in Int
  PROVE  OnTheClock(Reconcile(was, previous, next))
<1> DEFINE head == HeadRow(was, previous, next)
           rest == OtherDays(was, head)
           settled == <<head>> \o rest
           most == MaxRepeatDays(next.count)
           cut == IF Len(settled) < most THEN Len(settled) ELSE most
<1>1. PICK S : was \in Seq(S) /\ \A row \in S : row.time \in ClockTimes
  BY DEF OnTheClock
<1>2. Len(was) \in Nat /\ DOMAIN was = 1 .. Len(was) /\ \A i \in 1 .. Len(was) : was[i] \in S
  BY <1>1, LenProperties, ElementOfSeq
<1>3. head.time \in ClockTimes
  <2>1. CASE was = <<>>
    BY <2>1 DEF HeadRow, Seeded
  <2>2. CASE was # <<>>
    <3>1. was[1] \in S
      BY <1>1, <1>2, <2>2, EmptySeq
    <3>2. head = [weekday |-> IF next.date # previous.date THEN Seeded(next).weekday
                              ELSE was[1].weekday,
                  length |-> IF next.length # previous.length THEN next.length
                             ELSE was[1].length,
                  time |-> IF next.time # previous.time THEN next.time ELSE was[1].time]
      BY <2>2 DEF HeadRow
    <3> QED BY <1>1, <3>1, <3>2
  <2> QED BY <2>1, <2>2
<1> HIDE DEF head
<1>4. rest \in Seq(S)
  <2>1. \A i \in 1 .. Len(was) : \A j \in 1 .. Len(was) :
          was[i].weekday = was[j].weekday => i = j
    BY <1>2 DEF Panel, RowsRepeat
  <2> QED BY <1>1, <2>1, OtherDaysOf
<1> HIDE DEF rest
<1> DEFINE T == S \cup {head}
<1>5. settled \in Seq(T) /\ \A row \in T : row.time \in ClockTimes
  <2>1. rest \in Seq(T) /\ <<head>> \in Seq(T)
    BY <1>4, SeqMonotonic
  <2> QED BY <1>1, <1>3, <2>1, ConcatProperties
<1> HIDE DEF T, settled
<1>6. SubSeq(settled, 1, cut) \in Seq(T)
  <2>1. most \in 1 .. 7 /\ Len(settled) \in Nat
    BY <1>5, MostIsPositive, LenProperties
  <2>2. cut \in Int /\ 1 \in Int /\ cut <= Len(settled)
    BY <2>1
  <2>3. \A i \in 1 .. cut : settled[i] \in T
    BY <1>5, <2>1, <2>2, ElementOfSeq
  <2> HIDE DEF cut
  <2> QED BY <2>2, <2>3, <1>5, SubSeqProperties
<1>7. Reconcile(was, previous, next)
        = IF next = previous THEN was ELSE IF next.count <= 1 THEN <<>>
          ELSE SubSeq(settled, 1, cut)
  BY DEF Reconcile, head, rest, settled
<1>8. <<>> \in Seq(T)
  BY EmptySeq
<1> HIDE DEF cut
<1> QED BY <1>1, <1>5, <1>6, <1>7, <1>8 DEF OnTheClock

(* What is sent is timed.                                                  *)
LEMMA SentOnTheClock ==
  ASSUME FormInv, ClockInv, NEW picked, DOMAIN picked \subseteq Pickable, NEW step, NEW override,
         "date" \in DOMAIN picked => picked.date \in Days,
         "time" \in DOMAIN picked => picked.time \in ClockTimes
  PROVE  Timed(Over(picked, Snapshot(step, override)))
<1> DEFINE sent == Over(picked, Snapshot(step, override))
           rest == [step |-> step, students |-> students, rows |-> rows,
                    matrixDays |-> matrixDays, count |-> Counted, override |-> override]
<1>1. sent.rows = rows /\ sent.count = Counted
  BY SubmissionCarries DEF FormInv, FieldsInv
<1>2. Snapshot(step, override) = Over(dom, rest) /\ DOMAIN dom = Fields
  BY DEF Snapshot, Counted, FormInv, FieldsInv
<1> HIDE DEF rest
<1>3. \A field \in Fields : Over(dom, rest)[field] = dom[field] /\ field \in DOMAIN Over(dom, rest)
  BY <1>2 DEF Over
<1>4. \A field \in Fields :
        Over(picked, Over(dom, rest))[field]
          = IF field \in DOMAIN picked THEN picked[field] ELSE dom[field]
  BY <1>3 DEF Over
<1>5. "date" \in Fields /\ "time" \in Fields /\ "duration" \in Fields \ Pickable
  BY DEF Fields, Pickable
<1>6. sent["date"] \in Days /\ sent["time"] \in ClockTimes /\ sent["duration"] \in Int
  BY <1>2, <1>4, <1>5 DEF ClockInv
<1>7. Counted \in Int
  BY DEF Counted, FormInv, RowsInv
<1> HIDE DEF sent
<1> QED BY <1>1, <1>6, <1>7 DEF Timed, ClockInv, sent

(* What a step leaves of the form's days and times.                        *)
LEMMA QueueGrows ==
  ASSUME ClockInv, NEW f, Timed(f)
  PROVE  \E S : Append(queue, f) \in Seq(S) /\ \A g \in S : Timed(g)
<1>1. PICK S : queue \in Seq(S) /\ \A g \in S : Timed(g)
  BY DEF ClockInv
<1>2. Append(queue, f) \in Seq(S \cup {f})
  BY <1>1, Sent
<1> QED BY <1>1, <1>2

(* A field filled in holds what the parser lets through.                   *)
LEMMA FillOnTheClock ==
  ASSUME FormInv, ClockInv, NEW patch \in Patches, Fill(patch) PROVE ClockInv'
<1>1. dom' = Over(patch, dom) /\ DOMAIN dom = Fields
  BY DEF Fill, FormInv, FieldsInv
<1>2. \A field \in Fields :
        dom'[field] = IF field \in DOMAIN patch THEN patch[field] ELSE dom[field]
  BY <1>1 DEF Over
<1>3. "date" \in Fields /\ "time" \in Fields /\ "duration" \in Fields
  BY DEF Fields
<1>4. dom'["date"] \in Days /\ dom'["time"] \in ClockTimes /\ dom'["duration"] \in Int
  BY <1>2, <1>3, InputsAssumption DEF ClockInv, Days, ClockTimes, RealCivilTime
<1> QED BY <1>4 DEF ClockInv, Fill, Click

(* Only the rows are changed, to rows with times of day.                   *)
LEMMA ChangeRowsOnTheClock ==
  ASSUME ClockInv, NEW changed, ChangeRows(changed), OnTheClock(changed) PROVE ClockInv'
BY DEF ClockInv, ChangeRows, Click

(* A row replaced by one with a time of day.                               *)
LEMMA EditRowOnTheClock ==
  ASSUME FormInv, ClockInv, NEW i \in DOMAIN rows, NEW row, row.time \in ClockTimes,
         ChangeRows([rows EXCEPT ![i] = row])
  PROVE  ClockInv'
<1>1. PICK S : rows \in Seq(S) /\ \A r \in S : r.time \in ClockTimes
  BY DEF ClockInv, OnTheClock
<1>2. rows \in Seq(S \cup {row}) /\ row \in S \cup {row}
  BY <1>1, SeqMonotonic
<1>3. i \in 1 .. Len(rows)
  BY <1>1, LenProperties
<1>4. [rows EXCEPT ![i] = row] \in Seq(S \cup {row})
  BY <1>2, <1>3, ExceptSeq
<1>5. OnTheClock([rows EXCEPT ![i] = row])
  <2> DEFINE new == [rows EXCEPT ![i] = row]
             T == S \cup {row}
  <2>1. new \in Seq(T) /\ \A r \in T : r.time \in ClockTimes
    BY <1>1, <1>4
  <2> HIDE DEF new, T
  <2>2. OnTheClock(new)
    BY <2>1 DEF OnTheClock
  <2> QED BY <2>2 DEF new
<1> DEFINE new == [rows EXCEPT ![i] = row]
<1>6. ChangeRows(new) /\ OnTheClock(new)
  BY <1>5
<1> HIDE DEF new
<1> QED BY <1>6, ChangeRowsOnTheClock

(* A row's day, time or length edited.                                     *)
LEMMA RowEditsOnTheClock ==
  ASSUME FormInv, ClockInv, NEW i \in DOMAIN rows,
         \/ \E w \in 1 .. 7 : EditWeekday(i, w)
         \/ \E t \in Times : EditRowTime(i, t)
         \/ \E d \in SelectableDurations : EditRowLength(i, d)
  PROVE  ClockInv'
<1>1. rows[i].time \in ClockTimes /\ DOMAIN rows[i] = RowFields
  <2>1. PICK S : rows \in Seq(S) /\ \A row \in S : row.time \in ClockTimes
    BY DEF ClockInv, OnTheClock
  <2>2. rows[i] \in S
    BY <2>1, LenProperties, ElementOfSeq
  <2> QED BY <2>1, <2>2 DEF FormInv, RowsInv, Panel
<1>2. ASSUME NEW w \in 1 .. 7, EditWeekday(i, w) PROVE ClockInv'
  <2> DEFINE row == [rows[i] EXCEPT !.weekday = w]
  <2>1. row.time = rows[i].time
    BY <1>1 DEF RowFields
  <2>2. ChangeRows([rows EXCEPT ![i] = row])
    BY <1>2 DEF EditWeekday
  <2> HIDE DEF row
  <2> QED BY <1>1, <2>1, <2>2, EditRowOnTheClock
<1>3. ASSUME NEW t \in Times, EditRowTime(i, t) PROVE ClockInv'
  <2> DEFINE row == [rows[i] EXCEPT !.time = t]
  <2>1. row.time \in ClockTimes
    BY <1>1, InputsAssumption DEF RowFields, RealCivilTime, ClockTimes
  <2>2. ChangeRows([rows EXCEPT ![i] = row])
    BY <1>3 DEF EditRowTime
  <2> HIDE DEF row
  <2> QED BY <2>1, <2>2, EditRowOnTheClock
<1>4. ASSUME NEW d \in SelectableDurations, EditRowLength(i, d) PROVE ClockInv'
  <2> DEFINE row == [rows[i] EXCEPT !.length = d]
  <2>1. row.time = rows[i].time
    BY <1>1 DEF RowFields
  <2>2. ChangeRows([rows EXCEPT ![i] = row])
    BY <1>4 DEF EditRowLength
  <2> HIDE DEF row
  <2> QED BY <1>1, <2>1, <2>2, EditRowOnTheClock
<1> QED BY <1>2, <1>3, <1>4

(* A day taken away, a day added, a time picked in the plan of the week.   *)
LEMMA RemoveDayOnTheClock ==
  ASSUME FormInv, ClockInv, NEW i \in DOMAIN rows, RemoveDay(i) PROVE ClockInv'
<1>1. PICK S : rows \in Seq(S) /\ \A row \in S : row.time \in ClockTimes
  BY DEF ClockInv, OnTheClock
<1>2. i \in 1 .. Len(rows) /\ Len(rows) \in Nat
  BY <1>1, LenProperties
<1>3. RemoveAt(rows, i) \in Seq(S)
  <2>1. SubSeq(rows, 1, i - 1) \in Seq(S) /\ SubSeq(rows, i + 1, Len(rows)) \in Seq(S)
    <3>1. /\ \A j \in 1 .. i - 1 : rows[j] \in S
          /\ \A j \in i + 1 .. Len(rows) : rows[j] \in S
      BY <1>1, <1>2, ElementOfSeq
    <3>2. i - 1 \in Int /\ i + 1 \in Int /\ 1 \in Int /\ Len(rows) \in Int
      BY <1>2
    <3> QED BY <3>1, <3>2, SubSeqProperties
  <2> QED BY <2>1, ConcatProperties DEF RemoveAt
<1>4. OnTheClock(RemoveAt(rows, i)) /\ ChangeRows(RemoveAt(rows, i))
  BY <1>1, <1>3 DEF OnTheClock, RemoveDay
<1> QED BY <1>4, ChangeRowsOnTheClock

LEMMA AddDayOnTheClock == ASSUME FormInv, ClockInv, AddDay PROVE ClockInv'
<1> DEFINE row == [weekday |-> FreeWeekday, time |-> state.values.time,
                   length |-> state.context.chosenDuration]
           more == Append(rows, row)
<1>1. row.time \in ClockTimes
  BY DEF ClockInv, Timed
<1>2. ChangeRows(more)
  BY DEF AddDay
<1> HIDE DEF row
<1>3. PICK S : rows \in Seq(S) /\ \A r \in S : r.time \in ClockTimes
  BY DEF ClockInv, OnTheClock
<1>4. more \in Seq(S \cup {row})
  BY <1>3, Sent
<1> DEFINE T == S \cup {row}
<1>5. more \in Seq(T) /\ \A r \in T : r.time \in ClockTimes
  BY <1>1, <1>3, <1>4
<1> HIDE DEF more, T
<1>6. OnTheClock(more)
  BY <1>5 DEF OnTheClock
<1> QED BY <1>2, <1>6, ChangeRowsOnTheClock

LEMMA PickRepeatTimeOnTheClock ==
  ASSUME FormInv, ClockInv, NEW w, NEW t \in Times, PickRepeatTime(w, t) PROVE ClockInv'
<1>1. PICK S : rows \in Seq(S) /\ \A row \in S : row.time \in ClockTimes
  BY DEF ClockInv, OnTheClock
<1>2. Len(rows) \in Nat /\ DOMAIN rows = 1 .. Len(rows) /\ \A i \in 1 .. Len(rows) : rows[i] \in S
  BY <1>1, LenProperties, ElementOfSeq
<1> DEFINE Moved(i) == IF rows[i].weekday = w THEN [rows[i] EXCEPT !.time = t] ELSE rows[i]
           moved == [i \in DOMAIN rows |-> Moved(i)]
           T == {Moved(i) : i \in DOMAIN rows}
<1>3. ChangeRows(moved)
  BY DEF PickRepeatTime
<1>4. \A i \in DOMAIN rows : Moved(i).time \in ClockTimes
  <2> SUFFICES ASSUME NEW i \in DOMAIN rows PROVE Moved(i).time \in ClockTimes
    OBVIOUS
  <2>1. DOMAIN rows[i] = RowFields /\ rows[i].time \in ClockTimes
    BY <1>1, <1>2 DEF FormInv, RowsInv, Panel
  <2>2. t \in ClockTimes
    BY InputsAssumption DEF RealCivilTime, ClockTimes
  <2> QED BY <2>1, <2>2 DEF RowFields
<1>5. \A i \in DOMAIN rows : Moved(i) \in T
  OBVIOUS
<1>6. \A row \in T : row.time \in ClockTimes
  BY <1>4
<1> HIDE DEF Moved, T
<1>7. moved \in [1 .. Len(rows) -> T]
  BY <1>2, <1>5
<1> HIDE DEF moved
<1>8. moved \in Seq(T)
  BY <1>2, <1>7, SeqOfFunction
<1>9. OnTheClock(moved)
  BY <1>6, <1>8 DEF OnTheClock
<1> QED BY <1>3, <1>9, ChangeRowsOnTheClock

(* A number of sessions typed.                                             *)
LEMMA EditCountOnTheClock ==
  ASSUME FormInv, ClockInv, NEW n \in Counts, EditCount(n) PROVE ClockInv'
<1> DEFINE new == Reconcile(rows, Anchor(state, counted), Anchor(state, n))
<1>1. n \in Int /\ Panel(rows) /\ OnTheClock(rows)
  BY ControlsAssumption DEF FormInv, RowsInv, ClockInv
<1>2. Anchor(state, n).time \in ClockTimes /\ Anchor(state, n).count \in Int
  BY <1>1 DEF Anchor, ClockInv, Timed
<1>3. OnTheClock(new) /\ rows' = new
  BY <1>1, <1>2, ReconcileOnTheClock DEF EditCount
<1> HIDE DEF new
<1> QED BY <1>3 DEF EditCount, Click, ClockInv

(* A submission, with what was picked in a grid.                           *)
LEMMA SendOnTheClock ==
  ASSUME FormInv, ClockInv, NEW picked, DOMAIN picked \subseteq Pickable, NEW step, NEW override,
         "date" \in DOMAIN picked => picked.date \in Days,
         "time" \in DOMAIN picked => picked.time \in ClockTimes,
         Submit(step, picked, override), UNCHANGED <<world, dom, rows, state>>
  PROVE  ClockInv'
<1> DEFINE sent == Over(picked, Snapshot(step, override))
<1>1. Timed(sent) /\ queue' = Append(queue, sent)
  BY SentOnTheClock DEF Submit
<1> HIDE DEF sent
<1>2. \E S : queue' \in Seq(S) /\ \A g \in S : Timed(g)
  BY <1>1, QueueGrows
<1> QED BY <1>2 DEF ClockInv

(* Whatever the person does leaves days and times of day.                  *)
LEMMA PersonOnTheClock ==
  ASSUME FormInv, ClockInv, PersonActs PROVE ClockInv'
<1>1. ASSUME NEW patch \in Patches, Fill(patch) PROVE ClockInv'
  BY <1>1, FillOnTheClock
<1>2. ASSUME NEW s \in Students, ChooseStudent(s) \/ RemoveStudent(s) PROVE ClockInv'
  BY <1>2 DEF ChooseStudent, RemoveStudent, ChangeRoster, Click, ClockInv
<1>3. ASSUME NEW n \in Counts, EditCount(n) PROVE ClockInv'
  BY <1>3, EditCountOnTheClock
<1>4. ASSUME NEW i \in DOMAIN rows,
             \/ RemoveDay(i)
             \/ \E w \in 1 .. 7 : EditWeekday(i, w)
             \/ \E t \in Times : EditRowTime(i, t)
             \/ \E d \in SelectableDurations : EditRowLength(i, d)
      PROVE  ClockInv'
  BY <1>4, RemoveDayOnTheClock, RowEditsOnTheClock
<1>5. ASSUME AddDay \/ \E w \in 1 .. 7, t \in Times : PickRepeatTime(w, t) PROVE ClockInv'
  BY <1>5, AddDayOnTheClock, PickRepeatTimeOnTheClock
<1>6. ASSUME LoadMoreDays PROVE ClockInv'
  BY <1>6 DEF LoadMoreDays, Click, ClockInv
<1>7. ASSUME NEW picked, DOMAIN picked \subseteq Pickable, Picks(picked),
             "date" \in DOMAIN picked => picked.date \in Days,
             "time" \in DOMAIN picked => picked.time \in ClockTimes
      PROVE  ClockInv'
  BY <1>7, SendOnTheClock DEF Picks, Click
<1>8. DOMAIN <<>> = {}
  OBVIOUS
<1>9. ASSUME NEW day, PickDate(day) PROVE ClockInv'
  <2>1. day \in Int
    BY <1>9 DEF PickDate, ClockInv, DrawsTimes
  <2> DEFINE picked == [date |-> day]
  <2>2. DOMAIN picked = {"date"} /\ picked.date = day /\ Picks(picked)
    BY <1>9 DEF PickDate
  <2> HIDE DEF picked
  <2> QED BY <1>7, <2>1, <2>2 DEF Pickable, Days
<1>10. ASSUME NEW who, PickInstructor(who) PROVE ClockInv'
  <2> DEFINE picked == [instructor |-> who]
  <2>1. DOMAIN picked = {"instructor"} /\ Picks(picked)
    BY <1>10 DEF PickInstructor
  <2> HIDE DEF picked
  <2> QED BY <1>7, <2>1 DEF Pickable
<1>11. ASSUME NEW i, PickTime(i) PROVE ClockInv'
  <2> DEFINE t == state.context.suggestions.columns[i]
             picked == [time |-> t]
  <2>1. t \in ClockTimes
    BY <1>11 DEF PickTime, ClockInv, DrawsTimes
  <2>2. DOMAIN picked = {"time"} /\ picked.time = t /\ Picks(picked)
    BY <1>11 DEF PickTime
  <2> HIDE DEF picked, t
  <2> QED BY <1>7, <2>1, <2>2 DEF Pickable
<1>12. ASSUME ClearInstructor PROVE ClockInv'
  <2> DEFINE picked == [instructor |-> None]
  <2>1. DOMAIN picked = {"instructor"} /\ Picks(picked)
    BY <1>12 DEF ClearInstructor
  <2> HIDE DEF picked
  <2> QED BY <1>7, <2>1 DEF Pickable
<1>13. ASSUME Preview PROVE ClockInv'
  BY <1>7, <1>8, <1>13 DEF Preview
<1>14. ASSUME NEW override \in BOOLEAN, Book(override) PROVE ClockInv'
  BY <1>8, <1>14, SendOnTheClock DEF Book, Click
<1> QED BY <1>1, <1>2, <1>3, <1>4, <1>5, <1>6, <1>9, <1>10, <1>11, <1>12, <1>13, <1>14
        DEF PersonActs

(* The form a submission is served from, and what is left of the queue.    *)
LEMMA HeadIsTimed ==
  ASSUME ClockInv, queue # <<>>
  PROVE  Timed(Head(queue)) /\ \E S : Tail(queue) \in Seq(S) /\ \A f \in S : Timed(f)
<1>1. PICK S : queue \in Seq(S) /\ \A f \in S : Timed(f)
  BY DEF ClockInv
<1>2. Head(queue) \in S /\ Tail(queue) \in Seq(S)
  BY <1>1, HeadTailProperties
<1> QED BY <1>1, <1>2

(* An answer painted, or held back.                                        *)
LEMMA ServeOnTheClock ==
  ASSUME FormInv, ClockInv, Serve PROVE ClockInv'
<1>1. queue # <<>> /\ queue' = Tail(queue) /\ world' = world /\ Answered(ServerAnswer)
  BY DEF Serve, Waiting, Answered
<1>2. \E S : queue' \in Seq(S) /\ \A f \in S : Timed(f)
  BY <1>1, HeadIsTimed
<1>3. CASE Len(queue) # 1
  BY <1>1, <1>2, <1>3 DEF Answered, ClockInv
<1>4. CASE Len(queue) = 1
  <2> DEFINE req == Head(queue)
             answer == ServerAnswer
  <2>1. Timed(req)
    BY <1>1, HeadIsTimed
  <2>2. answer.values = req /\ answer.context = BookingContext(world, Asked(req))
    BY AnswerEchoes, AnswerContext DEF ServerAnswer
  <2>3. Commit(answer)
    BY <1>1, <1>4 DEF Answered
  <2> HIDE DEF answer, req
  <2>4. state' = answer /\ dom' = Restored(answer)
        /\ rows' = Reconcile(rows, Anchor(state, counted), Anchor(answer, CountAfter(answer)))
    BY <2>3 DEF Commit
  <2>5. dom'.date = req.date /\ dom'.time = req.time /\ dom'.duration = req.duration
    <3>1. answer.context.chosenDuration = req.duration
      BY <2>2, ChosenIs DEF Asked
    <3> QED BY <2>2, <2>4, <3>1 DEF Restored
  <2>6. DrawsTimes(answer.context)
    <3>1. Asked(req).date = req.date /\ Asked(req).time = req.time
      BY DEF Asked
    <3>2. req.date \in Days /\ req.time \in Int /\ world.now \in Int
      BY <2>1, DayLenAssumption DEF Timed, ClockTimes, ClockInv
    <3> QED BY <2>2, <3>1, <3>2, ContextDrawsTimes
  <2>7. OnTheClock(rows')
    <3>1. /\ Anchor(answer, CountAfter(answer)).time = req.time
          /\ Anchor(answer, CountAfter(answer)).count = CountAfter(answer)
      BY <2>2 DEF Anchor
    <3>2. CountAfter(answer) \in Int
      BY <2>1, <2>2 DEF CountAfter, Timed, FormInv, RowsInv
    <3>3. Panel(rows) /\ OnTheClock(rows) /\ req.time \in ClockTimes
      BY <2>1 DEF FormInv, RowsInv, ClockInv, Timed
    <3> DEFINE next == Anchor(answer, CountAfter(answer))
    <3>4. next.time \in ClockTimes /\ next.count \in Int
      BY <3>1, <3>2, <3>3
    <3> HIDE DEF next
    <3>5. OnTheClock(Reconcile(rows, Anchor(state, counted), next))
      BY <3>3, <3>4, ReconcileOnTheClock
    <3> QED BY <2>4, <3>5 DEF next
  <2> QED BY <1>1, <1>2, <2>1, <2>2, <2>4, <2>5, <2>6, <2>7 DEF ClockInv, Timed
<1> QED BY <1>3, <1>4

(* No rows are rows with times of day.                                     *)
LEMMA NoRowsOnTheClock == OnTheClock(<<>>)
<1> DEFINE S == {}
<1>1. <<>> \in Seq(S) /\ \A row \in S : row.time \in ClockTimes
  BY EmptySeq
<1> HIDE DEF S
<1> QED BY <1>1 DEF OnTheClock

(* The lengths on offer are at least a minute.                             *)
LEMMA LengthsArePositive == SelectableDurations \subseteq Nat \ {0}
<1>1. \A d \in Setting(Config.durations, {}) : d \in Int
  BY InputsAssumption
<1>2. 60 \in Nat \ {0}
  OBVIOUS
<1> QED BY <1>1, <1>2 DEF SelectableDurations

(* The length a form opens with is one of them.                            *)
LEMMA OpensWithALength == FirstValues.duration \in Int
<1>1. SelectableDurations \in SUBSET Nat /\ SelectableDurations # {}
  BY LengthsArePositive DEF SelectableDurations
<1>2. \E d \in SelectableDurations : \A e \in SelectableDurations : d <= e
  BY <1>1, LeastOne
<1> DEFINE least == CHOOSE d \in SelectableDurations : \A e \in SelectableDurations : d <= e
<1>3. least \in SelectableDurations
  BY <1>2
<1>4. FirstValues.duration = least
  BY DEF FirstValues
<1> HIDE DEF least
<1> QED BY <1>1, <1>3, <1>4

(* The first paint, and a form left half filled.                           *)
LEMMA FirstPaintIsTimed ==
  ASSUME NEW w, w.now \in Int
  PROVE  /\ Timed(FirstPaint(w).values) /\ DrawsTimes(FirstPaint(w).context)
         /\ FirstPaint(w).context.chosenDuration \in Int
<1> DEFINE asked == [Asked(FirstValues) EXCEPT !.time = Grid.openTime]
<1>1. FirstPaint(w).values = FirstValues /\ FirstPaint(w).context = BookingContext(w, asked)
  BY DEF FirstPaint
<1>2. /\ FirstValues.date = None /\ FirstValues.time = Grid.firstTime
      /\ FirstValues.count = 1 /\ FirstValues.rows = <<>>
  BY DEF FirstValues
<1>3. asked.date = None /\ asked.duration = FirstValues.duration
  BY <1>2 DEF Asked
<1> HIDE DEF asked
<1>4. DrawsTimes(BookingContext(w, asked))
  BY <1>3, ContextDrawsTimes DEF Days
<1>6. Grid.firstTime \in ClockTimes
  BY InputsAssumption DEF RealCivilTime, ClockTimes
<1>7. BookingContext(w, asked).chosenDuration = asked.duration
  BY ChosenIs
<1> QED BY <1>1, <1>2, <1>3, <1>4, <1>6, <1>7, OpensWithALength, NoRowsOnTheClock
        DEF Timed, Days

LEMMA HalfFilledIsTimed ==
  ASSUME NEW w, w.now \in Int
  PROVE  /\ Timed(BookingStep(w, HalfFilled).values)
         /\ DrawsTimes(BookingStep(w, HalfFilled).context)
         /\ BookingStep(w, HalfFilled).context.chosenDuration \in Int
<1> DEFINE S == [weekday : 1 .. 7, length : Nat, time : 0 .. DayLen - 1]
<1>1. HalfFilled.rows \in Seq(S) /\ \A row \in S : row.time \in ClockTimes
  BY HalfFilledAssumption DEF ClockTimes
<1> HIDE DEF S
<1>2. OnTheClock(HalfFilled.rows)
  BY <1>1 DEF OnTheClock
<1>3. /\ HalfFilled.date \in Days /\ HalfFilled.time \in ClockTimes
      /\ HalfFilled.count \in Int /\ HalfFilled.duration \in Int
  BY HalfFilledAssumption DEF Days, RealCivilTime, ClockTimes
<1>4. /\ Asked(HalfFilled).date = HalfFilled.date /\ Asked(HalfFilled).time = HalfFilled.time
      /\ Asked(HalfFilled).duration = HalfFilled.duration
  BY DEF Asked
<1>5. HalfFilled.time \in Int
  BY <1>3, DayLenAssumption DEF ClockTimes
<1>6. DrawsTimes(BookingContext(w, Asked(HalfFilled)))
  BY <1>3, <1>4, <1>5, ContextDrawsTimes
<1>7. BookingContext(w, Asked(HalfFilled)).chosenDuration = HalfFilled.duration
  BY <1>4, ChosenIs
<1> QED BY <1>2, <1>3, <1>6, <1>7, AnswerEchoes, AnswerContext DEF Timed

(* A form at rest at such an answer.                                       *)
LEMMA RestedIsTimed ==
  ASSUME NEW answer, Timed(answer.values), answer.context.chosenDuration \in Int
  PROVE  LET resting == AtRest(answer)
         IN  /\ resting.dom.date \in Days /\ resting.dom.time \in ClockTimes
             /\ resting.dom.duration \in Int
             /\ OnTheClock(resting.rows) /\ resting.state = answer /\ resting.queue = <<>>
<1>1. /\ AtRest(answer).dom = Restored(answer) /\ AtRest(answer).rows = answer.values.rows
      /\ AtRest(answer).state = answer /\ AtRest(answer).queue = <<>>
  BY DEF AtRest
<1>2. /\ Restored(answer).date = answer.values.date /\ Restored(answer).time = answer.values.time
      /\ Restored(answer).duration = answer.context.chosenDuration
  BY DEF Restored
<1> QED BY <1>1, <1>2 DEF Timed

(* Nothing under way is nothing that is not timed.                         *)
LEMMA NothingUnderWay == \E S : <<>> \in Seq(S) /\ \A f \in S : Timed(f)
<1> DEFINE S == {}
<1>1. <<>> \in Seq(S) /\ \A f \in S : Timed(f)
  BY EmptySeq
<1> HIDE DEF S
<1> QED BY <1>1

LEMMA OpenOnTheClock ==
  ASSUME OpenForm, world'.now \in Int PROVE ClockInv'
<1> DEFINE answer == FirstPaint(world')
           fresh == AtRest(answer)
<1>1. Timed(answer.values) /\ DrawsTimes(answer.context) /\ answer.context.chosenDuration \in Int
  BY FirstPaintIsTimed
<1> HIDE DEF answer
<1>2. /\ fresh.dom.date \in Days /\ fresh.dom.time \in ClockTimes /\ fresh.dom.duration \in Int
      /\ OnTheClock(fresh.rows) /\ fresh.state = answer /\ fresh.queue = <<>>
  BY <1>1, RestedIsTimed
<1>3. state' = fresh.state /\ dom' = fresh.dom /\ rows' = fresh.rows /\ queue' = fresh.queue
  BY DEF OpenForm, Opened, answer
<1> HIDE DEF fresh
<1>4. \E S : queue' \in Seq(S) /\ \A f \in S : Timed(f)
  BY <1>2, <1>3, NothingUnderWay
<1> QED BY <1>1, <1>2, <1>3, <1>4 DEF ClockInv

(* The invariant holds.                                                    *)
LEMMA ClockHolds == Spec => []ClockInv
<1>1. Init => ClockInv
  <2> SUFFICES ASSUME Init PROVE ClockInv
    OBVIOUS
  <2>1. world.now \in Int
    BY RowsAssumption DEF Init
  <2>2. PICK answer : /\ InitForm(AtRest(answer)) /\ Timed(answer.values)
                      /\ DrawsTimes(answer.context) /\ answer.context.chosenDuration \in Int
    BY <2>1, FirstPaintIsTimed, HalfFilledIsTimed DEF Init
  <2> DEFINE fresh == AtRest(answer)
  <2>3. /\ fresh.dom.date \in Days /\ fresh.dom.time \in ClockTimes /\ fresh.dom.duration \in Int
        /\ OnTheClock(fresh.rows) /\ fresh.state = answer /\ fresh.queue = <<>>
    BY <2>2, RestedIsTimed
  <2>4. state = fresh.state /\ dom = fresh.dom /\ rows = fresh.rows /\ queue = fresh.queue
    BY <2>2 DEF InitForm
  <2> HIDE DEF fresh
  <2> QED BY <2>1, <2>2, <2>3, <2>4, NothingUnderWay DEF ClockInv
<1>2. FormInv /\ ClockInv /\ [Next]_vars => ClockInv'
  <2> SUFFICES ASSUME FormInv, ClockInv, [Next]_vars PROVE ClockInv'
    OBVIOUS
  <2>1. ASSUME UNCHANGED <<form, world>> PROVE ClockInv'
    BY <2>1 DEF ClockInv, form
  <2>2. CASE UNCHANGED vars
    BY <2>1, <2>2 DEF vars, formVars
  <2>3. CASE AtScreen
    <3>0. ASSUME Click, UNCHANGED form PROVE ClockInv'
      BY <2>1, <3>0 DEF Click
    <3>1. ASSUME OpenForm, Click PROVE ClockInv'
      BY <3>1, OpenOnTheClock DEF Click, ClockInv
    <3>2. ASSUME NEW screen \in Screens, Visit(screen) PROVE ClockInv'
      BY <3>0, <3>2 DEF Visit, Open
    <3>3. ASSUME NEW screen \in Screens, LeaveForm(screen) PROVE ClockInv'
      BY <3>1, <3>3 DEF LeaveForm, Open
    <3>4. ASSUME NEW link \in Links, FollowLink(link) PROVE ClockInv'
      BY <3>0, <3>4 DEF FollowLink
    <3>5. ASSUME NEW query, Apply(query) PROVE ClockInv'
      BY <3>0, <3>5 DEF Apply
    <3>6. ASSUME NEW params, Submitted(params) PROVE ClockInv'
      BY <3>5, <3>6 DEF Submitted
    <3>7. ASSUME NEW picked \in DrawerPicks, ApplyDrawer(picked) PROVE ClockInv'
      BY <3>6, <3>7 DEF ApplyDrawer
    <3>8. ASSUME NEW text \in Texts, Search(text) PROVE ClockInv'
      BY <3>6, <3>8 DEF Search
    <3>9. ASSUME NEW ticks \in Ticks, CloseMenu(ticks) PROVE ClockInv'
      BY <3>6, <3>9 DEF CloseMenu
    <3>10. ASSUME Reset PROVE ClockInv'
      BY <3>5, <3>10 DEF Reset
    <3>11. ASSUME NEW move \in GoToMoves, GoTo(move) PROVE ClockInv'
      BY <3>6, <3>11 DEF GoTo
    <3>12. ASSUME NEW n \in Turns, TurnPage(n) PROVE ClockInv'
      BY <3>6, <3>12 DEF TurnPage
    <3>13. ASSUME Export PROVE ClockInv'
      BY <3>0, <3>13 DEF Export
    <3>14. ASSUME OpenBooking PROVE ClockInv'
      BY <3>1, <3>14 DEF OpenBooking
    <3> QED BY <2>3, <3>2, <3>3, <3>4, <3>7, <3>8, <3>9, <3>10, <3>11, <3>12, <3>13, <3>14
            DEF AtScreen
  <2>4. CASE AtForm
    <3>1. ASSUME TimerFires PROVE ClockInv'
      <4>1. DOMAIN <<>> = {}
        OBVIOUS
      <4> QED BY <3>1, <4>1, SendOnTheClock DEF TimerFires
    <3> QED BY <2>4, <3>1, PersonOnTheClock, ServeOnTheClock DEF AtForm
  <2>5. CASE FinishBooking
    <3>1. world' = [world EXCEPT !.sessions = @ \cup ServerAnswer.written] /\ OpenForm
      BY <2>5 DEF FinishBooking, Wrote
    <3>2. world'.now = world.now
      BY <3>1
    <3> QED BY <3>1, <3>2, OpenOnTheClock DEF ClockInv
  <2>6. CASE OtherPeople
    <3>1. PICK other \in Others : Elsewhere(other)
      BY <2>6 DEF OtherPeople
    <3>2. other.hours \in Int
      BY InputsAssumption
    <3>3. world'.now \in Int
      BY <3>1, <3>2 DEF Elsewhere, ClockInv
    <3> QED BY <3>1, <3>3 DEF Elsewhere, ClockInv, form
  <2>7. ASSUME NEW held \in TabWrites, OtherTab(held.screen, held.query) PROVE ClockInv'
    BY <2>1, <2>7 DEF OtherTab
  <2> QED BY <2>2, <2>3, <2>4, <2>5, <2>6, <2>7 DEF Next
<1> QED BY <1>1, <1>2, FormHolds, PTL DEF Spec

-----------------------------------------------------------------------------
(* The plan.                                                               *)

(* Nothing is refused on the way to a plan that there is.                  *)
LEMMA NothingWasRefused ==
  ASSUME NEW w, NEW f, NEW offered, PlanError(w, f, offered) = None
  PROVE  FormError(f) = None /\ ValidateRequest(w, BookingFromForm(f)) = None
<1> DEFINE request == BookingFromForm(f)
<1>1. PlanError(w, f, offered)
        = OrElse(FormError(f), OrElse(SchoolError(f, offered),
            OrElse(ValidateRequest(w, request), OrElse(ResolveStudentsError(request),
              OrElse(EligibleError(w, request), ExpansionError(request))))))
  BY DEF PlanError
<1> HIDE DEF request
<1> QED BY <1>1 DEF OrElse, request

(* A row of the form for a weekday it names.                               *)
LEMMA RowNamed ==
  ASSUME NEW f, Timed(f), NEW w, w \in {f.rows[i].weekday : i \in DOMAIN f.rows}
  PROVE  f.rows[CHOOSE i \in DOMAIN f.rows : f.rows[i].weekday = w].time \in ClockTimes
<1>1. PICK S : f.rows \in Seq(S) /\ \A row \in S : row.time \in ClockTimes
  BY DEF Timed, OnTheClock
<1> DEFINE named == CHOOSE i \in DOMAIN f.rows : f.rows[i].weekday = w
<1>2. named \in DOMAIN f.rows
  OBVIOUS
<1> HIDE DEF named
<1>3. f.rows[named] \in S
  BY <1>1, <1>2, LenProperties, ElementOfSeq
<1> QED BY <1>1, <1>3 DEF named

(* The first session runs at a time of day.                                *)
LEMMA PatternIsTimed ==
  ASSUME NEW f, Timed(f), f.rows # <<>> PROVE PatternStart(f).startTime \in ClockTimes
<1> DEFINE own == {i \in DOMAIN f.rows : f.rows[i].weekday = IsoWeekday(f.date)}
           n == IF own = {} THEN 1 ELSE CHOOSE i \in own : TRUE
<1>1. PICK S : f.rows \in Seq(S) /\ \A row \in S : row.time \in ClockTimes
  BY DEF Timed, OnTheClock
<1>2. n \in 1 .. Len(f.rows)
  <2>1. Len(f.rows) \in Nat \ {0} /\ DOMAIN f.rows = 1 .. Len(f.rows)
    BY <1>1, LenProperties, EmptySeq
  <2>2. own \subseteq DOMAIN f.rows
    OBVIOUS
  <2> HIDE DEF own
  <2> QED BY <2>1, <2>2
<1>3. PatternStart(f).startTime = f.rows[n].time
  BY DEF PatternStart
<1> HIDE DEF n
<1>4. f.rows[n] \in S
  BY <1>1, <1>2, ElementOfSeq
<1> QED BY <1>1, <1>3, <1>4

(* A request the handler has nothing against is one buildRule makes a      *)
(* sound rule of, within the tenant's bounds.                              *)
LEMMA PlannedRuleIsSound ==
  ASSUME NEW w, NEW f, Timed(f), FormError(f) = None,
         ValidateRequest(w, BookingFromForm(f)) = None
  PROVE  LET rule == BuildRule(RuleInput(BookingFromForm(f)))
         IN  /\ SoundRule(rule) /\ SoundOptions(ExpandOptions(BookingFromForm(f)))
             /\ rule.timezone = Viewer.zone /\ rule.frequency = "weekly"
<1> DEFINE request == BookingFromForm(f)
           input == RuleInput(request)
           rule == BuildRule(input)
           repeat == f.count > 1 /\ f.rows # <<>>
           named == IF repeat THEN {f.rows[i].weekday : i \in DOMAIN f.rows} ELSE {}
<1>1. f.date \in Int /\ f.count \in Nat \ {0}
  <2>1. None # "no_date" /\ None # "no_sessions"
    BY ControlsAssumption DEF FormRefusals
  <2> QED BY <2>1 DEF FormError, Timed, Days
<1>2. /\ request.startDate = f.date /\ request.timezone = Viewer.zone
      /\ request.repeat = (f.count > 1) /\ request.occurrenceCount = f.count
      /\ request.startTime = IF repeat THEN PatternStart(f).startTime ELSE f.time
      /\ DOMAIN request.perWeekday = named
      /\ \A v \in named :
           request.perWeekday[v].startTime
             = f.rows[CHOOSE i \in DOMAIN f.rows : f.rows[i].weekday = v].time
  BY DEF BookingFromForm
<1>3. request.startTime \in ClockTimes
  BY <1>2, PatternIsTimed DEF Timed
<1>4. ASSUME NEW v \in named PROVE request.perWeekday[v].startTime \in ClockTimes
  <2>1. v \in {f.rows[i].weekday : i \in DOMAIN f.rows}
    OBVIOUS
  <2> DEFINE time == f.rows[CHOOSE i \in DOMAIN f.rows : f.rows[i].weekday = v].time
  <2>2. time \in ClockTimes
    BY <2>1, RowNamed
  <2>3. request.perWeekday[v].startTime = time
    BY <1>2
  <2> HIDE DEF time
  <2> QED BY <2>2, <2>3
<1> HIDE DEF request, named
<1>5. /\ request.durationMinutes \in Nat \ {0}
      /\ \A v \in DOMAIN request.perWeekday :
           request.perWeekday[v].durationMinutes \in Nat \ {0}
  <2>1. None # "no_title" /\ None # "length_not_offered"
    BY ControlsAssumption DEF FormRefusals
  <2>2. ValidateRequest(w, request) = None
    BY DEF request
  <2>3. /\ request.durationMinutes \in SelectableDurations
        /\ \A v \in DOMAIN request.perWeekday :
             request.perWeekday[v].durationMinutes \in SelectableDurations
    BY <2>1, <2>2 DEF ValidateRequest
  <2> QED BY <2>3, LengthsArePositive
<1>6. /\ rule.startDate = request.startDate /\ rule.timezone = request.timezone
      /\ rule.intervalN = 1 /\ rule.frequency = "weekly" /\ rule.endMode = "count"
      /\ rule.startTime = request.startTime /\ rule.durationMinutes = request.durationMinutes
      /\ rule.occurrenceCount = IF request.repeat THEN request.occurrenceCount ELSE 1
      /\ rule.perWeekday = KeptOverrides(input)
  BY DEF BuildRule, RuleInput
<1>7. /\ DOMAIN KeptOverrides(input) \subseteq DOMAIN request.perWeekday
      /\ \A v \in DOMAIN KeptOverrides(input) :
           KeptOverrides(input)[v] = request.perWeekday[v]
  <2>1. input.perWeekday = request.perWeekday
    BY DEF RuleInput
  <2> HIDE DEF input
  <2> QED BY <2>1 DEF KeptOverrides
<1> HIDE DEF rule, input
<1>8. SoundRule(rule)
  <2>1. rule.occurrenceCount \in Nat \ {0}
    BY <1>1, <1>2, <1>6
  <2>2. \A v \in DOMAIN rule.perWeekday :
          /\ rule.perWeekday[v].startTime \in 0 .. DayLen - 1
          /\ rule.perWeekday[v].durationMinutes \in Nat \ {0}
    BY <1>2, <1>4, <1>5, <1>6, <1>7 DEF ClockTimes
  <2> QED BY <1>1, <1>2, <1>3, <1>5, <1>6, <2>1, <2>2, InputsAssumption
          DEF SoundRule, ClockTimes
<1>9. SoundOptions(ExpandOptions(request))
  BY InputsAssumption DEF SoundOptions, ExpandOptions
<1> QED BY <1>2, <1>6, <1>8, <1>9 DEF rule, input, request

(* A plan in an answer is that of its form, and nothing was refused.       *)
LEMMA AnswerPlan ==
  ASSUME NEW w, NEW f, BookingStep(w, f).plan # None
  PROVE  /\ BookingStep(w, f).plan = PlanBooking(w, BookingFromForm(f))
         /\ \E offered : PlanError(w, f, offered) = None
<1> DEFINE base == [context |-> BookingContext(w, Asked(f)), values |-> f,
                    plan |-> None, error |-> None, written |-> {}]
           kept == IF f.school = None THEN f.students ELSE f.students \cap base.context.students
           plan == PlanBooking(w, BookingFromForm(f))
           error == PlanError(w, f, kept)
<1>1. BookingStep(w, f)
        = IF f.step = "refresh" THEN base
          ELSE IF error # None THEN [base EXCEPT !.error = error]
          ELSE IF f.step = "confirm" THEN Confirmed(w, base, plan)
          ELSE [base EXCEPT !.plan = plan]
  BY DEF BookingStep, Answer, PlanStep
<1>2. base.plan = None /\ DOMAIN base = {"context", "values", "plan", "error", "written"}
  OBVIOUS
<1>3. \E offered : error = PlanError(w, f, offered)
  OBVIOUS
<1> HIDE DEF base, kept, plan, error
<1>4. Confirmed(w, base, plan).plan = plan
  BY <1>2 DEF Confirmed
<1>5. [base EXCEPT !.error = error].plan = None /\ [base EXCEPT !.plan = plan].plan = plan
  BY <1>2
<1>6. error = None /\ BookingStep(w, f).plan = plan
  BY <1>1, <1>2, <1>4, <1>5
<1> QED BY <1>3, <1>6 DEF plan

(* A plan is made of the rule, its expansion and what was asked.           *)
LEMMA PlanHas ==
  ASSUME NEW w, NEW request
  PROVE  /\ PlanBooking(w, request).request = request
         /\ PlanBooking(w, request).rule = BuildRule(RuleInput(request))
         /\ PlanBooking(w, request).expansion
              = Expand(BuildRule(RuleInput(request)), ExpandOptions(request))
BY DEF PlanBooking, Planned, Expansion

(* A plan of a form that holds dates and times is the rule that was asked. *)
LEMMA AnswersPlanTheRule ==
  ASSUME SkipsWithinADay(Viewer.zone), NEW w, NEW f, Timed(f), BookingStep(w, f).plan # None
  PROVE  PlanIsTheRule(BookingStep(w, f).plan)
<1> DEFINE request == BookingFromForm(f)
           plan == PlanBooking(w, request)
           rule == BuildRule(RuleInput(request))
           options == ExpandOptions(request)
<1>1. FormError(f) = None /\ ValidateRequest(w, request) = None
  BY AnswerPlan, NothingWasRefused
<1>2. /\ SoundRule(rule) /\ SoundOptions(options)
      /\ rule.timezone = Viewer.zone /\ rule.frequency = "weekly"
  BY <1>1, PlannedRuleIsSound
<1>3. /\ plan.request = request /\ plan.rule = rule
      /\ plan.expansion = Expand(rule, options)
  BY PlanHas
<1>4. BookingStep(w, f).plan = plan
  BY AnswerPlan
<1> HIDE DEF rule, plan, request
<1>5. ExpandsAsWritten(rule, options)
  BY <1>2, InputsAssumption, RulesExpandAsWritten
<1>6. ASSUME NEW i \in DOMAIN Expand(rule, options).occurrences
      PROVE  LET o == Expand(rule, options).occurrences[i]
             IN  /\ o.startTime = ScheduleOn(rule, o.localDate).startTime
                 /\ IsoWeekday(o.localDate) \in rule.weekdays
  <2> DEFINE o == Expand(rule, options).occurrences[i]
  <2>1. /\ o.localDate \in DatesOfRule(rule, options)
        /\ o.startTime = ScheduleOn(rule, o.localDate).startTime
    BY <1>2, OccurrencesAreTheRules
  <2> HIDE DEF o, options
  <2>2. IsoWeekday(o.localDate) \in rule.weekdays
    BY <1>2, <2>1 DEF DatesOfRule
  <2> QED BY <2>1, <2>2 DEF o
<1>7. PlanIsTheRule(plan)
  BY <1>3, <1>5, <1>6 DEF PlanIsTheRule
<1> QED BY <1>4, <1>7

(* Whatever is typed, picked and answered in whatever order, a plan the    *)
(* form shows is the rule that was asked for: its dates are the first so   *)
(* many of the weekdays named, closures left out, each at the instant that *)
(* shows its own day's time where the viewer is.  Wherever the clocks of   *)
(* the viewer's zone do not skip into another day.                         *)
THEOREM PlansAreTheRule == SkipsWithinADay(Viewer.zone) => (Spec => PlanAsWritten)
<1> SUFFICES ASSUME SkipsWithinADay(Viewer.zone) PROVE Spec => PlanAsWritten
  OBVIOUS
<1>1. FormInv /\ ClockInv /\ [Next]_vars =>
        [(state' # state /\ state'.plan # None) => PlanIsTheRule(state'.plan)]_formVars
  <2> SUFFICES ASSUME FormInv, ClockInv, Next, state' # state, state'.plan # None
               PROVE  PlanIsTheRule(state'.plan)
    BY DEF vars
  <2>1. CASE Rests \/ Edits \/ Sends
    BY <2>1 DEF Rests, Edits, Sends
  <2>2. CASE Serves
    <3>1. queue # <<>> /\ state' = BookingStep(world, Head(queue))
      BY <2>2 DEF Serves, Serve, Waiting, Answered, Commit, ServerAnswer
    <3>2. Timed(Head(queue))
      BY <3>1, HeadIsTimed
    <3> QED BY <3>1, <3>2, AnswersPlanTheRule
  <2>3. CASE Opens
    <3>1. state' = FirstPaint(world')
      BY <2>3 DEF Opens, OpenForm, Opened, AtRest
    <3> QED BY <3>1 DEF FirstPaint
  <2> QED BY <2>1, <2>2, <2>3, StepIsOneOfThem
<1> QED BY <1>1, FormHolds, ClockHolds, PTL DEF Spec, PlanAsWritten
-----------------------------------------------------------------------------
(* The grids.                                                              *)

(* What a grid reads for all its instructors at once resolves, for each of *)
(* them, as what the check reads for that one.                             *)
LEMMA LayersAlike ==
  ASSUME NEW rules, NEW ids, NEW who \in ids, NEW day \in Int
  PROVE  ResolveFrom(FetchLayers(rules, ids, day, day), who, day) = ResolveDay(rules, who, day)
<1> DEFINE many == FetchLayers(rules, ids, day, day)
           one == FetchLayers(rules, {who}, day, day)
<1>1. many.offDays = one.offDays
  BY DEF FetchLayers
<1>2. {x \in many.exceptions : x.who = who /\ x.day = day}
        = {x \in one.exceptions : x.who = who /\ x.day = day}
  <2>1. /\ many.exceptions = {x \in Exceptions : x.who \in ids /\ x.day \in day .. day}
        /\ one.exceptions = {x \in Exceptions : x.who \in {who} /\ x.day \in day .. day}
    BY DEF FetchLayers
  <2> HIDE DEF many, one
  <2> QED BY <2>1
<1>3. many.rules[who][IsoWeekday(day)] = one.rules[who][IsoWeekday(day)]
  <2>1. IsoWeekday(day) \in 1 .. 7
    BY DEF IsoWeekday
  <2>2. /\ many.rules = [p \in ids |-> [weekday \in 1 .. 7 |-> WeeklyRules(rules, p, weekday)]]
        /\ one.rules = [p \in {who} |-> [weekday \in 1 .. 7 |-> WeeklyRules(rules, p, weekday)]]
    BY DEF FetchLayers
  <2> HIDE DEF many, one
  <2> QED BY <2>1, <2>2
<1>4. \A windows : BlocksBetween(many, who, windows) = BlocksBetween(one, who, windows)
  <2> SUFFICES ASSUME NEW windows
               PROVE  BlocksBetween(many, who, windows) = BlocksBetween(one, who, windows)
    OBVIOUS
  <2> DEFINE near(b) == b.start < WallMs(day + 2, 0) /\ b.end > WallMs(day - 1, 0)
             bites(b) == b.start < windows[Len(windows)].end /\ b.end > windows[1].start
  <2>1. /\ many.blocks = {b \in TimeOff : b.who \in ids /\ near(b)}
        /\ one.blocks = {b \in TimeOff : b.who \in {who} /\ near(b)}
    BY DEF FetchLayers
  <2>2. /\ BlocksBetween(many, who, windows) = {b \in many.blocks : b.who = who /\ bites(b)}
        /\ BlocksBetween(one, who, windows) = {b \in one.blocks : b.who = who /\ bites(b)}
    BY DEF BlocksBetween
  <2> HIDE DEF many, one, near, bites
  <2> QED BY <2>1, <2>2
<1> HIDE DEF many, one
<1>5. Applicable(many, who, day) = Applicable(one, who, day)
  BY <1>3 DEF Applicable
<1>6. Declared(many, who, day) = Declared(one, who, day)
  <2> DEFINE From(exceptions, weekly) ==
               IF exceptions = {}
               THEN [spans |-> [i \in DOMAIN weekly |-> <<weekly[i].startTime, weekly[i].endTime>>],
                     zone |-> ZoneOf(weekly), refused |-> FALSE]
               ELSE LET x == CHOOSE x \in exceptions : TRUE
                    IN  [spans |-> x.spans, refused |-> ~x.isAvailable,
                         zone |-> IF x.spans = <<>> \/ x.timezone = None
                                  THEN OrgZone ELSE x.timezone]
             of(layers) == {x \in layers.exceptions : x.who = who /\ x.day = day}
  <2>1. \A layers : Declared(layers, who, day) = From(of(layers), Applicable(layers, who, day))
    BY DEF Declared
  <2>2. of(many) = of(one)
    BY <1>2
  <2> HIDE DEF From, of
  <2> QED BY <1>5, <2>1, <2>2
<1>7. \A declared : Narrowed(many, who, day, declared) = Narrowed(one, who, day, declared)
  <2> SUFFICES ASSUME NEW declared
               PROVE  Narrowed(many, who, day, declared) = Narrowed(one, who, day, declared)
    OBVIOUS
  <2> DEFINE bounds == OrgBounds[IsoWeekday(day)]
             spans == IF bounds = <<>> THEN declared.spans
                      ELSE IntersectSpans(declared.spans, bounds)
             windows == InstantsOf(spans, day, declared.zone)
             OpenUnder(offDays, overlay) ==
               IF day \in offDays THEN Closed("closure")
               ELSE IF declared.refused THEN Closed("unavailable on this date")
               ELSE IF declared.spans = <<>> THEN Closed("no availability declared")
               ELSE IF spans = <<>> THEN Closed("opening hours")
               ELSE overlay
  <2>1. \A layers : Narrowed(layers, who, day, declared)
                      = OpenUnder(layers.offDays, Overlay(layers, who, windows))
    BY DEF Narrowed
  <2> HIDE DEF OpenUnder, windows
  <2>2. Overlay(many, who, windows) = Overlay(one, who, windows)
    BY <1>4 DEF Overlay
  <2> QED BY <1>1, <2>1, <2>2
<1> QED BY <1>6, <1>7 DEF ResolveFrom, ResolveDay, many, one

(* A product of a larger factor is not smaller.                            *)
LEMMA StepsGrow ==
  ASSUME NEW i \in Nat, NEW k \in Nat, i <= k, NEW step \in Nat
  PROVE  i * step <= k * step
<1> DEFINE more == k - i
<1>1. more \in Nat /\ k = i + more
  OBVIOUS
<1> HIDE DEF more
<1>2. (i + more) * step = i * step + more * step
  BY <1>1
<1>3. more * step >= 0 /\ i * step \in Int /\ more * step \in Int
  BY <1>1
<1> QED BY <1>1, <1>2, <1>3

(* The columns lie between the day's own midnight and the next.            *)
LEMMA ColumnsOfTheDay ==
  ASSUME NEW z \in Zones, ChangesWithinADay(z), NEW day \in Int, NEW from \in ClockTimes,
         NEW columns \in Nat, NEW step \in Nat,
         NEW i \in DOMAIN GridColumns(day, from, z, columns, step)
  PROVE  LET start == GridColumns(day, from, z, columns, step)[i]
         IN  start \in Int /\ At(day, 0, z) <= start /\ start < At(day + 1, 0, z)
<1> DEFINE first == At(day, from, z)
           last == At(day + 1, 0, z)
           inside == {n \in 0 .. columns - 1 : first + n * step < last}
           count == Cardinality(inside)
<1>1. /\ first \in Int /\ last \in Int /\ At(day, 0, z) \in Int /\ At(day, 0, z) <= first
  <2>1. from \in Int /\ day + 1 \in Int /\ 0 \in Int /\ from \in 0 .. DayLen - 1
    BY DayLenAssumption DEF ClockTimes
  <2> QED BY <2>1, ResolvedAt, MidnightIsFirst
<1>2. GridColumns(day, from, z, columns, step) = [n \in 1 .. count |-> first + (n - 1) * step]
  BY DEF GridColumns
<1>3. i \in 1 .. count
      /\ GridColumns(day, from, z, columns, step)[i] = first + (i - 1) * step
  BY <1>2
<1>4. inside \in SUBSET (0 .. columns - 1) /\ IsFiniteSet(0 .. columns - 1)
  BY FS_Interval
<1>5. IsFiniteSet(inside) /\ count \in Nat
  BY <1>4, FS_Subset, FS_CardinalityType
<1>6. first + (i - 1) * step < last
  <2> SUFFICES ASSUME ~(first + (i - 1) * step < last) PROVE FALSE
    OBVIOUS
  <2>1. i \in Int /\ i - 1 \in Nat /\ (i - 1) * step \in Int
    BY <1>3, <1>5
  <2>2. ASSUME NEW n \in inside PROVE n \in 0 .. i - 2
    <3>1. n \in Nat /\ n * step \in Int /\ first + n * step < last
      OBVIOUS
    <3>2. i - 1 <= n => (i - 1) * step <= n * step
      BY <2>1, <3>1, StepsGrow
    <3> QED BY <1>1, <2>1, <3>1, <3>2
  <2>3. inside \in SUBSET (0 .. i - 2)
    BY <2>2
  <2> HIDE DEF inside
  <2>4. IsFiniteSet(0 .. i - 2) /\ Cardinality(0 .. i - 2) <= i - 1
    <3>1. i - 2 \in Int /\ 0 \in Int
      BY <2>1
    <3>2. IsFiniteSet(0 .. i - 2)
          /\ Cardinality(0 .. i - 2) = IF 0 > i - 2 THEN 0 ELSE i - 2 - 0 + 1
      BY <3>1, FS_Interval
    <3> QED BY <2>1, <3>1, <3>2
  <2>5. count <= Cardinality(0 .. i - 2) /\ Cardinality(0 .. i - 2) \in Nat
    BY <2>3, <2>4, FS_Subset, FS_CardinalityType
  <2> HIDE DEF count
  <2> QED BY <1>3, <1>5, <2>1, <2>4, <2>5
<1>7. (i - 1) * step \in Nat
  <2>1. i - 1 \in Nat
    BY <1>3, <1>5
  <2> QED BY <2>1
<1> DEFINE passed == (i - 1) * step
<1> HIDE DEF first, last, inside, count, passed
<1>8. /\ first + passed \in Int /\ At(day, 0, z) <= first + passed /\ first + passed < last
  BY <1>1, <1>6, <1>7 DEF passed
<1> QED BY <1>3, <1>8 DEF passed, last

(* What an instructor is shown to be at, over the viewer's day.            *)
LEMMA BusyOfTheDay ==
  ASSUME NEW w, NEW candidates, NEW who \in candidates, NEW day \in Int
  PROVE  BookedOver(w, candidates, day, 1)[who]
           = {[start |-> s.start, end |-> s.end] :
                s \in {t \in Live(w.sessions, At(day, 0, Viewer.zone),
                                  At(day + 1, 0, Viewer.zone)) : t.who = who}}
BY DEF BookedOver, BusyIntervals

(* A session in the way of part of a day is one the day's intervals show.  *)
LEMMA NobodyIsElsewhere ==
  ASSUME NEW w, \A s \in w.sessions : Lasts(s), NEW candidates, NEW who \in candidates,
         NEW day \in Int, NEW start \in Int, NEW end \in Int,
         At(day, 0, Viewer.zone) <= start, end <= At(day + 1, 0, Viewer.zone),
         ~OverlapsBusy(BookedOver(w, candidates, day, 1)[who], start, end)
  PROVE  {t \in Live(w.sessions, start, end) : t.who = who} = {}
<1> DEFINE first == At(day, 0, Viewer.zone)
           last == At(day + 1, 0, Viewer.zone)
<1>1. first \in Int /\ last \in Int
  <2>1. 0 \in Int /\ day + 1 \in Int /\ Viewer.zone \in Zones
    BY InputsAssumption
  <2> QED BY <2>1, ResolvedAt
<1> SUFFICES ASSUME NEW s \in w.sessions, s.status \in BLOCKING_STATUSES, s.who = who,
                    Overlaps(s.start, s.end, start, end)
             PROVE  FALSE
  BY DEF Live
<1>2. s.start \in Int /\ s.end \in Int
  BY DEF Lasts
<1> HIDE DEF first, last
<1>3. Overlaps(s.start, s.end, first, last)
  BY <1>1, <1>2 DEF Overlaps, first, last
<1>4. s \in {t \in Live(w.sessions, first, last) : t.who = who}
  BY <1>3 DEF Live
<1>5. [start |-> s.start, end |-> s.end] \in BookedOver(w, candidates, day, 1)[who]
  BY <1>4, BusyOfTheDay DEF first, last
<1> DEFINE taken == [start |-> s.start, end |-> s.end]
<1>6. taken.start = s.start /\ taken.end = s.end
  OBVIOUS
<1> HIDE DEF taken
<1>7. Overlaps(taken.start, taken.end, start, end)
  BY <1>6
<1> QED BY <1>5, <1>7 DEF OverlapsBusy, taken

(* What lies in a window of its own day is available.                      *)
LEMMA WindowIsAvailable ==
  ASSUME NEW rules, NEW who, NEW start, NEW end, NEW zone, NEW day, CivilDate(start, zone) = day,
         NEW win \in ResolveDay(rules, who, day).windows, WindowContains(win, start, end)
  PROVE  IsAvailable(rules, who, start, end, zone).available = TRUE
<1> DEFINE days == {CivilDate(start, zone), CivilDate(end - 1, zone)}
           of == [d \in days |-> ResolveDay(rules, who, d)]
<1>1. IsAvailable(rules, who, start, end, zone) = Within(of, start, end)
  BY DEF IsAvailable
<1>2. day \in DOMAIN of /\ of[day] = ResolveDay(rules, who, day)
  OBVIOUS
<1> HIDE DEF of
<1>3. \E d \in DOMAIN of : \E x \in of[d].windows : WindowContains(x, start, end)
  BY <1>2
<1>4. Within(of, start, end) = [available |-> TRUE, reason |-> None]
  BY <1>3 DEF Within
<1> QED BY <1>1, <1>4

(* A cell of a day's grid that is drawn as free.                           *)
LEMMA FreeCell ==
  ASSUME ChangesWithinADay(Viewer.zone), NEW w, \A s \in w.sessions : Lasts(s),
         NEW candidates, NEW day \in Int, NEW from \in ClockTimes, NEW duration \in Int,
         NEW columns \in Nat, NEW step \in Nat
  PROVE  LET g == DayGrid(w.rules, candidates, day, from, duration, Viewer.zone, columns, step,
                          BookedOver(w, candidates, day, 1))
         IN  /\ g.day = day
             /\ \A who \in DOMAIN g.free : \A i \in g.free[who] :
                  g.starts[i] + duration <= At(day + 1, 0, Viewer.zone) =>
                    Check(w.rules, w.sessions,
                          [start |-> g.starts[i], end |-> g.starts[i] + duration, who |-> who,
                           students |-> {}, room |-> None, zone |-> Viewer.zone]) = {}
<1> DEFINE z == Viewer.zone
           slots == GridColumns(day, from, z, columns, step)
           resolved == ResolveRange(w.rules, candidates, day, 1)
           busy == BookedOver(w, candidates, day, 1)
           g == Cells(slots, resolved, candidates, day, duration, z, busy)
           Seen(who, i) == \E win \in resolved[who][day].windows :
                             WindowContains(win, slots[i], slots[i] + duration)
<1>1. /\ g.day = day /\ g.starts = slots /\ DOMAIN g.free = candidates
      /\ \A who \in candidates : \A i \in g.free[who] :
           /\ i \in DOMAIN slots /\ Seen(who, i)
           /\ ~OverlapsBusy(busy[who], slots[i], slots[i] + duration)
  BY DEF Cells
<1>2. \A who \in candidates : resolved[who][day] = ResolveDay(w.rules, who, day)
  <2> SUFFICES ASSUME NEW who \in candidates
               PROVE  resolved[who][day] = ResolveDay(w.rules, who, day)
    OBVIOUS
  <2>1. day + 1 - 1 = day /\ day \in day .. day
    OBVIOUS
  <2>2. resolved = [p \in candidates |-> [d \in day .. day |->
                      ResolveFrom(FetchLayers(w.rules, candidates, day, day), p, d)]]
    BY <2>1 DEF ResolveRange
  <2> HIDE DEF resolved
  <2>3. resolved[who][day] = ResolveFrom(FetchLayers(w.rules, candidates, day, day), who, day)
    BY <2>1, <2>2
  <2> QED BY <2>3, LayersAlike
<1>3. \A i \in DOMAIN slots : /\ slots[i] \in Int /\ At(day, 0, z) <= slots[i]
                               /\ slots[i] < At(day + 1, 0, z)
  BY InputsAssumption, ColumnsOfTheDay
<1>4. g = DayGrid(w.rules, candidates, day, from, duration, Viewer.zone, columns, step,
                  BookedOver(w, candidates, day, 1))
  BY DEF DayGrid
<1> HIDE DEF slots, resolved, busy, g
<1>5. ASSUME NEW who \in candidates, NEW i \in g.free[who],
             slots[i] + duration <= At(day + 1, 0, z)
      PROVE  Check(w.rules, w.sessions,
                   [start |-> slots[i], end |-> slots[i] + duration, who |-> who,
                    students |-> {}, room |-> None, zone |-> z]) = {}
  <2> DEFINE start == slots[i]
             end == slots[i] + duration
             asked == [start |-> start, end |-> end, who |-> who, students |-> {},
                       room |-> None, zone |-> z]
  <2>1. start \in Int /\ end \in Int /\ At(day, 0, z) <= start /\ start < At(day + 1, 0, z)
    BY <1>1, <1>3
  <2>2. ~OverlapsBusy(busy[who], start, end)
    BY <1>1
  <2>3. PICK win \in ResolveDay(w.rules, who, day).windows : WindowContains(win, start, end)
    BY <1>1, <1>2
  <2>4. end <= At(day + 1, 0, z)
    BY <1>5
  <2> HIDE DEF start, end
  <2>5. {t \in Live(w.sessions, start, end) : t.who = who} = {}
    BY <2>1, <2>2, <2>4, NobodyIsElsewhere DEF busy
  <2>6. CivilDate(start, z) = day
    BY <2>1, InputsAssumption, DateBetweenMidnights
  <2>7. IsAvailable(w.rules, who, start, end, z).available = TRUE
    BY <2>3, <2>6, WindowIsAvailable
  <2>8. Unavailable(IsAvailable(w.rules, who, start, end, z)) = {}
    BY <2>7 DEF Unavailable, When
  <2>9. Check(w.rules, w.sessions, asked)
          = {"instructor_busy" : s \in {t \in Live(w.sessions, start, end) : t.who = who}}
            \cup {"student_busy" : s \in {t \in Live(w.sessions, start, end) :
                                            t.students \cap {} # {}}}
            \cup {"location_busy" : s \in {t \in Live(w.sessions, start, end) :
                                             t.room = None /\ None # None}}
            \cup Unavailable(IsAvailable(w.rules, who, start, end, z))
    BY DEF Check
  <2>10. Check(w.rules, w.sessions, asked) = {}
    <3> HIDE DEF asked
    <3> QED BY <2>5, <2>8, <2>9
  <2> QED BY <2>10 DEF start, end
<1> QED BY <1>1, <1>4, <1>5

(* Only a plan that nothing was refused of is written.                     *)
LEMMA AnswerWrites ==
  ASSUME NEW w, NEW f, NEW s \in BookingStep(w, f).written
  PROVE  /\ BookingStep(w, f).plan = PlanBooking(w, BookingFromForm(f))
         /\ BookingStep(w, f).written = WrittenBy(w, PlanBooking(w, BookingFromForm(f)))
         /\ \E offered : PlanError(w, f, offered) = None
<1> DEFINE base == [context |-> BookingContext(w, Asked(f)), values |-> f,
                    plan |-> None, error |-> None, written |-> {}]
           kept == IF f.school = None THEN f.students ELSE f.students \cap base.context.students
           plan == PlanBooking(w, BookingFromForm(f))
           error == PlanError(w, f, kept)
<1>1. BookingStep(w, f)
        = IF f.step = "refresh" THEN base
          ELSE IF error # None THEN [base EXCEPT !.error = error]
          ELSE IF f.step = "confirm" THEN Confirmed(w, base, plan)
          ELSE [base EXCEPT !.plan = plan]
  BY DEF BookingStep, Answer, PlanStep
<1>2. base.written = {} /\ DOMAIN base = {"context", "values", "plan", "error", "written"}
  OBVIOUS
<1>3. \E offered : error = PlanError(w, f, offered)
  OBVIOUS
<1> HIDE DEF base, kept, plan, error
<1>4. /\ Confirmed(w, base, plan).plan = plan
      /\ Confirmed(w, base, plan).written \in {{}, WrittenBy(w, plan)}
  BY <1>2 DEF Confirmed
<1>5. [base EXCEPT !.error = error].written = {} /\ [base EXCEPT !.plan = plan].written = {}
  BY <1>2
<1>6. error = None /\ BookingStep(w, f) = Confirmed(w, base, plan)
  BY <1>1, <1>2, <1>5
<1> QED BY <1>3, <1>4, <1>6 DEF plan

(* Every grid of an answer is of the rows it was asked of.                 *)
LEMMA AnswersPromiseWhatIsFree ==
  ASSUME ChangesWithinADay(Viewer.zone), \A s \in world.sessions : Lasts(s), NEW asked,
         asked.date \in Days, asked.time \in ClockTimes \/ asked.date = None,
         asked.duration \in Int
  PROVE  FreeCellsAreFree(BookingContext(world, asked))
<1> DEFINE eligible == EligibleFor(world, asked)
           selected == Selected(asked, eligible)
           shown == FirstOf(eligible.instructors, Grid.shown)
           block == BlockFor(world, asked)
           context == BookingContext(world, asked)
           Drawing(people, columns, step) ==
             DayGrid(world.rules, people, asked.date, asked.time, asked.duration, Viewer.zone,
                     columns, step, BookedOver(world, people, asked.date, 1))
           Free(g) == \A who \in DOMAIN g.free : \A i \in g.free[who] :
                        g.starts[i] + asked.duration <= At(g.day + 1, 0, Viewer.zone) =>
                          Check(world.rules, world.sessions,
                                [start |-> g.starts[i], end |-> g.starts[i] + asked.duration,
                                 who |-> who, students |-> {}, room |-> None,
                                 zone |-> Viewer.zone]) = {}
<1>1. /\ block.suggestions
           = IF asked.date = None \/ selected = None \/ asked.repeatDays # <<>> THEN None
             ELSE Drawing({selected}, Grid.suggestColumns, Grid.suggestStep)
      /\ block.grid = IF asked.date = None \/ selected # None THEN None
                      ELSE Drawing(shown, Grid.columns, Grid.step)
  BY DEF BlockFor, Block
<1>2. /\ context.suggestions = block.suggestions /\ context.grid = block.grid
      /\ context.chosenDuration = asked.duration
  BY ContextHas, ChosenIs
<1>3. FreeCellsAreFree(context) <=> \A g \in {context.grid, context.suggestions} \ {None} : Free(g)
  BY <1>2 DEF FreeCellsAreFree
<1> HIDE DEF block, context, selected, shown
<1>4. ASSUME asked.date # None, NEW people, NEW columns \in Nat, NEW step \in Nat
      PROVE  Free(Drawing(people, columns, step))
  <2> DEFINE g == Drawing(people, columns, step)
  <2>1. asked.date \in Int /\ asked.time \in ClockTimes
    BY <1>4 DEF Days
  <2>2. /\ g.day = asked.date
        /\ \A who \in DOMAIN g.free : \A i \in g.free[who] :
             g.starts[i] + asked.duration <= At(asked.date + 1, 0, Viewer.zone) =>
               Check(world.rules, world.sessions,
                     [start |-> g.starts[i], end |-> g.starts[i] + asked.duration, who |-> who,
                      students |-> {}, room |-> None, zone |-> Viewer.zone]) = {}
    BY <1>4, <2>1, FreeCell
  <2> HIDE DEF g
  <2>3. Free(g)
    BY <2>2
  <2> QED BY <2>3 DEF g
<1> HIDE DEF Free, Drawing
<1>5. ASSUME NEW g \in {context.grid, context.suggestions}, g # None PROVE Free(g)
  <2>1. {Grid.step, Grid.columns, Grid.suggestStep, Grid.suggestColumns} \subseteq Nat
    BY InputsAssumption
  <2>2. asked.date # None
    BY <1>1, <1>2, <1>5
  <2>3. CASE g = context.grid
    BY <1>1, <1>2, <1>4, <1>5, <2>1, <2>2, <2>3
  <2>4. CASE g = context.suggestions
    BY <1>1, <1>2, <1>4, <1>5, <2>1, <2>2, <2>4
  <2> QED BY <2>3, <2>4
<1>6. FreeCellsAreFree(context)
  BY <1>3, <1>5
<1> QED BY <1>6 DEF context

(* Every session, from whichever hand, is from one instant to another.     *)
SessionsLast == \A s \in world.sessions : Lasts(s)

(* What a booking writes lasts from one instant to another.                *)
LEMMA WrittenLasts ==
  ASSUME NEW w, NEW f, Timed(f)
  PROVE  \A s \in BookingStep(w, f).written : Lasts(s)
<1> DEFINE request == BookingFromForm(f)
           plan == PlanBooking(w, request)
           rule == BuildRule(RuleInput(request))
           options == ExpandOptions(request)
           occurrences == Expand(rule, options).occurrences
<1> SUFFICES ASSUME NEW s \in BookingStep(w, f).written PROVE Lasts(s)
  OBVIOUS
<1>1. BookingStep(w, f).plan = plan /\ s \in WrittenBy(w, plan)
      /\ \E offered : PlanError(w, f, offered) = None
  BY AnswerWrites
<1>2. /\ SoundRule(rule) /\ SoundOptions(options)
  BY <1>1, NothingWasRefused, PlannedRuleIsSound
<1>3. plan.expansion.occurrences = occurrences
  BY PlanHas
<1>4. PICK i \in DOMAIN occurrences :
        /\ s.start = occurrences[i].start /\ s.end = occurrences[i].end
        /\ {"start", "end"} \subseteq DOMAIN s
  <2> HIDE DEF occurrences, plan
  <2> QED BY <1>1, <1>3 DEF WrittenBy
<1> HIDE DEF rule, options, plan, request
<1>5. occurrences[i].start \in Int /\ occurrences[i].end \in Int
  BY <1>2, OccurrencesLast
<1> QED BY <1>4, <1>5 DEF Lasts

(* So do the rows of others, each given its place.                         *)
LEMMA InsertedLast ==
  ASSUME NEW sessions, \A s \in sessions : Lasts(s), NEW new, \A i \in DOMAIN new : Lasts(new[i])
  PROVE  \A s \in Inserted(sessions, new) : Lasts(s)
<1> SUFFICES ASSUME NEW i \in DOMAIN new,
                    NEW s, s = Over(new[i], [id |-> Cardinality(sessions) + i])
             PROVE  Lasts(s)
  BY DEF Inserted
<1> DEFINE row == new[i]
           place == [id |-> Cardinality(sessions) + i]
<1>1. Lasts(row) /\ s = Over(row, place)
  OBVIOUS
<1> HIDE DEF row, place
<1>2. s = [x \in DOMAIN row \cup DOMAIN place |-> IF x \in DOMAIN row THEN row[x] ELSE place[x]]
  BY <1>1 DEF Over
<1>3. /\ {"start", "end"} \subseteq DOMAIN s
      /\ s["start"] = row["start"] /\ s["end"] = row["end"]
  BY <1>1, <1>2 DEF Lasts
<1> QED BY <1>1, <1>3 DEF Lasts

(* At a screen, and in the form while nothing is written, no row changes.  *)
LEMMA RowsAreLeftAlone ==
  /\ AtScreen => UNCHANGED world
  /\ AtForm => UNCHANGED world
<1>1. Click => UNCHANGED world
  BY DEF Click
<1>2. AtScreen => Click
  BY DEF AtScreen, Visit, LeaveForm, Open, FollowLink, ApplyDrawer, Search, CloseMenu, Reset,
         GoTo, TurnPage, Submitted, Apply, Export, OpenBooking
<1>3. PersonActs => Click
  BY DEF PersonActs, Fill, ChooseStudent, RemoveStudent, ChangeRoster, EditCount, ChangeRows,
         RemoveDay, EditWeekday, EditRowTime, EditRowLength, AddDay, PickRepeatTime,
         LoadMoreDays, PickDate, PickInstructor, PickTime, ClearInstructor, Preview, Book, Picks
<1>4. TimerFires \/ Serve => UNCHANGED world
  BY DEF TimerFires, Serve, Answered
<1> QED BY <1>1, <1>2, <1>3, <1>4 DEF AtForm

(* The rows hold.                                                          *)
LEMMA SessionsHold == Spec => []SessionsLast
<1>1. Init => SessionsLast
  BY RowsAssumption DEF Init, SessionsLast
<1>2. ClockInv /\ SessionsLast /\ [Next]_vars => SessionsLast'
  <2> SUFFICES ASSUME ClockInv, SessionsLast, [Next]_vars PROVE SessionsLast'
    OBVIOUS
  <2>1. CASE UNCHANGED world
    BY <2>1 DEF SessionsLast
  <2>2. CASE FinishBooking
    <3> DEFINE written == BookingStep(world, Head(queue)).written
    <3>1. queue # <<>> /\ world' = [world EXCEPT !.sessions = @ \cup written]
      BY <2>2 DEF FinishBooking, Waiting, Wrote, ServerAnswer
    <3>2. \A s \in written : Lasts(s)
      BY <3>1, HeadIsTimed, WrittenLasts
    <3> HIDE DEF written
    <3>3. world'.sessions \subseteq world.sessions \cup written
      BY <3>1 DEF ClockInv
    <3> QED BY <3>2, <3>3 DEF SessionsLast
  <2>3. CASE OtherPeople
    <3>1. PICK other \in Others : Elsewhere(other)
      BY <2>3 DEF OtherPeople
    <3>2. \A i \in DOMAIN other.sessions : Lasts(other.sessions[i])
      BY InputsAssumption
    <3> DEFINE more == Inserted(world.sessions, other.sessions)
    <3>3. \A s \in more : Lasts(s)
      BY <3>2, InsertedLast DEF SessionsLast
    <3>4. world' = [world EXCEPT !.sessions = more, !.links = @ \ other.links,
                                 !.active = @ \ other.active, !.now = @ + other.hours]
      BY <3>1 DEF Elsewhere
    <3> HIDE DEF more
    <3>5. world'.sessions = more
      BY <3>4
    <3> QED BY <3>3, <3>5 DEF SessionsLast
  <2>4. ASSUME NEW held \in TabWrites, OtherTab(held.screen, held.query) PROVE SessionsLast'
    BY <2>1, <2>4 DEF OtherTab
  <2>5. CASE UNCHANGED vars
    BY <2>1, <2>5 DEF vars, formVars
  <2>6. CASE AtScreen \/ AtForm
    BY <2>1, <2>6, RowsAreLeftAlone
  <2> QED BY <2>2, <2>3, <2>4, <2>5, <2>6 DEF Next
<1> QED BY <1>1, <1>2, ClockHolds, PTL DEF Spec

(* Whatever others book or withdraw in the meantime and however long the   *)
(* form stands open, a cell it draws as free is one the conflict check of  *)
(* the preview had nothing against when it was drawn: hours, exceptions,   *)
(* closures, time off and bookings are read alike by both.  Wherever the   *)
(* clocks of the viewer's zone change within a day.                        *)
THEOREM FreeIsFree == ChangesWithinADay(Viewer.zone) => (Spec => GridNeverOverpromises)
<1> SUFFICES ASSUME ChangesWithinADay(Viewer.zone) PROVE Spec => GridNeverOverpromises
  OBVIOUS
<1>1. FormInv /\ ClockInv /\ SessionsLast /\ [Next]_vars =>
        [state' # state => FreeCellsAreFree(state'.context)]_formVars
  <2> SUFFICES ASSUME FormInv, ClockInv, SessionsLast, Next, state' # state
               PROVE  FreeCellsAreFree(state'.context)
    BY DEF vars
  <2>1. CASE Rests \/ Edits \/ Sends
    BY <2>1 DEF Rests, Edits, Sends
  <2>2. CASE Serves
    <3> DEFINE asked == Asked(Head(queue))
    <3>1. queue # <<>> /\ state' = BookingStep(world, Head(queue))
      BY <2>2 DEF Serves, Serve, Waiting, Answered, Commit, ServerAnswer
    <3>2. state'.context = BookingContext(world, asked)
      BY <3>1, AnswerContext
    <3>3. asked.date \in Days /\ asked.time \in ClockTimes /\ asked.duration \in Int
      BY <3>1, HeadIsTimed DEF Timed, Asked
    <3> HIDE DEF asked
    <3> QED BY <3>2, <3>3, AnswersPromiseWhatIsFree DEF SessionsLast
  <2>3. CASE Opens
    <3> DEFINE asked == [Asked(FirstValues) EXCEPT !.time = Grid.openTime]
    <3>1. state'.context = BookingContext(world', asked)
      BY <2>3 DEF Opens, OpenForm, Opened, AtRest, FirstPaint
    <3>2. asked.date = None
      BY DEF Asked, FirstValues
    <3> HIDE DEF asked
    <3>3. BlockFor(world', asked).suggestions = None /\ BlockFor(world', asked).grid = None
      BY <3>2 DEF BlockFor, Block
    <3>4. state'.context.suggestions = None /\ state'.context.grid = None
      BY <3>1, <3>3, ContextHas
    <3> QED BY <3>4 DEF FreeCellsAreFree
  <2> QED BY <2>1, <2>2, <2>3, StepIsOneOfThem
<1> QED BY <1>1, FormHolds, ClockHolds, SessionsHold, PTL DEF Spec, GridNeverOverpromises

-----------------------------------------------------------------------------
(* Lists in order, midnights, and the numbers rows are inserted with.      *)

(* Whatever the total order, each row of a finite set has its place in the *)
(* list put in order, and each place its row.                              *)
Ranked(S, Below, list) ==
  /\ IsFiniteSet(S) /\ \A i \in S : Below[i] \in SUBSET S /\ i \notin Below[i]
  /\ \A i, j \in S : i # j => i \in Below[j] \/ j \in Below[i]
  /\ \A i, j, k \in S : i \in Below[j] /\ j \in Below[k] => i \in Below[k]
  /\ list = [n \in DOMAIN list |-> list[n]] /\ DOMAIN list = 1 .. Cardinality(S)
  /\ \A n \in DOMAIN list, i \in S :
       Cardinality(Below[i]) = n - 1 => list[n] \in S /\ Cardinality(Below[list[n]]) = n - 1

LEMMA InOrderIsAll ==
  ASSUME NEW S, NEW Below, NEW list, Ranked(S, Below, list)
  PROVE  /\ list \in Seq(S) /\ Len(list) = Cardinality(S)
         /\ \A s \in S : \E n \in DOMAIN list : list[n] = s
<1>0. /\ IsFiniteSet(S) /\ \A i \in S : Below[i] \in SUBSET S
      /\ \A i \in S : i \notin Below[i]
      /\ \A i \in S : \A j \in S : i # j => i \in Below[j] \/ j \in Below[i]
      /\ \A i \in S : \A j \in S : \A k \in S :
           i \in Below[j] /\ j \in Below[k] => i \in Below[k]
      /\ list = [n \in 1 .. Cardinality(S) |-> list[n]]
      /\ \A n \in 1 .. Cardinality(S) :
           \A i \in S : Cardinality(Below[i]) = n - 1 =>
             list[n] \in S /\ Cardinality(Below[list[n]]) = n - 1
  BY DEF Ranked
<1> DEFINE top == Cardinality(S) - 1
           rank == [i \in S |-> Cardinality(Below[i])]
<1>1. Cardinality(S) \in Nat
  BY <1>0, FS_CardinalityType
<1>2. ASSUME NEW i \in S PROVE IsFiniteSet(Below[i]) /\ Cardinality(Below[i]) \in 0 .. top
  <2>1. Below[i] \in SUBSET S /\ Below[i] # S
    BY <1>0
  <2>2. /\ IsFiniteSet(Below[i]) /\ Cardinality(Below[i]) <= Cardinality(S)
        /\ Cardinality(Below[i]) # Cardinality(S)
    BY <1>0, <2>1, FS_Subset
  <2>3. Cardinality(Below[i]) \in Nat
    BY <2>2, FS_CardinalityType
  <2> QED BY <1>1, <2>2, <2>3
<1>3. ASSUME NEW i \in S, NEW k \in S, i \in Below[k]
      PROVE  Cardinality(Below[i]) # Cardinality(Below[k])
  <2>1. i \in Below[k] /\ i \notin Below[i]
    BY <1>0, <1>3
  <2>2. Below[i] \in SUBSET Below[k]
    BY <1>0, <1>3
  <2> QED BY <1>2, <2>1, <2>2, FS_Subset
<1>4. rank \in Injection(S, 0 .. top)
  <2>1. rank \in [S -> 0 .. top]
    BY <1>2
  <2>2. ASSUME NEW i \in S, NEW k \in S, rank[i] = rank[k] PROVE i = k
    <3>1. rank[i] = Cardinality(Below[i]) /\ rank[k] = Cardinality(Below[k])
      BY DEF rank
    <3> HIDE DEF rank
    <3>2. i \notin Below[k] /\ k \notin Below[i]
      BY <1>3, <2>2, <3>1
    <3> QED BY <1>0, <3>2
  <2> HIDE DEF rank
  <2> QED BY <2>1, <2>2 DEF Injection, IsInjective
<1>5. IsFiniteSet(0 .. top) /\ Cardinality(0 .. top) = Cardinality(S)
  <2>1. top \in Int /\ 0 \in Int
    BY <1>1
  <2>2. 0 > top => Cardinality(S) = 0
    BY <1>1
  <2> HIDE DEF top
  <2>3. IsFiniteSet(0 .. top) /\ Cardinality(0 .. top) = IF 0 > top THEN 0 ELSE top - 0 + 1
    BY <2>1, FS_Interval
  <2> QED BY <1>1, <2>1, <2>2, <2>3 DEF top
<1>6. rank \in Surjection(S, 0 .. top)
  <2> HIDE DEF rank, top
  <2> QED BY <1>4, <1>5, FS_Injection
<1>7. \A n \in 1 .. Cardinality(S) : n - 1 \in 0 .. top
  BY <1>1
<1>8. \A n \in 1 .. Cardinality(S) : \E i \in S : rank[i] = n - 1
  <2> HIDE DEF rank, top
  <2> QED BY <1>6, <1>7 DEF Surjection
<1>9. ASSUME NEW n \in 1 .. Cardinality(S) PROVE list[n] \in S /\ rank[list[n]] = n - 1
  <2>1. \E i \in S : Cardinality(Below[i]) = n - 1
    BY <1>8
  <2>3. list[n] \in S /\ Cardinality(Below[list[n]]) = n - 1
    BY <1>0, <2>1
  <2> QED BY <2>3
<1>10. list \in [1 .. Cardinality(S) -> S]
  <2> HIDE DEF rank
  <2> QED BY <1>0, <1>9
<1>11. list \in Seq(S) /\ Len(list) = Cardinality(S)
  BY <1>1, <1>10, SeqOfFunction
<1>12. ASSUME NEW s \in S PROVE \E n \in DOMAIN list : list[n] = s
  <2>1. rank[s] \in 0 .. top
    BY <1>2
  <2> DEFINE n == rank[s] + 1
  <2>2. n \in 1 .. Cardinality(S) /\ n - 1 = rank[s]
    <3> HIDE DEF rank
    <3> QED BY <1>1, <2>1
  <2> HIDE DEF rank, n
  <2>3. list[n] \in S /\ rank[list[n]] = rank[s]
    BY <1>9, <2>2
  <2>4. list[n] = s
    BY <1>4, <2>3 DEF Injection, IsInjective
  <2> QED BY <1>10, <2>2, <2>4
<1> QED BY <1>11, <1>12

(* Before the midnight a day begins with is before the day.                *)
LEMMA BeforeMidnight ==
  ASSUME NEW z \in Zones, ChangesWithinADay(z), NEW d \in Int, NEW i \in Int
  PROVE  i < At(d, 0, z) <=> CivilDate(i, z) < d
<1> DEFINE u == WallMs(d, 0)
           before == ZoneTable[z].before
           after == ZoneTable[z].after
           change == ZoneTable[z].at
           shown == WallOf(z, i)
<1>1. /\ before \in Int /\ after \in Int /\ change \in Int /\ DayLen \in Int /\ DayLen > 0
      /\ u \in Int
  BY ZoneFacts DEF WallMs
<1>2. At(d, 0, z) = IF u - before < change THEN u - before
                    ELSE IF u - after >= change THEN u - after ELSE u - before
  <2>1. 0 \in Int
    OBVIOUS
  <2> QED BY <2>1, ResolvedAt
<1>3. ~(change + before < u /\ u < change + after) /\ ~(change + after < u /\ u < change + before)
  BY <1>1, MidnightIsNotSkipped
<1>4. shown = IF i < change THEN i + before ELSE i + after
  BY DEF WallOf, Offset
<1>5. shown < u <=> shown \div DayLen < d
  <2>1. shown \in Int
    BY <1>1, <1>4
  <2>2. u = d * DayLen
    BY <1>1 DEF WallMs
  <2> HIDE DEF shown, u
  <2> QED BY <1>1, <2>1, <2>2
<1>6. i < At(d, 0, z) <=> shown < u
  <2> HIDE DEF shown, u, before, after, change
  <2> QED BY <1>1, <1>2, <1>3, <1>4
<1> QED BY <1>5, <1>6 DEF CivilDate

(* Rows that take the numbers after the last are numbered too.             *)
LEMMA NumberedGrows ==
  ASSUME NEW sessions, Numbered(sessions), NEW n \in Nat, NEW new,
         new = [i \in 1 .. n |-> new[i]],
         \A i \in 1 .. n : new[i].id = Cardinality(sessions) + i
  PROVE  Numbered(sessions \cup {new[i] : i \in 1 .. n})
<1> DEFINE more == {new[i] : i \in 1 .. n}
           c == Cardinality(sessions)
           all == sessions \cup more
<1>1. IsFiniteSet(sessions) /\ c \in Nat
  BY FS_CardinalityType DEF Numbered
<1>2. \A s \in more : \E i \in 1 .. n : s = new[i] /\ s.id = c + i
  OBVIOUS
<1>3. new \in Bijection(1 .. n, more)
  <2>1. new \in [1 .. n -> more]
    OBVIOUS
  <2>2. ASSUME NEW i \in 1 .. n, NEW k \in 1 .. n, new[i] = new[k] PROVE i = k
    <3>1. c + i = c + k
      BY <2>2
    <3> HIDE DEF c
    <3> QED BY <1>1, <3>1
  <2> HIDE DEF c
  <2> QED BY <2>1, <2>2 DEF Bijection, Injection, IsInjective, Surjection
<1>4. IsFiniteSet(1 .. n) /\ Cardinality(1 .. n) = n
  <2>1. 1 \in Int /\ n \in Int
    OBVIOUS
  <2>2. IsFiniteSet(1 .. n) /\ Cardinality(1 .. n) = IF 1 > n THEN 0 ELSE n - 1 + 1
    BY <2>1, FS_Interval
  <2> QED BY <2>2
<1>5. IsFiniteSet(more) /\ Cardinality(more) = n
  <2> HIDE DEF more
  <2> QED BY <1>3, <1>4, FS_Bijection DEF ExistsBijection
<1>6. sessions \cap more = {}
  <2> SUFFICES ASSUME NEW s \in sessions, s \in more PROVE FALSE
    OBVIOUS
  <2>1. s.id \in 1 .. c
    BY DEF Numbered
  <2>2. PICK i \in 1 .. n : s.id = c + i
    BY <1>2
  <2> HIDE DEF c, more
  <2> QED BY <1>1, <2>1, <2>2
<1>7. IsFiniteSet(all) /\ Cardinality(all) = c + n
  <2> HIDE DEF more
  <2>1. IsFiniteSet(sessions \cap more) /\ Cardinality(sessions \cap more) = 0
    BY <1>6, FS_EmptySet
  <2>2. /\ IsFiniteSet(all)
        /\ Cardinality(all) = c + Cardinality(more) - Cardinality(sessions \cap more)
    BY <1>1, <1>5, FS_Union
  <2> QED BY <1>1, <1>5, <2>1, <2>2
<1>8. \A s \in all : s.id \in 1 .. c + n
  <2>1. \A s \in sessions : s.id \in 1 .. c
    BY DEF Numbered
  <2> HIDE DEF c, more
  <2> QED BY <1>1, <1>2, <2>1
<1>9. ASSUME NEW s \in all, NEW t \in all, s.id = t.id PROVE s = t
  <2>1. CASE s \in sessions /\ t \in sessions
    BY <1>9, <2>1 DEF Numbered
  <2>2. CASE s \in more /\ t \in more
    <3>1. PICK i \in 1 .. n : s = new[i] /\ s.id = c + i
      BY <1>2, <2>2
    <3>2. PICK k \in 1 .. n : t = new[k] /\ t.id = c + k
      BY <1>2, <2>2
    <3> HIDE DEF c, more
    <3>3. i = k
      BY <1>1, <1>9, <3>1, <3>2
    <3> QED BY <3>1, <3>2, <3>3
  <2>3. ASSUME NEW x \in sessions, NEW y \in more PROVE x.id # y.id
    <3>1. x.id \in 1 .. c
      BY DEF Numbered
    <3>2. PICK i \in 1 .. n : y.id = c + i
      BY <1>2
    <3> HIDE DEF c, more
    <3> QED BY <1>1, <3>1, <3>2
  <2> HIDE DEF more
  <2> QED BY <1>9, <2>1, <2>2, <2>3
<1>10. Numbered(all)
  <2> HIDE DEF c, all
  <2> QED BY <1>7, <1>8, <1>9 DEF Numbered
<1> QED BY <1>10

(* What a booking writes takes the numbers after the last.                 *)
LEMMA WrittenAreNumbered ==
  ASSUME NEW w, Numbered(w.sessions), NEW f, Timed(f)
  PROVE  Numbered(w.sessions \cup BookingStep(w, f).written)
<1> DEFINE request == BookingFromForm(f)
           plan == PlanBooking(w, request)
           rule == BuildRule(RuleInput(request))
           options == ExpandOptions(request)
           occurrences == Expand(rule, options).occurrences
           written == BookingStep(w, f).written
<1> SUFFICES ASSUME written # {} PROVE Numbered(w.sessions \cup written)
  <2>1. ASSUME written = {} PROVE Numbered(w.sessions \cup written)
    <3>1. w.sessions \cup written = w.sessions
      BY <2>1
    <3> QED BY <3>1, Zenon
  <2> QED BY <2>1, Zenon
<1>1. written = WrittenBy(w, plan) /\ \E offered : PlanError(w, f, offered) = None
  BY AnswerWrites
<1>2. /\ SoundRule(rule) /\ SoundOptions(options)
  BY <1>1, NothingWasRefused, PlannedRuleIsSound
<1>3. plan.expansion.occurrences = occurrences
  BY PlanHas
<1>4. PICK n \in Nat : DOMAIN occurrences = 1 .. n
  BY <1>2, OccurrencesAreListed
<1> HIDE DEF occurrences, rule, options, plan, written
<1> DEFINE series == plan.request.repeat /\ Len(occurrences) > 1
           c == Cardinality(w.sessions)
           row == [i \in 1 .. n |->
                     [id |-> c + i, title |-> plan.request.title,
                      who |-> plan.request.instructor,
                      students |-> plan.roster, room |-> plan.request.room, program |-> None,
                      start |-> occurrences[i].start, end |-> occurrences[i].end,
                      status |-> IF Viewer.approval THEN "REQUESTED" ELSE "SCHEDULED",
                      series |-> IF series THEN c + 1 ELSE None,
                      position |-> IF series THEN occurrences[i].index ELSE None]]
<1>5. written = {row[i] : i \in 1 .. n}
  BY <1>1, <1>3, <1>4 DEF WrittenBy
<1>6. row = [i \in 1 .. n |-> row[i]] /\ \A i \in 1 .. n : row[i].id = c + i
  OBVIOUS
<1> HIDE DEF row
<1> QED BY <1>5, <1>6, NumberedGrows

(* So do the rows of others.                                               *)
LEMMA InsertedAreNumbered ==
  ASSUME NEW other \in Others, NEW sessions, Numbered(sessions)
  PROVE  Numbered(Inserted(sessions, other.sessions))
<1> DEFINE new == other.sessions
           n == Len(new)
           c == Cardinality(sessions)
           row == [i \in 1 .. n |-> Over(new[i], [id |-> c + i])]
<1>1. /\ n \in Nat /\ DOMAIN new = 1 .. n
      /\ \A i \in 1 .. n : "id" \notin DOMAIN new[i]
  BY RowsAssumption
<1>2. Inserted(sessions, new) = sessions \cup {row[i] : i \in 1 .. n}
  <2> HIDE DEF new, n
  <2> QED BY <1>1 DEF Inserted
<1>3. \A i \in 1 .. n : row[i].id = c + i
  <2> SUFFICES ASSUME NEW i \in 1 .. n PROVE row[i].id = c + i
    OBVIOUS
  <2> DEFINE old == new[i]
             place == [id |-> c + i]
  <2>1. row[i] = Over(old, place) /\ "id" \notin DOMAIN old
    BY <1>1
  <2> HIDE DEF old, row
  <2> QED BY <2>1 DEF Over
<1>4. row = [i \in 1 .. n |-> row[i]]
  OBVIOUS
<1> HIDE DEF row, new, n
<1>5. Numbered(sessions \cup {row[i] : i \in 1 .. n})
  BY <1>1, <1>3, <1>4, NumberedGrows
<1> QED BY <1>2, <1>5 DEF new

(* Numbers hold.                                                           *)
LEMMA NumbersHold == Spec => []Numbered(world.sessions)
<1>1. Init => Numbered(world.sessions)
  BY RowsAssumption DEF Init
<1>2. ClockInv /\ Numbered(world.sessions) /\ [Next]_vars => Numbered(world.sessions)'
  <2> SUFFICES ASSUME ClockInv, Numbered(world.sessions), [Next]_vars
               PROVE  Numbered(world'.sessions)
    BY DEF Numbered
  <2>1. CASE UNCHANGED world
    BY <2>1
  <2>2. CASE FinishBooking
    <3> DEFINE written == BookingStep(world, Head(queue)).written
    <3>1. queue # <<>> /\ world' = [world EXCEPT !.sessions = @ \cup written]
      BY <2>2 DEF FinishBooking, Waiting, Wrote, ServerAnswer
    <3>2. Numbered(world.sessions \cup written)
      BY <3>1, HeadIsTimed, WrittenAreNumbered
    <3> HIDE DEF written
    <3>3. world'.sessions = world.sessions \cup written \/ world'.sessions = world.sessions
      BY <3>1
    <3> QED BY <3>2, <3>3
  <2>3. CASE OtherPeople
    <3>1. PICK other \in Others : Elsewhere(other)
      BY <2>3 DEF OtherPeople
    <3> DEFINE more == Inserted(world.sessions, other.sessions)
    <3>2. Numbered(more)
      BY InsertedAreNumbered
    <3>3. world' = [world EXCEPT !.sessions = more, !.links = @ \ other.links,
                                 !.active = @ \ other.active, !.now = @ + other.hours]
      BY <3>1 DEF Elsewhere
    <3> HIDE DEF more
    <3>4. world'.sessions = more
      BY <3>3 DEF ClockInv
    <3> QED BY <3>2, <3>4
  <2>4. ASSUME NEW held \in TabWrites, OtherTab(held.screen, held.query)
        PROVE  Numbered(world'.sessions)
    BY <2>1, <2>4 DEF OtherTab
  <2>5. CASE UNCHANGED vars
    BY <2>1, <2>5 DEF vars, formVars
  <2>6. CASE AtScreen \/ AtForm
    BY <2>1, <2>6, RowsAreLeftAlone
  <2> QED BY <2>2, <2>3, <2>4, <2>5, <2>6 DEF Next
<1> QED BY <1>1, <1>2, ClockHolds, PTL DEF Spec

-----------------------------------------------------------------------------
(* The lists: what a query says after it is posted, parsed and written.    *)

(* What is read off a query that was put together.                         *)
LEMMA PresentHas ==
  ASSUME NEW fields
  PROVE  /\ DOMAIN Present(fields) = {k \in DOMAIN fields : fields[k] # None}
         /\ \A k \in DOMAIN Present(fields) : Present(fields)[k] = fields[k]
         /\ \A k : Get(Present(fields), k) = Get(fields, k)
         /\ \A k : GetAll(Present(fields), k)
                     = IF k \in DOMAIN fields /\ fields[k] # None THEN fields[k] ELSE {}
<1>1. /\ DOMAIN Present(fields) = {k \in DOMAIN fields : fields[k] # None}
      /\ \A k \in DOMAIN Present(fields) : Present(fields)[k] = fields[k]
  BY DEF Present
<1> QED BY <1>1 DEF Get, GetAll

LEMMA OverHas ==
  ASSUME NEW a, NEW b
  PROVE  /\ DOMAIN Over(a, b) = DOMAIN a \cup DOMAIN b
         /\ \A k \in DOMAIN a : Over(a, b)[k] = a[k]
         /\ \A k \in DOMAIN b \ DOMAIN a : Over(a, b)[k] = b[k]
         /\ \A k : k \notin DOMAIN a => /\ Get(Over(a, b), k) = Get(b, k)
                                        /\ GetAll(Over(a, b), k) = GetAll(b, k)
<1>1. Over(a, b) = [k \in DOMAIN a \cup DOMAIN b |-> IF k \in DOMAIN a THEN a[k] ELSE b[k]]
  BY DEF Over
<1>2. /\ DOMAIN Over(a, b) = DOMAIN a \cup DOMAIN b
      /\ \A k \in DOMAIN a : Over(a, b)[k] = a[k]
      /\ \A k \in DOMAIN b \ DOMAIN a : Over(a, b)[k] = b[k]
  BY <1>1
<1>3. ASSUME NEW k, k \notin DOMAIN a
      PROVE  Get(Over(a, b), k) = Get(b, k) /\ GetAll(Over(a, b), k) = GetAll(b, k)
  <2>1. k \in DOMAIN Over(a, b) <=> k \in DOMAIN b
    BY <1>2, <1>3
  <2>2. k \in DOMAIN b => Over(a, b)[k] = b[k]
    BY <1>2, <1>3
  <2> QED BY <2>1, <2>2 DEF Get, GetAll
<1> QED BY <1>2, <1>3

LEMMA WithoutHas ==
  ASSUME NEW query, NEW keys
  PROVE  /\ DOMAIN Without(query, keys) = DOMAIN query \ keys
         /\ \A k \in DOMAIN query \ keys : Without(query, keys)[k] = query[k]
         /\ \A k : k \notin keys => /\ Get(Without(query, keys), k) = Get(query, k)
                                    /\ GetAll(Without(query, keys), k) = GetAll(query, k)
<1>1. /\ DOMAIN Without(query, keys) = DOMAIN query \ keys
      /\ \A k \in DOMAIN query \ keys : Without(query, keys)[k] = query[k]
  BY DEF Without
<1> QED BY <1>1 DEF Get, GetAll

(* A form posted with dates for its dates.                                 *)
DateKeys == {"from", "to", "date", "goto_date", "page"}
Numeric(params) ==
  /\ \A key \in DateKeys \cap DOMAIN params : params[key] \in Days
  /\ "goto_at" \in DOMAIN params => params.goto_at[2] \in Int

LEMMA NumericOver == ASSUME NEW a, Numeric(a), NEW b, Numeric(b) PROVE Numeric(Over(a, b))
<1> DEFINE both == Over(a, b)
<1>1. /\ DOMAIN both = DOMAIN a \cup DOMAIN b
      /\ \A k \in DOMAIN a : both[k] = a[k]
      /\ \A k \in DOMAIN b \ DOMAIN a : both[k] = b[k]
  BY OverHas
<1> HIDE DEF both
<1>2. ASSUME NEW k \in DOMAIN both
      PROVE  (k \in DOMAIN a /\ both[k] = a[k]) \/ (k \in DOMAIN b /\ both[k] = b[k])
  BY <1>1
<1>3. \A k \in DateKeys \cap DOMAIN both : both[k] \in Days
  BY <1>2 DEF Numeric
<1>4. "goto_at" \in DOMAIN both => both["goto_at"][2] \in Int
  BY <1>2 DEF Numeric
<1> QED BY <1>3, <1>4 DEF Numeric, both

LEMMA NumericPresent == ASSUME NEW a, Numeric(a) PROVE Numeric(Present(a))
BY PresentHas DEF Numeric

LEMMA NumericWithout == ASSUME NEW a, Numeric(a), NEW keys PROVE Numeric(Without(a, keys))
<1> DEFINE left == Without(a, keys)
<1>1. DOMAIN left = DOMAIN a \ keys /\ \A k \in DOMAIN a \ keys : left[k] = a[k]
  BY WithoutHas
<1> HIDE DEF left
<1>2. \A k \in DateKeys \cap DOMAIN left : left[k] \in Days
  BY <1>1 DEF Numeric
<1>3. "goto_at" \in DOMAIN left => left["goto_at"][2] \in Int
  BY <1>1 DEF Numeric
<1> QED BY <1>2, <1>3 DEF Numeric, left

LEMMA SpelledIsNumeric ==
  ASSUME NEW screen \in Screens, NEW query, Spelled(screen, query) PROVE Numeric(query)
<1>1. "goto_at" \notin DOMAIN query /\ "goto_date" \notin DOMAIN query
  BY DEF Spelled, QueryKeys, Screens
<1> QED BY <1>1 DEF Numeric, Spelled, DateKeys, Days

LEMMA NumericGet ==
  ASSUME NEW params, Numeric(params), NEW key \in DateKeys PROVE Get(params, key) \in Days
BY DEF Numeric, Get, Days

LEMMA PageIsPositive == ASSUME NEW raw \in Days PROVE ParsePage(raw) \in Nat \ {0}
BY PagesAssumption DEF ParsePage, Days

(* Whatever is posted, what is stored is as the serialiser writes it.      *)
LEMMA CalendarSpelled ==
  ASSUME NEW params, NEW view, NEW anchor \in Int, NEW today
  PROVE  Spelled("calendar", QueryString(ParseFilters(params), view, anchor, today))
<1> DEFINE filters == ParseFilters(params)
           fields == [view |-> IF view = "month" THEN None ELSE view,
                      date |-> IF anchor = today THEN None ELSE anchor,
                      q |-> filters.search,
                      status |-> IF CalendarStatusIsDefault(filters.statuses) THEN None
                                 ELSE filters.statuses,
                      instructor |-> filters.instructorRef, student |-> filters.studentRef,
                      school |-> filters.schoolRef]
           query == Present(fields)
<1>1. QueryString(filters, view, anchor, today) = query
  BY DEF QueryString
<1>2. /\ DOMAIN fields = QueryKeys["calendar"]
      /\ fields.date \in {None, anchor}
      /\ fields.status = IF CalendarStatusIsDefault(filters.statuses) THEN None
                         ELSE filters.statuses
  BY DEF QueryKeys
<1>3. filters.statuses \subseteq Status
  BY DEF ParseFilters
<1> HIDE DEF fields, filters
<1>4. DOMAIN query = {k \in DOMAIN fields : fields[k] # None}
      /\ \A k \in DOMAIN query : query[k] = fields[k]
  BY PresentHas
<1> HIDE DEF query
<1>5. DOMAIN query \subseteq QueryKeys["calendar"]
  BY <1>2, <1>4
<1>6. \A key \in {"from", "to", "date", "page"} \cap DOMAIN query : query[key] \in Int
  <2>1. {"from", "to", "date", "page"} \cap DOMAIN query \subseteq {"date"}
    BY <1>5 DEF QueryKeys
  <2>2. "date" \in DOMAIN query => query["date"] = anchor
    BY <1>2, <1>4
  <2> QED BY <2>1, <2>2
<1>7. "status" \in DOMAIN query => query.status \cap Status # {}
  BY <1>2, <1>3, <1>4 DEF CalendarStatusIsDefault
<1> QED BY <1>1, <1>5, <1>6, <1>7 DEF Spelled, filters

LEMMA SessionsSpelled ==
  ASSUME NEW params, Numeric(params) PROVE Spelled("sessions", ToQuery(ParseFilters(params)))
<1> DEFINE filters == ParseFilters(params)
           fields == [q |-> filters.search,
                      status |-> WhenNarrows(filters.statuses, STATUS_FILTER_ORDER),
                      from |-> filters.dateFrom, to |-> filters.dateTo,
                      instructor |-> filters.instructorRef, program |-> filters.programRef,
                      student |-> filters.studentRef, school |-> filters.schoolRef,
                      page |-> WrittenPage(filters.page),
                      columns |-> IF filters.columns = DEFAULT_COLUMNS THEN None
                                  ELSE filters.columns]
           query == Present(fields)
<1>1. ToQuery(filters) = query
  BY DEF ToQuery
<1>2. /\ DOMAIN fields = QueryKeys["sessions"]
      /\ fields.from = filters.dateFrom /\ fields.to = filters.dateTo
      /\ fields.page = WrittenPage(filters.page)
  BY DEF QueryKeys
<1>3. /\ filters.dateFrom = Get(params, "from") /\ filters.dateTo = Get(params, "to")
      /\ filters.page = ParsePage(Get(params, "page"))
  BY DEF ParseFilters
<1> HIDE DEF fields, filters
<1>4. filters.dateFrom \in Days /\ filters.dateTo \in Days /\ filters.page \in Nat \ {0}
  BY <1>3, NumericGet, PageIsPositive DEF DateKeys
<1>5. DOMAIN query = {k \in DOMAIN fields : fields[k] # None}
      /\ \A k \in DOMAIN query : query[k] = fields[k]
  BY PresentHas
<1> HIDE DEF query
<1>6. DOMAIN query \subseteq QueryKeys["sessions"]
  BY <1>2, <1>5
<1>7. \A key \in {"from", "to", "date", "page"} \cap DOMAIN query : query[key] \in Int
  <2>1. "date" \notin DOMAIN query
    BY <1>6 DEF QueryKeys
  <2>2. \A key \in {"from", "to", "page"} : fields[key] # None => fields[key] \in Int
    BY <1>2, <1>4 DEF Days, WrittenPage
  <2> QED BY <1>5, <2>1, <2>2
<1> QED BY <1>1, <1>6, <1>7 DEF Spelled, filters

LEMMA PeopleSpelled ==
  ASSUME NEW params, Numeric(params)
  PROVE  Spelled("people", DirectoryQuery(ParseDirectoryFilters(params)))
<1> DEFINE filters == ParseDirectoryFilters(params)
           fields == [q |-> filters.search,
                      role |-> WhenNarrows(filters.roles, ROLE_FILTER_ORDER),
                      status |-> WhenNarrows(filters.statuses, USER_STATUS_FILTER_ORDER),
                      region |-> filters.regionRef, district |-> filters.districtRef,
                      school |-> filters.schoolRef, page |-> WrittenPage(filters.page)]
           query == Present(fields)
<1>1. DirectoryQuery(filters) = query
  BY DEF DirectoryQuery
<1>2. DOMAIN fields = QueryKeys["people"] /\ fields.page = WrittenPage(filters.page)
  BY DEF QueryKeys
<1>3. filters.page = ParsePage(Get(params, "page"))
  BY DEF ParseDirectoryFilters
<1> HIDE DEF fields, filters
<1>4. filters.page \in Nat \ {0}
  BY <1>3, NumericGet, PageIsPositive DEF DateKeys
<1>5. DOMAIN query = {k \in DOMAIN fields : fields[k] # None}
      /\ \A k \in DOMAIN query : query[k] = fields[k]
  BY PresentHas
<1> HIDE DEF query
<1>6. DOMAIN query \subseteq QueryKeys["people"]
  BY <1>2, <1>5
<1>7. \A key \in {"from", "to", "date", "page"} \cap DOMAIN query : query[key] \in Int
  <2>1. {"from", "to", "date", "page"} \cap DOMAIN query \subseteq {"page"}
    BY <1>6 DEF QueryKeys
  <2>2. fields["page"] # None => fields["page"] \in Int
    BY <1>2, <1>4 DEF WrittenPage
  <2> QED BY <1>5, <2>1, <2>2
<1> QED BY <1>1, <1>6, <1>7 DEF Spelled, filters

LEMMA CanonicalSpelled ==
  ASSUME NEW screen \in Screens, NEW params, Numeric(params), NEW today \in Int
  PROVE  Spelled(screen, Canonical(screen, params, today))
<1>1. CASE screen = "calendar"
  <2> DEFINE range == CalendarRangeAsked(params, today)
  <2>1. Get(params, "goto_at") # None =>
          "goto_at" \in DOMAIN params /\ Get(params, "goto_at") = params.goto_at
    BY DEF Get
  <2>2. Get(params, "goto_date") \in Days /\ Get(params, "date") \in Days
    BY NumericGet DEF DateKeys
  <2>3. range.anchor \in Int
    BY <2>1, <2>2 DEF CalendarRangeAsked, Numeric, ParseAnchor, Setting, Days
  <2> HIDE DEF range
  <2>4. Spelled("calendar", QueryString(ParseFilters(params), range.view, range.anchor, today))
    BY <2>3, CalendarSpelled
  <2> QED BY <1>1, <2>4 DEF Canonical, range
<1>2. CASE screen = "sessions"
  BY <1>2, SessionsSpelled DEF Canonical
<1>3. CASE screen = "people"
  BY <1>3, PeopleSpelled DEF Canonical
<1> QED BY <1>1, <1>2, <1>3 DEF Screens

LEMMA NoDatesIsNumeric ==
  ASSUME NEW fields, DOMAIN fields \cap (DateKeys \cup {"goto_at"}) = {} PROVE Numeric(fields)
BY DEF Numeric

(* Every day is of a month, and another month follows.                     *)
MonthsGoOn ==
  /\ MonthStarts \subseteq Int
  /\ \A day \in Int :
       /\ \E d \in MonthStarts : d <= day /\ \A e \in MonthStarts : e <= day => e <= d
       /\ \E d \in MonthStarts : day < d /\ \A e \in MonthStarts : day < e => d <= e

LEMMA WindowIsOfDays ==
  ASSUME MonthsGoOn, NEW view \in Views, NEW anchor \in Int
  PROVE  LET w == BuildWindow(view, anchor)
         IN  /\ w.first \in Int /\ w.last \in Int
             /\ w.previous \in Int /\ w.following \in Int
<1>1. \A day \in Int : FirstOfMonth(day) \in Int /\ NextMonth(day) \in Int
  <2> SUFFICES ASSUME NEW day \in Int PROVE FirstOfMonth(day) \in Int /\ NextMonth(day) \in Int
    OBVIOUS
  <2>1. FirstOfMonth(day) \in MonthStarts /\ NextMonth(day) \in MonthStarts
    BY DEF MonthsGoOn, FirstOfMonth, NextMonth
  <2> QED BY <2>1 DEF MonthsGoOn
<1>2. \A day \in Int : Sunday(day) \in Int
  BY DEF Sunday, IsoWeekday
<1> DEFINE start == FirstOfMonth(anchor)
           end == NextMonth(anchor) - 1
<1>3. /\ start \in Int /\ end \in Int /\ FirstOfMonth(start - 1) \in Int
      /\ Sunday(anchor) \in Int /\ Sunday(start) \in Int /\ Sunday(end) \in Int
  BY <1>1, <1>2
<1>4. view \in {"day", "week", "list", "month"}
  BY DEF Views
<1>5. CASE view = "day"
  BY <1>5 DEF BuildWindow
<1>6. CASE view = "week"
  BY <1>3, <1>6 DEF BuildWindow
<1>7. CASE view = "list"
  BY <1>3, <1>7 DEF BuildWindow
<1>8. CASE view = "month"
  BY <1>3, <1>8 DEF BuildWindow
<1> QED BY <1>4, <1>5, <1>6, <1>7, <1>8

-----------------------------------------------------------------------------
(* What the desk remembers of a filter, in the cookies and on the screen.  *)
FiltersInv ==
  /\ me \in SignedIn
  /\ cookies = [screen \in Screens |-> cookies[screen]]
  /\ \A screen \in Screens : Spelled(screen, cookies[screen])
  /\ at \in Screens => Spelled(at, display.state) /\ display.today \in Int

(* A screen shows the query and the day it was drawn with.                 *)
LEMMA PaintShows ==
  ASSUME NEW screen \in Screens, NEW query
  PROVE  /\ Paint(screen, query).state = query
         /\ Paint(screen, query).today = TodayFor(Principal)
<1> DEFINE today == TodayFor(Principal)
           people == PeoplePage(Principal, query)
           sessions == SessionsPage(Principal, query)
           calendar == CalendarPage(Principal, query)
           Keys == {"state", "today", "rows", "people", "total"}
<1>1. DOMAIN people = Keys /\ DOMAIN sessions = Keys /\ DOMAIN calendar = Keys
  BY DEF PeoplePage, SessionsPage, CalendarPage, Blank
<1>2. \E drawn : DOMAIN drawn = Keys
                 /\ Paint(screen, query) = [drawn EXCEPT !.state = query, !.today = today]
  <2> HIDE DEF people, sessions, calendar, today
  <2>1. Paint(screen, query)
          = [(CASE screen = "calendar" -> calendar
                [] screen = "sessions" -> sessions
                [] screen = "people" -> people)
             EXCEPT !.state = query, !.today = today]
    BY DEF Paint, people, sessions, calendar, today
  <2>2. CASE screen = "calendar"
    BY <1>1, <2>1, <2>2
  <2>3. CASE screen = "sessions"
    BY <1>1, <2>1, <2>3
  <2>4. CASE screen = "people"
    BY <1>1, <2>1, <2>4
  <2> QED BY <2>2, <2>3, <2>4 DEF Screens
<1> HIDE DEF today
<1> QED BY <1>2 DEF today

LEMMA TodayIsADay ==
  ASSUME world.now \in Int, me \in SignedIn PROVE TodayFor(Principal) \in Int
<1> DEFINE zone == Principal.zone
<1>1. zone \in Zones
  BY QueriesAssumption DEF Principal
<1> HIDE DEF zone
<1>2. WallOf(zone, world.now) \in Int /\ DayLen \in Int /\ DayLen > 0
  BY <1>1, ZoneFacts DEF WallOf, Offset
<1> DEFINE wall == WallOf(zone, world.now)
<1>3. TodayFor(Principal) = wall \div DayLen
  BY DEF TodayFor, CivilDate, zone
<1> HIDE DEF wall
<1>4. wall \div DayLen \in Int
  BY <1>2 DEF wall
<1> QED BY <1>3, <1>4

LEMMA AnchorIsADay ==
  ASSUME FiltersInv, at \in Screens PROVE AnchorOf(display.state, display.today) \in Int
<1>1. Get(display.state, "date") \in Days
  BY SpelledIsNumeric, NumericGet DEF FiltersInv, DateKeys
<1> QED BY <1>1 DEF FiltersInv, AnchorOf, ParseAnchor, Days

LEMMA RangeIsNumeric == ASSUME FiltersInv, at \in Screens PROVE Numeric(RangeFields)
<1>1. /\ DOMAIN RangeFields = {"view", "date"}
      /\ RangeFields.date \in {None, AnchorOf(display.state, display.today)}
  BY DEF RangeFields
<1>2. DateKeys \cap DOMAIN RangeFields = {"date"} /\ "goto_at" \notin DOMAIN RangeFields
  BY <1>1 DEF DateKeys
<1> QED BY <1>1, <1>2, AnchorIsADay DEF Numeric, Days

(* Every form of a screen posts dates for its dates.                       *)
LEMMA DrawerIsNumeric == ASSUME FiltersInv, at \in Screens PROVE Numeric(DrawerFields)
<1>1. Spelled(at, display.state)
  BY DEF FiltersInv
<1>2. \A filters : Numeric(WhoFields(filters))
  <2>1. \A filters : DOMAIN WhoFields(filters) \cap (DateKeys \cup {"goto_at"}) = {}
    BY DEF WhoFields, DateKeys
  <2> QED BY <2>1, NoDatesIsNumeric
<1>3. \A x, y : Numeric([q |-> x, status |-> y])
  <2>1. \A x, y : DOMAIN [q |-> x, status |-> y] \cap (DateKeys \cup {"goto_at"}) = {}
    BY DEF DateKeys
  <2> QED BY <2>1, NoDatesIsNumeric
<1> DEFINE filters == IF at = "calendar" THEN CalendarFilters(display.state)
                      ELSE ParseFilters(display.state)
           common == [q |-> filters.search, status |-> Boxes(filters.statuses, STATUS_FILTER_ORDER)]
           who == WhoFields(filters)
<1>4. Numeric(Over(common, who))
  <2>1. Numeric(common) /\ Numeric(who)
    BY <1>2, <1>3
  <2> HIDE DEF common, who
  <2> QED BY <2>1, NumericOver
<1>5. CASE at = "calendar"
  <2>1. DrawerFields = Over(RangeFields, Over(common, who))
    BY <1>5 DEF DrawerFields
  <2> HIDE DEF common, who
  <2> QED BY <1>4, <2>1, RangeIsNumeric, NumericOver
<1>6. CASE at = "sessions"
  <2> DEFINE own == [from |-> filters.dateFrom, to |-> filters.dateTo,
                     program |-> Shown(filters.programRef, Programs),
                     columns |-> filters.columns \cap ColumnsFor]
  <2>1. DrawerFields = Over(own, Over(common, who))
    BY <1>6 DEF DrawerFields
  <2>2. own.from = Get(display.state, "from") /\ own.to = Get(display.state, "to")
    BY <1>6 DEF ParseFilters
  <2>3. DOMAIN own = {"from", "to", "program", "columns"}
    OBVIOUS
  <2> HIDE DEF own, common, who
  <2>4. own["from"] \in Days /\ own["to"] \in Days
    BY <1>1, <1>6, <2>2, SpelledIsNumeric, NumericGet DEF DateKeys
  <2>5. Numeric(own)
    BY <2>3, <2>4 DEF Numeric, DateKeys
  <2> QED BY <1>4, <2>1, <2>5, NumericOver
<1>7. CASE at = "people"
  <2>1. DOMAIN DrawerFields = {"q", "role", "status", "region", "district", "school"}
    BY <1>7 DEF DrawerFields
  <2> QED BY <2>1, NoDatesIsNumeric DEF DateKeys
<1> QED BY <1>5, <1>6, <1>7 DEF Screens

LEMMA OnlyIsNumeric ==
  ASSUME NEW key, key \notin DateKeys \cup {"goto_at"}, NEW value
  PROVE  Numeric(Only(key, value))
<1>1. DOMAIN Only(key, value) = {key}
  BY DEF Only
<1> QED BY <1>1, NoDatesIsNumeric

LEMMA ToolbarIsNumeric == ASSUME FiltersInv, at \in Screens PROVE Numeric(ToolbarFields)
<1>1. Spelled(at, display.state) /\ Numeric(display.state)
  BY SpelledIsNumeric DEF FiltersInv
<1> DEFINE carried ==
             CASE at = "calendar" ->
                    Over(Present(RangeFields),
                         StateFields(display.state, {"q", "status", "view", "date"}))
               [] at = "sessions" -> StateFields(ToQuery(ParseFilters(display.state)),
                                                 {"q", "status", "page"})
               [] at = "people"   -> StateFields(display.state, {"q", "role", "page"})
           typed == Present([q |-> Get(display.state, "q")])
           ticks == Only(Menu.key, Boxes(Menu.selected, Menu.offered))
<1>2. ToolbarFields = Over(ticks, Over(typed, carried))
  BY DEF ToolbarFields
<1>3. Numeric(carried)
  <2>1. CASE at = "calendar"
    <3>1. Numeric(Present(RangeFields))
      BY RangeIsNumeric, NumericPresent
    <3>2. Numeric(StateFields(display.state, {"q", "status", "view", "date"}))
      BY <1>1, NumericWithout DEF StateFields
    <3> QED BY <2>1, <3>1, <3>2, NumericOver
  <2>2. CASE at = "sessions"
    <3> DEFINE query == ToQuery(ParseFilters(display.state))
    <3>1. Numeric(query)
      <4>1. Spelled("sessions", query) /\ "sessions" \in Screens
        BY <1>1, SessionsSpelled DEF Screens
      <4> HIDE DEF query
      <4> QED BY <4>1, SpelledIsNumeric
    <3> HIDE DEF query
    <3>2. Numeric(StateFields(query, {"q", "status", "page"}))
      BY <3>1, NumericWithout DEF StateFields
    <3>3. carried = StateFields(query, {"q", "status", "page"})
      BY <2>2 DEF query
    <3> QED BY <3>2, <3>3
  <2>3. CASE at = "people"
    BY <1>1, <2>3, NumericWithout DEF StateFields
  <2> QED BY <2>1, <2>2, <2>3 DEF Screens
<1>4. Numeric(typed)
  <2>1. DOMAIN [q |-> Get(display.state, "q")] \cap (DateKeys \cup {"goto_at"}) = {}
    BY DEF DateKeys
  <2> QED BY <2>1, NoDatesIsNumeric, NumericPresent
<1>5. Numeric(ticks)
  <2>1. Menu.key \in {"role", "status"}
    BY DEF Menu
  <2> QED BY <2>1, OnlyIsNumeric DEF DateKeys
<1> HIDE DEF carried, typed, ticks
<1> QED BY <1>2, <1>3, <1>4, <1>5, NumericOver

(* The moves of the calendar say a day, or a view.                         *)
LEMMA MovesAreNumeric ==
  ASSUME MonthsGoOn, FiltersInv, at = "calendar", NEW move \in GoToMoves
  PROVE  Numeric(move) /\ DOMAIN move \subseteq {"goto_date", "goto_view", "goto_at"}
<1> DEFINE view == ViewOf(display.state)
           anchor == AnchorOf(display.state, display.today)
           w == BuildWindow(view, anchor)
           zone == Principal.zone
           Holds(day, n) == Len(Bucket(display.rows, day, zone)) > n
           days == {day \in w.first .. w.last : w.view = "list" => Holds(day, 0)}
           pressed == {w.previous, w.following} \cup (days \cap PressedDays)
                      \cup (IF w.view = "day" THEN {display.today} ELSE {})
           hidden == {day \in days : w.view = "month" /\ Holds(day, MONTH_CELL_LIMIT)}
<1>1. GoToMoves = {[goto_date |-> day] : day \in pressed} \cup {[goto_view |-> v] : v \in Views}
                  \cup {[goto_at |-> <<"day", day>>] : day \in hidden}
  BY DEF GoToMoves, WindowOf
<1>2. view \in Views /\ anchor \in Int
  BY AnchorIsADay DEF ViewOf, ParseView, Views, Screens
<1>3. w.previous \in Int /\ w.following \in Int /\ w.first \in Int /\ w.last \in Int
  <2> HIDE DEF view, anchor
  <2> QED BY <1>2, WindowIsOfDays
<1>4. days \subseteq Int /\ display.today \in Int
  <2> HIDE DEF w
  <2> QED BY <1>3 DEF FiltersInv, Screens
<1>5. pressed \subseteq Int /\ hidden \subseteq Int
  <2> HIDE DEF w, days
  <2> QED BY <1>3, <1>4
<1> HIDE DEF pressed, hidden, days, w
<1>6. CASE \E day \in pressed : move = [goto_date |-> day]
  <2>1. PICK day \in Int : move = [goto_date |-> day]
    BY <1>5, <1>6
  <2> QED BY <2>1 DEF Numeric, DateKeys, Days
<1>7. CASE \E v \in Views : move = [goto_view |-> v]
  BY <1>7, NoDatesIsNumeric DEF DateKeys
<1>8. CASE \E day \in hidden : move = [goto_at |-> <<"day", day>>]
  <2>1. PICK day \in Int : move = [goto_at |-> <<"day", day>>]
    BY <1>5, <1>8
  <2>2. DOMAIN move = {"goto_at"} /\ move.goto_at = <<"day", day>>
    BY <2>1
  <2>3. DateKeys \cap DOMAIN move = {}
    BY <2>2 DEF DateKeys
  <2> QED BY <2>2, <2>3 DEF Numeric
<1> QED BY <1>1, <1>6, <1>7, <1>8

LEMMA ApplyKeeps ==
  ASSUME FiltersInv, world.now \in Int, at \in Screens, NEW query, Spelled(at, query), Apply(query)
  PROVE  FiltersInv' /\ at' = at /\ me' = me /\ display'.state = query
<1>1. /\ cookies' = [cookies EXCEPT ![at] = query]
      /\ display' = Paint(at, query)
      /\ me' = me /\ at' = at
  BY DEF Apply
<1>2. display'.state = query /\ display'.today \in Int
  BY <1>1, PaintShows, TodayIsADay DEF FiltersInv
<1>3. /\ cookies' = [screen \in Screens |-> cookies'[screen]]
      /\ \A screen \in Screens : Spelled(screen, cookies'[screen])
  BY <1>1 DEF FiltersInv
<1> QED BY <1>1, <1>2, <1>3 DEF FiltersInv, Spelled

LEMMA SubmittedKeeps ==
  ASSUME FiltersInv, world.now \in Int, at \in Screens, NEW params, Numeric(params),
         Submitted(params)
  PROVE  FiltersInv'
<1> DEFINE query == Canonical(at, params, TodayFor(Principal))
<1>1. Spelled(at, query) /\ Apply(query)
  BY TodayIsADay, CanonicalSpelled DEF Submitted, FiltersInv
<1> HIDE DEF query
<1> QED BY <1>1, ApplyKeeps

LEMMA OpenKeepsTheFilters ==
  ASSUME FiltersInv, world.now \in Int, NEW screen \in Screens, Open(screen)
  PROVE  FiltersInv'
<1>1. /\ at' = screen /\ display' = Paint(screen, cookies[screen])
      /\ me' = me /\ cookies' = cookies
  BY DEF Open
<1>2. display'.state = cookies[screen] /\ display'.today \in Int
  BY <1>1, PaintShows, TodayIsADay DEF FiltersInv
<1> QED BY <1>1, <1>2 DEF FiltersInv, Spelled

LEMMA LinkKeeps ==
  ASSUME FiltersInv, world.now \in Int, NEW link \in Links, FollowLink(link)
  PROVE  FiltersInv'
<1> DEFINE kept == Address(link)
           screen == link.screen
<1>1. screen \in Screens /\ Spelled(screen, kept)
  BY QueriesAssumption
<1>2. /\ at' = screen /\ cookies' = [cookies EXCEPT ![screen] = kept]
      /\ display' = Paint(screen, kept) /\ me' = me
  BY DEF FollowLink
<1> HIDE DEF kept, screen
<1>3. display'.state = kept /\ display'.today \in Int
  BY <1>1, <1>2, PaintShows, TodayIsADay DEF FiltersInv
<1>4. /\ cookies' = [s \in Screens |-> cookies'[s]]
      /\ \A s \in Screens : Spelled(s, cookies'[s])
  BY <1>1, <1>2 DEF FiltersInv
<1> QED BY <1>1, <1>2, <1>3, <1>4 DEF FiltersInv, Spelled

LEMMA DrawerNames ==
  ASSUME at \in Screens PROVE DOMAIN DrawerFields \cap {"page", "goto_date", "goto_at"} = {}
<1> DEFINE filters == IF at = "calendar" THEN CalendarFilters(display.state)
                      ELSE ParseFilters(display.state)
           common == [q |-> filters.search, status |-> Boxes(filters.statuses, STATUS_FILTER_ORDER)]
           who == WhoFields(filters)
<1>1. DOMAIN common = {"q", "status"} /\ DOMAIN who = {"instructor", "student", "school"}
  BY DEF WhoFields
<1>2. CASE at = "calendar"
  <2>1. DrawerFields = Over(RangeFields, Over(common, who))
    BY <1>2 DEF DrawerFields
  <2>2. DOMAIN RangeFields = {"view", "date"}
    BY DEF RangeFields
  <2> HIDE DEF common, who
  <2>3. DOMAIN DrawerFields = DOMAIN RangeFields \cup (DOMAIN common \cup DOMAIN who)
    <3>1. DOMAIN Over(common, who) = DOMAIN common \cup DOMAIN who
      BY OverHas
    <3>2. DOMAIN Over(RangeFields, Over(common, who))
            = DOMAIN RangeFields \cup DOMAIN Over(common, who)
      BY OverHas
    <3> QED BY <2>1, <3>1, <3>2
  <2> QED BY <1>1, <2>2, <2>3
<1>3. CASE at = "sessions"
  <2> DEFINE own == [from |-> filters.dateFrom, to |-> filters.dateTo,
                     program |-> Shown(filters.programRef, Programs),
                     columns |-> filters.columns \cap ColumnsFor]
  <2>1. DrawerFields = Over(own, Over(common, who))
    BY <1>3 DEF DrawerFields
  <2>2. DOMAIN own = {"from", "to", "program", "columns"}
    OBVIOUS
  <2> HIDE DEF own, common, who
  <2>3. DOMAIN DrawerFields = DOMAIN own \cup (DOMAIN common \cup DOMAIN who)
    <3>1. DOMAIN Over(common, who) = DOMAIN common \cup DOMAIN who
      BY OverHas
    <3>2. DOMAIN Over(own, Over(common, who)) = DOMAIN own \cup DOMAIN Over(common, who)
      BY OverHas
    <3> QED BY <2>1, <3>1, <3>2
  <2> QED BY <1>1, <2>2, <2>3
<1>4. CASE at = "people"
  BY <1>4 DEF DrawerFields
<1> QED BY <1>2, <1>3, <1>4 DEF Screens

LEMMA DrawerKeeps ==
  ASSUME FiltersInv, world.now \in Int, NEW picked \in DrawerPicks, ApplyDrawer(picked)
  PROVE  FiltersInv'
<1>1. /\ at \in Screens /\ DOMAIN picked \subseteq DOMAIN DrawerFields
      /\ Submitted(Present(Over(picked, DrawerFields)))
  BY DEF ApplyDrawer
<1>2. DOMAIN picked \cap {"page", "goto_date", "goto_at"} = {}
  BY <1>1, DrawerNames
<1>3. Numeric(picked)
  BY <1>2, QueriesAssumption DEF Numeric, DateKeys, Days
<1>4. Numeric(Present(Over(picked, DrawerFields)))
  BY <1>1, <1>3, DrawerIsNumeric, NumericOver, NumericPresent
<1> QED BY <1>1, <1>4, SubmittedKeeps

LEMMA SearchKeeps ==
  ASSUME FiltersInv, world.now \in Int, NEW text, Search(text) PROVE FiltersInv'
<1>1. at \in Screens /\ Submitted(Over(Present([q |-> text]), Without(ToolbarFields, {"q"})))
  BY DEF Search
<1>2. Numeric(Present([q |-> text]))
  <2>1. DOMAIN [q |-> text] \cap (DateKeys \cup {"goto_at"}) = {}
    BY DEF DateKeys
  <2> QED BY <2>1, NoDatesIsNumeric, NumericPresent
<1>3. Numeric(Over(Present([q |-> text]), Without(ToolbarFields, {"q"})))
  BY <1>1, <1>2, ToolbarIsNumeric, NumericWithout, NumericOver
<1> QED BY <1>1, <1>3, SubmittedKeeps

LEMMA MenuKeeps ==
  ASSUME FiltersInv, world.now \in Int, NEW ticks, CloseMenu(ticks) PROVE FiltersInv'
<1>1. at \in Screens /\ Submitted(Over(Only(Menu.key, ticks), ToolbarFields))
  BY DEF CloseMenu
<1>2. Numeric(Only(Menu.key, ticks))
  <2>1. Menu.key \in {"role", "status"}
    BY DEF Menu
  <2> QED BY <2>1, OnlyIsNumeric DEF DateKeys
<1>3. Numeric(Over(Only(Menu.key, ticks), ToolbarFields))
  BY <1>1, <1>2, ToolbarIsNumeric, NumericOver
<1> QED BY <1>1, <1>3, SubmittedKeeps

LEMMA ResetKeeps == ASSUME FiltersInv, world.now \in Int, Reset PROVE FiltersInv'
<1> DEFINE today == TodayFor(Principal)
           range == CalendarRangeAsked(Present(RangeFields), today)
           query == IF at # "calendar" THEN NothingSet
                    ELSE QueryString(EMPTY_FILTERS, range.view, range.anchor, today)
<1>1. at \in Screens /\ Apply(query)
  BY DEF Reset
<1>2. CASE at # "calendar"
  <2>1. DOMAIN NothingSet = {}
    BY DEF NothingSet, Present
  <2>2. Spelled(at, query)
    BY <1>2, <2>1 DEF Spelled
  <2> HIDE DEF query
  <2> QED BY <1>1, <2>2, ApplyKeeps
<1>3. CASE at = "calendar"
  <2> DEFINE params == Present(RangeFields)
  <2>1. Numeric(params)
    BY <1>1, RangeIsNumeric, NumericPresent
  <2>2. DOMAIN params \subseteq {"view", "date"}
    BY PresentHas DEF RangeFields
  <2>3. today \in Int
    BY TodayIsADay DEF FiltersInv
  <2>4. Get(params, "goto_at") = None /\ Get(params, "goto_date") \in Days
        /\ Get(params, "date") \in Days
    <3> HIDE DEF params
    <3> QED BY <2>1, <2>2, NumericGet DEF Get, DateKeys
  <2> HIDE DEF params, today
  <2>5. range.anchor \in Int
    BY <2>3, <2>4 DEF CalendarRangeAsked, Setting, ParseAnchor, Days, params
  <2> HIDE DEF range
  <2>6. Spelled("calendar", QueryString(EMPTY_FILTERS, range.view, range.anchor, today))
    BY <2>5, CalendarSpelled DEF EMPTY_FILTERS
  <2>7. Spelled(at, query)
    BY <1>3, <2>6
  <2> HIDE DEF query
  <2> QED BY <1>1, <2>7, ApplyKeeps
<1> QED BY <1>2, <1>3

LEMMA GoToKeeps ==
  ASSUME MonthsGoOn, FiltersInv, world.now \in Int, NEW move \in GoToMoves, GoTo(move)
  PROVE  FiltersInv'
<1>1. at = "calendar" /\ Submitted(Over(move, StateFields(display.state, {})))
  BY DEF GoTo
<1>2. at \in Screens /\ Numeric(display.state)
  BY <1>1, SpelledIsNumeric DEF FiltersInv, Screens
<1>3. Numeric(Over(move, StateFields(display.state, {})))
  BY <1>1, <1>2, MovesAreNumeric, NumericWithout, NumericOver DEF StateFields
<1> QED BY <1>1, <1>2, <1>3, SubmittedKeeps

LEMMA TurnKeeps ==
  ASSUME FiltersInv, world.now \in Int, NEW n \in Turns, TurnPage(n)
  PROVE  FiltersInv'
<1> DEFINE query == Canonical(at, display.state, 0)
           params == Over(Only("page", n), StateFields(query, {"page"}))
<1>1. at \in Screens /\ Submitted(params)
  BY DEF TurnPage, Screens
<1>2. Numeric(display.state)
  BY <1>1, SpelledIsNumeric DEF FiltersInv
<1>3. Spelled(at, query)
  BY <1>1, <1>2, CanonicalSpelled
<1>4. n \in Int
  <2>1. PageAt \in Nat \ {0}
    BY <1>2, NumericGet, PageIsPositive DEF PageAt, DateKeys
  <2>2. n \in {PageAt - 1, PageAt + 1}
    BY DEF Turns
  <2> QED BY <2>1, <2>2
<1>5. Numeric(Only("page", n))
  BY <1>4 DEF Only, Numeric, DateKeys, Days
<1> HIDE DEF query
<1>6. Numeric(params)
  BY <1>1, <1>3, <1>5, SpelledIsNumeric, NumericWithout, NumericOver DEF StateFields
<1> HIDE DEF params
<1> QED BY <1>1, <1>6, SubmittedKeeps

(* So it does with every step of the desk.                                 *)
LEMMA FiltersStep ==
  ASSUME MonthsGoOn, FiltersInv, world.now \in Int, [Next]_vars PROVE FiltersInv'
<1>1. CASE UNCHANGED deskVars
  BY <1>1 DEF deskVars, FiltersInv, Spelled
<1>2. CASE AtScreen
  <2>1. ASSUME NEW screen \in Screens, Visit(screen) \/ LeaveForm(screen) PROVE FiltersInv'
    BY <2>1, OpenKeepsTheFilters DEF Visit, LeaveForm
  <2>2. ASSUME NEW link \in Links, FollowLink(link) PROVE FiltersInv'
    BY <2>2, LinkKeeps
  <2>3. ASSUME NEW picked \in DrawerPicks, ApplyDrawer(picked) PROVE FiltersInv'
    BY <2>3, DrawerKeeps
  <2>4. ASSUME NEW text \in Texts, Search(text) PROVE FiltersInv'
    BY <2>4, SearchKeeps
  <2>5. ASSUME NEW ticks \in Ticks, CloseMenu(ticks) PROVE FiltersInv'
    BY <2>5, MenuKeeps
  <2>6. CASE Reset
    BY <2>6, ResetKeeps
  <2>7. ASSUME NEW move \in GoToMoves, GoTo(move) PROVE FiltersInv'
    BY <2>7, GoToKeeps
  <2>8. ASSUME NEW n \in Turns, TurnPage(n) PROVE FiltersInv'
    BY <2>8, TurnKeeps
  <2>9. CASE Export
    BY <2>9 DEF Export, FiltersInv, Spelled
  <2>10. CASE OpenBooking
    BY <2>10 DEF OpenBooking, FiltersInv, Spelled, Screens
  <2> QED BY <1>2, <2>1, <2>2, <2>3, <2>4, <2>5, <2>6, <2>7, <2>8, <2>9, <2>10 DEF AtScreen
<1>3. CASE AtForm
  BY <1>1, <1>3 DEF AtForm
<1>4. CASE FinishBooking
  BY <1>4 DEF FinishBooking, FiltersInv, Spelled, Screens
<1>5. CASE OtherPeople
  BY <1>1, <1>5 DEF OtherPeople
<1>6. ASSUME NEW held \in TabWrites, OtherTab(held.screen, held.query) PROVE FiltersInv'
  <2> DEFINE screen == held.screen
             query == held.query
  <2>1. screen \in Screens /\ Spelled(screen, query)
    BY QueriesAssumption
  <2>2. cookies' = [cookies EXCEPT ![screen] = query] /\ UNCHANGED <<me, at, display>>
    BY <1>6 DEF OtherTab
  <2> HIDE DEF screen, query
  <2>3. /\ cookies' = [s \in Screens |-> cookies'[s]]
        /\ \A s \in Screens : Spelled(s, cookies'[s])
    BY <2>1, <2>2 DEF FiltersInv
  <2> QED BY <2>2, <2>3 DEF FiltersInv, Spelled
<1>7. CASE UNCHANGED vars
  BY <1>1, <1>7 DEF vars
<1> QED BY <1>2, <1>3, <1>4, <1>5, <1>6, <1>7 DEF Next

LEMMA FiltersStart ==
  ASSUME Init, world.now \in Int PROVE FiltersInv
<1>1. me \in SignedIn
  BY DEF Init
<1>2. Spelled("calendar", NothingSet) /\ Spelled("sessions", NothingSet)
      /\ Spelled("people", NothingSet)
  <2>1. DOMAIN NothingSet = {}
    BY DEF NothingSet, Present
  <2> QED BY <2>1 DEF Spelled
<1>3. CASE at = "book" /\ cookies = [screen \in Screens |-> NothingSet]
  BY <1>1, <1>2, <1>3 DEF FiltersInv, Screens
<1>4. ASSUME NEW held \in Remembered, at = held.screen,
             cookies = [screen \in Screens |-> IF screen = at THEN held.query ELSE NothingSet],
             display = Paint(at, cookies[at])
      PROVE  FiltersInv
  <2>1. at \in Screens /\ Spelled(at, held.query)
    BY <1>4, QueriesAssumption
  <2>2. cookies[at] = held.query
    BY <1>4, <2>1
  <2>3. display.state = held.query /\ display.today = TodayFor(Principal)
    BY <1>4, <2>1, <2>2, PaintShows
  <2>4. /\ cookies = [screen \in Screens |-> cookies[screen]]
        /\ \A screen \in Screens : Spelled(screen, cookies[screen])
    BY <1>2, <1>4, <2>1 DEF Screens
  <2>5. TodayFor(Principal) \in Int
    BY <1>1, TodayIsADay
  <2> QED BY <1>1, <2>1, <2>3, <2>4, <2>5 DEF FiltersInv
<1> QED BY <1>3, <1>4 DEF Init

LEMMA FiltersHold == MonthsGoOn => (Spec => []FiltersInv)
<1> SUFFICES ASSUME MonthsGoOn PROVE Spec => []FiltersInv
  OBVIOUS
<1>1. Init /\ ClockInv => FiltersInv
  BY FiltersStart DEF ClockInv
<1>2. ClockInv /\ FiltersInv /\ [Next]_vars => FiltersInv'
  BY FiltersStep DEF ClockInv
<1> QED BY <1>1, <1>2, ClockHolds, PTL DEF Spec

-----------------------------------------------------------------------------
(* What moving asks.                                                       *)

(* What a list of ticks asks is left as it is by writing it down.          *)
LEMMA TicksRoundTrip ==
  ASSUME NEW known \in {Status, AllRoles, USER_STATUS_FILTER_ORDER},
         NEW offered, NEW ticks \in SUBSET known, NEW read,
         read = IF WhenNarrows(ticks, offered) = None THEN {} ELSE WhenNarrows(ticks, offered)
  PROVE  Boxes(read \cap known, offered) = Boxes(ticks, offered)
<1>1. ticks # None
  BY TicksAssumption
<1>2. CASE Narrows(ticks, offered)
  <2>1. read = ticks
    BY <1>1, <1>2 DEF WhenNarrows
  <2> QED BY <2>1
<1>3. CASE ~Narrows(ticks, offered)
  <2>1. read = {} /\ (ticks = {} \/ offered \subseteq ticks)
    BY <1>3 DEF WhenNarrows, Narrows
  <2> QED BY <2>1 DEF Boxes, Ticked
<1> QED BY <1>2, <1>3

Columns(query) == GetAll(query, "columns") \cap AVAILABLE_COLUMNS
ColumnsShown(query) == IF Columns(query) = {} THEN DEFAULT_COLUMNS ELSE Columns(query)
Asking(query, statuses) ==
  [search |-> Get(query, "q"), statuses |-> Boxes(statuses, STATUS_FILTER_ORDER),
   dateFrom |-> Get(query, "from"), dateTo |-> Get(query, "to"),
   instructorRef |-> Get(query, "instructor"), programRef |-> Get(query, "program"),
   studentRef |-> Get(query, "student"), schoolRef |-> Get(query, "school"),
   page |-> 1, columns |-> ColumnsShown(query)]
StatusesOf(query) == GetAll(query, "status") \cap Status
CalendarStatuses(query) ==
  IF "status" \in DOMAIN query THEN StatusesOf(query) ELSE CALENDAR_INITIAL_STATUSES

LEMMA QuestionIs ==
  ASSUME NEW query
  PROVE  /\ at = "calendar" => Question(query) = Asking(query, CalendarStatuses(query))
         /\ at = "sessions" => Question(query) = Asking(query, StatusesOf(query))
<1> DEFINE Read(statuses) ==
             [search |-> Get(query, "q"), statuses |-> statuses,
              dateFrom |-> Get(query, "from"), dateTo |-> Get(query, "to"),
              instructorRef |-> Get(query, "instructor"), programRef |-> Get(query, "program"),
              studentRef |-> Get(query, "student"), schoolRef |-> Get(query, "school"),
              page |-> ParsePage(Get(query, "page")), columns |-> ColumnsShown(query)]
           First(filters) == [[filters EXCEPT !.page = 1]
                                EXCEPT !.statuses = Boxes(@, STATUS_FILTER_ORDER)]
<1>1. ParseFilters(query) = Read(StatusesOf(query))
  BY DEF ParseFilters, StatusesOf, ColumnsShown, Columns
<1>2. CalendarFilters(query) = Read(CalendarStatuses(query))
  <2>1. [Read(StatusesOf(query)) EXCEPT !.statuses = CALENDAR_INITIAL_STATUSES]
          = Read(CALENDAR_INITIAL_STATUSES)
    OBVIOUS
  <2> QED BY <1>1, <2>1 DEF CalendarFilters, CalendarStatuses
<1>3. \A statuses : First(Read(statuses)) = Asking(query, statuses)
  <2> TAKE statuses
  <2> DEFINE one == [search |-> Get(query, "q"), statuses |-> statuses,
                     dateFrom |-> Get(query, "from"), dateTo |-> Get(query, "to"),
                     instructorRef |-> Get(query, "instructor"),
                     programRef |-> Get(query, "program"),
                     studentRef |-> Get(query, "student"),
                     schoolRef |-> Get(query, "school"), page |-> 1,
                     columns |-> ColumnsShown(query)]
  <2>1. [Read(statuses) EXCEPT !.page = 1] = one
    OBVIOUS
  <2>2. [one EXCEPT !.statuses = Boxes(@, STATUS_FILTER_ORDER)] = Asking(query, statuses)
    BY DEF Asking
  <2> HIDE DEF one, Read
  <2> QED BY <2>1, <2>2
<1>4. at = "calendar" => Question(query) = First(CalendarFilters(query))
  BY DEF Question
<1>5. at = "sessions" => Question(query) = First(ParseFilters(query))
  BY DEF Question
<1> HIDE DEF First, Read
<1> QED BY <1>1, <1>2, <1>3, <1>4, <1>5

(* Two queries that say the same under each name ask the same.             *)
LEMMA AskingAlike ==
  ASSUME NEW p, NEW q, NEW s, NEW t, Boxes(s, STATUS_FILTER_ORDER) = Boxes(t, STATUS_FILTER_ORDER),
         \A k \in {"q", "from", "to", "instructor", "program", "student", "school"} :
           Get(p, k) = Get(q, k),
         ColumnsShown(p) = ColumnsShown(q)
  PROVE  Asking(p, s) = Asking(q, t)
BY DEF Asking

(* The session grid: the query stored asks what the query parsed asks.     *)
LEMMA SessionsRoundTrip ==
  ASSUME NEW params
  PROVE  LET query == ToQuery(ParseFilters(params))
         IN  Asking(query, StatusesOf(query)) = Asking(params, StatusesOf(params))
<1> DEFINE filters == ParseFilters(params)
           fields == [q |-> filters.search,
                      status |-> WhenNarrows(filters.statuses, STATUS_FILTER_ORDER),
                      from |-> filters.dateFrom, to |-> filters.dateTo,
                      instructor |-> filters.instructorRef, program |-> filters.programRef,
                      student |-> filters.studentRef, school |-> filters.schoolRef,
                      page |-> WrittenPage(filters.page),
                      columns |-> IF filters.columns = DEFAULT_COLUMNS THEN None
                                  ELSE filters.columns]
           query == Present(fields)
<1>1. ToQuery(filters) = query
  BY DEF ToQuery
<1>2. /\ DOMAIN fields = QueryKeys["sessions"]
      /\ fields.status = WhenNarrows(StatusesOf(params), STATUS_FILTER_ORDER)
      /\ fields.columns = IF ColumnsShown(params) = DEFAULT_COLUMNS THEN None
                          ELSE ColumnsShown(params)
      /\ fields.q = Get(params, "q") /\ fields.from = Get(params, "from")
      /\ fields.to = Get(params, "to") /\ fields.instructor = Get(params, "instructor")
      /\ fields.program = Get(params, "program") /\ fields.student = Get(params, "student")
      /\ fields.school = Get(params, "school")
  BY DEF QueryKeys, ParseFilters, StatusesOf, ColumnsShown, Columns
<1> HIDE DEF fields
<1>3. /\ \A k : Get(query, k) = Get(fields, k)
      /\ \A k : GetAll(query, k) = IF k \in DOMAIN fields /\ fields[k] # None THEN fields[k]
                                   ELSE {}
  BY PresentHas
<1> HIDE DEF query
<1>4. \A k \in {"q", "from", "to", "instructor", "program", "student", "school"} :
        Get(query, k) = Get(params, k)
  BY <1>2, <1>3 DEF Get, QueryKeys
<1>5. Boxes(StatusesOf(query), STATUS_FILTER_ORDER)
        = Boxes(StatusesOf(params), STATUS_FILTER_ORDER)
  <2>1. GetAll(query, "status") = IF fields.status = None THEN {} ELSE fields.status
    BY <1>2, <1>3 DEF QueryKeys
  <2>2. StatusesOf(params) \in SUBSET Status
    BY DEF StatusesOf
  <2>3. Boxes(GetAll(query, "status") \cap Status, STATUS_FILTER_ORDER)
          = Boxes(StatusesOf(params), STATUS_FILTER_ORDER)
    BY <1>2, <2>1, <2>2, TicksRoundTrip
  <2> QED BY <2>3 DEF StatusesOf
<1>6. ColumnsShown(query) = ColumnsShown(params)
  <2>1. GetAll(query, "columns") = IF fields.columns = None THEN {} ELSE fields.columns
    BY <1>2, <1>3 DEF QueryKeys
  <2>2. ColumnsShown(params) \in SUBSET AVAILABLE_COLUMNS /\ ColumnsShown(params) # {}
    BY DEF ColumnsShown, Columns, DEFAULT_COLUMNS, AVAILABLE_COLUMNS
  <2>3. ColumnsShown(params) # None
    BY <2>2, TicksAssumption
  <2>4. CASE ColumnsShown(params) = DEFAULT_COLUMNS
    <3>1. Columns(query) = {}
      BY <1>2, <2>1, <2>4 DEF Columns
    <3> QED BY <2>4, <3>1 DEF ColumnsShown
  <2>5. CASE ColumnsShown(params) # DEFAULT_COLUMNS
    <3>1. Columns(query) = ColumnsShown(params)
      BY <1>2, <2>1, <2>2, <2>3, <2>5 DEF Columns
    <3>2. ColumnsShown(query) = IF Columns(query) = {} THEN DEFAULT_COLUMNS ELSE Columns(query)
      BY DEF ColumnsShown
    <3> QED BY <2>2, <3>1, <3>2
  <2> QED BY <2>4, <2>5
<1>7. Asking(query, StatusesOf(query)) = Asking(params, StatusesOf(params))
  BY <1>4, <1>5, <1>6, AskingAlike
<1> QED BY <1>1, <1>7 DEF query, filters

(* The directory: likewise.                                                *)
RolesOf(query) == GetAll(query, "role") \cap AllRoles
AccountsOf(query) == GetAll(query, "status") \cap USER_STATUS_FILTER_ORDER
AskingPeople(query) ==
  [search |-> Get(query, "q"), roles |-> Boxes(RolesOf(query), ROLE_FILTER_ORDER),
   statuses |-> Boxes(AccountsOf(query), USER_STATUS_FILTER_ORDER),
   regionRef |-> Get(query, "region"), districtRef |-> Get(query, "district"),
   schoolRef |-> Get(query, "school"), page |-> 1]

LEMMA PeopleQuestionIs ==
  ASSUME NEW query, at = "people" PROVE Question(query) = AskingPeople(query)
<1> DEFINE Read(roles, statuses, page) ==
             [search |-> Get(query, "q"), roles |-> roles, statuses |-> statuses,
              regionRef |-> Get(query, "region"), districtRef |-> Get(query, "district"),
              schoolRef |-> Get(query, "school"), page |-> page]
           asked == [[ParseDirectoryFilters(query) EXCEPT !.page = 1]
                       EXCEPT !.statuses = Boxes(@, USER_STATUS_FILTER_ORDER)]
<1>1. ParseDirectoryFilters(query)
        = Read(RolesOf(query), AccountsOf(query), ParsePage(Get(query, "page")))
  BY DEF ParseDirectoryFilters, RolesOf, AccountsOf
<1>2. \A r, s, n : [Read(r, s, n) EXCEPT !.page = 1] = Read(r, s, 1)
  OBVIOUS
<1>3. \A r, s, n : [Read(r, s, n) EXCEPT !.statuses = Boxes(@, USER_STATUS_FILTER_ORDER)]
                     = Read(r, Boxes(s, USER_STATUS_FILTER_ORDER), n)
  OBVIOUS
<1>4. \A r, s, n : [Read(r, s, n) EXCEPT !.roles = Boxes(@, ROLE_FILTER_ORDER)]
                     = Read(Boxes(r, ROLE_FILTER_ORDER), s, n)
  OBVIOUS
<1>5. Question(query) = [asked EXCEPT !.roles = Boxes(@, ROLE_FILTER_ORDER)]
  BY DEF Question
<1>6. AskingPeople(query) = Read(Boxes(RolesOf(query), ROLE_FILTER_ORDER),
                                 Boxes(AccountsOf(query), USER_STATUS_FILTER_ORDER), 1)
  BY DEF AskingPeople
<1> DEFINE roles == RolesOf(query)
           statuses == AccountsOf(query)
           page == ParsePage(Get(query, "page"))
           first == [ParseDirectoryFilters(query) EXCEPT !.page = 1]
<1>7. first = Read(roles, statuses, 1)
  <2> HIDE DEF Read, roles, statuses, page
  <2>1. ParseDirectoryFilters(query) = Read(roles, statuses, page)
    BY <1>1 DEF roles, statuses, page
  <2> QED BY <1>2, <2>1
<1>8. asked = Read(roles, Boxes(statuses, USER_STATUS_FILTER_ORDER), 1)
  <2>1. asked = [first EXCEPT !.statuses = Boxes(@, USER_STATUS_FILTER_ORDER)]
    OBVIOUS
  <2> HIDE DEF Read, first, asked, roles, statuses
  <2> QED BY <1>3, <1>7, <2>1
<1> HIDE DEF Read, asked, roles, statuses
<1>9. Question(query) = Read(Boxes(roles, ROLE_FILTER_ORDER),
                             Boxes(statuses, USER_STATUS_FILTER_ORDER), 1)
  BY <1>4, <1>5, <1>8
<1> QED BY <1>6, <1>9 DEF roles, statuses

LEMMA PeopleRoundTrip ==
  ASSUME NEW params
  PROVE  AskingPeople(DirectoryQuery(ParseDirectoryFilters(params))) = AskingPeople(params)
<1> DEFINE filters == ParseDirectoryFilters(params)
           fields == [q |-> filters.search,
                      role |-> WhenNarrows(filters.roles, ROLE_FILTER_ORDER),
                      status |-> WhenNarrows(filters.statuses, USER_STATUS_FILTER_ORDER),
                      region |-> filters.regionRef, district |-> filters.districtRef,
                      school |-> filters.schoolRef, page |-> WrittenPage(filters.page)]
           query == Present(fields)
<1>1. DirectoryQuery(filters) = query
  BY DEF DirectoryQuery
<1>2. /\ DOMAIN fields = QueryKeys["people"]
      /\ fields.role = WhenNarrows(RolesOf(params), ROLE_FILTER_ORDER)
      /\ fields.status = WhenNarrows(AccountsOf(params), USER_STATUS_FILTER_ORDER)
      /\ fields.q = Get(params, "q") /\ fields.region = Get(params, "region")
      /\ fields.district = Get(params, "district") /\ fields.school = Get(params, "school")
  BY DEF QueryKeys, ParseDirectoryFilters, RolesOf, AccountsOf
<1> HIDE DEF fields
<1>3. /\ \A k : Get(query, k) = Get(fields, k)
      /\ \A k : GetAll(query, k) = IF k \in DOMAIN fields /\ fields[k] # None THEN fields[k]
                                   ELSE {}
  BY PresentHas
<1> HIDE DEF query
<1>4. \A k \in {"q", "region", "district", "school"} : Get(query, k) = Get(params, k)
  BY <1>2, <1>3 DEF Get, QueryKeys
<1>5. Boxes(RolesOf(query), ROLE_FILTER_ORDER) = Boxes(RolesOf(params), ROLE_FILTER_ORDER)
  <2>1. GetAll(query, "role") = IF fields.role = None THEN {} ELSE fields.role
    BY <1>2, <1>3 DEF QueryKeys
  <2> DEFINE ticks == RolesOf(params)
             read == GetAll(query, "role")
  <2>2. ticks \in SUBSET AllRoles
    BY DEF RolesOf
  <2>4. read = IF WhenNarrows(ticks, ROLE_FILTER_ORDER) = None THEN {}
               ELSE WhenNarrows(ticks, ROLE_FILTER_ORDER)
    BY <1>2, <2>1
  <2> HIDE DEF ticks, read
  <2>5. Boxes(read \cap AllRoles, ROLE_FILTER_ORDER) = Boxes(ticks, ROLE_FILTER_ORDER)
    BY <2>2, <2>4, TicksRoundTrip
  <2>3. Boxes(GetAll(query, "role") \cap AllRoles, ROLE_FILTER_ORDER)
          = Boxes(RolesOf(params), ROLE_FILTER_ORDER)
    BY <2>5 DEF ticks, read
  <2> QED BY <2>3 DEF RolesOf
<1>6. Boxes(AccountsOf(query), USER_STATUS_FILTER_ORDER)
        = Boxes(AccountsOf(params), USER_STATUS_FILTER_ORDER)
  <2>1. GetAll(query, "status") = IF fields.status = None THEN {} ELSE fields.status
    BY <1>2, <1>3 DEF QueryKeys
  <2>2. AccountsOf(params) \in SUBSET USER_STATUS_FILTER_ORDER
    BY DEF AccountsOf
  <2>3. Boxes(GetAll(query, "status") \cap USER_STATUS_FILTER_ORDER, USER_STATUS_FILTER_ORDER)
          = Boxes(AccountsOf(params), USER_STATUS_FILTER_ORDER)
    BY <1>2, <2>1, <2>2, TicksRoundTrip
  <2> QED BY <2>3 DEF AccountsOf
<1>7. AskingPeople(query) = AskingPeople(params)
  BY <1>4, <1>5, <1>6 DEF AskingPeople
<1> HIDE DEF filters
<1> QED BY <1>1, <1>7 DEF filters

(* A page turned asks what was asked.                                      *)
LEMMA TurnAsksTheSame ==
  ASSUME NEW n \in Turns, TurnPage(n), FiltersInv, world.now \in Int
  PROVE  Question(display'.state) = Question(display.state)
<1> DEFINE shown == display.state
           stored == Canonical(at, shown, 0)
           params == Over(Only("page", n), StateFields(stored, {"page"}))
           query == Canonical(at, params, TodayFor(Principal))
<1>1. at \in {"sessions", "people"} /\ Submitted(params)
  BY DEF TurnPage
<1>2. display' = Paint(at, query)
  BY <1>1 DEF Submitted, Apply
<1> HIDE DEF query
<1>3. display'.state = query
  BY <1>1, <1>2, PaintShows DEF Screens
<1> HIDE DEF stored
<1>4. /\ \A k : k # "page" => Get(params, k) = Get(stored, k)
      /\ \A k : k # "page" => GetAll(params, k) = GetAll(stored, k)
  <2> DEFINE one == Only("page", n)
             left == StateFields(stored, {"page"})
  <2>1. DOMAIN one = {"page"}
    BY DEF Only
  <2>2. \A k : k # "page" => Get(left, k) = Get(stored, k) /\ GetAll(left, k) = GetAll(stored, k)
    BY WithoutHas DEF StateFields
  <2> HIDE DEF one, left
  <2>3. \A k : k \notin DOMAIN one => /\ Get(Over(one, left), k) = Get(left, k)
                                      /\ GetAll(Over(one, left), k) = GetAll(left, k)
    BY OverHas
  <2> QED BY <2>1, <2>2, <2>3 DEF one, left
<1> HIDE DEF params, shown
<1>5. CASE at = "sessions"
  <2>1. query = ToQuery(ParseFilters(params)) /\ stored = ToQuery(ParseFilters(shown))
    BY <1>5 DEF query, stored, Canonical
  <2>2. /\ Asking(query, StatusesOf(query)) = Asking(params, StatusesOf(params))
        /\ Asking(stored, StatusesOf(stored)) = Asking(shown, StatusesOf(shown))
    BY <2>1, SessionsRoundTrip
  <2>3. StatusesOf(params) = StatusesOf(stored) /\ ColumnsShown(params) = ColumnsShown(stored)
    BY <1>4 DEF StatusesOf, ColumnsShown, Columns
  <2>4. Asking(params, StatusesOf(params)) = Asking(stored, StatusesOf(stored))
    BY <1>4, <2>3, AskingAlike
  <2>5. /\ Question(query) = Asking(query, StatusesOf(query))
        /\ Question(shown) = Asking(shown, StatusesOf(shown))
    BY <1>5, QuestionIs
  <2> QED BY <1>3, <2>2, <2>4, <2>5 DEF shown
<1>6. CASE at = "people"
  <2>1. /\ query = DirectoryQuery(ParseDirectoryFilters(params))
        /\ stored = DirectoryQuery(ParseDirectoryFilters(shown))
    BY <1>6 DEF query, stored, Canonical
  <2>2. /\ AskingPeople(query) = AskingPeople(params)
        /\ AskingPeople(stored) = AskingPeople(shown)
    BY <2>1, PeopleRoundTrip
  <2>3. AskingPeople(params) = AskingPeople(stored)
    BY <1>4 DEF AskingPeople, RolesOf, AccountsOf
  <2>4. Question(query) = AskingPeople(query) /\ Question(shown) = AskingPeople(shown)
    BY <1>6, PeopleQuestionIs
  <2> QED BY <1>3, <2>2, <2>3, <2>4 DEF shown
<1> QED BY <1>1, <1>5, <1>6

(* The calendar moved asks what was asked.                                 *)
LEMMA CalendarRoundTrip ==
  ASSUME NEW shown, Spelled("calendar", shown), NEW move,
         DOMAIN move \subseteq {"goto_date", "goto_view", "goto_at"},
         NEW view, NEW anchor, NEW today
  PROVE  LET params == Over(move, Without(shown, {}))
             query == QueryString(ParseFilters(params), view, anchor, today)
         IN  Asking(query, CalendarStatuses(query)) = Asking(shown, CalendarStatuses(shown))
<1> DEFINE params == Over(move, Without(shown, {}))
           filters == ParseFilters(params)
           fields == [view |-> IF view = "month" THEN None ELSE view,
                      date |-> IF anchor = today THEN None ELSE anchor,
                      q |-> filters.search,
                      status |-> IF CalendarStatusIsDefault(filters.statuses) THEN None
                                 ELSE filters.statuses,
                      instructor |-> filters.instructorRef, student |-> filters.studentRef,
                      school |-> filters.schoolRef]
           query == Present(fields)
           held == StatusesOf(shown)
           Keys == {"q", "status", "from", "to", "instructor", "program", "student", "school",
                    "columns"}
<1>1. \A k \in Keys : Get(params, k) = Get(shown, k) /\ GetAll(params, k) = GetAll(shown, k)
  <2> DEFINE left == Without(shown, {})
  <2>1. \A k : Get(left, k) = Get(shown, k) /\ GetAll(left, k) = GetAll(shown, k)
    BY WithoutHas
  <2> HIDE DEF left
  <2>2. \A k : k \notin DOMAIN move => /\ Get(Over(move, left), k) = Get(left, k)
                                       /\ GetAll(Over(move, left), k) = GetAll(left, k)
    BY OverHas
  <2> QED BY <2>1, <2>2 DEF left
<1>2. /\ DOMAIN fields = QueryKeys["calendar"]
      /\ fields.status = IF CalendarStatusIsDefault(StatusesOf(params)) THEN None
                         ELSE StatusesOf(params)
      /\ fields.q = Get(params, "q") /\ fields.instructor = Get(params, "instructor")
      /\ fields.student = Get(params, "student") /\ fields.school = Get(params, "school")
  BY DEF QueryKeys, ParseFilters, StatusesOf
<1>3. QueryString(filters, view, anchor, today) = query
  BY DEF QueryString
<1> HIDE DEF fields, params, filters
<1>4. /\ DOMAIN query = {k \in DOMAIN fields : fields[k] # None}
      /\ \A k : Get(query, k) = Get(fields, k)
      /\ \A k : GetAll(query, k) = IF k \in DOMAIN fields /\ fields[k] # None THEN fields[k]
                                   ELSE {}
  BY PresentHas
<1> HIDE DEF query
<1>5. StatusesOf(params) = held
  BY <1>1 DEF StatusesOf
<1>6. DOMAIN shown \subseteq QueryKeys["calendar"]
  BY DEF Spelled
<1>7. \A k \in {"q", "from", "to", "instructor", "program", "student", "school"} :
        Get(query, k) = Get(shown, k)
  <2>1. \A k \in {"q", "instructor", "student", "school"} : Get(query, k) = Get(shown, k)
    BY <1>1, <1>2, <1>4 DEF Get, QueryKeys
  <2>2. \A k \in {"from", "to", "program"} : k \notin DOMAIN shown /\ k \notin DOMAIN fields
    BY <1>2, <1>6 DEF QueryKeys
  <2>3. \A k \in {"from", "to", "program"} : Get(query, k) = Get(shown, k)
    BY <1>4, <2>2 DEF Get
  <2> QED BY <2>1, <2>3
<1>8. ColumnsShown(query) = ColumnsShown(shown)
  <2>1. "columns" \notin DOMAIN shown /\ "columns" \notin DOMAIN fields
    BY <1>2, <1>6 DEF QueryKeys
  <2>2. GetAll(query, "columns") = {} /\ GetAll(shown, "columns") = {}
    BY <1>4, <2>1 DEF GetAll
  <2> QED BY <2>2 DEF ColumnsShown, Columns
<1>9. CalendarStatuses(query) = CalendarStatuses(shown)
  <2>1. held \in SUBSET Status /\ held # None
    BY TicksAssumption DEF StatusesOf
  <2>2. "status" \in DOMAIN query <=> ~CalendarStatusIsDefault(held)
    BY <1>2, <1>4, <1>5, <2>1 DEF QueryKeys
  <2>3. CASE "status" \in DOMAIN shown
    <3>1. held # {}
      BY <2>3 DEF Spelled, StatusesOf, GetAll
    <3>2. CASE held = CALENDAR_INITIAL_STATUSES
      BY <2>2, <2>3, <3>2 DEF CalendarStatuses, CalendarStatusIsDefault
    <3>3. CASE held # CALENDAR_INITIAL_STATUSES
      <4>1. "status" \in DOMAIN query
        BY <2>2, <3>1, <3>3 DEF CalendarStatusIsDefault
      <4>2. GetAll(query, "status") = held
        BY <1>2, <1>4, <1>5, <4>1
      <4> QED BY <2>1, <2>3, <4>1, <4>2 DEF CalendarStatuses, StatusesOf
    <3> QED BY <3>2, <3>3
  <2>4. CASE "status" \notin DOMAIN shown
    <3>1. held = {}
      BY <2>4 DEF StatusesOf, GetAll
    <3>2. "status" \notin DOMAIN query
      BY <2>2, <3>1 DEF CalendarStatusIsDefault
    <3> QED BY <2>4, <3>2 DEF CalendarStatuses
  <2> QED BY <2>3, <2>4
<1>10. Asking(query, CalendarStatuses(query)) = Asking(shown, CalendarStatuses(shown))
  BY <1>7, <1>8, <1>9, AskingAlike
<1> QED BY <1>3, <1>10 DEF params, filters

LEMMA MoveAsksTheSame ==
  ASSUME MonthsGoOn, FiltersInv, world.now \in Int, NEW move \in GoToMoves, GoTo(move)
  PROVE  Question(display'.state) = Question(display.state)
<1> DEFINE shown == display.state
           params == Over(move, Without(shown, {}))
           today == TodayFor(Principal)
           range == CalendarRangeAsked(params, today)
           view == range.view
           anchor == range.anchor
           query == QueryString(ParseFilters(params), view, anchor, today)
<1>1. at = "calendar" /\ Submitted(params)
  BY DEF GoTo, StateFields
<1>2. display' = Paint(at, query)
  BY <1>1 DEF Submitted, Apply, Canonical
<1>3. Spelled("calendar", shown)
  BY <1>1 DEF FiltersInv, Screens
<1>4. DOMAIN move \subseteq {"goto_date", "goto_view", "goto_at"}
  BY <1>1, MovesAreNumeric
<1> HIDE DEF today, range, view, anchor, shown
<1>5. Asking(query, CalendarStatuses(query)) = Asking(shown, CalendarStatuses(shown))
  BY <1>3, <1>4, CalendarRoundTrip
<1> HIDE DEF query
<1>6. display'.state = query
  BY <1>1, <1>2, PaintShows DEF Screens
<1>7. /\ Question(query) = Asking(query, CalendarStatuses(query))
      /\ Question(shown) = Asking(shown, CalendarStatuses(shown))
  BY <1>1, QuestionIs
<1> QED BY <1>5, <1>6, <1>7 DEF shown

(* A list put in order, the latest first or the earliest, holds each row   *)
(* it is made of and nothing else.                                         *)
Follows(a, b) == a.start > b.start \/ (a.start = b.start /\ a.id > b.id)
Precedes(a, b) == a.start < b.start \/ (a.start = b.start /\ a.id < b.id)
LatestFirst(S) ==
  [n \in 1 .. Cardinality(S) |->
     CHOOSE row \in S : Cardinality({r \in S : Follows(r, row)}) = n - 1]
EarliestFirst(S) ==
  [n \in 1 .. Cardinality(S) |->
     CHOOSE row \in S : Cardinality({r \in S : Precedes(r, row)}) = n - 1]

LEMMA InOrderHoldsAll ==
  ASSUME NEW S, IsFiniteSet(S), \A s \in S : s.start \in Int /\ s.id \in Int,
         \A s, t \in S : s.id = t.id => s = t,
         NEW list, list = LatestFirst(S) \/ list = EarliestFirst(S)
  PROVE  /\ list \in Seq(S) /\ Len(list) = Cardinality(S)
         /\ \A s \in S : \E n \in DOMAIN list : list[n] = s
<1>1. list = [n \in DOMAIN list |-> list[n]] /\ DOMAIN list = 1 .. Cardinality(S)
  BY DEF LatestFirst, EarliestFirst
<1>2. CASE list = [n \in 1 .. Cardinality(S) |->
                     CHOOSE row \in S : Cardinality({r \in S : Follows(r, row)}) = n - 1]
  <2> DEFINE Below == [row \in S |-> {r \in S : Follows(r, row)}]
  <2>1. \A i \in S : /\ Below[i] = {r \in S : Follows(r, i)} /\ Below[i] \in SUBSET S
                     /\ \A j \in S : j \in Below[i] <=> Follows(j, i)
    OBVIOUS
  <2>2. ASSUME NEW n \in 1 .. Cardinality(S), NEW i \in S, Cardinality(Below[i]) = n - 1
        PROVE  list[n] \in S /\ Cardinality(Below[list[n]]) = n - 1
    <3>1. Cardinality({r \in S : Follows(r, i)}) = n - 1
      BY <2>1, <2>2
    <3>2. list[n] = CHOOSE row \in S : Cardinality({r \in S : Follows(r, row)}) = n - 1
      BY <1>2
    <3>3. list[n] \in S /\ Cardinality({r \in S : Follows(r, list[n])}) = n - 1
      BY <3>1, <3>2
    <3> HIDE DEF Below
    <3> QED BY <2>1, <3>3
  <2> HIDE DEF Below
  <2>3. \A i \in S : i \notin Below[i]
    BY <2>1 DEF Follows
  <2>4. \A i \in S : \A j \in S : i # j => i \in Below[j] \/ j \in Below[i]
    BY <2>1 DEF Follows
  <2>5. \A i \in S : \A j \in S : \A k \in S :
          i \in Below[j] /\ j \in Below[k] => i \in Below[k]
    BY <2>1 DEF Follows
  <2>6. Ranked(S, Below, list)
    BY <1>1, <2>1, <2>2, <2>3, <2>4, <2>5 DEF Ranked
  <2> QED BY <2>6, InOrderIsAll
<1>3. CASE list = [n \in 1 .. Cardinality(S) |->
                     CHOOSE row \in S : Cardinality({r \in S : Precedes(r, row)}) = n - 1]
  <2> DEFINE Below == [row \in S |-> {r \in S : Precedes(r, row)}]
  <2>1. \A i \in S : /\ Below[i] = {r \in S : Precedes(r, i)} /\ Below[i] \in SUBSET S
                     /\ \A j \in S : j \in Below[i] <=> Precedes(j, i)
    OBVIOUS
  <2>2. ASSUME NEW n \in 1 .. Cardinality(S), NEW i \in S, Cardinality(Below[i]) = n - 1
        PROVE  list[n] \in S /\ Cardinality(Below[list[n]]) = n - 1
    <3>1. Cardinality({r \in S : Precedes(r, i)}) = n - 1
      BY <2>1, <2>2
    <3>2. list[n] = CHOOSE row \in S : Cardinality({r \in S : Precedes(r, row)}) = n - 1
      BY <1>3
    <3>3. list[n] \in S /\ Cardinality({r \in S : Precedes(r, list[n])}) = n - 1
      BY <3>1, <3>2
    <3> HIDE DEF Below
    <3> QED BY <2>1, <3>3
  <2> HIDE DEF Below
  <2>3. \A i \in S : i \notin Below[i]
    BY <2>1 DEF Precedes
  <2>4. \A i \in S : \A j \in S : i # j => i \in Below[j] \/ j \in Below[i]
    BY <2>1 DEF Precedes
  <2>5. \A i \in S : \A j \in S : \A k \in S :
          i \in Below[j] /\ j \in Below[k] => i \in Below[k]
    BY <2>1 DEF Precedes
  <2>6. Ranked(S, Below, list)
    BY <1>1, <2>1, <2>2, <2>3, <2>4, <2>5 DEF Ranked
  <2> QED BY <2>6, InOrderIsAll
<1> QED BY <1>2, <1>3 DEF LatestFirst, EarliestFirst

(* A page of a list is rows of the list; a page as long as the list is it. *)
LEMMA PageHolds ==
  ASSUME NEW S, NEW list \in Seq(S), NEW page \in Nat \ {0}, NEW size \in Nat \ {0}
  PROVE  LET drawn == PageOf(list, page, size)
         IN  /\ drawn \in Seq(S)
             /\ \A i \in DOMAIN drawn : \E k \in DOMAIN list : drawn[i] = list[k]
             /\ Len(drawn) = Len(list) =>
                  \A k \in DOMAIN list : k \in DOMAIN drawn /\ drawn[k] = list[k]
<1> DEFINE m == (page - 1) * size + 1
           upto == page * size
           n == IF upto < Len(list) THEN upto ELSE Len(list)
           drawn == SubSeq(list, m, n)
<1>1. /\ m \in Int /\ upto \in Int /\ m >= 1 /\ upto = m + size - 1
      /\ page = 1 => m = 1
      /\ page > 1 => m > size
  <2>1. (page - 1) * size \in Nat /\ page * size = (page - 1) * size + size
    <3> DEFINE before == page - 1
    <3>1. before \in Nat /\ page = before + 1
      OBVIOUS
    <3> HIDE DEF before
    <3>2. before * size \in Nat /\ (before + 1) * size = before * size + size
      BY <3>1
    <3> QED BY <3>1, <3>2 DEF before
  <2>2. page > 1 => (page - 1) * size >= size
    <3> SUFFICES ASSUME page > 1 PROVE (page - 1) * size >= size
      OBVIOUS
    <3> DEFINE before == page - 2
    <3>1. before \in Nat /\ page - 1 = before + 1
      OBVIOUS
    <3> HIDE DEF before
    <3>2. before * size \in Nat /\ (before + 1) * size = before * size + size
      BY <3>1
    <3> QED BY <3>1, <3>2
  <2>3. page = 1 => (page - 1) * size = 0
    OBVIOUS
  <2> QED BY <2>1, <2>2, <2>3
<1>2. Len(list) \in Nat /\ DOMAIN list = 1 .. Len(list) /\ \A k \in DOMAIN list : list[k] \in S
  OBVIOUS
<1> HIDE DEF m, upto
<1>3. n \in Int /\ n <= Len(list) /\ n <= upto
  BY <1>1, <1>2
<1>4. n = upto \/ n = Len(list)
  OBVIOUS
<1>5. \A i \in m .. n : i \in DOMAIN list /\ list[i] \in S
  <2> HIDE DEF n
  <2> QED BY <1>1, <1>2, <1>3
<1> HIDE DEF n
<1>6. /\ drawn \in Seq(S)
      /\ Len(drawn) = IF m <= n THEN n - m + 1 ELSE 0
      /\ \A i \in 1 .. n - m + 1 : drawn[i] = list[m + i - 1]
  <2>1. \A i \in m .. n : list[i] \in S
    BY <1>5
  <2> QED BY <1>1, <1>3, <2>1, SubSeqProperties, SMTT(30)
<1> HIDE DEF drawn
<1>7. Len(drawn) \in Nat /\ DOMAIN drawn = 1 .. Len(drawn)
  BY <1>6
<1>8. ASSUME NEW i \in DOMAIN drawn PROVE \E k \in DOMAIN list : drawn[i] = list[k]
  <2>1. i \in 1 .. n - m + 1
    BY <1>1, <1>3, <1>6, <1>7
  <2>2. m + i - 1 \in m .. n
    BY <1>1, <1>3, <2>1
  <2> QED BY <1>5, <1>6, <2>1, <2>2
<1>9. ASSUME Len(drawn) = Len(list), NEW k \in DOMAIN list
      PROVE  k \in DOMAIN drawn /\ drawn[k] = list[k]
  <2>3. Len(drawn) = IF m <= n THEN n - m + 1 ELSE 0
    BY <1>6
  <2>4. Len(list) >= 1
    BY <1>2, <1>9
  <2>1. Len(list) >= 1 /\ n - m + 1 = Len(list)
    BY <1>1, <1>2, <1>3, <1>9, <2>3, <2>4
  <2>2. m = 1
    BY <1>1, <1>2, <1>3, <2>1
  <2> QED BY <1>2, <1>6, <1>7, <1>9, <2>1, <2>2
<1>10. PageOf(list, page, size) = drawn
  BY DEF PageOf, drawn, n, m, upto
<1> QED BY <1>6, <1>8, <1>9, <1>10

-----------------------------------------------------------------------------
(* What a list finds and draws.                                            *)

(* What a query's clauses admit together.                                  *)
Admits(where, s) == \A clause \in where : s \in clause[2]
LEMMA ClauseAdmits ==
  ASSUME NEW name, NEW given \in BOOLEAN, NEW admitted, NEW s
  PROVE  /\ Admits(Clause(name, given, admitted), s) <=> (given => s \in admitted)
         /\ \A clause \in Clause(name, given, admitted) : clause[1] = name /\ given
<1>1. CASE given
  <2>1. Clause(name, given, admitted) = {<<name, admitted>>}
    BY <1>1 DEF Clause, When
  <2>2. <<name, admitted>>[1] = name /\ <<name, admitted>>[2] = admitted
    OBVIOUS
  <2> QED BY <1>1, <2>1, <2>2 DEF Admits
<1>2. CASE ~given
  BY <1>2 DEF Admits, Clause, When
<1> QED BY <1>1, <1>2

LEMMA BothAdmit ==
  ASSUME NEW one, NEW other, NEW s
  PROVE  Admits(one \cup other, s) <=> Admits(one, s) /\ Admits(other, s)
BY DEF Admits

(* Only what goes under a name given again is replaced.                    *)
LEMMA ReplacingAdmits ==
  ASSUME NEW where, NEW clauses, NEW s
  PROVE  /\ Admits(Replacing(where, clauses), s) => Admits(clauses, s)
         /\ Admits(clauses, s) /\ Admits(where, s) => Admits(Replacing(where, clauses), s)
         /\ \A kept \in SUBSET where :
              (\A old \in kept : \A clause \in clauses : clause[1] # old[1]) =>
                (Admits(Replacing(where, clauses), s) => Admits(kept, s))
BY DEF Admits, Replacing

(* What the names in a filter narrow to.                                   *)
NamesFit(filters, s) ==
  /\ filters.instructorRef # None => s.who = filters.instructorRef
  /\ filters.programRef # None => s.program = filters.programRef
  /\ filters.studentRef # None => filters.studentRef \in s.students
  /\ filters.schoolRef # None => AtSchools(s, {filters.schoolRef})

RefNames == {"instructorId", "programId", "and", "participants"}

(* A student or a school alone takes the participants' key.                *)
GivesWay(filters) == (filters.studentRef # None) # (filters.schoolRef # None)
NamesTaken(filters) ==
  IF GivesWay(filters) THEN RefNames ELSE RefNames \ {"participants"}

LEMMA RefsAdmit ==
  ASSUME NEW sessions, NEW where, NEW filters, NEW s \in sessions
  PROVE  LET narrowed == NarrowByRefs(sessions, where, filters)
         IN  /\ Admits(narrowed, s) => NamesFit(filters, s)
             /\ NamesFit(filters, s) /\ Admits(where, s) => Admits(narrowed, s)
             /\ \A kept \in SUBSET where :
                  (\A old \in kept : old[1] \notin NamesTaken(filters)) =>
                    (Admits(narrowed, s) => Admits(kept, s))
<1> DEFINE ofStudent == {t \in sessions : filters.studentRef \in t.students}
           ofSchool == {t \in sessions : AtSchools(t, {filters.schoolRef})}
           student == filters.studentRef # None
           school == filters.schoolRef # None
           a == Clause("instructorId", filters.instructorRef # None,
                       {t \in sessions : t.who = filters.instructorRef})
           b == Clause("programId", filters.programRef # None,
                       {t \in sessions : t.program = filters.programRef})
           c == Clause("and", student /\ school, ofStudent \cap ofSchool)
           d == Clause("participants", student /\ ~school, ofStudent)
           e == Clause("participants", school /\ ~student, ofSchool)
           clauses == a \cup b \cup c \cup d \cup e
<1>1. NarrowByRefs(sessions, where, filters) = Replacing(where, clauses)
  BY DEF NarrowByRefs
<1>2. /\ Admits(a, s) <=> (filters.instructorRef # None => s.who = filters.instructorRef)
      /\ \A clause \in a : clause[1] = "instructorId"
  <2>1. s \in {t \in sessions : t.who = filters.instructorRef} <=> s.who = filters.instructorRef
    OBVIOUS
  <2> QED BY <2>1, ClauseAdmits
<1>3. /\ Admits(b, s) <=> (filters.programRef # None => s.program = filters.programRef)
      /\ \A clause \in b : clause[1] = "programId"
  <2>1. s \in {t \in sessions : t.program = filters.programRef} <=> s.program = filters.programRef
    OBVIOUS
  <2> QED BY <2>1, ClauseAdmits
<1>4. /\ s \in ofStudent <=> filters.studentRef \in s.students
      /\ s \in ofSchool <=> AtSchools(s, {filters.schoolRef})
  OBVIOUS
<1> HIDE DEF ofStudent, ofSchool
<1>5. /\ Admits(c, s) <=> (student /\ school => s \in ofStudent /\ s \in ofSchool)
      /\ \A clause \in c : clause[1] = "and"
  BY ClauseAdmits
<1>6. /\ Admits(d, s) <=> (student /\ ~school => s \in ofStudent)
      /\ \A clause \in d : clause[1] = "participants" /\ student /\ ~school
  BY ClauseAdmits
<1>7. /\ Admits(e, s) <=> (school /\ ~student => s \in ofSchool)
      /\ \A clause \in e : clause[1] = "participants" /\ school /\ ~student
  BY ClauseAdmits
<1> HIDE DEF a, b, c, d, e
<1>8. Admits(clauses, s) <=> NamesFit(filters, s)
  <2>1. Admits(clauses, s) <=> Admits(a, s) /\ Admits(b, s) /\ Admits(c, s) /\ Admits(d, s)
                               /\ Admits(e, s)
    BY DEF Admits, clauses
  <2> HIDE DEF clauses
  <2> QED BY <1>2, <1>3, <1>4, <1>5, <1>6, <1>7, <2>1 DEF NamesFit
<1>9. \A clause \in clauses : clause[1] \in NamesTaken(filters)
  <2>1. \A clause \in a \cup b \cup c : clause[1] \in RefNames \ {"participants"}
    BY <1>2, <1>3, <1>5 DEF RefNames
  <2>2. \A clause \in d \cup e : clause[1] \in RefNames /\ GivesWay(filters)
    BY <1>6, <1>7 DEF RefNames, GivesWay
  <2> QED BY <2>1, <2>2 DEF NamesTaken
<1> HIDE DEF clauses
<1>10. /\ Admits(Replacing(where, clauses), s) => Admits(clauses, s)
       /\ Admits(clauses, s) /\ Admits(where, s) => Admits(Replacing(where, clauses), s)
  BY ReplacingAdmits
<1>11. ASSUME NEW kept \in SUBSET where, \A old \in kept : old[1] \notin NamesTaken(filters),
              Admits(Replacing(where, clauses), s)
       PROVE  Admits(kept, s)
  BY <1>9, <1>11, ReplacingAdmits
<1> QED BY <1>1, <1>8, <1>10, <1>11

(* Whose sessions a list is made of.                                       *)
LEMMA VisibleAdmits ==
  ASSUME me \in SignedIn, NEW sessions, NEW s \in sessions
  PROVE  LET where == VisibleSessions(sessions, Principal)
         IN  /\ Admits(where, s) <=> InScope(s)
             /\ \A clause \in where : clause[1] \in {"or", "participants"}
             /\ \E kept \in SUBSET where :
                  /\ \A old \in kept : old[1] = "or"
                  /\ Admits(kept, s) => MineOrAny(s)
<1> DEFINE p == Principal
           any == Has(p, "session.view_any")
           scope == SchoolScope(p)
           owns == {t \in sessions : Owns(p, t) \/ OnSession(t) \cap Mine(p) # {}}
           schools == {t \in sessions : AtSchools(t, scope)}
           a == Clause("or", ~any, owns)
           b == Clause("participants", any /\ scope # None, schools)
<1>1. VisibleSessions(sessions, p) = a \cup b
  BY DEF VisibleSessions
<1>2. Owns(p, s) => OnSession(s) \cap Mine(p) # {}
  BY DEF Owns, OnSession, Mine
<1>3. /\ s \in owns <=> OnSession(s) \cap Mine(p) # {}
      /\ s \in schools <=> AtSchools(s, scope)
  BY <1>2
<1>4. /\ MineOrAny(s) <=> any \/ OnSession(s) \cap Mine(p) # {}
      /\ InScope(s) <=> MineOrAny(s) /\ (any /\ scope # None => AtSchools(s, scope))
  BY DEF MineOrAny, InScope
<1>5. any \in BOOLEAN
  BY DEF Has
<1> HIDE DEF owns, schools, any, scope
<1>6. /\ Admits(a, s) <=> (~any => s \in owns)
      /\ \A clause \in a : clause[1] = "or"
      /\ Admits(b, s) <=> (any /\ scope # None => s \in schools)
      /\ \A clause \in b : clause[1] = "participants"
  BY <1>5, ClauseAdmits
<1> HIDE DEF a, b, p
<1>7. /\ Admits(a \cup b, s) <=> InScope(s)
      /\ \A clause \in a \cup b : clause[1] \in {"or", "participants"}
  BY <1>3, <1>4, <1>6, BothAdmit
<1>8. a \in SUBSET (a \cup b) /\ (Admits(a, s) => MineOrAny(s))
  BY <1>3, <1>4, <1>6
<1>9. \E kept \in SUBSET (a \cup b) :
        (\A old \in kept : old[1] = "or") /\ (Admits(kept, s) => MineOrAny(s))
  BY <1>6, <1>8
<1>10. VisibleSessions(sessions, Principal) = a \cup b
  BY <1>1 DEF p
<1> QED BY <1>7, <1>9, <1>10

LEMMA TitlesAdmit ==
  ASSUME NEW sessions, NEW filters, NEW s \in sessions
  PROVE  LET where == TitlesAndStatuses(sessions, filters)
         IN  /\ Admits(where, s) <=> /\ filters.search # None => s.title \in Titled[filters.search]
                                     /\ Ticked(filters.statuses, s.status)
             /\ \A clause \in where : clause[1] \in {"title", "status"}
<1> DEFINE titles == {t \in sessions : t.title \in Titled[filters.search]}
           statuses == {t \in sessions : t.status \in filters.statuses}
           a == Clause("title", filters.search # None, titles)
           b == Clause("status", filters.statuses # {}, statuses)
<1>1. TitlesAndStatuses(sessions, filters) = a \cup b
  BY DEF TitlesAndStatuses
<1>2. /\ s \in titles <=> s.title \in Titled[filters.search]
      /\ s \in statuses <=> s.status \in filters.statuses
  OBVIOUS
<1> HIDE DEF titles, statuses
<1>3. /\ Admits(a, s) <=> (filters.search # None => s \in titles)
      /\ Admits(b, s) <=> (filters.statuses # {} => s \in statuses)
      /\ \A clause \in a : clause[1] = "title"
      /\ \A clause \in b : clause[1] = "status"
  BY ClauseAdmits
<1> HIDE DEF a, b
<1>4. Admits(a \cup b, s) <=> Admits(a, s) /\ Admits(b, s)
  BY BothAdmit
<1> QED BY <1>1, <1>2, <1>3, <1>4 DEF Ticked

(* What fits a question, by its parts.                                     *)
TitleFits(filters, s) ==
  /\ filters.search # None => s.title \in Titled[filters.search]
  /\ Ticked(filters.statuses, s.status)

LEMMA FitsOnTheGrid ==
  ASSUME NEW s, NEW query, NEW today, at' = "sessions"
  PROVE  LET f == ParseFilters(query)
             zone == Principal.zone
         IN  Fits(s, query, today) <=>
               /\ TitleFits(f, s) /\ NamesFit(f, s)
               /\ f.dateTo # None => CivilDate(s.start, zone) <= f.dateTo
               /\ f.dateFrom # None => CivilDate(s.end - 1, zone) >= f.dateFrom
<1> DEFINE f == ParseFilters(query)
           zone == Principal.zone
<1>1. Fits(s, query, today) <=>
        /\ f.search # None => s.title \in Titled[f.search]
        /\ Ticked(f.statuses, s.status)
        /\ f.instructorRef \in {None, s.who} /\ f.programRef \in {None, s.program}
        /\ f.studentRef \in s.students \cup {None}
        /\ f.schoolRef # None => AtSchools(s, {f.schoolRef})
        /\ f.dateTo # None => CivilDate(s.start, zone) <= f.dateTo
        /\ f.dateFrom # None => CivilDate(s.end - 1, zone) >= f.dateFrom
  BY DEF Fits
<1> HIDE DEF f, zone
<1>2. Fits(s, query, today) <=>
        /\ TitleFits(f, s) /\ NamesFit(f, s)
        /\ f.dateTo # None => CivilDate(s.start, zone) <= f.dateTo
        /\ f.dateFrom # None => CivilDate(s.end - 1, zone) >= f.dateFrom
  BY <1>1 DEF TitleFits, NamesFit
<1> QED BY <1>2 DEF f, zone

LEMMA FitsOnTheCalendar ==
  ASSUME NEW s, NEW query, NEW today, at' = "calendar"
  PROVE  LET f == CalendarFilters(query)
             w == WindowOf(query, today)
             zone == Principal.zone
         IN  Fits(s, query, today) <=>
               /\ TitleFits(f, s) /\ NamesFit(f, s)
               /\ CivilDate(s.start, zone) \in w.first .. w.last
<1> DEFINE f == CalendarFilters(query)
           w == WindowOf(query, today)
           zone == Principal.zone
<1>1. Fits(s, query, today) <=>
        /\ f.search # None => s.title \in Titled[f.search]
        /\ Ticked(f.statuses, s.status)
        /\ f.instructorRef \in {None, s.who} /\ f.programRef \in {None, s.program}
        /\ f.studentRef \in s.students \cup {None}
        /\ f.schoolRef # None => AtSchools(s, {f.schoolRef})
        /\ CivilDate(s.start, zone) \in w.first .. w.last
  BY DEF Fits
<1> HIDE DEF f, w, zone
<1>2. Fits(s, query, today) <=>
        /\ TitleFits(f, s) /\ NamesFit(f, s)
        /\ CivilDate(s.start, zone) \in w.first .. w.last
  BY <1>1 DEF TitleFits, NamesFit
<1> QED BY <1>2 DEF f, w, zone

(* A day's midnight divides the days.                                      *)
LEMMA MidnightDivides ==
  ASSUME NEW z \in Zones, ChangesWithinADay(z), NEW d \in Int, NEW i \in Int
  PROVE  /\ At(d, 0, z) \in Int /\ CivilDate(i, z) \in Int
         /\ i < At(d + 1, 0, z) <=> CivilDate(i, z) <= d
         /\ At(d, 0, z) <= i <=> CivilDate(i, z) >= d
<1>1. At(d, 0, z) \in Int /\ At(d + 1, 0, z) \in Int
  BY ResolvedAt
<1>2. CivilDate(i, z) \in Int
  <2> DEFINE wall == WallOf(z, i)
  <2>1. wall \in Int /\ DayLen \in Int /\ DayLen > 0
    BY ZoneFacts DEF WallOf, Offset
  <2> HIDE DEF wall
  <2>2. wall \div DayLen \in Int
    BY <2>1
  <2> QED BY <2>2 DEF CivilDate, wall
<1> DEFINE day == CivilDate(i, z)
<1>3. (i < At(d, 0, z) <=> day < d) /\ (i < At(d + 1, 0, z) <=> day < d + 1)
  BY BeforeMidnight
<1> HIDE DEF day
<1>4. day \in Int
  BY <1>2 DEF day
<1> QED BY <1>1, <1>3, <1>4 DEF day

(* What a query admits fits the question and is in the viewer's scope, but *)
(* where the scope gives way; what fits and is in scope is admitted.       *)
Found(where, query, today) ==
  \A s \in world.sessions :
    /\ Admits(where, s) => Fits(s, query, today) /\ MayBeDrawn(s, query)
    /\ Fits(s, query, today) /\ InScope(s) => Admits(where, s)

(* Where the scope gives way, by what is asked.                            *)
LEMMA WhoMayBeDrawn ==
  ASSUME NEW s, NEW query, NEW filters,
         \/ at' = "sessions" /\ filters = ParseFilters(query)
         \/ at' = "calendar" /\ filters = CalendarFilters(query)
  PROVE  /\ GivesWay(filters) => (MayBeDrawn(s, query) <=> MineOrAny(s))
         /\ ~GivesWay(filters) => (MayBeDrawn(s, query) <=> InScope(s))
<1>1. ScopeGivesWay(query) <=> GivesWay(filters)
  BY DEF ScopeGivesWay, GivesWay
<1> QED BY <1>1 DEF MayBeDrawn

LEMMA GridFinds ==
  ASSUME me \in SignedIn, \A s \in world.sessions : Lasts(s), ChangesWithinADay(Principal.zone),
         NEW query, Spelled("sessions", query), NEW today, at' = "sessions"
  PROVE  LET p == Principal
             filters == ParseFilters(query)
         IN  Found(NarrowByRefs(world.sessions,
                     ApplyFilters(world.sessions, VisibleSessions(world.sessions, p), filters,
                                  p.zone), filters),
                   query, today)
<1> DEFINE sessions == world.sessions
           zone == Principal.zone
           filters == ParseFilters(query)
           mine == VisibleSessions(sessions, Principal)
           titles == TitlesAndStatuses(sessions, filters)
           late == {s \in sessions : s.end > At(filters.dateFrom, 0, zone)}
           early == {s \in sessions : s.start < At(filters.dateTo + 1, 0, zone)}
           a == Clause("scheduledEnd", filters.dateFrom # None, late)
           b == Clause("scheduledStart", filters.dateTo # None, early)
           where == ApplyFilters(sessions, mine, filters, zone)
           narrowed == NarrowByRefs(sessions, where, filters)
<1>1. zone \in Zones
  BY QueriesAssumption DEF Principal
<1>2. filters.dateFrom \in Days /\ filters.dateTo \in Days
  <2>1. Numeric(query)
    BY SpelledIsNumeric DEF Screens
  <2>2. filters.dateFrom = Get(query, "from") /\ filters.dateTo = Get(query, "to")
    BY DEF ParseFilters
  <2> HIDE DEF filters
  <2> QED BY <2>1, <2>2, NumericGet DEF DateKeys
<1>3. where = mine \cup titles \cup a \cup b
  BY DEF ApplyFilters
<1> SUFFICES ASSUME NEW s \in sessions
             PROVE  /\ Admits(narrowed, s) => Fits(s, query, today) /\ MayBeDrawn(s, query)
                    /\ Fits(s, query, today) /\ InScope(s) => Admits(narrowed, s)
  BY DEF Found
<1>4. s.start \in Int /\ s.end \in Int
  BY DEF Lasts
<1>5. /\ s \in late <=> s.end > At(filters.dateFrom, 0, zone)
      /\ s \in early <=> s.start < At(filters.dateTo + 1, 0, zone)
  OBVIOUS
<1> HIDE DEF late, early
<1>6. /\ Admits(a, s) <=> (filters.dateFrom # None => s \in late)
      /\ Admits(b, s) <=> (filters.dateTo # None => s \in early)
      /\ \A clause \in a : clause[1] = "scheduledEnd"
      /\ \A clause \in b : clause[1] = "scheduledStart"
  BY ClauseAdmits
<1> HIDE DEF a, b
<1>7. /\ Admits(titles, s) <=> TitleFits(filters, s)
      /\ \A clause \in titles : clause[1] \in {"title", "status"}
  BY TitlesAdmit DEF TitleFits
<1>8. /\ Admits(mine, s) <=> InScope(s)
      /\ \A clause \in mine : clause[1] \in {"or", "participants"}
      /\ \E kept \in SUBSET mine : /\ \A old \in kept : old[1] = "or"
                                   /\ Admits(kept, s) => MineOrAny(s)
  BY VisibleAdmits
<1> HIDE DEF titles, mine, where
<1>9. /\ Admits(narrowed, s) => NamesFit(filters, s)
      /\ NamesFit(filters, s) /\ Admits(where, s) => Admits(narrowed, s)
      /\ \A kept \in SUBSET where :
           (\A old \in kept : old[1] \notin NamesTaken(filters)) =>
             (Admits(narrowed, s) => Admits(kept, s))
  BY RefsAdmit
<1> HIDE DEF narrowed
<1>10. Fits(s, query, today) <=>
         /\ TitleFits(filters, s) /\ NamesFit(filters, s)
         /\ filters.dateTo # None => CivilDate(s.start, zone) <= filters.dateTo
         /\ filters.dateFrom # None => CivilDate(s.end - 1, zone) >= filters.dateFrom
  BY FitsOnTheGrid
<1>11. /\ GivesWay(filters) => (MayBeDrawn(s, query) <=> MineOrAny(s))
       /\ ~GivesWay(filters) => (MayBeDrawn(s, query) <=> InScope(s))
  BY WhoMayBeDrawn
<1> HIDE DEF filters
<1>12. filters.dateTo # None =>
         (s \in early <=> CivilDate(s.start, zone) <= filters.dateTo)
  <2> SUFFICES ASSUME filters.dateTo # None
               PROVE  s \in early <=> CivilDate(s.start, zone) <= filters.dateTo
    OBVIOUS
  <2> DEFINE d == filters.dateTo
  <2>1. d \in Int
    BY <1>2 DEF Days
  <2> HIDE DEF d
  <2>2. s.start < At(d + 1, 0, zone) <=> CivilDate(s.start, zone) <= d
    BY <1>1, <1>4, <2>1, MidnightDivides
  <2> QED BY <1>5, <2>2 DEF d
<1>13. filters.dateFrom # None =>
         (s \in late <=> CivilDate(s.end - 1, zone) >= filters.dateFrom)
  <2> SUFFICES ASSUME filters.dateFrom # None
               PROVE  s \in late <=> CivilDate(s.end - 1, zone) >= filters.dateFrom
    OBVIOUS
  <2> DEFINE d == filters.dateFrom
             i == s.end - 1
  <2>1. d \in Int /\ i \in Int
    BY <1>2, <1>4 DEF Days
  <2>2. s.end > At(d, 0, zone) <=> At(d, 0, zone) <= i
    <3>1. At(d, 0, zone) \in Int
      BY <1>1, <2>1, ResolvedAt
    <3> QED BY <1>4, <3>1
  <2> HIDE DEF d, i
  <2>3. At(d, 0, zone) <= i <=> CivilDate(i, zone) >= d
    BY <1>1, <2>1, MidnightDivides
  <2> QED BY <1>5, <2>2, <2>3 DEF d, i
<1>14. Admits(where, s) <=> /\ Admits(mine, s) /\ Admits(titles, s)
                            /\ Admits(a, s) /\ Admits(b, s)
  BY <1>3 DEF Admits
<1>15. ASSUME Admits(narrowed, s) PROVE Fits(s, query, today) /\ MayBeDrawn(s, query)
  <2>1. PICK kept \in SUBSET mine : /\ \A old \in kept : old[1] = "or"
                                    /\ Admits(kept, s) => MineOrAny(s)
    BY <1>8
  <2>2. /\ Admits(kept, s) /\ Admits(titles, s) /\ Admits(a, s) /\ Admits(b, s)
    <3>1. \A old \in kept : old[1] \notin NamesTaken(filters)
      BY <2>1 DEF RefNames, NamesTaken
    <3>2. \A old \in titles : old[1] \notin NamesTaken(filters)
      BY <1>7 DEF RefNames, NamesTaken
    <3>3. \A old \in a : old[1] \notin NamesTaken(filters)
      BY <1>6 DEF RefNames, NamesTaken
    <3>4. \A old \in b : old[1] \notin NamesTaken(filters)
      BY <1>6 DEF RefNames, NamesTaken
    <3>5. /\ kept \in SUBSET where /\ titles \in SUBSET where
          /\ a \in SUBSET where /\ b \in SUBSET where
      BY <1>3
    <3> QED BY <1>9, <1>15, <3>1, <3>2, <3>3, <3>4, <3>5
  <2>3. ~GivesWay(filters) => InScope(s)
    <3>1. ~GivesWay(filters) => \A old \in mine : old[1] \notin NamesTaken(filters)
      BY <1>8 DEF RefNames, NamesTaken
    <3> QED BY <1>3, <1>8, <1>9, <1>15, <3>1
  <2>4. MayBeDrawn(s, query)
    BY <1>11, <2>1, <2>2, <2>3
  <2> QED BY <1>6, <1>7, <1>9, <1>10, <1>12, <1>13, <1>15, <2>2, <2>4
<1>16. ASSUME Fits(s, query, today), InScope(s) PROVE Admits(narrowed, s)
  BY <1>6, <1>7, <1>8, <1>9, <1>10, <1>12, <1>13, <1>14, <1>16
<1> QED BY <1>15, <1>16

(* So does the calendar, of the days on view.                              *)
LEMMA CalendarFinds ==
  ASSUME MonthsGoOn,
         me \in SignedIn, \A s \in world.sessions : Lasts(s), ChangesWithinADay(Principal.zone),
         NEW query, Spelled("calendar", query), NEW today \in Int, at' = "calendar"
  PROVE  LET p == Principal
             filters == CalendarFilters(query)
             w == WindowOf(query, today)
             begins == {s \in world.sessions : /\ At(w.first, 0, p.zone) <= s.start
                                               /\ s.start < At(w.last + 1, 0, p.zone)}
         IN  Found(NarrowByRefs(world.sessions,
                     VisibleSessions(world.sessions, p) \cup {<<"scheduledStart", begins>>}
                       \cup TitlesAndStatuses(world.sessions, filters), filters),
                   query, today)
<1> DEFINE sessions == world.sessions
           zone == Principal.zone
           filters == CalendarFilters(query)
           w == WindowOf(query, today)
           mine == VisibleSessions(sessions, Principal)
           titles == TitlesAndStatuses(sessions, filters)
           begins == {s \in sessions : /\ At(w.first, 0, zone) <= s.start
                                       /\ s.start < At(w.last + 1, 0, zone)}
           a == {<<"scheduledStart", begins>>}
           where == mine \cup a \cup titles
           narrowed == NarrowByRefs(sessions, where, filters)
<1>1. zone \in Zones
  BY QueriesAssumption DEF Principal
<1>2. w.first \in Int /\ w.last \in Int
  <2> DEFINE view == ViewOf(query)
             anchor == AnchorOf(query, today)
  <2>1. view \in Views
    BY DEF ViewOf, ParseView, Views
  <2>2. Get(query, "date") \in Days
    BY SpelledIsNumeric, NumericGet DEF Screens, DateKeys
  <2>3. anchor \in Int
    BY <2>2 DEF AnchorOf, ParseAnchor, Days
  <2>4. w = BuildWindow(view, anchor)
    BY DEF WindowOf
  <2> HIDE DEF view, anchor, w
  <2> QED BY <2>1, <2>3, <2>4, WindowIsOfDays
<1> HIDE DEF w
<1> SUFFICES ASSUME NEW s \in sessions
             PROVE  /\ Admits(narrowed, s) => Fits(s, query, today) /\ MayBeDrawn(s, query)
                    /\ Fits(s, query, today) /\ InScope(s) => Admits(narrowed, s)
  BY DEF Found, w
<1>3. s.start \in Int
  BY DEF Lasts
<1>4. s \in begins <=> At(w.first, 0, zone) <= s.start /\ s.start < At(w.last + 1, 0, zone)
  OBVIOUS
<1> HIDE DEF begins
<1>5. (Admits(a, s) <=> s \in begins) /\ \A clause \in a : clause[1] = "scheduledStart"
  <2>1. <<"scheduledStart", begins>>[1] = "scheduledStart"
        /\ <<"scheduledStart", begins>>[2] = begins
    OBVIOUS
  <2> QED BY <2>1 DEF Admits
<1> HIDE DEF a
<1>6. s \in begins <=> CivilDate(s.start, zone) \in w.first .. w.last
  <2> DEFINE first == w.first
             last == w.last
             day == CivilDate(s.start, zone)
  <2>1. /\ day \in Int
        /\ s.start < At(last + 1, 0, zone) <=> day <= last
        /\ At(first, 0, zone) <= s.start <=> day >= first
    BY <1>1, <1>2, <1>3, MidnightDivides
  <2> HIDE DEF first, last, day
  <2>2. first \in Int /\ last \in Int
    BY <1>2 DEF first, last
  <2>3. day \in first .. last <=> day >= first /\ day <= last
    BY <2>1, <2>2
  <2> QED BY <1>4, <2>1, <2>3 DEF first, last, day
<1>7. /\ Admits(titles, s) <=> TitleFits(filters, s)
      /\ \A clause \in titles : clause[1] \in {"title", "status"}
  BY TitlesAdmit DEF TitleFits
<1>8. /\ Admits(mine, s) <=> InScope(s)
      /\ \A clause \in mine : clause[1] \in {"or", "participants"}
      /\ \E kept \in SUBSET mine : /\ \A old \in kept : old[1] = "or"
                                   /\ Admits(kept, s) => MineOrAny(s)
  BY VisibleAdmits
<1> HIDE DEF titles, mine
<1>9. /\ Admits(narrowed, s) => NamesFit(filters, s)
      /\ NamesFit(filters, s) /\ Admits(where, s) => Admits(narrowed, s)
      /\ \A kept \in SUBSET where :
           (\A old \in kept : old[1] \notin NamesTaken(filters)) =>
             (Admits(narrowed, s) => Admits(kept, s))
  <2> HIDE DEF where, filters
  <2> QED BY RefsAdmit
<1> HIDE DEF narrowed
<1>10. Fits(s, query, today) <=>
         /\ TitleFits(filters, s) /\ NamesFit(filters, s)
         /\ CivilDate(s.start, zone) \in w.first .. w.last
  BY FitsOnTheCalendar DEF w
<1>11. /\ GivesWay(filters) => (MayBeDrawn(s, query) <=> MineOrAny(s))
       /\ ~GivesWay(filters) => (MayBeDrawn(s, query) <=> InScope(s))
  BY WhoMayBeDrawn
<1> HIDE DEF filters
<1>12. Admits(where, s) <=> Admits(mine, s) /\ Admits(a, s) /\ Admits(titles, s)
  BY DEF Admits
<1>13. ASSUME Admits(narrowed, s) PROVE Fits(s, query, today) /\ MayBeDrawn(s, query)
  <2>1. PICK kept \in SUBSET mine : /\ \A old \in kept : old[1] = "or"
                                    /\ Admits(kept, s) => MineOrAny(s)
    BY <1>8
  <2>2. Admits(kept, s) /\ Admits(titles, s) /\ Admits(a, s)
    <3>1. \A old \in kept : old[1] \notin NamesTaken(filters)
      BY <2>1 DEF RefNames, NamesTaken
    <3>2. \A old \in titles : old[1] \notin NamesTaken(filters)
      BY <1>7 DEF RefNames, NamesTaken
    <3>3. \A old \in a : old[1] \notin NamesTaken(filters)
      BY <1>5 DEF RefNames, NamesTaken
    <3>4. kept \in SUBSET where /\ titles \in SUBSET where /\ a \in SUBSET where
      OBVIOUS
    <3> HIDE DEF where
    <3> QED BY <1>9, <1>13, <3>1, <3>2, <3>3, <3>4
  <2>3. ~GivesWay(filters) => InScope(s)
    <3>1. ~GivesWay(filters) => \A old \in mine : old[1] \notin NamesTaken(filters)
      BY <1>8 DEF RefNames, NamesTaken
    <3> QED BY <1>8, <1>9, <1>13, <3>1
  <2>4. MayBeDrawn(s, query)
    BY <1>11, <2>1, <2>2, <2>3
  <2> QED BY <1>5, <1>6, <1>7, <1>9, <1>10, <1>13, <2>2, <2>4
<1>14. ASSUME Fits(s, query, today), InScope(s) PROVE Admits(narrowed, s)
  BY <1>5, <1>6, <1>7, <1>8, <1>9, <1>10, <1>12, <1>14
<1> QED BY <1>13, <1>14

(* What a list draws of the rows it finds.                                 *)
OnList(drawn) == {drawn[i].session : i \in DOMAIN drawn}

(* Rows in order and decorated are the rows a query finds.                 *)
LEMMA ListedInOrder ==
  ASSUME Numbered(world.sessions), \A s \in world.sessions : Lasts(s), NEW where, NEW list,
         list \in {LatestFirst(Meets(world.sessions, where)),
                  EarliestFirst(Meets(world.sessions, where))}
  PROVE  /\ list \in Seq(world.sessions)
         /\ \A n \in DOMAIN list : Admits(where, list[n])
         /\ \A s \in world.sessions : Admits(where, s) => \E n \in DOMAIN list : list[n] = s
<1> DEFINE S == Meets(world.sessions, where)
<1>1. \A s : s \in S <=> s \in world.sessions /\ Admits(where, s)
  BY DEF Meets, Admits
<1>2. S \in SUBSET world.sessions
  BY <1>1
<1> HIDE DEF S
<1>3. IsFiniteSet(S)
  BY <1>2, FS_Subset DEF Numbered
<1>4. \A s \in S : s.start \in Int /\ s.id \in Int
  <2>1. Cardinality(world.sessions) \in Nat
    BY FS_CardinalityType DEF Numbered
  <2> QED BY <1>2, <2>1 DEF Numbered, Lasts
<1>5. \A s, t \in S : s.id = t.id => s = t
  BY <1>2 DEF Numbered
<1>6. /\ list \in Seq(S) /\ Len(list) = Cardinality(S)
      /\ \A s \in S : \E n \in DOMAIN list : list[n] = s
  BY <1>3, <1>4, <1>5, InOrderHoldsAll DEF S
<1>7. \A n \in DOMAIN list : list[n] \in S
  BY <1>6
<1>8. list \in Seq(world.sessions)
  BY <1>2, <1>6
<1> QED BY <1>1, <1>6, <1>7, <1>8

(* The rows of a list, decorated, are of the same sessions.                *)
LEMMA DecoratedDraws ==
  ASSUME NEW sessions, NEW p, NEW S, NEW list \in Seq(S)
  PROVE  LET drawn == Decorated(sessions, p, list)
         IN  /\ DOMAIN drawn = DOMAIN list /\ Len(drawn) = Len(list)
             /\ \A i \in DOMAIN list : /\ drawn[i].session = list[i]
                                       /\ "session" \in DOMAIN drawn[i]
<1> DEFINE drawn == Decorated(sessions, p, list)
           n == Len(list)
<1>1. n \in Nat /\ DOMAIN list = 1 .. n
  OBVIOUS
<1>2. drawn = [i \in 1 .. n |-> Decorate(sessions, p, list[i])]
  BY <1>1 DEF Decorated
<1>3. ASSUME NEW s PROVE Decorate(sessions, p, s).session = s
                         /\ "session" \in DOMAIN Decorate(sessions, p, s)
  BY DEF Decorate
<1> HIDE DEF n
<1>4. DOMAIN drawn = 1 .. n /\ \A i \in 1 .. n : drawn[i] = Decorate(sessions, p, list[i])
  BY <1>2
<1>5. Len(drawn) = n
  BY <1>1, <1>2
<1> HIDE DEF drawn
<1> QED BY <1>1, <1>3, <1>4, <1>5 DEF drawn, n

(* The session grid as it is drawn.                                        *)
LEMMA GridDraws ==
  ASSUME FiltersInv, Numbered(world.sessions), \A s \in world.sessions : Lasts(s),
         ChangesWithinADay(Principal.zone), NEW query, Spelled("sessions", query), NEW today,
         at' = "sessions"
  PROVE  LET page == SessionsPage(Principal, query)
         IN  /\ \A s \in OnList(page.rows) : /\ s \in world.sessions
                                            /\ Fits(s, query, today) /\ MayBeDrawn(s, query)
             /\ Len(page.rows) = page.total =>
                  \A s \in world.sessions : Fits(s, query, today) /\ InScope(s) =>
                                              s \in OnList(page.rows)
<1> DEFINE p == Principal
           filters == ParseFilters(query)
           where == NarrowByRefs(world.sessions,
                      ApplyFilters(world.sessions, VisibleSessions(world.sessions, p), filters,
                                   p.zone), filters)
           S == Meets(world.sessions, where)
           list == LatestFirst(S)
           some == PageOf(list, filters.page, PAGE_SIZE)
           drawn == Decorated(world.sessions, p, some)
<1>1. Found(where, query, today)
  BY GridFinds DEF FiltersInv
<1>2. filters.page \in Nat \ {0} /\ PAGE_SIZE \in Nat \ {0}
  <2>1. filters.page = ParsePage(Get(query, "page"))
    BY DEF ParseFilters
  <2>2. Get(query, "page") \in Days
    BY SpelledIsNumeric, NumericGet DEF Screens, DateKeys
  <2> HIDE DEF filters
  <2> QED BY <2>1, <2>2, PageIsPositive, PageSizeAssumption
<1>3. ListSessions(world.sessions, p, filters, PAGE_SIZE) = [rows |-> drawn, total |-> Len(list)]
  BY DEF ListSessions, InOrder, LatestFirst, Follows
<1> HIDE DEF where
<1>4. /\ list \in Seq(world.sessions)
      /\ \A n \in DOMAIN list : Admits(where, list[n])
      /\ \A s \in world.sessions : Admits(where, s) => \E n \in DOMAIN list : list[n] = s
  BY ListedInOrder
<1> HIDE DEF S, list
<1>5. /\ SessionsPage(p, query).rows = drawn /\ SessionsPage(p, query).total = Len(list)
  BY <1>3 DEF SessionsPage, Blank
<1> HIDE DEF filters
<1>6. /\ some \in Seq(world.sessions)
      /\ \A i \in DOMAIN some : \E k \in DOMAIN list : some[i] = list[k]
      /\ Len(some) = Len(list) =>
           \A k \in DOMAIN list : k \in DOMAIN some /\ some[k] = list[k]
  BY <1>2, <1>4, PageHolds
<1> HIDE DEF some
<1>7. /\ DOMAIN drawn = DOMAIN some /\ Len(drawn) = Len(some)
      /\ \A i \in DOMAIN some : drawn[i].session = some[i]
  BY <1>6, DecoratedDraws
<1> HIDE DEF drawn, p
<1>8. ASSUME NEW s \in OnList(drawn)
      PROVE  s \in world.sessions /\ Fits(s, query, today) /\ MayBeDrawn(s, query)
  <2>1. PICK i \in DOMAIN drawn : s = drawn[i].session
    BY DEF OnList
  <2>2. PICK k \in DOMAIN list : s = list[k]
    BY <1>6, <1>7, <2>1
  <2>3. s \in world.sessions /\ Admits(where, s)
    BY <1>4, <2>2
  <2> QED BY <1>1, <2>3 DEF Found
<1>9. ASSUME Len(drawn) = Len(list), NEW s \in world.sessions, Fits(s, query, today), InScope(s)
      PROVE  s \in OnList(drawn)
  <2>1. Admits(where, s)
    BY <1>1, <1>9 DEF Found
  <2>2. PICK k \in DOMAIN list : list[k] = s
    BY <1>4, <2>1
  <2>3. k \in DOMAIN some /\ some[k] = s
    BY <1>6, <1>7, <1>9, <2>2
  <2> QED BY <1>7, <2>3 DEF OnList
<1> QED BY <1>5, <1>8, <1>9 DEF p

(* The calendar as it is drawn.                                            *)
LEMMA CalendarDraws ==
  ASSUME MonthsGoOn, FiltersInv, world.now \in Int, Numbered(world.sessions),
         \A s \in world.sessions : Lasts(s), ChangesWithinADay(Principal.zone),
         NEW query, Spelled("calendar", query), at' = "calendar"
  PROVE  LET page == CalendarPage(Principal, query)
             today == TodayFor(Principal)
         IN  /\ \A s \in OnList(page.rows) : /\ s \in world.sessions
                                            /\ Fits(s, query, today) /\ MayBeDrawn(s, query)
             /\ \A s \in world.sessions : Fits(s, query, today) /\ InScope(s) =>
                                            s \in OnList(page.rows)
<1> DEFINE p == Principal
           today == TodayFor(p)
           filters == CalendarFilters(query)
           w == WindowOf(query, today)
           begins == {s \in world.sessions : /\ At(w.first, 0, p.zone) <= s.start
                                             /\ s.start < At(w.last + 1, 0, p.zone)}
           where == NarrowByRefs(world.sessions,
                      VisibleSessions(world.sessions, p) \cup {<<"scheduledStart", begins>>}
                        \cup TitlesAndStatuses(world.sessions, filters), filters)
           S == Meets(world.sessions, where)
           list == EarliestFirst(S)
           found == Decorated(world.sessions, p, list)
           drawn == [i \in DOMAIN found |-> PeekOf(found[i], p, world.now)]
<1>1. today \in Int
  BY TodayIsADay DEF FiltersInv
<1>2. Found(where, query, today)
  <2> HIDE DEF today
  <2> QED BY <1>1, CalendarFinds DEF FiltersInv
<1>3. CalendarRange(world.sessions, p, w, filters) = found
  <2> HIDE DEF w, filters
  <2> QED BY DEF CalendarRange, InOrder, EarliestFirst, Precedes
<1> HIDE DEF where, w, today
<1>4. /\ list \in Seq(world.sessions)
      /\ \A n \in DOMAIN list : Admits(where, list[n])
      /\ \A s \in world.sessions : Admits(where, s) => \E n \in DOMAIN list : list[n] = s
  BY ListedInOrder
<1> HIDE DEF S, list
<1>5. /\ DOMAIN found = DOMAIN list
      /\ \A i \in DOMAIN list : found[i].session = list[i] /\ "session" \in DOMAIN found[i]
  BY <1>4, DecoratedDraws
<1> HIDE DEF found
<1>6. CalendarPage(p, query).rows = drawn
  BY <1>3 DEF CalendarPage, Blank, w, today
<1> HIDE DEF filters
<1>7. DOMAIN drawn = DOMAIN list /\ \A i \in DOMAIN list : drawn[i].session = list[i]
  <2>1. ASSUME NEW i \in DOMAIN list PROVE PeekOf(found[i], p, world.now).session = list[i]
    <3> DEFINE row == found[i]
               offers == [actions |-> AvailableActions(p, row.session, world.now, row.involved),
                          start |-> CanStartMeeting(p, row.session)]
    <3>1. PeekOf(row, p, world.now) = Over(row, offers)
      BY DEF PeekOf
    <3>2. "session" \in DOMAIN row /\ row.session = list[i]
      BY <1>5
    <3> HIDE DEF row, offers
    <3>3. Over(row, offers)["session"] = row["session"]
      BY <3>2, OverHas
    <3> QED BY <3>1, <3>2, <3>3 DEF row
  <2> QED BY <1>5, <2>1
<1> HIDE DEF drawn
<1>8. ASSUME NEW s \in OnList(drawn)
      PROVE  s \in world.sessions /\ Fits(s, query, today) /\ MayBeDrawn(s, query)
  <2>1. PICK i \in DOMAIN drawn : s = drawn[i].session
    BY DEF OnList
  <2>2. s \in world.sessions /\ Admits(where, s)
    BY <1>4, <1>7, <2>1
  <2> QED BY <1>2, <2>2 DEF Found
<1>9. ASSUME NEW s \in world.sessions, Fits(s, query, today), InScope(s) PROVE s \in OnList(drawn)
  <2>1. Admits(where, s)
    BY <1>2, <1>9 DEF Found
  <2>2. PICK k \in DOMAIN list : list[k] = s
    BY <1>4, <2>1
  <2> QED BY <1>7, <2>2 DEF OnList
<1> QED BY <1>6, <1>8, <1>9 DEF p, today

(* A screen is drawn from its page.                                        *)
LEMMA PaintDraws ==
  ASSUME NEW query
  PROVE  /\ Paint("sessions", query).rows = SessionsPage(Principal, query).rows
         /\ Paint("sessions", query).total = SessionsPage(Principal, query).total
         /\ Paint("calendar", query).rows = CalendarPage(Principal, query).rows
         /\ Paint("calendar", query).total = CalendarPage(Principal, query).total
<1> DEFINE today == TodayFor(Principal)
           sessions == SessionsPage(Principal, query)
           calendar == CalendarPage(Principal, query)
           Keys == {"state", "today", "rows", "people", "total"}
<1>1. DOMAIN sessions = Keys /\ DOMAIN calendar = Keys
  BY DEF SessionsPage, CalendarPage, Blank
<1>2. /\ Paint("sessions", query) = [sessions EXCEPT !.state = query, !.today = today]
      /\ Paint("calendar", query) = [calendar EXCEPT !.state = query, !.today = today]
  BY DEF Paint
<1> HIDE DEF sessions, calendar, today
<1>3. /\ Paint("sessions", query).rows = sessions.rows
      /\ Paint("sessions", query).total = sessions.total
      /\ Paint("calendar", query).rows = calendar.rows
      /\ Paint("calendar", query).total = calendar.total
  BY <1>1, <1>2
<1> QED BY <1>3 DEF sessions, calendar

LEMMA PaintAnswers ==
  ASSUME MonthsGoOn, FiltersInv, world.now \in Int, Numbered(world.sessions),
         \A s \in world.sessions : Lasts(s), ChangesWithinADay(Principal.zone),
         at' \in {"calendar", "sessions"}, NEW query, Spelled(at', query),
         display' = Paint(at', query)
  PROVE  AnswersItsQuestion
<1>1. display'.state = query /\ display'.today = TodayFor(Principal)
  BY PaintShows DEF Screens
<1>2. /\ \A s \in OnList(display'.rows) :
           /\ s \in world.sessions
           /\ Fits(s, display'.state, display'.today) /\ MayBeDrawn(s, display'.state)
      /\ Len(display'.rows) = display'.total =>
           \A s \in world.sessions :
             Fits(s, display'.state, display'.today) /\ InScope(s) => s \in OnList(display'.rows)
  <2>1. CASE at' = "calendar"
    <3>1. display'.rows = CalendarPage(Principal, query).rows
      BY <2>1, PaintDraws
    <3> QED BY <1>1, <2>1, <3>1, CalendarDraws
  <2>2. CASE at' = "sessions"
    <3>1. /\ display'.rows = SessionsPage(Principal, query).rows
          /\ display'.total = SessionsPage(Principal, query).total
      BY <2>2, PaintDraws
    <3> DEFINE today == display'.today
    <3>2. LET page == SessionsPage(Principal, query)
          IN  /\ \A s \in OnList(page.rows) : /\ s \in world.sessions
                                             /\ Fits(s, query, today) /\ MayBeDrawn(s, query)
              /\ Len(page.rows) = page.total =>
                   \A s \in world.sessions : Fits(s, query, today) /\ InScope(s) =>
                                               s \in OnList(page.rows)
      <4> HIDE DEF today
      <4> QED BY <2>2, GridDraws
    <3> QED BY <1>1, <3>1, <3>2
  <2> QED BY <2>1, <2>2
<1> QED BY <1>2 DEF AnswersItsQuestion, OnList

(* Whatever a step draws anew on a list screen, it paints.                 *)
LEMMA ScreensArePainted ==
  ASSUME Next, display' # display, at' \in Screens
  PROVE  me' = me /\ \E query : display' = Paint(at', query)
<1>1. ASSUME NEW query, Apply(query)
      PROVE  me' = me /\ \E q : display' = Paint(at', q)
  BY <1>1 DEF Apply
<1>2. CASE AtScreen
  <2>1. ASSUME NEW screen \in Screens, Visit(screen) \/ LeaveForm(screen)
        PROVE  me' = me /\ \E q : display' = Paint(at', q)
    BY <2>1 DEF Visit, LeaveForm, Open
  <2>2. ASSUME NEW link \in Links, FollowLink(link)
        PROVE  me' = me /\ \E q : display' = Paint(at', q)
    BY <2>2 DEF FollowLink
  <2>3. ASSUME \E params : Submitted(params)
        PROVE  me' = me /\ \E q : display' = Paint(at', q)
    BY <1>1, <2>3 DEF Submitted
  <2>4. CASE \E picked \in DrawerPicks : ApplyDrawer(picked)
    BY <2>3, <2>4 DEF ApplyDrawer
  <2>5. CASE \E text \in Texts : Search(text)
    BY <2>3, <2>5 DEF Search
  <2>6. CASE \E ticks \in Ticks : CloseMenu(ticks)
    BY <2>3, <2>6 DEF CloseMenu
  <2>7. CASE Reset
    BY <1>1, <2>7 DEF Reset
  <2>8. CASE \E move \in GoToMoves : GoTo(move)
    BY <2>3, <2>8 DEF GoTo
  <2>9. CASE \E n \in Turns : TurnPage(n)
    BY <2>3, <2>9 DEF TurnPage
  <2>10. CASE Export
    BY <2>10 DEF Export
  <2>11. CASE OpenBooking
    BY <2>11 DEF OpenBooking, Screens
  <2> QED BY <1>2, <2>1, <2>2, <2>4, <2>5, <2>6, <2>7, <2>8, <2>9, <2>10, <2>11 DEF AtScreen
<1>3. CASE AtForm
  BY <1>3 DEF AtForm, deskVars
<1>4. CASE FinishBooking
  BY <1>4 DEF FinishBooking, Screens
<1>5. CASE OtherPeople
  BY <1>5 DEF OtherPeople, deskVars
<1>6. ASSUME NEW held \in TabWrites, OtherTab(held.screen, held.query)
      PROVE  FALSE
  BY <1>6 DEF OtherTab
<1> QED BY <1>2, <1>3, <1>4, <1>5, <1>6 DEF Next

(* MovingKeepsTheFilter of every office: whatever is stored, linked, typed *)
(* or ticked, in every tab and on however stale a screen, moving asks what *)
(* was asked, and a list drawn anew holds what fits what it asks, within   *)
(* the viewer's schools unless exactly one of a student and a school is    *)
(* asked for: narrowByRefs then replaces the clause of the schools, and    *)
(* what bounds a viewer who sees only their own sessions still does.  It is*)
(* about a calendar that goes on and people whose clocks move by less than *)
(* a day at once: where a day is skipped its midnight is another day's.    *)
THEOREM TheFilterIsKept ==
  MonthsGoOn /\ (\A who \in SignedIn : ChangesWithinADay(LoadPrincipal(who).zone)) =>
    (Spec => MovingKeepsTheFilter)
<1> SUFFICES ASSUME MonthsGoOn,
                    \A who \in SignedIn : ChangesWithinADay(LoadPrincipal(who).zone)
             PROVE  Spec => MovingKeepsTheFilter
  OBVIOUS
<1> DEFINE Moves == (\E move \in GoToMoves : GoTo(move)) \/ (\E n \in Turns : TurnPage(n))
           SameAsked == Moves => Question(display'.state) = Question(display.state)
           Answers == display' # display /\ at' \in {"calendar", "sessions"} => AnswersItsQuestion
<1>1. FiltersInv /\ FiltersInv' /\ ClockInv /\ SessionsLast /\ Numbered(world.sessions)
        /\ [Next]_vars => [SameAsked /\ Answers]_vars
  <2> SUFFICES ASSUME FiltersInv, FiltersInv', ClockInv, SessionsLast, Numbered(world.sessions),
                      Next
               PROVE  SameAsked /\ Answers
    OBVIOUS
  <2>1. world.now \in Int
    BY DEF ClockInv
  <2>2. SameAsked
    BY <2>1, MoveAsksTheSame, TurnAsksTheSame
  <2>3. Answers
    <3> SUFFICES ASSUME display' # display, at' \in {"calendar", "sessions"}
                 PROVE  AnswersItsQuestion
      OBVIOUS
    <3>1. PICK query : display' = Paint(at', query)
      BY ScreensArePainted DEF Screens
    <3>2. display'.state = query
      BY <3>1, PaintShows DEF Screens
    <3>3. Spelled(at', query)
      BY <3>2 DEF FiltersInv, Screens, Spelled
    <3>4. ChangesWithinADay(Principal.zone)
      BY DEF Principal, FiltersInv
    <3>5. \A s \in world.sessions : Lasts(s)
      BY DEF SessionsLast
    <3> QED BY <2>1, <3>1, <3>3, <3>4, <3>5, PaintAnswers
  <2> QED BY <2>2, <2>3
<1> QED BY <1>1, FiltersHold, ClockHolds, SessionsHold, NumbersHold, PTL
        DEF Spec, MovingKeepsTheFilter
=============================================================================
