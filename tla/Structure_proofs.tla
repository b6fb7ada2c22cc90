-------------------------- MODULE Structure_proofs --------------------------
(***************************************************************************)
(* What the directory guarantees for any number of people, places, forms   *)
(* and requests side by side, with requests that stop half-way: where      *)
(* people are placed, what a regional administrator is bounded by, what    *)
(* somebody is created with, how full a group can get, which names can     *)
(* meet.                                                                   *)
(***************************************************************************)
EXTENDS Structure, FiniteSetTheorems, SequenceTheorems, TLAPS

-----------------------------------------------------------------------------
(* Statements, and the order in which a script puts them.                  *)

Bare == {"drop_roles", "drop_schools", "drop_districts", "drop_regions",
         "retire", "join", "leave"}
Deed == {"user.created", "user.student_enrolled", "user.guardian_enrolled",
         "user.staff_enrolled", "user.placements_set", "user.student_assigned",
         "user.archived", "created", "archived", "member_added", "member_removed"}
Statement ==
  ({"account"} \X SUBSET (Role \X (Region \cup {None})))
    \cup ({"tell", "record"} \X Deed) \cup {<<what>> : what \in Bare}
    \cup ({"school"} \X School) \cup ({"district"} \X District)
    \cup ({"region", "grant"} \X Region) \cup ({"archive"} \X BOOLEAN)
    \cup ({"guardian", "ward", "instructor", "throw"} \X Person \X BOOLEAN)
    \cup ({"insert"} \X (Nat \cup {None}))

CallState ==
  [at : {"idle", "running", "done", "refused", "failed", "dead"},
   todo : Seq(Statement), met : SUBSET Request, after : SUBSET Request]

Items(t) == {t[n] : n \in 1 .. Len(t)}
Left(r) == IF call[r].at = "running" THEN Items(call[r].todo) ELSE {}
Opens(items) == \E s \in items : s[1] = "account"

(* Which statements a request of a kind may have.                          *)
Filling == {"school", "district", "region"}
Dropping == {"drop_schools", "drop_districts", "drop_regions"}
Tags(op) ==
  CASE op = "create_student" -> {"account", "tell", "guardian", "instructor", "throw"} \cup Filling
    [] op = "create_guardian" -> {"account", "tell", "ward", "throw"}
    [] op = "create_staff" -> {"account", "tell", "drop_roles", "grant"} \cup Filling
    [] op = "invite" -> {"account", "tell"}
    [] op \in {"set_placements", "attach_school", "detach_school"} ->
         {"tell"} \cup Dropping \cup Filling
    [] op = "assign" -> {"instructor", "tell"}
    [] op = "archive" -> {"archive", "tell"}
    [] op = "create" -> {"insert", "record"}
    [] op = "retire" -> {"retire", "record"}
    [] op = "add_member" -> {"join", "record"}
    [] op = "remove_member" -> {"leave", "record"}
    [] OTHER -> {}

(* The account comes first, what is taken away before what is given, what  *)
(* may throw before either, and no place twice.                            *)
Follows(a, b) ==
  /\ b[1] # "account"
  /\ b[1] \in Dropping \cup {"drop_roles"} => a[1] \notin Filling \cup {"grant"}
  /\ b[1] \in {"instructor", "throw"} => a[1] \notin Filling \cup Dropping
  /\ b[1] \in Filling \cup Dropping \cup {"drop_roles", "join"} => a # b
  /\ b[1] = "insert" => a[1] # "insert"
Ordered(t) == \A m, n \in 1 .. Len(t) : m < n => Follows(t[m], t[n])

Scripted ==
  /\ call \in [Request -> CallState]
  /\ \A r \in Running :
       /\ call[r].todo # <<>> /\ Ordered(call[r].todo)
       /\ \A s \in Left(r) : s[1] \in Tags(Form[r].op)

(* Requests that run side by side have met, each the other.                *)
Acquainted == \A r, d \in Running : r # d => d \in call[r].met

-----------------------------------------------------------------------------
(* The accounts.                                                           *)

PeopleTyped ==
  /\ user \in [Person -> Account \cup {None}]
  /\ placed \in [Person -> [schools : SUBSET School, districts : SUBSET District,
                            regions : SUBSET Region]]
  /\ guardians \subseteq [guardian : Person, student : Person, primary : BOOLEAN]
  /\ teaches \subseteq Person \X Person
  /\ \A l \in guardians : Here(l.guardian) /\ Here(l.student)
  /\ \A l \in teaches : Here(l[1]) /\ Here(l[2])
  /\ \A p \in Person : ~Here(p) => placed[p] = Nowhere
  /\ \A p \in DOMAIN Staff : Here(p)

(* Who sent it is here, and whom it is about once their account is open;   *)
(* whoever is to be linked is here.                                        *)
CreatingOps == {"create_student", "create_guardian", "create_staff"}
Present ==
  \A r \in Request :
    /\ call[r].at = "running" => Here(Form[r].by)
    /\ call[r].at = "done" /\ Form[r].op \in CreatingOps => Here(Form[r].by)
    /\ call[r].at = "running" /\ Form[r].op \in EnrolOps /\ ~Opens(Left(r))
         => Here(Form[r].person)
    /\ call[r].at = "done" /\ Form[r].op = "create_staff" => Here(Form[r].person)
    /\ \A s \in Left(r) : s[1] \in {"guardian", "ward", "instructor"} => Here(s[2])

-----------------------------------------------------------------------------
(* The bound of a regional administrator.                                  *)

Bounds(ids) == {<<"regional_admin", g>> : g \in ids}
Granted(items) == {s[2] : s \in {s \in items : s[1] = "grant"}}
Regional(r) == Form[r].op = "create_staff" /\ Form[r].role = "regional_admin"
Past(r) == /\ Form[r].op = "create_staff" /\ call[r].at \in {"running", "done"}
           /\ ~Opens(Left(r))

(* Of two that create the same member of staff one goes past the account;  *)
(* what that one has granted and what it has still to grant are together   *)
(* what the form chose.                                                    *)
SoleMaker ==
  \A r, d \in Request :
    Past(r) /\ Past(d) /\ Form[r].person = Form[d].person => r = d
Bounding ==
  \A r \in Request : Regional(r) /\ call[r].at \in {"running", "done"} =>
    IF <<"drop_roles">> \in Left(r) THEN Granted(Left(r)) = Form[r].regions
    ELSE /\ Past(r)
         /\ user[Form[r].person].roles \cup Bounds(Granted(Left(r)))
              = Bounds(Form[r].regions)

-----------------------------------------------------------------------------
(* What a form named is there, or is still to come, or makes it fail.      *)

Pending_(r, tags, p) == \E s \in Left(r) : s[1] \in tags /\ s[2] = p
StudentWhole(r) ==
  /\ Form[r].guardian # None =>
       \/ <<"guardian", Form[r].guardian, TRUE>> \in Left(r)
       \/ \E l \in guardians :
            l.guardian = Form[r].guardian /\ l.student = Form[r].person /\ l.primary
  /\ \A i \in ToSet(Form[r].instructors) :
       <<i, Form[r].person>> \in teaches \/ Pending_(r, {"instructor", "throw"}, i)
GuardianWhole(r) ==
  \A i \in ToSet(Form[r].students) :
    \/ Pending_(r, {"ward", "throw"}, i)
    \/ \E l \in guardians : l.guardian = Form[r].person /\ l.student = i
Whole ==
  \A r \in Request :
    /\ call[r].at \in {"running", "done"} /\ HasRole(Form[r].by, "admin")
    => /\ Form[r].op = "create_student" => StudentWhole(r)
       /\ Form[r].op = "create_guardian" => GuardianWhole(r)

-----------------------------------------------------------------------------
(* Where somebody will be placed once the request about them is through.   *)

Ids(items, tag) == {s[2] : s \in {s \in items : s[1] = tag}}
Filled(items) == [schools |-> Ids(items, "school"), districts |-> Ids(items, "district"),
                  regions |-> Ids(items, "region")]
Kept(items, drop, ids) == IF <<drop>> \in items THEN {} ELSE ids
Coming(x, items) ==
  [schools |-> Kept(items, "drop_schools", x.schools) \cup Ids(items, "school"),
   districts |-> Kept(items, "drop_districts", x.districts) \cup Ids(items, "district"),
   regions |-> Kept(items, "drop_regions", x.regions) \cup Ids(items, "region")]
Fresh(x, items) ==
  /\ Kept(items, "drop_schools", x.schools) \cap Ids(items, "school") = {}
  /\ Kept(items, "drop_districts", x.districts) \cap Ids(items, "district") = {}
  /\ Kept(items, "drop_regions", x.regions) \cap Ids(items, "region") = {}
Coherent(x) == \/ x = Expanded(x.schools)
               \/ x.schools = {} /\ x.districts = {}

Failing == {"account", "instructor", "throw", "join", "leave", "insert"}
Alone(p) ==
  \A r \in About(p) : call[r].at # "dead" /\ call[r].met \cap About(p) = {}
Heading(items, x) ==
  /\ IF Opens(items) THEN Coherent(Filled(items))
     ELSE Coherent(Coming(x, items)) /\ Fresh(x, items)
  /\ (\E s \in items : s[1] \in Failing) => Coherent(x)
Cohering ==
  \A p \in Person : Alone(p) =>
    /\ (\A r \in About(p) : r \notin Running) => Coherent(placed[p])
    /\ \A r \in About(p) : r \in Running => Heading(Left(r), placed[p])

-----------------------------------------------------------------------------
(* The rows of the hierarchy and the members of the groups.                *)

Joins(r) == Form[r].op = "add_member" /\ <<"join">> \in Left(r)
RowsTyped ==
  /\ row \in Seq(RowsBy(Request \cup {None}))
  /\ \A i \in DOMAIN row : row[i].by # None => call[row[i].by].at # "idle"
  /\ member \subseteq [group : DOMAIN row, who : Person, role : Role]
  /\ IsFiniteSet(member)
  /\ \A m \in member : Here(m.who)
  /\ \A r \in Request : Joins(r) => Form[r].group \in DOMAIN row /\ Here(Form[r].person)

Joining(g) == {r \in Running : Joins(r) /\ Form[r].group = g /\ Form[r].role = "student"}
Roomed ==
  \A g \in DOMAIN row : row[g].kind = "group" /\ row[g].capacity # None =>
    Cardinality(Students(g)) + Cardinality(Joining(g))
      <= row[g].capacity + MaxInFlight - 1

(* Whoever has yet to insert a row has met whoever made one of that name.  *)
Inserts(r) == Form[r].op = "create" /\ Ids(Left(r), "insert") # {}
Naming ==
  \A r \in Request : Inserts(r) =>
    \A i \in DOMAIN row :
      LiveOf(Form[r].kind, i) /\ row[i].name[1] = Form[r].name[1]
        => row[i].by \in call[r].met

DirectoryInv ==
  /\ Scripted /\ Acquainted /\ PeopleTyped /\ Present
  /\ SoleMaker /\ Bounding /\ Whole /\ Cohering
  /\ RowsTyped /\ Roomed /\ Naming /\ SameNameOnlyByMeeting

-----------------------------------------------------------------------------
(* Sequences and what is in them.                                          *)

LEMMA ItemsOfTwo ==
  ASSUME NEW S, NEW s \in Seq(S), NEW t \in Seq(S)
  PROVE  /\ s \o t \in Seq(S) /\ Items(s \o t) = Items(s) \cup Items(t)
         /\ Ordered(s) /\ Ordered(t)
            /\ (\A a \in Items(s), b \in Items(t) : Follows(a, b))
              => Ordered(s \o t)
<1> DEFINE u == s \o t
           m == Len(s)
           n == Len(t)
<1>1. /\ u \in Seq(S) /\ Len(u) = m + n /\ m \in Nat /\ n \in Nat
      /\ \A i \in 1 .. m + n : u[i] = IF i <= m THEN s[i] ELSE t[i - m]
  BY ConcatProperties, LenProperties
<1> HIDE DEF u, m, n
<1>2. \A i \in 1 .. m : i \in 1 .. m + n /\ u[i] = s[i]
  BY <1>1
<1>3. \A i \in 1 .. n : i + m \in 1 .. m + n /\ u[i + m] = t[i]
  BY <1>1
<1>4. \A i \in 1 .. m + n : (i \in 1 .. m /\ u[i] = s[i])
                             \/ (i - m \in 1 .. n /\ u[i] = t[i - m])
  BY <1>1
<1>5. ASSUME NEW x  PROVE x \in Items(u) <=> x \in Items(s) \cup Items(t)
  <2>1. x \in Items(u) => x \in Items(s) \cup Items(t)
    BY <1>1, <1>4 DEF Items, m, n
  <2>2. x \in Items(s) => x \in Items(u)
    BY <1>1, <1>2 DEF Items, m
  <2>3. x \in Items(t) => x \in Items(u)
    BY <1>1, <1>3 DEF Items, n
  <2> QED
    BY <2>1, <2>2, <2>3
<1>6. ASSUME Ordered(s), Ordered(t),
             \A a \in Items(s), b \in Items(t) : Follows(a, b),
             NEW i \in 1 .. m + n, NEW j \in 1 .. m + n, i < j
      PROVE  Follows(u[i], u[j])
  <2>1. CASE i \in 1 .. m /\ j \in 1 .. m
    BY <1>2, <1>6, <2>1 DEF Ordered, m
  <2>2. CASE i \in 1 .. m /\ j - m \in 1 .. n
    <3>1. s[i] \in Items(s) /\ t[j - m] \in Items(t) /\ j > m
      BY <1>1, <2>2 DEF Items, m, n
    <3> QED
      BY <1>1, <1>2, <1>6, <2>2, <3>1
  <2>3. CASE i - m \in 1 .. n /\ j - m \in 1 .. n
    <3>1. i - m < j - m /\ u[i] = t[i - m] /\ u[j] = t[j - m]
      BY <1>1, <1>6, <2>3
    <3> QED
      BY <1>6, <2>3, <3>1 DEF Ordered, n
  <2> QED
    BY <1>1, <1>6, <2>1, <2>2, <2>3
<1>7. Ordered(s) /\ Ordered(t)
      /\ (\A a \in Items(s), b \in Items(t) : Follows(a, b)) => Ordered(u)
  BY <1>1, <1>6 DEF Ordered
<1> QED
  BY <1>1, <1>5, <1>7 DEF u

LEMMA ItemsFromHead ==
  ASSUME NEW S, NEW t \in Seq(S), t # <<>>
  PROVE  /\ Head(t) \in S /\ Tail(t) \in Seq(S)
         /\ Items(t) = {Head(t)} \cup Items(Tail(t))
         /\ Len(t) = 1 => Items(Tail(t)) = {}
         /\ Len(t) # 1 => Tail(t) # <<>>
         /\ Ordered(t) => /\ Ordered(Tail(t))
                          /\ \A b \in Items(Tail(t)) : Follows(Head(t), b)
<1> DEFINE u == Tail(t)
           n == Len(t)
<1>1. /\ Head(t) = t[1] /\ u \in Seq(S) /\ n \in Nat /\ n >= 1
      /\ Len(u) = n - 1 /\ \A i \in 1 .. n - 1 : u[i] = t[i + 1]
      /\ t[1] \in S
  BY HeadTailProperties, LenProperties, EmptySeq, ElementOfSeq
<1>2. Len(<<>>) = 0
  OBVIOUS
<1> HIDE DEF u, n
<1>3. \A i \in 1 .. n : i = 1 \/ (i - 1 \in 1 .. n - 1 /\ t[i] = u[i - 1])
  BY <1>1
<1>4. \A i \in 1 .. n - 1 : i + 1 \in 1 .. n /\ u[i] = t[i + 1] /\ 1 < i + 1
  BY <1>1
<1>5. 1 \in 1 .. n
  BY <1>1
<1>6. ASSUME NEW x  PROVE x \in Items(t) <=> x \in {t[1]} \cup Items(u)
  <2>1. x \in Items(t) => x = t[1] \/ x \in Items(u)
    BY <1>1, <1>3 DEF Items, n
  <2>2. x = t[1] => x \in Items(t)
    BY <1>5 DEF Items, n
  <2>3. x \in Items(u) => x \in Items(t)
    BY <1>1, <1>4 DEF Items, n
  <2> QED
    BY <2>1, <2>2, <2>3
<1>7. n = 1 => Items(u) = {}
  BY <1>1 DEF Items
<1>8. n # 1 => u # <<>>
  BY <1>1, <1>2
<1>9. ASSUME Ordered(t)
      PROVE  Ordered(u) /\ \A b \in Items(u) : Follows(t[1], b)
  <2>1. \A i, j \in 1 .. n : i < j => Follows(t[i], t[j])
    BY <1>9 DEF Ordered, n
  <2>2. ASSUME NEW i \in 1 .. n - 1, NEW j \in 1 .. n - 1, i < j
        PROVE  Follows(u[i], u[j])
    <3>1. i + 1 < j + 1
      BY <2>2
    <3> QED
      BY <1>4, <2>1, <3>1
  <2>3. \A i \in 1 .. n - 1 : Follows(t[1], u[i])
    BY <1>4, <1>5, <2>1
  <2> QED
    BY <1>1, <2>2, <2>3 DEF Ordered, Items
<1> QED
  BY <1>1, <1>6, <1>7, <1>8, <1>9 DEF u, n

LEMMA ItemsOfFew ==
  /\ \A a : Items(<<a>>) = {a} /\ Ordered(<<a>>)
  /\ \A a, b : /\ Items(<<a, b>>) = {a, b}
               /\ Follows(a, b) => Ordered(<<a, b>>)
  /\ Items(<<>>) = {} /\ Ordered(<<>>)
<1>1. ASSUME NEW a  PROVE Items(<<a>>) = {a} /\ Ordered(<<a>>)
  BY DEF Items, Ordered
<1>2. ASSUME NEW a, NEW b
      PROVE  Items(<<a, b>>) = {a, b} /\ (Follows(a, b) => Ordered(<<a, b>>))
  <2>1. Len(<<a, b>>) = 2 /\ <<a, b>>[1] = a /\ <<a, b>>[2] = b
    OBVIOUS
  <2>2. 1 .. 2 = {1, 2}
    OBVIOUS
  <2> QED
    BY <2>1, <2>2 DEF Items, Ordered
<1>3. Items(<<>>) = {} /\ Ordered(<<>>)
  BY DEF Items, Ordered
<1> QED
  BY <1>1, <1>2, <1>3

(* A set put in some order, each member once.                              *)
LEMMA SetInOrder ==
  ASSUME NEW S, IsFiniteSet(S)
  PROVE  /\ Cardinality(S) \in Nat
         /\ SetToSeq(S) \in [1 .. Cardinality(S) -> S]
         /\ \A i, j \in 1 .. Cardinality(S) :
              SetToSeq(S)[i] = SetToSeq(S)[j] => i = j
         /\ \A x \in S : \E i \in 1 .. Cardinality(S) : SetToSeq(S)[i] = x
<1> DEFINE n == Cardinality(S)
           f == SetToSeq(S)
<1>1. n \in Nat /\ ExistsBijection(1 .. n, S)
  BY FS_CardinalityType
<1>2. \E g \in [1 .. n -> S] : IsInjective(g)
  BY <1>1 DEF ExistsBijection, Bijection, Injection, IsInjective
<1>3. f \in [1 .. n -> S] /\ IsInjective(f)
  BY <1>2 DEF SetToSeq
<1> HIDE DEF f, n
<1>4. f \in Injection(1 .. n, S)
  BY <1>3 DEF Injection, IsInjective
<1>5. IsFiniteSet(1 .. n) /\ Cardinality(1 .. n) = n
  BY <1>1, FS_Interval
<1>6. f \in Surjection(1 .. n, S)
  BY <1>4, <1>5, FS_Injection DEF n
<1> QED
  BY <1>1, <1>3, <1>6 DEF f, n, Surjection, IsInjective

LEMMA EachOfListed ==
  ASSUME NEW what \in Filling \cup {"grant"}, NEW ids, IsFiniteSet(ids)
  PROVE  /\ EachOf(what, ids) \in Seq({what} \X ids)
         /\ Items(EachOf(what, ids)) = {what} \X ids
         /\ Ordered(EachOf(what, ids))
<1> DEFINE n == Cardinality(ids)
           f == SetToSeq(ids)
           t == EachOf(what, ids)
<1>1. /\ n \in Nat /\ f \in [1 .. n -> ids]
      /\ \A i, j \in 1 .. n : f[i] = f[j] => i = j
      /\ \A x \in ids : \E i \in 1 .. n : f[i] = x
  BY SetInOrder
<1> HIDE DEF f, n
<1>2. t = [i \in 1 .. n |-> <<what, f[i]>>]
  BY <1>1 DEF EachOf, f
<1> HIDE DEF t
<1>3. t \in Seq({what} \X ids) /\ Len(t) = n
  BY <1>1, <1>2
<1>4. \A i \in 1 .. n : t[i] = <<what, f[i]>>
  BY <1>2
<1>5. Items(t) = {what} \X ids
  <2>1. ASSUME NEW x \in Items(t)  PROVE x \in {what} \X ids
    BY <1>1, <1>3, <1>4 DEF Items
  <2>2. ASSUME NEW x \in ids  PROVE <<what, x>> \in Items(t)
    <3>1. PICK i \in 1 .. n : f[i] = x
      BY <1>1
    <3> QED
      BY <1>3, <1>4, <3>1 DEF Items
  <2> QED
    BY <2>1, <2>2
<1>6. Ordered(t)
  <2>1. ASSUME NEW i \in 1 .. n, NEW j \in 1 .. n, i < j
        PROVE  Follows(t[i], t[j])
    <3>1. t[i][1] = what /\ t[j][1] = what /\ t[i] # t[j]
      BY <1>1, <1>4, <2>1
    <3> QED
      BY <3>1 DEF Follows, Filling, Dropping
  <2> QED
    BY <1>3, <2>1 DEF Ordered
<1> QED
  BY <1>3, <1>5, <1>6 DEF t

LEMMA UpFinite ==
  ASSUME NEW schools \in SUBSET School
  PROVE  /\ DistrictsOf(schools) \in SUBSET District
         /\ RegionsOf(DistrictsOf(schools)) \in SUBSET Region
         /\ Expanded(schools).schools = schools
         /\ Expanded(schools).districts = DistrictsOf(schools)
         /\ Expanded(schools).regions = RegionsOf(DistrictsOf(schools))
<1>1. DistrictsOf(schools) \in SUBSET District
  BY EnrolmentAssumption DEF DistrictsOf, Known
<1>2. RegionsOf(DistrictsOf(schools)) \in SUBSET Region
  BY <1>1, EnrolmentAssumption DEF RegionsOf, Known
<1> QED
  BY <1>1, <1>2 DEF Expanded

(* A script of statements, in order, that are these.                       *)
Listed(t, items) == t \in Seq(Statement) /\ Ordered(t) /\ Items(t) = items

LEMMA ListedTwo ==
  ASSUME NEW s, NEW t, NEW I, NEW J, Listed(s, I), Listed(t, J),
         \A a \in I, b \in J : Follows(a, b)
  PROVE  Listed(s \o t, I \cup J)
BY ItemsOfTwo DEF Listed

LEMMA ListedFew ==
  /\ Listed(<<>>, {})
  /\ \A a \in Statement : Listed(<<a>>, {a})
  /\ \A a, b \in Statement : Follows(a, b) => Listed(<<a, b>>, {a, b})
BY ItemsOfFew DEF Listed

LEMMA EachListed ==
  ASSUME NEW what \in Filling \cup {"grant"}, NEW ids, IsFiniteSet(ids),
         {what} \X ids \subseteq Statement
  PROVE  Listed(EachOf(what, ids), {what} \X ids)
BY SeqMonotonic, EachOfListed DEF Listed

Places(schools, districts, regions) ==
  ({"school"} \X schools) \cup ({"district"} \X districts) \cup ({"region"} \X regions)

LEMMA AttachListed ==
  ASSUME NEW schools \in SUBSET School, NEW regions \in SUBSET Region
  PROVE  LET up == Expanded(schools) IN
         Listed(AttachLocations(schools, regions),
                Places(schools, up.districts, regions \cup up.regions))
<1> DEFINE up == Expanded(schools)
           all == regions \cup up.regions
           I == {"school"} \X schools
           J == {"district"} \X up.districts
           K == {"region"} \X all
<1>1. up.districts \in SUBSET District /\ all \in SUBSET Region
  BY UpFinite
<1>2. /\ IsFiniteSet(schools) /\ IsFiniteSet(up.districts) /\ IsFiniteSet(all)
  BY <1>1, FS_Subset, EnrolmentAssumption
<1> HIDE DEF up, all
<1>3. I \subseteq Statement /\ J \subseteq Statement /\ K \subseteq Statement
  BY <1>1 DEF Statement
<1>4. Listed(EachOf("school", schools), I)
  BY <1>2, <1>3, EachListed DEF Filling
<1>5. Listed(EachOf("district", up.districts), J)
  BY <1>2, <1>3, EachListed DEF Filling
<1>6. Listed(EachOf("region", all), K)
  BY <1>2, <1>3, EachListed DEF Filling
<1>7. \A a \in I, b \in J : Follows(a, b)
  BY DEF Follows, Filling, Dropping
<1>8. \A a \in I \cup J, b \in K : Follows(a, b)
  BY DEF Follows, Filling, Dropping
<1> HIDE DEF I, J, K
<1>9. Listed(EachOf("school", schools) \o EachOf("district", up.districts), I \cup J)
  BY <1>4, <1>5, <1>7, ListedTwo
<1>10. Listed((EachOf("school", schools) \o EachOf("district", up.districts))
                \o EachOf("region", all), (I \cup J) \cup K)
  BY <1>6, <1>8, <1>9, ListedTwo
<1> QED
  BY <1>10 DEF AttachLocations, Places, I, J, K, up, all

LEMMA FunctionIsSeq ==
  ASSUME NEW S, NEW n \in Nat, NEW f \in [1 .. n -> S]
  PROVE  f \in Seq(S) /\ Len(f) = n
OBVIOUS

(* The picker keeps whom it can see, in the order they were chosen in.     *)
LEMMA PickKeeps ==
  ASSUME NEW by, NEW refs \in Seq(DOMAIN Staff),
         NEW ps, ps = PickPeople(by, refs)
  PROVE  /\ ps \in Seq(Person)
         /\ \A n \in 1 .. Len(ps) : Visible(by, ps[n])
         /\ \A p \in ToSet(refs) : Visible(by, p) => \E n \in 1 .. Len(ps) : ps[n] = p
<1> DEFINE seen == {n \in DOMAIN refs : Visible(by, refs[n])}
           N == Cardinality(seen)
           Upto(n) == {m \in seen : m <= n}
           Nth(k) == CHOOSE n \in seen : Cardinality(Upto(n)) = k
<1>1. DOMAIN refs = 1 .. Len(refs) /\ Len(refs) \in Nat
  BY LenProperties
<1>2. seen \in SUBSET (1 .. Len(refs))
  BY <1>1
<1>3. IsFiniteSet(seen) /\ N \in Nat
  <2>1. IsFiniteSet(1 .. Len(refs))
    BY <1>1, FS_Interval
  <2>2. IsFiniteSet(seen)
    BY <1>2, <2>1, FS_Subset
  <2> QED
    BY <2>2, FS_CardinalityType
<1>4. seen \in SUBSET Nat
  BY <1>1, <1>2
<1>5. ps = [k \in 1 .. N |-> refs[Nth(k)]]
  BY DEF PickPeople
<1>6. \A n \in seen : Visible(by, refs[n]) /\ refs[n] \in Person /\ n \in DOMAIN refs
  BY <1>1, EnrolmentAssumption, ElementOfSeq
<1>7. \A n \in DOMAIN refs : Visible(by, refs[n]) => n \in seen
  OBVIOUS
<1> HIDE DEF seen
<1>8. \A n \in seen : /\ IsFiniteSet(Upto(n)) /\ Cardinality(Upto(n)) \in Nat
                      /\ Upto(n) \in SUBSET seen
                      /\ Cardinality(Upto(n)) \in 1 .. N
  <2>1. SUFFICES ASSUME NEW n \in seen
                 PROVE  /\ IsFiniteSet(Upto(n)) /\ Cardinality(Upto(n)) \in Nat
                        /\ Upto(n) \in SUBSET seen
                        /\ Cardinality(Upto(n)) \in 1 .. N
    OBVIOUS
  <2>2. Upto(n) \in SUBSET seen
    OBVIOUS
  <2>3. IsFiniteSet(Upto(n)) /\ Cardinality(Upto(n)) <= N
    BY <1>3, <2>2, FS_Subset
  <2>4. Cardinality(Upto(n)) \in Nat
    BY <2>3, FS_CardinalityType
  <2>5. n \in Upto(n)
    BY <1>4
  <2>6. Cardinality(Upto(n)) # 0
    BY <2>3, <2>5, FS_EmptySet
  <2> QED
    BY <1>3, <2>2, <2>3, <2>4, <2>6
<1>9. \A m, n \in seen : Cardinality(Upto(m)) = Cardinality(Upto(n)) => m = n
  <2>1. ASSUME NEW m \in seen, NEW n \in seen, m < n,
               Cardinality(Upto(m)) = Cardinality(Upto(n))
        PROVE  FALSE
    <3>1. Upto(m) \in SUBSET Upto(n)
      <4>1. ASSUME NEW x \in seen, x <= m  PROVE x <= n
        <5>1. x \in Nat /\ m \in Nat /\ n \in Nat
          BY <1>4
        <5> QED
          BY <2>1, <4>1, <5>1
      <4> QED
        BY <4>1
    <3>2. Upto(n) = Upto(m)
      BY <1>8, <2>1, <3>1, FS_Subset
    <3>3. n \in Upto(n) /\ n \notin Upto(m)
      BY <1>4, <2>1
    <3> QED
      BY <3>2, <3>3
  <2> QED
    BY <1>4, <2>1
<1>10. \A k \in 1 .. N : \E n \in seen : Cardinality(Upto(n)) = k
  <2> DEFINE f == [n \in seen |-> Cardinality(Upto(n))]
  <2>1. f \in [seen -> 1 .. N]
    BY <1>8
  <2>2. \A m, n \in seen : f[m] = f[n] => m = n
    BY <1>9
  <2> HIDE DEF f
  <2>3. f \in Injection(seen, 1 .. N)
    BY <2>1, <2>2 DEF Injection, IsInjective
  <2>4. IsFiniteSet(1 .. N) /\ Cardinality(1 .. N) = N
    BY <1>3, FS_Interval
  <2>5. f \in Surjection(seen, 1 .. N)
    BY <1>3, <2>3, <2>4, FS_Injection
  <2>6. \A k \in 1 .. N : \E n \in seen : f[n] = k
    BY <2>5 DEF Surjection
  <2> QED
    BY <2>6 DEF f
<1>11. \A k \in 1 .. N : Nth(k) \in seen /\ Cardinality(Upto(Nth(k))) = k
  BY <1>10
<1>12. \A n \in seen : \E k \in 1 .. N : Nth(k) = n
  BY <1>8, <1>9, <1>11
<1> HIDE DEF Nth, N
<1>13. ps \in Seq(Person) /\ Len(ps) = N
  <2>1. ps \in [1 .. N -> Person]
    BY <1>5, <1>6, <1>11
  <2> QED
    BY <1>3, <2>1, FunctionIsSeq
<1>14. \A k \in 1 .. N : ps[k] = refs[Nth(k)]
  BY <1>5
<1>15. ASSUME NEW p \in ToSet(refs), Visible(by, p)
       PROVE  \E n \in 1 .. N : ps[n] = p
  <2>1. PICK n \in DOMAIN refs : refs[n] = p
    BY <1>15 DEF ToSet
  <2>2. n \in seen
    BY <1>7, <1>15, <2>1
  <2> QED
    BY <1>12, <1>14, <2>1, <2>2
<1> QED
  BY <1>6, <1>11, <1>13, <1>14, <1>15

LEMMA LinksListed ==
  ASSUME NEW what \in {"instructor", "ward"}, NEW role, NEW ps \in Seq(Person),
         NEW t, t = Links(what, role, ps)
  PROVE  /\ Listed(t, Items(t))
         /\ \A s \in Items(t) : \/ s[1] = what /\ HasRole(s[2], role)
                               \/ s[1] = "throw"
         /\ \A n \in 1 .. Len(ps) :
              \E s \in Items(t) : s[1] \in {what, "throw"} /\ s[2] = ps[n]
<1> DEFINE N == Len(ps)
           e == [n \in 1 .. N |-> IF HasRole(ps[n], role) THEN <<what, ps[n], n = 1>>
                                  ELSE <<"throw", ps[n], FALSE>>]
<1>1. DOMAIN ps = 1 .. N /\ N \in Nat
  BY LenProperties
<1>2. t = e
  BY <1>1 DEF Links
<1>3. ASSUME NEW n \in 1 .. N
      PROVE  /\ e[n] \in Statement /\ e[n][2] = ps[n]
             /\ \/ e[n][1] = what /\ HasRole(e[n][2], role)
                \/ e[n][1] = "throw"
  <2>1. ps[n] \in Person
    BY <1>3, ElementOfSeq
  <2>2. /\ <<what, ps[n], n = 1>> \in Statement
        /\ <<"throw", ps[n], FALSE>> \in Statement
    BY <2>1 DEF Statement
  <2>3. CASE HasRole(ps[n], role)
    <3>1. e[n] = <<what, ps[n], n = 1>>
      BY <2>3
    <3> QED
      BY <2>2, <2>3, <3>1
  <2>4. CASE ~HasRole(ps[n], role)
    <3>1. e[n] = <<"throw", ps[n], FALSE>>
      BY <2>4
    <3> QED
      BY <2>2, <3>1
  <2> QED
    BY <2>3, <2>4
<1>4. e \in Seq(Statement) /\ Len(e) = N
  <2>1. e \in [1 .. N -> Statement]
    BY <1>3
  <2> QED
    BY <1>1, <2>1, FunctionIsSeq
<1> HIDE DEF e
<1>5. Ordered(e)
  <2>1. ASSUME NEW i \in 1 .. N, NEW j \in 1 .. N
        PROVE  Follows(e[i], e[j])
    <3>1. e[i][1] \in {"instructor", "ward", "throw"} /\ e[j][1] \in {"instructor", "ward", "throw"}
      BY <1>3
    <3> QED
      BY <3>1 DEF Follows, Filling, Dropping
  <2> QED
    BY <1>4, <2>1 DEF Ordered
<1> QED
  BY <1>2, <1>3, <1>4, <1>5 DEF Listed, Items

-----------------------------------------------------------------------------
(* What a request that sets out has to do.                                 *)

Names(r, items) ==
  /\ Form[r].op = "create_student" =>
       /\ Form[r].guardian # None => <<"guardian", Form[r].guardian, TRUE>> \in items
       /\ \A i \in ToSet(Form[r].instructors) :
            \E s \in items : s[1] \in {"instructor", "throw"} /\ s[2] = i
  /\ Form[r].op = "create_guardian" =>
       \A i \in ToSet(Form[r].students) :
         \E s \in items : s[1] \in {"ward", "throw"} /\ s[2] = i

FitsPeople(r, t) ==
  LET items == Items(t) IN
  /\ \A s \in items : s[1] \in {"guardian", "ward", "instructor"} => Here(s[2])
  /\ Form[r].op \in EnrolOps /\ ~Opens(items) => Here(Form[r].person)
  /\ Form[r].op = "create_staff" => Opens(items)
  /\ Regional(r) => <<"drop_roles">> \in items /\ Granted(items) = Form[r].regions
  /\ HasRole(Form[r].by, "admin") => Names(r, items)
  /\ Coherent(Filled(items))
  /\ \/ Opens(items)
     \/ \A what \in Dropping : <<what>> \in items
     \/ \A s \in items : s[1] \notin Filling \cup Dropping

FitsRows(r, t) ==
  LET items == Items(t) IN
  /\ <<"join">> \in items =>
       /\ Form[r].group \in DOMAIN row /\ Here(Form[r].person)
       /\ Form[r].role = "student" /\ row[Form[r].group].capacity # None =>
            ~(Cardinality(Students(Form[r].group)) >= row[Form[r].group].capacity)
  /\ Ids(items, "insert") # {} => ~Clashing(Form[r].kind, Form[r].name)

Fits(r, t) ==
  /\ t \in Seq(Statement) /\ t # <<>> /\ Ordered(t)
  /\ \A s \in Items(t) : s[1] \in Tags(Form[r].op)
  /\ Here(Form[r].by)
  /\ FitsPeople(r, t) /\ FitsRows(r, t)

LEMMA TellTyped ==
  \A what \in Deed : <<"tell", what>> \in Statement /\ <<"record", what>> \in Statement
BY DEF Statement

LEMMA CreateListed ==
  ASSUME NEW role \in Role
  PROVE  Listed(CreatePerson({Unbounded(role)}),
                {<<"account", {Unbounded(role)}>>, <<"tell", "user.created">>})
<1> DEFINE a == <<"account", {Unbounded(role)}>>
           b == <<"tell", "user.created">>
<1>1. {Unbounded(role)} \in SUBSET (Role \X (Region \cup {None}))
  BY DEF Unbounded
<1>2. a \in Statement /\ b \in Statement
  <2> DEFINE grants == {Unbounded(role)}
  <2>1. a = <<"account", grants>>
    OBVIOUS
  <2> HIDE DEF grants, a
  <2>2. grants \in SUBSET (Role \X (Region \cup {None}))
    BY <1>1 DEF grants
  <2>3. a \in Statement
    BY <2>1, <2>2 DEF Statement
  <2>4. b \in Statement
    BY TellTyped DEF Deed
  <2> QED
    BY <2>3, <2>4
<1>3. Follows(a, b)
  BY DEF Follows, Filling, Dropping
<1> HIDE DEF a, b
<1>4. Listed(<<a, b>>, {a, b})
  BY <1>2, <1>3, ListedFew
<1> QED
  BY <1>4 DEF CreatePerson, a, b

LEMMA TellListed ==
  ASSUME NEW what \in Deed
  PROVE  Listed(<<<<"tell", what>>>>, {<<"tell", what>>})
BY TellTyped, ListedFew

LEMMA NotEmpty ==
  ASSUME NEW t, NEW x \in Items(t)
  PROVE  t # <<>>
BY ItemsOfFew

LEMMA FilledPlaces ==
  ASSUME NEW I, \A s \in I : s[1] \notin Filling, NEW x, NEW y, NEW z
  PROVE  Filled(I \cup Places(x, y, z))
           = [schools |-> x, districts |-> y, regions |-> z]
<1> DEFINE J == I \cup Places(x, y, z)
<1>1. ASSUME NEW tag \in Filling, NEW i
      PROVE  i \in Ids(J, tag) <=> \E s \in Places(x, y, z) : s[1] = tag /\ s[2] = i
  BY <1>1 DEF Ids
<1>2. \A i : i \in Ids(J, "school") <=> i \in x
  <2>1. ASSUME NEW i \in x  PROVE i \in Ids(J, "school")
    <3>1. <<"school", i>> \in Places(x, y, z)
      BY DEF Places
    <3> QED
      BY <1>1, <3>1 DEF Filling
  <2>2. ASSUME NEW i \in Ids(J, "school")  PROVE i \in x
    <3>1. PICK s \in Places(x, y, z) : s[1] = "school" /\ s[2] = i
      BY <1>1 DEF Filling
    <3>2. s \in {"school"} \X x
      BY <3>1 DEF Places
    <3> QED
      BY <3>1, <3>2
  <2> QED
    BY <2>1, <2>2
<1>3. \A i : i \in Ids(J, "district") <=> i \in y
  <2>1. ASSUME NEW i \in y  PROVE i \in Ids(J, "district")
    <3>1. <<"district", i>> \in Places(x, y, z)
      BY DEF Places
    <3> QED
      BY <1>1, <3>1 DEF Filling
  <2>2. ASSUME NEW i \in Ids(J, "district")  PROVE i \in y
    <3>1. PICK s \in Places(x, y, z) : s[1] = "district" /\ s[2] = i
      BY <1>1 DEF Filling
    <3>2. s \in {"district"} \X y
      BY <3>1 DEF Places
    <3> QED
      BY <3>1, <3>2
  <2> QED
    BY <2>1, <2>2
<1>4. \A i : i \in Ids(J, "region") <=> i \in z
  <2>1. ASSUME NEW i \in z  PROVE i \in Ids(J, "region")
    <3>1. <<"region", i>> \in Places(x, y, z)
      BY DEF Places
    <3> QED
      BY <1>1, <3>1 DEF Filling
  <2>2. ASSUME NEW i \in Ids(J, "region")  PROVE i \in z
    <3>1. PICK s \in Places(x, y, z) : s[1] = "region" /\ s[2] = i
      BY <1>1 DEF Filling
    <3>2. s \in {"region"} \X z
      BY <3>1 DEF Places
    <3> QED
      BY <3>1, <3>2
  <2> QED
    BY <2>1, <2>2
<1> HIDE DEF J
<1> QED
  BY <1>2, <1>3, <1>4 DEF Filled, J

LEMMA NothingFilled ==
  ASSUME NEW I, \A s \in I : s[1] \notin Filling
  PROVE  Filled(I) = Nowhere /\ Coherent(Filled(I))
<1>1. Ids(I, "school") = {} /\ Ids(I, "district") = {} /\ Ids(I, "region") = {}
  BY DEF Ids, Filling
<1> QED
  BY <1>1 DEF Filled, Nowhere, Coherent

LEMMA PlacesCohere ==
  ASSUME NEW schools \in SUBSET School, NEW regions \in SUBSET Region,
         schools = {} \/ regions = {}
  PROVE  LET up == Expanded(schools) IN
         Coherent([schools |-> schools, districts |-> up.districts,
                   regions |-> regions \cup up.regions])
<1> DEFINE up == Expanded(schools)
           x == [schools |-> schools, districts |-> up.districts,
                 regions |-> regions \cup up.regions]
<1>1. CASE schools = {}
  <2>1. up.districts = {}
    BY <1>1, UpFinite DEF DistrictsOf, Known
  <2> QED
    BY <1>1, <2>1 DEF Coherent
<1>2. CASE regions = {}
  <2>1. x = up
    BY <1>2 DEF Expanded
  <2> QED
    BY <2>1 DEF Coherent, Expanded
<1> QED
  BY <1>1, <1>2

LEMMA ManagesHere ==
  ASSUME NEW p, MayManage(p) \/ MayShape(p)
  PROVE  Here(p)
BY DEF MayManage, MayShape, HasRole

LEMMA AdminSees ==
  ASSUME NEW by, HasRole(by, "admin"), NEW p, Here(p)
  PROVE  Visible(by, p)
BY DEF HasRole, Visible, SchoolScope

(* Whatever follows what, by the words of the statements.                  *)
LEMMA FollowsByWord ==
  ASSUME NEW a, NEW b
  PROVE  /\ b[1] \in {"tell", "record", "guardian", "ward", "grant", "leave"} => Follows(a, b)
         /\ b[1] \in {"instructor", "throw"} /\ a[1] \notin Filling \cup Dropping => Follows(a, b)
         /\ b[1] \in Filling /\ a[1] \notin Filling => Follows(a, b)
         /\ b[1] \in Dropping \cup {"drop_roles"} /\ a[1] \notin Filling \cup {"grant", b[1]}
              => Follows(a, b)
BY DEF Follows, Filling, Dropping

LEMMA PlacesWords ==
  \A x, y, z : \A s \in Places(x, y, z) : s[1] \in Filling
BY DEF Places, Filling

LEMMA FillsAfter ==
  ASSUME NEW t, NEW I, Listed(t, I), \A s \in I : s[1] \notin Filling,
         NEW schools \in SUBSET School, NEW regions \in SUBSET Region,
         schools = {} \/ regions = {}, NEW what \in Deed
  PROVE  LET up == Expanded(schools)
             J == I \cup Places(schools, up.districts, regions \cup up.regions)
             K == J \cup {<<"tell", what>>} IN
         /\ Listed(t \o AttachLocations(schools, regions) \o <<<<"tell", what>>>>, K)
         /\ Coherent(Filled(K)) /\ <<"tell", what>> \in K
<1> DEFINE up == Expanded(schools)
           y == up.districts
           z == regions \cup up.regions
           P == Places(schools, y, z)
           J == I \cup P
           e == <<"tell", what>>
           K == J \cup {e}
           M == I \cup {e}
<1>1. Listed(AttachLocations(schools, regions), P)
  BY AttachListed
<1>2. Listed(<<e>>, {e})
  BY TellListed
<1>3. \A s \in P : s[1] \in Filling
  BY PlacesWords
<1>4. \A a \in I, b \in P : Follows(a, b)
  BY <1>3, FollowsByWord
<1>5. e[1] = "tell"
  OBVIOUS
<1>6. K = M \cup P
  OBVIOUS
<1>7. Filled(M \cup P) = [schools |-> schools, districts |-> y, regions |-> z]
  <2>1. \A s \in M : s[1] \notin Filling
    BY <1>5 DEF Filling
  <2> HIDE DEF M, e, y, z
  <2> QED
    BY <2>1, FilledPlaces
<1>8. Coherent(Filled(M \cup P))
  BY <1>7, PlacesCohere
<1> HIDE DEF P, e, up, y, z
<1>9. Listed(t \o AttachLocations(schools, regions), J)
  BY <1>1, <1>4, ListedTwo
<1>10. \A a \in J, b \in {e} : Follows(a, b)
  BY <1>5, FollowsByWord
<1> HIDE DEF J
<1>11. Listed((t \o AttachLocations(schools, regions)) \o <<e>>, J \cup {e})
  BY <1>2, <1>9, <1>10, ListedTwo
<1> QED
  BY <1>6, <1>8, <1>11 DEF J, P, e, y, z, up

LEMMA NamedInSeq ==
  ASSUME NEW S, NEW refs \in Seq(S), NEW i \in ToSet(refs)
  PROVE  i \in S
BY ElementOfSeq, LenProperties DEF ToSet

LEMMA StudentFits ==
  ASSUME PeopleTyped, NEW r \in Request, Form[r].op = "create_student",
         MayManage(Form[r].by), OneKindOfPlace(r),
         Form[r].guardian # None => HasRole(Form[r].guardian, "parent")
  PROVE  Fits(r, StudentScript(r))
<1> DEFINE f == Form[r]
           A == CreatePerson({Unbounded("student")})
           opening == <<"account", {Unbounded("student")}>>
           IA == {opening, <<"tell", "user.created">>}
           g == <<"guardian", f.guardian, TRUE>>
           B == IF f.guardian = None THEN <<>> ELSE <<g>>
           IB == IF f.guardian = None THEN {} ELSE {g}
           picked == PickPeople(f.by, f.instructors)
           C == Links("instructor", "instructor", picked)
           IC == Items(C)
           ABC == (A \o B) \o C
           I == (IA \cup IB) \cup IC
           up == Expanded(f.schools)
           P == Places(f.schools, up.districts, f.regions \cup up.regions)
           e == <<"tell", "user.student_enrolled">>
           t == StudentScript(r)
           K == (I \cup P) \cup {e}
<1>1. /\ f.guardian \in Person \cup {None} /\ f.instructors \in Seq(DOMAIN Staff)
      /\ f.schools \in SUBSET School /\ f.regions \in SUBSET Region
      /\ f.person \in Person /\ f.op \in EnrolOps
  BY EnrolmentAssumption DEF EnrolOps, WellFormed
<1>2. Listed(A, IA)
  BY CreateListed DEF Role
<1>3. Listed(B, IB)
  <2>1. CASE f.guardian = None
    BY <2>1, ListedFew
  <2>2. CASE f.guardian # None
    <3>1. g \in Statement
      BY <1>1, <2>2 DEF Statement
    <3> QED
      BY <2>2, <3>1, ListedFew
  <2> QED
    BY <2>1, <2>2
<1>4. /\ picked \in Seq(Person)
      /\ \A n \in 1 .. Len(picked) : Visible(f.by, picked[n])
      /\ \A p \in ToSet(f.instructors) : Visible(f.by, p) =>
           \E n \in 1 .. Len(picked) : picked[n] = p
  <2>1. picked = PickPeople(f.by, f.instructors)
    OBVIOUS
  <2>2. f.instructors \in Seq(DOMAIN Staff)
    BY <1>1
  <2> HIDE DEF picked, f
  <2> QED
    BY <2>1, <2>2, PickKeeps
<1> HIDE DEF picked
<1>5. /\ Listed(C, IC)
      /\ \A s \in IC : \/ s[1] = "instructor" /\ HasRole(s[2], "instructor")
                      \/ s[1] = "throw"
      /\ \A n \in 1 .. Len(picked) :
           \E s \in IC : s[1] \in {"instructor", "throw"} /\ s[2] = picked[n]
  <2>1. C = Links("instructor", "instructor", picked)
    OBVIOUS
  <2>2. picked \in Seq(Person)
    BY <1>4
  <2> HIDE DEF C
  <2> QED
    BY <2>1, <2>2, LinksListed
<1> HIDE DEF C, IC
<1>6. /\ opening[1] = "account" /\ \A s \in IA : s = opening \/ s[1] = "tell"
      /\ \A s \in IB : s[1] = "guardian"
      /\ \A s \in IC : s[1] \in {"instructor", "throw"}
      /\ e[1] = "tell"
  <2>1. opening[1] = "account"
    OBVIOUS
  <2>4. \A s \in IA : s = opening \/ s[1] = "tell"
    <3>1. <<"tell", "user.created">>[1] = "tell"
      OBVIOUS
    <3> HIDE DEF opening
    <3> QED
      BY <3>1, Zenon
  <2>2. \A s \in IB : s[1] = "guardian"
    <3>1. g[1] = "guardian"
      OBVIOUS
    <3>2. \A s \in IB : s = g
      OBVIOUS
    <3> QED
      BY <3>1, <3>2, Zenon
  <2>3. e[1] = "tell"
    OBVIOUS
  <2> QED
    BY <1>5, <2>1, <2>2, <2>3, <2>4
<1>7. /\ f.guardian # None => g \in IB /\ g[2] = f.guardian
      /\ f.guardian = None => IB = {}
      /\ \A s \in IB : s = g /\ f.guardian # None
  OBVIOUS
<1>8. opening \in IA
  OBVIOUS
<1> HIDE DEF A, IA, B, IB, opening, g
<1>9. Listed(A \o B, IA \cup IB)
  BY <1>2, <1>3, <1>6, FollowsByWord, ListedTwo
<1>10. \A a \in IA \cup IB, b \in IC : Follows(a, b)
  BY <1>6, FollowsByWord DEF Filling, Dropping
<1>11. Listed(ABC, I)
  BY <1>5, <1>9, <1>10, ListedTwo
<1>12. \A s \in I : s[1] \notin Filling
  BY <1>6 DEF Filling
<1> HIDE DEF ABC, I
<1>13. /\ Listed(ABC \o AttachLocations(f.schools, f.regions) \o <<e>>, K)
       /\ Coherent(Filled(K)) /\ e \in K
  BY <1>1, <1>11, <1>12, FillsAfter DEF OneKindOfPlace, Deed
<1>14. t = ABC \o AttachLocations(f.schools, f.regions) \o <<e>>
  BY DEF StudentScript, ABC, A, B, C, picked, g
<1>15. Listed(t, K)
  BY <1>13, <1>14
<1>16. \A s \in P : s[1] \in Filling
  BY PlacesWords
<1> HIDE DEF P, e, t
<1>17. \A s \in K : s \in IA \/ s \in IB \/ s \in IC \/ s \in P \/ s = e
  BY DEF I
<1>18. IA \subseteq K /\ IB \subseteq K /\ IC \subseteq K
  BY DEF I
<1> HIDE DEF K
<1>19. \A s \in K : s[1] \in Tags(f.op)
  BY <1>6, <1>16, <1>17 DEF Tags, Filling
<1>20. \A s \in K : s[1] \in {"guardian", "ward", "instructor"} => Here(s[2])
  BY <1>5, <1>6, <1>7, <1>16, <1>17 DEF HasRole, Filling
<1>21. Opens(K)
  BY <1>6, <1>8, <1>18 DEF Opens
<1>22. HasRole(f.by, "admin") => Names(r, K)
  <2>1. SUFFICES ASSUME HasRole(f.by, "admin")  PROVE Names(r, K)
    OBVIOUS
  <2>2. f.guardian # None => g \in K
    BY <1>7, <1>18
  <2>3. ASSUME NEW i \in ToSet(f.instructors)
        PROVE  \E s \in K : s[1] \in {"instructor", "throw"} /\ s[2] = i
    <3>1. i \in DOMAIN Staff
      BY <1>1, <2>3, NamedInSeq
    <3>2. Visible(f.by, i)
      BY <2>1, <3>1, AdminSees DEF PeopleTyped
    <3> QED
      BY <1>4, <1>5, <1>18, <2>3, <3>2
  <2> QED
    BY <2>2, <2>3 DEF Names, g
<1>23. ~Regional(r) /\ f.op # "create_staff"
  BY DEF Regional
<1>24. <<"join">> \notin K /\ Ids(K, "insert") = {}
  <2>1. <<"join">>[1] = "join"
    OBVIOUS
  <2>2. \A s \in K : s[1] \notin {"join", "insert"}
    BY <1>19 DEF Tags, Filling
  <2> QED
    BY <2>1, <2>2 DEF Ids
<1>25. Here(f.by)
  BY ManagesHere
<1>26. t # <<>> /\ t \in Seq(Statement) /\ Ordered(t) /\ Items(t) = K
  BY <1>13, <1>15, NotEmpty DEF Listed
<1>27. FitsPeople(r, t)
  BY <1>13, <1>20, <1>21, <1>22, <1>23, <1>26 DEF FitsPeople
<1>28. FitsRows(r, t)
  BY <1>24, <1>26 DEF FitsRows
<1> QED
  BY <1>19, <1>25, <1>26, <1>27, <1>28 DEF Fits, t

LEMMA GuardianFits ==
  ASSUME PeopleTyped, NEW r \in Request, Form[r].op = "create_guardian",
         MayManage(Form[r].by)
  PROVE  Fits(r, GuardianScript(r))
<1> DEFINE f == Form[r]
           A == CreatePerson({Unbounded("parent")})
           opening == <<"account", {Unbounded("parent")}>>
           IA == {opening, <<"tell", "user.created">>}
           picked == PickPeople(f.by, f.students)
           C == Links("ward", "student", picked)
           IC == Items(C)
           e == <<"tell", "user.guardian_enrolled">>
           t == GuardianScript(r)
           K == (IA \cup IC) \cup {e}
<1>1. f.students \in Seq(DOMAIN Staff) /\ f.person \in Person /\ f.op \in EnrolOps
  BY EnrolmentAssumption DEF EnrolOps, WellFormed
<1>2. Listed(A, IA)
  BY CreateListed DEF Role
<1>3. /\ picked \in Seq(Person)
      /\ \A n \in 1 .. Len(picked) : Visible(f.by, picked[n])
      /\ \A p \in ToSet(f.students) : Visible(f.by, p) =>
           \E n \in 1 .. Len(picked) : picked[n] = p
  <2>1. picked = PickPeople(f.by, f.students)
    OBVIOUS
  <2>2. f.students \in Seq(DOMAIN Staff)
    BY <1>1
  <2> HIDE DEF picked, f
  <2> QED
    BY <2>1, <2>2, PickKeeps
<1> HIDE DEF picked
<1>4. /\ Listed(C, IC)
      /\ \A s \in IC : \/ s[1] = "ward" /\ HasRole(s[2], "student")
                      \/ s[1] = "throw"
      /\ \A n \in 1 .. Len(picked) :
           \E s \in IC : s[1] \in {"ward", "throw"} /\ s[2] = picked[n]
  <2>1. C = Links("ward", "student", picked)
    OBVIOUS
  <2>2. picked \in Seq(Person)
    BY <1>3
  <2> HIDE DEF C
  <2> QED
    BY <2>1, <2>2, LinksListed
<1> HIDE DEF C, IC
<1>5. opening \in IA /\ opening[1] = "account" /\ e[1] = "tell"
  OBVIOUS
<1>6. \A s \in IA : s[1] \in {"account", "tell"}
  <2>1. <<"tell", "user.created">>[1] = "tell"
    OBVIOUS
  <2> HIDE DEF opening
  <2>2. \A s \in IA : s = opening \/ s[1] = "tell"
    BY <2>1, Zenon
  <2> QED
    BY <1>5, <2>2
<1>7. Listed(<<e>>, {e})
  BY TellListed DEF Deed
<1> HIDE DEF A, IA, opening, e, t
<1>8. Listed(A \o C, IA \cup IC)
  <2>1. \A a \in IA, b \in IC : Follows(a, b)
    BY <1>4, <1>6, FollowsByWord DEF Filling, Dropping
  <2> QED
    BY <1>2, <1>4, <2>1, ListedTwo
<1>9. Listed((A \o C) \o <<e>>, K)
  <2>1. \A a \in IA \cup IC, b \in {e} : Follows(a, b)
    BY <1>5, FollowsByWord
  <2> QED
    BY <1>7, <1>8, <2>1, ListedTwo
<1>10. t = (A \o C) \o <<e>>
  BY DEF GuardianScript, t, A, C, picked, e
<1>11. /\ \A s \in K : s \in IA \/ s \in IC \/ s = e
       /\ IA \subseteq K /\ IC \subseteq K /\ e \in K
  OBVIOUS
<1> HIDE DEF K
<1>12. \A s \in K : s[1] \in {"account", "tell", "ward", "throw"}
  BY <1>4, <1>5, <1>6, <1>11
<1>13. \A s \in K : s[1] \in Tags(f.op)
  BY <1>12 DEF Tags
<1>14. \A s \in K : s[1] \in {"guardian", "ward", "instructor"} => Here(s[2])
  BY <1>4, <1>5, <1>6, <1>11 DEF HasRole
<1>15. Opens(K)
  BY <1>5, <1>11 DEF Opens
<1>16. HasRole(f.by, "admin") => Names(r, K)
  <2>1. SUFFICES ASSUME HasRole(f.by, "admin")  PROVE Names(r, K)
    OBVIOUS
  <2>2. ASSUME NEW i \in ToSet(f.students)
        PROVE  \E s \in K : s[1] \in {"ward", "throw"} /\ s[2] = i
    <3>1. i \in DOMAIN Staff
      BY <1>1, <2>2, NamedInSeq
    <3>2. Visible(f.by, i)
      BY <2>1, <3>1, AdminSees DEF PeopleTyped
    <3> QED
      BY <1>3, <1>4, <1>11, <2>2, <3>2
  <2> QED
    BY <2>2 DEF Names
<1>17. ~Regional(r) /\ f.op # "create_staff"
  BY DEF Regional
<1>18. <<"join">> \notin K /\ Ids(K, "insert") = {}
  <2>1. <<"join">>[1] = "join"
    OBVIOUS
  <2> QED
    BY <1>12, <2>1 DEF Ids
<1>19. Coherent(Filled(K))
  BY <1>12, NothingFilled DEF Filling
<1>20. Here(f.by)
  BY ManagesHere
<1>21. t # <<>> /\ t \in Seq(Statement) /\ Ordered(t) /\ Items(t) = K
  BY <1>9, <1>10, <1>11, NotEmpty DEF Listed
<1>22. FitsPeople(r, t)
  BY <1>14, <1>15, <1>16, <1>17, <1>19, <1>21 DEF FitsPeople
<1>23. FitsRows(r, t)
  BY <1>18, <1>21 DEF FitsRows
<1> QED
  BY <1>13, <1>20, <1>21, <1>22, <1>23 DEF Fits, t

LEMMA StaffFits ==
  ASSUME NEW r \in Request, Form[r].op = "create_staff",
         MayManage(Form[r].by), OneKindOfPlace(r)
  PROVE  Fits(r, StaffScript(r))
<1> DEFINE f == Form[r]
           A == CreatePerson({Unbounded(f.role)})
           opening == <<"account", {Unbounded(f.role)}>>
           IA == {opening, <<"tell", "user.created">>}
           bounding == f.role = "regional_admin"
           drop == <<"drop_roles">>
           G == {"grant"} \X f.regions
           B == IF bounding THEN <<drop>> \o EachOf("grant", f.regions) ELSE <<>>
           IB == IF bounding THEN {drop} \cup G ELSE {}
           I == IA \cup IB
           up == Expanded(f.schools)
           P == Places(f.schools, up.districts, f.regions \cup up.regions)
           e == <<"tell", "user.staff_enrolled">>
           t == StaffScript(r)
           K == (I \cup P) \cup {e}
<1>1. /\ f.role \in Role /\ f.schools \in SUBSET School /\ f.regions \in SUBSET Region
      /\ f.person \in Person /\ f.op \in EnrolOps
  BY EnrolmentAssumption DEF EnrolOps, WellFormed
<1>2. Listed(A, IA)
  BY <1>1, CreateListed
<1>3. drop[1] = "drop_roles" /\ e[1] = "tell" /\ drop \in Statement
  BY DEF Statement, Bare
<1>4. /\ \A s \in G : s[1] = "grant" /\ s[2] \in f.regions
      /\ \A x \in f.regions : <<"grant", x>> \in G
  OBVIOUS
<1>5. Listed(B, IB)
  <2>1. CASE ~bounding
    BY <2>1, ListedFew
  <2>2. CASE bounding
    <3>1. IsFiniteSet(f.regions)
      BY <1>1, FS_Subset, EnrolmentAssumption
    <3>2. G \subseteq Statement
      BY <1>1 DEF Statement
    <3>3. Listed(EachOf("grant", f.regions), G)
      BY <3>1, <3>2, EachListed
    <3>4. Listed(<<drop>>, {drop})
      BY <1>3, ListedFew
    <3>5. \A a \in {drop}, b \in G : Follows(a, b)
      BY <1>4, FollowsByWord
    <3> HIDE DEF G, drop
    <3>6. Listed(<<drop>> \o EachOf("grant", f.regions), {drop} \cup G)
      BY <3>3, <3>4, <3>5, ListedTwo
    <3> QED
      BY <2>2, <3>6
  <2> QED
    BY <2>1, <2>2
<1>6. opening \in IA /\ opening[1] = "account"
  OBVIOUS
<1>7. \A s \in IA : s[1] \in {"account", "tell"}
  <2>1. <<"tell", "user.created">>[1] = "tell"
    OBVIOUS
  <2> HIDE DEF opening
  <2>2. \A s \in IA : s = opening \/ s[1] = "tell"
    BY <2>1, Zenon
  <2> QED
    BY <1>6, <2>2
<1>8. \A s \in IB : bounding /\ s[1] \in {"grant", "drop_roles"} /\ (s \in G \/ s = drop)
  BY <1>4
<1>9. bounding => drop \in IB /\ G \subseteq IB
  OBVIOUS
<1> HIDE DEF A, IA, B, IB, opening, drop, G, e
<1>10. Listed(A \o B, I)
  <2>1. \A a \in IA, b \in IB : Follows(a, b)
    BY <1>3, <1>7, <1>8, FollowsByWord DEF Filling
  <2> QED
    BY <1>2, <1>5, <2>1, ListedTwo
<1>11. \A s \in I : s[1] \in {"account", "tell", "grant", "drop_roles"}
  BY <1>3, <1>7, <1>8
<1>12. \A s \in I : s[1] \notin Filling
  BY <1>11 DEF Filling
<1> HIDE DEF I
<1>13. /\ Listed((A \o B) \o AttachLocations(f.schools, f.regions) \o <<e>>, K)
       /\ Coherent(Filled(K)) /\ e \in K
  BY <1>1, <1>10, <1>12, FillsAfter DEF OneKindOfPlace, Deed, e
<1>14. t = (A \o B) \o AttachLocations(f.schools, f.regions) \o <<e>>
  BY DEF StaffScript, A, B, drop, e
<1>15. \A s \in P : s[1] \in Filling
  BY PlacesWords
<1> HIDE DEF P, t
<1>16. \A s \in K : s \in IA \/ s \in IB \/ s \in P \/ s = e
  BY DEF I
<1>17. IA \subseteq K /\ IB \subseteq K
  BY DEF I
<1> HIDE DEF K
<1>18. \A s \in K : s[1] \in {"account", "tell", "grant", "drop_roles"} \cup Filling
  BY <1>3, <1>7, <1>8, <1>15, <1>16
<1>19. \A s \in K : s[1] \in Tags(f.op)
  BY <1>18 DEF Tags, Filling
<1>20. Opens(K)
  BY <1>6, <1>17 DEF Opens
<1>21. bounding => drop \in K /\ Granted(K) = f.regions
  <2>1. SUFFICES ASSUME bounding  PROVE drop \in K /\ Granted(K) = f.regions
    OBVIOUS
  <2>2. ASSUME NEW s \in K, s[1] = "grant"  PROVE s \in G
    BY <1>3, <1>7, <1>8, <1>15, <1>16, <2>2 DEF Filling
  <2>3. \A x \in Granted(K) : x \in f.regions
    BY <1>4, <2>2 DEF Granted
  <2>4. ASSUME NEW x \in f.regions  PROVE x \in Granted(K)
    <3>1. <<"grant", x>> \in K
      BY <1>4, <1>9, <1>17, <2>1, <2>4
    <3>2. <<"grant", x>>[1] = "grant" /\ <<"grant", x>>[2] = x
      OBVIOUS
    <3> QED
      BY <3>1, <3>2 DEF Granted
  <2> QED
    BY <1>9, <1>17, <2>1, <2>3, <2>4
<1>22. <<"join">> \notin K /\ Ids(K, "insert") = {}
  <2>1. <<"join">>[1] = "join"
    OBVIOUS
  <2> QED
    BY <1>18, <2>1 DEF Ids, Filling
<1>23. Here(f.by)
  BY ManagesHere
<1>24. t # <<>> /\ t \in Seq(Statement) /\ Ordered(t) /\ Items(t) = K
  BY <1>13, <1>14, NotEmpty DEF Listed
<1>25. \A s \in K : s[1] \notin {"guardian", "ward", "instructor"}
  BY <1>18 DEF Filling
<1>26. FitsPeople(r, t)
  BY <1>13, <1>20, <1>21, <1>24, <1>25 DEF FitsPeople, Names, Regional, drop
<1>27. FitsRows(r, t)
  BY <1>22, <1>24 DEF FitsRows
<1> QED
  BY <1>19, <1>23, <1>24, <1>26, <1>27 DEF Fits, t

LEMMA InviteFits ==
  ASSUME NEW r \in Request, Form[r].op = "invite", MayManage(Form[r].by)
  PROVE  Fits(r, CreatePerson({Unbounded("student")}))
<1> DEFINE f == Form[r]
           opening == <<"account", {Unbounded("student")}>>
           t == CreatePerson({Unbounded("student")})
           K == {opening, <<"tell", "user.created">>}
<1>1. f.op \in EnrolOps
  BY DEF EnrolOps
<1>2. Listed(t, K)
  BY CreateListed DEF Role
<1>3. opening \in K /\ opening[1] = "account"
  OBVIOUS
<1>4. \A s \in K : s[1] \in {"account", "tell"}
  <2>1. <<"tell", "user.created">>[1] = "tell"
    OBVIOUS
  <2> HIDE DEF opening
  <2>2. \A s \in K : s = opening \/ s[1] = "tell"
    BY <2>1, Zenon
  <2> QED
    BY <1>3, <2>2
<1> HIDE DEF K, t
<1>5. \A s \in K : s[1] \in Tags(f.op)
  BY <1>4 DEF Tags
<1>6. Opens(K)
  BY <1>3 DEF Opens
<1>7. <<"join">> \notin K /\ Ids(K, "insert") = {}
  <2>1. <<"join">>[1] = "join"
    OBVIOUS
  <2> QED
    BY <1>4, <2>1 DEF Ids
<1>8. Coherent(Filled(K))
  BY <1>4, NothingFilled DEF Filling
<1>9. Here(f.by)
  BY ManagesHere
<1>10. t # <<>> /\ t \in Seq(Statement) /\ Ordered(t) /\ Items(t) = K
  BY <1>2, <1>3, NotEmpty DEF Listed
<1>11. FitsPeople(r, t)
  BY <1>4, <1>6, <1>8, <1>10 DEF FitsPeople, Names, Regional
<1>12. FitsRows(r, t)
  BY <1>7, <1>10 DEF FitsRows
<1> QED
  BY <1>5, <1>9, <1>10, <1>11, <1>12 DEF Fits, t

LEMMA ThreeAsTwo ==
  ASSUME NEW a, NEW b, NEW c
  PROVE  <<a>> \o <<b, c>> = <<a, b, c>>
<1> DEFINE s == <<a>> \o <<b, c>>
           t == <<a, b, c>>
<1>1. s \in Seq({a, b, c}) /\ t \in Seq({a, b, c}) /\ Len(s) = 3 /\ Len(t) = 3
  OBVIOUS
<1>2. \A i \in 1 .. 3 : s[i] = t[i]
  OBVIOUS
<1> HIDE DEF s, t
<1>3. s = t
  BY <1>1, <1>2, SeqEqual
<1> QED
  BY <1>3 DEF s, t

LEMMA PlacementFits ==
  ASSUME NEW r \in Request,
         Form[r].op \in {"set_placements", "attach_school", "detach_school"},
         MayManage(Form[r].by), Here(Form[r].person),
         NEW schools \in SUBSET School, NEW regions \in SUBSET Region,
         schools = {} \/ regions = {}
  PROVE  Fits(r, PlacementScript(schools, regions))
<1> DEFINE f == Form[r]
           d1 == <<"drop_schools">>
           d2 == <<"drop_districts">>
           d3 == <<"drop_regions">>
           I == {d1, d2, d3}
           A == <<d1, d2, d3>>
           up == Expanded(schools)
           P == Places(schools, up.districts, regions \cup up.regions)
           e == <<"tell", "user.placements_set">>
           t == PlacementScript(schools, regions)
           K == (I \cup P) \cup {e}
<1>1. /\ d1 \in Statement /\ d2 \in Statement /\ d3 \in Statement
      /\ d1[1] = "drop_schools" /\ d2[1] = "drop_districts" /\ d3[1] = "drop_regions"
      /\ e[1] = "tell"
  BY DEF Statement, Bare
<1>2. \A s \in I : s[1] \in Dropping
  BY <1>1 DEF Dropping
<1>3. Listed(A, I)
  <2>1. /\ Listed(<<d1>>, {d1}) /\ Listed(<<d2, d3>>, {d2, d3})
        /\ \A a \in {d1}, b \in {d2, d3} : Follows(a, b)
    <3>1. Follows(d1, d2) /\ Follows(d1, d3) /\ Follows(d2, d3)
      BY <1>1, FollowsByWord DEF Dropping, Filling
    <3> HIDE DEF d1, d2, d3
    <3> QED
      BY <1>1, <3>1, ListedFew
  <2> HIDE DEF d1, d2, d3
  <2>2. Listed(<<d1>> \o <<d2, d3>>, {d1} \cup {d2, d3})
    BY <2>1, ListedTwo
  <2>3. <<d1>> \o <<d2, d3>> = A
    BY ThreeAsTwo
  <2>4. {d1} \cup {d2, d3} = I
    OBVIOUS
  <2> HIDE DEF A, I
  <2> QED
    BY <2>2, <2>3, <2>4
<1>4. d1 \in I /\ d2 \in I /\ d3 \in I
  OBVIOUS
<1>5. \A s \in I : s[1] \notin Filling
  BY <1>2 DEF Filling, Dropping
<1> HIDE DEF I, A
<1>6. /\ Listed(A \o AttachLocations(schools, regions) \o <<e>>, K)
      /\ Coherent(Filled(K)) /\ e \in K
  BY <1>3, <1>5, FillsAfter DEF Deed
<1>7. t = A \o AttachLocations(schools, regions) \o <<e>>
  BY DEF PlacementScript, A
<1>8. \A s \in P : s[1] \in Filling
  BY PlacesWords
<1> HIDE DEF P, t, e
<1>9. \A s \in K : s \in I \/ s \in P \/ s = e
  OBVIOUS
<1>10. d1 \in K /\ d2 \in K /\ d3 \in K
  BY <1>4
<1> HIDE DEF K
<1>11. \A s \in K : s[1] \in {"tell"} \cup Dropping \cup Filling
  BY <1>1, <1>2, <1>8, <1>9
<1>12. \A s \in K : s[1] \in Tags(f.op)
  BY <1>11 DEF Tags
<1>13. \A what \in Dropping : <<what>> \in K
  BY <1>10 DEF Dropping
<1>14. <<"join">> \notin K /\ Ids(K, "insert") = {}
  <2>1. <<"join">>[1] = "join"
    OBVIOUS
  <2> QED
    BY <1>11, <2>1 DEF Ids, Filling, Dropping
<1>15. Here(f.by)
  BY ManagesHere
<1>16. t # <<>> /\ t \in Seq(Statement) /\ Ordered(t) /\ Items(t) = K
  BY <1>6, <1>7, NotEmpty DEF Listed
<1>17. \A s \in K : s[1] \notin {"guardian", "ward", "instructor"}
  BY <1>11 DEF Filling, Dropping
<1>18. FitsPeople(r, t)
  BY <1>6, <1>13, <1>16, <1>17 DEF FitsPeople, Names, Regional
<1>19. FitsRows(r, t)
  BY <1>14, <1>16 DEF FitsRows
<1> QED
  BY <1>12, <1>15, <1>16, <1>18, <1>19 DEF Fits, t

(* The requests of two statements that touch no place.                     *)
LEMMA TwoFit ==
  ASSUME NEW r \in Request, NEW a \in Statement, NEW b \in Statement,
         a[1] \in Tags(Form[r].op), b[1] \in Tags(Form[r].op), Follows(a, b),
         Form[r].op \notin {"create_student", "create_guardian", "create_staff"},
         a[1] \notin Filling \cup Dropping \cup {"guardian", "ward"},
         b[1] \notin Filling \cup Dropping \cup {"guardian", "ward", "instructor"},
         a[1] = "instructor" => Here(a[2]),
         Form[r].op \in EnrolOps => Here(Form[r].person),
         Here(Form[r].by), FitsRows(r, <<a, b>>)
  PROVE  Fits(r, <<a, b>>)
<1> DEFINE K == {a, b}
           t == <<a, b>>
<1>1. Listed(t, K)
  BY ListedFew
<1>2. t # <<>> /\ t \in Seq(Statement) /\ Ordered(t) /\ Items(t) = K
  BY <1>1 DEF Listed
<1>3. \A s \in K : s[1] \notin Filling \cup Dropping
  OBVIOUS
<1>4. \A s \in K : s[1] \in {"guardian", "ward", "instructor"} => Here(s[2])
  OBVIOUS
<1>5. \A s \in K : s[1] \in Tags(Form[r].op)
  OBVIOUS
<1> HIDE DEF t, K
<1>6. Coherent(Filled(K))
  BY <1>3, NothingFilled
<1>7. FitsPeople(r, t)
  BY <1>2, <1>3, <1>4, <1>6 DEF FitsPeople, Names, Regional
<1> QED
  BY <1>2, <1>5, <1>7 DEF Fits, t

LEMMA AssignFits ==
  ASSUME NEW r \in Request, Form[r].op = "assign", MayManage(Form[r].by),
         Here(Form[r].instructor), Here(Form[r].person)
  PROVE  Fits(r, <<<<"instructor", Form[r].instructor, TRUE>>,
                   <<"tell", "user.student_assigned">>>>)
<1> DEFINE p == Form[r].instructor
           a == <<"instructor", p, TRUE>>
           b == <<"tell", "user.student_assigned">>
<1>1. p \in Person
  BY EnrolmentAssumption DEF EnrolOps, WellFormed
<1>2. a \in Statement
  BY <1>1 DEF Statement
<1>3. b \in Statement
  BY TellTyped DEF Deed
<1>4. a[1] = "instructor" /\ a[2] = p /\ b[1] = "tell"
  OBVIOUS
<1>5. Tags(Form[r].op) = {"instructor", "tell"}
  BY DEF Tags
<1> HIDE DEF a, b
<1>6. FitsRows(r, <<a, b>>)
  <2>1. Items(<<a, b>>) = {a, b} /\ <<"join">>[1] = "join"
    BY ItemsOfFew
  <2>2. <<"join">> \notin {a, b} /\ Ids({a, b}, "insert") = {}
    BY <1>4, <2>1 DEF Ids
  <2> QED
    BY <2>1, <2>2 DEF FitsRows
<1>7. Fits(r, <<a, b>>)
  BY <1>2, <1>3, <1>4, <1>5, <1>6, TwoFit, FollowsByWord, ManagesHere DEF Filling, Dropping
<1> QED
  BY <1>7 DEF a, b

LEMMA ArchiveFits ==
  ASSUME NEW r \in Request, Form[r].op = "archive", MayManage(Form[r].by),
         Here(Form[r].person), NEW x \in BOOLEAN
  PROVE  Fits(r, <<<<"archive", x>>, <<"tell", "user.archived">>>>)
<1> DEFINE a == <<"archive", x>>
           b == <<"tell", "user.archived">>
<1>1. a \in Statement
  BY DEF Statement
<1>2. b \in Statement
  BY TellTyped DEF Deed
<1>3. a[1] = "archive" /\ b[1] = "tell"
  OBVIOUS
<1>4. Tags(Form[r].op) = {"archive", "tell"}
  BY DEF Tags
<1> HIDE DEF a, b
<1>5. FitsRows(r, <<a, b>>)
  <2>1. Items(<<a, b>>) = {a, b} /\ <<"join">>[1] = "join"
    BY ItemsOfFew
  <2>2. <<"join">> \notin {a, b} /\ Ids({a, b}, "insert") = {}
    BY <1>3, <2>1 DEF Ids
  <2> QED
    BY <2>1, <2>2 DEF FitsRows
<1>6. Fits(r, <<a, b>>)
  BY <1>1, <1>2, <1>3, <1>4, <1>5, TwoFit, FollowsByWord, ManagesHere DEF Filling, Dropping
<1> QED
  BY <1>6 DEF a, b

LEMMA CreateFits ==
  ASSUME NEW r \in Request, Form[r].op = "create", MayShape(Form[r].by),
         ~Clashing(Form[r].kind, Form[r].name), NEW parent \in Nat \cup {None}
  PROVE  Fits(r, <<<<"insert", parent>>, <<"record", "created">>>>)
<1> DEFINE a == <<"insert", parent>>
           b == <<"record", "created">>
<1>1. a \in Statement
  BY DEF Statement
<1>2. b \in Statement
  BY TellTyped DEF Deed
<1>3. a[1] = "insert" /\ b[1] = "record"
  OBVIOUS
<1>4. Tags(Form[r].op) = {"insert", "record"}
  BY DEF Tags
<1> HIDE DEF a, b
<1>5. FitsRows(r, <<a, b>>)
  <2>1. Items(<<a, b>>) = {a, b} /\ <<"join">>[1] = "join"
    BY ItemsOfFew
  <2>2. <<"join">> \notin {a, b}
    BY <1>3, <2>1
  <2> QED
    BY <2>1, <2>2 DEF FitsRows
<1>6. Fits(r, <<a, b>>)
  BY <1>1, <1>2, <1>3, <1>4, <1>5, TwoFit, FollowsByWord, ManagesHere
     DEF Filling, Dropping, EnrolOps
<1> QED
  BY <1>6 DEF a, b

LEMMA RetireFits ==
  ASSUME NEW r \in Request, Form[r].op = "retire", MayShape(Form[r].by)
  PROVE  Fits(r, <<<<"retire">>, <<"record", "archived">>>>)
<1> DEFINE a == <<"retire">>
           b == <<"record", "archived">>
<1>1. a \in Statement
  BY DEF Statement, Bare
<1>2. b \in Statement
  BY TellTyped DEF Deed
<1>3. a[1] = "retire" /\ b[1] = "record"
  OBVIOUS
<1>4. Tags(Form[r].op) = {"retire", "record"}
  BY DEF Tags
<1> HIDE DEF a, b
<1>5. FitsRows(r, <<a, b>>)
  <2>1. Items(<<a, b>>) = {a, b} /\ <<"join">>[1] = "join"
    BY ItemsOfFew
  <2>2. <<"join">> \notin {a, b} /\ Ids({a, b}, "insert") = {}
    BY <1>3, <2>1 DEF Ids
  <2> QED
    BY <2>1, <2>2 DEF FitsRows
<1>6. Fits(r, <<a, b>>)
  BY <1>1, <1>2, <1>3, <1>4, <1>5, TwoFit, FollowsByWord, ManagesHere
     DEF Filling, Dropping, EnrolOps
<1> QED
  BY <1>6 DEF a, b

LEMMA JoinFits ==
  ASSUME NEW r \in Request, Form[r].op = "add_member", MayShape(Form[r].by),
         LiveOf("group", Form[r].group), Here(Form[r].person), ~Full(r)
  PROVE  Fits(r, <<<<"join">>, <<"record", "member_added">>>>)
<1> DEFINE a == <<"join">>
           b == <<"record", "member_added">>
<1>1. a \in Statement
  BY DEF Statement, Bare
<1>2. b \in Statement
  BY TellTyped DEF Deed
<1>3. a[1] = "join" /\ b[1] = "record"
  OBVIOUS
<1>4. Tags(Form[r].op) = {"join", "record"}
  BY DEF Tags
<1> HIDE DEF a, b
<1>5. FitsRows(r, <<a, b>>)
  <2>1. Items(<<a, b>>) = {a, b}
    BY ItemsOfFew
  <2>2. Ids({a, b}, "insert") = {}
    BY <1>3 DEF Ids
  <2>3. Form[r].group \in DOMAIN row
    BY DEF LiveOf, Live
  <2> QED
    BY <2>1, <2>2, <2>3 DEF FitsRows, Full
<1>6. Follows(a, b)
  BY <1>3, FollowsByWord
<1>7. Fits(r, <<a, b>>)
  BY <1>1, <1>2, <1>3, <1>4, <1>5, <1>6, TwoFit, ManagesHere DEF Filling, Dropping
<1> QED
  BY <1>7 DEF a, b

LEMMA LeaveFits ==
  ASSUME NEW r \in Request, Form[r].op = "remove_member", MayShape(Form[r].by)
  PROVE  Fits(r, <<<<"record", "member_removed">>, <<"leave">>>>)
<1> DEFINE a == <<"record", "member_removed">>
           b == <<"leave">>
<1>1. b \in Statement
  BY DEF Statement, Bare
<1>2. a \in Statement
  BY TellTyped DEF Deed
<1>3. a[1] = "record" /\ b[1] = "leave"
  OBVIOUS
<1>4. Tags(Form[r].op) = {"leave", "record"}
  BY DEF Tags
<1> HIDE DEF a, b
<1>5. FitsRows(r, <<a, b>>)
  <2>1. Items(<<a, b>>) = {a, b} /\ <<"join">>[1] = "join"
    BY ItemsOfFew
  <2>2. <<"join">> \notin {a, b} /\ Ids({a, b}, "insert") = {}
    BY <1>3, <2>1 DEF Ids
  <2> QED
    BY <2>1, <2>2 DEF FitsRows
<1>6. Fits(r, <<a, b>>)
  BY <1>1, <1>2, <1>3, <1>4, <1>5, TwoFit, FollowsByWord, ManagesHere
     DEF Filling, Dropping, EnrolOps
<1> QED
  BY <1>6 DEF a, b

-----------------------------------------------------------------------------
(* Setting out.                                                            *)

(* A request that sets out is not one yet; whoever runs meets it.          *)
Begun(r, at, todo) ==
  /\ r \in Request /\ r \notin Running /\ call[r].at = "idle"
  /\ Cardinality(Running) < MaxInFlight
  /\ Setting(r, at, todo)

SetsOut(r) ==
  \/ \E t : Fits(r, t) /\ Begun(r, "running", t)
  \/ Begun(r, "refused", <<>>)
  \/ Form[r].op \notin CreatingOps /\ Begun(r, "done", <<>>)

LEMMA AdmittedIdle ==
  ASSUME NEW r \in Admissible
  PROVE  /\ r \in Request
         /\ \A t : SetOut(r, t) => Begun(r, "running", t)
         /\ Refuse(r) => Begun(r, "refused", <<>>)
         /\ NothingToDo(r) => Begun(r, "done", <<>>)
<1> DEFINE free == Cardinality(Running) < MaxInFlight /\ Cardinality(Sent) < MaxRequests
           open == (UNION {mix \in Mixes : Sent \subseteq mix}) \ Sent
<1>1. Admissible = IF free THEN open ELSE {}
  BY DEF Admissible
<1>2. free /\ r \in open
  <2> HIDE DEF free, open
  <2> QED
    BY <1>1
<1>3. r \in Request /\ r \notin Sent
  <2>1. PICK mix \in Mixes : r \in mix
    BY <1>2
  <2>2. \A m \in Mixes : m \subseteq Request
    BY RequestAssumption
  <2> QED
    BY <1>2, <2>1, <2>2
<1>4. call[r].at = "idle" /\ r \notin Running
  BY <1>3 DEF Sent, Running
<1>5. Cardinality(Running) < MaxInFlight
  BY <1>2
<1> QED
  BY <1>3, <1>4, <1>5 DEF Begun, SetOut, Refuse, NothingToDo

LEMMA JudgedSetsOut ==
  ASSUME NEW r \in Admissible, NEW ok, NEW t, Judged(r, ok, t),
         MayManage(Form[r].by) /\ ok => Fits(r, t)
  PROVE  SetsOut(r)
<1>1. CASE MayManage(Form[r].by) /\ ok
  BY <1>1, AdmittedIdle DEF Judged, SetsOut
<1>2. CASE ~(MayManage(Form[r].by) /\ ok)
  BY <1>2, AdmittedIdle DEF Judged, SetsOut
<1> QED
  BY <1>1, <1>2

LEMMA EnrolSetsOut ==
  ASSUME PeopleTyped, NEW r \in Admissible, Enrol(r)
  PROVE  SetsOut(r) /\ UNCHANGED people
<1> DEFINE f == Form[r]
<1>1. r \in Request
  BY AdmittedIdle
<1>2. CASE CreateStudent(r)
  <2> DEFINE ok == /\ f.guardian # None => Loaded(f.by, f.guardian) /\ HasRole(f.guardian, "parent")
                   /\ OneKindOfPlace(r) /\ InHisSchool(r)
  <2>1. f.op = "create_student" /\ Judged(r, ok, StudentScript(r)) /\ UNCHANGED people
    BY <1>2 DEF CreateStudent
  <2>2. ok => /\ OneKindOfPlace(r)
              /\ f.guardian # None => HasRole(f.guardian, "parent")
    OBVIOUS
  <2> HIDE DEF ok
  <2>3. MayManage(f.by) /\ ok => Fits(r, StudentScript(r))
    BY <1>1, <2>1, <2>2, StudentFits
  <2> QED
    BY <2>1, <2>3, JudgedSetsOut
<1>3. CASE CreateGuardian(r)
  <2>1. f.op = "create_guardian" /\ Judged(r, TRUE, GuardianScript(r)) /\ UNCHANGED people
    BY <1>3 DEF CreateGuardian
  <2>2. MayManage(f.by) => Fits(r, GuardianScript(r))
    BY <1>1, <2>1, GuardianFits
  <2> QED
    BY <2>1, <2>2, JudgedSetsOut
<1>4. CASE CreateStaff(r)
  <2> DEFINE ok == /\ OneKindOfPlace(r)
                   /\ f.role = "regional_admin" => f.regions # {}
                   /\ f.role \in SCHOOL_SCOPED_ROLES => Cardinality(f.schools) = 1
                   /\ InHisSchool(r)
                   /\ f.role \in Privileged => HasRole(f.by, "admin")
  <2>1. f.op = "create_staff" /\ Judged(r, ok, StaffScript(r)) /\ UNCHANGED people
    BY <1>4 DEF CreateStaff
  <2>2. ok => OneKindOfPlace(r)
    OBVIOUS
  <2> HIDE DEF ok
  <2>3. MayManage(f.by) /\ ok => Fits(r, StaffScript(r))
    BY <1>1, <2>1, <2>2, StaffFits
  <2> QED
    BY <2>1, <2>3, JudgedSetsOut
<1>5. CASE FindOrInviteStudent(r)
  <2>1. f.op = "invite" /\ UNCHANGED people
    BY <1>5 DEF FindOrInviteStudent
  <2>2. \/ NothingToDo(r) \/ Refuse(r)
        \/ Judged(r, TRUE, CreatePerson({Unbounded("student")}))
    BY <1>5 DEF FindOrInviteStudent
  <2>3. MayManage(f.by) => Fits(r, CreatePerson({Unbounded("student")}))
    BY <1>1, <2>1, InviteFits
  <2>4. CASE Judged(r, TRUE, CreatePerson({Unbounded("student")}))
    BY <2>1, <2>3, <2>4, JudgedSetsOut
  <2>5. CASE NothingToDo(r) \/ Refuse(r)
    BY <2>1, <2>5, AdmittedIdle DEF SetsOut, CreatingOps
  <2> QED
    BY <2>2, <2>4, <2>5
<1>6. CASE SetPlacements(r)
  <2> DEFINE ok == /\ Visible(f.by, f.person) /\ Fitting(f.person, f.schools, f.regions)
                   /\ SchoolsInScope(f.by, f.schools)
             t == PlacementScript(f.schools, f.regions)
  <2>1. f.op = "set_placements" /\ Judged(r, ok, t) /\ UNCHANGED people
    BY <1>6 DEF SetPlacements
  <2>2. ok => Here(f.person) /\ (f.schools = {} \/ f.regions = {})
    BY DEF Visible, Fitting
  <2>3. f.schools \in SUBSET School /\ f.regions \in SUBSET Region
    BY <1>1, <2>1, EnrolmentAssumption DEF EnrolOps, WellFormed
  <2> HIDE DEF ok
  <2>4. MayManage(f.by) /\ ok => Fits(r, t)
    BY <1>1, <2>1, <2>2, <2>3, PlacementFits
  <2> HIDE DEF t
  <2> QED
    BY <2>1, <2>4, JudgedSetsOut
<1>7. CASE AttachSchool(r)
  <2> DEFINE now == placed[f.person]
             then == now.schools \cup {f.school}
             ok == /\ Loaded(f.by, f.person) /\ SchoolsInScope(f.by, {f.school})
                   /\ now.regions # {} => now.schools # {}
                   /\ Fitting(f.person, then, {})
                   /\ SchoolsInScope(f.by, then)
             t == PlacementScript(then, {})
  <2>1. f.op = "attach_school" /\ UNCHANGED people
    BY <1>7 DEF AttachSchool
  <2>2. NothingToDo(r) \/ Judged(r, ok, t)
    BY <1>7 DEF AttachSchool
  <2>3. ok => Here(f.person)
    BY DEF Loaded, Visible
  <2>4. f.person \in Person /\ f.school \in School
    BY <1>1, <2>1, EnrolmentAssumption DEF EnrolOps, WellFormed
  <2>5. then \in SUBSET School
    BY <2>4 DEF PeopleTyped
  <2> HIDE DEF ok, then
  <2>6. MayManage(f.by) /\ ok => Fits(r, t)
    BY <1>1, <2>1, <2>3, <2>5, PlacementFits
  <2>7. CASE NothingToDo(r)
    BY <2>1, <2>7, AdmittedIdle DEF SetsOut, CreatingOps
  <2> HIDE DEF t
  <2>8. CASE Judged(r, ok, t)
    BY <2>1, <2>6, <2>8, JudgedSetsOut
  <2> QED
    BY <2>2, <2>7, <2>8
<1>8. CASE DetachSchool(r)
  <2> DEFINE rest == placed[f.person].schools \ {f.school}
             ok == /\ Loaded(f.by, f.person) /\ SchoolsInScope(f.by, {f.school})
                   /\ Fitting(f.person, rest, {})
                   /\ SchoolsInScope(f.by, rest)
             t == PlacementScript(rest, {})
  <2>1. f.op = "detach_school" /\ Judged(r, ok, t) /\ UNCHANGED people
    BY <1>8 DEF DetachSchool
  <2>2. ok => Here(f.person)
    BY DEF Loaded, Visible
  <2>3. f.person \in Person
    BY <1>1, <2>1, EnrolmentAssumption DEF EnrolOps
  <2>4. rest \in SUBSET School
    BY <2>3 DEF PeopleTyped
  <2> HIDE DEF ok, rest
  <2>5. MayManage(f.by) /\ ok => Fits(r, t)
    BY <1>1, <2>1, <2>2, <2>4, PlacementFits
  <2> HIDE DEF t
  <2> QED
    BY <2>1, <2>5, JudgedSetsOut
<1>9. CASE AssignStudent(r)
  <2> DEFINE ok == /\ Loaded(f.by, f.instructor) /\ Loaded(f.by, f.person)
                   /\ HasRole(f.instructor, "instructor") /\ HasRole(f.person, "student")
             t == <<<<"instructor", f.instructor, TRUE>>, <<"tell", "user.student_assigned">>>>
  <2>1. f.op = "assign" /\ UNCHANGED people
    BY <1>9 DEF AssignStudent
  <2>2. NothingToDo(r) \/ Judged(r, ok, t)
    BY <1>9 DEF AssignStudent
  <2>3. ok => Here(f.person) /\ Here(f.instructor)
    BY DEF Loaded, Visible
  <2> HIDE DEF ok
  <2>4. MayManage(f.by) /\ ok => Fits(r, t)
    BY <1>1, <2>1, <2>3, AssignFits
  <2> HIDE DEF t
  <2>5. CASE NothingToDo(r)
    BY <2>1, <2>5, AdmittedIdle DEF SetsOut, CreatingOps
  <2>6. CASE Judged(r, ok, t)
    BY <2>1, <2>4, <2>6, JudgedSetsOut
  <2> QED
    BY <2>2, <2>5, <2>6
<1>10. CASE ArchiveOrRestore(r)
  <2> DEFINE ok == /\ Visible(f.by, f.person)
                   /\ ~user[f.person].archived =>
                        /\ f.person # f.by
                        /\ HasRole(f.person, "admin") => HasRole(f.by, "admin")
             x == Here(f.person) /\ ~user[f.person].archived
             t == <<<<"archive", x>>, <<"tell", "user.archived">>>>
  <2>1. f.op = "archive" /\ Judged(r, ok, t) /\ UNCHANGED people
    BY <1>10 DEF ArchiveOrRestore
  <2>2. ok => Here(f.person)
    BY DEF Visible
  <2>3. x \in BOOLEAN
    OBVIOUS
  <2> HIDE DEF ok, x
  <2>4. MayManage(f.by) /\ ok => Fits(r, t)
    BY <1>1, <2>1, <2>2, <2>3, ArchiveFits
  <2> HIDE DEF t
  <2> QED
    BY <2>1, <2>4, JudgedSetsOut
<1> QED
  BY <1>2, <1>3, <1>4, <1>5, <1>6, <1>7, <1>8, <1>9, <1>10 DEF Enrol

LEMMA CreatingSetsOut ==
  ASSUME NEW r \in Admissible, Form[r].op = "create", NEW ok,
         NEW parent \in Nat \cup {None}, Creating(r, ok, parent)
  PROVE  SetsOut(r) /\ UNCHANGED structure
<1> DEFINE t == <<<<"insert", parent>>, <<"record", "created">>>>
           good == MayShape(Form[r].by) /\ ok /\ ~Clashing(Form[r].kind, Form[r].name)
<1>1. /\ IF good THEN SetOut(r, t) ELSE Refuse(r)
      /\ UNCHANGED structure
  BY DEF Creating
<1>2. r \in Request
  BY AdmittedIdle
<1>3. good => Fits(r, t)
  BY <1>2, CreateFits
<1> HIDE DEF t, good
<1> QED
  BY <1>1, <1>3, AdmittedIdle DEF SetsOut, CreatingOps

LEMMA ArchivingSetsOut ==
  ASSUME NEW r \in Admissible, Form[r].op = "retire", Archiving(r)
  PROVE  SetsOut(r) /\ UNCHANGED structure
<1> DEFINE t == <<<<"retire">>, <<"record", "archived">>>>
           good == MayShape(Form[r].by) /\ LiveOf(Form[r].kind, Form[r].id)
<1>1. /\ IF good THEN SetOut(r, t) ELSE Refuse(r)
      /\ UNCHANGED structure
  BY DEF Archiving
<1>2. r \in Request
  BY AdmittedIdle
<1>3. good => Fits(r, t)
  BY <1>2, RetireFits
<1> HIDE DEF t, good
<1> QED
  BY <1>1, <1>3, AdmittedIdle DEF SetsOut, CreatingOps

LEMMA RestructureSetsOut ==
  ASSUME row \in Seq(RowsBy(Request \cup {None})), NEW r \in Admissible, Restructure(r)
  PROVE  SetsOut(r) /\ UNCHANGED structure
<1> DEFINE f == Form[r]
<1>1. r \in Request
  BY AdmittedIdle
<1>2. DOMAIN row \subseteq Nat
  BY LenProperties
<1>3. /\ SchoolOfLocation(r) \in Nat \cup {None} /\ RegionOfDistrict(r) \in Nat \cup {None}
      /\ DistrictOfSchool(r) \in Nat \cup {None} /\ None \in Nat \cup {None}
  BY <1>2 DEF SchoolOfLocation, RegionOfDistrict, DistrictOfSchool, Named, LiveOf, Live
<1>4. CASE \/ CreateGroup(r) \/ CreateLocation(r) \/ CreateRegion(r)
           \/ CreateDistrict(r) \/ CreateSchool(r)
  <2>1. /\ f.op = "create"
        /\ \E ok : \E parent \in Nat \cup {None} : Creating(r, ok, parent)
    BY <1>3, <1>4 DEF CreateGroup, CreateLocation, CreateRegion, CreateDistrict,
                      CreateSchool, Wants
  <2> QED
    BY <2>1, CreatingSetsOut
<1>5. CASE \/ ArchiveGroup(r) \/ ArchiveLocation(r) \/ ArchiveRegion(r)
           \/ ArchiveDistrict(r) \/ ArchiveSchool(r)
  <2>1. f.op = "retire" /\ Archiving(r)
    BY <1>5 DEF ArchiveGroup, ArchiveLocation, ArchiveRegion, ArchiveDistrict,
                ArchiveSchool, Wants
  <2> QED
    BY <2>1, ArchivingSetsOut
<1>6. CASE AddMember(r)
  <2> DEFINE t == <<<<"join">>, <<"record", "member_added">>>>
             good == /\ MayShape(f.by) /\ LiveOf("group", f.group)
                     /\ Loaded(f.by, f.person) /\ HasRole(f.person, f.role)
  <2>1. /\ f.op = "add_member" /\ UNCHANGED structure
        /\ \/ good /\ ~Full(r) /\ SetOut(r, t)
           \/ NothingToDo(r) \/ Refuse(r)
    BY <1>6 DEF AddMember
  <2>2. good /\ ~Full(r) => Fits(r, t)
    BY <1>1, <2>1, JoinFits DEF HasRole
  <2> HIDE DEF good, t
  <2> QED
    BY <2>1, <2>2, AdmittedIdle DEF SetsOut, CreatingOps
<1>7. CASE RemoveMember(r)
  <2> DEFINE t == <<<<"record", "member_removed">>, <<"leave">>>>
             good == /\ MayShape(f.by) /\ LiveOf("group", f.group)
                     /\ Membership(r) \in member
  <2>1. /\ f.op = "remove_member" /\ UNCHANGED structure
        /\ \/ good /\ SetOut(r, t)
           \/ Refuse(r)
    BY <1>7 DEF RemoveMember
  <2>2. good => Fits(r, t)
    BY <1>1, <2>1, LeaveFits
  <2> HIDE DEF good, t
  <2> QED
    BY <2>1, <2>2, AdmittedIdle DEF SetsOut, CreatingOps
<1> QED
  BY <1>4, <1>5, <1>6, <1>7 DEF Restructure

-----------------------------------------------------------------------------
(* How a request moves on: one statement further, or out.                  *)

OthersStay(r) ==
  \A d \in Request : d # r =>
    call'[d].at = call[d].at /\ call'[d].todo = call[d].todo
Turns(r) ==
  /\ r \in Running /\ call' \in [Request -> CallState] /\ OthersStay(r)
  /\ \A d \in Request : call'[d].met = call[d].met
Goes(r, h) ==
  /\ Turns(r) /\ call'[r].at \in {"running", "done"}
  /\ h \in Statement /\ h[1] \in Tags(Form[r].op)
  /\ Left(r) = {h} \cup Left(r)' /\ \A b \in Left(r)' : Follows(h, b)
Ends(r) == Turns(r) /\ call'[r].at \in {"failed", "dead"}

LEMMA OthersLeft ==
  ASSUME NEW r, OthersStay(r), NEW d \in Request, d # r
  PROVE  Left(d)' = Left(d) /\ (d \in Running' <=> d \in Running)
BY DEF OthersStay, Left, Running

LEMMA ScriptedHead ==
  ASSUME Scripted, NEW r \in Running, NEW h, h = Head(call[r].todo)
  PROVE  /\ r \in Request /\ call[r] \in CallState /\ call[r].at = "running"
         /\ call[r].todo \in Seq(Statement) /\ call[r].todo # <<>>
         /\ h \in Statement /\ h \in Left(r) /\ h[1] \in Tags(Form[r].op)
         /\ Tail(call[r].todo) \in Seq(Statement)
         /\ Left(r) = {h} \cup Items(Tail(call[r].todo))
         /\ Len(call[r].todo) = 1 => Items(Tail(call[r].todo)) = {}
         /\ Len(call[r].todo) # 1 => Tail(call[r].todo) # <<>>
         /\ Ordered(Tail(call[r].todo))
         /\ \A b \in Items(Tail(call[r].todo)) : Follows(h, b)
<1> DEFINE t == call[r].todo
<1>1. /\ r \in Request /\ call[r] \in CallState /\ call[r].at = "running"
      /\ t # <<>> /\ Ordered(t) /\ \A s \in Left(r) : s[1] \in Tags(Form[r].op)
  BY DEF Scripted, Running
<1>2. t \in Seq(Statement) /\ Left(r) = Items(t)
  BY <1>1 DEF CallState, Left
<1> HIDE DEF t
<1>3. /\ h \in Statement /\ Tail(t) \in Seq(Statement)
      /\ Items(t) = {h} \cup Items(Tail(t))
      /\ Len(t) = 1 => Items(Tail(t)) = {}
      /\ Len(t) # 1 => Tail(t) # <<>>
      /\ Ordered(Tail(t)) /\ \A b \in Items(Tail(t)) : Follows(h, b)
  BY <1>1, <1>2, ItemsFromHead DEF t
<1> QED
  BY <1>1, <1>2, <1>3 DEF t

LEMMA OnwardGoes ==
  ASSUME Scripted, NEW r \in Running, Onward(r), NEW h, h = Head(call[r].todo)
  PROVE  Goes(r, h) /\ Scripted'
<1> DEFINE t == call[r].todo
           k == call'[r]
<1>1. /\ r \in Request /\ call[r] \in CallState /\ call[r].at = "running"
      /\ t \in Seq(Statement) /\ t # <<>>
      /\ h \in Statement /\ h \in Left(r) /\ h[1] \in Tags(Form[r].op)
      /\ Tail(t) \in Seq(Statement) /\ Left(r) = {h} \cup Items(Tail(t))
      /\ Len(t) = 1 => Items(Tail(t)) = {}
      /\ Len(t) # 1 => Tail(t) # <<>>
      /\ Ordered(Tail(t)) /\ \A b \in Items(Tail(t)) : Follows(h, b)
  BY ScriptedHead
<1>2. call \in [Request -> CallState]
  BY DEF Scripted
<1>3. /\ call' = [call EXCEPT ![r] = k]
      /\ k.at = (IF Len(t) = 1 THEN "done" ELSE "running")
      /\ k.todo = Tail(t) /\ k.met = call[r].met /\ k.after = call[r].after
      /\ k \in CallState
  BY <1>1, <1>2 DEF Onward, CallState
<1> HIDE DEF t, k
<1>4. call' \in [Request -> CallState]
  BY <1>2, <1>3
<1>5. call'[r] = k /\ \A d \in Request : d # r => call'[d] = call[d]
  BY <1>1, <1>2, <1>3
<1>6. Turns(r)
  BY <1>3, <1>4, <1>5 DEF Turns, OthersStay
<1>7. /\ k.at = "running" => Left(r)' = Items(Tail(t))
      /\ k.at # "running" => Left(r)' = {} /\ Items(Tail(t)) = {}
  BY <1>1, <1>3, <1>5 DEF Left
<1>8. Goes(r, h)
  BY <1>1, <1>3, <1>5, <1>6, <1>7 DEF Goes
<1>9. ASSUME NEW d \in Running'
      PROVE  /\ call'[d].todo # <<>> /\ Ordered(call'[d].todo)
             /\ \A s \in Left(d)' : s[1] \in Tags(Form[d].op)
  <2>1. CASE d = r
    <3>1. k.at = "running"
      BY <1>5, <1>9, <2>1 DEF Running
    <3>2. \A s \in Left(r) : s[1] \in Tags(Form[r].op)
      BY DEF Scripted
    <3> QED
      BY <1>1, <1>3, <1>5, <1>7, <2>1, <3>1, <3>2
  <2>2. CASE d # r
    <3>1. d \in Running /\ Left(d)' = Left(d) /\ call'[d].todo = call[d].todo
      BY <1>5, <1>6, <1>9, <2>2, OthersLeft DEF Turns, Running
    <3> QED
      BY <3>1 DEF Scripted
  <2> QED
    BY <2>1, <2>2
<1> QED
  BY <1>4, <1>8, <1>9 DEF Scripted

LEMMA GoneEnds ==
  ASSUME Scripted, NEW r \in Running, Fail(r) \/ Stop(r)
  PROVE  Ends(r) /\ Scripted'
<1> DEFINE k == call'[r]
<1>1. r \in Request /\ call[r] \in CallState /\ call \in [Request -> CallState]
  BY DEF Scripted, Running
<1>2. /\ call' = [call EXCEPT ![r] = k] /\ k.at \in {"failed", "dead"}
      /\ k.met = call[r].met /\ k \in CallState
  <2>1. \E at \in {"failed", "dead"} : call' = [call EXCEPT ![r].at = at]
    BY DEF Fail, Stop
  <2>2. PICK at \in {"failed", "dead"} : call' = [call EXCEPT ![r].at = at]
    BY <2>1
  <2>3. k = [call[r] EXCEPT !.at = at]
    BY <1>1, <2>2
  <2>4. k.at = at /\ k.met = call[r].met /\ k \in CallState
    <3>1. at \in {"idle", "running", "done", "refused", "failed", "dead"}
      BY <2>2
    <3> QED
      BY <1>1, <2>3, <3>1 DEF CallState
  <2>5. call' = [call EXCEPT ![r] = k]
    BY <2>2, <2>3
  <2> QED
    BY <2>2, <2>4, <2>5
<1> HIDE DEF k
<1>3. call' \in [Request -> CallState]
  BY <1>1, <1>2
<1>4. call'[r] = k /\ \A d \in Request : d # r => call'[d] = call[d]
  BY <1>1, <1>2
<1>5. Ends(r)
  BY <1>2, <1>3, <1>4 DEF Ends, Turns, OthersStay
<1>6. ASSUME NEW d \in Running'
      PROVE  /\ call'[d].todo # <<>> /\ Ordered(call'[d].todo)
             /\ \A s \in Left(d)' : s[1] \in Tags(Form[d].op)
  <2>1. d # r
    BY <1>2, <1>4, <1>6 DEF Running
  <2>2. d \in Running /\ Left(d)' = Left(d) /\ call'[d].todo = call[d].todo
    BY <1>4, <1>5, <1>6, <2>1, OthersLeft DEF Ends, Turns, Running
  <2> QED
    BY <2>2 DEF Scripted
<1> QED
  BY <1>3, <1>5, <1>6 DEF Scripted

LEMMA TurnsAcquainted ==
  ASSUME Acquainted, NEW r, Turns(r)
  PROVE  Acquainted'
<1>1. \A d \in Running' : d \in Running
  BY DEF Turns, OthersStay, Running
<1>2. \A d \in Running' : call'[d].met = call[d].met
  BY DEF Turns, Running
<1>3. ASSUME NEW a \in Running', NEW d \in Running', a # d
      PROVE  d \in call'[a].met
  <2>1. a \in Running /\ d \in Running
    BY <1>1
  <2>2. d \in call[a].met
    BY <1>3, <2>1 DEF Acquainted
  <2> QED
    BY <1>2, <2>2
<1> QED
  BY <1>3 DEF Acquainted

(* The same for a request that sets out, is refused, or has nothing to do. *)
Starts(r, at, items) ==
  /\ r \in Request /\ r \notin Running /\ call[r].at = "idle"
  /\ Cardinality(Running) < MaxInFlight
  /\ call' \in [Request -> CallState] /\ OthersStay(r)
  /\ \A d \in Request : d # r =>
       /\ call[d].met \subseteq call'[d].met
       /\ call'[d].met \subseteq call[d].met \cup {r}
  /\ call'[r].at = at /\ call'[r].met = Running /\ Left(r)' = items

LEMMA BegunStarts ==
  ASSUME Scripted, Acquainted, NEW r, NEW t, NEW at, Begun(r, at, t),
         \/ at = "running" /\ Fits(r, t)
         \/ at \in {"refused", "done"} /\ t = <<>>
  PROVE  /\ Starts(r, at, IF at = "running" THEN Items(t) ELSE {})
         /\ Scripted' /\ Acquainted'
<1> DEFINE after == {e \in Request : call[e].at \in {"done", "failed"}}
           k == [at |-> at, todo |-> t, met |-> Running, after |-> after]
           f(d) == IF d = r THEN k
                   ELSE IF d \in Running THEN [call[d] EXCEPT !.met = @ \cup {r}]
                   ELSE call[d]
<1>1. /\ r \in Request /\ r \notin Running /\ call[r].at = "idle"
      /\ Cardinality(Running) < MaxInFlight
      /\ call' = [d \in Request |-> f(d)]
  BY DEF Begun, Setting
<1>2. t \in Seq(Statement)
  <2>1. <<>> \in Seq(Statement)
    OBVIOUS
  <2> QED
    BY <2>1, Zenon DEF Fits
<1>3. k \in CallState
  BY <1>2 DEF CallState, Running
<1>4. call \in [Request -> CallState]
  BY DEF Scripted
<1>5. ASSUME NEW d \in Request, d # r
      PROVE  /\ f(d) \in CallState /\ f(d).at = call[d].at /\ f(d).todo = call[d].todo
             /\ call[d].met \subseteq f(d).met /\ f(d).met \subseteq call[d].met \cup {r}
             /\ d \in Running => r \in f(d).met
  <2>1. call[d] \in CallState
    BY <1>4
  <2>2. CASE d \in Running
    <3>1. f(d) = [call[d] EXCEPT !.met = @ \cup {r}]
      BY <1>5, <2>2
    <3> HIDE DEF f
    <3> QED
      BY <1>1, <2>1, <3>1 DEF CallState
  <2>3. CASE d \notin Running
    <3>1. f(d) = call[d]
      BY <1>5, <2>3
    <3> HIDE DEF f
    <3> QED
      BY <2>1, <2>3, <3>1
  <2> QED
    BY <2>2, <2>3
<1>6. f(r) = k /\ k.at = at /\ k.todo = t /\ k.met = Running
  OBVIOUS
<1> HIDE DEF f, k
<1>7. call' \in [Request -> CallState]
  BY <1>1, <1>3, <1>5, <1>6
<1>8. /\ call'[r] = k
      /\ \A d \in Request : d # r =>
           /\ call'[d].at = call[d].at /\ call'[d].todo = call[d].todo
           /\ call[d].met \subseteq call'[d].met /\ call'[d].met \subseteq call[d].met \cup {r}
           /\ d \in Running => r \in call'[d].met
  BY <1>1, <1>5, <1>6
<1>9. OthersStay(r)
  BY <1>8 DEF OthersStay
<1>10. Left(r)' = IF at = "running" THEN Items(t) ELSE {}
  BY <1>6, <1>8 DEF Left
<1>11. Starts(r, at, IF at = "running" THEN Items(t) ELSE {})
  BY <1>1, <1>6, <1>7, <1>8, <1>9, <1>10 DEF Starts
<1>12. \A d \in Running' : d # r => d \in Running /\ Left(d)' = Left(d)
  BY <1>9, OthersLeft DEF Running
<1>13. ASSUME NEW d \in Running'
       PROVE  /\ call'[d].todo # <<>> /\ Ordered(call'[d].todo)
              /\ \A s \in Left(d)' : s[1] \in Tags(Form[d].op)
  <2>1. CASE d = r
    <3>1. at = "running"
      BY <1>6, <1>8, <1>13, <2>1 DEF Running
    <3> QED
      BY <1>6, <1>8, <1>10, <2>1, <3>1 DEF Fits
  <2>2. CASE d # r
    BY <1>8, <1>12, <1>13, <2>2 DEF Scripted, Running
  <2> QED
    BY <2>1, <2>2
<1>14. ASSUME NEW a \in Running', NEW d \in Running', a # d
       PROVE  d \in call'[a].met
  <2>1. a \in Request /\ d \in Request
    BY <1>14 DEF Running
  <2>2. CASE a = r
    BY <1>6, <1>8, <1>12, <1>14, <2>2
  <2>3. CASE a # r /\ d = r
    BY <1>8, <1>12, <1>14, <2>1, <2>3
  <2>4. CASE a # r /\ d # r
    <3>1. d \in call[a].met
      BY <1>12, <1>14, <2>4 DEF Acquainted
    <3> QED
      BY <1>8, <2>1, <2>4, <3>1
  <2> QED
    BY <2>2, <2>3, <2>4
<1> QED
  BY <1>7, <1>11, <1>13, <1>14 DEF Scripted, Acquainted

-----------------------------------------------------------------------------
(* What a statement does to the accounts.                                  *)

LEMMA StatementParts ==
  ASSUME NEW s \in Statement
  PROVE  /\ s[1] = "account" => s[2] \in SUBSET (Role \X (Region \cup {None}))
         /\ s[1] = "school" => s[2] \in School /\ s = <<"school", s[2]>>
         /\ s[1] = "district" => s[2] \in District /\ s = <<"district", s[2]>>
         /\ s[1] = "region" => s[2] \in Region /\ s = <<"region", s[2]>>
         /\ s[1] = "grant" => s[2] \in Region /\ s = <<"grant", s[2]>>
         /\ s[1] = "archive" => s[2] \in BOOLEAN
         /\ s[1] \in {"guardian", "ward", "instructor", "throw"} =>
              s[2] \in Person /\ s[3] \in BOOLEAN
         /\ s[1] = "insert" => s[2] \in Nat \cup {None}
         /\ s[1] \in Bare => s = <<s[1]>>
<1>1. \/ s \in {"account"} \X SUBSET (Role \X (Region \cup {None}))
      \/ s \in {"tell", "record"} \X Deed
      \/ s \in {<<what>> : what \in Bare}
      \/ s \in {"school"} \X School
      \/ s \in {"district"} \X District
      \/ s \in {"region", "grant"} \X Region
      \/ s \in {"archive"} \X BOOLEAN
      \/ s \in {"guardian", "ward", "instructor", "throw"} \X Person \X BOOLEAN
      \/ s \in {"insert"} \X (Nat \cup {None})
  BY Zenon DEF Statement
<1>2. CASE s \in {"account"} \X SUBSET (Role \X (Region \cup {None}))
  BY <1>2 DEF Bare
<1>3. CASE s \in {"tell", "record"} \X Deed
  BY <1>3 DEF Bare
<1>4. CASE s \in {<<what>> : what \in Bare}
  BY <1>4 DEF Bare
<1>5. CASE s \in {"school"} \X School
  BY <1>5 DEF Bare
<1>6. CASE s \in {"district"} \X District
  BY <1>6 DEF Bare
<1>7. CASE s \in {"region", "grant"} \X Region
  BY <1>7 DEF Bare
<1>8. CASE s \in {"archive"} \X BOOLEAN
  BY <1>8 DEF Bare
<1>9. CASE s \in {"guardian", "ward", "instructor", "throw"} \X Person \X BOOLEAN
  BY <1>9 DEF Bare
<1>10. CASE s \in {"insert"} \X (Nat \cup {None})
  BY <1>10 DEF Bare
<1> QED
  BY <1>1, <1>2, <1>3, <1>4, <1>5, <1>6, <1>7, <1>8, <1>9, <1>10

(* The rows of one kind after a statement: one more, none, or as they were. *)
After(h, fill, drop, ids) ==
  IF h[1] = fill THEN ids \cup {h[2]} ELSE IF h[1] = drop THEN {} ELSE ids
Put(x, h) ==
  [schools |-> After(h, "school", "drop_schools", x.schools),
   districts |-> After(h, "district", "drop_districts", x.districts),
   regions |-> After(h, "region", "drop_regions", x.regions)]
There(x, h) ==
  \/ h[1] = "school" /\ h[2] \in x.schools
  \/ h[1] = "district" /\ h[2] \in x.districts
  \/ h[1] = "region" /\ h[2] \in x.regions

Quiet(r, h) ==
  /\ UNCHANGED <<user, placed, guardians, teaches>>
  /\ \/ Ends(r) /\ h \in Left(r)
          /\ (call'[r].at = "dead" \/ h[1] \in Failing \/ There(placed[Form[r].person], h))
     \/ Goes(r, h) /\ h[1] \in {"tell", "record", "insert", "retire", "join", "leave"}
Putting(r, h) ==
  /\ Goes(r, h) /\ h[1] \in Filling \cup Dropping
  /\ ~There(placed[Form[r].person], h)
  /\ placed' = [placed EXCEPT ![Form[r].person] = Put(@, h)]
  /\ UNCHANGED <<user, guardians, teaches>>
Opening(r, h) ==
  /\ Goes(r, h) /\ h[1] = "account" /\ ~Here(Form[r].person)
  /\ user' = [user EXCEPT ![Form[r].person] = [roles |-> h[2], archived |-> FALSE]]
  /\ UNCHANGED <<placed, guardians, teaches>>
Granting(r, h) ==
  /\ Goes(r, h)
  /\ \/ /\ h[1] = "drop_roles"
        /\ user' = [user EXCEPT ![Form[r].person].roles = {}]
     \/ /\ h[1] = "grant"
        /\ user' = [user EXCEPT ![Form[r].person].roles =
                      @ \cup {<<"regional_admin", h[2]>>}]
  /\ UNCHANGED <<placed, guardians, teaches>>
Shelving(r, h) ==
  /\ Goes(r, h) /\ h[1] = "archive"
  /\ user' = [user EXCEPT ![Form[r].person].archived = h[2]]
  /\ UNCHANGED <<placed, guardians, teaches>>
Minding(r, h) ==
  /\ Goes(r, h) /\ h[1] \in {"guardian", "ward"}
  /\ guardians' = guardians \cup
       {[guardian |-> IF h[1] = "guardian" THEN h[2] ELSE Form[r].person,
         student |-> IF h[1] = "guardian" THEN Form[r].person ELSE h[2],
         primary |-> h[3]]}
  /\ UNCHANGED <<user, placed, teaches>>
Teaching(r, h) ==
  /\ Goes(r, h) /\ h[1] = "instructor"
  /\ teaches' = teaches \cup {<<h[2], Form[r].person>>}
  /\ UNCHANGED <<user, placed, guardians>>
Acts(r, h) ==
  \/ Quiet(r, h) \/ Putting(r, h) \/ Opening(r, h) \/ Granting(r, h)
  \/ Shelving(r, h) \/ Minding(r, h) \/ Teaching(r, h)

(* A request about somebody's account names a person.                      *)
LEMMA PersonNamed ==
  ASSUME NEW r \in Request, NEW h,  h[1] \in Tags(Form[r].op),
         h[1] \notin {"insert", "record", "retire", "join", "leave"}
  PROVE  Form[r].op \in EnrolOps /\ Form[r].person \in Person
<1>1. Form[r].op \in EnrolOps
  BY DEF Tags, EnrolOps
<1> QED
  BY <1>1, EnrolmentAssumption

LEMMA RowActs ==
  ASSUME Scripted, PeopleTyped, NEW r \in Running, NEW h, h = Head(call[r].todo),
         Place(r) \/ Displace(r)
  PROVE  (Quiet(r, h) \/ Putting(r, h)) /\ Scripted'
<1> DEFINE p == Form[r].person
           x == placed[p]
<1>1. r \in Request /\ h \in Left(r) /\ h[1] \in Tags(Form[r].op)
  BY ScriptedHead
<1>2. h[1] \in Filling \cup Dropping /\ UNCHANGED <<user, guardians, teaches>>
  BY DEF Place, Displace, Doing, Filling, Dropping
<1>3. p \in Person
  BY <1>1, <1>2, PersonNamed DEF Filling, Dropping
<1>4. x \in [schools : SUBSET School, districts : SUBSET District, regions : SUBSET Region]
  BY <1>3 DEF PeopleTyped
<1>5. \/ Fail(r) /\ UNCHANGED placed /\ There(x, h)
      \/ /\ Onward(r) /\ ~There(x, h)
         /\ placed' = [placed EXCEPT ![p] = Put(@, h)]
  <2>1. CASE Doing(r, "school") /\ Row(r, "schools", Arg(r, 2))
    BY <1>4, <2>1 DEF Row, Doing, Arg, There, Put, After
  <2>2. CASE Doing(r, "district") /\ Row(r, "districts", Arg(r, 2))
    BY <1>4, <2>2 DEF Row, Doing, Arg, There, Put, After
  <2>3. CASE Doing(r, "region") /\ Row(r, "regions", Arg(r, 2))
    BY <1>4, <2>3 DEF Row, Doing, Arg, There, Put, After
  <2>4. CASE Doing(r, "drop_schools") /\ Emptied(r, "schools")
    <3>1. h[1] = "drop_schools" /\ placed' = [placed EXCEPT ![p].schools = {}] /\ Onward(r)
      BY <2>4 DEF Emptied, Doing
    <3>2. Put(x, h) = [x EXCEPT !.schools = {}]
      BY <1>4, <3>1 DEF Put, After
    <3>3. ~There(x, h)
      BY <3>1 DEF There
    <3> QED
      BY <3>1, <3>2, <3>3
  <2>5. CASE Doing(r, "drop_districts") /\ Emptied(r, "districts")
    <3>1. h[1] = "drop_districts" /\ placed' = [placed EXCEPT ![p].districts = {}] /\ Onward(r)
      BY <2>5 DEF Emptied, Doing
    <3>2. Put(x, h) = [x EXCEPT !.districts = {}]
      BY <1>4, <3>1 DEF Put, After
    <3>3. ~There(x, h)
      BY <3>1 DEF There
    <3> QED
      BY <3>1, <3>2, <3>3
  <2>6. CASE Doing(r, "drop_regions") /\ Emptied(r, "regions")
    <3>1. h[1] = "drop_regions" /\ placed' = [placed EXCEPT ![p].regions = {}] /\ Onward(r)
      BY <2>6 DEF Emptied, Doing
    <3>2. Put(x, h) = [x EXCEPT !.regions = {}]
      BY <1>4, <3>1 DEF Put, After
    <3>3. ~There(x, h)
      BY <3>1 DEF There
    <3> QED
      BY <3>1, <3>2, <3>3
  <2> QED
    BY <2>1, <2>2, <2>3, <2>4, <2>5, <2>6 DEF Place, Displace
<1>6. CASE Fail(r) /\ UNCHANGED placed /\ There(x, h)
  BY <1>1, <1>2, <1>6, GoneEnds DEF Quiet
<1>7. CASE Onward(r) /\ ~There(x, h) /\ placed' = [placed EXCEPT ![p] = Put(@, h)]
  BY <1>2, <1>7, OnwardGoes DEF Putting
<1> QED
  BY <1>5, <1>6, <1>7

LEMMA WriteActs ==
  ASSUME Scripted, PeopleTyped, NEW r \in Running, NEW h, h = Head(call[r].todo), Write(r)
  PROVE  Acts(r, h) /\ Scripted'
<1>1. r \in Request /\ h \in Left(r) /\ h[1] \in Tags(Form[r].op) /\ h \in Statement
  BY ScriptedHead
<1>2. /\ Onward(r) => Goes(r, h) /\ Scripted'
      /\ Fail(r) => Ends(r) /\ Scripted'
  BY OnwardGoes, GoneEnds
<1>3. CASE Place(r) \/ Displace(r)
  BY <1>3, RowActs DEF Acts
<1>4. CASE OpenAccount(r)
  <2>1. h[1] = "account" /\ UNCHANGED <<placed, guardians, teaches>>
    BY <1>4 DEF OpenAccount, Doing
  <2>2. CASE Here(Form[r].person)
    <3>1. Fail(r) /\ UNCHANGED user
      BY <1>4, <2>2 DEF OpenAccount
    <3> QED
      BY <1>1, <1>2, <2>1, <3>1 DEF Acts, Quiet, Failing
  <2>3. CASE ~Here(Form[r].person)
    <3>1. /\ user' = [user EXCEPT ![Form[r].person] = [roles |-> h[2], archived |-> FALSE]]
          /\ Onward(r)
      BY <1>4, <2>3 DEF OpenAccount, Arg
    <3> QED
      BY <1>2, <2>1, <2>3, <3>1 DEF Acts, Opening
  <2> QED
    BY <2>2, <2>3
<1>5. CASE GrantRegions(r)
  <2>1. Onward(r) /\ UNCHANGED <<placed, guardians, teaches>>
    BY <1>5 DEF GrantRegions
  <2>2. \/ /\ h[1] = "drop_roles"
           /\ user' = [user EXCEPT ![Form[r].person].roles = {}]
        \/ /\ h[1] = "grant"
           /\ user' = [user EXCEPT ![Form[r].person].roles =
                         @ \cup {<<"regional_admin", h[2]>>}]
    BY <1>5 DEF GrantRegions, Doing, Arg
  <2> QED
    BY <1>2, <2>1, <2>2, Zenon DEF Acts, Granting
<1>6. CASE SetArchived(r)
  <2>1. /\ h[1] = "archive" /\ Onward(r) /\ UNCHANGED <<placed, guardians, teaches>>
        /\ user' = [user EXCEPT ![Form[r].person].archived = h[2]]
    BY <1>6 DEF SetArchived, Doing, Arg
  <2> QED
    BY <1>2, <2>1, Zenon DEF Acts, Shelving
<1>7. CASE LinkGuardian(r)
  <2>1. Onward(r) /\ UNCHANGED <<user, placed, teaches>>
    BY <1>7 DEF LinkGuardian
  <2> DEFINE p == Form[r].person
             l == [guardian |-> IF h[1] = "guardian" THEN h[2] ELSE p,
                   student |-> IF h[1] = "guardian" THEN p ELSE h[2], primary |-> h[3]]
  <2>2. h[1] \in {"guardian", "ward"} /\ guardians' = guardians \cup {l}
    <3>1. CASE Doing(r, "guardian")
      <4>1. h[1] = "guardian"
        BY <3>1 DEF Doing
      <4>2. l = [guardian |-> h[2], student |-> p, primary |-> h[3]]
        BY <4>1
      <4>3. guardians' = guardians \cup {[guardian |-> h[2], student |-> p, primary |-> h[3]]}
        BY <1>7, <4>1 DEF LinkGuardian, Doing, Arg
      <4> QED
        BY <4>1, <4>2, <4>3
    <3>2. CASE Doing(r, "ward")
      <4>1. h[1] = "ward"
        BY <3>2 DEF Doing
      <4>2. l = [guardian |-> p, student |-> h[2], primary |-> h[3]]
        BY <4>1
      <4>3. guardians' = guardians \cup {[guardian |-> p, student |-> h[2], primary |-> h[3]]}
        BY <1>7, <4>1 DEF LinkGuardian, Doing, Arg
      <4> QED
        BY <4>1, <4>2, <4>3
    <3> QED
      BY <1>7, <3>1, <3>2 DEF LinkGuardian
  <2> QED
    BY <1>2, <2>1, <2>2 DEF Acts, Minding
<1>8. CASE LinkInstructor(r)
  <2>1. h[1] = "instructor" /\ UNCHANGED <<user, placed, guardians>>
    BY <1>8 DEF LinkInstructor, Doing
  <2>2. \/ Fail(r) /\ UNCHANGED teaches
        \/ Onward(r) /\ teaches' = teaches \cup {<<h[2], Form[r].person>>}
    BY <1>8 DEF LinkInstructor, Arg
  <2>3. CASE Fail(r) /\ UNCHANGED teaches
    BY <1>1, <1>2, <2>1, <2>3 DEF Acts, Quiet, Failing
  <2>4. CASE Onward(r) /\ teaches' = teaches \cup {<<h[2], Form[r].person>>}
    BY <1>2, <2>1, <2>4 DEF Acts, Teaching
  <2> QED
    BY <2>2, <2>3, <2>4
<1>9. CASE Throw(r)
  <2>1. h[1] = "throw" /\ Fail(r) /\ UNCHANGED <<user, placed, guardians, teaches>>
    BY <1>9 DEF Throw, Doing, people
  <2> QED
    BY <1>1, <1>2, <2>1 DEF Acts, Quiet, Failing
<1>10. CASE Tell(r)
  <2>1. h[1] = "tell" /\ Onward(r) /\ UNCHANGED <<user, placed, guardians, teaches>>
    BY <1>10 DEF Tell, Doing
  <2> QED
    BY <1>2, <2>1 DEF Acts, Quiet
<1> QED
  BY <1>3, <1>4, <1>5, <1>6, <1>7, <1>8, <1>9, <1>10 DEF Write

LEMMA StopActs ==
  ASSUME Scripted, NEW r \in Running, NEW h, h = Head(call[r].todo), Stop(r), UNCHANGED people
  PROVE  Acts(r, h) /\ Ends(r) /\ Scripted'
<1>1. r \in Request /\ h \in Left(r) /\ call[r] \in CallState /\ call \in [Request -> CallState]
  BY ScriptedHead DEF Scripted
<1>2. Ends(r) /\ Scripted'
  BY GoneEnds
<1>3. call'[r].at = "dead"
  BY <1>1 DEF Stop, CallState
<1> QED
  BY <1>1, <1>2, <1>3 DEF Acts, Quiet, people

-----------------------------------------------------------------------------
(* What a statement does to the hierarchy.                                 *)

Inserting(r, h) ==
  /\ Goes(r, h) /\ h[1] = "insert" /\ ~Taken(Form[r].kind, Form[r].name)
  /\ row' = Append(row, Row_(Form[r].kind, Form[r].name, h[2], Form[r].capacity, r))
  /\ UNCHANGED member
Retiring(r, h) ==
  /\ Goes(r, h) /\ h[1] = "retire"
  /\ row' = [row EXCEPT ![Form[r].id].archived = TRUE] /\ UNCHANGED member
Entering(r, h) ==
  /\ Goes(r, h) /\ h[1] = "join" /\ Membership(r) \notin member
  /\ member' = member \cup {Membership(r)} /\ UNCHANGED row
Quitting(r, h) ==
  /\ Goes(r, h) /\ h[1] = "leave"
  /\ member' = member \ {Membership(r)} /\ UNCHANGED row
Resting(r, h) == UNCHANGED <<row, member>> /\ (Ends(r) \/ Goes(r, h))
Shapes(r, h) ==
  \/ Resting(r, h) \/ Inserting(r, h) \/ Retiring(r, h) \/ Entering(r, h) \/ Quitting(r, h)

LEMMA WriteStructureActs ==
  ASSUME Scripted, NEW r \in Running, NEW h, h = Head(call[r].todo),
         WriteStructure(r), UNCHANGED people
  PROVE  Acts(r, h) /\ Shapes(r, h) /\ Scripted'
<1>1. r \in Request /\ h \in Left(r) /\ h[1] \in Tags(Form[r].op) /\ h \in Statement
  BY ScriptedHead
<1>2. /\ Onward(r) => Goes(r, h) /\ Scripted'
      /\ Fail(r) => Ends(r) /\ Scripted'
  BY OnwardGoes, GoneEnds
<1>3. UNCHANGED <<user, placed, guardians, teaches>>
  BY DEF people
<1>4. /\ Goes(r, h) /\ h[1] \in {"record", "insert", "retire", "join", "leave"} => Acts(r, h)
      /\ Ends(r) /\ h[1] \in {"insert", "join", "leave"} => Acts(r, h)
  BY <1>1, <1>3 DEF Acts, Quiet, Failing
<1>5. CASE Insert(r)
  <2>1. h[1] = "insert" /\ UNCHANGED member
    BY <1>5 DEF Insert, Doing
  <2>2. CASE Taken(Form[r].kind, Form[r].name)
    <3>1. Fail(r) /\ UNCHANGED row
      BY <1>5, <2>2 DEF Insert
    <3> QED
      BY <1>2, <1>4, <2>1, <3>1 DEF Shapes, Resting
  <2>3. CASE ~Taken(Form[r].kind, Form[r].name)
    <3>1. row' = Appended(r) /\ Onward(r)
      BY <1>5, <2>3 DEF Insert
    <3> QED
      BY <1>2, <1>4, <2>1, <2>3, <3>1 DEF Shapes, Inserting, Appended, Arg
  <2> QED
    BY <2>2, <2>3
<1>6. CASE Retire(r)
  <2>1. /\ h[1] = "retire" /\ UNCHANGED member /\ Onward(r)
        /\ row' = [row EXCEPT ![Form[r].id].archived = TRUE]
    BY <1>6 DEF Retire, Doing
  <2> QED
    BY <1>2, <1>4, <2>1 DEF Shapes, Retiring
<1>7. CASE Join(r)
  <2>1. h[1] = "join" /\ UNCHANGED row
    BY <1>7 DEF Join, Doing
  <2>2. \/ Fail(r) /\ UNCHANGED member
        \/ /\ Membership(r) \notin member
           /\ member' = member \cup {Membership(r)} /\ Onward(r)
    BY <1>7 DEF Join
  <2> QED
    BY <1>2, <1>4, <2>1, <2>2 DEF Shapes, Resting, Entering
<1>8. CASE Leave(r)
  <2>1. h[1] = "leave" /\ UNCHANGED row
    BY <1>8 DEF Leave, Doing
  <2>2. \/ Fail(r) /\ UNCHANGED member
        \/ member' = member \ {Membership(r)} /\ Onward(r)
    BY <1>8 DEF Leave
  <2> QED
    BY <1>2, <1>4, <2>1, <2>2 DEF Shapes, Resting, Quitting
<1>9. CASE RecordStructure(r)
  <2>1. h[1] = "record" /\ UNCHANGED <<row, member>> /\ Onward(r)
    BY <1>9 DEF RecordStructure, Doing
  <2> QED
    BY <1>2, <1>4, <2>1 DEF Shapes, Resting
<1> QED
  BY <1>5, <1>6, <1>7, <1>8, <1>9 DEF WriteStructure

-----------------------------------------------------------------------------
(* Who is here, and what is known of them.                                 *)

LEMMA ActsTurns ==
  ASSUME NEW r, NEW h, Acts(r, h) \/ Goes(r, h) \/ Ends(r)
  PROVE  /\ r \in Request /\ r \in Running /\ Turns(r) /\ (Ends(r) \/ Goes(r, h))
         /\ call[r].at = "running" /\ Left(r)' \subseteq Left(r)
         /\ \A d \in Request : d # r =>
              /\ Left(d)' = Left(d) /\ call'[d].at = call[d].at
              /\ d \in Running' <=> d \in Running
         /\ \A d \in Request : call'[d].at = "running" => call[d].at = "running"
<1>1. Ends(r) \/ Goes(r, h)
  BY DEF Acts, Quiet, Putting, Opening, Granting, Shelving, Minding, Teaching
<1>2. Turns(r) /\ r \in Running
  BY <1>1 DEF Ends, Goes, Turns
<1>3. r \in Request /\ call[r].at = "running"
  BY <1>2 DEF Running
<1>4. Left(r)' \subseteq Left(r)
  <2>1. CASE Ends(r)
    BY <2>1 DEF Ends, Left
  <2>2. CASE Goes(r, h)
    BY <2>2 DEF Goes
  <2> QED
    BY <1>1, <2>1, <2>2
<1>5. OthersStay(r)
  BY <1>2 DEF Turns
<1>6. \A d \in Request : d # r =>
        /\ Left(d)' = Left(d) /\ call'[d].at = call[d].at
        /\ d \in Running' <=> d \in Running
  BY <1>5, OthersLeft DEF OthersStay
<1> QED
  BY <1>1, <1>2, <1>3, <1>4, <1>6

LEMMA Opened ==
  ASSUME NEW r, NEW h, Goes(r, h)
  PROVE  /\ ~Opens(Left(r)')
         /\ h[1] # "account" => ~Opens(Left(r))
BY DEF Goes, Opens, Follows

LEMMA PersonHere ==
  ASSUME Present, NEW r \in Request, NEW h, Goes(r, h),
         h[1] \notin {"account", "insert", "record", "retire", "join", "leave"}
  PROVE  Form[r].person \in Person /\ Here(Form[r].person)
<1>1. call[r].at = "running" /\ ~Opens(Left(r)) /\ h[1] \in Tags(Form[r].op)
  <2>1. call[r].at = "running"
    BY ActsTurns
  <2>2. ~Opens(Left(r))
    BY Opened
  <2>3. h[1] \in Tags(Form[r].op)
    BY DEF Goes
  <2> QED
    BY <2>1, <2>2, <2>3
<1>2. Form[r].op \in EnrolOps /\ Form[r].person \in Person
  BY <1>1, PersonNamed
<1> QED
  BY <1>1, <1>2 DEF Present

LEMMA HereAccount ==
  ASSUME PeopleTyped, NEW p \in Person, Here(p)
  PROVE  user[p] \in Account
BY DEF PeopleTyped, Here

LEMMA ActsKeepUser ==
  ASSUME PeopleTyped, Present, NEW r, NEW h, Acts(r, h)
  PROVE  /\ user' \in [Person -> Account \cup {None}] /\ \A p \in Person : Here(p) => Here(p)'
         /\ Opening(r, h) => Here(Form[r].person)' /\ Form[r].person \in Person
<1> DEFINE p == Form[r].person
<1>1. r \in Request
  BY ActsTurns
<1>2. user \in [Person -> Account \cup {None}]
  BY DEF PeopleTyped
<1>3. CASE UNCHANGED user
  <2>1. ~Opening(r, h)
    <3>1. SUFFICES ASSUME Opening(r, h)  PROVE FALSE
      OBVIOUS
    <3>2. h[1] = "account" /\ p \in Person
      BY <1>1, <3>1, PersonNamed DEF Opening, Goes
    <3>3. user'[p] = [roles |-> h[2], archived |-> FALSE] /\ user[p] = None
      BY <1>2, <3>1, <3>2 DEF Opening, Here
    <3>4. [roles |-> h[2], archived |-> FALSE] \in Account
      <4>1. h[2] \in SUBSET (Role \X (Region \cup {None}))
        BY <3>1, <3>2, StatementParts DEF Opening, Goes
      <4> QED
        BY <4>1 DEF Account
    <3> QED
      BY <1>3, <3>3, <3>4, EnrolmentAssumption
  <2> QED
    BY <1>2, <1>3, <2>1 DEF Here
<1>4. CASE Opening(r, h)
  <2> DEFINE k == [roles |-> h[2], archived |-> FALSE]
  <2>1. h[1] = "account" /\ p \in Person
    BY <1>1, <1>4, PersonNamed DEF Opening, Goes
  <2>2. h[2] \in SUBSET (Role \X (Region \cup {None}))
    BY <1>4, <2>1, StatementParts DEF Opening, Goes
  <2>3. k \in Account
    BY <2>2 DEF Account
  <2>4. user' = [user EXCEPT ![p] = k] /\ k # None
    BY <1>4, <2>3, EnrolmentAssumption DEF Opening
  <2> HIDE DEF k, p
  <2>5. user' \in [Person -> Account \cup {None}] /\ user'[p] = k
    BY <1>2, <2>1, <2>3, <2>4
  <2>6. \A q \in Person : Here(q) => Here(q)'
    BY <1>2, <2>1, <2>4 DEF Here
  <2> QED
    BY <2>1, <2>4, <2>5, <2>6 DEF Here, p
<1>5. CASE Granting(r, h) \/ Shelving(r, h)
  <2>1. /\ Goes(r, h) /\ h[1] \in {"drop_roles", "grant", "archive"}
    BY <1>5 DEF Granting, Shelving
  <2>2. p \in Person /\ Here(p) /\ user[p] \in Account
    BY <1>1, <2>1, PersonHere, HereAccount
  <2>3. PICK k \in Account : user' = [user EXCEPT ![p] = k]
    <3>1. CASE Shelving(r, h)
      <4> DEFINE k == [user[p] EXCEPT !.archived = h[2]]
      <4>1. h[2] \in BOOLEAN
        BY <3>1, StatementParts DEF Shelving, Goes
      <4>2. k \in Account
        BY <2>2, <4>1 DEF Account
      <4>3. user' = [user EXCEPT ![p] = k]
        BY <3>1 DEF Shelving
      <4> QED
        BY <4>2, <4>3
    <3>2. CASE Granting(r, h) /\ h[1] = "drop_roles"
      <4> DEFINE k == [user[p] EXCEPT !.roles = {}]
      <4>1. k \in Account
        BY <2>2 DEF Account
      <4>2. user' = [user EXCEPT ![p] = k]
        BY <3>2 DEF Granting
      <4> QED
        BY <4>1, <4>2
    <3>3. CASE Granting(r, h) /\ h[1] = "grant"
      <4> DEFINE g == <<"regional_admin", h[2]>>
                 k == [user[p] EXCEPT !.roles = @ \cup {g}]
      <4>1. h[2] \in Region
        BY <3>3, StatementParts DEF Granting, Goes
      <4>2. g \in Role \X (Region \cup {None})
        BY <4>1 DEF Role
      <4>3. user' = [user EXCEPT ![p] = k]
        BY <3>3 DEF Granting
      <4> HIDE DEF g
      <4>4. k \in Account
        BY <2>2, <4>2 DEF Account
      <4> QED
        BY <4>3, <4>4
    <3> QED
      BY <1>5, <3>1, <3>2, <3>3 DEF Granting
  <2>4. k # None
    BY EnrolmentAssumption
  <2> HIDE DEF p
  <2>5. user' \in [Person -> Account \cup {None}] /\ \A q \in Person : Here(q) => Here(q)'
    BY <1>2, <2>2, <2>3, <2>4 DEF Here
  <2>6. ~Opening(r, h)
    BY <2>1 DEF Opening
  <2> QED
    BY <2>5, <2>6
<1> QED
  BY <1>3, <1>4, <1>5 DEF Acts, Quiet, Putting, Minding, Teaching

LEMMA PutTyped ==
  ASSUME NEW h \in Statement,
         NEW x \in [schools : SUBSET School, districts : SUBSET District,
                    regions : SUBSET Region]
  PROVE  Put(x, h) \in [schools : SUBSET School, districts : SUBSET District,
                        regions : SUBSET Region]
<1>1. /\ h[1] = "school" => h[2] \in School
      /\ h[1] = "district" => h[2] \in District
      /\ h[1] = "region" => h[2] \in Region
  BY StatementParts
<1>2. /\ After(h, "school", "drop_schools", x.schools) \in SUBSET School
      /\ After(h, "district", "drop_districts", x.districts) \in SUBSET District
      /\ After(h, "region", "drop_regions", x.regions) \in SUBSET Region
  BY <1>1 DEF After
<1> QED
  BY <1>2 DEF Put

LEMMA ActsKeepTyped ==
  ASSUME PeopleTyped, Present, NEW r, NEW h, Acts(r, h)
  PROVE  PeopleTyped'
<1> DEFINE p == Form[r].person
           T == [schools : SUBSET School, districts : SUBSET District,
                 regions : SUBSET Region]
           G == [guardian : Person, student : Person, primary : BOOLEAN]
<1>1. r \in Request
  BY ActsTurns
<1>2. /\ user' \in [Person -> Account \cup {None}] /\ \A q \in Person : Here(q) => Here(q)'
      /\ Opening(r, h) => Here(p)' /\ p \in Person
  BY ActsKeepUser
<1>3. /\ placed' \in [Person -> T] /\ \A q \in Person : ~Here(q)' => placed'[q] = Nowhere
  <2>1. placed \in [Person -> T] /\ \A q \in Person : ~Here(q) => placed[q] = Nowhere
    BY DEF PeopleTyped
  <2>2. CASE UNCHANGED placed
    BY <1>2, <2>1, <2>2
  <2>3. CASE Putting(r, h)
    <3>1. p \in Person /\ Here(p)
      BY <1>1, <2>3, PersonHere DEF Putting, Filling, Dropping
    <3>2. Put(placed[p], h) \in T
      BY <2>1, <2>3, <3>1, PutTyped DEF Putting, Goes
    <3>3. placed' = [placed EXCEPT ![p] = Put(placed[p], h)]
      BY <2>3 DEF Putting
    <3>4. Here(p)'
      BY <1>2, <3>1
    <3> HIDE DEF p, T
    <3> QED
      BY <1>2, <2>1, <3>1, <3>2, <3>3, <3>4
  <2> QED
    BY <2>2, <2>3 DEF Acts, Quiet, Opening, Granting, Shelving, Minding, Teaching
<1>4. guardians' \subseteq G /\ \A l \in guardians' : Here(l.guardian)' /\ Here(l.student)'
  <2>1. guardians \subseteq G /\ \A l \in guardians : Here(l.guardian) /\ Here(l.student)
    BY DEF PeopleTyped
  <2>2. CASE UNCHANGED guardians
    BY <1>2, <2>1, <2>2
  <2>3. CASE Minding(r, h)
    <3> DEFINE l == [guardian |-> IF h[1] = "guardian" THEN h[2] ELSE p,
                     student |-> IF h[1] = "guardian" THEN p ELSE h[2], primary |-> h[3]]
    <3>1. h[1] \in {"guardian", "ward"} /\ h \in Left(r) /\ h \in Statement /\ Goes(r, h)
      BY <2>3 DEF Minding, Goes
    <3>2. p \in Person /\ Here(p)
      BY <1>1, <3>1, PersonHere
    <3>3. h[2] \in Person /\ h[3] \in BOOLEAN
      BY <3>1, StatementParts
    <3>4. Here(h[2])
      BY <1>1, <3>1 DEF Present
    <3>5. l \in G /\ Here(l.guardian) /\ Here(l.student)
      BY <3>1, <3>2, <3>3, <3>4
    <3>6. guardians' = guardians \cup {l}
      BY <2>3 DEF Minding
    <3> HIDE DEF l
    <3> QED
      BY <1>2, <2>1, <3>5, <3>6
  <2> QED
    BY <2>2, <2>3 DEF Acts, Quiet, Putting, Opening, Granting, Shelving, Teaching
<1>5. teaches' \subseteq Person \X Person /\ \A l \in teaches' : Here(l[1])' /\ Here(l[2])'
  <2>1. teaches \subseteq Person \X Person /\ \A l \in teaches : Here(l[1]) /\ Here(l[2])
    BY DEF PeopleTyped
  <2>2. CASE UNCHANGED teaches
    BY <1>2, <2>1, <2>2
  <2>3. CASE Teaching(r, h)
    <3> DEFINE l == <<h[2], p>>
    <3>1. h[1] = "instructor" /\ h \in Left(r) /\ h \in Statement /\ Goes(r, h)
      BY <2>3 DEF Teaching, Goes
    <3>2. p \in Person /\ Here(p)
      BY <1>1, <3>1, PersonHere
    <3>3. h[2] \in Person
      BY <3>1, StatementParts
    <3>4. Here(h[2])
      BY <1>1, <3>1 DEF Present
    <3>5. l \in Person \X Person /\ Here(l[1]) /\ Here(l[2])
      BY <3>2, <3>3, <3>4
    <3>6. teaches' = teaches \cup {l}
      BY <2>3 DEF Teaching
    <3> HIDE DEF l
    <3> QED
      BY <1>2, <2>1, <3>5, <3>6
  <2> QED
    BY <2>2, <2>3 DEF Acts, Quiet, Putting, Opening, Granting, Shelving, Minding
<1>6. \A q \in DOMAIN Staff : Here(q)'
  BY <1>2, EnrolmentAssumption DEF PeopleTyped
<1> QED
  BY <1>2, <1>3, <1>4, <1>5, <1>6 DEF PeopleTyped

LEMMA ActsKeepPresent ==
  ASSUME Scripted, PeopleTyped, Present, NEW r, NEW h, Acts(r, h)
  PROVE  Present'
<1>1. /\ r \in Request /\ Left(r)' \subseteq Left(r) /\ call[r].at = "running"
      /\ Ends(r) \/ Goes(r, h)
      /\ \A d \in Request : d # r => Left(d)' = Left(d) /\ call'[d].at = call[d].at
      /\ \A d \in Request : call'[d].at = "running" => call[d].at = "running"
  BY ActsTurns
<1>2. /\ \A q \in Person : Here(q) => Here(q)'
      /\ Opening(r, h) => Here(Form[r].person)' /\ Form[r].person \in Person
  BY ActsKeepUser
<1>3. \A d \in Request : Form[d].by \in Person
  BY EnrolmentAssumption
<1>4. \A d \in Request : Form[d].op \in EnrolOps => Form[d].person \in Person
  BY EnrolmentAssumption
<1>5. \A d \in Request : Left(d)' \subseteq Left(d)
  BY <1>1
<1>6. ASSUME NEW d \in Request, call'[d].at = "running"  PROVE Here(Form[d].by)'
  BY <1>1, <1>2, <1>3, <1>6 DEF Present
<1>7. ASSUME NEW d \in Request, call'[d].at = "done", Form[d].op \in CreatingOps
      PROVE  Here(Form[d].by)'
  <2>1. call[d].at \in {"running", "done"}
    BY <1>1, <1>7
  <2> QED
    BY <1>2, <1>3, <1>7, <2>1 DEF Present
<1>8. Goes(r, h) /\ Form[r].op \in EnrolOps => Here(Form[r].person)'
  <2>1. SUFFICES ASSUME Goes(r, h), Form[r].op \in EnrolOps  PROVE Here(Form[r].person)'
    OBVIOUS
  <2>2. CASE h[1] = "account"
    <3>1. Opening(r, h)
      BY <2>1, <2>2 DEF Acts, Quiet, Putting, Granting, Shelving, Minding, Teaching,
                        Filling, Dropping, Ends, Goes
    <3> QED
      BY <1>2, <3>1
  <2>3. CASE h[1] # "account"
    <3>1. ~Opens(Left(r))
      BY <2>1, <2>3, Opened
    <3> QED
      BY <1>1, <1>2, <1>4, <2>1, <3>1 DEF Present
  <2> QED
    BY <2>2, <2>3
<1>9. ASSUME NEW d \in Request, call'[d].at = "running", Form[d].op \in EnrolOps, ~Opens(Left(d)')
      PROVE  Here(Form[d].person)'
  <2>1. CASE d = r
    BY <1>1, <1>8, <1>9, <2>1 DEF Ends
  <2>2. CASE d # r
    BY <1>1, <1>2, <1>4, <1>9, <2>2 DEF Present
  <2> QED
    BY <2>1, <2>2
<1>10. ASSUME NEW d \in Request, call'[d].at = "done", Form[d].op = "create_staff"
       PROVE  Here(Form[d].person)'
  <2>1. Form[d].op \in EnrolOps
    BY <1>10 DEF EnrolOps
  <2>2. CASE d = r
    BY <1>1, <1>8, <1>10, <2>1, <2>2 DEF Ends
  <2>3. CASE d # r
    BY <1>1, <1>2, <1>4, <1>10, <2>1, <2>3 DEF Present
  <2> QED
    BY <2>2, <2>3
<1>11. ASSUME NEW d \in Request, NEW s \in Left(d)', s[1] \in {"guardian", "ward", "instructor"}
       PROVE  Here(s[2])'
  <2>1. s \in Left(d) /\ Here(s[2])
    BY <1>5, <1>11 DEF Present
  <2>2. s[2] \in Person
    <3>1. call[d] \in CallState
      BY DEF Scripted
    <3>2. s \in Statement
      BY <2>1, <3>1, ElementOfSeq, LenProperties DEF Left, Items, CallState
    <3> QED
      BY <1>11, <3>2, StatementParts
  <2> QED
    BY <1>2, <2>1, <2>2
<1> QED
  BY <1>6, <1>7, <1>9, <1>10, <1>11 DEF Present

-----------------------------------------------------------------------------
(* Setting out leaves the accounts and the hierarchy as they are.          *)

Outset(r, at, items) ==
  /\ Starts(r, at, items)
  /\ \/ at = "running" /\ \E t : Fits(r, t) /\ items = Items(t)
     \/ items = {} /\ at = "refused"
     \/ items = {} /\ at = "done" /\ Form[r].op \notin CreatingOps

LEMMA SetsOutset ==
  ASSUME Scripted, Acquainted, NEW r, SetsOut(r)
  PROVE  \E at, items : Outset(r, at, items) /\ Scripted' /\ Acquainted'
<1>1. CASE \E t : Fits(r, t) /\ Begun(r, "running", t)
  <2>1. PICK t : Fits(r, t) /\ Begun(r, "running", t)
    BY <1>1
  <2>2. Starts(r, "running", Items(t)) /\ Scripted' /\ Acquainted'
    BY <2>1, BegunStarts
  <2> QED
    BY <2>1, <2>2 DEF Outset
<1>2. CASE Begun(r, "refused", <<>>)
  <2>1. Starts(r, "refused", {}) /\ Scripted' /\ Acquainted'
    BY <1>2, BegunStarts
  <2> QED
    BY <2>1 DEF Outset
<1>3. CASE Form[r].op \notin CreatingOps /\ Begun(r, "done", <<>>)
  <2>1. Starts(r, "done", {}) /\ Scripted' /\ Acquainted'
    BY <1>3, BegunStarts
  <2> QED
    BY <1>3, <2>1 DEF Outset
<1> QED
  BY <1>1, <1>2, <1>3 DEF SetsOut

LEMMA OutsetTurns ==
  ASSUME NEW r, NEW at, NEW items, Outset(r, at, items)
  PROVE  /\ r \in Request /\ r \notin Running /\ call[r].at = "idle" /\ Left(r) = {}
         /\ call'[r].at = at /\ Left(r)' = items
         /\ \A d \in Request : d # r =>
              /\ Left(d)' = Left(d) /\ call'[d].at = call[d].at
              /\ d \in Running' <=> d \in Running
<1>1. /\ r \in Request /\ r \notin Running /\ call[r].at = "idle" /\ OthersStay(r)
      /\ call'[r].at = at /\ Left(r)' = items
  BY DEF Outset, Starts
<1>2. Left(r) = {}
  BY <1>1 DEF Left
<1>3. \A d \in Request : d # r =>
        /\ Left(d)' = Left(d) /\ call'[d].at = call[d].at
        /\ d \in Running' <=> d \in Running
  BY <1>1, OthersLeft DEF OthersStay
<1> QED
  BY <1>1, <1>2, <1>3

LEMMA OutsetKeepsPresent ==
  ASSUME Present, NEW r, NEW at, NEW items, Outset(r, at, items), UNCHANGED people
  PROVE  Present'
<1>1. /\ r \in Request /\ call'[r].at = at /\ Left(r)' = items
      /\ \A d \in Request : d # r => Left(d)' = Left(d) /\ call'[d].at = call[d].at
  BY OutsetTurns
<1>2. \A p : Here(p)' <=> Here(p)
  BY DEF people, Here
<1>3. /\ at = "running" => Here(Form[r].by)
      /\ ~(at = "done" /\ Form[r].op \in CreatingOps)
      /\ at = "running" /\ Form[r].op \in EnrolOps /\ ~Opens(items) => Here(Form[r].person)
      /\ \A s \in items : s[1] \in {"guardian", "ward", "instructor"} => Here(s[2])
  <2>1. CASE items = {} /\ at # "running" /\ ~(at = "done" /\ Form[r].op \in CreatingOps)
    BY <2>1
  <2>2. CASE at = "running" /\ \E t : Fits(r, t) /\ items = Items(t)
    BY <2>2 DEF Fits, FitsPeople
  <2> QED
    BY <2>1, <2>2 DEF Outset
<1>4. "create_staff" \in CreatingOps
  BY DEF CreatingOps
<1>5. ASSUME NEW d \in Request
      PROVE  /\ call'[d].at = "running" => Here(Form[d].by)'
             /\ call'[d].at = "done" /\ Form[d].op \in CreatingOps => Here(Form[d].by)'
             /\ call'[d].at = "running" /\ Form[d].op \in EnrolOps /\ ~Opens(Left(d)')
                  => Here(Form[d].person)'
             /\ call'[d].at = "done" /\ Form[d].op = "create_staff" => Here(Form[d].person)'
             /\ \A s \in Left(d)' : s[1] \in {"guardian", "ward", "instructor"} => Here(s[2])'
  <2>1. CASE d = r
    BY <1>1, <1>2, <1>3, <1>4, <2>1
  <2>2. CASE d # r
    BY <1>1, <1>2, <2>2 DEF Present
  <2> QED
    BY <2>1, <2>2
<1> QED
  BY <1>5 DEF Present

-----------------------------------------------------------------------------
(* A regional administrator is bounded by the regions chosen.              *)

LEMMA PastHere ==
  ASSUME Present, NEW r \in Request, Past(r)
  PROVE  Form[r].person \in Person /\ Here(Form[r].person)
<1>1. Form[r].op \in EnrolOps /\ Form[r].op = "create_staff"
  BY DEF Past, EnrolOps
<1> QED
  BY <1>1, EnrolmentAssumption DEF Past, Present

LEMMA ActsKeepSole ==
  ASSUME PeopleTyped, Present, SoleMaker, NEW r, NEW h, Acts(r, h)
  PROVE  SoleMaker'
<1>1. /\ r \in Request /\ call[r].at = "running" /\ (Ends(r) \/ Goes(r, h))
      /\ \A d \in Request : d # r => Left(d)' = Left(d) /\ call'[d].at = call[d].at
  BY ActsTurns
<1>2. \A d \in Request : d # r => (Past(d)' <=> Past(d))
  BY <1>1 DEF Past
<1>3. ASSUME Past(r)', ~Past(r)  PROVE ~Here(Form[r].person)
  <2>1. Goes(r, h) /\ Opens(Left(r))
    BY <1>1, <1>3 DEF Past, Ends
  <2>2. h[1] = "account"
    BY <2>1, Opened
  <2> QED
    BY <2>1, <2>2 DEF Acts, Quiet, Putting, Opening, Granting, Shelving, Minding, Teaching,
                      Filling, Dropping, Ends, Goes
<1>4. ASSUME NEW d \in Request, d # r, Past(d), Past(r)', Form[r].person = Form[d].person
      PROVE  FALSE
  <2>1. Here(Form[d].person)
    BY <1>4, PastHere
  <2>2. Past(r)
    BY <1>3, <1>4, <2>1
  <2> QED
    BY <1>1, <1>4, <2>2 DEF SoleMaker
<1> QED
  BY <1>1, <1>2, <1>4 DEF SoleMaker

LEMMA OutsetKeepsSole ==
  ASSUME SoleMaker, NEW r, NEW at, NEW items, Outset(r, at, items)
  PROVE  SoleMaker'
<1>1. /\ r \in Request /\ call'[r].at = at /\ Left(r)' = items
      /\ \A d \in Request : d # r => Left(d)' = Left(d) /\ call'[d].at = call[d].at
  BY OutsetTurns
<1>2. \A d \in Request : d # r => (Past(d)' <=> Past(d))
  BY <1>1 DEF Past
<1>3. ~Past(r)'
  BY <1>1 DEF Past, Outset, Fits, FitsPeople, CreatingOps
<1> QED
  BY <1>2, <1>3 DEF SoleMaker

LEMMA GoesActs ==
  ASSUME NEW r, NEW h, Acts(r, h), Goes(r, h)
  PROVE  /\ h[1] = "account" => Opening(r, h)
         /\ h[1] \in Filling \cup Dropping => Putting(r, h)
         /\ h[1] \in {"drop_roles", "grant"} => Granting(r, h)
         /\ h[1] \in {"guardian", "ward"} => Minding(r, h)
         /\ h[1] = "instructor" => Teaching(r, h)
         /\ h[1] # "throw"
<1>1. ~Ends(r)
  BY DEF Ends, Goes
<1>2. CASE Quiet(r, h)
  BY <1>1, <1>2 DEF Quiet, Filling, Dropping
<1>3. CASE Putting(r, h)
  BY <1>3 DEF Putting, Filling, Dropping
<1>4. CASE Opening(r, h)
  BY <1>4 DEF Opening, Filling, Dropping
<1>5. CASE Granting(r, h)
  <2>1. h[1] \in {"drop_roles", "grant"}
    BY <1>5 DEF Granting
  <2> QED
    BY <1>5, <2>1 DEF Filling, Dropping
<1>6. CASE Shelving(r, h) \/ Minding(r, h) \/ Teaching(r, h)
  BY <1>6 DEF Shelving, Minding, Teaching, Filling, Dropping
<1> QED
  BY <1>2, <1>3, <1>4, <1>5, <1>6 DEF Acts

(* Only drop roles and grant touch the roles of somebody who is here.      *)
LEMMA RolesKept ==
  ASSUME PeopleTyped, Present, NEW r, NEW h, Acts(r, h),
         NEW q \in Person, Here(q), ~(Granting(r, h) /\ q = Form[r].person)
  PROVE  user'[q].roles = user[q].roles
<1> DEFINE p == Form[r].person
<1>1. user \in [Person -> Account \cup {None}] /\ user[q] \in Account
  BY HereAccount DEF PeopleTyped
<1>2. CASE UNCHANGED user
  BY <1>2
<1>3. CASE Opening(r, h)
  <2>1. q # p /\ \E k : user' = [user EXCEPT ![p] = k]
    BY <1>3 DEF Opening
  <2> QED
    BY <1>1, <2>1
<1>4. CASE Granting(r, h)
  <2>1. q # p /\ \E k : user' = [user EXCEPT ![p] = k]
    BY <1>4, Zenon DEF Granting
  <2> QED
    BY <1>1, <2>1
<1>5. CASE Shelving(r, h)
  <2>1. user' = [user EXCEPT ![p].archived = h[2]]
    BY <1>5 DEF Shelving
  <2> QED
    BY <1>1, <2>1 DEF Account
<1> QED
  BY <1>2, <1>3, <1>4, <1>5 DEF Acts, Quiet, Putting, Minding, Teaching

LEMMA GrantedFromHead ==
  ASSUME NEW L, NEW M, NEW h, L = {h} \cup M
  PROVE  Granted(L) = IF h[1] = "grant" THEN {h[2]} \cup Granted(M) ELSE Granted(M)
<1>1. ASSUME NEW x  PROVE x \in Granted(L) <=> (h[1] = "grant" /\ x = h[2]) \/ x \in Granted(M)
  BY DEF Granted
<1> QED
  BY <1>1

LEMMA BoundsOf ==
  ASSUME NEW x, NEW ids
  PROVE  Bounds({x} \cup ids) = {<<"regional_admin", x>>} \cup Bounds(ids)
BY DEF Bounds

LEMMA ActsKeepBounding ==
  ASSUME Scripted, PeopleTyped, Present, SoleMaker, Bounding, NEW r, NEW h, Acts(r, h)
  PROVE  Bounding'
<1> DEFINE p == Form[r].person
           drop == <<"drop_roles">>
           L == Left(r)
           M == Left(r)'
<1>1. /\ r \in Request /\ call[r].at = "running" /\ (Ends(r) \/ Goes(r, h))
      /\ \A d \in Request : d # r => Left(d)' = Left(d) /\ call'[d].at = call[d].at
  BY ActsTurns
<1>2. \A d \in Request : d # r => (Past(d)' <=> Past(d))
  BY <1>1 DEF Past
<1>3. Granting(r, h) => Past(r) /\ Form[r].op = "create_staff"
  <2>1. SUFFICES ASSUME Granting(r, h)  PROVE Past(r) /\ Form[r].op = "create_staff"
    OBVIOUS
  <2>2. Goes(r, h) /\ h[1] \in {"drop_roles", "grant"} /\ h[1] \in Tags(Form[r].op)
    BY <2>1 DEF Granting, Goes
  <2>3. Form[r].op = "create_staff"
    BY <2>2 DEF Tags, Filling, Dropping
  <2>4. ~Opens(Left(r))
    BY <2>2, Opened
  <2> QED
    BY <1>1, <2>3, <2>4 DEF Past
<1>4. ASSUME NEW d \in Request, d # r, Regional(d), call[d].at \in {"running", "done"},
             drop \notin Left(d)
      PROVE  Past(d) /\ user'[Form[d].person].roles = user[Form[d].person].roles
  <2>1. Past(d)
    BY <1>4 DEF Bounding
  <2>2. Form[d].person \in Person /\ Here(Form[d].person)
    BY <1>4, <2>1, PastHere
  <2>3. ~(Granting(r, h) /\ Form[d].person = p)
    BY <1>1, <1>3, <1>4, <2>1 DEF SoleMaker
  <2> QED
    BY <2>1, <2>2, <2>3, RolesKept
<1>5. ASSUME Regional(r), Goes(r, h)
      PROVE  IF drop \in M THEN Granted(M) = Form[r].regions
             ELSE /\ Past(r)'
                  /\ user'[p].roles \cup Bounds(Granted(M)) = Bounds(Form[r].regions)
  <2>1. /\ L = {h} \cup M /\ (\A b \in M : Follows(h, b)) /\ h \in Statement
        /\ h[1] \in Tags(Form[r].op) /\ call'[r].at \in {"running", "done"}
    BY <1>5 DEF Goes
  <2>2. Form[r].op = "create_staff"
    BY <1>5 DEF Regional
  <2>3. h[1] \in {"account", "tell", "drop_roles", "grant"} \cup Filling
    BY <2>1, <2>2 DEF Tags
  <2>4. Past(r)'
    <3>1. ~Opens(Left(r)')
      BY <1>5, Opened
    <3> QED
      BY <2>1, <2>2, <3>1 DEF Past
  <2>5. Granted(L) = IF h[1] = "grant" THEN {h[2]} \cup Granted(M) ELSE Granted(M)
    BY <2>1, GrantedFromHead
  <2>6. drop[1] = "drop_roles" /\ (h[1] = "drop_roles" => h = drop)
    BY <2>1, StatementParts DEF Bare
  <2>7. h[1] # "account" => p \in Person /\ Here(p) /\ user[p] \in Account
    BY <1>1, <1>5, <2>3, PersonHere, HereAccount DEF Filling
  <2>8. user \in [Person -> Account \cup {None}]
    BY DEF PeopleTyped
  <2>9. /\ drop \in L => Granted(L) = Form[r].regions
        /\ drop \notin L => /\ Past(r)
                            /\ user[p].roles \cup Bounds(Granted(L)) = Bounds(Form[r].regions)
    BY <1>1, <1>5 DEF Bounding
  <2> HIDE DEF L, M, drop
  <2>10. CASE h = drop
    <3>1. drop \notin M
      BY <2>1, <2>6, <2>10 DEF Follows
    <3>2. Granted(M) = Form[r].regions
      BY <2>1, <2>5, <2>6, <2>9, <2>10
    <3>3. user'[p].roles = {}
      <4>1. user' = [user EXCEPT ![p].roles = {}]
        BY <1>5, <2>6, <2>10, GoesActs DEF Granting
      <4> HIDE DEF p
      <4> QED
        BY <2>6, <2>7, <2>8, <2>10, <4>1 DEF Account
    <3> QED
      BY <2>4, <3>1, <3>2, <3>3
  <2>11. CASE h # drop /\ drop \in M
    <3>1. h[1] # "grant"
      BY <2>1, <2>6, <2>11 DEF Follows
    <3> QED
      BY <2>1, <2>5, <2>9, <2>11, <3>1
  <2>12. CASE h # drop /\ drop \notin M /\ h[1] = "grant"
    <3> DEFINE g == <<"regional_admin", h[2]>>
    <3>1. drop \notin L
      BY <2>1, <2>12
    <3>2. user'[p].roles = user[p].roles \cup {g}
      <4>1. user' = [user EXCEPT ![p].roles = @ \cup {g}]
        BY <1>5, <2>12, GoesActs DEF Granting
      <4> HIDE DEF p, g
      <4> QED
        BY <2>7, <2>8, <2>12, <4>1 DEF Account
    <3>3. Bounds(Granted(L)) = {g} \cup Bounds(Granted(M))
      BY <2>5, <2>12, BoundsOf
    <3> HIDE DEF g
    <3> QED
      BY <2>4, <2>9, <2>12, <3>1, <3>2, <3>3
  <2>13. CASE h # drop /\ drop \notin M /\ h[1] # "grant"
    <3>1. drop \notin L /\ Granted(M) = Granted(L)
      BY <2>1, <2>5, <2>13
    <3>2. h[1] # "account"
      BY <2>1, <2>9, <3>1 DEF Past, Opens, L
    <3>3. ~Granting(r, h)
      BY <2>6, <2>13 DEF Granting
    <3>4. user'[p].roles = user[p].roles
      BY <2>7, <3>2, <3>3, RolesKept
    <3> QED
      BY <2>4, <2>9, <2>13, <3>1, <3>4
  <2> QED
    BY <2>10, <2>11, <2>12, <2>13
<1>6. ASSUME NEW d \in Request, Regional(d), call'[d].at \in {"running", "done"}
      PROVE  IF drop \in Left(d)' THEN Granted(Left(d)') = Form[d].regions
             ELSE /\ Past(d)'
                  /\ user'[Form[d].person].roles \cup Bounds(Granted(Left(d)'))
                       = Bounds(Form[d].regions)
  <2>1. CASE d = r
    <3>1. Goes(r, h)
      BY <1>1, <1>6, <2>1 DEF Ends
    <3> QED
      BY <1>5, <1>6, <2>1, <3>1
  <2>2. CASE d # r
    <3>1. call[d].at \in {"running", "done"} /\ Left(d)' = Left(d)
      BY <1>1, <1>6, <2>2
    <3>2. CASE drop \in Left(d)
      BY <1>6, <3>1, <3>2 DEF Bounding
    <3>3. CASE drop \notin Left(d)
      <4>1. Past(d)' /\ user'[Form[d].person].roles = user[Form[d].person].roles
        BY <1>2, <1>4, <1>6, <2>2, <3>1, <3>3
      <4>2. user[Form[d].person].roles \cup Bounds(Granted(Left(d))) = Bounds(Form[d].regions)
        BY <1>6, <3>1, <3>3 DEF Bounding
      <4> QED
        BY <3>1, <3>3, <4>1, <4>2
    <3> QED
      BY <3>2, <3>3
  <2> QED
    BY <2>1, <2>2
<1> QED
  BY <1>6 DEF Bounding, Regional

LEMMA OutsetKeepsBounding ==
  ASSUME Bounding, NEW r, NEW at, NEW items, Outset(r, at, items), UNCHANGED people
  PROVE  Bounding'
<1> DEFINE drop == <<"drop_roles">>
<1>1. /\ r \in Request /\ call'[r].at = at /\ Left(r)' = items
      /\ \A d \in Request : d # r => Left(d)' = Left(d) /\ call'[d].at = call[d].at
  BY OutsetTurns
<1>2. user' = user
  BY DEF people
<1>3. \A d \in Request : d # r => (Past(d)' <=> Past(d))
  BY <1>1 DEF Past
<1>4. ASSUME Regional(r), at \in {"running", "done"}
      PROVE  drop \in items /\ Granted(items) = Form[r].regions
  <2>1. Form[r].op \in CreatingOps
    BY <1>4 DEF Regional, CreatingOps
  <2>2. PICK t : Fits(r, t) /\ items = Items(t)
    BY <1>4, <2>1 DEF Outset
  <2> QED
    BY <1>4, <2>2 DEF Fits, FitsPeople
<1> HIDE DEF drop
<1>5. ASSUME NEW d \in Request, Regional(d), call'[d].at \in {"running", "done"}
      PROVE  IF drop \in Left(d)' THEN Granted(Left(d)') = Form[d].regions
             ELSE /\ Past(d)'
                  /\ user'[Form[d].person].roles \cup Bounds(Granted(Left(d)'))
                       = Bounds(Form[d].regions)
  <2>1. CASE d = r
    BY <1>1, <1>4, <1>5, <2>1
  <2>2. CASE d # r
    BY <1>1, <1>2, <1>3, <1>5, <2>2 DEF Bounding, drop
  <2> QED
    BY <2>1, <2>2
<1> QED
  BY <1>5 DEF Bounding, Regional, drop

-----------------------------------------------------------------------------
(* Whoever was created to the end has what the form named.                 *)

LEMMA AdminNotGained ==
  ASSUME PeopleTyped, Present, NEW r, NEW h, Acts(r, h),
         NEW q \in Person, Here(q), HasRole(q, "admin")'
  PROVE  HasRole(q, "admin")
<1>1. user[q] \in Account
  BY HereAccount
<1>2. \A grant \in user'[q].roles : grant[1] = "admin" => grant \in user[q].roles
  <2>1. CASE ~(Granting(r, h) /\ q = Form[r].person)
    <3>1. user'[q].roles = user[q].roles
      BY <2>1, RolesKept
    <3> QED
      BY <3>1
  <2>2. CASE Granting(r, h) /\ q = Form[r].person
    <3>1. user \in [Person -> Account \cup {None}]
      BY DEF PeopleTyped
    <3> DEFINE g == <<"regional_admin", h[2]>>
    <3>2. g[1] # "admin"
      OBVIOUS
    <3>3. \/ user' = [user EXCEPT ![q].roles = {}]
          \/ user' = [user EXCEPT ![q].roles = @ \cup {g}]
      BY <2>2 DEF Granting
    <3> HIDE DEF g
    <3>4. user'[q].roles \subseteq user[q].roles \cup {g}
      BY <1>1, <3>1, <3>3 DEF Account
    <3> QED
      BY <3>2, <3>4
  <2> QED
    BY <2>1, <2>2
<1>3. PICK grant \in user'[q].roles : grant[1] = "admin"
  BY DEF HasRole, Roles
<1> QED
  BY <1>2, <1>3 DEF HasRole, Roles

LEMMA LinksGrow ==
  ASSUME NEW r, NEW h, Acts(r, h)
  PROVE  guardians \subseteq guardians' /\ teaches \subseteq teaches'
<1>1. CASE Minding(r, h)
  BY <1>1 DEF Minding
<1>2. CASE Teaching(r, h)
  BY <1>2 DEF Teaching
<1>3. CASE UNCHANGED <<guardians, teaches>>
  BY <1>3
<1> QED
  BY <1>1, <1>2, <1>3 DEF Acts, Quiet, Putting, Opening, Granting, Shelving

LEMMA StudentStays ==
  ASSUME NEW r, NEW h, Acts(r, h), NEW d \in Request, StudentWhole(d),
         d # r \/ Goes(r, h)
  PROVE  StudentWhole(d)'
<1> DEFINE f == Form[d]
           g == <<"guardian", f.guardian, TRUE>>
<1>1. guardians \subseteq guardians' /\ teaches \subseteq teaches'
  BY LinksGrow
<1>2. CASE d # r
  <2>1. Left(d)' = Left(d)
    BY <1>2, ActsTurns
  <2>2. f.guardian # None =>
          \/ g \in Left(d)'
          \/ \E l \in guardians' :
               l.guardian = f.guardian /\ l.student = f.person /\ l.primary
    BY <1>1, <2>1 DEF StudentWhole
  <2>3. \A i \in ToSet(f.instructors) :
          <<i, f.person>> \in teaches' \/ Pending_(d, {"instructor", "throw"}, i)'
    BY <1>1, <2>1 DEF StudentWhole, Pending_
  <2> QED
    BY <2>2, <2>3 DEF StudentWhole
<1>3. CASE d = r /\ Goes(r, h)
  <2>1. Left(r) = {h} \cup Left(r)'
    BY <1>3 DEF Goes
  <2>2. f.guardian # None =>
          \/ g \in Left(r)'
          \/ \E l \in guardians' :
               l.guardian = f.guardian /\ l.student = f.person /\ l.primary
    <3>1. CASE g = h
      <4> DEFINE l == [guardian |-> f.guardian, student |-> f.person, primary |-> TRUE]
      <4>1. h[1] = "guardian" /\ h[2] = f.guardian /\ h[3] = TRUE
        BY <3>1
      <4>2. Minding(r, h)
        BY <1>3, <4>1, GoesActs
      <4>3. guardians' = guardians \cup {l}
        BY <1>3, <4>1, <4>2 DEF Minding
      <4> HIDE DEF g
      <4>4. l \in guardians' /\ l.guardian = f.guardian /\ l.student = f.person /\ l.primary
        BY <4>3
      <4> QED
        BY <4>4
    <3>2. CASE g # h
      BY <1>1, <1>3, <2>1, <3>2 DEF StudentWhole
    <3> QED
      BY <3>1, <3>2
  <2>3. ASSUME NEW i \in ToSet(f.instructors)
        PROVE  <<i, f.person>> \in teaches' \/ Pending_(r, {"instructor", "throw"}, i)'
    <3>1. CASE h[1] \in {"instructor", "throw"} /\ h[2] = i
      <4>1. Teaching(r, h)
        BY <1>3, <3>1, GoesActs
      <4> QED
        BY <1>3, <3>1, <4>1 DEF Teaching
    <3>2. CASE ~(h[1] \in {"instructor", "throw"} /\ h[2] = i)
      <4>1. <<i, f.person>> \in teaches \/ Pending_(r, {"instructor", "throw"}, i)
        BY <1>3, <2>3 DEF StudentWhole
      <4> QED
        BY <1>1, <2>1, <3>2, <4>1 DEF Pending_
    <3> QED
      BY <3>1, <3>2
  <2> QED
    BY <1>3, <2>2, <2>3 DEF StudentWhole
<1> QED
  BY <1>2, <1>3

LEMMA GuardianStays ==
  ASSUME NEW r, NEW h, Acts(r, h), NEW d \in Request, GuardianWhole(d),
         d # r \/ Goes(r, h)
  PROVE  GuardianWhole(d)'
<1> DEFINE f == Form[d]
<1>1. guardians \subseteq guardians'
  BY LinksGrow
<1>2. ASSUME NEW i \in ToSet(f.students)
      PROVE  \/ Pending_(d, {"ward", "throw"}, i)'
             \/ \E l \in guardians' : l.guardian = f.person /\ l.student = i
  <2>1. \/ Pending_(d, {"ward", "throw"}, i)
        \/ \E l \in guardians : l.guardian = f.person /\ l.student = i
    BY <1>2 DEF GuardianWhole
  <2>2. CASE d # r
    <3>1. Left(d)' = Left(d)
      BY <2>2, ActsTurns
    <3> QED
      BY <1>1, <2>1, <3>1 DEF Pending_
  <2>3. CASE d = r /\ Goes(r, h) /\ h[1] \in {"ward", "throw"} /\ h[2] = i
    <3> DEFINE l == [guardian |-> f.person, student |-> i, primary |-> h[3]]
    <3>1. Minding(r, h) /\ h[1] = "ward"
      BY <2>3, GoesActs
    <3>2. guardians' = guardians \cup {l}
      BY <2>3, <3>1 DEF Minding
    <3>3. l \in guardians' /\ l.guardian = f.person /\ l.student = i
      BY <3>2
    <3> QED
      BY <3>3
  <2>4. CASE d = r /\ Goes(r, h) /\ ~(h[1] \in {"ward", "throw"} /\ h[2] = i)
    <3>1. Left(r) = {h} \cup Left(r)'
      BY <2>4 DEF Goes
    <3> QED
      BY <1>1, <2>1, <2>4, <3>1 DEF Pending_
  <2> QED
    BY <2>2, <2>3, <2>4
<1> QED
  BY <1>2 DEF GuardianWhole

LEMMA ActsKeepWhole ==
  ASSUME PeopleTyped, Present, Whole, NEW r, NEW h, Acts(r, h)
  PROVE  Whole'
<1>1. /\ r \in Request /\ call[r].at = "running" /\ (Ends(r) \/ Goes(r, h))
      /\ \A d \in Request : d # r => Left(d)' = Left(d) /\ call'[d].at = call[d].at
  BY ActsTurns
<1>2. ASSUME NEW d \in Request, call'[d].at \in {"running", "done"},
             HasRole(Form[d].by, "admin")', Form[d].op \in CreatingOps
      PROVE  /\ call[d].at \in {"running", "done"} /\ HasRole(Form[d].by, "admin")
             /\ d # r \/ Goes(r, h)
  <2>1. call[d].at \in {"running", "done"} /\ (d # r \/ Goes(r, h))
    BY <1>1, <1>2 DEF Ends
  <2>2. Form[d].by \in Person /\ Here(Form[d].by)
    BY <1>2, <2>1, EnrolmentAssumption DEF Present
  <2> QED
    BY <1>2, <2>1, <2>2, AdminNotGained
<1>3. ASSUME NEW d \in Request, call'[d].at \in {"running", "done"},
             HasRole(Form[d].by, "admin")', Form[d].op = "create_student"
      PROVE  StudentWhole(d)'
  <2>1. Form[d].op \in CreatingOps
    BY <1>3 DEF CreatingOps
  <2>2. StudentWhole(d) /\ (d # r \/ Goes(r, h))
    BY <1>2, <1>3, <2>1 DEF Whole
  <2> QED
    BY <2>2, StudentStays
<1>4. ASSUME NEW d \in Request, call'[d].at \in {"running", "done"},
             HasRole(Form[d].by, "admin")', Form[d].op = "create_guardian"
      PROVE  GuardianWhole(d)'
  <2>1. Form[d].op \in CreatingOps
    BY <1>4 DEF CreatingOps
  <2>2. GuardianWhole(d) /\ (d # r \/ Goes(r, h))
    BY <1>2, <1>4, <2>1 DEF Whole
  <2> QED
    BY <2>2, GuardianStays
<1> QED
  BY <1>3, <1>4 DEF Whole

LEMMA OutsetKeepsWhole ==
  ASSUME Whole, NEW r, NEW at, NEW items, Outset(r, at, items), UNCHANGED people
  PROVE  Whole'
<1>1. /\ r \in Request /\ call'[r].at = at /\ Left(r)' = items
      /\ \A d \in Request : d # r => Left(d)' = Left(d) /\ call'[d].at = call[d].at
  BY OutsetTurns
<1>2. user' = user /\ guardians' = guardians /\ teaches' = teaches
  BY DEF people
<1>3. \A d : HasRole(Form[d].by, "admin")' <=> HasRole(Form[d].by, "admin")
  BY <1>2 DEF HasRole, Here, Roles
<1>4. ASSUME NEW d \in Request, d # r
      PROVE  /\ StudentWhole(d) => StudentWhole(d)'
             /\ GuardianWhole(d) => GuardianWhole(d)'
  <2>1. Left(d)' = Left(d)
    BY <1>1, <1>4
  <2>2. StudentWhole(d) => StudentWhole(d)'
    BY <1>2, <2>1 DEF StudentWhole, Pending_
  <2>3. GuardianWhole(d) => GuardianWhole(d)'
    BY <1>2, <2>1 DEF GuardianWhole, Pending_
  <2> QED
    BY <2>2, <2>3
<1>5. ASSUME at \in {"running", "done"}, HasRole(Form[r].by, "admin"),
             Form[r].op \in CreatingOps
      PROVE  Names(r, items)
  <2>1. PICK t : Fits(r, t) /\ items = Items(t)
    BY <1>5 DEF Outset
  <2> QED
    BY <1>5, <2>1 DEF Fits, FitsPeople
<1>6. ASSUME at \in {"running", "done"}, HasRole(Form[r].by, "admin"),
             Form[r].op = "create_student"
      PROVE  StudentWhole(r)'
  <2>1. Names(r, items)
    BY <1>5, <1>6 DEF CreatingOps
  <2> QED
    BY <1>1, <1>6, <2>1 DEF Names, StudentWhole, Pending_
<1>7. ASSUME at \in {"running", "done"}, HasRole(Form[r].by, "admin"),
             Form[r].op = "create_guardian"
      PROVE  GuardianWhole(r)'
  <2>1. Names(r, items)
    BY <1>5, <1>7 DEF CreatingOps
  <2> QED
    BY <1>1, <1>7, <2>1 DEF Names, GuardianWhole, Pending_
<1>8. ASSUME NEW d \in Request, call'[d].at \in {"running", "done"},
             HasRole(Form[d].by, "admin")'
      PROVE  /\ Form[d].op = "create_student" => StudentWhole(d)'
             /\ Form[d].op = "create_guardian" => GuardianWhole(d)'
  <2>1. CASE d = r
    BY <1>1, <1>3, <1>6, <1>7, <1>8, <2>1
  <2>2. CASE d # r
    BY <1>1, <1>3, <1>4, <1>8, <2>2 DEF Whole
  <2> QED
    BY <2>1, <2>2
<1> QED
  BY <1>8 DEF Whole

-----------------------------------------------------------------------------
(* Where somebody is placed and where they are to be.                      *)

Placement == [schools : SUBSET School, districts : SUBSET District,
              regions : SUBSET Region]

LEMMA IdsFromHead ==
  ASSUME NEW M, NEW h, NEW tag
  PROVE  Ids({h} \cup M, tag) = IF h[1] = tag THEN {h[2]} \cup Ids(M, tag) ELSE Ids(M, tag)
<1>1. ASSUME NEW x
      PROVE  x \in Ids({h} \cup M, tag) <=> (h[1] = tag /\ x = h[2]) \/ x \in Ids(M, tag)
  BY DEF Ids
<1> QED
  BY <1>1

LEMMA KindKept ==
  ASSUME NEW h \in Statement, NEW M \in SUBSET Statement, \A b \in M : Follows(h, b),
         NEW fill \in Filling, NEW drop \in Dropping, NEW ids,
         Kept({h} \cup M, drop, ids) \cap Ids({h} \cup M, fill) = {}
  PROVE  /\ Kept(M, drop, After(h, fill, drop, ids)) \cup Ids(M, fill)
              = Kept({h} \cup M, drop, ids) \cup Ids({h} \cup M, fill)
         /\ Kept(M, drop, After(h, fill, drop, ids)) \cap Ids(M, fill) = {}
         /\ h[1] = fill => h[2] \notin ids
<1> DEFINE L == {h} \cup M
           now == After(h, fill, drop, ids)
<1>1. fill # drop /\ <<drop>>[1] = drop
  BY DEF Filling, Dropping
<1>2. Ids(L, fill) = IF h[1] = fill THEN {h[2]} \cup Ids(M, fill) ELSE Ids(M, fill)
  BY IdsFromHead
<1>3. CASE h[1] = fill
  <2>1. <<drop>> \notin M /\ <<drop>> # h
    BY <1>1, <1>3 DEF Follows
  <2>2. Kept(L, drop, ids) = ids /\ Kept(M, drop, now) = now /\ now = ids \cup {h[2]}
    BY <1>1, <1>3, <2>1 DEF Kept, After
  <2>3. h[2] \notin Ids(M, fill)
    <3>1. ASSUME NEW s \in M, s[1] = fill, s[2] = h[2]  PROVE FALSE
      <4>1. s = <<fill, h[2]>> /\ h = <<fill, h[2]>>
        BY <1>3, <3>1, StatementParts DEF Filling
      <4>2. s # h
        BY <1>3, <3>1 DEF Follows
      <4> QED
        BY <4>1, <4>2
    <3> QED
      BY <3>1 DEF Ids
  <2> QED
    BY <1>2, <1>3, <2>2, <2>3
<1>4. CASE h[1] = drop
  <2>1. h = <<drop>>
    BY <1>4, StatementParts DEF Dropping, Bare
  <2>2. Kept(L, drop, ids) = {} /\ now = {} /\ Kept(M, drop, now) = {}
    BY <1>1, <1>4, <2>1 DEF Kept, After
  <2> QED
    BY <1>1, <1>2, <1>4, <2>2
<1>5. CASE h[1] # fill /\ h[1] # drop
  <2>1. now = ids /\ h # <<drop>>
    BY <1>1, <1>5 DEF After
  <2>2. Kept(L, drop, ids) = Kept(M, drop, now)
    BY <2>1 DEF Kept
  <2> QED
    BY <1>2, <1>5, <2>2
<1> QED
  BY <1>3, <1>4, <1>5

LEMMA ComingKept ==
  ASSUME NEW h \in Statement, NEW M \in SUBSET Statement, \A b \in M : Follows(h, b),
         NEW x \in Placement, Fresh(x, {h} \cup M)
  PROVE  /\ Coming(Put(x, h), M) = Coming(x, {h} \cup M) /\ Fresh(Put(x, h), M)
         /\ ~There(x, h)
<1> DEFINE L == {h} \cup M
           s == After(h, "school", "drop_schools", x.schools)
           d == After(h, "district", "drop_districts", x.districts)
           g == After(h, "region", "drop_regions", x.regions)
<1>1. /\ Kept(L, "drop_schools", x.schools) \cap Ids(L, "school") = {}
      /\ Kept(L, "drop_districts", x.districts) \cap Ids(L, "district") = {}
      /\ Kept(L, "drop_regions", x.regions) \cap Ids(L, "region") = {}
  BY DEF Fresh
<1>2. /\ Kept(M, "drop_schools", s) \cup Ids(M, "school")
           = Kept(L, "drop_schools", x.schools) \cup Ids(L, "school")
      /\ Kept(M, "drop_schools", s) \cap Ids(M, "school") = {}
      /\ h[1] = "school" => h[2] \notin x.schools
  <2>1. "school" \in Filling /\ "drop_schools" \in Dropping
    BY DEF Filling, Dropping
  <2> QED
    BY <1>1, <2>1, KindKept
<1>3. /\ Kept(M, "drop_districts", d) \cup Ids(M, "district")
           = Kept(L, "drop_districts", x.districts) \cup Ids(L, "district")
      /\ Kept(M, "drop_districts", d) \cap Ids(M, "district") = {}
      /\ h[1] = "district" => h[2] \notin x.districts
  <2>1. "district" \in Filling /\ "drop_districts" \in Dropping
    BY DEF Filling, Dropping
  <2> QED
    BY <1>1, <2>1, KindKept
<1>4. /\ Kept(M, "drop_regions", g) \cup Ids(M, "region")
           = Kept(L, "drop_regions", x.regions) \cup Ids(L, "region")
      /\ Kept(M, "drop_regions", g) \cap Ids(M, "region") = {}
      /\ h[1] = "region" => h[2] \notin x.regions
  <2>1. "region" \in Filling /\ "drop_regions" \in Dropping
    BY DEF Filling, Dropping
  <2> QED
    BY <1>1, <2>1, KindKept
<1>5. Put(x, h).schools = s /\ Put(x, h).districts = d /\ Put(x, h).regions = g
  BY DEF Put
<1> HIDE DEF s, d, g, L
<1>6. Coming(Put(x, h), M) = Coming(x, L)
  BY <1>2, <1>3, <1>4, <1>5 DEF Coming
<1>7. Fresh(Put(x, h), M)
  BY <1>2, <1>3, <1>4, <1>5 DEF Fresh
<1>8. ~There(x, h)
  BY <1>2, <1>3, <1>4 DEF There
<1> QED
  BY <1>6, <1>7, <1>8 DEF L

LEMMA PutSame ==
  ASSUME NEW x \in Placement, NEW h, h[1] \notin Filling \cup Dropping
  PROVE  Put(x, h) = x
BY DEF Put, After, Filling, Dropping, Placement

LEMMA ComingThrough ==
  ASSUME NEW x \in Placement
  PROVE  Coming(x, {}) = x
<1>1. /\ Kept({}, "drop_schools", x.schools) = x.schools /\ Ids({}, "school") = {}
      /\ Kept({}, "drop_districts", x.districts) = x.districts /\ Ids({}, "district") = {}
      /\ Kept({}, "drop_regions", x.regions) = x.regions /\ Ids({}, "region") = {}
  BY DEF Kept, Ids
<1> QED
  BY <1>1 DEF Coming, Placement

LEMMA HeadingStep ==
  ASSUME NEW op, NEW h \in Statement, NEW M \in SUBSET Statement,
         \A b \in M : Follows(h, b), \A s \in {h} \cup M : s[1] \in Tags(op),
         NEW x \in Placement, Heading({h} \cup M, x), h[1] = "account" => x = Nowhere
  PROVE  Heading(M, Put(x, h)) /\ (h[1] # "account" => ~There(x, h))
<1> DEFINE L == {h} \cup M
           y == Put(x, h)
<1>1. ~Opens(M)
  BY DEF Opens, Follows
<1>2. CASE h[1] = "account"
  <2>1. x = Nowhere /\ y = x /\ Coherent(y)
    <3>1. h[1] \notin Filling \cup Dropping
      BY <1>2 DEF Filling, Dropping
    <3>2. y = x
      BY <3>1, PutSame
    <3> QED
      BY <1>2, <3>2 DEF Coherent, Nowhere
  <2>2. Coherent(Filled(L))
    BY <1>2 DEF Heading, Opens
  <2>3. Ids(L, "school") = Ids(M, "school") /\ Ids(L, "district") = Ids(M, "district")
        /\ Ids(L, "region") = Ids(M, "region")
    <3>1. \A tag : Ids(L, tag) = IF h[1] = tag THEN {h[2]} \cup Ids(M, tag) ELSE Ids(M, tag)
      BY IdsFromHead
    <3> HIDE DEF L
    <3> QED
      BY <1>2, <3>1
  <2>4. /\ Kept(M, "drop_schools", y.schools) = {}
        /\ Kept(M, "drop_districts", y.districts) = {}
        /\ Kept(M, "drop_regions", y.regions) = {}
    BY <2>1 DEF Kept, Nowhere
  <2> HIDE DEF L, y
  <2>5. Coming(y, M) = Filled(L) /\ Fresh(y, M)
    BY <2>3, <2>4 DEF Coming, Filled, Fresh
  <2> QED
    BY <1>1, <1>2, <2>1, <2>2, <2>5 DEF Heading, L, y
<1>3. CASE h[1] # "account"
  <2>1. ~Opens(L)
    BY <1>1, <1>3 DEF Opens
  <2>2. Coherent(Coming(x, L)) /\ Fresh(x, L)
        /\ ((\E s \in L : s[1] \in Failing) => Coherent(x))
    BY <2>1 DEF Heading
  <2>3. Coming(y, M) = Coming(x, L) /\ Fresh(y, M) /\ ~There(x, h)
    BY <2>2, ComingKept
  <2>4. ASSUME NEW s \in M, s[1] \in Failing  PROVE Coherent(y)
    <3>1. CASE h[1] \notin Filling \cup Dropping
      <4>1. y = x
        BY <3>1, PutSame
      <4> QED
        BY <2>2, <2>4, <4>1
    <3>2. CASE h[1] \in Filling \cup Dropping
      <4>1. s[1] \notin {"account", "instructor", "throw"}
        BY <2>4, <3>2 DEF Follows
      <4>2. s[1] \in {"join", "leave", "insert"} /\ s[1] \in Tags(op) /\ h[1] \in Tags(op)
        BY <2>4, <4>1 DEF Failing
      <4> QED
        BY <3>2, <4>2 DEF Tags, Filling, Dropping
    <3> QED
      BY <3>1, <3>2
  <2> QED
    BY <1>1, <1>3, <2>2, <2>3, <2>4 DEF Heading
<1> QED
  BY <1>2, <1>3

(* A statement puts its row where its request is about, and nowhere else.  *)
LEMMA ActsPut ==
  ASSUME PeopleTyped, Present, NEW r, NEW h, Acts(r, h)
  PROVE  /\ \A q \in Person : q # Form[r].person => placed'[q] = placed[q]
         /\ Ends(r) => placed' = placed
         /\ Goes(r, h) /\ Form[r].person \in Person =>
              placed'[Form[r].person] = Put(placed[Form[r].person], h)
<1> DEFINE p == Form[r].person
           x == placed[p]
<1>1. placed \in [Person -> Placement]
  BY DEF PeopleTyped, Placement
<1>2. CASE Putting(r, h)
  <2>1. ~Ends(r)
    BY <1>2 DEF Putting, Ends, Goes
  <2>2. placed' = [placed EXCEPT ![p] = Put(@, h)]
    BY <1>2 DEF Putting
  <2> QED
    BY <1>1, <2>1, <2>2
<1>3. CASE ~Putting(r, h)
  <2>1. UNCHANGED placed
    BY <1>3 DEF Acts, Quiet, Opening, Granting, Shelving, Minding, Teaching
  <2>2. Goes(r, h) /\ p \in Person => Put(x, h) = x
    <3>1. SUFFICES ASSUME Goes(r, h), p \in Person  PROVE Put(x, h) = x
      OBVIOUS
    <3>2. h[1] \notin Filling \cup Dropping
      BY <1>3, <3>1, GoesActs
    <3> QED
      BY <1>1, <3>1, <3>2, PutSame
  <2> QED
    BY <2>1, <2>2
<1> QED
  BY <1>2, <1>3

LEMMA ActsKeepCohering ==
  ASSUME Scripted, Acquainted, PeopleTyped, PeopleTyped', Present, Cohering,
         NEW r \in Running, NEW h, h = Head(call[r].todo), Acts(r, h)
  PROVE  Cohering'
<1> DEFINE p == Form[r].person
           x == placed[p]
           rest == Items(Tail(call[r].todo))
<1>1. /\ r \in Request /\ Turns(r) /\ (Ends(r) \/ Goes(r, h)) /\ call[r].at = "running"
      /\ \A d \in Request : d # r =>
           /\ Left(d)' = Left(d) /\ call'[d].at = call[d].at
           /\ d \in Running' <=> d \in Running
  BY ActsTurns
<1>2. \A d \in Request : call'[d].met = call[d].met
  BY <1>1 DEF Turns
<1>3. call'[r].at \in {"running", "done", "failed", "dead"}
  BY <1>1 DEF Ends, Goes
<1>4. \A q : About(q)' = About(q)
  BY <1>1, <1>3 DEF About
<1>5. ASSUME NEW q \in Person, Alone(q)'  PROVE Alone(q)
  BY <1>1, <1>2, <1>4, <1>5 DEF Alone, About
<1>6. /\ h \in Statement /\ Left(r) = {h} \cup rest /\ h \in Left(r)
      /\ rest \in SUBSET Statement /\ \A b \in rest : Follows(h, b)
      /\ \A s \in Left(r) : s[1] \in Tags(Form[r].op)
  <2>1. /\ h \in Statement /\ Left(r) = {h} \cup rest /\ h \in Left(r)
        /\ Tail(call[r].todo) \in Seq(Statement) /\ \A b \in rest : Follows(h, b)
    BY ScriptedHead
  <2>2. \A s \in Left(r) : s[1] \in Tags(Form[r].op)
    BY DEF Scripted
  <2> QED
    BY <2>1, <2>2, ElementOfSeq, LenProperties DEF Items
<1> HIDE DEF rest
<1>7. ASSUME NEW q \in Person, Alone(q)', q # p
      PROVE  /\ (\A d \in About(q)' : d \notin Running') => Coherent(placed'[q])
             /\ \A d \in About(q)' : d \in Running' => Heading(Left(d)', placed'[q])
  <2>1. placed'[q] = placed[q]
    BY <1>7, ActsPut
  <2>2. \A d \in About(q) : d \in Request /\ d # r
    BY <1>7 DEF About
  <2>3. \A d \in About(q) : Left(d)' = Left(d) /\ (d \in Running' <=> d \in Running)
    BY <1>1, <2>2
  <2>4. /\ (\A d \in About(q) : d \notin Running) => Coherent(placed[q])
        /\ \A d \in About(q) : d \in Running => Heading(Left(d), placed[q])
    BY <1>5, <1>7 DEF Cohering
  <2> QED
    BY <1>4, <2>1, <2>3, <2>4
<1>8. ASSUME p \in Person, Alone(p)'
      PROVE  /\ (\A d \in About(p)' : d \notin Running') => Coherent(placed'[p])
             /\ \A d \in About(p)' : d \in Running' => Heading(Left(d)', placed'[p])
  <2>1. r \in About(p) /\ Alone(p)
    BY <1>1, <1>5, <1>8 DEF About
  <2>2. \A d \in About(p) : d # r => d \notin Running
    <3>1. \A d \in About(p) : d # r => d \notin call[r].met
      BY <2>1 DEF Alone
    <3> QED
      BY <3>1 DEF Acquainted
  <2>3. \A d \in About(p)' : d # r => d \notin Running'
    BY <1>1, <1>4, <2>2 DEF About
  <2>4. Heading({h} \cup rest, x)
    BY <1>6, <1>8, <2>1 DEF Cohering
  <2>5. x \in Placement
    BY <1>8 DEF PeopleTyped, Placement
  <2>6. CASE Ends(r)
    <3>1. call'[r].at = "failed" /\ r \notin Running'
      BY <1>4, <1>8, <2>1, <2>6 DEF Ends, Alone, Running
    <3>2. placed' = placed
      BY <2>6, ActsPut
    <3>3. h[1] \in Failing \/ There(x, h)
      <4>1. ~Goes(r, h)
        BY <2>6 DEF Ends, Goes
      <4> QED
        BY <3>1, <4>1 DEF Acts, Quiet, Putting, Opening, Granting, Shelving, Minding, Teaching
    <3>4. Coherent(x)
      <4>1. CASE h[1] \in Failing
        BY <2>4, <4>1 DEF Heading
      <4>2. CASE There(x, h)
        <5>1. h[1] # "account"
          BY <4>2 DEF There
        <5>2. \A s \in {h} \cup rest : s[1] \in Tags(Form[r].op)
          BY <1>6
        <5>3. ~There(x, h)
          BY <1>6, <2>4, <2>5, <5>1, <5>2, HeadingStep
        <5> QED
          BY <4>2, <5>3
      <4> QED
        BY <3>3, <4>1, <4>2
    <3> QED
      BY <2>3, <3>1, <3>2, <3>4
  <2>7. CASE Goes(r, h)
    <3> DEFINE M == Left(r)'
               y == placed'[p]
    <3>1. /\ Left(r) = {h} \cup M /\ (\A b \in M : Follows(h, b))
          /\ call'[r].at \in {"running", "done"}
      BY <2>7 DEF Goes
    <3>2. M \in SUBSET Statement
      BY <1>6, <3>1
    <3>3. y = Put(x, h)
      BY <1>8, <2>7, ActsPut
    <3>4. h[1] = "account" => x = Nowhere
      <4>1. h[1] = "account" => ~Here(p)
        BY <2>7, GoesActs DEF Opening
      <4> QED
        BY <1>8, <4>1 DEF PeopleTyped
    <3>5. Heading({h} \cup M, x) /\ \A s \in {h} \cup M : s[1] \in Tags(Form[r].op)
      BY <1>6, <2>4, <3>1
    <3> HIDE DEF M
    <3>6. Heading(M, y)
      BY <1>6, <2>5, <3>1, <3>2, <3>3, <3>4, <3>5, HeadingStep
    <3>7. CASE call'[r].at = "running"
      <4>1. r \in Running' /\ r \in About(p)'
        BY <1>1, <1>4, <2>1, <3>7 DEF Running
      <4> QED
        BY <2>3, <3>6, <4>1 DEF M
    <3>8. CASE call'[r].at = "done"
      <4>1. r \notin Running' /\ M = {}
        BY <3>8 DEF Running, Left, M
      <4>2. y \in Placement
        BY <1>8 DEF PeopleTyped, Placement
      <4>3. Coherent(y)
        BY <3>6, <4>1, <4>2, ComingThrough DEF Heading, Opens
      <4> QED
        BY <2>3, <4>1, <4>3
    <3> QED
      BY <3>1, <3>7, <3>8
  <2> QED
    BY <1>1, <2>6, <2>7
<1>9. ASSUME NEW q \in Person, Alone(q)'
      PROVE  /\ (\A d \in About(q)' : d \notin Running') => Coherent(placed'[q])
             /\ \A d \in About(q)' : d \in Running' => Heading(Left(d)', placed'[q])
  BY <1>7, <1>8, <1>9
<1> QED
  BY <1>9 DEF Cohering

LEMMA FitsHeading ==
  ASSUME NEW r, NEW t, FitsPeople(r, t), NEW items, items = Items(t),
         NEW x \in Placement, Coherent(x)
  PROVE  Heading(items, x)
<1>1. /\ Coherent(Filled(items))
      /\ \/ Opens(items)
         \/ \A what \in Dropping : <<what>> \in items
         \/ \A s \in items : s[1] \notin Filling \cup Dropping
  BY DEF FitsPeople
<1>2. CASE \A what \in Dropping : <<what>> \in items
  <2>1. /\ <<"drop_schools">> \in items /\ <<"drop_districts">> \in items
        /\ <<"drop_regions">> \in items
    BY <1>2 DEF Dropping
  <2>2. /\ Kept(items, "drop_schools", x.schools) = {}
        /\ Kept(items, "drop_districts", x.districts) = {}
        /\ Kept(items, "drop_regions", x.regions) = {}
    BY <2>1 DEF Kept
  <2>3. Coming(x, items) = Filled(items) /\ Fresh(x, items)
    BY <2>2 DEF Coming, Filled, Fresh
  <2> QED
    BY <1>1, <2>3 DEF Heading
<1>3. CASE \A s \in items : s[1] \notin Filling \cup Dropping
  <2>1. Ids(items, "school") = {} /\ Ids(items, "district") = {} /\ Ids(items, "region") = {}
    BY <1>3 DEF Ids, Filling
  <2>2. /\ Kept(items, "drop_schools", x.schools) = x.schools
        /\ Kept(items, "drop_districts", x.districts) = x.districts
        /\ Kept(items, "drop_regions", x.regions) = x.regions
    <3>1. \A what \in Dropping : <<what>> \notin items
      <4>1. \A what : <<what>>[1] = what
        OBVIOUS
      <4> QED
        BY <1>3, <4>1
    <3> QED
      BY <3>1 DEF Kept, Dropping
  <2>3. Coming(x, items) = x /\ Fresh(x, items)
    BY <2>1, <2>2 DEF Coming, Fresh, Placement
  <2> QED
    BY <1>1, <2>3 DEF Heading
<1> QED
  BY <1>1, <1>2, <1>3 DEF Heading

LEMMA OutsetKeepsCohering ==
  ASSUME PeopleTyped, Cohering, NEW r, NEW at, NEW items, Outset(r, at, items),
         UNCHANGED people
  PROVE  Cohering'
<1> DEFINE p == Form[r].person
<1>1. /\ r \in Request /\ call[r].at = "idle" /\ call'[r].at = at /\ Left(r)' = items
      /\ \A d \in Request : d # r =>
           /\ Left(d)' = Left(d) /\ call'[d].at = call[d].at
           /\ d \in Running' <=> d \in Running
  BY OutsetTurns
<1>2. /\ call'[r].met = Running /\ at \in {"running", "refused", "done"}
      /\ \A d \in Request : d # r => call[d].met \subseteq call'[d].met
  BY DEF Outset, Starts
<1>3. placed' = placed
  BY DEF people
<1>4. \A q : About(q) \subseteq About(q)' /\ r \notin About(q)
  BY <1>1 DEF About
<1>5. \A q : About(q)' \subseteq About(q) \cup {r} /\ (r \in About(q)' => q = p)
  BY <1>1 DEF About
<1>6. r \in About(p)' /\ \A q : About(q) \subseteq Request
  BY <1>1, <1>2 DEF About
<1>7. ASSUME NEW q \in Person, Alone(q)'  PROVE Alone(q)
  <2>1. ASSUME NEW d \in About(q)
        PROVE  call[d].at # "dead" /\ call[d].met \cap About(q) = {}
    <3>1. d \in About(q)' /\ d # r /\ d \in Request
      BY <1>4, <1>6, <2>1
    <3>2. call'[d].at # "dead" /\ call'[d].met \cap About(q)' = {}
      BY <1>7, <3>1 DEF Alone
    <3> QED
      BY <1>1, <1>2, <1>4, <3>1, <3>2
  <2> QED
    BY <2>1 DEF Alone
<1>8. ASSUME NEW q \in Person, Alone(q)'
      PROVE  /\ (\A d \in About(q)' : d \notin Running') => Coherent(placed'[q])
             /\ \A d \in About(q)' : d \in Running' => Heading(Left(d)', placed'[q])
  <2>1. /\ (\A d \in About(q) : d \notin Running) => Coherent(placed[q])
        /\ \A d \in About(q) : d \in Running => Heading(Left(d), placed[q])
    BY <1>7, <1>8 DEF Cohering
  <2>2. \A d \in About(q) : d \in Request /\ d # r
    BY <1>4, <1>6
  <2>3. CASE r \notin About(q)'
    <3>1. About(q)' = About(q)
      BY <1>4, <1>5, <2>3
    <3> QED
      BY <1>1, <1>3, <2>1, <2>2, <3>1
  <2>4. CASE r \in About(q)'
    <3>1. call'[r].met \cap About(q)' = {}
      BY <1>8, <2>4 DEF Alone
    <3>2. \A d \in About(q) : d \notin Running
      BY <1>2, <1>4, <3>1
    <3>3. Coherent(placed[q])
      BY <2>1, <3>2
    <3>4. at = "running" => Heading(items, placed[q])
      <4>1. SUFFICES ASSUME at = "running"  PROVE Heading(items, placed[q])
        OBVIOUS
      <4>2. PICK t : Fits(r, t) /\ items = Items(t)
        BY <4>1 DEF Outset
      <4>3. placed[q] \in Placement
        BY DEF PeopleTyped, Placement
      <4> QED
        BY <3>3, <4>2, <4>3, FitsHeading DEF Fits
    <3>5. r \in Running' <=> at = "running"
      BY <1>1 DEF Running
    <3>6. \A d \in About(q)' : d \in Running' => d = r
      BY <1>1, <1>5, <2>2, <3>2
    <3> QED
      BY <1>1, <1>3, <3>3, <3>4, <3>5, <3>6
  <2> QED
    BY <2>3, <2>4
<1> QED
  BY <1>8 DEF Cohering

-----------------------------------------------------------------------------
(* The rows stay what they are, but for being archived; one is added.      *)

New(r, h) == Row_(Form[r].kind, Form[r].name, h[2], Form[r].capacity, r)
Lasts(i) ==
  /\ i \in DOMAIN row' /\ row'[i].kind = row[i].kind /\ row'[i].name = row[i].name
  /\ row'[i].capacity = row[i].capacity /\ row'[i].by = row[i].by
  /\ row[i].archived => row'[i].archived

LEMMA NewTyped ==
  ASSUME NEW r \in Request, Form[r].op = "create", NEW h, h[2] \in Nat \cup {None}
  PROVE  New(r, h) \in RowsBy(Request \cup {None})
<1>1. OnARow(Form[r])
  BY StructureAssumption DEF EnrolOps
<1>2. Form[r].kind \in Kind /\ Form[r].capacity \in Nat \cup {None}
  BY <1>1 DEF OnARow
<1>3. Form[r].name \in Word
  BY DEF Word
<1> QED
  BY <1>2, <1>3 DEF New, Row_, RowsBy

LEMMA RowHeld ==
  ASSUME RowsTyped, NEW i \in DOMAIN row
  PROVE  /\ row[i].by \in Request \cup {None} /\ row[i].capacity \in Nat \cup {None}
         /\ i \in Nat
<1> DEFINE R == RowsBy(Request \cup {None})
<1>1. row \in Seq(R)
  BY DEF RowsTyped
<1> HIDE DEF R
<1>2. row[i] \in R /\ i \in Nat
  BY <1>1, ElementOfSeq, LenProperties
<1> QED
  BY <1>2 DEF R, RowsBy

LEMMA RowsLast ==
  ASSUME RowsTyped, NEW r, NEW h, Shapes(r, h)
  PROVE  /\ row' \in Seq(RowsBy(Request \cup {None}))
         /\ \A i \in DOMAIN row : Lasts(i)
         /\ \A i \in DOMAIN row' : i \notin DOMAIN row =>
              /\ Inserting(r, h) /\ row'[i] = New(r, h)
              /\ \A j \in DOMAIN row' : j \in DOMAIN row \/ j = i
              /\ \A j \in DOMAIN row : j < i
<1> DEFINE R == RowsBy(Request \cup {None})
<1>1. row \in Seq(R)
  BY DEF RowsTyped
<1>2. DOMAIN row = 1 .. Len(row) /\ Len(row) \in Nat /\ \A i \in DOMAIN row : row[i] \in R
  BY <1>1
<1>3. CASE UNCHANGED row
  BY <1>1, <1>3 DEF Lasts
<1>4. CASE Inserting(r, h)
  <2>1. r \in Request /\ Form[r].op = "create" /\ h[2] \in Nat \cup {None}
    <3>1. Goes(r, h) /\ h[1] = "insert"
      BY <1>4 DEF Inserting
    <3>2. h \in Statement /\ h[1] \in Tags(Form[r].op) /\ r \in Request
      BY <3>1, ActsTurns DEF Goes
    <3> QED
      BY <3>1, <3>2, StatementParts DEF Tags, Filling, Dropping
  <2>2. New(r, h) \in R
    BY <2>1, NewTyped
  <2>3. row' = Append(row, New(r, h))
    BY <1>4 DEF Inserting, New
  <2> HIDE DEF R
  <2>4. /\ row' \in Seq(R) /\ Len(row') = Len(row) + 1 /\ row'[Len(row) + 1] = New(r, h)
        /\ \A i \in 1 .. Len(row) : row'[i] = row[i]
    BY <1>1, <2>2, <2>3, AppendProperties
  <2>5. DOMAIN row' = 1 .. Len(row) + 1
    BY <2>4
  <2> QED
    BY <1>2, <1>4, <2>4, <2>5 DEF Lasts, R
<1>5. CASE Retiring(r, h)
  <2> DEFINE id == Form[r].id
  <2>1. row' = [row EXCEPT ![id].archived = TRUE]
    BY <1>5 DEF Retiring
  <2>2. DOMAIN row' = DOMAIN row
    BY <2>1
  <2>3. \A i \in DOMAIN row : row'[i] = IF i = id THEN [row[i] EXCEPT !.archived = TRUE] ELSE row[i]
    BY <2>1
  <2>4. \A i \in DOMAIN row : row'[i] \in R /\ Lasts(i)
    BY <1>2, <2>2, <2>3 DEF RowsBy, Lasts
  <2>5. row' \in [1 .. Len(row) -> R]
    BY <1>2, <2>1, <2>2, <2>4
  <2> HIDE DEF R
  <2>6. row' \in Seq(R)
    BY <1>2, <2>5, FunctionIsSeq
  <2> QED
    BY <2>2, <2>4, <2>6 DEF R
<1>6. UNCHANGED row \/ Inserting(r, h) \/ Retiring(r, h)
  BY DEF Shapes, Resting, Entering, Quitting
<1> QED
  BY <1>3, <1>4, <1>5, <1>6

LEMMA JoinsLess ==
  ASSUME NEW r, NEW h, Acts(r, h)
  PROVE  /\ \A d \in Request : Left(d)' \subseteq Left(d) /\ (Joins(d)' => Joins(d))
         /\ \A d \in Request : call'[d].at = "idle" => call[d].at = "idle"
<1>1. /\ r \in Request /\ Left(r)' \subseteq Left(r) /\ (Ends(r) \/ Goes(r, h))
      /\ \A d \in Request : d # r => Left(d)' = Left(d) /\ call'[d].at = call[d].at
  BY ActsTurns
<1>2. \A d \in Request : Left(d)' \subseteq Left(d)
  BY <1>1
<1>3. call'[r].at # "idle"
  BY <1>1 DEF Ends, Goes
<1> QED
  BY <1>1, <1>2, <1>3 DEF Joins

(* Who joins has been let into a group there is.                           *)
LEMMA EnteringJoins ==
  ASSUME RowsTyped, NEW r, NEW h, Entering(r, h)
  PROVE  /\ r \in Request /\ r \in Running /\ Joins(r) /\ ~Joins(r)'
         /\ Form[r].group \in DOMAIN row /\ Form[r].role \in Role
         /\ Form[r].person \in Person /\ Here(Form[r].person)
<1>1. Goes(r, h) /\ h[1] = "join"
  BY DEF Entering
<1>2. /\ r \in Request /\ r \in Running /\ h \in Statement /\ h[1] \in Tags(Form[r].op)
      /\ h \in Left(r) /\ \A b \in Left(r)' : Follows(h, b)
  BY <1>1, ActsTurns DEF Goes
<1>3. Form[r].op = "add_member"
  BY <1>1, <1>2 DEF Tags, Filling, Dropping
<1>4. h = <<"join">>
  <2>1. "join" \in Bare
    BY DEF Bare
  <2> QED
    BY <1>1, <1>2, <2>1, StatementParts
<1>5. <<"join">> \notin Left(r)'
  <2>1. <<"join">>[1] = "join"
    OBVIOUS
  <2> QED
    BY <1>2, <1>4, <2>1 DEF Follows
<1>6. Joins(r) /\ ~Joins(r)'
  BY <1>2, <1>3, <1>4, <1>5 DEF Joins
<1>7. Form[r].role \in Role /\ Form[r].person \in Person
  BY <1>2, <1>3, StructureAssumption DEF OnARow, EnrolOps
<1> QED
  BY <1>2, <1>6, <1>7 DEF RowsTyped

LEMMA ShapesKeepRows ==
  ASSUME PeopleTyped, Present, RowsTyped, NEW r, NEW h, Acts(r, h), Shapes(r, h)
  PROVE  RowsTyped'
<1> DEFINE M == [group : DOMAIN row, who : Person, role : Role]
<1>1. /\ row' \in Seq(RowsBy(Request \cup {None}))
      /\ \A i \in DOMAIN row : Lasts(i)
      /\ \A i \in DOMAIN row' : i \notin DOMAIN row =>
           Inserting(r, h) /\ row'[i] = New(r, h)
  BY RowsLast
<1>2. \A p \in Person : Here(p) => Here(p)'
  BY ActsKeepUser
<1>3. /\ \A d \in Request : Joins(d)' => Joins(d)
      /\ \A d \in Request : call'[d].at = "idle" => call[d].at = "idle"
  BY JoinsLess
<1>4. r \in Request /\ call[r].at = "running"
  BY ActsTurns
<1>5. DOMAIN row \subseteq DOMAIN row'
  BY <1>1 DEF Lasts
<1>6. ASSUME NEW i \in DOMAIN row', row'[i].by # None  PROVE call'[row'[i].by].at # "idle"
  <2>1. CASE i \in DOMAIN row
    <3>1. row'[i].by = row[i].by /\ row[i].by \in Request
      BY <1>1, <1>6, <2>1, RowHeld DEF Lasts
    <3> QED
      BY <1>3, <1>6, <2>1, <3>1 DEF RowsTyped
  <2>2. CASE i \notin DOMAIN row
    <3>1. row'[i].by = r
      BY <1>1, <2>2 DEF New, Row_
    <3> QED
      BY <1>3, <1>4, <3>1
  <2> QED
    BY <2>1, <2>2
<1>7. /\ member' \subseteq M /\ IsFiniteSet(member')
      /\ \A m \in member' : m \in member \/ Here(m.who)
  <2>1. member \subseteq M /\ IsFiniteSet(member)
    BY DEF RowsTyped
  <2>2. CASE Entering(r, h)
    <3>1. /\ Form[r].group \in DOMAIN row /\ Form[r].role \in Role
          /\ Form[r].person \in Person /\ Here(Form[r].person)
      BY <2>2, EnteringJoins
    <3>2. Membership(r) \in M /\ Membership(r).who = Form[r].person
      BY <3>1 DEF Membership
    <3>3. member' = member \cup {Membership(r)}
      BY <2>2 DEF Entering
    <3>4. IsFiniteSet(member')
      BY <2>1, <3>3, FS_AddElement
    <3> QED
      BY <2>1, <3>1, <3>2, <3>3, <3>4
  <2>3. CASE member' \subseteq member
    BY <2>1, <2>3, FS_Subset
  <2>4. Entering(r, h) \/ member' \subseteq member
    BY DEF Shapes, Resting, Inserting, Retiring, Quitting
  <2> QED
    BY <2>2, <2>3, <2>4
<1>8. \A m \in member' : Here(m.who)'
  <2>1. \A m \in member : Here(m.who)
    BY DEF RowsTyped
  <2> QED
    BY <1>2, <1>7, <2>1
<1>9. member' \subseteq [group : DOMAIN row', who : Person, role : Role]
  BY <1>5, <1>7
<1>10. ASSUME NEW d \in Request, Joins(d)'
       PROVE  Form[d].group \in DOMAIN row' /\ Here(Form[d].person)'
  <2>1. Form[d].person \in Person
    BY <1>10, StructureAssumption DEF Joins, OnARow, EnrolOps
  <2> QED
    BY <1>2, <1>3, <1>5, <1>10, <2>1 DEF RowsTyped
<1> QED
  BY <1>1, <1>6, <1>7, <1>8, <1>9, <1>10 DEF RowsTyped

-----------------------------------------------------------------------------
(* A group is overfull by no more than run at a time.                      *)

LEMMA StudentsCounted ==
  ASSUME RowsTyped, NEW g
  PROVE  /\ IsFiniteSet(Students(g)) /\ Cardinality(Students(g)) \in Nat
         /\ IsFiniteSet(Joining(g)) /\ Cardinality(Joining(g)) \in Nat
<1>1. Students(g) \subseteq member /\ IsFiniteSet(member)
  BY DEF Students, RowsTyped
<1>2. Joining(g) \subseteq Request /\ IsFiniteSet(Request)
  BY RequestAssumption DEF Joining, Running
<1>3. IsFiniteSet(Students(g))
  BY <1>1, FS_Subset
<1>4. IsFiniteSet(Joining(g))
  BY <1>2, FS_Subset
<1> QED
  BY <1>3, <1>4, FS_CardinalityType

LEMMA NobodyYet ==
  ASSUME RowsTyped, NEW g, g \notin DOMAIN row
  PROVE  Students(g) = {} /\ Joining(g) = {}
<1>1. \A m \in member : m.group \in DOMAIN row
  BY DEF RowsTyped
<1>2. \A d \in Request : Joins(d) => Form[d].group \in DOMAIN row
  BY DEF RowsTyped
<1>3. Students(g) = {}
  BY <1>1 DEF Students
<1>4. Joining(g) = {}
  BY <1>2 DEF Joining, Running
<1> QED
  BY <1>3, <1>4

LEMMA JoiningLess ==
  ASSUME NEW r, NEW h, Acts(r, h), NEW g
  PROVE  Joining(g)' \subseteq Joining(g)
<1>1. \A d \in Request : Joins(d)' => Joins(d)
  BY JoinsLess
<1>2. \A d \in Running' : d \in Running
  BY ActsTurns DEF Running
<1> QED
  BY <1>1, <1>2 DEF Joining, Running

LEMMA ShapesKeepRoomed ==
  ASSUME RowsTyped, RowsTyped', Roomed, NEW r, NEW h, Acts(r, h), Shapes(r, h)
  PROVE  Roomed'
<1>1. SUFFICES ASSUME NEW g \in DOMAIN row', row'[g].kind = "group", row'[g].capacity # None
               PROVE  Cardinality(Students(g)') + Cardinality(Joining(g)')
                        <= row'[g].capacity + MaxInFlight - 1
  BY DEF Roomed
<1> DEFINE S == Students(g)
           J == Joining(g)
           T == Students(g)'
           K == Joining(g)'
           c == row'[g].capacity
<1>2. /\ IsFiniteSet(S) /\ Cardinality(S) \in Nat /\ IsFiniteSet(J) /\ Cardinality(J) \in Nat
      /\ Cardinality(T) \in Nat /\ Cardinality(K) \in Nat
  <2>1. /\ IsFiniteSet(T) /\ Cardinality(T) \in Nat
        /\ IsFiniteSet(K) /\ Cardinality(K) \in Nat
    <3>1. T \subseteq member' /\ IsFiniteSet(member')
      BY DEF Students, RowsTyped
    <3>2. K \subseteq Request /\ IsFiniteSet(Request)
      BY RequestAssumption DEF Joining, Running
    <3> HIDE DEF T, K
    <3>3. IsFiniteSet(T) /\ IsFiniteSet(K)
      BY <3>1, <3>2, FS_Subset
    <3> QED
      BY <3>3, FS_CardinalityType
  <2> QED
    BY <2>1, StudentsCounted
<1>3. K \subseteq J
  BY JoiningLess
<1>4. MaxInFlight \in Nat \ {0}
  BY RequestAssumption
<1>5. c \in Nat
  <2> DEFINE R == RowsBy(Request \cup {None})
  <2>1. row' \in Seq(R)
    BY DEF RowsTyped
  <2> HIDE DEF R
  <2>2. row'[g] \in R
    BY <1>1, <2>1, ElementOfSeq, LenProperties
  <2> QED
    BY <1>1, <2>2 DEF R, RowsBy
<1>6. g \in DOMAIN row => Cardinality(S) + Cardinality(J) <= c + MaxInFlight - 1
  <2>1. \A i \in DOMAIN row : Lasts(i)
    BY RowsLast
  <2> QED
    BY <1>1, <2>1 DEF Roomed, Lasts
<1>7. g \notin DOMAIN row => S = {} /\ J = {}
  BY NobodyYet
<1>8. CASE Entering(r, h) /\ Form[r].group = g /\ Form[r].role = "student"
  <2>1. r \in Running /\ Joins(r) /\ ~Joins(r)' /\ g \in DOMAIN row
    BY <1>8, EnteringJoins
  <2>2. r \in J /\ r \notin K
    BY <1>8, <2>1 DEF Joining
  <2>3. T = S \cup {Membership(r)} /\ Membership(r) \notin S
    <3>1. member' = member \cup {Membership(r)} /\ Membership(r) \notin member
      BY <1>8 DEF Entering
    <3>2. Membership(r).group = g /\ Membership(r).role = "student"
      BY <1>8 DEF Membership
    <3> QED
      BY <3>1, <3>2 DEF Students
  <2> HIDE DEF S, J, T, K, c
  <2>4. Cardinality(T) = Cardinality(S) + 1
    BY <1>2, <2>3, FS_AddElement
  <2>5. Cardinality(J \ {r}) = Cardinality(J) - 1 /\ IsFiniteSet(J \ {r})
    BY <1>2, <2>2, FS_RemoveElement
  <2>6. Cardinality(K) <= Cardinality(J \ {r})
    <3>1. K \subseteq J \ {r}
      BY <1>3, <2>2
    <3> QED
      BY <2>5, <3>1, FS_Subset
  <2>7. Cardinality(S) + Cardinality(J) <= c + MaxInFlight - 1
    BY <1>6, <2>1
  <2>8. Cardinality(T) + Cardinality(K) <= c + MaxInFlight - 1
    BY <1>2, <1>4, <1>5, <2>4, <2>5, <2>6, <2>7
  <2> QED
    BY <2>8 DEF T, K, c
<1>9. CASE ~(Entering(r, h) /\ Form[r].group = g /\ Form[r].role = "student")
  <2>1. T \subseteq S
    <3>1. CASE Entering(r, h)
      <4>1. member' = member \cup {Membership(r)}
        BY <3>1 DEF Entering
      <4>2. ~(Membership(r).group = g /\ Membership(r).role = "student")
        BY <1>9, <3>1 DEF Membership
      <4> QED
        BY <4>1, <4>2 DEF Students
    <3>2. CASE member' \subseteq member
      BY <3>2 DEF Students
    <3>3. Entering(r, h) \/ member' \subseteq member
      BY DEF Shapes, Resting, Inserting, Retiring, Quitting
    <3> QED
      BY <3>1, <3>2, <3>3
  <2> HIDE DEF S, J, T, K, c
  <2>2. Cardinality(T) <= Cardinality(S)
    BY <1>2, <2>1, FS_Subset
  <2>3. Cardinality(K) <= Cardinality(J)
    BY <1>2, <1>3, FS_Subset
  <2>4. Cardinality(S) + Cardinality(J) <= c + MaxInFlight - 1
    <3>1. CASE g \in DOMAIN row
      BY <1>6, <3>1
    <3>2. CASE g \notin DOMAIN row
      <4>1. Cardinality(S) = 0 /\ Cardinality(J) = 0
        BY <1>7, <3>2, FS_EmptySet
      <4> QED
        BY <1>4, <1>5, <4>1
    <3> QED
      BY <3>1, <3>2
  <2>5. Cardinality(T) + Cardinality(K) <= c + MaxInFlight - 1
    BY <1>2, <1>4, <1>5, <2>2, <2>3, <2>4
  <2> QED
    BY <2>5 DEF T, K, c
<1> QED
  BY <1>8, <1>9

LEMMA OutsetFits ==
  ASSUME NEW r, NEW at, NEW items, Outset(r, at, items), items # {}
  PROVE  at = "running" /\ \E t : Fits(r, t) /\ items = Items(t)
BY DEF Outset

LEMMA OutsetKeepsRows ==
  ASSUME RowsTyped, NEW r, NEW at, NEW items, Outset(r, at, items),
         UNCHANGED people, UNCHANGED structure
  PROVE  RowsTyped'
<1>1. /\ r \in Request /\ call[r].at = "idle" /\ Left(r)' = items
      /\ \A d \in Request : d # r => Left(d)' = Left(d) /\ call'[d].at = call[d].at
  BY OutsetTurns
<1>2. row' = row /\ member' = member /\ user' = user
  BY DEF structure, people
<1>3. \A p : Here(p)' <=> Here(p)
  BY <1>2 DEF Here
<1>4. ASSUME NEW i \in DOMAIN row, row[i].by # None  PROVE call'[row[i].by].at # "idle"
  <2>1. call[row[i].by].at # "idle"
    BY <1>4 DEF RowsTyped
  <2>2. row[i].by \in Request /\ row[i].by # r
    BY <1>1, <1>4, <2>1, RowHeld
  <2> QED
    BY <1>1, <2>1, <2>2
<1>5. ASSUME NEW d \in Request, Joins(d)'
      PROVE  Form[d].group \in DOMAIN row /\ Here(Form[d].person)
  <2>1. CASE d = r
    <3>1. <<"join">> \in items
      BY <1>1, <1>5, <2>1 DEF Joins
    <3>2. PICK t : Fits(r, t) /\ items = Items(t)
      BY <3>1, OutsetFits
    <3> QED
      BY <2>1, <3>1, <3>2 DEF Fits, FitsRows
  <2>2. CASE d # r
    <3>1. Joins(d)
      BY <1>1, <1>5, <2>2 DEF Joins
    <3> QED
      BY <3>1 DEF RowsTyped
  <2> QED
    BY <2>1, <2>2
<1>6. /\ row \in Seq(RowsBy(Request \cup {None}))
      /\ member \subseteq [group : DOMAIN row, who : Person, role : Role]
      /\ IsFiniteSet(member) /\ \A m \in member : Here(m.who)
  BY DEF RowsTyped
<1> QED
  BY <1>2, <1>3, <1>4, <1>5, <1>6 DEF RowsTyped

LEMMA OutsetKeepsRoomed ==
  ASSUME RowsTyped, Roomed, NEW r, NEW at, NEW items, Outset(r, at, items),
         UNCHANGED structure
  PROVE  Roomed'
<1>1. SUFFICES ASSUME NEW g \in DOMAIN row', row'[g].kind = "group", row'[g].capacity # None
               PROVE  Cardinality(Students(g)') + Cardinality(Joining(g)')
                        <= row'[g].capacity + MaxInFlight - 1
  BY DEF Roomed
<1> DEFINE S == Students(g)
           J == Joining(g)
           K == Joining(g)'
           c == row[g].capacity
<1>2. row' = row /\ Students(g)' = S
  BY DEF structure, Students
<1>3. /\ r \in Request /\ r \notin Running /\ Left(r)' = items
      /\ \A d \in Request : d # r => Left(d)' = Left(d) /\ (d \in Running' <=> d \in Running)
  BY OutsetTurns
<1>4. Cardinality(Running) < MaxInFlight /\ MaxInFlight \in Nat
  BY RequestAssumption DEF Outset, Starts
<1>5. IsFiniteSet(Running) /\ Cardinality(Running) \in Nat
  <2>1. Running \subseteq Request /\ IsFiniteSet(Request)
    BY RequestAssumption DEF Running
  <2>2. IsFiniteSet(Running)
    BY <2>1, FS_Subset
  <2> QED
    BY <2>2, FS_CardinalityType
<1>6. IsFiniteSet(J) /\ Cardinality(J) \in Nat /\ Cardinality(S) \in Nat
  BY StudentsCounted
<1>7. c \in Nat
  BY <1>1, <1>2, RowHeld
<1>8. Cardinality(S) + Cardinality(J) <= c + MaxInFlight - 1
  BY <1>1, <1>2 DEF Roomed
<1>9. \A d \in K : d \in J \/ d = r
  BY <1>3 DEF Joining, Joins, Running
<1>10. J \subseteq Running
  BY DEF Joining
<1>11. r \in K => ~(Cardinality(S) >= c)
  <2>1. SUFFICES ASSUME r \in K  PROVE ~(Cardinality(S) >= c)
    OBVIOUS
  <2>2. <<"join">> \in items /\ Form[r].group = g /\ Form[r].role = "student"
    BY <1>3, <2>1 DEF Joining, Joins
  <2>3. PICK t : Fits(r, t) /\ items = Items(t)
    BY <2>2, OutsetFits
  <2> QED
    BY <1>1, <1>2, <2>2, <2>3 DEF Fits, FitsRows
<1> HIDE DEF S, J, K, c
<1>12. Cardinality(S) + Cardinality(K) <= c + MaxInFlight - 1
  <2>1. CASE r \in K
    <3>1. Cardinality(J) <= Cardinality(Running)
      BY <1>5, <1>10, FS_Subset
    <3>2. IsFiniteSet(J \cup {r}) /\ Cardinality(J \cup {r}) <= Cardinality(J) + 1
      <4>1. /\ IsFiniteSet(J \cup {r})
            /\ Cardinality(J \cup {r}) = IF r \in J THEN Cardinality(J) ELSE Cardinality(J) + 1
        BY <1>6, FS_AddElement
      <4> QED
        BY <1>6, <4>1
    <3>3. K \subseteq J \cup {r}
      BY <1>9
    <3>4. Cardinality(K) <= Cardinality(J \cup {r}) /\ Cardinality(K) \in Nat
          /\ Cardinality(J \cup {r}) \in Nat
      BY <3>2, <3>3, FS_Subset, FS_CardinalityType
    <3> QED
      BY <1>4, <1>5, <1>6, <1>7, <1>11, <2>1, <3>1, <3>2, <3>4
  <2>2. CASE r \notin K
    <3>1. K \subseteq J
      BY <1>9, <2>2
    <3>2. Cardinality(K) <= Cardinality(J) /\ Cardinality(K) \in Nat
      BY <1>6, <3>1, FS_Subset, FS_CardinalityType
    <3> QED
      BY <1>4, <1>6, <1>7, <1>8, <3>2
  <2> QED
    BY <2>1, <2>2
<1> QED
  BY <1>2, <1>12 DEF S, K, c

-----------------------------------------------------------------------------
(* Which rows have one name.                                               *)

LEMMA ShapesKeepNaming ==
  ASSUME Scripted, Acquainted, RowsTyped, Naming,
         NEW r, NEW h, Acts(r, h), Shapes(r, h)
  PROVE  Naming'
<1>1. /\ r \in Request /\ r \in Running /\ Turns(r)
      /\ \A d \in Request : Left(d)' \subseteq Left(d)
  BY ActsTurns, JoinsLess
<1>2. \A d \in Request : call'[d].met = call[d].met
  BY <1>1 DEF Turns
<1>3. ASSUME NEW d \in Request, Inserts(d)'
      PROVE  Inserts(d) /\ d \in Running
  <2>1. Ids(Left(d), "insert") # {}
    BY <1>1, <1>3 DEF Inserts, Ids
  <2>2. Left(d) # {}
    BY <2>1 DEF Ids
  <2>3. d \in Running
    BY <2>2 DEF Left, Running
  <2> QED
    BY <1>3, <2>1, <2>3 DEF Inserts
<1>4. ASSUME NEW d \in Request, Inserts(d)', NEW i \in DOMAIN row',
             LiveOf(Form[d].kind, i)', row'[i].name[1] = Form[d].name[1]
      PROVE  row'[i].by \in call'[d].met
  <2>1. CASE i \in DOMAIN row
    <3>1. Lasts(i)
      BY <2>1, RowsLast
    <3>2. LiveOf(Form[d].kind, i) /\ row[i].name[1] = Form[d].name[1]
      <4>1. i \in DOMAIN row' /\ ~row'[i].archived /\ row'[i].kind = Form[d].kind
        BY <1>4 DEF LiveOf, Live
      <4> QED
        BY <1>4, <2>1, <3>1, <4>1 DEF LiveOf, Live, Lasts
    <3>3. row[i].by \in call[d].met
      BY <1>3, <1>4, <2>1, <3>2 DEF Naming
    <3> QED
      BY <1>2, <3>1, <3>3 DEF Lasts
  <2>2. CASE i \notin DOMAIN row
    <3>1. Inserting(r, h) /\ row'[i] = New(r, h)
      BY <2>2, RowsLast
    <3>2. row'[i].by = r
      BY <3>1 DEF New, Row_
    <3>3. d # r
      <4>1. \A b \in Left(r)' : b[1] # "insert"
        BY <3>1 DEF Inserting, Goes, Follows
      <4> QED
        BY <1>4, <4>1 DEF Inserts, Ids
    <3>4. r \in call[d].met
      BY <1>1, <1>3, <1>4, <3>3 DEF Acquainted
    <3> QED
      BY <1>2, <3>2, <3>4
  <2> QED
    BY <2>1, <2>2
<1> QED
  BY <1>4 DEF Naming

LEMMA ShapesKeepNames ==
  ASSUME Scripted, RowsTyped, Naming, SameNameOnlyByMeeting,
         NEW r, NEW h, h = Head(call[r].todo), Acts(r, h), Shapes(r, h)
  PROVE  SameNameOnlyByMeeting'
<1>1. r \in Request /\ r \in Running /\ Turns(r)
  BY ActsTurns
<1>2. call \in [Request -> CallState] /\ \A d \in Request : call'[d].met = call[d].met
  BY <1>1 DEF Turns, Scripted
<1>3. SUFFICES ASSUME NEW i \in DOMAIN row', NEW j \in DOMAIN row', i < j,
                      row'[i].kind = row'[j].kind, row'[i].name[1] = row'[j].name[1],
                      ~row'[i].archived, ~row'[j].archived
               PROVE  /\ row'[i].name # row'[j].name
                      /\ row'[j].by # None /\ row'[i].by # None
                      /\ row'[i].by \in call'[row'[j].by].met
  BY DEF SameNameOnlyByMeeting
<1>4. i \in DOMAIN row
  <2>1. SUFFICES ASSUME i \notin DOMAIN row  PROVE FALSE
    OBVIOUS
  <2>2. j \in DOMAIN row \/ j = i
    BY <1>3, <2>1, RowsLast
  <2>3. j \in DOMAIN row => j < i /\ j \in Nat
    BY <1>3, <2>1, RowsLast, RowHeld
  <2>4. i \in Nat
    <3>1. row' \in Seq(RowsBy(Request \cup {None}))
      BY RowsLast
    <3> QED
      BY <1>3, <3>1
  <2> QED
    BY <1>3, <2>2, <2>3, <2>4
<1>5. Lasts(i) /\ row[i].by \in Request \cup {None}
  BY <1>4, RowsLast, RowHeld
<1>6. CASE j \in DOMAIN row
  <2>1. Lasts(j) /\ row[j].by \in Request \cup {None}
    BY <1>6, RowsLast, RowHeld
  <2>2. /\ row[i].name # row[j].name
        /\ row[j].by # None /\ row[i].by # None
        /\ row[i].by \in call[row[j].by].met
    BY <1>3, <1>4, <1>5, <1>6, <2>1 DEF SameNameOnlyByMeeting, Lasts
  <2> QED
    BY <1>2, <1>5, <2>1, <2>2 DEF Lasts
<1>7. CASE j \notin DOMAIN row
  <2>1. Inserting(r, h) /\ row'[j] = New(r, h)
    BY <1>3, <1>7, RowsLast
  <2>2. row'[j].by = r /\ row'[j].kind = Form[r].kind /\ row'[j].name = Form[r].name
    BY <2>1 DEF New, Row_
  <2>3. Inserts(r)
    <3>1. h \in Left(r) /\ h[1] \in Tags(Form[r].op) /\ h[1] = "insert"
      BY <1>1, <2>1, ScriptedHead DEF Inserting
    <3>2. Form[r].op = "create"
      BY <3>1 DEF Tags, Filling, Dropping
    <3> QED
      BY <3>1, <3>2 DEF Inserts, Ids
  <2>4. row[i].name # Form[r].name
    BY <1>3, <1>4, <1>5, <2>1, <2>2 DEF Inserting, Taken, Lasts
  <2>5. row[i].by \in call[r].met
    BY <1>1, <1>3, <1>4, <1>5, <2>2, <2>3 DEF Naming, LiveOf, Live, Lasts
  <2>6. call[r].met \subseteq Request /\ None \notin Request
    BY <1>1, <1>2, RequestAssumption DEF CallState
  <2> QED
    BY <1>1, <1>2, <1>5, <2>2, <2>4, <2>5, <2>6 DEF Lasts
<1> QED
  BY <1>6, <1>7

LEMMA OutsetKeepsNames ==
  ASSUME RowsTyped, Naming, SameNameOnlyByMeeting, NEW r, NEW at, NEW items,
         Outset(r, at, items), UNCHANGED structure
  PROVE  Naming' /\ SameNameOnlyByMeeting'
<1>1. /\ r \in Request /\ call[r].at = "idle" /\ Left(r)' = items
      /\ \A d \in Request : d # r => Left(d)' = Left(d) /\ call'[d].at = call[d].at
  BY OutsetTurns
<1>2. \A d \in Request : d # r => call[d].met \subseteq call'[d].met
  BY DEF Outset, Starts
<1>3. row' = row
  BY DEF structure
<1>4. ASSUME NEW d \in Request, Inserts(d)', NEW i \in DOMAIN row,
             LiveOf(Form[d].kind, i), row[i].name[1] = Form[d].name[1]
      PROVE  row[i].by \in call'[d].met
  <2>1. CASE d = r
    <3>1. Ids(items, "insert") # {}
      BY <1>1, <1>4, <2>1 DEF Inserts
    <3>2. items # {}
      BY <3>1 DEF Ids
    <3>3. PICK t : Fits(r, t) /\ items = Items(t)
      BY <3>2, OutsetFits
    <3>4. ~Clashing(Form[r].kind, Form[r].name)
      BY <3>1, <3>3 DEF Fits, FitsRows
    <3> QED
      BY <1>4, <2>1, <3>4 DEF Clashing
  <2>2. CASE d # r
    <3>1. Inserts(d)
      BY <1>1, <1>4, <2>2 DEF Inserts
    <3> QED
      BY <1>2, <1>4, <2>2, <3>1 DEF Naming
  <2> QED
    BY <2>1, <2>2
<1>5. Naming'
  BY <1>3, <1>4 DEF Naming, LiveOf, Live
<1>6. ASSUME NEW i \in DOMAIN row, NEW j \in DOMAIN row, i < j,
             row[i].kind = row[j].kind, row[i].name[1] = row[j].name[1],
             ~row[i].archived, ~row[j].archived
      PROVE  /\ row[i].name # row[j].name /\ row[j].by # None /\ row[i].by # None
             /\ row[i].by \in call'[row[j].by].met
  <2>1. /\ row[i].name # row[j].name /\ row[j].by # None /\ row[i].by # None
        /\ row[i].by \in call[row[j].by].met
    BY <1>6 DEF SameNameOnlyByMeeting
  <2>2. row[j].by \in Request /\ call[row[j].by].at # "idle"
    BY <2>1, RowHeld DEF RowsTyped
  <2> QED
    BY <1>1, <1>2, <2>1, <2>2
<1> QED
  BY <1>3, <1>5, <1>6 DEF SameNameOnlyByMeeting

-----------------------------------------------------------------------------
(* The invariant holds at first, and every step keeps it.                  *)

LEMMA InitCallsIdle ==
  ASSUME InitCalls
  PROVE  /\ call \in [Request -> CallState] /\ Running = {}
         /\ \A r \in Request : call[r].at = "idle" /\ Left(r) = {}
         /\ \A q : About(q) = {}
<1>1. Blank \in CallState
  BY DEF Blank, CallState
<1>2. call \in [Request -> CallState] /\ \A r \in Request : call[r] = Blank
  BY <1>1 DEF InitCalls
<1>3. \A r \in Request : call[r].at = "idle"
  BY <1>2 DEF Blank
<1> QED
  BY <1>2, <1>3 DEF Running, Left, About

LEMMA InitPeopleTyped ==
  ASSUME InitPeople
  PROVE  PeopleTyped /\ \A p \in Person : Coherent(placed[p])
<1>1. DOMAIN Staff \subseteq Person
      /\ \A p \in DOMAIN Staff : Staff[p].role \in Role /\ Staff[p].schools \in SUBSET School
  BY EnrolmentAssumption
<1>2. ASSUME NEW p \in DOMAIN Staff
      PROVE  /\ [roles |-> {Unbounded(Staff[p].role)}, archived |-> FALSE] \in Account
             /\ Expanded(Staff[p].schools) \in Placement
             /\ Coherent(Expanded(Staff[p].schools))
  <2>1. {Unbounded(Staff[p].role)} \in SUBSET (Role \X (Region \cup {None}))
    BY <1>1, <1>2 DEF Unbounded
  <2> DEFINE x == Expanded(Staff[p].schools)
  <2>2. /\ DistrictsOf(Staff[p].schools) \in SUBSET District
        /\ RegionsOf(DistrictsOf(Staff[p].schools)) \in SUBSET Region
        /\ x.schools = Staff[p].schools
    BY <1>1, <1>2, UpFinite
  <2>3. x \in Placement
    BY <1>1, <1>2, <2>2 DEF Expanded, Placement
  <2>4. Coherent(x)
    BY <2>2 DEF Coherent
  <2> QED
    BY <2>1, <2>3, <2>4 DEF Account
<1>3. Nowhere \in Placement /\ Coherent(Nowhere)
  BY DEF Nowhere, Placement, Coherent
<1>4. user \in [Person -> Account \cup {None}] /\ \A p \in DOMAIN Staff : user[p] \in Account
  BY <1>1, <1>2 DEF InitPeople
<1>5. /\ placed \in [Person -> Placement]
      /\ \A p \in Person : p \notin DOMAIN Staff => placed[p] = Nowhere
      /\ \A p \in Person : Coherent(placed[p])
  BY <1>1, <1>2, <1>3 DEF InitPeople
<1>6. \A p \in DOMAIN Staff : Here(p)
  BY <1>4, EnrolmentAssumption DEF Here
<1>7. guardians = {} /\ teaches = {}
  BY DEF InitPeople
<1> QED
  BY <1>4, <1>5, <1>6, <1>7 DEF PeopleTyped, Placement

LEMMA InitRows ==
  ASSUME InitCalls, InitStructure, PeopleTyped
  PROVE  RowsTyped /\ Roomed /\ Naming /\ SameNameOnlyByMeeting
<1>1. row = Standing /\ member = Members
  BY DEF InitStructure
<1>2. Standing \in Seq(RowsBy({None})) /\ \A i \in DOMAIN Standing : Standing[i].by = None
  <2> DEFINE R == RowsBy({None})
  <2>1. Standing \in Seq(R)
    BY StructureAssumption
  <2>2. \A x \in R : x.by = None
    BY DEF RowsBy
  <2> HIDE DEF R
  <2>3. \A i \in DOMAIN Standing : Standing[i] \in R
    BY <2>1, ElementOfSeq, LenProperties
  <2> QED
    BY <2>1, <2>2, <2>3 DEF R
<1>3. Standing \in Seq(RowsBy(Request \cup {None}))
  <2>1. RowsBy({None}) \subseteq RowsBy(Request \cup {None})
    BY DEF RowsBy
  <2> QED
    BY <1>2, <2>1, SeqMonotonic
<1>4. \A r \in Request : call[r].at = "idle" /\ Left(r) = {}
  BY InitCallsIdle
<1>5. \A r \in Request : ~Joins(r) /\ ~Inserts(r)
  BY <1>4 DEF Joins, Inserts, Ids
<1>6. /\ Members \subseteq [group : DOMAIN Standing, who : DOMAIN Staff, role : Role]
      /\ IsFiniteSet(Members) /\ DOMAIN Staff \subseteq Person
  BY StructureAssumption, EnrolmentAssumption
<1>7. \A p \in DOMAIN Staff : Here(p)
  BY DEF PeopleTyped
<1>8. RowsTyped
  BY <1>1, <1>2, <1>3, <1>5, <1>6, <1>7 DEF RowsTyped
<1>9. ASSUME NEW g \in DOMAIN row, row[g].capacity # None
      PROVE  Cardinality(Students(g)) + Cardinality(Joining(g))
               <= row[g].capacity + MaxInFlight - 1
  <2>1. Joining(g) = {}
    BY <1>5 DEF Joining, Running
  <2>2. Cardinality(Joining(g)) = 0
    BY <2>1, FS_EmptySet
  <2>3. Cardinality(Students(g)) <= row[g].capacity
    BY <1>1, <1>9, StructureAssumption DEF Students
  <2>4. Cardinality(Students(g)) \in Nat /\ row[g].capacity \in Nat /\ MaxInFlight \in Nat \ {0}
    BY <1>8, <1>9, StudentsCounted, RowHeld, RequestAssumption
  <2> QED
    BY <2>2, <2>3, <2>4
<1>10. Roomed
  BY <1>9 DEF Roomed
<1>11. Naming
  BY <1>5 DEF Naming
<1>12. SameNameOnlyByMeeting
  <2>1. SUFFICES ASSUME NEW i \in DOMAIN row, NEW j \in DOMAIN row, i < j,
                        row[i].kind = row[j].kind, row[i].name[1] = row[j].name[1],
                        ~row[i].archived, ~row[j].archived
                 PROVE  FALSE
    BY DEF SameNameOnlyByMeeting
  <2>2. i # j
    BY <1>8, <2>1, RowHeld
  <2> QED
    BY <1>1, <2>1, <2>2, StructureAssumption
<1> QED
  BY <1>8, <1>10, <1>11, <1>12

LEMMA InitDirectory ==
  ASSUME Init
  PROVE  DirectoryInv
<1>1. InitCalls /\ InitPeople /\ InitStructure
  BY DEF Init
<1>2. /\ call \in [Request -> CallState] /\ Running = {}
      /\ \A r \in Request : call[r].at = "idle" /\ Left(r) = {}
      /\ \A q : About(q) = {}
  BY <1>1, InitCallsIdle
<1>3. PeopleTyped /\ \A p \in Person : Coherent(placed[p])
  BY <1>1, InitPeopleTyped
<1>4. Scripted /\ Acquainted
  BY <1>2 DEF Scripted, Acquainted
<1>5. Present
  BY <1>2 DEF Present
<1>6. SoleMaker /\ Bounding /\ Whole
  BY <1>2 DEF SoleMaker, Bounding, Whole, Past
<1>7. Cohering
  BY <1>2, <1>3 DEF Cohering
<1>8. RowsTyped /\ Roomed /\ Naming /\ SameNameOnlyByMeeting
  BY <1>1, <1>3, InitRows
<1> QED
  BY <1>3, <1>4, <1>5, <1>6, <1>7, <1>8 DEF DirectoryInv

(* One statement of a request, on an account or on the hierarchy.          *)
LEMMA StatementStep ==
  ASSUME DirectoryInv, NEW r \in Running, NEW h, h = Head(call[r].todo),
         Acts(r, h), Shapes(r, h), Scripted'
  PROVE  DirectoryInv'
<1>1. /\ Scripted /\ Acquainted /\ PeopleTyped /\ Present
      /\ SoleMaker /\ Bounding /\ Whole /\ Cohering
      /\ RowsTyped /\ Roomed /\ Naming /\ SameNameOnlyByMeeting
  BY DEF DirectoryInv
<1>2. Acquainted'
  BY <1>1, ActsTurns, TurnsAcquainted
<1>3. PeopleTyped'
  BY <1>1, ActsKeepTyped
<1>4. Present'
  BY <1>1, ActsKeepPresent
<1>5. SoleMaker'
  BY <1>1, ActsKeepSole
<1>6. Bounding'
  BY <1>1, ActsKeepBounding
<1>7. Whole'
  BY <1>1, ActsKeepWhole
<1>8. Cohering'
  BY <1>1, <1>3, ActsKeepCohering
<1>9. RowsTyped'
  BY <1>1, ShapesKeepRows
<1>10. Roomed'
  BY <1>1, <1>9, ShapesKeepRoomed
<1>11. Naming'
  BY <1>1, ShapesKeepNaming
<1>12. SameNameOnlyByMeeting'
  BY <1>1, ShapesKeepNames
<1> QED
  BY <1>2, <1>3, <1>4, <1>5, <1>6, <1>7, <1>8, <1>9, <1>10, <1>11, <1>12 DEF DirectoryInv

(* A request that sets out, is refused, or has nothing to do.              *)
LEMMA OutsetStep ==
  ASSUME DirectoryInv, NEW r, SetsOut(r), UNCHANGED people, UNCHANGED structure
  PROVE  DirectoryInv'
<1>1. /\ Scripted /\ Acquainted /\ PeopleTyped /\ Present
      /\ SoleMaker /\ Bounding /\ Whole /\ Cohering
      /\ RowsTyped /\ Roomed /\ Naming /\ SameNameOnlyByMeeting
  BY DEF DirectoryInv
<1>2. PICK at, items : Outset(r, at, items) /\ Scripted' /\ Acquainted'
  BY <1>1, SetsOutset
<1>3. PeopleTyped'
  BY <1>1 DEF people, PeopleTyped, Here
<1>4. Present'
  BY <1>1, <1>2, OutsetKeepsPresent
<1>5. SoleMaker'
  BY <1>1, <1>2, OutsetKeepsSole
<1>6. Bounding'
  BY <1>1, <1>2, OutsetKeepsBounding
<1>7. Whole'
  BY <1>1, <1>2, OutsetKeepsWhole
<1>8. Cohering'
  BY <1>1, <1>2, OutsetKeepsCohering
<1>9. RowsTyped'
  BY <1>1, <1>2, OutsetKeepsRows
<1>10. Roomed'
  BY <1>1, <1>2, OutsetKeepsRoomed
<1>11. Naming' /\ SameNameOnlyByMeeting'
  BY <1>1, <1>2, OutsetKeepsNames
<1> QED
  BY <1>2, <1>3, <1>4, <1>5, <1>6, <1>7, <1>8, <1>9, <1>10, <1>11 DEF DirectoryInv

LEMMA DirectoryStep ==
  ASSUME DirectoryInv, [Next]_vars
  PROVE  DirectoryInv'
<1>1. Scripted /\ PeopleTyped /\ RowsTyped
  BY DEF DirectoryInv
<1>2. ASSUME NEW r \in Admissible, Enrol(r), UNCHANGED structure
      PROVE  DirectoryInv'
  <2>1. SetsOut(r) /\ UNCHANGED people
    BY <1>1, <1>2, EnrolSetsOut
  <2> QED
    BY <1>2, <2>1, OutsetStep
<1>3. ASSUME NEW r \in Admissible, Restructure(r), UNCHANGED people
      PROVE  DirectoryInv'
  <2>1. row \in Seq(RowsBy(Request \cup {None}))
    BY <1>1 DEF RowsTyped
  <2>2. SetsOut(r) /\ UNCHANGED structure
    BY <1>3, <2>1, RestructureSetsOut
  <2> QED
    BY <1>3, <2>2, OutsetStep
<1>4. ASSUME NEW r \in Running, Write(r), UNCHANGED structure
      PROVE  DirectoryInv'
  <2> DEFINE h == Head(call[r].todo)
  <2> HIDE DEF h
  <2>1. h = Head(call[r].todo)
    BY DEF h
  <2>2. Acts(r, h) /\ Scripted'
    BY <1>1, <1>4, <2>1, WriteActs
  <2>3. Shapes(r, h)
    BY <1>4, <2>2, ActsTurns DEF structure, Shapes, Resting
  <2> QED
    BY <2>1, <2>2, <2>3, StatementStep
<1>5. ASSUME NEW r \in Running, WriteStructure(r), UNCHANGED people
      PROVE  DirectoryInv'
  <2> DEFINE h == Head(call[r].todo)
  <2> HIDE DEF h
  <2>1. h = Head(call[r].todo)
    BY DEF h
  <2>2. Acts(r, h) /\ Shapes(r, h) /\ Scripted'
    BY <1>1, <1>5, <2>1, WriteStructureActs
  <2> QED
    BY <2>1, <2>2, StatementStep
<1>6. ASSUME NEW r \in Running, Stop(r), UNCHANGED people, UNCHANGED structure
      PROVE  DirectoryInv'
  <2> DEFINE h == Head(call[r].todo)
  <2> HIDE DEF h
  <2>1. h = Head(call[r].todo)
    BY DEF h
  <2>2. Acts(r, h) /\ Ends(r) /\ Scripted'
    BY <1>1, <1>6, <2>1, StopActs
  <2>3. Shapes(r, h)
    BY <1>6, <2>2 DEF structure, Shapes, Resting
  <2> QED
    BY <2>1, <2>2, <2>3, StatementStep
<1>7. ASSUME UNCHANGED vars
      PROVE  DirectoryInv'
  <2>1. /\ UNCHANGED <<call, user, placed, guardians, teaches, row, member>>
    BY <1>7 DEF vars, people, structure
  <2>2. Scripted' /\ Acquainted' /\ PeopleTyped' /\ Present'
    BY <2>1 DEF DirectoryInv, Scripted, Acquainted, PeopleTyped, Present, Running, Left, Here
  <2>3. SoleMaker' /\ Bounding' /\ Whole' /\ Cohering'
    <3>1. Cohering'
      BY <2>1 DEF DirectoryInv, Cohering, Alone, About, Running, Left
    <3>2. Whole'
      BY <2>1 DEF DirectoryInv, Whole, StudentWhole, GuardianWhole, Pending_, Left, HasRole,
                  Here, Roles
    <3> QED
      BY <2>1, <3>1, <3>2 DEF DirectoryInv, SoleMaker, Bounding, Past, Left
  <2>4. RowsTyped' /\ Roomed' /\ Naming' /\ SameNameOnlyByMeeting'
    BY <2>1 DEF DirectoryInv, RowsTyped, Roomed, Naming, SameNameOnlyByMeeting, Joins, Joining,
                Inserts, Students, LiveOf, Live, Left, Running, Here
  <2> QED
    BY <2>2, <2>3, <2>4 DEF DirectoryInv
<1> QED
  BY <1>2, <1>3, <1>4, <1>5, <1>6, <1>7 DEF Next, Rest

-----------------------------------------------------------------------------
(* What the properties say, from the invariant.                            *)

LEMMA TypesFollow ==
  ASSUME DirectoryInv
  PROVE  TypeOK
<1>1. Scripted /\ PeopleTyped /\ RowsTyped
  BY DEF DirectoryInv
<1>2. \A r \in Request :
        call[r].at \in {"idle", "running", "done", "refused", "failed", "dead"}
  BY <1>1 DEF Scripted, CallState
<1>3. ASSUME NEW p \in Person, Here(p)
      PROVE  /\ user[p].archived \in BOOLEAN
             /\ \A grant \in user[p].roles : grant[2] \in Region \cup {None}
  <2>1. user[p] \in Account
    BY <1>1, <1>3, HereAccount
  <2> QED
    BY <2>1 DEF Account
<1>4. \A m \in member : m.group \in DOMAIN row /\ Here(m.who)
  BY <1>1 DEF RowsTyped
<1> QED
  BY <1>1, <1>2, <1>3, <1>4 DEF TypeOK, PeopleTyped

LEMMA OvershootFollows ==
  ASSUME DirectoryInv
  PROVE  OvershootBounded
<1>1. RowsTyped /\ Roomed
  BY DEF DirectoryInv
<1>2. ASSUME NEW g \in DOMAIN row, row[g].kind = "group", row[g].capacity # None
      PROVE  Cardinality(Students(g)) <= row[g].capacity + MaxInFlight - 1
  <2>1. Cardinality(Students(g)) + Cardinality(Joining(g))
          <= row[g].capacity + MaxInFlight - 1
    BY <1>1, <1>2 DEF Roomed
  <2>2. /\ Cardinality(Students(g)) \in Nat /\ Cardinality(Joining(g)) \in Nat
        /\ row[g].capacity \in Nat /\ MaxInFlight \in Nat
    BY <1>1, <1>2, StudentsCounted, RowHeld, RequestAssumption
  <2> QED
    BY <2>1, <2>2
<1> QED
  BY <1>2 DEF OvershootBounded

LEMMA PlacementsFollow ==
  ASSUME DirectoryInv
  PROVE  PlacementsCohere
<1>1. ASSUME NEW p \in Person, Untouched(p)  PROVE Coherent(placed[p])
  <2>1. \A r \in About(p) : /\ call[r].at \in {"done", "refused", "failed"}
                            /\ call[r].met \cap About(p) = {}
    BY <1>1 DEF Untouched
  <2>2. Alone(p) /\ \A r \in About(p) : r \notin Running
    BY <2>1 DEF Alone, Running
  <2> QED
    BY <2>2 DEF DirectoryInv, Cohering
<1> QED
  BY <1>1 DEF PlacementsCohere, Coherent

LEMMA RegionalFollows ==
  ASSUME DirectoryInv
  PROVE  RegionalBounded
<1>1. ASSUME NEW r \in Request, Regional(r), call[r].at = "done"
      PROVE  user[Form[r].person].roles = Bounds(Form[r].regions)
  <2>1. Left(r) = {}
    BY <1>1 DEF Left
  <2>2. <<"drop_roles">> \notin Left(r) /\ Bounds(Granted(Left(r))) = {}
    BY <2>1 DEF Granted, Bounds
  <2> QED
    BY <1>1, <2>2 DEF DirectoryInv, Bounding
<1> QED
  BY <1>1 DEF RegionalBounded, Sent, Regional, Bounds

LEMMA WholeFollows ==
  ASSUME DirectoryInv
  PROVE  EnrolledWhole
<1>1. SUFFICES ASSUME NEW r \in Request, call[r].at = "done", HasRole(Form[r].by, "admin")
               PROVE  CASE Form[r].op = "create_student" ->
                             /\ Form[r].guardian # None => \E l \in guardians :
                                  l.guardian = Form[r].guardian
                                    /\ l.student = Form[r].person /\ l.primary
                             /\ \A i \in ToSet(Form[r].instructors) :
                                  <<i, Form[r].person>> \in teaches
                        [] Form[r].op = "create_guardian" ->
                             \A s \in ToSet(Form[r].students) : \E l \in guardians :
                               l.guardian = Form[r].person /\ l.student = s
                        [] OTHER -> TRUE
  BY DEF EnrolledWhole, Sent
<1>2. Left(r) = {}
  BY <1>1 DEF Left
<1>3. /\ Form[r].op = "create_student" => StudentWhole(r)
      /\ Form[r].op = "create_guardian" => GuardianWhole(r)
  BY <1>1 DEF DirectoryInv, Whole
<1>4. CASE Form[r].op = "create_student"
  BY <1>2, <1>3, <1>4 DEF StudentWhole, Pending_
<1>5. CASE Form[r].op = "create_guardian"
  BY <1>2, <1>3, <1>5 DEF GuardianWhole, Pending_
<1> QED
  BY <1>4, <1>5

(* The invariant of the directory, for any forms sent together.            *)
THEOREM DirectoryInvariant == Spec => []DirectoryInv
<1>1. Init => DirectoryInv
  BY InitDirectory
<1>2. DirectoryInv /\ [Next]_vars => DirectoryInv'
  BY DirectoryStep
<1> QED
  BY <1>1, <1>2, PTL DEF Spec

(* An account is never half a record, a grant names a region there is, and *)
(* no link, teacher or membership is of somebody who has no account: what  *)
(* the foreign keys of the schema demand, kept by every order in which the *)
(* statements of the actions can interleave or stop.                       *)
THEOREM DirectoryTypeCorrect == Spec => []TypeOK
<1>1. DirectoryInv => TypeOK
  BY TypesFollow
<1> QED
  BY <1>1, DirectoryInvariant, PTL

(* However many requests add students to one group at a time, addMember's  *)
(* count before the insert lets in at most as many more than the capacity  *)
(* as run beside the one that was let in last.                             *)
THEOREM OvershootAlwaysBounded == Spec => []OvershootBounded
<1>1. DirectoryInv => OvershootBounded
  BY OvershootFollows
<1> QED
  BY <1>1, DirectoryInvariant, PTL

(* Two unarchived rows of a kind whose names differ only by their case can *)
(* come only of two creations that ran side by side, and even those never  *)
(* make two rows of the very same name: the check before the insert finds  *)
(* the rest, and the unique index what the check missed.                   *)
THEOREM NamesMeetOnlyByMeeting == Spec => []SameNameOnlyByMeeting
<1>1. DirectoryInv => SameNameOnlyByMeeting
  BY DEF DirectoryInv
<1> QED
  BY <1>1, DirectoryInvariant, PTL

(* A regional administrator whose creation is through holds exactly one    *)
(* grant for each region of the form, whatever createStaff met meanwhile,  *)
(* other creations of the same address included.                           *)
THEOREM RegionalAlwaysBounded == Spec => []RegionalBounded
<1>1. DirectoryInv => RegionalBounded
  BY RegionalFollows
<1> QED
  BY <1>1, DirectoryInvariant, PTL

(* A student or a guardian whom an administrator created to the end has    *)
(* every parent, instructor and ward the form named: createStudent and     *)
(* createGuardian either link them all or throw half-way.                  *)
THEOREM EnrolledAlwaysWhole == Spec => []EnrolledWhole
<1>1. DirectoryInv => EnrolledWhole
  BY WholeFollows
<1> QED
  BY <1>1, DirectoryInvariant, PTL

(* Of a person whom no two requests touched at once, and under whom no     *)
(* process stopped, the districts and regions are those of the schools,    *)
(* or there is a region and no school: a request that throws has either    *)
(* written no place or only places that cohere.                            *)
THEOREM PlacementsAlwaysCohere == Spec => []PlacementsCohere
<1>1. DirectoryInv => PlacementsCohere
  BY PlacementsFollow
<1> QED
  BY <1>1, DirectoryInvariant, PTL
=============================================================================
