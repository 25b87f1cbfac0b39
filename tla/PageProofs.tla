----------------------------- MODULE PageProofs -----------------------------
(***************************************************************************)
(* Proofs about what the pages of plans show.  The page of a plan run      *)
(* tells what became of its task items; a walk through a list, page after  *)
(* page, shows each plan or plan run that stays in it, and none twice      *)
(* unless the list moved on in the meantime.  And the parts of MCServices  *)
(* together: each has the state that its module says.                      *)
(* Source: backend/ptp-admin/app/services/plan_service.py,                 *)
(* repositories/plan_repository.py.                                        *)
(***************************************************************************)
EXTENDS ServiceProofs, FigureProofs, SequenceTheorems

-----------------------------------------------------------------------------
(* The page of a plan run *)

Stati4 == {"running", "succeeded", "failed", "stopped"}
TaskSlots == {k \in DOMAIN course.items : course.items[k] = "task"}
LaunchRuns == [round : 1..course.rounds, slot : TaskSlots, status : Stati4, report : {"missing", "ready"}]
Marks == [round : Nat, item : Nat,
          action : {"none", "sleep_started", "sleep_completed", "sleep_interrupted"}]
PageTypes ==
    /\ course \in Courses /\ wanted \in 1..MaxRounds
    /\ place \in [round : 1..course.rounds, slot : 1..Len(course.items) + 1]
    /\ launches \in Seq(LaunchRuns) /\ marker \in Marks /\ outcome \in Stati4
    /\ odd \in -1..Len(launches)

LEMMA CourseTyped ==
    ASSUME course \in Courses
    PROVE  /\ course.items \in Seq({"task", "sleep"}) /\ Len(course.items) \in Nat
           /\ DOMAIN course.items = 1..Len(course.items)
           /\ \A k \in 1..Len(course.items) : course.items[k] \in {"task", "sleep"}
           /\ course.rounds \in Nat /\ course.rounds \in 1..MaxRounds /\ MaxRounds \in Nat
           /\ TaskSlots \subseteq 1..Len(course.items)
<1>1. course \in [rounds : 1..MaxRounds, items : Seq({"task", "sleep"})] /\ MaxRounds \in Nat
  BY PageAssumption
<1>2. course.items \in Seq({"task", "sleep"})
  BY <1>1
<1>3. course.rounds \in 1..MaxRounds
  BY <1>1
<1>4. Len(course.items) \in Nat /\ DOMAIN course.items = 1..Len(course.items)
      /\ \A k \in 1..Len(course.items) : course.items[k] \in {"task", "sleep"}
  BY <1>2
<1> QED
  BY <1>1, <1>2, <1>3, <1>4 DEF TaskSlots

\* How many of the first items are tasks.
LEMMA TasksCounted ==
    ASSUME course \in Courses
    PROVE  /\ \A k \in Nat : TasksUpTo(k) \in Nat
           /\ TasksUpTo(0) = 0 /\ TaskItems \in Nat
           /\ \A k \in 1..Len(course.items) :
                 /\ course.items[k] = "task" => TasksUpTo(k) = TasksUpTo(k - 1) + 1
                 /\ course.items[k] # "task" => TasksUpTo(k) = TasksUpTo(k - 1)
           /\ \A j, k \in Nat : j <= k => TasksUpTo(j) <= TasksUpTo(k)
           /\ \A k \in TaskSlots : TasksUpTo(k) \in 1..TaskItems
<1> DEFINE First(k) == {i \in 1..k : course.items[i] = "task"}
<1>0. /\ Len(course.items) \in Nat /\ TaskSlots \subseteq 1..Len(course.items)
      /\ DOMAIN course.items = 1..Len(course.items)
  BY CourseTyped
<1>1. \A k \in Nat : IsFiniteSet(First(k)) /\ TasksUpTo(k) = Cardinality(First(k)) /\ TasksUpTo(k) \in Nat
  <2> SUFFICES ASSUME NEW k \in Nat
               PROVE  IsFiniteSet(First(k)) /\ TasksUpTo(k) = Cardinality(First(k)) /\ TasksUpTo(k) \in Nat
    OBVIOUS
  <2>1. IsFiniteSet(1..k)
    BY FS_Interval
  <2>2. IsFiniteSet(First(k))
    BY <2>1, FS_Subset
  <2> QED
    BY <2>2, FS_CardinalityType DEF TasksUpTo
<1>2. TasksUpTo(0) = 0
  <2>1. First(0) = {}
    OBVIOUS
  <2> QED
    BY <1>1, <2>1, FS_EmptySet
<1>3. ASSUME NEW k \in 1..Len(course.items)
      PROVE  /\ course.items[k] = "task" => TasksUpTo(k) = TasksUpTo(k - 1) + 1
             /\ course.items[k] # "task" => TasksUpTo(k) = TasksUpTo(k - 1)
  <2>1. k \in Nat /\ k - 1 \in Nat
    BY <1>0
  <2>2. CASE course.items[k] = "task"
    <3>1. First(k) = First(k - 1) \cup {k} /\ k \notin First(k - 1)
      BY <2>1, <2>2
    <3> HIDE DEF First
    <3>2. Cardinality(First(k - 1) \cup {k}) = Cardinality(First(k - 1)) + 1
      BY <1>1, <2>1, <3>1, FS_AddElement
    <3> QED
      BY <1>1, <2>1, <2>2, <3>1, <3>2
  <2>3. CASE course.items[k] # "task"
    <3>1. First(k) = First(k - 1)
      BY <2>1, <2>3
    <3> HIDE DEF First
    <3> QED
      BY <1>1, <2>1, <2>3, <3>1
  <2> QED
    BY <2>2, <2>3
<1>4. ASSUME NEW j \in Nat, NEW k \in Nat, j <= k PROVE TasksUpTo(j) <= TasksUpTo(k)
  <2>1. First(j) \subseteq First(k)
    BY <1>4
  <2> HIDE DEF First
  <2> QED
    BY <1>1, <2>1, FS_Subset
<1>5. ASSUME NEW k \in TaskSlots PROVE TasksUpTo(k) \in 1..TaskItems
  <2>1. k \in 1..Len(course.items) /\ course.items[k] = "task" /\ k \in Nat /\ k - 1 \in Nat /\ k <= Len(course.items)
    BY <1>0 DEF TaskSlots
  <2>2. TasksUpTo(k) = TasksUpTo(k - 1) + 1 /\ TasksUpTo(k - 1) \in Nat
    BY <1>1, <1>3, <2>1
  <2>3. TasksUpTo(k) <= TaskItems
    BY <1>0, <1>4, <2>1 DEF TaskItems
  <2>4. TaskItems \in Nat
    BY <1>0, <1>1 DEF TaskItems
  <2> QED
    BY <2>2, <2>3, <2>4
<1>6. TaskItems \in Nat
  BY <1>0, <1>1 DEF TaskItems
<1> QED
  BY <1>1, <1>2, <1>3, <1>4, <1>5, <1>6

\* Up to the first irregularity the place of a run in the list tells its item, and the length of
\* the list the executor's place.
ByTheItems ==
    \A n \in 1..Certain : n = (launches[n].round - 1) * TaskItems + TasksUpTo(launches[n].slot)
UpToDate == odd = -1 => Len(launches) = (place.round - 1) * TaskItems + TasksUpTo(place.slot - 1)
Sleeping ==
    marker.action = "sleep_started" => AtSleep /\ marker.round = place.round /\ marker.item = counted + 1
Counting ==
    /\ counted \in Nat /\ counted <= (place.round - 1) * Len(course.items) + (place.slot - 1)
    /\ odd = -1 /\ place.round = 1 => counted = place.slot - 1
WhenOver ==
    /\ outcome # "running" => \A n \in DOMAIN launches : launches[n].status # "running"
    /\ outcome = "running" => \A n \in DOMAIN launches : launches[n].report # "ready"
PageInv == PageTypes /\ ByTheItems /\ UpToDate /\ Sleeping /\ Counting /\ WhenOver

LEMMA PagesStart == PageInit => PageInv
<1> SUFFICES ASSUME PageInit PROVE PageInv
  OBVIOUS
<1>1. /\ course \in Courses /\ wanted = course.rounds /\ launches = <<>>
      /\ place = [round |-> 1, slot |-> 1] /\ counted = 0 /\ marker = Unmarked
      /\ outcome = "running" /\ odd = -1
  BY DEF PageInit
<1>2. /\ Len(course.items) \in Nat /\ course.rounds \in Nat /\ course.rounds \in 1..MaxRounds
      /\ MaxRounds \in Nat /\ TasksUpTo(0) = 0 /\ TaskItems \in Nat
  BY <1>1, CourseTyped, TasksCounted
<1>3. PageTypes
  <2>1. place \in [round : 1..course.rounds, slot : 1..Len(course.items) + 1]
    BY <1>1, <1>2
  <2>2. marker \in Marks
    BY <1>1 DEF Marks, Unmarked
  <2> QED
    BY <1>1, <1>2, <2>1, <2>2 DEF PageTypes, Stati4
<1>4. ByTheItems /\ Sleeping /\ WhenOver
  BY <1>1 DEF ByTheItems, Certain, Sleeping, Unmarked, WhenOver
<1>5. UpToDate
  <2>1. place.round - 1 = 0 /\ place.slot - 1 = 0 /\ 0 * TaskItems = 0 /\ Len(launches) = 0
    BY <1>1, <1>2
  <2> QED
    BY <1>2, <2>1 DEF UpToDate
<1>6. Counting
  <2>1. place.round - 1 = 0 /\ place.slot - 1 = 0 /\ 0 * Len(course.items) = 0
    BY <1>1, <1>2
  <2> QED
    BY <1>1, <2>1 DEF Counting
<1> QED
  BY <1>3, <1>4, <1>5, <1>6 DEF PageInv

\* What does not depend on the state of the runs.
LEMMA SameCourse ==
    ASSUME UNCHANGED course
    PROVE  \A k : TasksUpTo(k)' = TasksUpTo(k) /\ TaskItems' = TaskItems /\ TaskSlots' = TaskSlots
BY DEF TasksUpTo, TaskItems, TaskSlots

\* One more run in the list.
LEMMA OneMore ==
    ASSUME launches \in Seq(LaunchRuns), UNCHANGED course, NEW e \in LaunchRuns, launches' = Append(launches, e)
    PROVE  /\ launches' \in Seq(LaunchRuns') /\ Len(launches') = Len(launches) + 1 /\ Len(launches) \in Nat
           /\ DOMAIN launches = 1..Len(launches) /\ DOMAIN launches' = 1..Len(launches) + 1
           /\ \A n \in 1..Len(launches) : launches'[n] = launches[n]
           /\ launches'[Len(launches) + 1] = e
<1>1. LaunchRuns' = LaunchRuns
  BY SameCourse DEF LaunchRuns
<1> HIDE DEF LaunchRuns
<1> QED
  BY <1>1

LEMMA LaunchKeeps == PageInv /\ Launch => PageInv'
<1> SUFFICES ASSUME PageInv, Launch PROVE PageInv'
  OBVIOUS
<1>0. PageTypes /\ ByTheItems /\ UpToDate /\ Sleeping /\ Counting /\ WhenOver
  BY DEF PageInv
<1>1. /\ outcome = "running" /\ AtTask
      /\ place' = [place EXCEPT !.slot = @ + 1] /\ counted' = counted + 1
      /\ UNCHANGED <<course, wanted, marker, outcome>>
      /\ \/ launches' = Append(launches, NewRun(place.slot)) /\ UNCHANGED odd
         \/ Noted /\ UNCHANGED launches
  BY DEF Launch
<1>2. /\ course \in Courses /\ place.round \in 1..course.rounds /\ place.slot \in 1..Len(course.items) + 1
      /\ launches \in Seq(LaunchRuns) /\ odd \in -1..Len(launches) /\ Len(launches) \in Nat
      /\ Len(course.items) \in Nat /\ course.rounds \in Nat /\ TaskItems \in Nat
      /\ \A k \in Nat : TasksUpTo(k) \in Nat
      /\ DOMAIN course.items = 1..Len(course.items)
  BY <1>0, CourseTyped, TasksCounted DEF PageTypes
<1>20. /\ place.round \in Nat /\ place.slot \in Nat /\ place.round - 1 \in Nat /\ place.slot - 1 \in Nat
       /\ Len(launches) \in Nat /\ odd \in Int /\ -1 <= odd /\ odd <= Len(launches)
  <2>1. /\ place.round \in 1..course.rounds /\ place.slot \in 1..Len(course.items) + 1
        /\ Len(course.items) \in Nat /\ course.rounds \in Nat
    BY <1>2
  <2>2. place.round \in Nat /\ place.slot \in Nat /\ place.round - 1 \in Nat /\ place.slot - 1 \in Nat
    BY <2>1
  <2>3. odd \in -1..Len(launches) /\ Len(launches) \in Nat
    BY <1>2
  <2>4. odd \in Int /\ -1 <= odd /\ odd <= Len(launches)
    BY <2>3
  <2> QED
    BY <2>2, <2>3, <2>4
<1>3. place.slot \in TaskSlots /\ place.slot \in 1..Len(course.items) /\ course.items[place.slot] = "task"
  BY <1>1, <1>2 DEF AtTask, TaskSlots
<1>4. /\ \A k : TasksUpTo(k)' = TasksUpTo(k) /\ TaskItems' = TaskItems /\ TaskSlots' = TaskSlots
      /\ LaunchRuns' = LaunchRuns
  BY <1>1, SameCourse DEF LaunchRuns
<1>5. /\ place' \in [round : 1..course.rounds, slot : 1..Len(course.items) + 1]
      /\ place'.round = place.round /\ place'.slot = place.slot + 1 /\ place'.slot - 1 = place.slot
  <2> DEFINE R == 1..course.rounds
             S == 1..Len(course.items) + 1
  <2>1. place \in [round : R, slot : S] /\ place.slot + 1 \in S
    <3>1. place \in [round : R, slot : S]
      BY <1>0 DEF PageTypes
    <3>2. Len(course.items) \in Nat /\ place.slot \in 1..Len(course.items)
      BY <1>2, <1>3
    <3>3. place.slot + 1 \in S
      BY <3>2
    <3> QED
      BY <3>1, <3>3
  <2> HIDE DEF R, S
  <2>2. /\ place' \in [round : R, slot : S] /\ place'.round = place.round /\ place'.slot = place.slot + 1
    BY <1>1, <2>1
  <2>3. (place.slot + 1) - 1 = place.slot
    BY <1>20
  <2> QED
    BY <2>2, <2>3 DEF R, S
<1>6. marker.action # "sleep_started"
  BY <1>0, <1>1 DEF Sleeping, AtSleep, AtTask
<1>7. TasksUpTo(place.slot) = TasksUpTo(place.slot - 1) + 1 /\ TasksUpTo(place.slot - 1) \in Nat
  <2>1. place.slot - 1 \in Nat /\ course \in Courses
    BY <1>2, <1>20
  <2> QED
    BY <1>3, <2>1, TasksCounted
<1>8. Counting'
  <2> DEFINE a == (place.round - 1) * Len(course.items)
  <2>1. a \in Nat
    <3>1. place.round - 1 \in Nat /\ Len(course.items) \in Nat
      BY <1>2, <1>20
    <3> QED
      BY <3>1, Product
  <2>2. ((place.round - 1) * Len(course.items))' = a
    BY <1>1, <1>5
  <2>3. counted \in Nat /\ counted <= a + (place.slot - 1)
    BY <1>0 DEF Counting
  <2> HIDE DEF a
  <2>4. counted' \in Nat /\ counted' <= a + (place'.slot - 1)
    <3>1. counted' = counted + 1 /\ place'.slot - 1 = place.slot
      BY <1>1, <1>5
    <3> QED
      BY <1>20, <2>1, <2>3, <3>1
  <2>5. odd' = -1 => odd = -1
    BY <1>1, <1>2 DEF Noted
  <2>6. odd' = -1 /\ place'.round = 1 => counted' = place'.slot - 1
    BY <1>0, <1>1, <1>2, <1>5, <2>5 DEF Counting
  <2> QED
    BY <2>2, <2>4, <2>6 DEF Counting
<1>9. CASE launches' = Append(launches, NewRun(place.slot)) /\ UNCHANGED odd
  <2> DEFINE e == NewRun(place.slot)
  <2>1. e \in LaunchRuns /\ e.round = place.round /\ e.slot = place.slot /\ e.status = "running"
        /\ e.report = "missing"
    BY <1>2, <1>3 DEF NewRun, LaunchRuns, Stati4
  <2> HIDE DEF e
  <2>2. launches' = Append(launches, e)
    BY <1>9 DEF e
  <2>3. /\ launches' \in Seq(LaunchRuns') /\ Len(launches') = Len(launches) + 1
        /\ DOMAIN launches = 1..Len(launches) /\ DOMAIN launches' = 1..Len(launches) + 1
        /\ \A n \in 1..Len(launches) : launches'[n] = launches[n]
        /\ launches'[Len(launches) + 1] = e
    BY <1>1, <1>2, <2>1, <2>2, OneMore
  <2>4. PageTypes'
    <3>1. odd' \in -1..Len(launches')
      BY <1>2, <1>9, <2>3
    <3> QED
      BY <1>0, <1>1, <1>4, <1>5, <2>3, <3>1 DEF PageTypes, Marks
  <2>5. UpToDate'
    <3> SUFFICES ASSUME odd = -1 PROVE UpToDate'
      BY <1>9 DEF UpToDate
    <3>1. Len(launches) = (place.round - 1) * TaskItems + TasksUpTo(place.slot - 1)
      BY <1>0 DEF UpToDate
    <3>2. (place.round - 1) * TaskItems \in Nat
      <4>1. place.round - 1 \in Nat /\ TaskItems \in Nat
        BY <1>2, <1>20
      <4> QED
        BY <4>1, Product
    <3>3. Len(launches') = (place.round - 1) * TaskItems + TasksUpTo(place.slot)
      BY <1>7, <2>3, <3>1, <3>2
    <3> QED
      BY <1>4, <1>5, <3>3 DEF UpToDate
  <2>6. ByTheItems'
    <3> SUFFICES ASSUME NEW n \in 1..Certain'
                 PROVE  n = (launches'[n].round - 1) * TaskItems + TasksUpTo(launches'[n].slot)
      BY <1>4 DEF ByTheItems
    <3>1. CASE n \in 1..Len(launches)
      <4>1. n \in 1..Certain
        BY <1>9, <1>20, <3>1 DEF Certain
      <4> QED
        BY <1>0, <2>3, <3>1, <4>1 DEF ByTheItems
    <3>2. CASE n \notin 1..Len(launches)
      <4>1. odd = -1 /\ n = Len(launches) + 1
        BY <1>9, <1>20, <2>3, <3>2 DEF Certain
      <4>2. Len(launches') = (place.round - 1) * TaskItems + TasksUpTo(place.slot)
        BY <1>4, <1>5, <1>9, <2>5, <4>1 DEF UpToDate
      <4> QED
        BY <2>1, <2>3, <4>1, <4>2
    <3> QED
      BY <3>1, <3>2
  <2>7. Sleeping'
    BY <1>1, <1>6 DEF Sleeping
  <2>8. WhenOver'
    <3> SUFFICES ASSUME NEW n \in 1..Len(launches) + 1 PROVE launches'[n].report # "ready"
      BY <1>1, <2>3 DEF WhenOver
    <3>1. n \in 1..Len(launches) \/ n = Len(launches) + 1
      BY <1>20
    <3> QED
      BY <1>0, <1>1, <2>1, <2>3, <3>1 DEF WhenOver
  <2> QED
    BY <1>8, <2>4, <2>5, <2>6, <2>7, <2>8 DEF PageInv
<1>10. CASE Noted /\ UNCHANGED launches
  <2>1. odd' # -1 /\ odd' \in -1..Len(launches') /\ Certain' = Certain
    BY <1>2, <1>10 DEF Noted, Certain
  <2>2. PageTypes'
    BY <1>0, <1>1, <1>4, <1>5, <1>10, <2>1 DEF PageTypes, Marks
  <2>3. ByTheItems'
    BY <1>0, <1>4, <1>10, <2>1 DEF ByTheItems
  <2>4. UpToDate' /\ Sleeping' /\ WhenOver'
    BY <1>0, <1>1, <1>6, <1>10, <2>1 DEF UpToDate, Sleeping, WhenOver
  <2> QED
    BY <1>8, <2>2, <2>3, <2>4 DEF PageInv
<1> QED
  BY <1>1, <1>9, <1>10

LEMMA LeastOfTwo == ASSUME NEW a \in Int, NEW b \in Int PROVE Min({a, b}) = IF a <= b THEN a ELSE b
<1>1. \E x \in {a, b} : \A y \in {a, b} : x <= y
  OBVIOUS
<1>2. Min({a, b}) \in {a, b} /\ \A y \in {a, b} : Min({a, b}) <= y
  BY <1>1 DEF Min
<1> QED
  BY <1>2

LEMMA GreatestOfTwo == ASSUME NEW a \in Int, NEW b \in Int PROVE Max({a, b}) = IF a >= b THEN a ELSE b
<1>1. \E x \in {a, b} : \A y \in {a, b} : x >= y
  OBVIOUS
<1>2. Max({a, b}) \in {a, b} /\ \A y \in {a, b} : Max({a, b}) >= y
  BY <1>1 DEF Max
<1> QED
  BY <1>2

LEMMA PlaceIsTyped ==
    ASSUME PageTypes
    PROVE  /\ course \in Courses /\ place.round \in 1..course.rounds /\ place.slot \in 1..Len(course.items) + 1
           /\ place.round \in Nat /\ place.slot \in Nat /\ place.round - 1 \in Nat /\ place.slot - 1 \in Nat
           /\ Len(launches) \in Nat /\ odd \in Int /\ -1 <= odd /\ odd <= Len(launches)
           /\ Len(course.items) \in Nat /\ course.rounds \in Nat /\ TaskItems \in Nat
           /\ DOMAIN course.items = 1..Len(course.items) /\ DOMAIN launches = 1..Len(launches)
<1>1. /\ course \in Courses /\ place.round \in 1..course.rounds /\ place.slot \in 1..Len(course.items) + 1
      /\ odd \in -1..Len(launches)
  BY DEF PageTypes
<1>2. /\ Len(course.items) \in Nat /\ course.rounds \in Nat /\ TaskItems \in Nat
      /\ DOMAIN course.items = 1..Len(course.items)
  BY <1>1, CourseTyped, TasksCounted
<1>3. Len(launches) \in Nat /\ DOMAIN launches = 1..Len(launches)
  BY DEF PageTypes
<1>4. place.round \in Nat /\ place.slot \in Nat /\ place.round - 1 \in Nat /\ place.slot - 1 \in Nat
  BY <1>1, <1>2
<1>5. odd \in Int /\ -1 <= odd /\ odd <= Len(launches)
  BY <1>1, <1>3
<1> QED
  BY <1>1, <1>2, <1>3, <1>4, <1>5

\* A run more after the first irregularity.
LEMMA RetryKeeps == ASSUME NEW slot, PageInv, Retry(slot) PROVE PageInv'
<1>0. PageTypes /\ ByTheItems /\ UpToDate /\ Sleeping /\ Counting /\ WhenOver
  BY DEF PageInv
<1>1. /\ Settled /\ slot \in Lost /\ launches' = Append(launches, NewRun(slot)) /\ Noted
      /\ UNCHANGED <<course, wanted, place, counted, marker, outcome>>
  BY DEF Retry
<1>2. outcome = "running" /\ marker.action # "sleep_started"
  BY <1>1 DEF Settled
<1>3. slot \in TaskSlots
  <2> DEFINE last == Min({place.slot - 1, Len(course.items)})
  <2>1. slot \in 1..last /\ course.items[slot] = "task"
    BY <1>1 DEF Lost
  <2>2. place.slot - 1 \in Int /\ Len(course.items) \in Nat /\ DOMAIN course.items = 1..Len(course.items)
    BY <1>0, PlaceIsTyped
  <2>3. last \in Int /\ last <= Len(course.items)
    <3> DEFINE a == place.slot - 1
               b == Len(course.items)
    <3>1. a \in Int /\ b \in Int
      BY <2>2
    <3> HIDE DEF a, b
    <3>2. Min({a, b}) = IF a <= b THEN a ELSE b
      BY <3>1, LeastOfTwo
    <3>3. Min({a, b}) \in Int /\ Min({a, b}) <= b
      BY <3>1, <3>2
    <3> QED
      BY <3>3 DEF a, b
  <2> HIDE DEF last
  <2>4. slot \in 1..Len(course.items)
    BY <2>1, <2>2, <2>3
  <2> QED
    BY <2>1, <2>2, <2>4 DEF TaskSlots
<1> DEFINE e == NewRun(slot)
<1>4. e \in LaunchRuns /\ e.status = "running" /\ e.report = "missing"
  BY <1>0, <1>3, PlaceIsTyped DEF NewRun, LaunchRuns, Stati4
<1> HIDE DEF e
<1>5. /\ launches' \in Seq(LaunchRuns') /\ Len(launches') = Len(launches) + 1
      /\ DOMAIN launches = 1..Len(launches) /\ DOMAIN launches' = 1..Len(launches) + 1
      /\ \A n \in 1..Len(launches) : launches'[n] = launches[n]
      /\ launches'[Len(launches) + 1] = e
  <2>1. launches \in Seq(LaunchRuns) /\ launches' = Append(launches, e) /\ UNCHANGED course
    BY <1>0, <1>1 DEF PageTypes, e
  <2> QED
    BY <1>4, <2>1, OneMore
<1>6. Len(launches) \in Nat /\ odd \in Int /\ -1 <= odd /\ odd <= Len(launches)
  BY <1>0, PlaceIsTyped
<1>7. odd' # -1 /\ odd' \in -1..Len(launches') /\ Certain' = Certain /\ Certain <= Len(launches) /\ Certain \in Int
  BY <1>1, <1>5, <1>6 DEF Noted, Certain
<1>8. PageTypes'
  BY <1>0, <1>1, <1>5, <1>7 DEF PageTypes, Marks
<1>9. ByTheItems'
  <2> SUFFICES ASSUME NEW n \in 1..Certain
               PROVE  n = (launches'[n].round - 1) * TaskItems + TasksUpTo(launches'[n].slot)
    BY <1>1, <1>7, SameCourse DEF ByTheItems
  <2>1. n \in 1..Len(launches)
    BY <1>6, <1>7
  <2> QED
    BY <1>0, <1>5, <2>1 DEF ByTheItems
<1>10. UpToDate' /\ Sleeping' /\ Counting'
  BY <1>0, <1>1, <1>2, <1>7 DEF UpToDate, Sleeping, Counting
<1>11. WhenOver'
  <2> SUFFICES ASSUME NEW n \in 1..Len(launches) + 1 PROVE launches'[n].report # "ready"
    BY <1>1, <1>2, <1>5 DEF WhenOver
  <2>1. n \in 1..Len(launches) \/ n = Len(launches) + 1
    BY <1>6
  <2> QED
    BY <1>0, <1>2, <1>4, <1>5, <2>1 DEF WhenOver
<1> QED
  BY <1>8, <1>9, <1>10, <1>11 DEF PageInv

LEMMA StartSleepKeeps == PageInv /\ StartSleep => PageInv'
<1> SUFFICES ASSUME PageInv, StartSleep PROVE PageInv'
  OBVIOUS
<1>0. PageTypes /\ ByTheItems /\ UpToDate /\ Sleeping /\ Counting /\ WhenOver
  BY DEF PageInv
<1>1. /\ AtSleep
      /\ marker' = [round |-> place.round, item |-> counted + 1, action |-> "sleep_started"]
      /\ UNCHANGED <<course, wanted, launches, place, counted, outcome, odd>>
  BY DEF StartSleep
<1>2. marker' \in Marks
  <2>1. place.round \in Nat /\ counted + 1 \in Nat
    BY <1>0, PlaceIsTyped DEF Counting
  <2> QED
    BY <1>1, <2>1 DEF Marks
<1>3. PageTypes'
  <2>1. LaunchRuns' = LaunchRuns /\ Marks' = Marks
    BY <1>1, SameCourse DEF LaunchRuns, Marks
  <2> QED
    BY <1>0, <1>1, <1>2, <2>1 DEF PageTypes
<1>4. Sleeping'
  BY <1>1 DEF Sleeping, AtSleep
<1>5. ByTheItems' /\ UpToDate'
  <2>1. Certain' = Certain
    BY <1>1 DEF Certain
  <2> QED
    BY <1>0, <1>1, <2>1, SameCourse DEF ByTheItems, UpToDate
<1>6. Counting' /\ WhenOver'
  BY <1>0, <1>1 DEF Counting, WhenOver
<1> QED
  BY <1>3, <1>4, <1>5, <1>6 DEF PageInv

LEMMA EndSleepKeeps == PageInv /\ EndSleep => PageInv'
<1> SUFFICES ASSUME PageInv, EndSleep PROVE PageInv'
  OBVIOUS
<1>0. PageTypes /\ ByTheItems /\ UpToDate /\ Sleeping /\ Counting /\ WhenOver
  BY DEF PageInv
<1>1. /\ marker.action = "sleep_started" /\ marker' = [marker EXCEPT !.action = "sleep_completed"]
      /\ place' = [place EXCEPT !.slot = @ + 1] /\ counted' = counted + 1
      /\ UNCHANGED <<course, wanted, launches, outcome, odd>>
  BY DEF EndSleep
<1>2. /\ course \in Courses /\ place.round \in Nat /\ place.slot \in Nat /\ place.round - 1 \in Nat
      /\ place.slot - 1 \in Nat /\ place.slot \in 1..Len(course.items) + 1
      /\ Len(course.items) \in Nat /\ TaskItems \in Nat /\ DOMAIN course.items = 1..Len(course.items)
  BY <1>0, PlaceIsTyped
<1>3. place.slot \in 1..Len(course.items) /\ course.items[place.slot] # "task"
  BY <1>0, <1>1, <1>2 DEF Sleeping, AtSleep
<1>4. /\ place' \in [round : 1..course.rounds, slot : 1..Len(course.items) + 1]
      /\ place'.round = place.round /\ place'.slot = place.slot + 1 /\ place'.slot - 1 = place.slot
  <2> DEFINE R == 1..course.rounds
             S == 1..Len(course.items) + 1
  <2>1. place \in [round : R, slot : S]
    BY <1>0 DEF PageTypes
  <2>2. place.slot + 1 \in S /\ (place.slot + 1) - 1 = place.slot
    BY <1>2, <1>3
  <2> HIDE DEF R, S
  <2>3. /\ place' \in [round : R, slot : S] /\ place'.round = place.round /\ place'.slot = place.slot + 1
    BY <1>1, <2>1, <2>2
  <2> QED
    BY <2>2, <2>3 DEF R, S
<1>5. marker' \in Marks /\ marker'.action = "sleep_completed"
  BY <1>0, <1>1 DEF PageTypes, Marks
<1>6. PageTypes'
  <2>1. LaunchRuns' = LaunchRuns /\ Marks' = Marks
    BY <1>1, SameCourse DEF LaunchRuns, Marks
  <2> QED
    BY <1>0, <1>1, <1>4, <1>5, <2>1 DEF PageTypes
<1>7. UpToDate'
  <2>1. TasksUpTo(place.slot) = TasksUpTo(place.slot - 1)
    BY <1>2, <1>3, TasksCounted
  <2> QED
    BY <1>0, <1>1, <1>4, <2>1, SameCourse DEF UpToDate
<1>8. Counting'
  <2> DEFINE a == (place.round - 1) * Len(course.items)
  <2>1. a \in Nat
    BY <1>2, Product
  <2>2. ((place.round - 1) * Len(course.items))' = a
    BY <1>1, <1>4
  <2>3. counted \in Nat /\ counted <= a + (place.slot - 1)
    BY <1>0 DEF Counting
  <2> HIDE DEF a
  <2>4. counted' \in Nat /\ counted' <= a + (place'.slot - 1)
    <3>1. counted' = counted + 1 /\ place'.slot - 1 = place.slot
      BY <1>1, <1>4
    <3> QED
      BY <1>2, <2>1, <2>3, <3>1
  <2>6. odd' = -1 /\ place'.round = 1 => counted' = place'.slot - 1
    BY <1>0, <1>1, <1>2, <1>4 DEF Counting
  <2> QED
    BY <2>2, <2>4, <2>6 DEF Counting
<1>9. ByTheItems' /\ Sleeping' /\ WhenOver'
  <2>1. Certain' = Certain
    BY <1>1 DEF Certain
  <2> QED
    BY <1>0, <1>1, <1>5, <2>1, SameCourse DEF ByTheItems, Sleeping, WhenOver
<1> QED
  BY <1>6, <1>7, <1>8, <1>9 DEF PageInv

\* The course of the runs, or their reports.
LEMMA SameRunsKeep ==
    ASSUME PageTypes, ByTheItems, UpToDate, UNCHANGED <<course, wanted, place, odd>>,
           Len(launches') = Len(launches), launches' \in Seq(LaunchRuns), marker' \in Marks, outcome' \in Stati4,
           \A n \in 1..Len(launches) : launches'[n].round = launches[n].round /\ launches'[n].slot = launches[n].slot
    PROVE  PageTypes' /\ ByTheItems' /\ UpToDate'
<1>1. LaunchRuns' = LaunchRuns /\ Marks' = Marks /\ Stati4' = Stati4
  BY SameCourse DEF LaunchRuns, Marks, Stati4
<1>2. PageTypes'
  BY <1>1 DEF PageTypes
<1>3. Certain' = Certain /\ \A n \in 1..Certain : n \in 1..Len(launches)
  BY PlaceIsTyped DEF Certain
<1>4. ByTheItems'
  BY <1>3, SameCourse DEF ByTheItems
<1>5. UpToDate'
  BY SameCourse DEF UpToDate
<1> QED
  BY <1>2, <1>4, <1>5

LEMMA LeaveRoundKeeps == PageInv /\ LeaveRound => PageInv'
<1> SUFFICES ASSUME PageInv, LeaveRound PROVE PageInv'
  OBVIOUS
<1>0. PageTypes /\ ByTheItems /\ UpToDate /\ Sleeping /\ Counting /\ WhenOver
  BY DEF PageInv
<1>1. /\ Settled /\ UNCHANGED <<course, wanted, launches, counted, marker>>
      /\ \/ place.slot > Len(course.items) /\ UNCHANGED odd
         \/ place.slot <= Len(course.items) /\ Lost # {} /\ Noted
  BY DEF LeaveRound
<1>2. /\ outcome = "running" /\ marker.action # "sleep_started"
      /\ \A n \in DOMAIN launches : launches[n].status # "running"
  BY <1>1 DEF Settled
<1>3. /\ course \in Courses /\ place.round \in Nat /\ place.slot \in Nat /\ place.round - 1 \in Nat
      /\ place.slot - 1 \in Nat /\ place.slot \in 1..Len(course.items) + 1
      /\ place.round \in 1..course.rounds /\ course.rounds \in Nat
      /\ Len(course.items) \in Nat /\ TaskItems \in Nat /\ DOMAIN course.items = 1..Len(course.items)
      /\ Len(launches) \in Nat /\ odd \in Int /\ -1 <= odd /\ odd <= Len(launches)
  BY <1>0, PlaceIsTyped
<1>4. \/ odd' = odd /\ place.slot = Len(course.items) + 1
      \/ odd' # -1
  BY <1>1, <1>3 DEF Noted
<1>5. odd' \in -1..Len(launches) /\ Certain' = Certain
  BY <1>1, <1>3 DEF Noted, Certain
<1>6. /\ LaunchRuns' = LaunchRuns /\ Marks' = Marks /\ Stati4' = Stati4 /\ TaskItems' = TaskItems
      /\ \A k : TasksUpTo(k)' = TasksUpTo(k)
  BY <1>1, SameCourse DEF LaunchRuns, Marks, Stati4
<1>7. ByTheItems' /\ Sleeping'
  BY <1>0, <1>1, <1>2, <1>5, <1>6 DEF ByTheItems, Sleeping
<1>8. CASE place.round < course.rounds
  <2>1. place' = [round |-> place.round + 1, slot |-> 1] /\ outcome' = outcome
    BY <1>8 DEF LeaveRound
  <2>2. place.round + 1 \in 1..course.rounds /\ 1 \in 1..Len(course.items) + 1
        /\ (place.round + 1) - 1 = place.round /\ 1 - 1 = 0
    BY <1>3, <1>8
  <2>3. /\ place' \in [round : 1..course.rounds, slot : 1..Len(course.items) + 1]
        /\ place'.round - 1 = place.round /\ place'.slot - 1 = 0 /\ place'.round = place.round + 1
    BY <2>1, <2>2
  <2>4. PageTypes'
    BY <1>0, <1>1, <1>5, <1>6, <2>1, <2>3 DEF PageTypes
  <2>5. WhenOver'
    BY <1>0, <1>1, <2>1 DEF WhenOver
  <2>6. UpToDate'
    <3> SUFFICES ASSUME odd' = -1 PROVE Len(launches) = place.round * TaskItems + TasksUpTo(0)
      BY <1>1, <1>6, <2>3 DEF UpToDate
    <3>1. odd = -1 /\ place.slot - 1 = Len(course.items)
      BY <1>3, <1>4
    <3>2. Len(launches) = (place.round - 1) * TaskItems + TaskItems
      BY <1>0, <3>1 DEF UpToDate, TaskItems
    <3>3. (place.round - 1) * TaskItems = place.round * TaskItems - TaskItems /\ place.round * TaskItems \in Nat
      <4>1. place.round \in Int /\ TaskItems \in Int
        BY <1>3
      <4> QED
        BY <1>3, <4>1, NextProduct, Product
    <3>4. TasksUpTo(0) = 0
      BY <1>3, TasksCounted
    <3> QED
      BY <1>3, <3>2, <3>3, <3>4
  <2>7. Counting'
    <3> DEFINE l == Len(course.items)
               a == (place.round - 1) * l
               b == place.round * l
    <3>1. a = b - l /\ a \in Nat /\ b \in Nat
      <4>1. place.round \in Int /\ l \in Int /\ l \in Nat /\ place.round - 1 \in Nat /\ place.round \in Nat
        BY <1>3
      <4> HIDE DEF l
      <4> QED
        BY <4>1, NextProduct, Product
    <3>2. counted \in Nat /\ counted <= a + (place.slot - 1)
      BY <1>0 DEF Counting
    <3>3. place.slot - 1 <= l /\ l \in Nat /\ place.slot - 1 \in Nat
      BY <1>3
    <3>4. ((place.round - 1) * Len(course.items))' = b
      BY <1>1, <2>3
    <3> HIDE DEF a, b, l
    <3>5. counted <= b + 0
      BY <3>1, <3>2, <3>3
    <3>6. place'.round # 1
      BY <1>3, <2>3
    <3> QED
      BY <1>1, <2>3, <3>2, <3>4, <3>5, <3>6 DEF Counting
  <2> QED
    BY <1>7, <2>4, <2>5, <2>6, <2>7 DEF PageInv
<1>9. CASE ~(place.round < course.rounds)
  <2>1. outcome' \in {"succeeded", "failed"} /\ place' = place
    BY <1>9 DEF LeaveRound
  <2>2. PageTypes'
    BY <1>0, <1>1, <1>5, <1>6, <2>1 DEF PageTypes, Stati4
  <2>3. WhenOver'
    BY <1>1, <1>2, <2>1 DEF WhenOver
  <2>4. UpToDate' /\ Counting'
    <3>1. odd' = -1 => odd = -1
      BY <1>1, <1>3 DEF Noted
    <3> QED
      BY <1>0, <1>1, <1>6, <2>1, <3>1 DEF UpToDate, Counting
  <2> QED
    BY <1>7, <2>2, <2>3, <2>4 DEF PageInv
<1> QED
  BY <1>8, <1>9

LEMMA StopKeeps == PageInv /\ Stop => PageInv'
<1> SUFFICES ASSUME PageInv, Stop PROVE PageInv'
  OBVIOUS
<1>0. PageTypes /\ ByTheItems /\ UpToDate /\ Sleeping /\ Counting /\ WhenOver
  BY DEF PageInv
<1> DEFINE After(e) == IF e.status = "running" THEN [e EXCEPT !.status = "stopped"] ELSE e
<1>1. /\ outcome = "running" /\ outcome' = "stopped"
      /\ launches' = [n \in DOMAIN launches |-> After(launches[n])]
      /\ marker' = IF marker.action = "sleep_started" THEN [marker EXCEPT !.action = "sleep_interrupted"] ELSE marker
      /\ UNCHANGED <<course, wanted, place, counted, odd>>
  BY DEF Stop
<1>2. \A e \in LaunchRuns : /\ After(e) \in LaunchRuns /\ After(e).round = e.round /\ After(e).slot = e.slot
                            /\ After(e).status # "running"
  BY DEF LaunchRuns, Stati4
<1> HIDE DEF After
<1>3. launches \in Seq(LaunchRuns) /\ Len(launches) \in Nat /\ DOMAIN launches = 1..Len(launches)
  BY <1>0, PlaceIsTyped DEF PageTypes
<1>4. \A n \in 1..Len(launches) : launches[n] \in LaunchRuns
  BY <1>3
<1>5. launches' \in [1..Len(launches) -> LaunchRuns]
  BY <1>1, <1>2, <1>3, <1>4
<1>6. launches' \in Seq(LaunchRuns) /\ Len(launches') = Len(launches) /\ DOMAIN launches' = 1..Len(launches)
  BY <1>3, <1>5
<1>7. \A n \in 1..Len(launches) :
         /\ launches'[n].round = launches[n].round /\ launches'[n].slot = launches[n].slot
         /\ launches'[n].status # "running"
  BY <1>1, <1>2, <1>3, <1>4
<1>8. marker' \in Marks /\ marker'.action # "sleep_started"
  <2>1. marker \in Marks
    BY <1>0 DEF PageTypes
  <2>2. [marker EXCEPT !.action = "sleep_interrupted"] \in Marks
        /\ [marker EXCEPT !.action = "sleep_interrupted"].action = "sleep_interrupted"
    BY <2>1 DEF Marks
  <2> QED
    BY <1>1, <2>1, <2>2
<1>9. PageTypes' /\ ByTheItems' /\ UpToDate'
  <2>1. outcome' \in Stati4
    BY <1>1 DEF Stati4
  <2> QED
    BY <1>0, <1>1, <1>6, <1>7, <1>8, <2>1, SameRunsKeep
<1>10. Sleeping' /\ Counting' /\ WhenOver'
  BY <1>0, <1>1, <1>6, <1>7, <1>8 DEF Sleeping, Counting, WhenOver
<1> QED
  BY <1>9, <1>10 DEF PageInv

LEMMA EditRoundsKeeps == PageInv /\ EditRounds => PageInv'
<1> SUFFICES ASSUME PageInv, EditRounds PROVE PageInv'
  OBVIOUS
<1>0. PageTypes /\ ByTheItems /\ UpToDate /\ Sleeping /\ Counting /\ WhenOver
  BY DEF PageInv
<1>1. wanted' \in 1..MaxRounds /\ UNCHANGED <<course, launches, place, counted, marker, outcome, odd>>
  BY DEF EditRounds
<1>2. PageTypes'
  <2>1. LaunchRuns' = LaunchRuns /\ Marks' = Marks /\ Stati4' = Stati4
    BY <1>1, SameCourse DEF LaunchRuns, Marks, Stati4
  <2> QED
    BY <1>0, <1>1, <2>1 DEF PageTypes
<1>3. ByTheItems' /\ UpToDate'
  BY <1>0, <1>1, SameCourse DEF ByTheItems, UpToDate, Certain
<1>4. Sleeping' /\ Counting' /\ WhenOver'
  BY <1>0, <1>1 DEF Sleeping, AtSleep, Counting, WhenOver
<1> QED
  BY <1>2, <1>3, <1>4 DEF PageInv

\* One run, at one field.
LEMMA OneRun ==
    ASSUME PageTypes, NEW n \in DOMAIN launches, NEW e \in LaunchRuns,
           e.round = launches[n].round, e.slot = launches[n].slot,
           launches' = [launches EXCEPT ![n] = e]
    PROVE  /\ launches' \in Seq(LaunchRuns) /\ Len(launches') = Len(launches)
           /\ DOMAIN launches' = DOMAIN launches
           /\ \A i \in 1..Len(launches) : launches'[i].round = launches[i].round /\ launches'[i].slot = launches[i].slot
           /\ launches'[n] = e /\ \A i \in DOMAIN launches \ {n} : launches'[i] = launches[i]
<1>1. launches \in Seq(LaunchRuns) /\ Len(launches) \in Nat /\ DOMAIN launches = 1..Len(launches)
  BY PlaceIsTyped DEF PageTypes
<1> HIDE DEF LaunchRuns
<1>2. launches' \in Seq(LaunchRuns) /\ Len(launches') = Len(launches) /\ DOMAIN launches' = DOMAIN launches
  BY <1>1
<1>3. launches'[n] = e /\ \A i \in DOMAIN launches \ {n} : launches'[i] = launches[i]
  BY <1>1
<1> QED
  BY <1>1, <1>2, <1>3

LEMMA ChildEndsKeeps == ASSUME NEW n \in DOMAIN launches, PageInv, ChildEnds(n) PROVE PageInv'
<1>0. PageTypes /\ ByTheItems /\ UpToDate /\ Sleeping /\ Counting /\ WhenOver
  BY DEF PageInv
<1>1. PICK s \in {"succeeded", "failed"} : launches' = [launches EXCEPT ![n].status = s]
  BY DEF ChildEnds
<1>2. launches[n].status = "running" /\ UNCHANGED <<course, wanted, place, counted, marker, outcome, odd>>
  BY DEF ChildEnds
<1> DEFINE e == [launches[n] EXCEPT !.status = s]
<1>3. launches[n] \in LaunchRuns
  BY <1>0 DEF PageTypes
<1>4. /\ e \in LaunchRuns /\ e.round = launches[n].round /\ e.slot = launches[n].slot
      /\ e.report = launches[n].report
  BY <1>3 DEF LaunchRuns, Stati4
<1>5. launches' = [launches EXCEPT ![n] = e]
  BY <1>1
<1> HIDE DEF e
<1>6. /\ launches' \in Seq(LaunchRuns) /\ Len(launches') = Len(launches) /\ DOMAIN launches' = DOMAIN launches
      /\ \A i \in 1..Len(launches) : launches'[i].round = launches[i].round /\ launches'[i].slot = launches[i].slot
      /\ launches'[n] = e /\ \A i \in DOMAIN launches \ {n} : launches'[i] = launches[i]
  BY <1>0, <1>4, <1>5, OneRun
<1>7. PageTypes' /\ ByTheItems' /\ UpToDate'
  <2>1. marker' \in Marks /\ outcome' \in Stati4
    BY <1>0, <1>2 DEF PageTypes
  <2> QED
    BY <1>0, <1>2, <1>6, <2>1, SameRunsKeep
<1>8. Sleeping' /\ Counting'
  BY <1>0, <1>2 DEF Sleeping, AtSleep, Counting
<1>9. WhenOver'
  <2>1. outcome = "running"
    BY <1>0, <1>2 DEF WhenOver
  <2>2. \A i \in DOMAIN launches : launches'[i].report = launches[i].report
    BY <1>4, <1>6
  <2> QED
    BY <1>0, <1>2, <1>6, <2>1, <2>2 DEF WhenOver
<1> QED
  BY <1>7, <1>8, <1>9 DEF PageInv

LEMMA ReportedKeeps == ASSUME NEW n \in DOMAIN launches, PageInv, Reported(n) PROVE PageInv'
<1>0. PageTypes /\ ByTheItems /\ UpToDate /\ Sleeping /\ Counting /\ WhenOver
  BY DEF PageInv
<1>1. /\ outcome # "running" /\ launches' = [launches EXCEPT ![n].report = "ready"]
      /\ UNCHANGED <<course, wanted, place, counted, marker, outcome, odd>>
  BY DEF Reported
<1> DEFINE e == [launches[n] EXCEPT !.report = "ready"]
<1>3. launches[n] \in LaunchRuns
  BY <1>0 DEF PageTypes
<1>4. /\ e \in LaunchRuns /\ e.round = launches[n].round /\ e.slot = launches[n].slot
      /\ e.status = launches[n].status
  BY <1>3 DEF LaunchRuns, Stati4
<1>5. launches' = [launches EXCEPT ![n] = e]
  BY <1>1
<1> HIDE DEF e
<1>6. /\ launches' \in Seq(LaunchRuns) /\ Len(launches') = Len(launches) /\ DOMAIN launches' = DOMAIN launches
      /\ \A i \in 1..Len(launches) : launches'[i].round = launches[i].round /\ launches'[i].slot = launches[i].slot
      /\ launches'[n] = e /\ \A i \in DOMAIN launches \ {n} : launches'[i] = launches[i]
  BY <1>0, <1>4, <1>5, OneRun
<1>7. PageTypes' /\ ByTheItems' /\ UpToDate'
  <2>1. marker' \in Marks /\ outcome' \in Stati4
    BY <1>0, <1>1 DEF PageTypes
  <2> QED
    BY <1>0, <1>1, <1>6, <2>1, SameRunsKeep
<1>8. Sleeping' /\ Counting'
  BY <1>0, <1>1 DEF Sleeping, AtSleep, Counting
<1>9. WhenOver'
  <2>2. \A i \in DOMAIN launches : launches'[i].status = launches[i].status
    BY <1>4, <1>6
  <2> QED
    BY <1>0, <1>1, <1>6, <2>2 DEF WhenOver
<1> QED
  BY <1>7, <1>8, <1>9 DEF PageInv

LEMMA PagesKeep == PageInv /\ [PageNext]_pageVars => PageInv'
<1> SUFFICES ASSUME PageInv, [PageNext]_pageVars PROVE PageInv'
  OBVIOUS
<1>1. CASE UNCHANGED pageVars
  <2>1. PageTypes'
    BY <1>1, SameCourse DEF pageVars, PageInv, PageTypes, LaunchRuns, Marks, Stati4
  <2>2. ByTheItems' /\ UpToDate'
    BY <1>1, SameCourse DEF pageVars, PageInv, ByTheItems, UpToDate, Certain
  <2>3. Sleeping' /\ Counting' /\ WhenOver'
    BY <1>1 DEF pageVars, PageInv, Sleeping, AtSleep, Counting, WhenOver
  <2> QED
    BY <2>1, <2>2, <2>3 DEF PageInv
<1>2. CASE \E slot \in DOMAIN course.items : Retry(slot)
  BY <1>2, RetryKeeps
<1>3. CASE \E n \in DOMAIN launches : ChildEnds(n) \/ Reported(n)
  BY <1>3, ChildEndsKeeps, ReportedKeeps
<1> QED
  BY <1>1, <1>2, <1>3, LaunchKeeps, StartSleepKeeps, EndSleepKeeps, LeaveRoundKeeps, StopKeeps, EditRoundsKeeps
     DEF PageNext

\* The bounds of a page: the runs of round r are those up to r times the items.
LEMMA SliceIs ==
    ASSUME PageTypes, NEW r \in Nat \ {0}
    PROVE  /\ (r - 1) * TaskItems \in Nat /\ r * TaskItems \in Nat
           /\ r * TaskItems = (r - 1) * TaskItems + TaskItems
           /\ Len(Slice(r)) \in Nat
           /\ \A k \in Nat : k <= Len(Slice(r)) =>
                 (k = 0 \/ (r - 1) * TaskItems + k <= Len(launches)) /\ k <= TaskItems
           /\ \A k \in 1..TaskItems :
                 (r - 1) * TaskItems + k <= Len(launches) => k \in 1..Len(Slice(r))
           /\ \A k \in 1..Len(Slice(r)) : Slice(r)[k] = launches[(r - 1) * TaskItems + k]
           /\ Slice(r) \in Seq(LaunchRuns)
<1> DEFINE T == TaskItems
           L == Len(launches)
           a == (r - 1) * T
           b == r * T
           c == Min({b, L})
<1>1. T \in Nat /\ L \in Nat /\ r - 1 \in Nat /\ r \in Int /\ T \in Int
  BY PlaceIsTyped
<1>2. a \in Nat /\ b \in Nat /\ b = a + T
  <2> HIDE DEF T
  <2>1. a \in Nat /\ b \in Nat
    BY <1>1, Product
  <2>2. a = b - T
    BY <1>1, NextProduct
  <2> HIDE DEF a, b
  <2> QED
    BY <1>1, <2>1, <2>2
<1> HIDE DEF T, L, a, b
<1>3. c = IF b <= L THEN b ELSE L
  BY <1>1, <1>2, LeastOfTwo
<1> HIDE DEF c
<1>4. launches \in Seq(LaunchRuns) /\ DOMAIN launches = 1..L
  BY PlaceIsTyped DEF PageTypes, L
<1>5. Slice(r) = SubSeq(launches, a + 1, c)
  BY DEF Slice, a, b, c, L, T
<1>6. c \in Nat /\ c <= L /\ c <= a + T
  BY <1>1, <1>2, <1>3
<1>7. /\ Len(Slice(r)) = IF a + 1 <= c THEN c - a ELSE 0
      /\ \A k \in 1..Len(Slice(r)) : Slice(r)[k] = launches[a + k]
      /\ Slice(r) \in Seq(LaunchRuns)
  <2> DEFINE R == LaunchRuns
  <2>1. launches \in Seq(R) /\ L = Len(launches)
    BY <1>4 DEF L
  <2> HIDE DEF R
  <2>2. SubSeq(launches, a + 1, c) \in Seq(R)
    <3>1. \A i \in a + 1..c : i \in 1..Len(launches)
      BY <1>1, <1>2, <1>6, <2>1
    <3> QED
      BY <1>2, <1>6, <2>1, <3>1
  <2>3. Len(SubSeq(launches, a + 1, c)) = IF a + 1 <= c THEN c - a ELSE 0
    BY <1>2, <1>6, <2>1
  <2>4. ASSUME NEW k \in 1..Len(SubSeq(launches, a + 1, c))
        PROVE  SubSeq(launches, a + 1, c)[k] = launches[a + k]
    BY <1>2, <1>6, <2>1, <2>3
  <2> QED
    BY <1>5, <2>2, <2>3, <2>4 DEF R
<1>8. Len(Slice(r)) \in Nat
  BY <1>2, <1>6, <1>7
<1>9. \A k \in Nat : k <= Len(Slice(r)) => (k = 0 \/ a + k <= L) /\ k <= T
  BY <1>1, <1>2, <1>6, <1>7
<1>10. \A k \in 1..T : a + k <= L => k \in 1..Len(Slice(r))
  BY <1>1, <1>2, <1>3, <1>7
<1> QED
  BY <1>2, <1>7, <1>8, <1>9, <1>10 DEF a, b, T, L

\* There are as many pages as the runs take.
LEMMA RoundsSuffice ==
    ASSUME PageTypes
    PROVE  /\ TotalRounds \in Nat \ {0}
           /\ TaskItems # 0 =>
                 /\ Len(launches) <= TotalRounds * TaskItems
                 /\ \A r \in Nat \ {0} : (r - 1) * TaskItems < Len(launches) => r <= TotalRounds
           /\ TaskItems = 0 => launches = <<>>
<1>1. /\ TaskItems \in Nat /\ Len(launches) \in Nat /\ wanted \in Nat /\ wanted >= 1
      /\ launches \in Seq(LaunchRuns) /\ course \in Courses
  BY PlaceIsTyped, CourseTyped DEF PageTypes
<1>2. CASE TaskItems = 0
  <2>1. TaskSlots = {}
    BY <1>1, <1>2, TasksCounted
  <2>2. LaunchRuns = {}
    BY <2>1 DEF LaunchRuns
  <2>3. launches = <<>>
    BY <1>1, <2>2
  <2> QED
    BY <1>1, <1>2, <2>3 DEF TotalRounds
<1>3. CASE TaskItems # 0
  <2> DEFINE T == TaskItems
             L == Len(launches)
             q == (L + T - 1) \div T
             R == TotalRounds
  <2>1. T \in Nat \ {0} /\ L \in Nat /\ L + T - 1 \in Nat
    BY <1>1, <1>3
  <2>2. R = Max({wanted, q})
    BY <1>3 DEF TotalRounds
  <2> HIDE DEF T, L
  <2>3. q \in Nat /\ L + T - 1 = T * q + ((L + T - 1) % T) /\ (L + T - 1) % T \in 0..T - 1
    BY <2>1, Division
  <2> HIDE DEF q, R
  <2>4. R = IF wanted >= q THEN wanted ELSE q
    BY <1>1, <2>2, <2>3, GreatestOfTwo
  <2>5. R \in Nat \ {0} /\ q <= R
    BY <1>1, <2>3, <2>4
  <2>6. L <= T * q
    <3>1. T * q \in Nat
      BY <2>1, <2>3, Product
    <3> QED
      BY <2>1, <2>3, <3>1
  <2>7. T * q = q * T /\ q * T <= R * T /\ q * T \in Nat /\ R * T \in Nat
    <3>1. q \in Nat /\ R \in Nat /\ T \in Nat /\ q <= R
      BY <2>1, <2>3, <2>5
    <3> QED
      BY <3>1, ProductsGrow
  <2>8. ASSUME NEW r \in Nat \ {0}, (r - 1) * T < L PROVE r <= R
    <3> SUFFICES ASSUME q < r PROVE FALSE
      BY <2>3, <2>5
    <3>1. q <= r - 1 /\ q \in Nat /\ r - 1 \in Nat /\ T \in Nat
      BY <2>1, <2>3
    <3>2. q * T <= (r - 1) * T /\ q * T \in Nat /\ (r - 1) * T \in Nat
      BY <3>1, ProductsGrow
    <3> QED
      BY <2>1, <2>6, <2>7, <2>8, <3>2
  <2>9. L <= R * T
    BY <2>1, <2>6, <2>7
  <2> QED
    BY <1>3, <2>5, <2>8, <2>9 DEF T, L, R
<1> QED
  BY <1>2, <1>3

LEMMA OwnItemsThen == PageInv => OwnItems
<1> SUFFICES ASSUME PageInv, NEW n \in 1..Certain
             PROVE  /\ launches[n].round <= TotalRounds
                    /\ Records(launches[n].round)[launches[n].slot].run = launches[n]
  BY DEF OwnItems
<1>0. PageTypes /\ ByTheItems /\ Certain <= Len(launches) /\ Certain \in Int
  <2>1. PageTypes /\ ByTheItems
    BY DEF PageInv
  <2> QED
    BY <2>1, PlaceIsTyped DEF Certain
<1> DEFINE r == launches[n].round
           s == launches[n].slot
           k == TasksUpTo(s)
           a == (r - 1) * TaskItems
<1>1. course \in Courses /\ n \in DOMAIN launches /\ launches[n] \in LaunchRuns /\ n \in 1..Len(launches)
  BY <1>0, PlaceIsTyped DEF PageTypes
<1>2. r \in 1..course.rounds /\ s \in TaskSlots /\ course.rounds \in Nat
  BY <1>1, CourseTyped DEF LaunchRuns
<1>3. r \in Nat \ {0} /\ s \in DOMAIN course.items /\ course.items[s] = "task"
  BY <1>2 DEF TaskSlots
<1>4. k \in 1..TaskItems /\ TaskItems \in Nat
  BY <1>1, <1>2, TasksCounted
<1>5. n = a + k
  BY <1>0 DEF ByTheItems
<1>6. a \in Nat
  BY <1>0, <1>3, SliceIs
<1>7. k \in 1..Len(Slice(r)) /\ Slice(r)[k] = launches[a + k]
  <2>1. a + k <= Len(launches)
    BY <1>0, <1>1, <1>5
  <2> QED
    BY <1>0, <1>3, <1>4, <2>1, SliceIs
<1>8. r <= TotalRounds
  <2>1. a < Len(launches) /\ TaskItems # 0
    <3> HIDE DEF a, k
    <3> QED
      BY <1>0, <1>1, <1>4, <1>5, <1>6, PlaceIsTyped
  <2> QED
    BY <1>0, <1>3, <2>1, RoundsSuffice
<1>9. Records(r)[s].run = launches[n]
  <2>1. Records(r)[s] = Record(r, s)
    BY <1>3 DEF Records
  <2>2. k <= Len(Slice(r)) /\ Slice(r)[k] = launches[n]
    <3>1. Len(Slice(r)) \in Nat
      BY <1>0, <1>3, SliceIs
    <3>2. launches[a + k] = launches[n]
      BY <1>5
    <3> HIDE DEF k, a
    <3> QED
      BY <1>7, <3>1, <3>2
  <2> QED
    BY <1>3, <2>1, <2>2 DEF Record
<1> QED
  BY <1>8, <1>9

LEMMA SleepIsShownThen == PageInv => SleepIsShown
<1> SUFFICES ASSUME PageInv, marker.action = "sleep_started", marker.round = 1, odd = -1
             PROVE  Records(1)[place.slot].status = "running"
  BY DEF SleepIsShown
<1>1. AtSleep /\ marker.round = place.round /\ marker.item = counted + 1 /\ counted = place.slot - 1
  BY DEF PageInv, Sleeping, Counting
<1>2. PageTypes
  BY DEF PageInv
<1>3. marker.item = place.slot /\ place.slot \in DOMAIN course.items /\ course.items[place.slot] = "sleep"
  BY <1>1, <1>2, PlaceIsTyped DEF AtSleep
<1>4. Records(1)[place.slot] = Record(1, place.slot)
  BY <1>3 DEF Records
<1>5. SleepStatus(1, place.slot) = "running"
  BY <1>3 DEF SleepStatus
<1> QED
  BY <1>3, <1>4, <1>5 DEF Record

LEMMA Concatenation ==
    ASSUME NEW A, NEW s \in Seq(A), NEW t \in Seq(A)
    PROVE  /\ s \o t \in Seq(A) /\ Len(s \o t) = Len(s) + Len(t) /\ Len(s) \in Nat /\ Len(t) \in Nat
           /\ \A n \in 1..Len(s) : (s \o t)[n] = s[n]
           /\ \A n \in 1..Len(s \o t) :
                 n \in 1..Len(s) \/ (n - Len(s) \in 1..Len(t) /\ (s \o t)[n] = t[n - Len(s)])
OBVIOUS

\* One after the other, the pages give the list.
Follows(p, s, a) == \A k \in 1..Len(p) : p[k] = s[a + k]
LEMMA PrefixGrows ==
    ASSUME NEW A, NEW s \in Seq(A), NEW p \in Seq(A), NEW a \in Nat, NEW c \in Nat, a <= c, c <= Len(s),
           Len(p) = c - a, Follows(p, s, a)
    PROVE  SubSeq(s, 1, a) \o p = SubSeq(s, 1, c)
<1> DEFINE u == SubSeq(s, 1, a)
           v == SubSeq(s, 1, c)
<1>0. Len(s) \in Nat /\ Len(p) \in Nat
  OBVIOUS
<1>1. u \in Seq(A) /\ Len(u) = a /\ \A k \in 1..a : u[k] = s[k]
  <2>1. \A k \in 1..a : k \in 1..Len(s)
    BY <1>0
  <2>2. u \in Seq(A)
    BY <2>1
  <2> QED
    BY <2>2
<1>2. v \in Seq(A) /\ Len(v) = c /\ \A k \in 1..c : v[k] = s[k]
  <2>1. \A k \in 1..c : k \in 1..Len(s)
    BY <1>0
  <2>2. v \in Seq(A)
    BY <2>1
  <2> QED
    BY <2>2
<1> HIDE DEF u, v
<1>3. /\ u \o p \in Seq(A) /\ Len(u \o p) = c
      /\ \A n \in 1..a : (u \o p)[n] = u[n]
      /\ \A n \in 1..c : n \in 1..a \/ (n - a \in 1..Len(p) /\ (u \o p)[n] = p[n - a])
  <2>1. a + (c - a) = c
    OBVIOUS
  <2>2. u \in Seq(A) /\ Len(u) = a
    BY <1>1
  <2>3. /\ u \o p \in Seq(A) /\ Len(u \o p) = Len(u) + Len(p)
        /\ \A n \in 1..Len(u) : (u \o p)[n] = u[n]
        /\ \A n \in 1..Len(u \o p) :
              n \in 1..Len(u) \/ (n - Len(u) \in 1..Len(p) /\ (u \o p)[n] = p[n - Len(u)])
    BY <2>2, Concatenation, Zenon
  <2> QED
    BY <2>1, <2>2, <2>3
<1>4. ASSUME NEW k \in 1..c PROVE (u \o p)[k] = v[k]
  <2>1. CASE k \in 1..a
    BY <1>1, <1>2, <1>3, <2>1
  <2>2. CASE k - a \in 1..Len(p) /\ (u \o p)[k] = p[k - a]
    <3>1. p[k - a] = s[a + (k - a)] /\ a + (k - a) = k
      BY <2>2 DEF Follows
    <3> QED
      BY <1>2, <2>2, <3>1
  <2> QED
    BY <1>3, <2>1, <2>2
<1> DEFINE w == u \o p
<1>5. w \in Seq(A) /\ Len(w) = c /\ \A k \in 1..c : w[k] = v[k]
  BY <1>3, <1>4
<1> HIDE DEF w
<1>6. w = v
  BY <1>2, <1>5
<1> QED
  BY <1>6 DEF u, v, w

LEMMA NoneHiddenThen == PageTypes => NoneHidden
<1> SUFFICES ASSUME PageTypes PROVE NoneHidden
  OBVIOUS
<1> DEFINE T == TaskItems
           L == Len(launches)
           R == TotalRounds
           pages == [r \in 1..R |-> Slice(r)]
           Upto(i) == IF i * T <= L THEN i * T ELSE L
           g == [i \in 1..R |-> SubSeq(launches, 1, Upto(i))]
           FlatBy(f) == f = [i \in 1..R |-> IF i = 1 THEN pages[i] ELSE f[i - 1] \o pages[i]]
<1>0. T \in Nat /\ L \in Nat /\ launches \in Seq(LaunchRuns) /\ R \in Nat \ {0}
  BY PlaceIsTyped, RoundsSuffice DEF PageTypes
<1>1. Len(pages) = R /\ \A r \in 1..R : pages[r] = Slice(r)
  BY <1>0
<1>2. ASSUME NEW i \in Nat PROVE i * T \in Nat /\ Upto(i) \in Nat /\ Upto(i) <= L
  <2>1. i * T \in Nat
    BY <1>0, Product
  <2> QED
    BY <1>0, <2>1
<1>3. ASSUME NEW i \in Nat \ {0}
      PROVE  SubSeq(launches, 1, Upto(i - 1)) \o Slice(i) = SubSeq(launches, 1, Upto(i))
  <2> DEFINE a == Upto(i - 1)
             c == Upto(i)
             x == (i - 1) * T
             y == i * T
             p == Slice(i)
  <2>1. i - 1 \in Nat
    OBVIOUS
  <2>2. /\ x \in Nat /\ y \in Nat /\ y = x + T
        /\ Len(p) \in Nat
        /\ \A k \in Nat : k <= Len(p) => (k = 0 \/ x + k <= L) /\ k <= T
        /\ \A k \in 1..T : x + k <= L => k \in 1..Len(p)
        /\ \A k \in 1..Len(p) : p[k] = launches[x + k]
        /\ p \in Seq(LaunchRuns)
    BY SliceIs
  <2>3. a = (IF x <= L THEN x ELSE L) /\ c = IF y <= L THEN y ELSE L
    OBVIOUS
  <2> HIDE DEF a, c, x, y, p, T, L, Upto
  <2>4. a \in Nat /\ c \in Nat /\ a <= c /\ c <= L
    BY <1>0, <2>2, <2>3
  <2>5. Len(p) = c - a
    <3>1. CASE x >= L
      <4>1. Len(p) = 0
        BY <1>0, <2>2, <3>1
      <4> QED
        BY <1>0, <2>2, <2>3, <3>1, <4>1
    <3>2. CASE x < L
      <4> DEFINE d == c - x
      <4>1. d \in Nat /\ x + d = c /\ d <= T /\ a = x
        BY <1>0, <2>2, <2>3, <3>2
      <4> HIDE DEF d
      <4>2. d = 0 \/ d \in 1..Len(p)
        BY <1>0, <2>2, <2>4, <4>1
      <4>3. Len(p) <= T /\ (Len(p) = 0 \/ x + Len(p) <= L)
        BY <2>2
      <4>4. Len(p) <= d
        BY <1>0, <2>2, <2>3, <3>2, <4>1, <4>3
      <4>5. Len(p) = d
        BY <2>2, <4>1, <4>2, <4>4
      <4> QED
        BY <2>2, <2>4, <4>1, <4>5
    <3> QED
      BY <1>0, <2>2, <3>1, <3>2
  <2>6. \A k \in 1..Len(p) : p[k] = launches[a + k]
    <3> SUFFICES ASSUME NEW k \in 1..Len(p) PROVE p[k] = launches[a + k]
      OBVIOUS
    <3>1. x <= L
      BY <1>0, <2>2
    <3> QED
      BY <2>2, <2>3, <3>1
  <2> USE DEF L
  <2>7. SubSeq(launches, 1, a) \o p = SubSeq(launches, 1, c)
    BY <1>0, <2>2, <2>4, <2>5, <2>6, PrefixGrows DEF Follows
  <2> QED
    BY <2>7 DEF a, c, p
<1>4. FlatBy(g)
  <2> DEFINE h == [i \in 1..R |-> IF i = 1 THEN pages[i] ELSE g[i - 1] \o pages[i]]
  <2>1. ASSUME NEW i \in 1..R PROVE g[i] = h[i]
    <3>1. i \in Nat \ {0} /\ g[i] = SubSeq(launches, 1, Upto(i)) /\ pages[i] = Slice(i)
      BY <1>0, <1>1
    <3>2. SubSeq(launches, 1, Upto(i - 1)) \o Slice(i) = SubSeq(launches, 1, Upto(i))
      BY <1>3, <3>1
    <3>3. CASE i = 1
      <4>1. Upto(i - 1) = 0
        <5>1. i - 1 = 0 /\ 0 * T = 0
          BY <1>0, <3>3
        <5> QED
          BY <1>0, <5>1
      <4> DEFINE A == LaunchRuns
                 l == launches
                 p == Slice(i)
      <4>2. p \in Seq(A) /\ l \in Seq(A)
        BY <1>0, <3>1, SliceIs
      <4> HIDE DEF A, l, p
      <4>3. SubSeq(l, 1, 0) \o p = p
        BY <4>2
      <4>4. g[i] = Slice(i)
        BY <3>1, <3>2, <4>1, <4>3 DEF l, p
      <4> QED
        BY <3>1, <3>3, <4>4
    <3>4. CASE i # 1
      <4>1. i - 1 \in 1..R
        BY <1>0, <3>4
      <4>2. g[i - 1] = SubSeq(launches, 1, Upto(i - 1))
        BY <4>1
      <4>3. h[i] = g[i - 1] \o pages[i]
        BY <3>4
      <4> QED
        BY <3>1, <3>2, <4>2, <4>3
    <3> QED
      BY <3>3, <3>4
  <2>2. g = h
    <3> HIDE DEF Upto, pages
    <3> QED
      BY <2>1
  <2> QED
    BY <2>2
<1>5. ASSUME NEW f, FlatBy(f) PROVE f[R] = g[R]
  <2> HIDE DEF g, pages
  <2> DEFINE Q == {i \in Nat : i + 1 \in 1..R => f[i + 1] = g[i + 1]}
  <2>1. \A i \in 1..R : f[i] = IF i = 1 THEN pages[i] ELSE f[i - 1] \o pages[i]
    BY <1>5
  <2>2. \A i \in 1..R : g[i] = IF i = 1 THEN pages[i] ELSE g[i - 1] \o pages[i]
    BY <1>4
  <2>3. 0 \in Q
    BY <1>0, <2>1, <2>2
  <2>4. ASSUME NEW i \in Nat, i \in Q PROVE i + 1 \in Q
    <3> SUFFICES ASSUME (i + 1) + 1 \in 1..R PROVE f[(i + 1) + 1] = g[(i + 1) + 1]
      OBVIOUS
    <3>1. i + 1 \in 1..R /\ ((i + 1) + 1) - 1 = i + 1 /\ (i + 1) + 1 # 1
      BY <1>0
    <3>2. f[i + 1] = g[i + 1]
      BY <2>4, <3>1
    <3> QED
      BY <2>1, <2>2, <3>1, <3>2
  <2>5. Nat \subseteq Q
    <3> HIDE DEF Q
    <3> QED
      BY <2>3, <2>4, Induction
  <2>6. R - 1 \in Q /\ (R - 1) + 1 = R /\ R \in 1..R
    BY <1>0, <2>5
  <2> QED
    BY <2>6
<1>6. FlattenSeq(pages) = g[R]
  <2> DEFINE F == CHOOSE f : FlatBy(f)
  <2>1. FlatBy(F)
    BY <1>4
  <2>2. F[R] = g[R]
    <3> HIDE DEF F, g, FlatBy
    <3> QED
      BY <1>5, <2>1
  <2>3. Len(pages) # 0
    BY <1>0, <1>1
  <2> HIDE DEF g
  <2>4. FlattenSeq(pages) = F[R]
    BY <1>1, <2>3 DEF FlattenSeq
  <2> QED
    BY <2>2, <2>4
<1>7. g[R] = launches
  <2>1. g[R] = SubSeq(launches, 1, Upto(R))
    BY <1>0
  <2>2. Upto(R) = L
    <3>1. CASE T = 0
      <4>1. launches = <<>> /\ L = 0
        BY <3>1, RoundsSuffice
      <4>2. R * T = 0
        BY <1>0, <3>1
      <4> QED
        BY <4>1, <4>2
    <3>2. CASE T # 0
      <4>1. L <= R * T
        BY <3>2, RoundsSuffice
      <4> QED
        BY <1>0, <1>2, <4>1
    <3> QED
      BY <3>1, <3>2
  <2>3. SubSeq(launches, 1, L) = launches
    <3> DEFINE A == LaunchRuns
    <3>1. launches \in Seq(A)
      BY <1>0
    <3> HIDE DEF A
    <3> QED
      BY <3>1
  <2> QED
    BY <2>1, <2>2, <2>3
<1> QED
  BY <1>6, <1>7 DEF NoneHidden

\* A number of items that is not above 0 is none.
LEMMA NoneCounted ==
    ASSUME PageTypes, NEW r, NEW status
    PROVE  /\ Count(r, status) \in Nat
           /\ Count(r, status) = 0 => \A k \in DOMAIN course.items : Records(r)[k].status # status
<1> DEFINE S == {k \in DOMAIN course.items : Records(r)[k].status = status}
<1>1. DOMAIN course.items = 1..Len(course.items) /\ Len(course.items) \in Nat
  BY PlaceIsTyped
<1>2. IsFiniteSet(S)
  <2>1. IsFiniteSet(1..Len(course.items))
    BY <1>1, FS_Interval
  <2>2. S \subseteq 1..Len(course.items)
    BY <1>1
  <2> HIDE DEF S
  <2> QED
    BY <2>1, <2>2, FS_Subset
<1>3. Count(r, status) = Cardinality(S)
  BY DEF Count
<1>4. Cardinality(S) \in Nat /\ (Cardinality(S) = 0 => S = {})
  <2> HIDE DEF S
  <2> QED
    BY <1>2, FS_CardinalityType, FS_EmptySet
<1> QED
  BY <1>3, <1>4

\* The run that a page links to an item is one of the round's part of the list.
LEMMA LinkedIs ==
    ASSUME PageInv, NEW r \in Nat \ {0}, NEW k \in Linked(r)
    PROVE  /\ k \in TaskSlots /\ TasksUpTo(k) \in 1..TaskItems
           /\ (r - 1) * TaskItems + TasksUpTo(k) \in 1..Len(launches)
           /\ Record(r, k).run = launches[(r - 1) * TaskItems + TasksUpTo(k)]
           /\ Record(r, k).status = Record(r, k).run.status
<1> DEFINE n == TasksUpTo(k)
           a == (r - 1) * TaskItems
           run == Record(r, k).run
<1>0. PageTypes
  BY DEF PageInv
<1>1. k \in DOMAIN course.items /\ run # Unbound
  BY DEF Linked, Records
<1>2. /\ course.items[k] = "task" /\ n <= Len(Slice(r)) /\ run = Slice(r)[n]
      /\ Record(r, k).status = run.status
  BY <1>1 DEF Record
<1>3. k \in TaskSlots
  BY <1>1, <1>2 DEF TaskSlots
<1>4. n \in 1..TaskItems /\ TaskItems \in Nat /\ n \in Nat /\ n # 0
  <2>1. course \in Courses /\ TaskItems \in Nat
    BY <1>0, PlaceIsTyped
  <2>2. n \in 1..TaskItems
    BY <1>3, <2>1, TasksCounted
  <2> HIDE DEF n
  <2> QED
    BY <2>1, <2>2
<1>5. Len(Slice(r)) \in Nat /\ n \in 1..Len(Slice(r))
  BY <1>0, <1>2, <1>4, SliceIs
<1>6. Slice(r)[n] = launches[a + n] /\ a \in Nat /\ a + n <= Len(launches)
  <2> HIDE DEF n
  <2> QED
    BY <1>0, <1>2, <1>4, <1>5, SliceIs
<1>7. a + n \in 1..Len(launches)
  <2> HIDE DEF a, n
  <2> QED
    BY <1>0, <1>4, <1>6, PlaceIsTyped
<1> QED
  BY <1>2, <1>3, <1>4, <1>6, <1>7

LEMMA SameRound ==
    ASSUME NEW T \in Nat, NEW r \in Nat, NEW q \in Nat, NEW j \in 1..T, NEW k \in 1..T,
           (r - 1) * T + j = (q - 1) * T + k
    PROVE  r = q
<1>1. \A x, y \in Nat : x < y => (x - 1) * T + T <= (y - 1) * T
  <2> SUFFICES ASSUME NEW x \in Nat, NEW y \in Nat, x < y PROVE (x - 1) * T + T <= (y - 1) * T
    OBVIOUS
  <2>1. T * (x - 1) + T <= T * (y - 1)
    BY Multiples
  <2>2. T * (x - 1) = (x - 1) * T /\ T * (y - 1) = (y - 1) * T
    OBVIOUS
  <2> QED
    BY <2>1, <2>2
<1> DEFINE a == (r - 1) * T
           b == (q - 1) * T
<1>2. a \in Int /\ b \in Int
  OBVIOUS
<1>3. (r < q => a + T <= b) /\ (q < r => b + T <= a)
  BY <1>1
<1>4. a + j = b + k
  OBVIOUS
<1> HIDE DEF a, b
<1> QED
  BY <1>2, <1>3, <1>4

LEMMA AdviceIsFoundedThen == PageInv => AdviceIsFounded
<1> SUFFICES ASSUME PageInv PROVE AdviceIsFounded
  OBVIOUS
<1>0. PageTypes /\ ByTheItems /\ WhenOver
  BY DEF PageInv
<1>1. ASSUME NEW last \in 0..Len(launches) + 1, ListAdvice(last) = "pass"
      PROVE  Cardinality(Ready) = Len(launches) /\ outcome = "succeeded"
  <2>1. outcome = "succeeded" /\ \A n \in DOMAIN launches : launches[n].report = "ready"
    BY <1>1 DEF ListAdvice
  <2>2. Ready = 1..Len(launches) /\ Len(launches) \in Nat
    BY <1>0, <2>1, PlaceIsTyped DEF Ready
  <2>3. Cardinality(1..Len(launches)) = Len(launches)
    <3>1. 1 \in Int /\ Len(launches) \in Int /\ (1 > Len(launches) => Len(launches) = 0)
          /\ Len(launches) - 1 + 1 = Len(launches)
      BY <2>2
    <3>2. Cardinality(1..Len(launches)) = IF 1 > Len(launches) THEN 0 ELSE Len(launches) - 1 + 1
      BY <3>1, FS_Interval
    <3> QED
      BY <3>1, <3>2
  <2> QED
    BY <2>1, <2>2, <2>3
<1>2. ASSUME NEW r \in 1..TotalRounds, EvidenceReady(r), r * TaskItems <= Certain, NEW k \in Linked(r)
      PROVE  Record(r, k).run.round = r /\ Record(r, k).run.status = "succeeded"
  <2> DEFINE n == TasksUpTo(k)
             m == (r - 1) * TaskItems + n
             run == launches[m]
  <2>1. r \in Nat \ {0} /\ TotalRounds \in Nat /\ Certain <= Len(launches) /\ Certain \in Int
        /\ TaskItems \in Nat /\ course \in Courses
    BY <1>0, RoundsSuffice, PlaceIsTyped DEF Certain
  <2>2. /\ k \in TaskSlots /\ n \in 1..TaskItems /\ m \in 1..Len(launches)
        /\ Record(r, k).run = run /\ Record(r, k).status = run.status
    BY <2>1, LinkedIs
  <2>3. run \in LaunchRuns
    BY <1>0, <2>2 DEF PageTypes
  <2>4. m \in 1..Certain
    <3>1. r * TaskItems = (r - 1) * TaskItems + TaskItems /\ r * TaskItems \in Nat /\ (r - 1) * TaskItems \in Nat
      BY <1>0, <2>1, SliceIs
    <3>2. m <= r * TaskItems
      <4> HIDE DEF n
      <4> QED
        BY <2>1, <2>2, <3>1
    <3> HIDE DEF m
    <3> QED
      BY <1>2, <2>1, <2>2, <3>1, <3>2
  <2>5. run.round = r
    <3> DEFINE q == run.round
               s == run.slot
    <3>1. m = (q - 1) * TaskItems + TasksUpTo(s)
      BY <1>0, <2>4 DEF ByTheItems
    <3>2. s \in TaskSlots /\ q \in Nat
      BY <2>1, <2>3, CourseTyped DEF LaunchRuns
    <3>3. TasksUpTo(s) \in 1..TaskItems
      BY <2>1, <3>2, TasksCounted
    <3> HIDE DEF q, s
    <3>4. (r - 1) * TaskItems + n = (q - 1) * TaskItems + TasksUpTo(s)
      BY <3>1
    <3> HIDE DEF n
    <3>5. r = q
      BY <2>1, <2>2, <3>2, <3>3, <3>4, SameRound
    <3> QED
      BY <3>5 DEF q
  <2>6. Advice(r) = "pass" /\ WithReport(r, "ready") = Linked(r)
    BY <1>2 DEF EvidenceReady
  <2>7. ~(Count(r, "failed") > 0) /\ ~(Count(r, "stopped") + Count(r, "pending") > 0)
    BY <2>6 DEF Advice
  <2>8. Count(r, "failed") = 0 /\ Count(r, "stopped") = 0
    <3>1. Count(r, "failed") \in Nat /\ Count(r, "stopped") \in Nat /\ Count(r, "pending") \in Nat
      BY <1>0, NoneCounted
    <3> QED
      BY <2>7, <3>1
  <2>9. k \in DOMAIN course.items /\ Records(r)[k] = Record(r, k)
    BY DEF Linked, Records
  <2>10. run.status # "failed" /\ run.status # "stopped"
    <3>1. Records(r)[k].status # "failed" /\ Records(r)[k].status # "stopped"
      BY <1>0, <2>8, <2>9, NoneCounted
    <3> QED
      BY <2>2, <2>9, <3>1
  <2>11. run.report = "ready"
    BY <2>2, <2>6, <2>9 DEF WithReport
  <2>12. run.status # "running"
    <3>1. m \in DOMAIN launches
      BY <1>0, <2>2, PlaceIsTyped
    <3> QED
      BY <1>0, <2>11, <3>1 DEF WhenOver
  <2>13. run.status = "succeeded"
    BY <2>3, <2>10, <2>12 DEF LaunchRuns, Stati4
  <2> QED
    BY <2>2, <2>5, <2>13
<1> QED
  BY <1>1, <1>2 DEF AdviceIsFounded

LEMMA PagesTellThen == PageInv => PagesTellTheRuns
  BY OwnItemsThen, NoneHiddenThen, SleepIsShownThen, AdviceIsFoundedThen DEF PagesTellTheRuns, PageInv

LEMMA PageTypesThen == PageInv => PageTypeOK
<1> SUFFICES ASSUME PageInv PROVE PageTypeOK
  OBVIOUS
<1>1. /\ course \in Courses /\ wanted \in 1..MaxRounds /\ place.round \in 1..course.rounds
      /\ outcome \in Stati4 /\ odd \in -1..Len(launches)
      /\ \A n \in DOMAIN launches : launches[n] \in LaunchRuns
  BY DEF PageInv, PageTypes
<1>2. counted \in 0..course.rounds * Len(course.items)
  <2> DEFINE l == Len(course.items)
             i == place.round
             a == (i - 1) * l
             b == i * l
             c == course.rounds * l
  <2>1. /\ l \in Nat /\ i \in Nat /\ i - 1 \in Nat /\ i <= course.rounds /\ course.rounds \in Nat
        /\ place.slot - 1 \in Nat /\ place.slot - 1 <= l
    <3>1. PageTypes
      BY DEF PageInv
    <3>2. /\ Len(course.items) \in Nat /\ place.round \in Nat /\ place.round - 1 \in Nat /\ course.rounds \in Nat
          /\ place.round \in 1..course.rounds /\ place.slot \in 1..Len(course.items) + 1
      BY <3>1, PlaceIsTyped
    <3> QED
      BY <3>2
  <2>2. counted \in Nat /\ counted <= a + (place.slot - 1)
    BY DEF PageInv, Counting
  <2> HIDE DEF l, i
  <2>3. a \in Nat /\ a = b - l /\ b \in Nat /\ c \in Nat /\ b <= c
    BY <2>1, Product, NextProduct, ProductsGrow
  <2> HIDE DEF a, b, c
  <2>4. counted <= c
    BY <2>1, <2>2, <2>3
  <2> QED
    BY <2>2, <2>3, <2>4 DEF c, l
<1> QED
  BY <1>1, <1>2 DEF PageTypeOK, LaunchRuns, Stati4

\* PlanPages.PagesTellTheRuns (plan_service.py, get_plan_run and _build_task_exec_records): the
\* page puts every run that was launched at its own round and item until an item has failed or
\* was retried, hides none, shows a sleep of the first round that is on, and takes for good only
\* what has succeeded; for any items, rounds and edits of the plan meanwhile.
THEOREM RunsAreTold == PageSpec => []PagesTellTheRuns
<1> QED
  BY PagesStart, PagesKeep, PagesTellThen, PTL DEF PageSpec

-----------------------------------------------------------------------------
(* The lists of plans and plan runs *)

\* The members of a set above one of them.
Above(S, i) == {j \in S : j > i}
Ahead(S, i) == Cardinality(Above(S, i))

LEMMA AheadTyped ==
    ASSUME NEW S \in SUBSET Nat, IsFiniteSet(S), NEW i \in S
    PROVE  /\ Ahead(S, i) \in 0..Cardinality(S) - 1 /\ Ahead(S, i) \in Nat
           /\ Cardinality(S) \in Nat /\ IsFiniteSet(Above(S, i))
<1>1. Above(S, i) \in SUBSET (S \ {i}) /\ i \in Nat
  BY DEF Above
<1>2. IsFiniteSet(S \ {i}) /\ Cardinality(S \ {i}) = Cardinality(S) - 1 /\ Cardinality(S) \in Nat
  BY FS_RemoveElement, FS_CardinalityType
<1>3. /\ IsFiniteSet(Above(S, i)) /\ Ahead(S, i) <= Cardinality(S \ {i})
      /\ Ahead(S, i) \in Nat
  BY <1>1, <1>2, FS_Subset, FS_CardinalityType DEF Ahead
<1> QED
  BY <1>2, <1>3

LEMMA LowerIsLater ==
    ASSUME NEW S \in SUBSET Nat, IsFiniteSet(S), NEW i \in S, NEW k \in S, i < k
    PROVE  Ahead(S, k) < Ahead(S, i)
<1>1. IsFiniteSet(Above(S, i)) /\ Ahead(S, i) \in Nat /\ Ahead(S, k) \in Nat
  BY AheadTyped
<1>2. Above(S, k) \in SUBSET Above(S, i) /\ k \in Above(S, i) /\ k \notin Above(S, k)
  <2>1. i \in Nat /\ k \in Nat /\ ~(k > k) /\ \A j \in S : j \in Nat /\ (j > k => j > i)
    OBVIOUS
  <2> QED
    BY <2>1 DEF Above
<1>3. Ahead(S, k) <= Ahead(S, i) /\ Ahead(S, k) # Ahead(S, i)
  BY <1>1, <1>2, FS_Subset DEF Ahead
<1> QED
  BY <1>1, <1>3

LEMMA AheadDiffers ==
    ASSUME NEW S \in SUBSET Nat, IsFiniteSet(S), NEW i \in S, NEW k \in S
    PROVE  (Ahead(S, i) = Ahead(S, k) => i = k) /\ (Ahead(S, i) < Ahead(S, k) => k < i)
<1>1. i < k => Ahead(S, k) < Ahead(S, i)
  BY LowerIsLater
<1>2. k < i => Ahead(S, i) < Ahead(S, k)
  BY LowerIsLater
<1>3. i \in Nat /\ k \in Nat /\ Ahead(S, i) \in Nat /\ Ahead(S, k) \in Nat
  BY AheadTyped
<1> QED
  BY <1>1, <1>2, <1>3

LEMMA EveryAhead ==
    ASSUME NEW S \in SUBSET Nat, IsFiniteSet(S), NEW n \in 1..Cardinality(S)
    PROVE  \E i \in S : Ahead(S, i) = n - 1
<1> DEFINE c == Cardinality(S)
           T == 0..c - 1
           f == [i \in S |-> Ahead(S, i)]
<1>1. c \in Nat
  BY FS_CardinalityType
<1>2. IsFiniteSet(T) /\ Cardinality(T) = c
  <2>1. 0 \in Int /\ c - 1 \in Int /\ (0 > c - 1 => c = 0) /\ (c - 1) - 0 + 1 = c
    BY <1>1
  <2> HIDE DEF c
  <2>2. IsFiniteSet(T) /\ Cardinality(T) = IF 0 > c - 1 THEN 0 ELSE (c - 1) - 0 + 1
    BY <2>1, FS_Interval
  <2> QED
    BY <2>1, <2>2
<1>3. f \in [S -> T]
  BY AheadTyped
<1>4. \A i, k \in S : f[i] = f[k] => i = k
  BY AheadDiffers
<1> HIDE DEF f, T
<1>5. f \in Injection(S, T)
  BY <1>3, <1>4 DEF Injection, IsInjective
<1>6. f \in Surjection(S, T)
  BY <1>2, <1>5, FS_Injection
<1>7. \A t \in T : \E i \in S : f[i] = t
  BY <1>6 DEF Surjection
<1>8. n - 1 \in T
  BY <1>1 DEF T
<1> QED
  BY <1>7, <1>8 DEF f

\* The newest first: each where as many are ahead of it as before it in the list.
LEMMA NewestFirstIs ==
    ASSUME NEW S \in SUBSET Nat, IsFiniteSet(S)
    PROVE  /\ NewestFirst(S) \in Seq(S) /\ Len(NewestFirst(S)) = Cardinality(S) /\ Cardinality(S) \in Nat
           /\ DOMAIN NewestFirst(S) = 1..Cardinality(S)
           /\ \A n \in 1..Cardinality(S) : NewestFirst(S)[n] \in S /\ Ahead(S, NewestFirst(S)[n]) = n - 1
<1> DEFINE c == Cardinality(S)
           g == NewestFirst(S)
           Nth(n) == CHOOSE i \in S : Ahead(S, i) = n - 1
<1>2. g = [n \in 1..c |-> Nth(n)] /\ \A n \in 1..c : g[n] = Nth(n)
  BY DEF NewestFirst, Ahead, Above
<1>3. \A n \in 1..c : g[n] \in S /\ Ahead(S, g[n]) = n - 1
  BY <1>2, EveryAhead
<1>1. c \in Nat
  BY FS_CardinalityType
<1> HIDE DEF g, Nth, c
<1>4. g = [n \in 1..c |-> g[n]]
  BY <1>2
<1>5. g \in [1..c -> S]
  BY <1>3, <1>4
<1> QED
  BY <1>1, <1>3, <1>5 DEF g, c

LEMMA NewestFirstHas ==
    ASSUME NEW S \in SUBSET Nat, IsFiniteSet(S), NEW i \in S
    PROVE  Ahead(S, i) + 1 \in 1..Cardinality(S) /\ NewestFirst(S)[Ahead(S, i) + 1] = i
<1> DEFINE n == Ahead(S, i) + 1
<1>1. n \in 1..Cardinality(S) /\ n - 1 = Ahead(S, i)
  BY AheadTyped
<1> HIDE DEF n
<1>2. NewestFirst(S)[n] \in S /\ Ahead(S, NewestFirst(S)[n]) = n - 1
  BY <1>1, NewestFirstIs
<1> QED
  BY <1>1, <1>2, AheadDiffers DEF n

\* A sequence that has every member of a set once.
Once(s, S) ==
    /\ s \in Seq(S)
    /\ \A x \in S : \E k \in 1..Len(s) : s[k] = x
    /\ \A k, n \in 1..Len(s) : s[k] = s[n] => k = n

LEMMA NewestFirstOnce ==
    ASSUME NEW S \in SUBSET Nat, IsFiniteSet(S)
    PROVE  Once(NewestFirst(S), S)
<1>1. NewestFirst(S) \in Seq(S) /\ Len(NewestFirst(S)) = Cardinality(S) /\ Cardinality(S) \in Nat
  BY NewestFirstIs
<1>2. \A x \in S : \E k \in 1..Cardinality(S) : NewestFirst(S)[k] = x
  BY NewestFirstHas
<1>3. ASSUME NEW k \in 1..Cardinality(S), NEW n \in 1..Cardinality(S), NewestFirst(S)[k] = NewestFirst(S)[n]
      PROVE  k = n
  <2>1. Ahead(S, NewestFirst(S)[k]) = k - 1 /\ Ahead(S, NewestFirst(S)[n]) = n - 1
    BY NewestFirstIs
  <2> QED
    BY <1>1, <1>3, <2>1
<1> QED
  BY <1>1, <1>2, <1>3 DEF Once

\* Members that come put others further behind.
LEMMA FurtherBehind ==
    ASSUME NEW T \in SUBSET Nat, IsFiniteSet(T), NEW S \in SUBSET T,
           NEW n \in 1..Cardinality(S)
    PROVE  /\ IsFiniteSet(S) /\ Cardinality(S) <= Cardinality(T)
           /\ \E k \in 1..Cardinality(T) : n <= k /\ NewestFirst(T)[k] = NewestFirst(S)[n]
<1> DEFINE i == NewestFirst(S)[n]
<1>1. IsFiniteSet(S) /\ Cardinality(S) <= Cardinality(T)
  BY FS_Subset
<1>2. i \in S /\ Ahead(S, i) = n - 1 /\ Cardinality(S) \in Nat
  BY <1>1, NewestFirstIs
<1> HIDE DEF i
<1>3. Above(S, i) \in SUBSET Above(T, i) /\ IsFiniteSet(Above(T, i)) /\ Ahead(T, i) \in Nat
  BY <1>2, AheadTyped DEF Above
<1>4. Ahead(S, i) <= Ahead(T, i)
  BY <1>3, FS_Subset DEF Ahead
<1>5. Ahead(T, i) + 1 \in 1..Cardinality(T) /\ NewestFirst(T)[Ahead(T, i) + 1] = i
  BY <1>2, NewestFirstHas
<1>6. n <= Ahead(T, i) + 1
  BY <1>2, <1>3, <1>4
<1> QED
  BY <1>1, <1>5, <1>6 DEF i

\* Members that leave from behind the first n leave these alone.
LEMMA SameStart ==
    ASSUME NEW T \in SUBSET Nat, IsFiniteSet(T), NEW S \in SUBSET T, NEW n \in 0..Cardinality(T),
           \A k \in 1..n : NewestFirst(T)[k] \in S
    PROVE  /\ n <= Cardinality(S) /\ Cardinality(S) \in Nat /\ Cardinality(T) \in Nat /\ n \in Nat
           /\ \A k \in 1..n : NewestFirst(S)[k] = NewestFirst(T)[k]
<1>0. Cardinality(T) \in Nat /\ n \in Nat
  BY FS_CardinalityType
<1>1. IsFiniteSet(S) /\ Cardinality(S) \in Nat
  BY FS_Subset, FS_CardinalityType
<1>2. ASSUME NEW k \in 1..n
      PROVE  k \in 1..Cardinality(S) /\ NewestFirst(S)[k] = NewestFirst(T)[k]
  <2> DEFINE x == NewestFirst(T)[k]
  <2>1. k \in 1..Cardinality(T)
    BY <1>0
  <2>2. x \in T /\ Ahead(T, x) = k - 1 /\ x \in S
    BY <2>1, NewestFirstIs
  <2> HIDE DEF x
  <2>3. ASSUME NEW j \in Above(T, x) PROVE j \in S
    <3>1. j \in T /\ j > x /\ j \in Nat /\ x \in Nat
      BY <2>2 DEF Above
    <3>2. Ahead(T, j) < k - 1 /\ Ahead(T, j) \in Nat
      BY <2>2, <3>1, LowerIsLater, AheadTyped
    <3>3. NewestFirst(T)[Ahead(T, j) + 1] = j
      BY <3>1, NewestFirstHas
    <3>4. Ahead(T, j) + 1 \in 1..n
      BY <1>0, <3>2
    <3> QED
      BY <3>3, <3>4
  <2>4. Above(S, x) = Above(T, x)
    BY <2>3 DEF Above
  <2>5. Ahead(S, x) + 1 = k
    BY <1>0, <2>2, <2>4 DEF Ahead
  <2>6. k \in 1..Cardinality(S) /\ NewestFirst(S)[k] = x
    BY <1>1, <2>2, <2>5, NewestFirstHas
  <2> QED
    BY <2>6 DEF x
<1>3. n <= Cardinality(S)
  BY <1>0, <1>1, <1>2
<1> QED
  BY <1>0, <1>1, <1>2, <1>3

\* Plans, rows and a reader as they are.
Creators == {f.by : f \in PlanForms}
FormFields == {"explicit", "tasks", "rounds", "by", "hidden"}
IsForm(f) == DOMAIN f = FormFields /\ f.tasks \subseteq DOMAIN TaskOf /\ f.rounds \in Nat /\ f.by \in Creators
RowSet == [plan : {1, 2}, tasks : SUBSET DOMAIN TaskOf, by : Creators, status : Stati, truth : Stati]
WalkFields == {"on", "query", "page", "total", "ids", "last", "due", "gone", "came"}
WalkTyped ==
    /\ DOMAIN walk = WalkFields
    /\ walk.on \in BOOLEAN /\ walk.gone \in BOOLEAN /\ walk.came \in BOOLEAN
    /\ walk.query \in Queries /\ walk.page \in Nat /\ walk.ids \in Seq(Nat) /\ walk.due \in SUBSET Nat
ListTypes ==
    /\ DOMAIN plans = {1, 2} /\ \A p \in {1, 2} : IsForm(plans[p])
    /\ planStatus \in [{1, 2} -> PlanStati] /\ order \in {<<1, 2>>, <<2, 1>>}
    /\ rows \in Seq(RowSet) /\ turns \in 0..MaxTurns
    /\ WalkTyped

LEMMA QueryTyped ==
    ASSUME NEW q \in Queries
    PROVE  /\ q.list \in {"plans", "runs"} /\ q.size \in Nat \ {0}
           /\ q.kind \in {"all", "rounds", "creator", "line", "env", "engine"}
  BY ListAssumption

LEMMA RowTyped ==
    ASSUME NEW rs \in Seq(RowSet), NEW r \in DOMAIN rs
    PROVE  /\ rs[r] \in RowSet /\ rs[r].plan \in {1, 2} /\ rs[r].tasks \in SUBSET DOMAIN TaskOf
           /\ rs[r].by \in Creators /\ rs[r].status \in Stati /\ rs[r].truth \in Stati
           /\ Len(rs) \in Nat /\ DOMAIN rs = 1..Len(rs) /\ r \in 1..Len(rs) /\ r \in Nat
<1>1. rs[r] \in RowSet /\ Len(rs) \in Nat /\ DOMAIN rs = 1..Len(rs)
  OBVIOUS
<1> QED
  BY <1>1 DEF RowSet

\* What a filter says of a row that shows something, and selects, kind by kind.
LEMMA SaysIs ==
    ASSUME NEW q \in Queries, NEW shownRow
    PROVE  /\ q.kind = "all" => Says(shownRow, q)
           /\ q.kind = "rounds" => (Says(shownRow, q) <=> shownRow.rounds \in q.terms)
           /\ q.kind = "creator" => (Says(shownRow, q) <=> shownRow.by \in CreatorIds(q))
           /\ q.kind \in {"line", "env", "engine"} => (Says(shownRow, q) <=> shownRow.shows[q.kind] \cap q.terms # {})
<1>1. q.kind = "all" => Says(shownRow, q)
  BY DEF Says
<1>2. q.kind = "rounds" => (Says(shownRow, q) <=> shownRow.rounds \in q.terms)
  BY DEF Says
<1>3. q.kind = "creator" => (Says(shownRow, q) <=> shownRow.by \in CreatorIds(q))
  BY DEF Says, CreatorIds
<1>4. q.kind \in {"line", "env", "engine"} => (Says(shownRow, q) <=> shownRow.shows[q.kind] \cap q.terms # {})
  BY DEF Says
<1> QED
  BY <1>1, <1>2, <1>3, <1>4

LEMMA SelectsIs ==
    ASSUME NEW q \in Queries, NEW p, NEW by, NEW ts
    PROVE  /\ q.kind = "all" => Selects(p, by, ts, q)
           /\ q.kind = "rounds" => (Selects(p, by, ts, q) <=> RoundMode(p) \in q.terms)
           /\ q.kind = "creator" => (Selects(p, by, ts, q) <=> by \in CreatorIds(q))
           /\ q.kind = "line" /\ plans[p].explicit # <<>> =>
                 (Selects(p, by, ts, q) <=> plans[p].explicit[1] \cap (q.terms \ Spaced) # {})
           /\ q.kind = "line" /\ plans[p].explicit = <<>> => (Selects(p, by, ts, q) <=> ts \cap TasksBy(q) # {})
           /\ q.kind \in {"env", "engine"} => (Selects(p, by, ts, q) <=> ts \cap TasksBy(q) # {})
<1>1. q.kind = "all" => Selects(p, by, ts, q)
  BY DEF Selects
<1>2. q.kind = "rounds" => (Selects(p, by, ts, q) <=> RoundMode(p) \in q.terms)
  BY DEF Selects
<1>3. q.kind = "creator" => (Selects(p, by, ts, q) <=> by \in CreatorIds(q))
  BY DEF Selects
<1>4. q.kind = "line" /\ plans[p].explicit # <<>> =>
          (Selects(p, by, ts, q) <=> plans[p].explicit[1] \cap (q.terms \ Spaced) # {})
  BY DEF Selects
<1>5. q.kind = "line" /\ plans[p].explicit = <<>> => (Selects(p, by, ts, q) <=> ts \cap TasksBy(q) # {})
  BY DEF Selects
<1>6. q.kind \in {"env", "engine"} => (Selects(p, by, ts, q) <=> ts \cap TasksBy(q) # {})
  BY DEF Selects
<1> QED
  BY <1>1, <1>2, <1>3, <1>4, <1>5, <1>6

LEMMA OverviewIs ==
    ASSUME NEW ts, NEW explicit, NEW aspect \in {"line", "env", "engine"}
    PROVE  /\ aspect = "line" /\ explicit # <<>> => Overview(ts, explicit)[aspect] = explicit[1]
           /\ aspect # "line" \/ explicit = <<>> => Overview(ts, explicit)[aspect] = {TaskOf[t][aspect] : t \in ts}
<1>1. CASE aspect = "line"
  BY <1>1 DEF Overview
<1>2. CASE aspect = "env"
  BY <1>2 DEF Overview
<1>3. CASE aspect = "engine"
  BY <1>3 DEF Overview
<1> QED
  BY <1>1, <1>2, <1>3

\* A task that has one of the terms is among those by which the database looks.
LEMMA TasksByTerms ==
    ASSUME NEW q \in Queries, q.kind \in {"line", "env", "engine"}, NEW ts
    PROVE  /\ ts \cap TasksBy(q) # {} => {TaskOf[t][q.kind] : t \in ts} \cap q.terms # {}
           /\ q.terms \cap Spaced = {} /\ ts \subseteq DOMAIN TaskOf /\ {TaskOf[t][q.kind] : t \in ts} \cap q.terms # {} =>
                 ts \cap TasksBy(q) # {}
<1>1. ASSUME ts \cap TasksBy(q) # {} PROVE {TaskOf[t][q.kind] : t \in ts} \cap q.terms # {}
  <2>1. PICK t \in ts : t \in TasksBy(q)
    BY <1>1
  <2>2. TaskOf[t][q.kind] \in q.terms
    BY <2>1 DEF TasksBy
  <2> QED
    BY <2>2
<1>2. ASSUME q.terms \cap Spaced = {}, ts \subseteq DOMAIN TaskOf,
             {TaskOf[t][q.kind] : t \in ts} \cap q.terms # {}
      PROVE  ts \cap TasksBy(q) # {}
  <2>1. PICK t \in ts : TaskOf[t][q.kind] \in q.terms
    BY <1>2
  <2>2. q.terms \ Spaced = q.terms
    BY <1>2
  <2>3. t \in TasksBy(q)
    BY <1>2, <2>1, <2>2 DEF TasksBy
  <2> QED
    BY <2>3
<1> QED
  BY <1>1, <1>2

\* A plan that the filter selects shows what it asks for.
LEMMA PlansShowIt ==
    ASSUME NEW q \in Queries, NEW p, Selects(p, plans[p].by, plans[p].tasks, q)
    PROVE  Says(PlanRow(p), q)
<1>1. /\ PlanRow(p).rounds = RoundMode(p) /\ PlanRow(p).by = plans[p].by
      /\ PlanRow(p).shows = Overview(plans[p].tasks, plans[p].explicit)
  BY DEF PlanRow
<1>2. CASE q.kind \in {"all", "rounds", "creator"}
  BY <1>1, <1>2, SaysIs, SelectsIs
<1>3. CASE q.kind = "line" /\ plans[p].explicit # <<>>
  BY <1>1, <1>3, SaysIs, SelectsIs, OverviewIs
<1>4. CASE q.kind \in {"line", "env", "engine"} /\ (q.kind # "line" \/ plans[p].explicit = <<>>)
  <2>1. plans[p].tasks \cap TasksBy(q) # {}
    BY <1>4, SelectsIs
  <2>2. {TaskOf[t][q.kind] : t \in plans[p].tasks} \cap q.terms # {}
    BY <1>4, <2>1, TasksByTerms
  <2>3. PlanRow(p).shows[q.kind] = {TaskOf[t][q.kind] : t \in plans[p].tasks}
    BY <1>1, <1>4, OverviewIs
  <2> QED
    BY <1>4, <2>2, <2>3, SaysIs
<1> QED
  BY <1>2, <1>3, <1>4, QueryTyped

\* ...and with no spaces in the terms, one that shows it is selected.
LEMMA SelectsWhatIsSaid ==
    ASSUME NEW q \in Queries, q.terms \cap Spaced = {}, NEW p, NEW ts, NEW us, ts \subseteq us, us \subseteq DOMAIN TaskOf,
           NEW shownRow, shownRow.rounds = RoundMode(p), shownRow.shows = Overview(ts, plans[p].explicit), Says(shownRow, q)
    PROVE  Selects(p, shownRow.by, us, q)
<1>2. CASE q.kind \in {"all", "rounds", "creator"}
  BY <1>2, SaysIs, SelectsIs
<1>3. CASE q.kind = "line" /\ plans[p].explicit # <<>>
  <2>1. q.terms \ Spaced = q.terms
    OBVIOUS
  <2> QED
    BY <1>3, <2>1, SaysIs, SelectsIs, OverviewIs
<1>4. CASE q.kind \in {"line", "env", "engine"} /\ (q.kind # "line" \/ plans[p].explicit = <<>>)
  <2>1. shownRow.shows[q.kind] = {TaskOf[t][q.kind] : t \in ts}
    BY <1>4, OverviewIs
  <2>2. {TaskOf[t][q.kind] : t \in ts} \cap q.terms # {}
    BY <1>4, <2>1, SaysIs
  <2>3. {TaskOf[t][q.kind] : t \in us} \cap q.terms # {}
    BY <2>2
  <2>4. us \cap TasksBy(q) # {}
    BY <1>4, <2>3, TasksByTerms
  <2> QED
    BY <1>4, <2>4, SelectsIs
<1> QED
  BY <1>2, <1>3, <1>4, QueryTyped

LEMMA AllFoundThen == ListTypes => AllFound
<1> SUFFICES ASSUME ListTypes, walk.on, walk.query.terms \cap Spaced = {} PROVE AllFound
  BY DEF AllFound
<1> DEFINE q == walk.query
<1>0. q \in Queries
  BY DEF ListTypes, WalkTyped
<1>1. ASSUME q.list = "plans", NEW p \in DOMAIN plans, ~plans[p].hidden, Says(PlanRow(p), q),
             q.status \in {"any", PlanRow(p).status}
      PROVE  p \in Selected(q)
  <2>1. /\ PlanRow(p).rounds = RoundMode(p) /\ PlanRow(p).by = plans[p].by
        /\ PlanRow(p).shows = Overview(plans[p].tasks, plans[p].explicit)
    BY DEF PlanRow
  <2>2. plans[p].tasks \subseteq DOMAIN TaskOf
    BY DEF ListTypes, IsForm
  <2>3. Selects(p, PlanRow(p).by, plans[p].tasks, q)
    BY <1>0, <1>1, <2>1, <2>2, SelectsWhatIsSaid
  <2> QED
    BY <1>1, <2>1, <2>3 DEF Selected, FoundPlans, PlanRow
<1>2. ASSUME q.list # "plans", NEW r \in DOMAIN rows, ~plans[rows[r].plan].hidden,
             StatusIs(rows[r], q), Says(RunRow(rows[r]), q)
      PROVE  r \in Selected(q)
  <2> DEFINE rw == rows[r]
             p == rw.plan
             us == rw.tasks \cup plans[p].tasks
  <2>1. /\ RunRow(rw).rounds = RoundMode(p) /\ RunRow(rw).by = rw.by
        /\ RunRow(rw).shows = Overview(Stages(rw), plans[p].explicit)
    BY DEF RunRow
  <2>2. Stages(rw) \subseteq us /\ us \subseteq DOMAIN TaskOf
    BY RowTyped DEF ListTypes, IsForm, Stages
  <2>3. Says(RunRow(rw), q)
    BY <1>2
  <2>4. Selects(p, RunRow(rw).by, us, q)
    <3> HIDE DEF us, p, rw, q
    <3> QED
      BY <1>0, <2>1, <2>2, <2>3, SelectsWhatIsSaid DEF q
  <2>5. Candidate(rw, q) /\ Matched(rw, q)
    BY <1>2, <2>1, <2>4 DEF Candidate, Matched
  <2> QED
    BY <1>2, <2>5 DEF Selected, Found
<1> QED
  BY <1>1, <1>2 DEF AllFound

\* What the filter asks of a row but for its status.
AskedOf(rw, q) ==
    /\ ~plans[rw.plan].hidden
    /\ Selects(rw.plan, rw.by, rw.tasks \cup plans[rw.plan].tasks, q)
    /\ Matched(rw, q)
SameBut(rs, rz) ==
    /\ rs \in Seq(RowSet) /\ rz \in Seq(RowSet) /\ DOMAIN rz = DOMAIN rs
    /\ \A r \in DOMAIN rs : rz[r].plan = rs[r].plan /\ rz[r].tasks = rs[r].tasks /\ rz[r].by = rs[r].by

LEMMA FoundIs ==
    ASSUME NEW rs, NEW q
    PROVE  \A r : r \in Found(rs, q) <=> r \in DOMAIN rs /\ AskedOf(rs[r], q) /\ StatusIs(rs[r], q)
  BY DEF Found, Candidate, AskedOf

LEMMA AskedSame ==
    ASSUME NEW rs, NEW rz, SameBut(rs, rz), NEW q, NEW r \in DOMAIN rs
    PROVE  AskedOf(rz[r], q) <=> AskedOf(rs[r], q)
<1> DEFINE a == rs[r]
           b == rz[r]
<1>1. a.plan = b.plan /\ a.tasks = b.tasks /\ a.by = b.by
  BY DEF SameBut
<1> HIDE DEF a, b
<1>2. RunRow(a).shows = RunRow(b).shows /\ RunRow(a).rounds = RunRow(b).rounds /\ RunRow(a).by = RunRow(b).by
  BY <1>1 DEF RunRow, Stages
<1>3. Says(RunRow(a), q) <=> Says(RunRow(b), q)
  BY <1>2 DEF Says
<1>4. Matched(a, q) <=> Matched(b, q)
  BY <1>3 DEF Matched
<1>5. AskedOf(b, q) <=> AskedOf(a, q)
  BY <1>1, <1>4 DEF AskedOf
<1> QED
  BY <1>5 DEF a, b

\* A row that the filter has found shows what the filter asks for.
LEMMA RunsShowIt ==
    ASSUME NEW q \in Queries, NEW rw, AskedOf(rw, q)
    PROVE  Says(RunRow(rw), q)
<1>1. CASE q.kind \in {"line", "env", "engine", "rounds"}
  BY <1>1 DEF AskedOf, Matched
<1>2. CASE q.kind = "all"
  BY <1>2, SaysIs
<1>3. CASE q.kind = "creator"
  <2>1. RunRow(rw).by = rw.by
    BY DEF RunRow
  <2>2. rw.by \in CreatorIds(q)
    BY <1>3, SelectsIs DEF AskedOf
  <2> QED
    BY <1>3, <2>1, <2>2, SaysIs
<1> QED
  BY <1>1, <1>2, <1>3, QueryTyped

LEMMA SameButItself == ASSUME NEW rs \in Seq(RowSet) PROVE SameBut(rs, rs)
  BY DEF SameBut
LEMMA SameButTwice ==
    ASSUME NEW rs, NEW rz, NEW ry, SameBut(rs, rz), SameBut(rz, ry)
    PROVE  SameBut(rs, ry)
  BY DEF SameBut

LEMMA ReconciledIs ==
    ASSUME NEW rs \in Seq(RowSet), NEW S
    PROVE  /\ SameBut(rs, Reconciled(rs, S))
           /\ \A r \in DOMAIN rs : Reconciled(rs, S)[r].status = IF r \in S THEN rs[r].truth ELSE rs[r].status
<1> DEFINE z == Reconciled(rs, S)
           n == Len(rs)
<1>1. n \in Nat /\ DOMAIN rs = 1..n
  OBVIOUS
<1>2. DOMAIN z = 1..n /\ \A r \in 1..n : z[r] = IF r \in S THEN [rs[r] EXCEPT !.status = rs[r].truth] ELSE rs[r]
  BY <1>1 DEF Reconciled
<1>3. \A r \in 1..n : rs[r] \in RowSet /\ rs[r].truth \in Stati
  BY <1>1, RowTyped
<1>4. ASSUME NEW r \in 1..n
      PROVE  /\ z[r] \in RowSet /\ z[r].plan = rs[r].plan /\ z[r].tasks = rs[r].tasks /\ z[r].by = rs[r].by
             /\ z[r].status = IF r \in S THEN rs[r].truth ELSE rs[r].status
  <2> HIDE DEF z
  <2> QED
    BY <1>2, <1>3 DEF RowSet
<1>5. z = [r \in 1..n |-> z[r]]
  BY <1>1 DEF Reconciled
<1> HIDE DEF z
<1>6. z \in [1..n -> RowSet]
  BY <1>4, <1>5
<1>7. z \in Seq(RowSet)
  BY <1>1, <1>6
<1> QED
  BY <1>1, <1>2, <1>4, <1>7 DEF SameBut, z

\* Rows of the list, with their status as it is now, that a read of a page cuts the page from.
ReadsWell(q, pg, ans, M) ==
    /\ SameBut(rows, ans.rows)
    /\ M \in SUBSET DOMAIN rows /\ \A r \in M : AskedOf(rows[r], q)
    /\ ans.page = Cut(NewestFirst(M), pg, q.size) /\ ans.total = Len(NewestFirst(M))
    /\ q.status \in {"any", "running"} => M = Found(ans.rows, q)
    /\ q.status = "running" => \A r \in DOMAIN rows : rows[r].status # "running" => ans.rows[r].status # "running"

\* Rows that run are not touched again when the page is closed.
LEMMA ClosingIs ==
    ASSUME NEW rs \in Seq(RowSet), NEW s, \A r \in ToSet(s) : r \in DOMAIN rs /\ rs[r].status = "running"
    PROVE  Closing(rs, s) = rs
<1>1. StillActive(rs, ToSet(s)) = ToSet(s)
  BY DEF StillActive
<1>2. ToSet(s) \ StillActive(rs, ToSet(s)) = {}
  BY <1>1
<1>3. DOMAIN rs = 1..Len(rs) /\ rs = [r \in DOMAIN rs |-> rs[r]]
  OBVIOUS
<1>4. Reconciled(rs, {}) = rs
  BY <1>3 DEF Reconciled
<1> QED
  BY <1>2, <1>4 DEF Closing

LEMMA ClosingSame ==
    ASSUME NEW rs \in Seq(RowSet), NEW s
    PROVE  SameBut(rs, Closing(rs, s))
  BY ReconciledIs DEF Closing

LEMMA ActiveStays ==
    ASSUME NEW rs \in Seq(RowSet), NEW S, NEW r \in DOMAIN rs, rs[r].status # "running"
    PROVE  Reconciled(rs, StillActive(rs, S))[r].status # "running"
  BY ReconciledIs DEF StillActive

\* A page cut from rows has only these.
LEMMA CutWithin ==
    ASSUME NEW S, NEW s \in Seq(S), NEW pg \in Nat \ {0}, NEW sz \in Nat \ {0}
    PROVE  /\ Cut(s, pg, sz) \in Seq(S)
           /\ (pg - 1) * sz \in Nat /\ pg * sz = (pg - 1) * sz + sz
           /\ (pg - 1) * sz <= Len(s) =>
                LET b == IF pg * sz < Len(s) THEN pg * sz ELSE Len(s)
                IN  /\ Len(Cut(s, pg, sz)) = b - (pg - 1) * sz
                    /\ \A k \in 1..b - (pg - 1) * sz : Cut(s, pg, sz)[k] = s[(pg - 1) * sz + k]
<1> DEFINE a == (pg - 1) * sz
           e == pg * sz
           b == IF e < Len(s) THEN e ELSE Len(s)
           c == Cut(s, pg, sz)
<1>1. a \in Nat /\ e = a + sz /\ Len(s) \in Nat
  <2>1. pg - 1 \in Nat /\ sz \in Nat
    OBVIOUS
  <2>2. a \in Nat
    BY <2>1, Product
  <2>3. e = a + sz
    <3>1. pg \in Int /\ sz \in Int
      OBVIOUS
    <3>2. (pg - 1) * sz = pg * sz - sz
      BY <3>1, NextProduct
    <3> HIDE DEF a
    <3>3. pg * sz \in Int
      OBVIOUS
    <3> QED
      BY <3>1, <3>2, <3>3 DEF a
  <2> QED
    BY <2>2, <2>3
<1>2. c = SubSeq(s, a + 1, b)
  BY DEF Cut
<1> HIDE DEF a, e, c
<1>3. b \in Nat /\ b <= Len(s)
  BY <1>1
<1> HIDE DEF b
<1>4. a + 1 \in Int /\ b \in Int /\ \A k \in a + 1..b : k \in 1..Len(s)
  BY <1>1, <1>3
<1>5. c \in Seq(S)
  BY <1>2, <1>4
<1>6. Len(c) = IF a + 1 <= b THEN b - a ELSE 0
  BY <1>1, <1>2, <1>3
<1>7. ASSUME NEW k \in 1..Len(c) PROVE c[k] = s[a + k]
  BY <1>1, <1>2, <1>3, <1>6
<1>8. CASE a <= Len(s)
  <2>1. a <= b
    BY <1>1, <1>8 DEF b
  <2>2. Len(c) = b - a
    BY <1>1, <1>3, <1>6, <2>1
  <2> QED
    BY <1>1, <1>5, <1>7, <2>2 DEF a, b, c, e
<1>9. CASE ~(a <= Len(s))
  BY <1>1, <1>5, <1>9 DEF a, b, c, e
<1> QED
  BY <1>8, <1>9

LEMMA CutOfFound ==
    ASSUME NEW S \in SUBSET Nat, IsFiniteSet(S), NEW pg \in Nat \ {0}, NEW sz \in Nat \ {0}
    PROVE  ToSet(Cut(NewestFirst(S), pg, sz)) \subseteq S
<1>1. Cut(NewestFirst(S), pg, sz) \in Seq(S)
  BY NewestFirstIs, CutWithin
<1> HIDE DEF Cut
<1> QED
  BY <1>1 DEF ToSet

LEMMA RowsFinite ==
    ASSUME NEW rs \in Seq(RowSet), NEW S \in SUBSET DOMAIN rs
    PROVE  S \in SUBSET Nat /\ IsFiniteSet(S)
<1>1. DOMAIN rs = 1..Len(rs) /\ Len(rs) \in Nat
  OBVIOUS
<1> QED
  <2>1. IsFiniteSet(1..Len(rs)) /\ S \in SUBSET (1..Len(rs))
    BY <1>1, FS_Interval
  <2> QED
    BY <2>1, FS_Subset

\* With an attribute in the filter.
LEMMA NarrowedReads ==
    ASSUME ListTypes, NEW q \in Queries, NEW pg \in Nat \ {0}
    PROVE  \E M : ReadsWell(q, pg, Narrowed(q, pg), M)
<1> DEFINE fst == {r \in DOMAIN rows : Candidate(rows[r], q)}
           before == IF q.status = "running" THEN Reconciled(rows, StillActive(rows, fst)) ELSE rows
           M == Found(before, q)
           cut == Cut(NewestFirst(M), pg, q.size)
           after == IF q.status = "running" THEN before ELSE Reconciled(before, StillActive(before, ToSet(cut)))
           ans == Narrowed(q, pg)
<1>1. ans.rows = Closing(after, cut) /\ ans.page = cut /\ ans.total = Len(NewestFirst(M))
  BY DEF Narrowed
<1>0. rows \in Seq(RowSet)
  BY DEF ListTypes
<1> HIDE DEF fst, ans
<1>2. SameBut(rows, before)
  BY <1>0, ReconciledIs, SameButItself
<1>3. q.status = "running" => \A r \in DOMAIN rows : rows[r].status # "running" => before[r].status # "running"
  BY <1>0, ActiveStays
<1>4. before \in Seq(RowSet) /\ DOMAIN before = DOMAIN rows
  BY <1>2 DEF SameBut
<1>5. M \in SUBSET DOMAIN rows /\ M \in SUBSET DOMAIN before /\ \A r \in M : AskedOf(before[r], q) /\ StatusIs(before[r], q)
  BY <1>4, FoundIs
<1>6. \A r \in M : AskedOf(rows[r], q)
  BY <1>2, <1>5, AskedSame
<1> HIDE DEF before, M
<1>7. ToSet(cut) \subseteq M
  BY <1>4, <1>5, RowsFinite, CutOfFound, QueryTyped
<1>8. CASE q.status = "running"
  <2>1. \A r \in ToSet(cut) : r \in DOMAIN before /\ before[r].status = "running"
    BY <1>5, <1>7, <1>8 DEF StatusIs
  <2>2. after = before
    BY <1>8
  <2> HIDE DEF cut, after
  <2>3. ans.rows = before
    BY <1>1, <1>4, <2>1, <2>2, ClosingIs
  <2> QED
    BY <1>1, <1>2, <1>3, <1>5, <1>6, <1>8, <2>3 DEF ReadsWell, cut, M, ans
<1>9. CASE q.status # "running"
  <2>1. SameBut(before, after) /\ after \in Seq(RowSet)
    BY <1>4, <1>9, ReconciledIs DEF SameBut
  <2> HIDE DEF cut, after
  <2>2. SameBut(after, ans.rows)
    BY <1>1, <2>1, ClosingSame
  <2>3. SameBut(rows, ans.rows) /\ SameBut(before, ans.rows)
    BY <1>2, <2>1, <2>2, SameButTwice
  <2>4. ASSUME q.status = "any" PROVE M = Found(ans.rows, q)
    <3>1. \A r : r \in M <=> r \in DOMAIN before /\ AskedOf(before[r], q)
      BY <2>4, FoundIs DEF M, StatusIs
    <3>2. \A r : r \in Found(ans.rows, q) <=> r \in DOMAIN ans.rows /\ AskedOf(ans.rows[r], q)
      BY <2>4, FoundIs DEF StatusIs
    <3>3. DOMAIN ans.rows = DOMAIN before /\ \A r \in DOMAIN before : AskedOf(ans.rows[r], q) <=> AskedOf(before[r], q)
      BY <2>3, AskedSame DEF SameBut
    <3> QED
      BY <3>1, <3>2, <3>3
  <2> QED
    BY <1>1, <1>5, <1>6, <1>9, <2>3, <2>4 DEF ReadsWell, cut, ans
<1> QED
  BY <1>8, <1>9

\* Without.
LEMMA DirectReads ==
    ASSUME ListTypes, NEW q \in Queries, NEW pg \in Nat \ {0}
    PROVE  \E M : ReadsWell(q, pg, Direct(q, pg), M)
<1> DEFINE F == Found(rows, q)
           cut == Cut(NewestFirst(F), pg, q.size)
           after == Reconciled(rows, StillActive(rows, ToSet(cut)))
           M == IF q.status = "running" /\ after # rows THEN Found(after, q) ELSE F
           seen == Cut(NewestFirst(M), pg, q.size)
           ans == Direct(q, pg)
<1>1. ans.rows = Closing(after, seen) /\ ans.page = seen /\ ans.total = Len(NewestFirst(M))
  BY DEF Direct
<1>0. rows \in Seq(RowSet)
  BY DEF ListTypes
<1> HIDE DEF ans
<1>2. SameBut(rows, after)
  BY <1>0, ReconciledIs
<1>3. \A r \in DOMAIN rows : rows[r].status # "running" => after[r].status # "running"
  BY <1>0, ActiveStays
<1>4. after \in Seq(RowSet) /\ DOMAIN after = DOMAIN rows
  BY <1>2 DEF SameBut
<1> HIDE DEF after
<1>5. M \in SUBSET DOMAIN rows /\ \A r \in M : AskedOf(rows[r], q)
  BY <1>2, <1>4, FoundIs, AskedSame
<1>6. q.status = "running" => M = Found(after, q)
  OBVIOUS
<1>6a. q.status # "running" => M = F
  OBVIOUS
<1> HIDE DEF M, F
<1>7. ToSet(seen) \subseteq M
  BY <1>0, <1>5, RowsFinite, CutOfFound, QueryTyped
<1>8. CASE q.status = "running"
  <2>1. \A r \in ToSet(seen) : r \in DOMAIN after /\ after[r].status = "running"
    BY <1>6, <1>7, <1>8, FoundIs DEF StatusIs
  <2> HIDE DEF seen
  <2>3. ans.rows = after
    BY <1>1, <1>4, <2>1, ClosingIs
  <2> QED
    BY <1>1, <1>2, <1>3, <1>5, <1>6, <1>8, <2>3 DEF ReadsWell, seen, ans
<1>9. CASE q.status # "running"
  <2> HIDE DEF seen
  <2>2. SameBut(after, ans.rows)
    BY <1>1, <1>4, ClosingSame
  <2>3. SameBut(rows, ans.rows)
    BY <1>2, <2>2, SameButTwice
  <2>4. ASSUME q.status = "any" PROVE M = Found(ans.rows, q)
    <3>1. \A r : r \in M <=> r \in DOMAIN rows /\ AskedOf(rows[r], q)
      BY <1>6a, <1>9, <2>4, FoundIs DEF F, StatusIs
    <3>2. \A r : r \in Found(ans.rows, q) <=> r \in DOMAIN ans.rows /\ AskedOf(ans.rows[r], q)
      BY <2>4, FoundIs DEF StatusIs
    <3>3. DOMAIN ans.rows = DOMAIN rows /\ \A r \in DOMAIN rows : AskedOf(ans.rows[r], q) <=> AskedOf(rows[r], q)
      BY <2>3, AskedSame DEF SameBut
    <3> QED
      BY <3>1, <3>2, <3>3
  <2> QED
    BY <1>1, <1>5, <1>9, <2>3, <2>4 DEF ReadsWell, seen, ans
<1> QED
  BY <1>8, <1>9

\* The list that a filter asks for, whole.
PlanPlaces(q) == {i \in DOMAIN order : order[i] \in FoundPlans(q)}
PlanListing(q) == [n \in DOMAIN NewestFirst(PlanPlaces(q)) |-> order[NewestFirst(PlanPlaces(q))[n]]]
Listing(q) == IF q.list = "plans" THEN PlanListing(q) ELSE NewestFirst(Found(rows, q))

LEMMA PlanPlacesTyped ==
    ASSUME ListTypes, NEW q
    PROVE  /\ PlanPlaces(q) \in SUBSET Nat /\ IsFiniteSet(PlanPlaces(q)) /\ PlanPlaces(q) \subseteq {1, 2}
           /\ \A i, k \in PlanPlaces(q) : order[i] = order[k] => i = k
           /\ \A p \in FoundPlans(q) : \E i \in PlanPlaces(q) : order[i] = p
           /\ FoundPlans(q) \subseteq Nat
<1>1. DOMAIN order = {1, 2}
  <2>1. order \in {<<1, 2>>, <<2, 1>>}
    BY DEF ListTypes
  <2> QED
    BY <2>1
<1>2. /\ \A i, k \in {1, 2} : order[i] = order[k] => i = k
      /\ \A p \in {1, 2} : \E i \in {1, 2} : order[i] = p
  BY DEF ListTypes
<1>3. PlanPlaces(q) \subseteq {1, 2} /\ IsFiniteSet({1, 2})
  BY <1>1, PairIsFinite DEF PlanPlaces
<1>4. IsFiniteSet(PlanPlaces(q))
  BY <1>3, FS_Subset
<1>5. \A p \in FoundPlans(q) : p \in {1, 2}
  BY DEF FoundPlans, ListTypes
<1>6. \A p \in FoundPlans(q) : \E i \in PlanPlaces(q) : order[i] = p
  BY <1>1, <1>2, <1>5 DEF PlanPlaces
<1> QED
  BY <1>2, <1>3, <1>4, <1>5, <1>6

LEMMA ListingOnce ==
    ASSUME ListTypes, NEW q \in Queries
    PROVE  Once(Listing(q), Selected(q)) /\ Selected(q) \subseteq Nat
<1>1. CASE q.list = "plans"
  <2> DEFINE P == PlanPlaces(q)
             g == NewestFirst(P)
             L == PlanListing(q)
             c == Cardinality(P)
  <2>1. Once(g, P) /\ Len(g) = c /\ c \in Nat /\ DOMAIN g = 1..c
    BY PlanPlacesTyped, NewestFirstOnce, NewestFirstIs
  <2>2. L = [n \in 1..c |-> order[g[n]]]
    BY <2>1 DEF PlanListing
  <2> HIDE DEF g, c, L
  <2>3. \A n \in 1..c : g[n] \in P
    BY <2>1 DEF Once
  <2>4. \A i \in P : order[i] \in FoundPlans(q)
    BY DEF PlanPlaces
  <2>5. L \in [1..c -> FoundPlans(q)]
    BY <2>2, <2>3, <2>4
  <2>6. L \in Seq(FoundPlans(q)) /\ Len(L) = c
    BY <2>1, <2>5
  <2>7. \A p \in FoundPlans(q) : \E k \in 1..c : L[k] = p
    <3> SUFFICES ASSUME NEW p \in FoundPlans(q) PROVE \E k \in 1..c : L[k] = p
      OBVIOUS
    <3>1. PICK i \in P : order[i] = p
      BY PlanPlacesTyped
    <3>2. PICK k \in 1..c : g[k] = i
      BY <2>1 DEF Once
    <3> QED
      BY <2>2, <3>1, <3>2
  <2>8. ASSUME NEW k \in 1..c, NEW n \in 1..c, L[k] = L[n] PROVE k = n
    <3>1. order[g[k]] = order[g[n]] /\ g[k] \in P /\ g[n] \in P
      BY <2>2, <2>3, <2>8
    <3>2. g[k] = g[n]
      BY <3>1, PlanPlacesTyped
    <3> QED
      BY <2>1, <3>2 DEF Once
  <2>9. Once(L, FoundPlans(q))
    BY <2>6, <2>7, <2>8 DEF Once
  <2> QED
    BY <1>1, <2>9, PlanPlacesTyped DEF L, Listing, Selected
<1>2. CASE q.list # "plans"
  <2> DEFINE F == Found(rows, q)
  <2>1. F \in SUBSET Nat /\ IsFiniteSet(F)
    <3>1. rows \in Seq(RowSet) /\ F \in SUBSET DOMAIN rows
      BY FoundIs DEF ListTypes
    <3> QED
      BY <3>1, RowsFinite
  <2> HIDE DEF F
  <2>2. Once(NewestFirst(F), F)
    BY <2>1, NewestFirstOnce
  <2> QED
    BY <1>2, <2>1, <2>2 DEF Listing, Selected, F
<1> QED
  BY <1>1, <1>2

\* Where a reader is that has read some pages: behind it is what it has not shown yet, and
\* while nothing came, it has shown the first part of the list.
Behind(L, n, x) == \E k \in n + 1..Len(L) : L[k] = x
Shows(s, L, n) == Len(s) = n /\ \A k \in 1..n : s[k] = L[k]
Along(ids, n, due, came, L, S) ==
    /\ n <= Len(L)
    /\ \A x \in due \cap S : x \in ToSet(ids) \/ Behind(L, n, x)
    /\ ~came => Shows(ids, L, n)
\* Rows that were due and have left have ended.
LeftHaveEnded(q, due) ==
    IF q.list = "plans" THEN due \subseteq Selected(q)
    ELSE \A r \in due \ Selected(q) : q.status = "running" /\ r \in DOMAIN rows /\ rows[r].status # "running"
OnTheWay ==
    walk.on /\ ~walk.gone /\ Steady(walk.query) =>
        /\ Along(walk.ids, walk.page * walk.query.size, walk.due, walk.came,
                 Listing(walk.query), Selected(walk.query))
        /\ LeftHaveEnded(walk.query, walk.due)
ListInv == ListTypes /\ PagesKeepTheFilter /\ OnTheWay /\ NothingSkipped /\ NothingTwice

\* Reading on: a page of the list that follows what was read.
Reads(L, S, pg, sz, ids, n, due, came, m, to) ==
    /\ Once(L, S) /\ S \subseteq Nat /\ pg \in Nat /\ sz \in Nat \ {0} /\ ids \in Seq(Nat)
    /\ n = pg * sz /\ m = (pg + 1) * sz /\ to = ids \o Cut(L, pg + 1, sz)
    /\ came \in BOOLEAN /\ Along(ids, n, due, came, L, S)
ReadsTo(L, S, due, came, m, to) ==
    IF m < Len(L) THEN Along(to, m, due, came, L, S)
    ELSE due \cap S \subseteq ToSet(to) /\ (~came => Cardinality(ToSet(to)) = Len(to))

CutsRight(s, pg, sz) ==
    (pg - 1) * sz <= Len(s) =>
        LET b == IF pg * sz < Len(s) THEN pg * sz ELSE Len(s)
        IN  /\ Len(Cut(s, pg, sz)) = b - (pg - 1) * sz
            /\ \A k \in 1..b - (pg - 1) * sz : Cut(s, pg, sz)[k] = s[(pg - 1) * sz + k]

LEMMA CutIsRight ==
    ASSUME NEW S, NEW s \in Seq(S), NEW pg \in Nat \ {0}, NEW sz \in Nat \ {0}
    PROVE  CutsRight(s, pg, sz)
  BY CutWithin DEF CutsRight

LEMMA ReadsOn ==
    ASSUME NEW L, NEW S, NEW pg, NEW sz, NEW ids, NEW n, NEW due, NEW came, NEW m, NEW to,
           Reads(L, S, pg, sz, ids, n, due, came, m, to)
    PROVE  ReadsTo(L, S, due, came, m, to)
<1>a. /\ Once(L, S) /\ S \subseteq Nat /\ pg \in Nat /\ sz \in Nat \ {0} /\ ids \in Seq(Nat)
      /\ n = pg * sz /\ m = (pg + 1) * sz /\ to = ids \o Cut(L, pg + 1, sz)
      /\ came \in BOOLEAN /\ Along(ids, n, due, came, L, S)
  BY DEF Reads
<1> DEFINE b == IF m < Len(L) THEN m ELSE Len(L)
           c == Cut(L, pg + 1, sz)
<1>0. L \in Seq(S) /\ Len(L) \in Nat /\ (pg + 1) - 1 = pg /\ pg + 1 \in Nat \ {0}
  BY <1>a DEF Once
<1>1. c \in Seq(S) /\ n \in Nat /\ m = n + sz /\ m \in Nat
  <2> DEFINE q == pg + 1
  <2>1. q \in Nat \ {0} /\ q - 1 = pg
    BY <1>0
  <2> HIDE DEF q
  <2>2. Cut(L, q, sz) \in Seq(S) /\ (q - 1) * sz \in Nat /\ q * sz = (q - 1) * sz + sz
    BY <1>a, <1>0, <2>1, CutWithin
  <2>3. c \in Seq(S) /\ n \in Nat /\ m = n + sz
    BY <1>a, <2>1, <2>2 DEF q
  <2> HIDE DEF c
  <2> QED
    BY <1>a, <2>3
<1>2. n <= Len(L)
  BY <1>a DEF Along
<1>3. Len(c) = b - n /\ \A k \in 1..b - n : c[k] = L[n + k]
  <2> DEFINE q == pg + 1
             e == IF q * sz < Len(L) THEN q * sz ELSE Len(L)
  <2>1. q \in Nat \ {0} /\ (q - 1) * sz = n /\ q * sz = m
    BY <1>a, <1>0
  <2>2. Cut(L, q, sz) = c
    OBVIOUS
  <2> HIDE DEF q, c
  <2>3. (q - 1) * sz <= Len(L)
    BY <2>1, <1>2
  <2>4. /\ Len(Cut(L, q, sz)) = e - (q - 1) * sz
        /\ \A k \in 1..e - (q - 1) * sz : Cut(L, q, sz)[k] = L[(q - 1) * sz + k]
    <3>1. CutsRight(L, q, sz)
      BY <1>a, <1>0, <2>1, CutIsRight
    <3> QED
      BY <2>3, <3>1 DEF CutsRight
  <2>5. e = b
    BY <2>1
  <2> HIDE DEF e, b
  <2> QED
    BY <2>1, <2>2, <2>4, <2>5
<1>4. b \in Nat /\ n <= b /\ b <= m /\ b <= Len(L) /\ sz \in Nat
  BY <1>a, <1>0, <1>1, <1>2
<1> HIDE DEF c
<1>5. c \in Seq(Nat)
  <2>1. \A k \in 1..Len(c) : c[k] \in Nat
    <3>1. \A k \in 1..Len(c) : c[k] \in S
      BY <1>1
    <3> QED
      BY <1>a, <3>1
  <2>2. c \in [1..Len(c) -> Nat]
    BY <1>1, <2>1
  <2>3. Len(c) \in Nat
    BY <1>1
  <2> QED
    BY <2>2, <2>3
<1>5a. to = ids \o c
  BY <1>a DEF c
<1>6. /\ to \in Seq(Nat) /\ Len(to) = Len(ids) + Len(c) /\ Len(ids) \in Nat /\ Len(c) \in Nat
      /\ \A k \in 1..Len(ids) : to[k] = ids[k]
      /\ \A k \in 1..Len(c) : to[Len(ids) + k] = c[k]
  <2> DEFINE w == ids \o c
  <2>1. /\ w \in Seq(Nat) /\ Len(w) = Len(ids) + Len(c) /\ Len(ids) \in Nat /\ Len(c) \in Nat
        /\ \A k \in 1..Len(ids) : w[k] = ids[k]
        /\ \A k \in 1..Len(c) : w[Len(ids) + k] = c[k]
    BY <1>a, <1>5
  <2>2. w = to
    BY <1>5a
  <2> HIDE DEF w
  <2> QED
    BY <2>1, <2>2
<1>6a. DOMAIN to = 1..Len(to) /\ DOMAIN ids = 1..Len(ids)
  BY <1>6
<1> HIDE DEF b
<1>7. ToSet(ids) \subseteq ToSet(to)
  <2> SUFFICES ASSUME NEW k \in 1..Len(ids) PROVE to[k] = ids[k] /\ k \in 1..Len(to)
    BY <1>6a DEF ToSet
  <2> QED
    BY <1>6
<1>8. \A k \in n + 1..b : L[k] \in ToSet(to)
  <2> SUFFICES ASSUME NEW k \in n + 1..b PROVE L[k] \in ToSet(to)
    OBVIOUS
  <2>1. k - n \in 1..b - n /\ n + (k - n) = k
    BY <1>1, <1>4
  <2>2. c[k - n] = L[k]
    BY <1>3, <2>1
  <2>3. to[Len(ids) + (k - n)] = L[k] /\ Len(ids) + (k - n) \in 1..Len(to)
    BY <1>3, <1>6, <2>1, <2>2
  <2> QED
    BY <1>6a, <2>3 DEF ToSet
<1>9. \A x \in due \cap S : x \in ToSet(to) \/ Behind(L, b, x)
  <2> SUFFICES ASSUME NEW x \in due \cap S, x \notin ToSet(to) PROVE Behind(L, b, x)
    OBVIOUS
  <2>1. Behind(L, n, x)
    BY <1>a, <1>7 DEF Along
  <2>2. PICK k \in n + 1..Len(L) : L[k] = x
    BY <2>1 DEF Behind
  <2>3. ~(k \in n + 1..b)
    BY <1>8, <2>2
  <2>4. k \in b + 1..Len(L)
    BY <1>0, <1>1, <1>4, <2>3
  <2> QED
    BY <2>2, <2>4 DEF Behind
<1>10. ASSUME ~came PROVE Shows(to, L, b)
  <2>1. Len(ids) = n /\ \A k \in 1..n : ids[k] = L[k]
    BY <1>a, <1>10 DEF Along, Shows
  <2>2. Len(to) = b
    BY <1>1, <1>3, <1>4, <1>6, <2>1
  <2>3. ASSUME NEW k \in 1..b PROVE to[k] = L[k]
    <3>1. CASE k <= n
      <4>1. k \in 1..n
        BY <1>1, <1>4, <3>1
      <4> QED
        BY <1>6, <2>1, <4>1
    <3>2. CASE ~(k <= n)
      <4>1. k - n \in 1..b - n /\ n + (k - n) = k
        BY <1>1, <1>4, <3>2
      <4>2. to[Len(ids) + (k - n)] = c[k - n] /\ c[k - n] = L[n + (k - n)]
        BY <1>3, <1>6, <4>1
      <4> QED
        BY <2>1, <4>1, <4>2
    <3> QED
      BY <3>1, <3>2
  <2> QED
    BY <2>2, <2>3 DEF Shows
<1>11. ASSUME m < Len(L) PROVE Along(to, m, due, came, L, S)
  <2>1. b = m
    BY <1>11 DEF b
  <2> QED
    BY <1>0, <1>1, <1>9, <1>10, <1>11, <2>1 DEF Along
<1>12. ASSUME ~(m < Len(L))
       PROVE  /\ due \cap S \subseteq ToSet(to)
              /\ ~came => Cardinality(ToSet(to)) = Len(to)
  <2>1. b = Len(L)
    BY <1>12 DEF b
  <2>2. \A x : ~Behind(L, b, x)
    BY <1>0, <2>1 DEF Behind
  <2>3. ASSUME ~came PROVE Cardinality(ToSet(to)) = Len(to)
    <3>1. Len(to) = b /\ \A k \in 1..b : to[k] = L[k]
      BY <1>10, <2>3 DEF Shows
    <3>2. \A k, j \in 1..b : to[k] = to[j] => k = j
      BY <1>a, <2>1, <3>1 DEF Once
    <3>3. to \in [1..b -> ToSet(to)] /\ \A x \in ToSet(to) : \E k \in 1..b : to[k] = x
      BY <1>6, <1>6a, <3>1 DEF ToSet
    <3>4. to \in Bijection(1..b, ToSet(to))
      BY <3>2, <3>3 DEF Bijection, Injection, Surjection, IsInjective
    <3>5. ExistsBijection(1..b, ToSet(to))
      BY <3>4 DEF ExistsBijection
    <3> QED
      BY <1>4, <3>1, <3>5, FS_CountingElements
  <2> QED
    BY <1>9, <2>2, <2>3
<1> QED
  BY <1>11, <1>12 DEF ReadsTo

LEMMA MovesIs ==
    ASSUME ListTypes, walk.on, NEW q, q = walk.query, NEW m \in BOOLEAN, Moves(m)
    PROVE  /\ WalkTyped' /\ walk'.on /\ walk'.query = q /\ walk'.page = walk.page /\ walk'.ids = walk.ids
           /\ walk'.last = walk.last /\ walk'.due = walk.due
           /\ ~walk'.gone => ~walk.gone /\ ~m /\ Selected(q) \subseteq Selected(q)'
           /\ ~walk'.came => ~walk.came /\ Selected(q)' \subseteq Selected(q)
<1>1. walk' = [walk EXCEPT !.gone = @ \/ m \/ Selected(q) \ Selected(q)' # {},
                           !.came = @ \/ m \/ Selected(q)' \ Selected(q) # {}]
  BY DEF Moves
<1>2. WalkTyped
  BY DEF ListTypes
<1>3. PICK g \in BOOLEAN : g = (walk.gone \/ m \/ Selected(q) \ Selected(q)' # {})
  OBVIOUS
<1>4. PICK c \in BOOLEAN : c = (walk.came \/ m \/ Selected(q)' \ Selected(q) # {})
  OBVIOUS
<1>5. walk' = [walk EXCEPT !.gone = g, !.came = c]
  BY <1>1, <1>3, <1>4
<1>6. WalkTyped' /\ walk'.gone = g /\ walk'.came = c
  BY <1>2, <1>5 DEF WalkTyped, WalkFields
<1>7. /\ walk'.on = walk.on /\ walk'.query = walk.query /\ walk'.page = walk.page /\ walk'.ids = walk.ids
      /\ walk'.last = walk.last /\ walk'.due = walk.due
  BY <1>2, <1>5 DEF WalkTyped, WalkFields
<1>8. ~walk'.gone => ~walk.gone /\ ~m /\ Selected(q) \subseteq Selected(q)'
  BY <1>3, <1>6
<1>9. ~walk'.came => ~walk.came /\ Selected(q)' \subseteq Selected(q)
  BY <1>4, <1>6
<1> QED
  BY <1>6, <1>7, <1>8, <1>9

\* The rows afterwards: those there were are there, and none of them runs again.
StayEnded == \A r \in DOMAIN rows : r \in DOMAIN rows' /\ (rows[r].status # "running" => rows'[r].status # "running")

LEMMA TurnTyped == ASSUME ListTypes, Turn PROVE turns' \in 0..MaxTurns /\ walk.on
<1>1. turns \in Nat /\ MaxTurns \in Nat /\ turns < MaxTurns /\ turns' = turns + 1 /\ walk.on
  BY ListAssumption DEF ListTypes, Turn
<1> QED
  BY <1>1

LEMMA ExecuteTyped ==
    ASSUME ListTypes, NEW p \in DOMAIN plans, ExecutePlan(p), WalkTyped'
    PROVE  ListTypes' /\ StayEnded /\ UNCHANGED <<plans, order>>
<1> DEFINE new == [plan |-> p, tasks |-> plans[p].tasks, by |-> plans[p].by, status |-> "running", truth |-> "running"]
           n == Len(rows)
<1>1. rows' = Append(rows, new) /\ plans' = plans /\ planStatus' = planStatus /\ order' = order
  BY DEF ExecutePlan, StatusWritten
<1>2. rows \in Seq(RowSet) /\ p \in {1, 2} /\ IsForm(plans[p])
  BY DEF ListTypes
<1>3. new \in RowSet
  BY <1>2 DEF RowSet, IsForm, Stati
<1> HIDE DEF new
<1>4. rows' \in Seq(RowSet) /\ Len(rows') = n + 1 /\ \A r \in 1..n : rows'[r] = rows[r]
  BY <1>1, <1>2, <1>3
<1>5. n \in Nat /\ DOMAIN rows = 1..n /\ DOMAIN rows' = 1..n + 1
  BY <1>2, <1>4
<1>6. StayEnded
  BY <1>4, <1>5 DEF StayEnded
<1>7. turns' \in 0..MaxTurns
  BY TurnTyped DEF ExecutePlan
<1> QED
  BY <1>1, <1>4, <1>6, <1>7 DEF ListTypes

LEMMA RowChanged ==
    ASSUME NEW rs \in Seq(RowSet), NEW r \in DOMAIN rs, NEW w \in RowSet, NEW rz, rz = [rs EXCEPT ![r] = w]
    PROVE  /\ rz \in Seq(RowSet) /\ DOMAIN rz = DOMAIN rs
           /\ rz[r] = w /\ \A k \in DOMAIN rs : k # r => rz[k] = rs[k]
  OBVIOUS

LEMMA RecoveredTyped == ListTypes => \A closed : Recovered(closed) \in [{1, 2} -> PlanStati]
  BY DEF ListTypes, Recovered, PlanStati

LEMMA PlanRunEndsTyped ==
    ASSUME ListTypes, NEW r \in DOMAIN rows, NEW status \in Stati \ {"running"}, NEW truth \in Stati,
           PlanRunEnds(r, status, truth), WalkTyped'
    PROVE  ListTypes' /\ StayEnded /\ UNCHANGED <<plans, order>>
<1> DEFINE w == [[rows[r] EXCEPT !.status = status] EXCEPT !.truth = truth]
<1>1. rows' = [rows EXCEPT ![r].status = status, ![r].truth = truth] /\ plans' = plans /\ order' = order
  BY DEF PlanRunEnds, StatusWritten
<1>1a. planStatus' \in [{1, 2} -> PlanStati]
  BY RecoveredTyped DEF PlanRunEnds, ListTypes
<1>2. rows \in Seq(RowSet) /\ rows[r] \in RowSet
  BY RowTyped DEF ListTypes
<1>3. w \in RowSet /\ w.status = status
  BY <1>2 DEF RowSet
<1>4. rows' = [rows EXCEPT ![r] = w]
  BY <1>1, <1>2
<1> HIDE DEF w
<1>5. /\ rows' \in Seq(RowSet) /\ DOMAIN rows' = DOMAIN rows
      /\ rows'[r] = w /\ \A k \in DOMAIN rows : k # r => rows'[k] = rows[k]
  BY <1>2, <1>3, <1>4, RowChanged
<1>6. StayEnded
  BY <1>3, <1>5 DEF StayEnded
<1>7. turns' \in 0..MaxTurns
  BY TurnTyped DEF PlanRunEnds
<1> QED
  BY <1>1, <1>1a, <1>5, <1>6, <1>7 DEF ListTypes

LEMMA WorkerBeginsTyped ==
    ASSUME ListTypes, NEW r \in DOMAIN rows, WorkerBegins(r), WalkTyped'
    PROVE  ListTypes' /\ StayEnded /\ UNCHANGED <<plans, order>>
<1>1. rows' = rows /\ plans' = plans /\ order' = order
  BY DEF WorkerBegins, StatusWritten
<1>2. planStatus' \in [{1, 2} -> PlanStati]
  BY DEF WorkerBegins, ListTypes, PlanStati
<1>3. StayEnded
  BY <1>1 DEF StayEnded
<1>4. turns' \in 0..MaxTurns
  BY TurnTyped DEF WorkerBegins
<1> QED
  BY <1>1, <1>2, <1>3, <1>4 DEF ListTypes, IsForm

LEMMA RunsEndTyped ==
    ASSUME ListTypes, NEW r \in DOMAIN rows, NEW truth \in Stati, RunsEnd(r, truth), WalkTyped'
    PROVE  ListTypes' /\ StayEnded /\ UNCHANGED <<plans, order>>
<1> DEFINE w == [rows[r] EXCEPT !.truth = truth]
<1>1. rows' = [rows EXCEPT ![r].truth = truth] /\ plans' = plans /\ planStatus' = planStatus /\ order' = order
  BY DEF RunsEnd
<1>2. rows \in Seq(RowSet) /\ rows[r] \in RowSet
  BY RowTyped DEF ListTypes
<1>3. w \in RowSet /\ w.status = rows[r].status
  BY <1>2 DEF RowSet
<1>4. rows' = [rows EXCEPT ![r] = w]
  BY <1>1, <1>2
<1> HIDE DEF w
<1>5. /\ rows' \in Seq(RowSet) /\ DOMAIN rows' = DOMAIN rows
      /\ rows'[r] = w /\ \A k \in DOMAIN rows : k # r => rows'[k] = rows[k]
  BY <1>2, <1>3, <1>4, RowChanged
<1>6. StayEnded
  BY <1>3, <1>5 DEF StayEnded
<1>7. turns' \in 0..MaxTurns
  BY TurnTyped DEF RunsEnd
<1> QED
  BY <1>1, <1>5, <1>6, <1>7 DEF ListTypes

LEMMA PairOf ==
    ASSUME NEW s \in Seq({1, 2}), Len(s) = 2
    PROVE  s = <<s[1], s[2]>>
  OBVIOUS

LEMMA AppendIs ==
    ASSUME NEW D, NEW s \in Seq(D), NEW x \in D
    PROVE  /\ Append(s, x) \in Seq(D) /\ Len(Append(s, x)) = Len(s) + 1
           /\ Append(s, x)[Len(s) + 1] = x /\ \A k \in 1..Len(s) : Append(s, x)[k] = s[k]
  OBVIOUS

LEMMA OrderIs ==
    ASSUME ListTypes
    PROVE  /\ order \in Seq({1, 2}) /\ Len(order) = 2 /\ DOMAIN order = {1, 2}
           /\ order[1] \in {1, 2} /\ order[2] \in {1, 2} /\ order[1] # order[2]
<1>1. order = <<1, 2>> \/ order = <<2, 1>>
  BY DEF ListTypes
<1>2. CASE order = <<1, 2>>
  <2>1. <<1, 2>> \in Seq({1, 2}) /\ Len(<<1, 2>>) = 2
    OBVIOUS
  <2> QED
    BY <1>2, <2>1
<1>3. CASE order = <<2, 1>>
  <2>1. <<2, 1>> \in Seq({1, 2}) /\ Len(<<2, 1>>) = 2
    OBVIOUS
  <2> QED
    BY <1>3, <2>1
<1> QED
  BY <1>1, <1>2, <1>3

LEMMA EditedIs ==
    ASSUME ListTypes, NEW p \in {1, 2}
    PROVE  Edited(p) \in {<<1, 2>>, <<2, 1>>}
<1> DEFINE i == CHOOSE i \in DOMAIN order : order[i] = p
           D == {1, 2}
           u == SubSeq(order, 1, i - 1)
           v == SubSeq(order, i + 1, 2)
           s == u \o v
           e == Append(s, p)
<1>1. order \in Seq(D) /\ Len(order) = 2 /\ DOMAIN order = {1, 2} /\ order[1] # order[2]
      /\ order[1] \in D /\ order[2] \in D
  BY OrderIs
<1>2. \E k \in DOMAIN order : order[k] = p
  <2>1. order[1] = p \/ order[2] = p
    BY <1>1
  <2> QED
    BY <1>1, <2>1
<1>3. i \in {1, 2} /\ order[i] = p
  BY <1>1, <1>2
<1>4. Edited(p) = e
  BY <1>1 DEF Edited, RemoveAt
<1> HIDE DEF i, D, e
<1>5. CASE i = 1
  <2>1. u \in Seq(D) /\ Len(u) = 0 /\ v \in Seq(D) /\ Len(v) = 1 /\ v[1] = order[2]
    <3>1. u \in Seq(D) /\ Len(u) = 0
      BY <1>1, <1>5
    <3>2. v \in Seq(D) /\ Len(v) = 1 /\ v[1] = order[2]
      BY <1>1, <1>5
    <3> QED
      BY <3>1, <3>2
  <2> HIDE DEF u, v
  <2>2. s \in Seq(D) /\ Len(s) = 1 /\ s[1] = order[2]
    BY <2>1
  <2> HIDE DEF s
  <2>3. p \in D
    BY DEF D
  <2>4. e \in Seq(D) /\ Len(e) = 2 /\ e[1] = order[2] /\ e[2] = p
    <3>0. s \in Seq(D) /\ p \in D /\ e = Append(s, p)
      BY <2>2, <2>3 DEF e
    <3>1. /\ e \in Seq(D) /\ Len(e) = Len(s) + 1
          /\ e[Len(s) + 1] = p /\ \A k \in 1..Len(s) : e[k] = s[k]
      BY <3>0, AppendIs
    <3> QED
      BY <2>2, <3>1
  <2>5. e = <<order[2], p>>
    BY <2>4, PairOf DEF D
  <2>6. p # order[2]
    BY <1>1, <1>3, <1>5
  <2> QED
    BY <1>1, <1>4, <2>5, <2>6 DEF D
<1>6. CASE i = 2
  <2>1. u \in Seq(D) /\ Len(u) = 1 /\ u[1] = order[1] /\ v \in Seq(D) /\ Len(v) = 0
    <3>1. u \in Seq(D) /\ Len(u) = 1 /\ u[1] = order[1]
      BY <1>1, <1>6
    <3>2. v \in Seq(D) /\ Len(v) = 0
      BY <1>1, <1>6
    <3> QED
      BY <3>1, <3>2
  <2> HIDE DEF u, v
  <2>2. s \in Seq(D) /\ Len(s) = 1 /\ s[1] = order[1]
    BY <2>1
  <2> HIDE DEF s
  <2>3. p \in D
    BY DEF D
  <2>4. e \in Seq(D) /\ Len(e) = 2 /\ e[1] = order[1] /\ e[2] = p
    <3>0. s \in Seq(D) /\ p \in D /\ e = Append(s, p)
      BY <2>2, <2>3 DEF e
    <3>1. /\ e \in Seq(D) /\ Len(e) = Len(s) + 1
          /\ e[Len(s) + 1] = p /\ \A k \in 1..Len(s) : e[k] = s[k]
      BY <3>0, AppendIs
    <3> QED
      BY <2>2, <3>1
  <2>5. e = <<order[1], p>>
    BY <2>4, PairOf DEF D
  <2>6. p # order[1]
    BY <1>1, <1>3, <1>6
  <2> QED
    BY <1>1, <1>4, <2>5, <2>6 DEF D
<1> QED
  BY <1>3, <1>5, <1>6

LEMMA UpdateTyped ==
    ASSUME ListTypes, NEW p \in DOMAIN plans, NEW f \in PlanForms, NEW status \in PlanStati,
           UpdatePlan(p, f, status), WalkTyped'
    PROVE  ListTypes' /\ StayEnded
<1> DEFINE g == [f EXCEPT !.explicit = <<Overview(f.tasks, f.explicit).line>>]
<1>1. plans' = [plans EXCEPT ![p] = g] /\ order' = Edited(p) /\ rows' = rows
  BY DEF UpdatePlan
<1>2. DOMAIN f = FormFields /\ f.tasks \subseteq DOMAIN TaskOf /\ f.rounds \in Nat /\ f.by \in Creators
  BY ListAssumption DEF FormFields, Creators
<1>3. DOMAIN g = DOMAIN f /\ g.tasks = f.tasks /\ g.rounds = f.rounds /\ g.by = f.by
  BY <1>2 DEF FormFields
<1>4. IsForm(g)
  BY <1>2, <1>3 DEF IsForm
<1> HIDE DEF g
<1>5. DOMAIN plans' = {1, 2} /\ \A k \in {1, 2} : IsForm(plans'[k])
  BY <1>1, <1>4 DEF ListTypes
<1>6. order' \in {<<1, 2>>, <<2, 1>>}
  BY <1>1, EditedIs DEF ListTypes
<1>6a. planStatus' \in [{1, 2} -> PlanStati]
  BY DEF UpdatePlan, ListTypes
<1>7. turns' \in 0..MaxTurns
  BY TurnTyped DEF UpdatePlan
<1>8. StayEnded
  BY <1>1 DEF StayEnded
<1>9. \A k \in {1, 2} : IsForm(plans[k])'
  BY <1>5 DEF IsForm
<1> QED
  BY <1>1, <1>5, <1>6, <1>6a, <1>7, <1>8, <1>9 DEF ListTypes

LEMMA FoundFinite ==
    ASSUME NEW rs \in Seq(RowSet), NEW q
    PROVE  Found(rs, q) \in SUBSET Nat /\ IsFiniteSet(Found(rs, q)) /\ Found(rs, q) \subseteq DOMAIN rs
<1>1. Found(rs, q) \in SUBSET DOMAIN rs
  BY FoundIs
<1> QED
  BY <1>1, RowsFinite

LEMMA FoundAfter ==
    ASSUME NEW q, UNCHANGED plans, NEW rs, rows' = rs
    PROVE  Found(rows, q)' = Found(rs, q)
  BY DEF Found, Candidate, Selects, Matched, RunRow, Overview, Stages, RoundMode, TasksBy, CreatorIds,
         Says, StatusIs

LEMMA PlansAlike ==
    ASSUME NEW q, q.list = "plans", UNCHANGED <<plans, planStatus, order>>
    PROVE  Listing(q)' = Listing(q) /\ Selected(q)' = Selected(q)
<1>1. FoundPlans(q)' = FoundPlans(q)
  BY DEF FoundPlans, Selects, RoundMode, TasksBy, CreatorIds
<1>2. PlanPlaces(q)' = PlanPlaces(q)
  BY <1>1 DEF PlanPlaces
<1>3. PlanListing(q)' = PlanListing(q)
  BY <1>2 DEF PlanListing
<1> QED
  BY <1>1, <1>3 DEF Listing, Selected

\* More is found: the reader who is along stays along.
LEMMA MoreIsFound ==
    ASSUME NEW T \in SUBSET Nat, IsFiniteSet(T), NEW S \in SUBSET T, NEW ids \in Seq(Nat), NEW n \in Nat,
           NEW due, NEW came \in BOOLEAN, NEW come \in BOOLEAN, ~come => ~came /\ T \subseteq S,
           \A x \in due \cap T : x \in S,
           Along(ids, n, due, came, NewestFirst(S), S)
    PROVE  Along(ids, n, due, come, NewestFirst(T), T)
<1> DEFINE L == NewestFirst(S)
           G == NewestFirst(T)
<1>1. IsFiniteSet(S) /\ Cardinality(S) \in Nat /\ Cardinality(T) \in Nat /\ Cardinality(S) <= Cardinality(T)
  BY FS_Subset, FS_CardinalityType
<1>2. Len(L) = Cardinality(S) /\ Len(G) = Cardinality(T)
  BY <1>1, NewestFirstIs
<1>3. n <= Len(L) /\ \A x \in due \cap S : x \in ToSet(ids) \/ Behind(L, n, x)
  BY DEF Along
<1>4. ~come => S = T /\ Shows(ids, G, n)
  <2>1. ~come => S = T /\ ~came
    OBVIOUS
  <2>2. ~came => Shows(ids, L, n)
    BY DEF Along
  <2> HIDE DEF L, G
  <2> QED
    BY <2>1, <2>2 DEF L, G
<1>5. ASSUME NEW x \in due \cap T, x \notin ToSet(ids) PROVE Behind(G, n, x)
  <2>1. Behind(L, n, x)
    BY <1>3, <1>5
  <2>2. PICK k \in n + 1..Len(L) : L[k] = x
    BY <2>1 DEF Behind
  <2>3. k \in 1..Cardinality(S) /\ k \in Nat /\ n + 1 <= k
    BY <1>1, <1>2, <2>2
  <2>4. PICK j \in 1..Cardinality(T) : k <= j /\ G[j] = L[k]
    BY <2>3, FurtherBehind
  <2>5. j \in n + 1..Len(G)
    BY <1>1, <1>2, <2>3, <2>4
  <2> QED
    BY <2>2, <2>4, <2>5 DEF Behind
<1> QED
  BY <1>1, <1>2, <1>3, <1>4, <1>5 DEF Along

\* A function on 1..n is a list of n entries.
LEMMA ListOfPlaces ==
    ASSUME NEW n \in Nat, NEW f, NEW T, f \in [1..n -> T]
    PROVE  Len(f) = n
<1>1. f \in Seq(T)
  BY SeqDef
<1>2. DOMAIN f = 1..Len(f) /\ Len(f) \in Nat
  BY <1>1, LenProperties
<1>3. DOMAIN f = 1..n
  OBVIOUS
<1> QED
  BY <1>2, <1>3

\* So with plans, of which more have the status by now.
LEMMA MorePlansAreFound ==
    ASSUME ListTypes, ListTypes', NEW q, UNCHANGED <<plans, order>>,
           FoundPlans(q) \subseteq FoundPlans(q)',
           NEW ids, NEW n \in Nat, NEW due, due \subseteq FoundPlans(q), NEW came, NEW come,
           ~come => ~came /\ FoundPlans(q)' \subseteq FoundPlans(q),
           Along(ids, n, due, came, PlanListing(q), FoundPlans(q))
    PROVE  Along(ids, n, due, come, PlanListing(q)', FoundPlans(q)')
<1> DEFINE P == PlanPlaces(q)
           R == PlanPlaces(q)'
           g == NewestFirst(P)
           h == NewestFirst(R)
           L == PlanListing(q)
           G == PlanListing(q)'
<1>1. P \in SUBSET R
  BY DEF PlanPlaces
<1>2. /\ R \in SUBSET Nat /\ IsFiniteSet(R) /\ P \in SUBSET Nat /\ IsFiniteSet(P)
  <2>1. DOMAIN order = {1, 2} /\ order' = order
    BY OrderIs
  <2>2. R \subseteq {1, 2} /\ IsFiniteSet({1, 2})
    BY <2>1, PairIsFinite DEF PlanPlaces
  <2>3. IsFiniteSet(R)
    BY <2>2, FS_Subset
  <2> QED
    BY <2>2, <2>3, PlanPlacesTyped
<1>3. Cardinality(P) \in Nat /\ Cardinality(R) \in Nat /\ Cardinality(P) <= Cardinality(R)
  BY <1>1, <1>2, FS_Subset, FS_CardinalityType
<1>4. DOMAIN g = 1..Cardinality(P) /\ DOMAIN h = 1..Cardinality(R)
  BY DEF NewestFirst
<1>5. L = [k \in 1..Cardinality(P) |-> order[g[k]]] /\ G = [k \in 1..Cardinality(R) |-> order[h[k]]]
  BY <1>4 DEF PlanListing
<1>6. Len(L) = Cardinality(P) /\ Len(G) = Cardinality(R)
  <2> HIDE DEF g, h, L, G, P, R
  <2> DEFINE T == {order[k] : k \in {g[j] : j \in 1..Cardinality(P)}
                                   \cup {h[j] : j \in 1..Cardinality(R)}}
  <2>1. L \in [1..Cardinality(P) -> T] /\ G \in [1..Cardinality(R) -> T]
    BY <1>5
  <2> HIDE DEF T
  <2> QED
    BY <1>3, <2>1, ListOfPlaces
<1>7. n <= Len(L) /\ \A x \in due \cap FoundPlans(q) : x \in ToSet(ids) \/ Behind(L, n, x)
  BY DEF Along
<1>8. ~come => Shows(ids, G, n)
  <2> SUFFICES ASSUME ~come PROVE Shows(ids, G, n)
    OBVIOUS
  <2>1. FoundPlans(q)' = FoundPlans(q)
    OBVIOUS
  <2>2. R = P
    BY <2>1 DEF PlanPlaces
  <2>3. G = L
    BY <1>5, <2>2
  <2>4. Shows(ids, L, n)
    BY DEF Along
  <2> QED
    BY <2>3, <2>4
<1>9. ASSUME NEW x \in due, x \notin ToSet(ids) PROVE Behind(G, n, x)
  <2>1. Behind(L, n, x)
    BY <1>7, <1>9
  <2>2. PICK k \in n + 1..Len(L) : L[k] = x
    BY <2>1 DEF Behind
  <2> HIDE DEF P, R, L, G, h, g
  <2>3. k \in 1..Cardinality(P) /\ k \in Nat /\ n + 1 <= k
    BY <1>3, <1>6, <2>2
  <2>4. PICK j \in 1..Cardinality(R) : k <= j /\ h[j] = g[k]
    BY <1>1, <1>2, <2>3, FurtherBehind DEF g, h
  <2>5. G[j] = x /\ j \in n + 1..Len(G)
    BY <1>3, <1>5, <1>6, <2>2, <2>3, <2>4
  <2> QED
    BY <2>5 DEF Behind
<1> HIDE DEF L, G
<1> QED
  BY <1>3, <1>6, <1>7, <1>8, <1>9 DEF Along, L, G

\* Some of what was found has left, none of it from what was read.
LEMMA LessIsFound ==
    ASSUME NEW S \in SUBSET Nat, IsFiniteSet(S), NEW T \in SUBSET S, NEW ids \in Seq(Nat), NEW n \in Nat,
           NEW due, NEW came, \A k \in 1..n : NewestFirst(S)[k] \in T,
           Along(ids, n, due, came, NewestFirst(S), S)
    PROVE  Along(ids, n, due, came, NewestFirst(T), T)
<1> DEFINE L == NewestFirst(S)
           G == NewestFirst(T)
<1>1. IsFiniteSet(T) /\ Cardinality(S) \in Nat /\ Cardinality(T) \in Nat
  BY FS_Subset, FS_CardinalityType
<1>2. Len(L) = Cardinality(S) /\ Len(G) = Cardinality(T)
  BY <1>1, NewestFirstIs
<1>3. n <= Len(L) /\ \A x \in due \cap S : x \in ToSet(ids) \/ Behind(L, n, x)
  BY DEF Along
<1>4. n \in 0..Cardinality(S)
  BY <1>1, <1>2, <1>3
<1>5. n <= Cardinality(T) /\ \A k \in 1..n : G[k] = L[k]
  BY <1>4, SameStart
<1>6. Once(L, S) /\ Once(G, T)
  BY <1>1, NewestFirstOnce
<1> HIDE DEF L, G
<1>7. ~came => Shows(ids, G, n)
  BY <1>5 DEF Along, Shows, L
<1>8. ASSUME NEW x \in due \cap T, x \notin ToSet(ids) PROVE Behind(G, n, x)
  <2>1. Behind(L, n, x)
    BY <1>3, <1>8
  <2>2. PICK k \in n + 1..Len(L) : L[k] = x
    BY <2>1 DEF Behind
  <2>3. PICK j \in 1..Len(G) : G[j] = x
    BY <1>6, <1>8 DEF Once
  <2>4. ~(j \in 1..n)
    <3> SUFFICES ASSUME j \in 1..n PROVE FALSE
      OBVIOUS
    <3>1. L[j] = L[k] /\ j \in 1..Len(L) /\ k \in 1..Len(L) /\ j # k
      BY <1>1, <1>2, <1>3, <1>5, <2>2, <2>3
    <3> QED
      BY <1>6, <3>1 DEF Once
  <2>5. j \in n + 1..Len(G)
    BY <1>1, <1>2, <2>3, <2>4
  <2> QED
    BY <2>3, <2>5 DEF Behind
<1> QED
  BY <1>2, <1>3, <1>5, <1>7, <1>8 DEF Along, L, G

\* Whatever happens between two pages.
LEMMA OthersKeep ==
    ASSUME ListInv, ListTypes', walk.on, NEW m \in BOOLEAN, Moves(m), StayEnded,
           walk.query.list = "plans" /\ ~m => UNCHANGED <<plans, order>>
    PROVE  ListInv'
<1>0. ListTypes /\ WalkTyped
  BY DEF ListInv, ListTypes
<1>1. PICK q \in Queries : q = walk.query
  BY <1>0 DEF WalkTyped
<1>2. /\ walk'.on /\ walk'.query = q /\ walk'.page = walk.page /\ walk'.ids = walk.ids
      /\ walk'.last = walk.last /\ walk'.due = walk.due
      /\ ~walk'.gone => ~walk.gone /\ ~m /\ Selected(q) \subseteq Selected(q)'
      /\ ~walk'.came => ~walk.came /\ Selected(q)' \subseteq Selected(q)
  BY <1>0, <1>1, MovesIs
<1>3. PagesKeepTheFilter'
  <2>1. PagesKeepTheFilter
    BY DEF ListInv
  <2> QED
    BY <1>1, <1>2, <2>1 DEF PagesKeepTheFilter, Says
<1>4. NothingSkipped' /\ NothingTwice'
  BY <1>2 DEF NothingSkipped, NothingTwice, Walked
<1>5. ASSUME ~walk'.gone, Steady(q)
      PROVE  /\ Along(walk.ids, walk.page * q.size, walk.due, walk'.came, Listing(q)', Selected(q)')
             /\ LeftHaveEnded(q, walk.due)'
  <2> DEFINE n == walk.page * q.size
             T == Selected(q)
             U == Selected(q)'
  <2>1. Along(walk.ids, n, walk.due, walk.came, Listing(q), T) /\ LeftHaveEnded(q, walk.due)
    BY <1>1, <1>2, <1>5 DEF ListInv, OnTheWay
  <2>2. n \in Nat
    BY <1>0, QueryTyped, Product DEF WalkTyped
  <2>3. walk'.came \in BOOLEAN /\ walk.came \in BOOLEAN /\ walk.ids \in Seq(Nat)
    BY <1>0 DEF WalkTyped, ListTypes
  <2>4. T \subseteq U /\ (~walk'.came => ~walk.came /\ U \subseteq T)
    BY <1>2, <1>5
  <2>5. CASE q.list = "plans"
    <3>1. UNCHANGED <<plans, order>>
      BY <1>1, <1>2, <1>5, <2>5
    <3>2. /\ T = FoundPlans(q) /\ U = FoundPlans(q)'
          /\ Listing(q) = PlanListing(q) /\ Listing(q)' = PlanListing(q)'
      BY <2>5 DEF Selected, Listing
    <3>3. walk.due \subseteq T
      BY <2>1, <2>5 DEF LeftHaveEnded
    <3> HIDE DEF n, T, U
    <3>4. Along(walk.ids, n, walk.due, walk'.came, Listing(q)', U)
      BY <1>0, <2>1, <2>2, <2>3, <2>4, <3>1, <3>2, <3>3, MorePlansAreFound
    <3>5. walk.due \subseteq U
      BY <2>4, <3>3
    <3> QED
      BY <1>2, <2>5, <3>4, <3>5 DEF LeftHaveEnded, n, U
  <2>6. CASE q.list # "plans"
    <3>1. /\ T = Found(rows, q) /\ U = Found(rows, q)'
          /\ Listing(q) = NewestFirst(T) /\ Listing(q)' = NewestFirst(U)
      BY <2>6 DEF Selected, Listing
    <3>2. rows' \in Seq(RowSet) /\ U \in SUBSET DOMAIN rows'
      BY <3>1 DEF ListTypes, Found
    <3>3. U \in SUBSET Nat /\ IsFiniteSet(U)
      BY <3>2, RowsFinite
    <3>4. \A r \in walk.due \ T : q.status = "running" /\ r \in DOMAIN rows /\ rows[r].status # "running"
      BY <2>1, <2>6 DEF LeftHaveEnded
    <3>5. \A r \in walk.due \ T : q.status = "running" /\ r \in DOMAIN rows' /\ rows'[r].status # "running"
      BY <3>4 DEF StayEnded
    <3>6. \A r \in U : q.status = "running" => rows'[r].status = "running"
      BY <3>1 DEF Found, Candidate, StatusIs
    <3>7. \A x \in walk.due \cap U : x \in T
      BY <3>5, <3>6
    <3> HIDE DEF n, T, U
    <3>8. Along(walk.ids, n, walk.due, walk.came, NewestFirst(T), T)
      BY <2>1, <3>1
    <3>9. Along(walk.ids, n, walk.due, walk'.came, NewestFirst(U), U)
      BY <2>2, <2>3, <2>4, <3>3, <3>7, <3>8, MoreIsFound
    <3>10. \A r \in walk.due \ U : q.status = "running" /\ r \in DOMAIN rows' /\ rows'[r].status # "running"
      BY <2>4, <3>5
    <3>11. LeftHaveEnded(q, walk.due)'
      BY <1>2, <2>6, <3>10 DEF LeftHaveEnded, U
    <3> QED
      BY <3>1, <3>9, <3>11 DEF n, U
  <2> QED
    BY <2>5, <2>6
<1>6. OnTheWay'
  BY <1>2, <1>5 DEF OnTheWay, Steady
<1> QED
  BY <1>3, <1>4, <1>6 DEF ListInv

\* Reading a page of plan runs.
LEMMA RunsRead ==
    ASSUME ListTypes, NEW q \in Queries, q.list = "runs", NEW pg \in Nat \ {0}, NEW ans,
           ans = ListPlanRuns(q, pg)
    PROVE  \E M : ReadsWell(q, pg, ans, M)
<1>1. ans = Narrowed(q, pg) \/ ans = Direct(q, pg)
  BY DEF ListPlanRuns
<1>2. CASE ans = Narrowed(q, pg)
  BY <1>2, NarrowedReads
<1>3. CASE ans = Direct(q, pg)
  BY <1>3, DirectReads
<1> QED
  BY <1>1, <1>2, <1>3

\* What is found after a read was found before.
LEMMA ReadingTakesAway ==
    ASSUME ListTypes, NEW q \in Queries, q.status \in {"any", "running"}, NEW pg, NEW ans, NEW M,
           ReadsWell(q, pg, ans, M)
    PROVE  /\ M = Found(ans.rows, q) /\ M \subseteq Found(rows, q)
           /\ \A r \in Found(rows, q) \ M : /\ q.status = "running" /\ r \in DOMAIN ans.rows
                                            /\ ans.rows[r].status # "running"
           /\ \A r \in DOMAIN rows : /\ r \in DOMAIN ans.rows
                                     /\ q.status = "running" /\ rows[r].status # "running" =>
                                           ans.rows[r].status # "running"
<1> DEFINE z == ans.rows
           F == Found(rows, q)
<1>1. /\ SameBut(rows, z) /\ M = Found(z, q)
      /\ q.status = "running" => \A r \in DOMAIN rows : rows[r].status # "running" => z[r].status # "running"
  BY DEF ReadsWell
<1>2. DOMAIN z = DOMAIN rows
  BY <1>1 DEF SameBut
<1> HIDE DEF z
<1>3. \A r : r \in M <=> r \in DOMAIN z /\ AskedOf(z[r], q) /\ StatusIs(z[r], q)
  BY <1>1, FoundIs
<1>4. \A r : r \in F <=> r \in DOMAIN rows /\ AskedOf(rows[r], q) /\ StatusIs(rows[r], q)
  BY FoundIs
<1>5. \A r \in DOMAIN rows : AskedOf(z[r], q) <=> AskedOf(rows[r], q)
  BY <1>1, AskedSame
<1> HIDE DEF F
<1>6. CASE q.status = "any"
  <2>1. \A r : StatusIs(z[r], q) /\ StatusIs(rows[r], q)
    BY <1>6 DEF StatusIs
  <2>2. M = F
    BY <1>2, <1>3, <1>4, <1>5, <2>1
  <2> QED
    BY <1>1, <1>2, <1>6, <2>2 DEF z, F
<1>7. CASE q.status = "running"
  <2>1. \A r : /\ StatusIs(z[r], q) <=> z[r].status = "running"
               /\ StatusIs(rows[r], q) <=> rows[r].status = "running"
    BY <1>7 DEF StatusIs
  <2>2. M \subseteq F
    BY <1>1, <1>2, <1>3, <1>4, <1>5, <1>7, <2>1
  <2>3. \A r \in F \ M : r \in DOMAIN z /\ z[r].status # "running"
    BY <1>2, <1>3, <1>4, <1>5, <2>1
  <2> QED
    BY <1>1, <1>2, <1>7, <2>2, <2>3 DEF z, F
<1> QED
  BY <1>6, <1>7

AsAsked(shownRow, q) ==
    /\ Says(shownRow, q)
    /\ q.list = "plans" \/ q.status = "running" => q.status \in {"any", shownRow.status}

LEMMA RunsPageKeepsFilter ==
    ASSUME ListTypes, NEW q \in Queries, NEW pg \in Nat \ {0}, NEW ans, NEW M, ReadsWell(q, pg, ans, M),
           q.list # "plans", NEW i \in DOMAIN ans.page
    PROVE  ans.page[i] \in M /\ AsAsked(RunRow(ans.rows[ans.page[i]]), q)
<1> DEFINE r == ans.page[i]
           z == ans.rows
<1>1. /\ SameBut(rows, z) /\ M \in SUBSET DOMAIN rows /\ \A x \in M : AskedOf(rows[x], q)
      /\ ans.page = Cut(NewestFirst(M), pg, q.size)
  BY DEF ReadsWell
<1>2. M \in SUBSET Nat /\ IsFiniteSet(M)
  BY <1>1, RowsFinite DEF ListTypes
<1>3. ToSet(ans.page) \subseteq M
  BY <1>1, <1>2, CutOfFound, QueryTyped
<1>4. r \in M
  BY <1>3 DEF ToSet
<1> HIDE DEF r, z
<1>5. r \in DOMAIN rows /\ AskedOf(rows[r], q)
  BY <1>1, <1>4
<1>6. AskedOf(z[r], q)
  BY <1>1, <1>5, AskedSame
<1>7. Says(RunRow(z[r]), q)
  BY <1>6, RunsShowIt
<1>8. ASSUME q.status = "running" PROVE RunRow(z[r]).status = "running"
  <2>1. M = Found(z, q)
    BY <1>8 DEF ReadsWell, z
  <2>2. StatusIs(z[r], q)
    BY <1>4, <2>1, FoundIs
  <2> QED
    BY <1>8, <2>2 DEF StatusIs, RunRow
<1> QED
  BY <1>4, <1>7, <1>8 DEF r, z, AsAsked

LEMMA PlansPageKeepsFilter ==
    ASSUME ListTypes, NEW q \in Queries, q.list = "plans", NEW pg \in Nat \ {0}, NEW ans, ans = ListPlans(q, pg),
           NEW i \in DOMAIN ans.page
    PROVE  AsAsked(PlanRow(ans.page[i]), q)
<1>1. ans.page = Cut(PlanListing(q), pg, q.size)
  BY DEF ListPlans, PlanListing, PlanPlaces
<1>2. PlanListing(q) \in Seq(FoundPlans(q))
  BY ListingOnce DEF Once, Listing, Selected
<1>3. ans.page \in Seq(FoundPlans(q))
  <2>1. q.size \in Nat \ {0}
    BY QueryTyped
  <2>2. Cut(PlanListing(q), pg, q.size) \in Seq(FoundPlans(q))
    BY <1>2, <2>1, CutWithin
  <2> QED
    BY <1>1, <2>2
<1>4. ans.page[i] \in FoundPlans(q)
  BY <1>3
<1>5. Says(PlanRow(ans.page[i]), q)
  BY <1>4, PlansShowIt DEF FoundPlans
<1>6. q.status \in {"any", PlanRow(ans.page[i]).status}
  BY <1>4 DEF FoundPlans, PlanRow
<1> QED
  BY <1>5, <1>6 DEF AsAsked

\* The step of a reader of page pg.
ReadBy(q, pg, ans, rest) ==
    /\ q = walk.query /\ pg = walk.page + 1 /\ walk.on
    /\ ans = IF q.list = "plans" THEN ListPlans(q, pg) ELSE ListPlanRuns(q, pg)
    /\ rest = [i \in DOMAIN ans.page |-> IF q.list = "plans" THEN PlanRow(ans.page[i])
                                         ELSE RunRow(ans.rows[ans.page[i]])]
    /\ rows' = ans.rows /\ UNCHANGED <<plans, order, turns>>
    /\ planStatus' = Recovered({r \in StillActive(rows, DOMAIN rows) : ans.rows[r].status # "running"})
    /\ DOMAIN walk' = WalkFields
    /\ walk'.query = q /\ walk'.page = pg /\ walk'.ids = walk.ids \o ans.page /\ walk'.last = rest
    /\ walk'.on = (pg * q.size < ans.total) /\ walk'.due = walk.due /\ walk'.came = walk.came
    /\ walk'.gone = (walk.gone \/ (q.list = "runs" /\ LeavesBefore(q, pg, ans.rows)))

LEMMA ReadIs ==
    ASSUME ListInv, ReadPage
    PROVE  \E q \in Queries, pg \in Nat \ {0} : \E ans, rest : ReadBy(q, pg, ans, rest)
<1>1. PICK q \in {walk.query}, pg \in {walk.page + 1} :
         \E ans \in {IF q.list = "plans" THEN ListPlans(q, pg) ELSE ListPlanRuns(q, pg)} :
          /\ rows' = ans.rows
          /\ planStatus' = Recovered({r \in StillActive(rows, DOMAIN rows) : ans.rows[r].status # "running"})
          /\ walk' = [walk EXCEPT
                !.page = pg, !.total = ans.total, !.ids = @ \o ans.page,
                !.last = [i \in DOMAIN ans.page |-> IF q.list = "plans" THEN PlanRow(ans.page[i])
                                                   ELSE RunRow(ans.rows[ans.page[i]])],
                !.on = pg * q.size < ans.total,
                !.gone = @ \/ (q.list = "runs" /\ LeavesBefore(q, pg, ans.rows))]
  BY DEF ReadPage
<1>2. PICK ans : /\ ans = IF q.list = "plans" THEN ListPlans(q, pg) ELSE ListPlanRuns(q, pg)
                 /\ rows' = ans.rows
                 /\ planStatus' = Recovered({r \in StillActive(rows, DOMAIN rows) : ans.rows[r].status # "running"})
                 /\ walk' = [walk EXCEPT
                       !.page = pg, !.total = ans.total, !.ids = @ \o ans.page,
                       !.last = [i \in DOMAIN ans.page |-> IF q.list = "plans" THEN PlanRow(ans.page[i])
                                                          ELSE RunRow(ans.rows[ans.page[i]])],
                       !.on = pg * q.size < ans.total,
                       !.gone = @ \/ (q.list = "runs" /\ LeavesBefore(q, pg, ans.rows))]
  BY <1>1
<1>3. WalkTyped /\ walk.on /\ UNCHANGED <<plans, order, turns>>
  BY DEF ListInv, ListTypes, ReadPage
<1>4. q \in Queries /\ q = walk.query /\ pg = walk.page + 1 /\ pg \in Nat \ {0}
  BY <1>3 DEF WalkTyped
<1>5. PICK rest : rest = [i \in DOMAIN ans.page |-> IF q.list = "plans" THEN PlanRow(ans.page[i])
                                                   ELSE RunRow(ans.rows[ans.page[i]])]
  OBVIOUS
<1>6. PICK gone \in BOOLEAN : gone = (walk.gone \/ (q.list = "runs" /\ LeavesBefore(q, pg, ans.rows)))
  OBVIOUS
<1>7. PICK on : on = (pg * q.size < ans.total)
  OBVIOUS
<1>8. walk' = [walk EXCEPT !.page = pg, !.total = ans.total, !.ids = walk.ids \o ans.page,
                           !.last = rest, !.on = on, !.gone = gone]
  BY <1>2, <1>5, <1>6, <1>7
<1>9. DOMAIN walk = WalkFields
  BY <1>3 DEF WalkTyped
<1>10. /\ DOMAIN walk' = WalkFields
       /\ walk'.query = q /\ walk'.page = pg /\ walk'.ids = walk.ids \o ans.page /\ walk'.last = rest
       /\ walk'.on = on /\ walk'.due = walk.due /\ walk'.came = walk.came /\ walk'.gone = gone
  BY <1>4, <1>8, <1>9 DEF WalkFields
<1>11. ReadBy(q, pg, ans, rest)
  BY <1>2, <1>3, <1>4, <1>5, <1>6, <1>7, <1>10 DEF ReadBy
<1> QED
  BY <1>4, <1>11

LEMMA SeqWithin == ASSUME NEW A, NEW B, A \subseteq B, NEW s \in Seq(A) PROVE s \in Seq(B)
<1>1. Len(s) \in Nat /\ s \in [1..Len(s) -> A]
  OBVIOUS
<1>2. s \in [1..Len(s) -> B]
  BY <1>1
<1> QED
  BY <1>1, <1>2

\* A reader that has read the last page of a list, or one before it.
LEMMA AfterReading ==
    ASSUME ListInv, NEW q \in Queries, NEW pg \in Nat \ {0}, NEW ans, NEW rest, ReadBy(q, pg, ans, rest),
           NEW S, S \subseteq Nat, NEW L, Once(L, S), ans.page = Cut(L, pg, q.size), ans.total = Len(L),
           ~walk'.gone /\ Steady(q) =>
               /\ Along(walk.ids, walk.page * q.size, walk.due, walk.came, L, S)
               /\ Selected(q)' = S /\ Listing(q)' = L /\ LeftHaveEnded(q, walk.due)',
           rows' \in Seq(RowSet),
           \A i \in DOMAIN rest : AsAsked(rest[i], q)
    PROVE  ListInv'
<1> DEFINE n == walk.page * q.size
           m == pg * q.size
           to == walk.ids \o ans.page
<1>0. ListTypes /\ WalkTyped /\ q = walk.query /\ walk.ids \in Seq(Nat) /\ walk.page \in Nat /\ pg = walk.page + 1
  BY DEF ListInv, ListTypes, WalkTyped, ReadBy
<1>1. /\ UNCHANGED <<plans, order, turns>> /\ DOMAIN walk' = WalkFields
      /\ walk'.query = q /\ walk'.page = pg /\ walk'.ids = to /\ walk'.last = rest
      /\ walk'.on = (m < ans.total) /\ walk'.due = walk.due /\ walk'.came = walk.came
      /\ walk'.gone = (walk.gone \/ (q.list = "runs" /\ LeavesBefore(q, pg, ans.rows)))
  BY DEF ReadBy
<1>2. q.size \in Nat \ {0} /\ L \in Seq(S) /\ Len(L) \in Nat
  BY QueryTyped DEF Once
<1>3. m \in Nat
  BY <1>2, Product
<1>4. to \in Seq(Nat)
  <2>1. ans.page \in Seq(S)
    <3>1. Cut(L, pg, q.size) \in Seq(S)
      BY <1>2, CutWithin
    <3> QED
      BY <3>1
  <2>2. ans.page \in Seq(Nat)
    BY <2>1, SeqWithin
  <2> QED
    BY <1>0, <2>2
<1>5. walk'.on \in BOOLEAN /\ walk'.on = (m < Len(L))
  <2> HIDE DEF m
  <2> QED
    BY <1>1, <1>2, <1>3
<1>6. walk'.gone \in BOOLEAN
  <2>1. \E z \in BOOLEAN : z = (walk.gone \/ (q.list = "runs" /\ LeavesBefore(q, pg, ans.rows)))
    OBVIOUS
  <2> QED
    BY <1>1, <2>1
<1> HIDE DEF to, m
<1>7. ListTypes'
  <2>1. WalkTyped'
    BY <1>0, <1>1, <1>4, <1>5, <1>6 DEF WalkTyped
  <2>2. \A k \in {1, 2} : IsForm(plans[k])'
    BY <1>0, <1>1 DEF ListTypes, IsForm
  <2>3. DOMAIN plans' = {1, 2} /\ order' \in {<<1, 2>>, <<2, 1>>} /\ turns' \in 0..MaxTurns
    BY <1>0, <1>1 DEF ListTypes
  <2>4. planStatus' \in [{1, 2} -> PlanStati]
    BY <1>0, RecoveredTyped DEF ReadBy
  <2> QED
    BY <2>1, <2>2, <2>3, <2>4 DEF ListTypes
<1>8. PagesKeepTheFilter'
  BY <1>1 DEF PagesKeepTheFilter, Says, AsAsked
<1>9. ASSUME ~walk'.gone, Steady(q)
      PROVE  ReadsTo(L, S, walk.due, walk.came, m, to)
  <2>1. Along(walk.ids, n, walk.due, walk.came, L, S)
    BY <1>9
  <2>2. ans.page = Cut(L, walk.page + 1, q.size) /\ m = (walk.page + 1) * q.size
    BY <1>0 DEF m
  <2>3. to = walk.ids \o Cut(L, walk.page + 1, q.size)
    BY <2>2 DEF to
  <2>4. walk.came \in BOOLEAN
    BY <1>0 DEF WalkTyped
  <2>5. Reads(L, S, walk.page, q.size, walk.ids, n, walk.due, walk.came, m, to)
    BY <1>0, <1>2, <2>1, <2>2, <2>3, <2>4 DEF Reads
  <2> QED
    BY <2>5, ReadsOn
<1>10. OnTheWay'
  <2> SUFFICES ASSUME walk'.on, ~walk'.gone, Steady(q)
               PROVE  /\ Along(to, m, walk.due, walk.came, Listing(q)', Selected(q)')
                      /\ LeftHaveEnded(q, walk.due)'
    BY <1>1 DEF OnTheWay, m, Steady
  <2>1. Selected(q)' = S /\ Listing(q)' = L /\ LeftHaveEnded(q, walk.due)'
    OBVIOUS
  <2>2. Along(to, m, walk.due, walk.came, L, S)
    BY <1>5, <1>9 DEF ReadsTo
  <2> QED
    BY <2>1, <2>2
<1>11. NothingSkipped' /\ NothingTwice'
  <2>1. ASSUME ~walk'.on, ~walk'.gone, Steady(q)
        PROVE  /\ walk.due \cap Selected(q)' \subseteq ToSet(to)
               /\ ~walk.came => Cardinality(ToSet(to)) = Len(to)
    <3>1. Selected(q)' = S
      BY <2>1
    <3> QED
      BY <1>5, <1>9, <2>1, <3>1 DEF ReadsTo
  <2>2. NothingSkipped'
    BY <1>1, <2>1 DEF NothingSkipped, Walked, Steady
  <2>3. NothingTwice'
    BY <1>1, <2>1 DEF NothingTwice, Walked, Steady
  <2> QED
    BY <2>2, <2>3
<1> QED
  BY <1>7, <1>8, <1>10, <1>11 DEF ListInv

LEMMA ReadPlansKeep ==
    ASSUME ListInv, NEW q \in Queries, NEW pg \in Nat \ {0}, NEW ans, NEW rest, ReadBy(q, pg, ans, rest),
           q.list = "plans"
    PROVE  ListInv'
<1> DEFINE S == Selected(q)
           L == Listing(q)
<1>0. ListTypes /\ rows \in Seq(RowSet) /\ q = walk.query /\ walk.on
  BY DEF ListInv, ListTypes, ReadBy
<1>1. ans = ListPlans(q, pg) /\ rows' = ans.rows /\ UNCHANGED <<plans, order>>
  BY DEF ReadBy
<1>2. ans.rows = rows /\ ans.page = Cut(L, pg, q.size) /\ ans.total = Len(L)
  BY <1>1 DEF ListPlans, Listing, PlanListing, PlanPlaces
<1>3. Once(L, S) /\ S \subseteq Nat
  BY <1>0, ListingOnce
<1>3a. planStatus' = planStatus
  <2>1. {r \in StillActive(rows, DOMAIN rows) : ans.rows[r].status # "running"} = {}
    BY <1>2 DEF StillActive
  <2>2. planStatus' = Recovered({})
    BY <2>1 DEF ReadBy
  <2>3. planStatus = [p \in {1, 2} |-> planStatus[p]] /\ DOMAIN plans = {1, 2}
    BY <1>0 DEF ListTypes
  <2>4. Recovered({}) = [p \in DOMAIN plans |-> planStatus[p]]
    BY DEF Recovered
  <2> QED
    BY <2>2, <2>3, <2>4
<1>4. Selected(q)' = S /\ Listing(q)' = L
  BY <1>1, <1>3a, PlansAlike
<1>5. ASSUME NEW i \in DOMAIN rest
      PROVE  AsAsked(rest[i], q)
  <2>1. i \in DOMAIN ans.page /\ rest[i] = PlanRow(ans.page[i])
    BY DEF ReadBy
  <2> QED
    BY <1>0, <1>1, <2>1, PlansPageKeepsFilter
<1> HIDE DEF S, L
<1>6. ASSUME ~walk'.gone, Steady(q)
      PROVE  /\ Along(walk.ids, walk.page * q.size, walk.due, walk.came, L, S)
             /\ LeftHaveEnded(q, walk.due)'
  <2>1. ~walk.gone
    BY <1>6 DEF ReadBy
  <2>2. Along(walk.ids, walk.page * q.size, walk.due, walk.came, L, S) /\ LeftHaveEnded(q, walk.due)
    BY <1>0, <1>6, <2>1 DEF ListInv, OnTheWay, L, S
  <2>3. walk.due \subseteq S
    BY <2>2 DEF LeftHaveEnded, S
  <2>4. walk'.due = walk.due
    BY DEF ReadBy
  <2>5. LeftHaveEnded(q, walk.due)'
    BY <1>4, <2>3, <2>4 DEF LeftHaveEnded
  <2> QED
    BY <2>2, <2>5
<1>7. rows' \in Seq(RowSet)
  BY <1>0, <1>1, <1>2
<1> QED
  BY <1>2, <1>3, <1>4, <1>5, <1>6, <1>7, AfterReading

LEMMA ReadRunsKeep ==
    ASSUME ListInv, NEW q \in Queries, NEW pg \in Nat \ {0}, NEW ans, NEW rest, ReadBy(q, pg, ans, rest),
           q.list = "runs"
    PROVE  ListInv'
<1> DEFINE F == Found(rows, q)
           n == walk.page * q.size
<1>0. ListTypes /\ rows \in Seq(RowSet) /\ q = walk.query /\ walk.on /\ walk.page \in Nat /\ walk.ids \in Seq(Nat)
  BY DEF ListInv, ListTypes, WalkTyped, ReadBy
<1>1. ans = ListPlanRuns(q, pg) /\ rows' = ans.rows /\ UNCHANGED plans /\ pg - 1 = walk.page
  BY <1>0 DEF ReadBy
<1>2. PICK M : ReadsWell(q, pg, ans, M)
  BY <1>0, <1>1, RunsRead
<1>3. /\ M \in SUBSET Nat /\ IsFiniteSet(M) /\ ans.rows \in Seq(RowSet) /\ DOMAIN ans.rows = DOMAIN rows
      /\ ans.page = Cut(NewestFirst(M), pg, q.size) /\ ans.total = Len(NewestFirst(M))
  BY <1>0, <1>2, RowsFinite DEF ReadsWell, SameBut
<1>4. Once(NewestFirst(M), M)
  BY <1>3, NewestFirstOnce
<1>5. ASSUME NEW i \in DOMAIN rest
      PROVE  AsAsked(rest[i], q)
  <2>1. i \in DOMAIN ans.page /\ rest[i] = RunRow(ans.rows[ans.page[i]])
    BY DEF ReadBy
  <2> QED
    BY <1>0, <1>2, <2>1, RunsPageKeepsFilter
<1>6. n \in Nat
  BY <1>0, QueryTyped, Product
<1>6a. Found(rows, q)' = Found(ans.rows, q)
  BY <1>1, FoundAfter
<1> HIDE DEF F, n
<1>7. ASSUME ~walk'.gone, Steady(q)
      PROVE  /\ Along(walk.ids, n, walk.due, walk.came, NewestFirst(M), M)
             /\ Selected(q)' = M /\ Listing(q)' = NewestFirst(M) /\ LeftHaveEnded(q, walk.due)'
  <2>1. ~walk.gone /\ ~LeavesBefore(q, pg, ans.rows) /\ walk'.due = walk.due
    BY <1>7 DEF ReadBy
  <2>2. /\ M = Found(ans.rows, q) /\ M \subseteq F
        /\ \A r \in F \ M : q.status = "running" /\ r \in DOMAIN ans.rows /\ ans.rows[r].status # "running"
        /\ \A r \in DOMAIN rows : /\ r \in DOMAIN ans.rows
                                  /\ q.status = "running" /\ rows[r].status # "running" =>
                                        ans.rows[r].status # "running"
    BY <1>0, <1>2, <1>7, ReadingTakesAway DEF F, Steady
  <2>3. F \in SUBSET Nat /\ IsFiniteSet(F)
    BY <1>0, FoundFinite DEF F
  <2>4. Along(walk.ids, n, walk.due, walk.came, NewestFirst(F), F) /\ LeftHaveEnded(q, walk.due)
    <3>1. Listing(q) = NewestFirst(F) /\ Selected(q) = F
      BY DEF Listing, Selected, F
    <3> QED
      BY <1>0, <1>7, <2>1, <3>1 DEF ListInv, OnTheWay, n
  <2>5. Selected(q)' = M /\ Listing(q)' = NewestFirst(M)
    BY <1>6a, <2>2 DEF Selected, Listing
  <2>6. \A k \in 1..n : NewestFirst(F)[k] \in M
    <3> SUFFICES ASSUME NEW k \in 1..n, NewestFirst(F)[k] \notin M PROVE FALSE
      OBVIOUS
    <3>1. Len(NewestFirst(F)) = Cardinality(F) /\ Cardinality(F) \in Nat /\ n <= Len(NewestFirst(F))
      BY <2>3, <2>4, NewestFirstIs DEF Along
    <3>2. k \in 1..Cardinality(F) /\ k <= Cardinality(F)
      BY <1>6, <3>1
    <3>3. NewestFirst(F)[k] \in F \ M
      BY <2>3, <3>2, NewestFirstIs
    <3>4. k \in 1..(pg - 1) * q.size
      BY <1>1 DEF n
    <3> QED
      BY <2>1, <2>2, <3>2, <3>3, <3>4 DEF LeavesBefore, F
  <2>7. Along(walk.ids, n, walk.due, walk.came, NewestFirst(M), M)
    BY <1>0, <1>6, <2>2, <2>3, <2>4, <2>6, LessIsFound
  <2>8. \A r \in walk.due \ F : q.status = "running" /\ r \in DOMAIN rows /\ rows[r].status # "running"
    BY <2>4 DEF LeftHaveEnded, Selected, F
  <2>9. \A r \in walk.due \ M : q.status = "running" /\ r \in DOMAIN ans.rows /\ ans.rows[r].status # "running"
    BY <2>2, <2>8
  <2>10. LeftHaveEnded(q, walk.due)'
    BY <1>1, <2>1, <2>5, <2>9 DEF LeftHaveEnded
  <2> QED
    BY <2>5, <2>7, <2>10
<1>8. rows' \in Seq(RowSet)
  BY <1>1, <1>3
<1> QED
  BY <1>3, <1>4, <1>5, <1>7, <1>8, AfterReading DEF n

LEMMA ReadPageKeeps == ListInv /\ ReadPage => ListInv'
<1> SUFFICES ASSUME ListInv, ReadPage PROVE ListInv'
  OBVIOUS
<1>1. PICK q \in Queries, pg \in Nat \ {0} : \E ans, rest : ReadBy(q, pg, ans, rest)
  BY ReadIs
<1>2. PICK ans, rest : ReadBy(q, pg, ans, rest)
  BY <1>1
<1>3. q.list \in {"plans", "runs"}
  BY QueryTyped
<1>4. CASE q.list = "plans"
  BY <1>2, <1>4, ReadPlansKeep
<1>5. CASE q.list = "runs"
  BY <1>2, <1>5, ReadRunsKeep
<1> QED
  BY <1>3, <1>4, <1>5

LEMMA ShutIs ==
    /\ DOMAIN Shut = WalkFields /\ Shut.on = FALSE /\ Shut.query \in Queries /\ Shut.page = 0 /\ Shut.ids = <<>>
    /\ Shut.last = <<>> /\ Shut.due = {} /\ Shut.gone = FALSE /\ Shut.came = FALSE
<1>1. (CHOOSE q \in Queries : TRUE) \in Queries
  BY ListAssumption
<1> QED
  BY <1>1 DEF Shut, WalkFields

LEMMA ListStarts == ListInit => ListInv
<1> SUFFICES ASSUME ListInit PROVE ListInv
  OBVIOUS
<1>1. /\ plans \in [{1, 2} -> PlanForms] /\ planStatus \in [{1, 2} -> PlanStati]
      /\ order = <<1, 2>> /\ turns = 0 /\ walk = Shut
  BY DEF ListInit
<1>2. PICK s \in {"running", "failed"}, t \in {"running", "failed"} :
         rows = <<[plan |-> 1, tasks |-> {}, by |-> plans[1].by, status |-> s, truth |-> t],
                  [plan |-> 2, tasks |-> plans[2].tasks, by |-> plans[2].by, status |-> s, truth |-> "running"]>>
  BY DEF ListInit
<1>3. DOMAIN plans = {1, 2} /\ \A p \in {1, 2} : IsForm(plans[p])
  <2>1. ASSUME NEW f \in PlanForms PROVE IsForm(f)
    BY ListAssumption DEF IsForm, FormFields, Creators
  <2> QED
    BY <1>1, <2>1
<1>4. rows \in Seq(RowSet)
  <2> DEFINE a == [plan |-> 1, tasks |-> {}, by |-> plans[1].by, status |-> s, truth |-> t]
             b == [plan |-> 2, tasks |-> plans[2].tasks, by |-> plans[2].by, status |-> s, truth |-> "running"]
  <2>1. a \in RowSet /\ b \in RowSet
    BY <1>3 DEF IsForm, RowSet, Stati
  <2>2. rows = <<a, b>>
    BY <1>2
  <2> HIDE DEF a, b
  <2> QED
    BY <2>1, <2>2
<1>5. WalkTyped
  <2>1. <<>> \in Seq(Nat) /\ FALSE \in BOOLEAN /\ 0 \in Nat /\ {} \in SUBSET Nat
    OBVIOUS
  <2>2. /\ DOMAIN walk = WalkFields /\ walk.on = FALSE /\ walk.gone = FALSE /\ walk.came = FALSE
        /\ walk.query \in Queries /\ walk.page = 0 /\ walk.ids = <<>> /\ walk.due = {}
    BY <1>1, ShutIs
  <2> QED
    BY <2>1, <2>2 DEF WalkTyped
<1>6. ListTypes
  BY <1>1, <1>3, <1>4, <1>5, ListAssumption DEF ListTypes
<1>7. PagesKeepTheFilter /\ OnTheWay /\ NothingSkipped /\ NothingTwice
  BY <1>1, ShutIs DEF PagesKeepTheFilter, OnTheWay, NothingSkipped, NothingTwice, Walked
<1> QED
  BY <1>6, <1>7 DEF ListInv

LEMMA OpenKeeps == ASSUME ListInv, NEW q \in Queries, Open(q) PROVE ListInv'
<1>1. UNCHANGED <<plans, planStatus, order, rows, turns>> /\ walk' = [Shut EXCEPT !.on = TRUE, !.query = q, !.due = Selected(q)]
  BY DEF Open
<1>2. ListTypes
  BY DEF ListInv
<1>3. Once(Listing(q), Selected(q)) /\ Selected(q) \subseteq Nat
  BY <1>2, ListingOnce
<1>4. /\ DOMAIN walk' = WalkFields /\ walk'.on = TRUE /\ walk'.query = q /\ walk'.page = 0 /\ walk'.ids = <<>>
      /\ walk'.last = <<>> /\ walk'.due = Selected(q) /\ walk'.gone = FALSE /\ walk'.came = FALSE
  BY <1>1, ShutIs DEF WalkFields
<1>5. WalkTyped'
  <2>1. <<>> \in Seq(Nat) /\ FALSE \in BOOLEAN /\ TRUE \in BOOLEAN /\ 0 \in Nat /\ Selected(q) \in SUBSET Nat
    BY <1>3
  <2> QED
    BY <1>4, <2>1 DEF WalkTyped
<1>6. ListTypes'
  <2>1. \A k \in {1, 2} : IsForm(plans[k])'
    BY <1>1, <1>2 DEF ListTypes, IsForm
  <2>2. /\ DOMAIN plans' = {1, 2} /\ planStatus' \in [{1, 2} -> PlanStati]
        /\ order' \in {<<1, 2>>, <<2, 1>>} /\ rows' \in Seq(RowSet) /\ turns' \in 0..MaxTurns
    BY <1>1, <1>2 DEF ListTypes
  <2> QED
    BY <1>5, <2>1, <2>2 DEF ListTypes
<1>7. Listing(q)' = Listing(q) /\ Selected(q)' = Selected(q)
  <2>1. Found(rows, q)' = Found(rows, q)
    BY <1>1, FoundAfter
  <2>2. CASE q.list = "plans"
    BY <1>1, <2>2, PlansAlike
  <2>3. CASE q.list # "plans"
    BY <2>1, <2>3 DEF Listing, Selected
  <2> QED
    BY <2>2, <2>3
<1>8. 0 * q.size = 0
  BY QueryTyped
<1>9. Along(<<>>, 0, Selected(q), FALSE, Listing(q), Selected(q))
  <2> DEFINE L == Listing(q)
             S == Selected(q)
  <2>1. Len(L) \in Nat /\ \A x \in S : \E k \in 1..Len(L) : L[k] = x
    BY <1>3 DEF Once
  <2> HIDE DEF L, S
  <2>2. \A x \in S : Behind(L, 0, x)
    BY <2>1 DEF Behind
  <2>3. Shows(<<>>, L, 0)
    BY DEF Shows
  <2> QED
    BY <2>1, <2>2, <2>3 DEF Along, L, S
<1>10. LeftHaveEnded(q, Selected(q))'
  BY <1>4, <1>7 DEF LeftHaveEnded
<1>11. OnTheWay'
  <2>1. /\ Along(walk'.ids, walk'.page * q.size, walk'.due, walk'.came, Listing(q)', Selected(q)')
        /\ LeftHaveEnded(q, walk.due)'
    BY <1>4, <1>7, <1>8, <1>9, <1>10 DEF LeftHaveEnded
  <2> QED
    BY <1>4, <2>1 DEF OnTheWay
<1>12. PagesKeepTheFilter' /\ NothingSkipped' /\ NothingTwice'
  BY <1>4 DEF PagesKeepTheFilter, NothingSkipped, NothingTwice, Walked
<1> QED
  BY <1>6, <1>11, <1>12 DEF ListInv

LEMMA ListRests == ListInv /\ UNCHANGED listVars => ListInv'
<1> SUFFICES ASSUME ListInv, UNCHANGED listVars PROVE ListInv'
  OBVIOUS
<1>1. UNCHANGED <<plans, planStatus, order, rows, turns>> /\ walk' = walk
  BY DEF listVars
<1>2. ListTypes /\ WalkTyped
  BY DEF ListInv, ListTypes
<1>3. PICK q \in Queries : q = walk.query
  BY <1>2 DEF WalkTyped
<1>4. Listing(q)' = Listing(q) /\ Selected(q)' = Selected(q)
  <2>1. Found(rows, q)' = Found(rows, q)
    BY <1>1, FoundAfter
  <2>2. CASE q.list = "plans"
    BY <1>1, <2>2, PlansAlike
  <2>3. CASE q.list # "plans"
    BY <2>1, <2>3 DEF Listing, Selected
  <2> QED
    BY <2>2, <2>3
<1>5. ListTypes'
  <2>1. \A k \in {1, 2} : IsForm(plans[k])'
    BY <1>1, <1>2 DEF ListTypes, IsForm
  <2>2. /\ DOMAIN plans' = {1, 2} /\ planStatus' \in [{1, 2} -> PlanStati]
        /\ order' \in {<<1, 2>>, <<2, 1>>} /\ rows' \in Seq(RowSet) /\ turns' \in 0..MaxTurns
    BY <1>1, <1>2 DEF ListTypes
  <2>3. WalkTyped'
    BY <1>1, <1>2 DEF WalkTyped
  <2> QED
    BY <2>1, <2>2, <2>3 DEF ListTypes
<1>6. PagesKeepTheFilter'
  <2>1. PagesKeepTheFilter
    BY DEF ListInv
  <2> QED
    BY <1>1, <2>1 DEF PagesKeepTheFilter, Says
<1>7. NothingSkipped' /\ NothingTwice'
  <2>1. NothingSkipped /\ NothingTwice /\ walk'.query = q
    BY <1>1, <1>3 DEF ListInv
  <2> QED
    BY <1>1, <1>3, <1>4, <2>1 DEF NothingSkipped, NothingTwice, Walked, Steady
<1>8. OnTheWay'
  <2>1. OnTheWay
    BY DEF ListInv
  <2>2. LeftHaveEnded(q, walk.due)' <=> LeftHaveEnded(q, walk.due)
    BY <1>1, <1>4 DEF LeftHaveEnded
  <2> QED
    BY <1>1, <1>3, <1>4, <2>1, <2>2 DEF OnTheWay, Steady
<1> QED
  BY <1>5, <1>6, <1>7, <1>8 DEF ListInv

LEMMA ListKeeps == ListInv /\ [ListNext]_listVars => ListInv'
<1> SUFFICES ASSUME ListInv, ListNext \/ UNCHANGED listVars PROVE ListInv'
  OBVIOUS
<1>0. ListTypes /\ WalkTyped
  BY DEF ListInv, ListTypes
<1>a. TRUE \in BOOLEAN /\ FALSE \in BOOLEAN /\ ("running" \in Stati)
  BY DEF Stati
<1>1. ASSUME NEW q \in Queries, Open(q) PROVE ListInv'
  BY <1>1, OpenKeeps
<1>2. CASE ReadPage
  BY <1>2, ReadPageKeeps
<1>3. ASSUME NEW p \in DOMAIN plans, ExecutePlan(p) PROVE ListInv'
  <2>1. Moves(FALSE) /\ walk.on
    BY <1>0, <1>3, TurnTyped DEF ExecutePlan
  <2>2. WalkTyped'
    BY <1>0, <1>a, <2>1, MovesIs
  <2>3. ListTypes' /\ StayEnded /\ UNCHANGED <<plans, order>>
    BY <1>0, <1>3, <2>2, ExecuteTyped
  <2> QED
    BY <1>a, <2>1, <2>3, OthersKeep
<1>4. ASSUME NEW p \in DOMAIN plans, NEW f \in PlanForms, NEW status \in PlanStati,
             UpdatePlan(p, f, status) PROVE ListInv'
  <2>1. Moves(walk.query.list = "plans") /\ walk.on
    BY <1>0, <1>4, TurnTyped DEF UpdatePlan
  <2>2. PICK m \in BOOLEAN : m = (walk.query.list = "plans") /\ Moves(m)
    <3>1. CASE walk.query.list = "plans"
      <4>1. Moves(TRUE)
        BY <2>1, <3>1 DEF Moves
      <4> QED
        BY <1>a, <3>1, <4>1
    <3>2. CASE walk.query.list # "plans"
      <4>1. Moves(FALSE)
        BY <2>1, <3>2 DEF Moves
      <4> QED
        BY <1>a, <3>2, <4>1
    <3> QED
      BY <3>1, <3>2
  <2>3. WalkTyped'
    BY <1>0, <2>1, <2>2, MovesIs
  <2>4. ListTypes' /\ StayEnded
    BY <1>0, <1>4, <2>3, UpdateTyped
  <2> QED
    BY <2>1, <2>2, <2>4, OthersKeep
<1>5. ASSUME NEW r \in DOMAIN rows, NEW truth \in Stati, RunsEnd(r, truth) PROVE ListInv'
  <2>1. Moves(FALSE) /\ walk.on
    BY <1>0, <1>5, TurnTyped DEF RunsEnd
  <2>2. WalkTyped'
    BY <1>0, <1>a, <2>1, MovesIs
  <2>3. ListTypes' /\ StayEnded /\ UNCHANGED <<plans, order>>
    BY <1>0, <1>5, <2>2, RunsEndTyped
  <2> QED
    BY <1>a, <2>1, <2>3, OthersKeep
<1>6. ASSUME NEW r \in DOMAIN rows, NEW truth \in Stati, NEW status \in Stati \ {"running"},
             PlanRunEnds(r, status, truth) PROVE ListInv'
  <2>1. Moves(FALSE) /\ walk.on
    BY <1>0, <1>6, TurnTyped DEF PlanRunEnds
  <2>2. WalkTyped'
    BY <1>0, <1>a, <2>1, MovesIs
  <2>3. ListTypes' /\ StayEnded /\ UNCHANGED <<plans, order>>
    BY <1>0, <1>6, <2>2, PlanRunEndsTyped
  <2> QED
    BY <1>a, <2>1, <2>3, OthersKeep
<1>7. ASSUME NEW r \in DOMAIN rows, WorkerBegins(r) PROVE ListInv'
  <2>1. Moves(FALSE) /\ walk.on
    BY <1>0, <1>7, TurnTyped DEF WorkerBegins
  <2>2. WalkTyped'
    BY <1>0, <1>a, <2>1, MovesIs
  <2>3. ListTypes' /\ StayEnded /\ UNCHANGED <<plans, order>>
    BY <1>0, <1>7, <2>2, WorkerBeginsTyped
  <2> QED
    BY <1>a, <2>1, <2>3, OthersKeep
<1>8. CASE UNCHANGED listVars
  BY <1>8, ListRests
<1> QED
  BY <1>1, <1>2, <1>3, <1>4, <1>5, <1>6, <1>7, <1>8 DEF ListNext

LEMMA ListsHoldThen == ListInv => ListsHold
  BY AllFoundThen DEF ListInv, ListsHold

LEMMA ListTypesThen == ListInv => ListTypeOK
<1> SUFFICES ASSUME ListInv PROVE ListTypeOK
  OBVIOUS
<1>1. ListTypes
  BY DEF ListInv
<1>2. ToSet(order) = {1, 2} /\ Len(order) = 2
  BY <1>1, OrderIs DEF ToSet
<1>3. Cardinality({1, 2}) = 2
  <2>1. IsFiniteSet({1}) /\ Cardinality({1}) = 1
    BY FS_Singleton
  <2>2. Cardinality({1} \cup {2}) = 2
    BY <2>1, FS_AddElement
  <2>3. {1} \cup {2} = {1, 2}
    OBVIOUS
  <2> QED
    BY <2>2, <2>3
<1>4. \A p \in DOMAIN plans : plans[p].tasks \subseteq DOMAIN TaskOf /\ plans[p].rounds \in Nat
  BY <1>1 DEF ListTypes, IsForm
<1>5. \A r \in DOMAIN rows : {rows[r].status, rows[r].truth} \subseteq Stati
  BY <1>1, RowTyped DEF ListTypes
<1>6. turns \in 0..MaxTurns /\ walk.query \in Queries /\ DOMAIN plans = {1, 2}
  BY <1>1 DEF ListTypes, WalkTyped
<1>7. planStatus \in [DOMAIN plans -> PlanStati]
  BY <1>1 DEF ListTypes
<1> QED
  BY <1>2, <1>3, <1>4, <1>5, <1>6, <1>7 DEF ListTypeOK

\* PlanLists.ListsHold (plan_service.py, list_plans and list_plan_runs): the rows of every page
\* show what the filter asks for, and a walk from the first page to the last meets each row that
\* is due, and none twice, as far as the rows stand still; for any plans, tasks, filters, sizes
\* of a page and any changes during the walk.
THEOREM ListsAreKept == ListSpec => []ListsHold
<1>1. ListSpec => []ListInv
  BY ListStarts, ListKeeps, PTL DEF ListSpec
<1> QED
  BY <1>1, ListsHoldThen, PTL

-----------------------------------------------------------------------------
(* Types of the parts around a run *)

\* Contents are numbered by the writes, of which there are not more than the model allows.
ScriptBounds == edits \in 0..MaxWrites /\ content \in [Scripts -> 0..MaxWrites + 1]

LEMMA ScriptsBounded ==
    /\ ScriptInit => ScriptBounds
    /\ LibraryInv /\ ScriptBounds /\ [ScriptNext]_scriptVars => ScriptBounds'
<1>1. ASSUME ScriptInit PROVE ScriptBounds
  BY <1>1, LibraryAssumption DEF ScriptInit, ScriptBounds
<1>2. ASSUME LibraryInv, ScriptBounds, [ScriptNext]_scriptVars PROVE ScriptBounds'
  <2>1. CASE UNCHANGED <<content, edits>>
    BY <1>2, <2>1 DEF ScriptBounds
  <2>2. ASSUME NEW u \in Users, Clone(u) \/ MakePrivate(u) PROVE ScriptBounds'
    <3>1. PICK c : content' = [content EXCEPT ![c] = content[doing[u].script]]
      BY <2>2 DEF Clone, MakePrivate
    <3>2. doing[u].script \in Scripts
      <4>1. ~At(u, "idle")
        BY <2>2 DEF Clone, MakePrivate, At
      <4> QED
        BY <1>2, <4>1 DEF LibraryInv, NamesExist, Stored
    <3>3. edits' = edits
      BY <2>2 DEF Clone, MakePrivate
    <3> QED
      BY <1>2, <3>1, <3>2, <3>3 DEF ScriptBounds
  <2>3. ASSUME NEW u \in Users, WriteContent(u) PROVE ScriptBounds'
    <3>1. /\ edits < MaxWrites /\ edits' = edits + 1 /\ edits \in Nat /\ MaxWrites \in Nat
          /\ content' = [content EXCEPT ![doing[u].script] = edits + 2]
          /\ content \in [Scripts -> 0..MaxWrites + 1]
      BY <1>2, <2>3, LibraryAssumption DEF WriteContent, ScriptBounds
    <3>2. edits' \in 0..MaxWrites /\ edits + 2 \in 0..MaxWrites + 1
      BY <3>1
    <3> QED
      BY <3>1, <3>2 DEF ScriptBounds
  <2> QED
    BY <1>2, <2>1, <2>2, <2>3
       DEF ScriptNext, scriptVars, Begin, CopyLooks, CreateLooks, UpdateLooks, EditLooks, TaskWritten,
           DeleteTaskRow
<1> QED
  BY <1>1, <1>2

LEMMA ScriptsTyped == LibraryInv /\ ScriptBounds => ScriptTypeOK
  BY DEF LibraryInv, LibraryTypes, NamesExist, ScriptBounds, ScriptTypeOK, EditRequests

\* What is left to be told has been loaded.
LeftAreLoaded == round.left \subseteq round.loaded

LEMMA LeftLoaded ==
    /\ HookInit => LeftAreLoaded
    /\ HookInv /\ LeftAreLoaded /\ [HookNext]_hookVars => LeftAreLoaded'
<1>1. ASSUME HookInit PROVE LeftAreLoaded
  BY <1>1 DEF HookInit, NoRound, LeftAreLoaded
<1>2. ASSUME HookInv, LeftAreLoaded, [HookNext]_hookVars PROVE LeftAreLoaded'
  <2>0. round \in Rounds
    BY <1>2 DEF HookInv, HookTypes
  <2>1. CASE UNCHANGED round
    BY <1>2, <2>1 DEF LeftAreLoaded
  <2>2. CASE CloseAndTell \/ Load \/ Finish
    BY <1>2, <2>0, <2>2 DEF CloseAndTell, Load, Finish, LeftAreLoaded, Rounds
  <2>3. ASSUME NEW h \in Hooks, PassOver(h) \/ BeginRecord(h) \/ Attempt(h) \/ Store(h)
        PROVE  LeftAreLoaded'
    <3>1. round'.loaded = round.loaded /\ round'.left \subseteq round.left
      <4>1. ASSUME Excepts(h) PROVE round'.loaded = round.loaded /\ round'.left \subseteq round.left
        BY <2>0, <4>1 DEF Excepts, GoesOn, Breaks, Rounds
      <4>2. CASE ~Excepts(h)
        BY <2>0, <2>3, <4>2 DEF PassOver, BeginRecord, Attempt, Store, Rounds
      <4> QED
        BY <4>1, <4>2
    <3> QED
      BY <1>2, <3>1 DEF LeftAreLoaded
  <2> QED
    BY <1>2, <2>1, <2>2, <2>3 DEF HookNext, hookVars, UserStops, EditHook
<1> QED
  BY <1>1, <1>2

LEMMA HooksTyped == HookInv /\ LeftAreLoaded => HookTypeOK
  BY DEF HookInv, HookTypes, LeftAreLoaded, HookTypeOK, Rounds, HookRecords

\* A task is tried again as often as is allowed.
TriesFit == \A m \in Makers : maker[m].tries \in 0..Retries

LEMMA TriesBounded ==
    /\ ReportInit => TriesFit
    /\ ReportInv /\ TriesFit /\ [ReportNext]_reportVars => TriesFit'
<1>0. NoMaker.tries \in 0..Retries /\ NoMaker.tries = 0
  BY ReportAssumption DEF NoMaker
<1>1. ASSUME ReportInit PROVE TriesFit
  BY <1>0, <1>1 DEF ReportInit, TriesFit
<1>2. ASSUME ReportInv, TriesFit, [ReportNext]_reportVars PROVE TriesFit'
  <2>1. maker \in [Makers -> MakerRows] /\ Retries \in Nat
    BY <1>2, ReportAssumption DEF ReportInv, ReportTypes
  <2>2. CASE UNCHANGED maker
    BY <1>2, <2>2 DEF TriesFit
  <2>3. ASSUME NEW m \in Makers, NEW e, e.tries \in 0..Retries, maker' = [maker EXCEPT ![m] = e]
        PROVE  TriesFit'
    BY <1>2, <2>1, <2>3 DEF TriesFit
  <2>4. ASSUME NEW m \in Makers, NEW st, maker' = [maker EXCEPT ![m].step = st] PROVE TriesFit'
    BY <1>2, <2>1, <2>4 DEF TriesFit, MakerRows
  <2>5. ASSUME NEW m \in Makers, NEW r, NEW by, NEW st, Starts(m, r, by, st) PROVE TriesFit'
    <3> DEFINE e == [NoMaker EXCEPT !.report = r, !.by = by, !.step = st]
    <3>1. maker' = [maker EXCEPT ![m] = e] /\ e.tries \in 0..Retries
      BY <1>0, <2>5 DEF Starts, NoMaker
    <3> HIDE DEF e
    <3> QED
      BY <2>3, <3>1
  <2>6. ASSUME NEW m \in Makers, Fails(m) \/ Dies(m) \/ Complete(m) \/ UploadHtml(m) PROVE TriesFit'
    <3>1. CASE maker' = [maker EXCEPT ![m] = NoMaker]
      BY <1>0, <2>3, <3>1
    <3>2. CASE /\ maker[m].tries < Retries
               /\ maker' = [maker EXCEPT ![m].step = "queued", ![m].tries = @ + 1, ![m].copy = "none"]
      BY <1>2, <2>1, <3>2 DEF TriesFit, MakerRows
    <3>3. ASSUME NEW st, NEW copy,
                 \/ maker' = [maker EXCEPT ![m].step = st, ![m].copy = copy]
                 \/ maker' = [maker EXCEPT ![m] = [@ EXCEPT !.step = st, !.copy = copy]]
          PROVE  TriesFit'
      BY <1>2, <2>1, <3>3 DEF TriesFit, MakerRows
    <3>4. Fails(m) => maker' \in {[maker EXCEPT ![m] = NoMaker],
                           [maker EXCEPT ![m].step = "queued", ![m].tries = @ + 1, ![m].copy = "none"]}
                      /\ (maker[m].tries < Retries \/ maker' = [maker EXCEPT ![m] = NoMaker])
      BY DEF Fails
    <3>5. Complete(m) => maker' = [maker EXCEPT ![m] = NoMaker]
      BY DEF Complete
    <3>6. Dies(m) => \/ maker' = [maker EXCEPT ![m] = NoMaker]
                     \/ maker' = [maker EXCEPT ![m] = [@ EXCEPT !.step = "queued", !.copy = "none"]]
      BY DEF Dies
    <3>7. UploadHtml(m) => \E copy : maker' = [maker EXCEPT ![m].step = "complete", ![m].copy = copy]
      BY DEF UploadHtml
    <3> QED
      BY <2>6, <3>1, <3>2, <3>3, <3>4, <3>5, <3>6, <3>7
  <2>7. ASSUME NEW m \in Makers,
               Deliver(m) \/ MarkGenerating(m) \/ OpenHtml(m) \/ WriteMarkers(m) \/ CloseHtml(m)
        PROVE  TriesFit'
    BY <2>2, <2>4, <2>7
       DEF Deliver, MarkGenerating, OpenHtml, WriteMarkers, CloseHtml, Proceeds, makerVars
  <2>8. ASSUME NEW m \in Makers,
               \/ \E by \in {"request", "task"} : Submit(m, by)
               \/ \E r \in ReportIds : Regenerate(m, r)
        PROVE  TriesFit'
    BY <2>5, <2>8 DEF Submit, Regenerate
  <2>9. CASE \/ UNCHANGED reportVars \/ SubmitFails
             \/ \E r \in ReportIds : DeleteReport(r) \/ EditReport(r)
             \/ \E v \in Viewers : ViewerStep(v)
    BY <2>2, <2>9 DEF reportVars, makerVars, SubmitFails, DeleteReport, EditReport, ViewerStep, LoadsRow,
                      OpensCopy, WritesPart, ClosesCopy, Leaves
  <2> QED
    BY <1>2, <2>6, <2>7, <2>8, <2>9 DEF ReportNext, MakerStep
<1> QED
  BY <1>1, <1>2

LEMMA ReportsTyped == ReportInv /\ TriesFit => ReportTypeOK
  BY DEF ReportInv, ReportTypes, TriesFit, ReportTypeOK, ReportRows, MakerRows, ViewerRows

LEMMA AssetsTyped == AssetInv => AssetTypeOK
<1> SUFFICES ASSUME AssetInv PROVE AssetTypeOK
  OBVIOUS
<1>1. AssetTypes
  BY DEF AssetInv
<1>2. \A a \in Rows : asset[a].task \in Tasks
  BY <1>1 DEF AssetTypes, Rows, WholeRows
<1>3. \A a \in Assets : request[a].step \in {"new", "idle", "shards", "insert", "copy", "unlink", "drop"}
  BY <1>1 DEF AssetTypes, AssetRequests
<1> QED
  BY <1>1, <1>2, <1>3 DEF AssetTypes, AssetTypeOK

LEMMA JudgementsTyped == JudgementInv => JudgementTypeOK
<1> SUFFICES ASSUME JudgementInv PROVE JudgementTypeOK
  OBVIOUS
<1>1. JudgementTypes
  BY DEF JudgementInv
<1>2. \A r \in JudgedRuns : judged[r].figures \in FigureSets \cup {Unknown}
  BY <1>1 DEF JudgementTypes, JudgedRows
<1>3. \A s \in Scopes : \A i \in DOMAIN baseline[s] : baseline[s][i] \in JudgedRuns
  BY <1>1 DEF JudgementTypes
<1> QED
  BY <1>1, <1>2, <1>3 DEF JudgementTypes, JudgementTypeOK

LEMMA GatesTyped == GateInv => GateTypeOK
<1>1. /\ RunSections(facts) \subseteq {Missing, Partial, IsReady} /\ RunSections(facts) # {}
      /\ RunSections(facts) \in SUBSET Nat /\ RunGate(facts) = WorstState(RunSections(facts))
  BY DEF RunSections, RunGate, Lifecycle, RunFigureSection, RunChecks, Context, FrontDoors, Graded, Missing,
         Partial, IsReady
<1>2. RunGate(facts) \in RunSections(facts)
  BY <1>1, LowestLevel
<1> QED
  BY <1>1, <1>2 DEF GateInv, GateTypeOK

LEMMA LogsTyped == LogInv => LogTypeOK
<1> SUFFICES ASSUME LogInv PROVE LogTypeOK
  OBVIOUS
<1>1. LogTypes
  BY DEF LogInv
<1>2. \A i \in DOMAIN page.shown : page.shown[i] \in Values
  BY <1>1 DEF LogTypes
<1> QED
  BY <1>1, <1>2 DEF LogTypes, LogTypeOK, Values

-----------------------------------------------------------------------------
(* The parts together *)

\* The pages and the lists in the model that is checked, where each is one part among others.
THEOREM PagesHoldThere == MCSpec => []PagesHold
<1> DEFINE Inv == /\ part = "pages" => PageInv
                  /\ part = "lists" => ListInv
<1>1. MCInit => Inv
  BY PagesStart, ListStarts DEF MCInit
<1>2. Inv /\ [MCNext]_mcVars => Inv'
  <2> SUFFICES ASSUME Inv, [MCNext]_mcVars PROVE Inv'
    OBVIOUS
  <2>1. part' = part
    BY DEF MCNext, mcVars
  <2>2. CASE part = "pages"
    <3>1. [PageNext]_pageVars
      BY <2>2 DEF MCNext, mcVars
    <3> QED
      BY <2>1, <2>2, <3>1, PagesKeep
  <2>3. CASE part = "lists"
    <3>1. [ListNext]_listVars
      BY <2>3 DEF MCNext, mcVars
    <3> QED
      BY <2>1, <2>3, <3>1, ListKeeps
  <2> QED
    BY <2>1, <2>2, <2>3
<1>3. Inv => PagesHold
  BY PagesTellThen, ListsHoldThen DEF PagesHold
<1> QED
  BY <1>1, <1>2, <1>3, PTL DEF MCSpec

\* MCServices.TypeOK: each of the parts around a run has the state that its module says, in the
\* model that is checked, for all values of its constants.
THEOREM TypesHoldThere == MCSpec => []TypeOK
<1> DEFINE First == /\ part = "slices" => SliceInv
                    /\ part = "assets" => AssetInv
                    /\ part = "scripts" => LibraryInv /\ ScriptBounds
                    /\ part = "logs" => LogInv
                    /\ part = "hooks" => HookInv /\ LeftAreLoaded
           Second == /\ part = "reports" => ReportInv /\ TriesFit
                     /\ part = "shares" => LoadInv
                     /\ part = "deadlines" => DeadlineInv
                     /\ part = "pages" => PageInv
                     /\ part = "figures" => FigureInv
           Third == /\ part = "sources" => SourceInv
                    /\ part = "judgements" => JudgementInv
                    /\ part = "gates" => GateInv
                    /\ part = "lists" => ListInv
                    /\ part = "pods" => PodsInv
<1>1. MCInit => First
  BY SlicesStart, AssetsBegin, LibraryBegins, ScriptsBounded, LogStarts, HooksBegin, LeftLoaded
     DEF MCInit
<1>2. MCInit => Second
  BY ReportsBegin, TriesBounded, LoadStarts, StartToPlan, PagesStart, FiguresStart DEF MCInit
<1>3. MCInit => Third
  BY SourceStarts, JudgementsBegin, GatesBegin, ListStarts, PodsStart DEF MCInit
<1>4. ASSUME [MCNext]_mcVars
      PROVE  /\ part' = part
             /\ part = "slices" => [SliceNext]_sliceVars
             /\ part = "assets" => [AssetNext]_assetVars
             /\ part = "scripts" => [ScriptNext]_scriptVars
             /\ part = "logs" => [LogNext]_logVars
             /\ part = "hooks" => [HookNext]_hookVars
             /\ part = "reports" => [ReportNext]_reportVars
             /\ part = "shares" => [LoadNext]_loadVars
             /\ part = "deadlines" => [DeadlineNext]_deadlineVars
             /\ part = "pages" => [PageNext]_pageVars
             /\ part = "figures" => [FigureNext]_figureVars
             /\ part = "sources" => [SourceNext]_sourceVars
             /\ part = "judgements" => [JudgementNext]_judgementVars
             /\ part = "gates" => [GateNext]_gateVars
             /\ part = "lists" => [ListNext]_listVars
             /\ part = "pods" => [PodsNext]_podVars
  BY <1>4 DEF MCNext, mcVars
<1>5. First /\ [MCNext]_mcVars => First'
  BY <1>4, SlicesKeep, AssetsStep, LibraryKept, ScriptsBounded, LogKeeps, HooksKept, LeftLoaded
<1>6. Second /\ [MCNext]_mcVars => Second'
  BY <1>4, ReportsKept, TriesBounded, LoadKeeps, DeadlineSteps, PagesKeep, FiguresKeep
<1>7. Third /\ [MCNext]_mcVars => Third'
  BY <1>4, SourceKeeps, JudgementsKept, GatesKept, ListKeeps, PodsKeep
<1>8. First /\ Second /\ Third => TypeOK
  BY SlicesTyped, AssetsTyped, ScriptsTyped, LogsTyped, HooksTyped, ReportsTyped, LoadIsTyped, InvTimes,
     PageTypesThen, FiguresAreRight, SourceTypes, JudgementsTyped, GatesTyped, ListTypesThen, PodsAreRight
     DEF TypeOK
<1> HIDE DEF First, Second, Third
<1> QED
  BY <1>1, <1>2, <1>3, <1>5, <1>6, <1>7, <1>8, PTL DEF MCSpec

=============================================================================
