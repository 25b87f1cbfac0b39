------------------------------ MODULE LogPages ------------------------------
(***************************************************************************)
(* The log of a run, page by page (RunService.get_logs).  The lines are on *)
(* the agents, later in archives too.  Every page is put together anew     *)
(* from whoever answers: the lines are merged by time, numbered from 1,    *)
(* and a page is what follows the number of the last line shown.  The      *)
(* cursor is opaque text: agents, which number their own lines, refuse it. *)
(*                                                                         *)
(* A line is its place in the order of time, over all agents.  Times are   *)
(* taken to agree; levels other than "exceptional or not" are left out.    *)
(***************************************************************************)
EXTENDS Integers, Sequences, FiniteSets, SequencesExt

CONSTANTS
    LogAgents,      \* the agents of the run
    MaxLog,         \* lines that are written
    PageLimit,      \* lines of a page
    ScanLimit       \* lines of an agent that the exception view looks at

ASSUME LogAssumption ==
    /\ IsFiniteSet(LogAgents)
    /\ MaxLog \in Nat /\ PageLimit \in Nat \ {0} /\ ScanLimit \in Nat \ {0}

VARIABLES
    log,        \* the lines so far: [agent, bad]
    archived,   \* the run is over and its rows name the archived logs
    answering,  \* agents that answer
    page        \* the page of the browser: [view, order, cursor, shown, from]

logVars == <<log, archived, answering, page>>

Lines == DOMAIN log
LinesOf(a) == {i \in Lines : log[i].agent = a}
Bad(S) == {i \in S \cap Lines : log[i].bad}
\* Lines that get_logs makes up, with the present time or, as placeholders, the run's.
Filler(k) == MaxLog + 1..MaxLog + k
Notes == Filler(3)

InTime(S) ==
    [n \in 1..Cardinality(S) |-> CHOOSE i \in S : Cardinality({j \in S : j < i}) = n - 1]
FirstIn(S, n, order) ==
    LET inTime == InTime(S)
        short == IF Len(inTime) < n THEN Len(inTime) ELSE n
    IN {inTime[IF order = "asc" THEN i ELSE Len(inTime) + 1 - i] : i \in 1..short}
-----------------------------------------------------------------------------
(* get_logs *)

InOrder(s, order) == IF order = "asc" THEN s ELSE Reverse(s)
\* The lines `all` that have these numbers, and the number that the next page follows.
Page(all, numbers) ==
    [items |-> [i \in DOMAIN numbers |-> all[numbers[i]]],
     next |-> IF numbers = <<>> THEN 0 ELSE Last(numbers)]
Beginning(s) == SubSeq(s, 1, IF Len(s) < PageLimit THEN Len(s) ELSE PageLimit)

\* Mutant: the line at the cursor is given once more.
PaginateInclusive(S, cursor, order) ==
    LET after == {n \in 1..Cardinality(S) :
                    cursor = 0 \/ IF order = "asc" THEN n >= cursor ELSE n <= cursor}
    IN Page(InTime(S), Beginning(InOrder(InTime(after), order)))
\* _paginate_log_items, after _normalize_log_batches has numbered the lines from 1.
Paginate(S, cursor, order) ==
    LET after == {n \in 1..Cardinality(S) :
                    cursor = 0 \/ IF order = "asc" THEN n > cursor ELSE n < cursor}
    IN Page(InTime(S), Beginning(InOrder(InTime(after), order)))

\* _collect_agent_log_batches: the latest lines of each agent, by the agent's own cursor.
Exceptions == UNION {Bad(FirstIn(LinesOf(a), ScanLimit, "desc")) : a \in answering}
\* _fetch_agent_logs_from_all_contexts: an agent that refuses the cursor, does not answer or
\* has no lines is stood in for by a line.
AgentLines(cursor, order) ==
    LET usable == {a \in answering : cursor = 0 /\ LinesOf(a) # {}}
    IN (UNION {FirstIn(LinesOf(a), PageLimit, order) : a \in usable})
       \cup Filler(Cardinality(LogAgents \ usable))

\* The lines that the view leaves out are dropped before or after the page is cut.
Answer(from, p) == [from |-> from, items |-> p.items, next |-> p.next]
OfView(view, p) ==
    IF view = "all" THEN p
    ELSE [p EXCEPT !.items = Page(@, InTime({n \in DOMAIN @ : @[n] \in Bad(Lines)})).items]

GetLogs(view, cursor, order) ==
    LET fromAgents == Paginate(AgentLines(cursor, order), cursor, order)
        fromArchive == Paginate(Lines, cursor, order)
    IN IF view = "exception" /\ Exceptions # {}
       THEN Answer(<<"exceptions", answering>>, Paginate(Exceptions, cursor, order))
       ELSE IF fromAgents.items # <<>>
       THEN Answer(<<"agents", answering>>, OfView(view, fromAgents))
       ELSE IF archived /\ view = "exception" /\ Bad(Lines) # {}
       THEN Answer(<<"archive">>, Paginate(Bad(Lines), cursor, order))
       ELSE IF archived
       THEN Answer(<<"archive">>, OfView(view, fromArchive))
       ELSE Answer(<<"notes">>, Paginate(IF view = "all" THEN Notes ELSE {}, cursor, order))
-----------------------------------------------------------------------------
(* The agents, and the browser *)

WriteLine ==
    /\ ~archived /\ Len(log) < MaxLog
    /\ \E a \in LogAgents, bad \in BOOLEAN : log' = Append(log, [agent |-> a, bad |-> bad])
    /\ UNCHANGED <<archived, answering, page>>
Archive ==
    ~archived /\ log # <<>> /\ archived' = TRUE /\ UNCHANGED <<log, answering, page>>
LoseAgent ==
    \E a \in answering : answering' = answering \ {a} /\ UNCHANGED <<log, archived, page>>

\* loadLogs(true): the page is opened, or its view or order is changed.
OpenLog(view, order) ==
    /\ \E r \in {GetLogs(view, 0, order)} :
          page' = [view |-> view, order |-> order, cursor |-> r.next, shown |-> r.items, from |-> {r.from}]
    /\ UNCHANGED <<log, archived, answering>>
\* loadLogs(false): the button is there as long as there is a cursor.
LoadMore ==
    /\ page.cursor # 0
    /\ \E r \in {GetLogs(page.view, page.cursor, page.order)} :
          page' = [page EXCEPT !.cursor = r.next, !.shown = @ \o r.items, !.from = @ \cup {r.from}]
    /\ UNCHANGED <<log, archived, answering>>
-----------------------------------------------------------------------------
Closed == [view |-> "all", order |-> "asc", cursor |-> 0, shown |-> <<>>, from |-> {}]
LogInit == log = <<>> /\ archived = FALSE /\ answering = LogAgents /\ page = Closed
LogNext ==
    \/ WriteLine \/ Archive \/ LoseAgent \/ LoadMore
    \/ \E view \in {"all", "exception"}, order \in {"asc", "desc"} : OpenLog(view, order)
LogSpec == LogInit /\ [][LogNext]_logVars
-----------------------------------------------------------------------------
(* Properties *)

LogTypeOK ==
    /\ Len(log) <= MaxLog /\ answering \subseteq LogAgents
    /\ page.view \in {"all", "exception"} /\ page.order \in {"asc", "desc"}
    /\ page.cursor \in Nat
    /\ \A i \in DOMAIN page.shown : page.shown[i] \in 1..MaxLog + Cardinality(LogAgents) + 3

\* What the pages since the first come from: exceptions of the same agents, all of whose
\* lines are looked at; or, forwards, all agents' lines and then their archives.
SameExceptions(A) ==
    /\ page.from = {<<"exceptions", A>>}
    /\ \A a \in A : Cardinality(LinesOf(a)) <= ScanLimit
ThenArchives ==
    /\ page.view = "all" /\ page.order = "asc"
    /\ page.from \subseteq {<<"agents", LogAgents>>, <<"archive">>}

Before(i, j) == IF page.order = "asc" THEN i < j ELSE j < i
\* The lines shown are lines of S in order, none twice, and none of S between them is missing.
Joined(S) ==
    /\ \A n \in DOMAIN page.shown : page.shown[n] \in S
    /\ \A n \in 1..Len(page.shown) - 1 :
          /\ Before(page.shown[n], page.shown[n + 1])
          /\ ~\E i \in S : Before(page.shown[n], i) /\ Before(i, page.shown[n + 1])

\* Pages that are loaded one after the other, while agents go on writing, join: no line is
\* shown twice or left out between them.
PagesJoin ==
    /\ \A A \in SUBSET LogAgents :
          SameExceptions(A) => Joined(Bad(UNION {LinesOf(a) : a \in A}))
    /\ ThenArchives /\ (\A n \in DOMAIN page.shown : page.shown[n] \in Lines) => Joined(Lines)
=============================================================================
