------------------------------ MODULE PodLogs ------------------------------
(***************************************************************************)
(* A query for the logs of several pods: the query is validated, the pods  *)
(* and their containers are resolved to sources, a few workers read the    *)
(* sources, and every result is merged into a page that is bounded by the  *)
(* number of entries and by their bytes.  A read starts at the last lines  *)
(* of its source, as many as the query says or a default, and the lines    *)
(* are filtered after that: what lies before them is not looked at.        *)
(*                                                                         *)
(* Pods, containers and times are numbers, so that entries have the order  *)
(* the code sorts them by: time, then pod, then container.  Container 1 is *)
(* a regular container of every pod, container 2 an init container that a  *)
(* pod may have, and container 3 exists nowhere.                           *)
(***************************************************************************)
EXTENDS Naturals, Sequences, FiniteSets, FiniteSetsExt, SequencesExt

CONSTANTS
  NPods,       \* pods a query may name
  DefaultTail, \* the last lines of a source that are read unless the query says otherwise
  Times,       \* the times of log lines
  Long,        \* the times whose line is long: it takes two units of the byte budget
  MaxEntries,  \* entries of a page, and what a query may ask for
  MaxSources,  \* sources of a query
  Budget,      \* bytes of a page
  LogWorkers   \* sources read at once

VARIABLES
  pods,     \* the pods of the namespace
  query,    \* the query; Unasked before
  todo,     \* sources no worker has taken
  reading,  \* sources that are being read
  results,  \* results that wait to be merged
  contents, \* what each source had to say when it was read, and what the read returned
  page      \* the page

vars == <<pods, query, todo, reading, results, contents, page>>

NoPage == [entries |-> <<>>, truncated |-> FALSE, partial |-> FALSE, ok |-> 0, failed |-> 0,
           warned |-> {}, state |-> "none"]
Unasked == [named |-> {}, labelled |-> FALSE, all |-> FALSE, wants |-> {}, limit |-> 0,
            tail |-> 0, text |-> {}, from |-> 0, to |-> 0, forward |-> FALSE]

Init ==
  /\ pods \in [1..NPods -> [exists : BOOLEAN, labelled : BOOLEAN, init : BOOLEAN]]
  /\ pods[1].labelled
  /\ \A p \in DOMAIN pods : ~pods[p].exists => ~pods[p].labelled /\ ~pods[p].init
  /\ query = Unasked
  /\ todo = <<>> /\ reading = {} /\ results = <<>> /\ contents = <<>> /\ page = NoPage

-----------------------------------------------------------------------------
(* The sources of a query.                                                 *)

Has(p) == {1} \union (IF pods[p].init THEN {2} ELSE {})

\* Pods are looked up by their names, or listed by the labels of the query or its workload
\* and then filtered by the names.
Listed(q) == {p \in 1..NPods : pods[p].exists /\ (q.labelled => pods[p].labelled)}
Targets(q) == IF q.named = {} THEN Listed(q) ELSE Listed(q) \intersect q.named
MissingPods(q) == {<<p, 0>> : p \in q.named \ Targets(q)}

\* All the containers, those that are named, or the default one.
Chosen(p, q) == IF q.all THEN Has(p) ELSE IF q.wants = {} THEN {1} ELSE q.wants \intersect Has(p)
SourcesOf(q) == UNION {{<<p, c>> : c \in Chosen(p, q)} : p \in Targets(q)}

\* Mutant: a container that a pod does not have is left out.
NoneMissing(q) == {}

MissingContainers(q) ==
  IF q.all THEN {} ELSE UNION {{<<p, c>> : c \in q.wants \ Has(p)} : p \in Targets(q)}

Before(a, b) == a[1] < b[1] \/ (a[1] = b[1] /\ a[2] < b[2])

\* A set in its order: as many come before each member as its place says.
InOrder(S, op(_, _)) ==
  [i \in 1..Cardinality(S) |-> CHOOSE e \in S : Cardinality({d \in S : op(d, e)}) = i - 1]

\* Options that no runtime log can serve, limits, and the times of the window.
Invalid(q) == q.limit > MaxEntries \/ q.tail > MaxEntries \/ q.from > q.to

Query(q) ==
  /\ page.state = "none"
  /\ query' = q
  /\ LET sources == SourcesOf(q)
         missing == MissingPods(q) \union MissingContainers(q)
     IN IF Invalid(q) \/ Cardinality(sources) > MaxSources
        THEN page' = [page EXCEPT !.state = "refused"] /\ UNCHANGED todo
        ELSE /\ todo' = InOrder(sources, Before)
             /\ page' = [page EXCEPT !.state = "open", !.partial = missing # {}, !.warned = missing]
  /\ UNCHANGED <<pods, reading, results, contents>>

\* The lookup of a workload, or of the pods, fails.
ResolveFails ==
  /\ page.state = "none"
  /\ page' = [page EXCEPT !.state = "refused"]
  /\ UNCHANGED <<pods, query, todo, reading, results, contents>>

-----------------------------------------------------------------------------
(* The workers.                                                            *)

TakeSource ==
  /\ todo # <<>> /\ Cardinality(reading) < LogWorkers
  /\ reading' = reading \union {Head(todo)}
  /\ todo' = Tail(todo)
  /\ UNCHANGED <<pods, query, results, contents, page>>

\* The lines in the window of the query that have its text.
Entries(s, times) ==
  {[at |-> t, source |-> s] : t \in {u \in times \intersect query.text : u >= query.from /\ u <= query.to}}

\* The last lines of a source, as many as the query says; all of them if it has only a start.
Tailed == query.tail > 0 \/ query.from = 0
TailLines == IF query.tail > 0 THEN query.tail ELSE DefaultTail
LastLines(said) == {t \in said : Tailed => Cardinality({u \in said : u > t}) < TailLines}

\* Of the last lines those that came within the bound of a source, filtered; or its read failed.
ReadSource(s, said, upto, cut) ==
  /\ s \in reading
  /\ cut \/ \A t \in LastLines(said) : t <= upto
  /\ reading' = reading \ {s}
  /\ LET entries == Entries(s, {t \in LastLines(said) : t <= upto})
     IN /\ results' = Append(results, [source |-> s, ok |-> TRUE, entries |-> entries, cut |-> cut])
        /\ contents' = Append(contents, [source |-> s, said |-> said, entries |-> entries, cut |-> cut])
  /\ UNCHANGED <<pods, query, todo, page>>

\* The pod is gone, or the 8 seconds of the query are over.
ReadFails(s) ==
  /\ s \in reading
  /\ reading' = reading \ {s}
  /\ results' = Append(results, [source |-> s, ok |-> FALSE, entries |-> {}, cut |-> FALSE])
  /\ UNCHANGED <<pods, query, todo, contents, page>>

-----------------------------------------------------------------------------
(* The page.                                                               *)

Precedes(a, b) ==
  IF a.at = b.at THEN Before(a.source, b.source) ELSE IF query.forward THEN a.at < b.at ELSE a.at > b.at

\* Mutant: what arrived later comes last.
AsTheyCame(seq, new) == seq \o InOrder(new, Precedes)

Merged(seq, new) == InOrder(ToSet(seq) \union new, Precedes)

Bytes(entries) == Cardinality(entries) + Cardinality({e \in entries : e.at \in Long})
Limit == IF query.limit = 0 THEN MaxEntries ELSE query.limit

\* boundAggregateLogEntries: the first entries within the limit and the budget.
Kept(seq) ==
  LET n == IF Len(seq) < Limit THEN Len(seq) ELSE Limit
      fit == {i \in 0..n : Bytes({seq[j] : j \in 1..i}) <= Budget}
  IN SubSeq(seq, 1, Max(fit))

\* Mutant: the last result decides whether the page is marked as truncated.
CutNow(was, cut, seq) == cut \/ Len(Kept(seq)) < Len(seq)

Cut(was, cut, seq) == was \/ cut \/ Len(Kept(seq)) < Len(seq)

Merge ==
  /\ page.state = "open" /\ results # <<>>
  /\ results' = Tail(results)
  /\ LET r == Head(results)
         seq == Merged(page.entries, r.entries)
     IN page' = IF r.ok
                THEN [page EXCEPT !.ok = @ + 1, !.entries = Kept(seq),
                                  !.truncated = Cut(@, r.cut, seq)]
                ELSE [page EXCEPT !.failed = @ + 1, !.partial = TRUE, !.warned = @ \union {r.source}]
  /\ UNCHANGED <<pods, query, todo, reading, contents>>

\* The results are closed when every worker has ended.
AnswerPage ==
  /\ page.state = "open" /\ todo = <<>> /\ reading = {} /\ results = <<>>
  /\ page' = [page EXCEPT !.state = "answered"]
  /\ UNCHANGED <<pods, query, todo, reading, results, contents>>

Plain == [Unasked EXCEPT !.to = Max(Times), !.all = TRUE, !.text = Times]

\* Queries for all pods, for named ones and by label; for containers; bounded, in a window,
\* for a text, for more lines than the default, in both directions.
Queries ==
  {[Plain EXCEPT !.named = named, !.limit = limit] : named \in {{}, 1..NPods}, limit \in 0..1}
  \union {[Plain EXCEPT !.labelled = TRUE, !.named = 1..NPods, !.forward = TRUE],
          [Plain EXCEPT !.from = 2, !.limit = 1, !.forward = TRUE],
          [Plain EXCEPT !.from = 2, !.to = 1], [Plain EXCEPT !.limit = MaxEntries + 1]}
  \union {[Plain EXCEPT !.text = {1}, !.from = from, !.tail = tail] : from \in 0..1, tail \in {0, MaxEntries}}
  \union {[Plain EXCEPT !.all = FALSE, !.wants = wants] : wants \in {{}, {1, 2}, {1, 3}}}

\* What a source may have to say, and how far the bound of a source lets a read come.
Texts == {[said |-> {}, upto |-> Max(Times), cut |-> FALSE], [said |-> {Max(Times)}, upto |-> Max(Times), cut |-> FALSE],
          [said |-> Times, upto |-> Max(Times), cut |-> FALSE], [said |-> Times, upto |-> 2, cut |-> TRUE]}

Next ==
  \/ \E q \in Queries : Query(q)
  \/ ResolveFails \/ TakeSource \/ Merge \/ AnswerPage
  \/ \E s \in reading : ReadFails(s) \/ \E text \in Texts : ReadSource(s, text.said, text.upto, text.cut)

Spec == Init /\ [][Next]_vars

-----------------------------------------------------------------------------
AllRead == UNION {contents[i].entries : i \in DOMAIN contents}

\* The page does not depend on the order in which the sources answered: it has the first
\* entries, in the direction of the query, of everything that was read ("entries are merged
\* by time"), as long as the bytes of what was read fit a page.
PageIsTheFirst ==
  page.state = "answered" /\ Bytes(AllRead) <= Budget =>
    page.entries = LET all == InOrder(AllRead, Precedes)
                   IN SubSeq(all, 1, IF Len(all) < Limit THEN Len(all) ELSE Limit)

\* A page that is marked neither partial nor truncated has, of every container that was asked
\* for in every pod that was asked for, the lines of the window and text of the query that are
\* among the last lines of the container, as many as the query or the default says, and
\* nothing else.  (What is before those lines is not on the page, and nothing marks that.)
\* Every source is counted once.
CompleteUnlessMarked ==
  page.state = "answered" =>
    /\ page.ok + page.failed = Cardinality(SourcesOf(query))
    /\ ~page.partial /\ ~page.truncated =>
         /\ ToSet(page.entries) =
              UNION {Entries(contents[i].source, LastLines(contents[i].said)) : i \in DOMAIN contents}
         /\ \A s \in SourcesOf(query) : \E i \in DOMAIN contents : contents[i].source = s
         /\ \A p \in query.named : pods[p].exists /\ (query.labelled => pods[p].labelled)
         /\ \A p \in Targets(query), c \in query.wants : query.all \/ <<p, c>> \in SourcesOf(query)

=============================================================================
