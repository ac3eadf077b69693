------------------------------ MODULE Segments ------------------------------
(***************************************************************************)
(* Which step of a job each line of its log belongs to (internal/logs).    *)
(*                                                                         *)
(* The log is one stream; an action reads its next line.  Lines carry a    *)
(* time or none, in any order.  What is printed is left out: a title or a  *)
(* name is a value whose words and likenesses are constants.               *)
(***************************************************************************)
EXTENDS Numbers, SequencesExt

CONSTANTS
  JobSteps,    \* the sequences of steps a job may have
  Never,       \* the time of what has not happened yet, or is not known
  Time,        \* the other times
  Title, StepName, NoTitle,
  Cleanup,     \* the names of cleanup steps
  WordsOf,     \* the words of each title and name, in lower case
  Post, Pre,   \* the titles and names that have "post", or "pre", somewhere
  Contained,   \* <<t, s>>: a title and a name one of which contains the other
  Tight,       \* the same, without blanks and punctuation
  Buried,      \* <<w, t>>: the word is somewhere in the words of the title
  Noise,       \* words that say nothing
  Length,      \* of each word
  Singular,    \* of each word, or the word itself
  MaxRead      \* bound: lines read

groupGrace == 2
postGrace == 1

ASSUME TimeAssumption == Time \subseteq Nat /\ Never \notin Nat
ASSUME StepsAssumption ==
  JobSteps \subseteq Seq([name : StepName, skipped : BOOLEAN,
                          from : Nat \cup {Never}, to : Nat \cup {Never}])
ASSUME ReadAssumption == MaxRead \in Nat
ASSUME WordsAssumption ==
  \A s \in StepName : IsFiniteSet(WordsOf[s]) /\ \A w \in WordsOf[s] : Length[w] \in Nat
ASSUME TitleAssumption == NoTitle \notin Title /\ Cleanup \subseteq StepName

\* banner: "Post job cleanup."; shows: something is left to show once the markers
\* are removed.
Line == [at : Time \cup {Never}, banner : BOOLEAN, title : Title \cup {NoTitle}, shows : BOOLEAN]

----------------------------------------------------------------------------
(* How well the title of a group names a step.                             *)

\* wordIn
WordIn(w, t) == w \in WordsOf[t] \/ (Length[w] > 3 /\ Singular[w] \in WordsOf[t])

\* Words of one letter, and those of most names, say nothing; one that is a part of
\* a longer word says less than a whole one.
WordScore(w, t) ==
  IF Length[w] < 2 \/ w \in Noise THEN 0
  ELSE IF WordIn(w, t) THEN Length[w] * 10
  ELSE IF Length[w] >= 4 /\ <<w, t>> \in Buried THEN Length[w] * 5
  ELSE 0

MatchScore(t, s) ==
  IF (t \in Post) # (s \in Post) \/ (t \in Pre) # (s \in Pre) THEN 0
  ELSE IF <<t, s>> \in Contained THEN 1000
  ELSE IF <<t, s>> \in Tight THEN 950
  ELSE SumFunctionOnSet([w \in WordsOf[s] |-> WordScore(w, t)], WordsOf[s])

----------------------------------------------------------------------------

VARIABLES
  steps,     \* the steps of the job
  cursor,    \* among those that were not skipped
  segments,  \* how many lines each step has been given
  read       \* how many lines were read

segmentVars == <<steps, cursor, segments, read>>

\* The places, in steps, of those that were not skipped.
NotSkipped(s) == {i \in DOMAIN s : ~s[i].skipped}
ActiveOf(s) ==
  LET A == NotSkipped(s)
  IN [k \in 1..Cardinality(A) |-> CHOOSE i \in A : Rank(i, A) = k]
Active == ActiveOf(steps)
StepAt(k) == steps[Active[k]]

SegmentsInit ==
  /\ steps \in JobSteps
  /\ cursor = 1
  /\ segments = [i \in 1..Len(steps) + 1 |-> 0]
  /\ read = 0

\* covers: the two clocks may differ by groupGrace.
Covers(s, at) ==
  \/ at = Never
  \/ /\ s.from # Never => at >= s.from - groupGrace
     /\ s.to # Never => at <= s.to + groupGrace

\* advance: the line ends the step and belongs to the next one.  A step that has not
\* begun began, as far as the comparison goes, before everything.
Advances(line, curr, next) ==
  /\ curr.to # Never
  /\ IF curr.name \in Cleanup
     THEN line.at >= curr.to \/ next.from = Never \/ line.at >= next.from
     ELSE line.banner \/ (next.name \in Cleanup /\ line.at > curr.to + postGrace)

Advanced(line) ==
  IF /\ line.at # Never /\ cursor < Len(Active)
     /\ Advances(line, StepAt(cursor), StepAt(cursor + 1))
  THEN cursor + 1 ELSE cursor

\* Mutant: any step whose time it is.
CandidatesAnywhere(line, from) ==
  {k \in DOMAIN Active : Covers(StepAt(k), line.at) /\ MatchScore(line.title, StepAt(k).name) > 0}

\* matchGroup never moves backwards.
Candidates(line, from) ==
  {k \in from..Len(Active) :
     Covers(StepAt(k), line.at) /\ MatchScore(line.title, StepAt(k).name) > 0}

\* The best of them, and the later of two as good.
Matched(line, from) ==
  LET S == Candidates(line, from)
      score(k) == MatchScore(line.title, StepAt(k).name)
  IN IF line.title = NoTitle \/ S = {} THEN from
     ELSE CHOOSE k \in S :
            \A j \in S : score(j) <= score(k) /\ (score(j) = score(k) => j <= k)

\* Segment: a job whose steps were all skipped keeps its log in one piece, under
\* the first of them.
ReadLine(line) ==
  /\ read < MaxRead
  /\ read' = read + 1
  /\ LET next == Matched(line, Advanced(line))
         at == IF Active = <<>> THEN 1 ELSE Active[next]
     IN IF ~line.shows
        THEN UNCHANGED <<cursor, segments>>
        ELSE IF Active = <<>>
        THEN segments' = [segments EXCEPT ![1] = @ + 1] /\ UNCHANGED cursor
        ELSE segments' = [segments EXCEPT ![at] = @ + 1] /\ cursor' = next
  /\ UNCHANGED steps

SegmentsNext == \E line \in Line : ReadLine(line)

SegmentsSpec == SegmentsInit /\ [][SegmentsNext]_segmentVars

----------------------------------------------------------------------------

\* Every variable has its type.
SegmentsTypeOK ==
  /\ steps \in JobSteps
  /\ cursor \in 1..Len(steps) + 1
  /\ segments \in [1..Len(steps) + 1 -> Nat]
  /\ read \in 0..MaxRead

\* The lines of a log keep their order across its segments: once a step has been
\* given a line no earlier step is given another, and a step that was skipped is
\* given none: "It never moves the cursor backwards" (logs.go:286-287).
SegmentsInOrder ==
  [][\A i \in DOMAIN segments : segments'[i] # segments[i] =>
       /\ \A j \in DOMAIN segments : j > i => segments[j] = 0
       /\ Active # <<>> => i \in DOMAIN steps /\ ~steps[i].skipped]_segmentVars
=============================================================================
