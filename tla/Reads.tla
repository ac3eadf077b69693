-------------------------------- MODULE Reads --------------------------------
(***************************************************************************)
(* The reads of the store (internal/store/rest.go, runs.go, search.go,     *)
(* threads.go) and the requests they become (internal/gh/client.go,        *)
(* internal/gql).  A read is answered from the cache when an entry with    *)
(* its key is held, so its key has to name everything its request says.    *)
(*                                                                         *)
(* A read is named for the word its key starts with; its arguments are a   *)
(* function on its parameters.  An answer is what the request said: two    *)
(* requests that say the same get the same answer.  Loads that overlap are *)
(* in Cache, the fan-out over repositories in Search.  The reads are those *)
(* the program makes: it lists the issues of a repository unfiltered.      *)
(***************************************************************************)
EXTENDS Integers, SequencesExt

CONSTANTS
  ArgsOf,     \* the arguments each read is called with
  CheckLists, \* what the API may list as the checks of a commit
  MaxKept,    \* bound: entries of the cache
  NoAnswer

VARIABLES
  keptReads,  \* the entries of the cache: a key and the answer held under it
  spent,      \* the REST budget is spent and its window stays for half a minute yet
  answered    \* the call that returned last

readVars == <<keptReads, spent, answered>>

----------------------------------------------------------------------------
(* What a key names. *)

AccountsKeyedBy ==
  [viewer |-> {}, orgs |-> {}, repos |-> {"owner", "page", "size"}]
\* Mutant: a key without the login that the API filters by.
RunsKeyedWithoutActor ==
  [runs |-> {"repo", "page", "size"}, run |-> {"repo", "id"},
   jobs |-> {"repo", "id", "attempt", "page", "size"}, logs |-> {"repo", "id"}]
RunsKeyedBy ==
  [runs |-> {"repo", "page", "size", "actor"}, run |-> {"repo", "id"},
   jobs |-> {"repo", "id", "attempt", "page", "size"}, logs |-> {"repo", "id"}]
PullsKeyedBy ==
  [prs |-> {"repo", "state", "page", "size"}, pr |-> {"repo", "id"},
   prcommits |-> {"repo", "id", "page", "size"},
   prfiles |-> {"repo", "id", "page", "size"},
   commit |-> {"repo", "sha"}, checks |-> {"repo", "sha"}]
TalkKeyedBy ==
  [issues |-> {"repo", "state", "page", "size"}, issue |-> {"repo", "id"},
   comments |-> {"repo", "id", "page", "size"},
   reviews |-> {"repo", "id", "page", "size"},
   review_comments |-> {"repo", "id", "page", "size"}]
GatesKeyedBy == [deployments |-> {"repo", "id"}, perm |-> {"repo", "login"}]
SearchKeyedBy ==
  {"kind", "owner", "state", "repo", "author", "assignee", "reviewer", "size", "page"}
ThreadsKeyedBy == {"repo", "id"}

\* What several tables say of their reads.
Joined(tables) ==
  [read \in UNION {DOMAIN t : t \in tables} |->
    UNION {t[read] : t \in {u \in tables : read \in DOMAIN u}}]

KeyedBy ==
  Joined({AccountsKeyedBy, RunsKeyedBy, PullsKeyedBy, TalkKeyedBy, GatesKeyedBy,
          [search |-> SearchKeyedBy], [review_threads |-> ThreadsKeyedBy]})

----------------------------------------------------------------------------
(* What a request says.  The cursor of a search stands for its page. *)

AccountsSay == [viewer |-> {}, orgs |-> {}, repos |-> {"owner", "page", "size"}]
RunsSay ==
  [runs |-> {"repo", "page", "size", "actor"}, run |-> {"repo", "id"},
   jobs |-> {"repo", "id", "attempt"}]
LogsSay == {"repo", "id"}
PullsSay == [prs |-> {"repo", "state", "page", "size"}, pr |-> {"repo", "id"}]
TalkSay ==
  [issues |-> {"repo", "state", "page", "size"}, issue |-> {"repo", "id"},
   comments |-> {"repo", "id", "page", "size"},
   reviews |-> {"repo", "id", "page", "size"},
   review_comments |-> {"repo", "id", "page", "size"}]
PartsSay ==
  [prcommits |-> {"repo", "id", "page", "size"},
   prfiles |-> {"repo", "id", "page", "size"}, commit |-> {"repo", "sha"}]
ChecksSay == {"repo", "sha"}
GatesSay == [deployments |-> {"repo", "id"}, perm |-> {"repo", "login"}]
SearchSays ==
  {"kind", "owner", "state", "repo", "author", "assignee", "reviewer", "size", "page"}
ThreadsSay == {"repo", "id"}

Says ==
  Joined({AccountsSay, RunsSay, PullsSay, TalkSay, PartsSay, GatesSay, [logs |-> LogsSay],
          [checks |-> ChecksSay], [search |-> SearchSays], [review_threads |-> ThreadsSay]})

Graph == {"search", "review_threads"}

\* The parameters of a read.
Asks(read) == KeyedBy[read] \cup Says[read]

\* pageArgs and the default state: 0 stands for an argument left out.
Defaulted(args) ==
  [p \in DOMAIN args |->
    IF p \in {"page", "size", "state"} /\ args[p] = 0 THEN 1 ELSE args[p]]
Part(args, ps) == [p \in ps |-> args[p]]
KeyOf(read, args) == <<read, Part(Defaulted(args), KeyedBy[read])>>
Saying(read, args) == Part(Defaulted(args), Says[read])

ASSUME ArgsAssumption ==
  \A read \in DOMAIN ArgsOf :
    read \in DOMAIN KeyedBy /\ \A args \in ArgsOf[read] : DOMAIN args = Asks(read)
ASSUME ChecksAssumption == CheckLists \subseteq Seq([name : STRING, at : Int, id : Int])
ASSUME KeptAssumption == MaxKept \in Nat

----------------------------------------------------------------------------
(* The latest check of each name, in the order the names came in. *)

Later(r, e) == r.at > e.at \/ (r.at = e.at /\ r.id > e.id)
TakeCheck(latest, r) ==
  IF \E i \in DOMAIN latest : latest[i].name = r.name
    THEN [i \in DOMAIN latest |->
           IF latest[i].name = r.name /\ Later(r, latest[i]) THEN r ELSE latest[i]]
    ELSE Append(latest, r)
Reduced(runs) == [listed |-> runs, shown |-> FoldLeft(TakeCheck, <<>>, runs)]
NoBody == [listed |-> <<>>, shown |-> <<>>]

Bodies(read) == IF read = "checks" THEN {Reduced(runs) : runs \in CheckLists} ELSE {NoBody}

----------------------------------------------------------------------------

ReadsInit == keptReads = {} /\ spent = FALSE /\ answered = NoAnswer

Held(read, args) == {e \in keptReads : e.key = KeyOf(read, args)}
Gives(read, args, said, body) ==
  answered' = [read |-> read, args |-> args, said |-> said, body |-> body]

\* A hit costs no request.
Hit(read, args) ==
  /\ \E e \in Held(read, args) : Gives(read, args, e.said, e.body)
  /\ UNCHANGED <<keptReads, spent>>

\* checkRateLimit: a spent budget that is back within half a minute is waited for;
\* the log endpoint and the GraphQL client ask without looking.
MaySend(read) == ~spent \/ read = "logs" \/ read \in Graph
SpentAfter(read) == IF read \in Graph THEN {spent} ELSE BOOLEAN

Fetch(read, args) ==
  /\ Held(read, args) = {} /\ MaySend(read) /\ Cardinality(keptReads) < MaxKept
  /\ \E body \in Bodies(read) :
       /\ keptReads' = keptReads \cup
            {[key |-> KeyOf(read, args), said |-> Saying(read, args), body |-> body]}
       /\ Gives(read, args, Saying(read, args), body)
  /\ spent' \in SpentAfter(read)

\* The API refused it, or the body could not be read.  Nothing is kept.
FetchFails(read, args) ==
  /\ Held(read, args) = {} /\ MaySend(read)
  /\ answered' = NoAnswer
  /\ spent' \in SpentAfter(read)
  /\ UNCHANGED keptReads

Refused(read, args) ==
  /\ Held(read, args) = {} /\ ~MaySend(read)
  /\ answered' = NoAnswer
  /\ UNCHANGED <<keptReads, spent>>

\* An entry expires and is swept, or all of them go with a write.
Forgotten ==
  /\ keptReads # {}
  /\ keptReads' \in {keptReads \ {e} : e \in keptReads} \cup {{}}
  /\ UNCHANGED <<spent, answered>>

WindowResets ==
  /\ spent /\ spent' = FALSE
  /\ UNCHANGED <<keptReads, answered>>

ReadsNext ==
  \/ \E read \in DOMAIN ArgsOf : \E args \in ArgsOf[read] :
       Hit(read, args) \/ Fetch(read, args) \/ FetchFails(read, args) \/ Refused(read, args)
  \/ Forgotten
  \/ WindowResets

ReadsSpec == ReadsInit /\ [][ReadsNext]_readVars

----------------------------------------------------------------------------

\* Every variable has its type, and a key holds one answer.
ReadsTypeOK ==
  /\ \A e \in keptReads : e.key[1] \in DOMAIN ArgsOf
  /\ \A e, f \in keptReads : e.key = f.key => e = f
  /\ spent \in BOOLEAN
  /\ answered # NoAnswer => answered.read \in DOMAIN ArgsOf

\* A read is answered with what it asked for, whatever was asked before it: no
\* two questions that the API tells apart share an entry of the cache, and no
\* default is resolved after the key is made (rest.go's keys against the requests
\* of gh/client.go; search.go's against qualifiers in gql/search.go).  Of the
\* checks of a commit it is the latest of each name, where they first were
\* (filterLatestCheckRuns).
AnsweredAsAsked ==
  answered # NoAnswer =>
    /\ answered.said = Saying(answered.read, answered.args)
    /\ LET listed == answered.body.listed
           shown == answered.body.shown
           First(name) == CHOOSE i \in DOMAIN listed :
                            listed[i].name = name /\ \A j \in 1..i - 1 : listed[j].name # name
       IN  /\ \A i \in DOMAIN listed :
                \E k \in DOMAIN shown :
                  shown[k].name = listed[i].name /\ ~Later(listed[i], shown[k])
           /\ \A k, l \in DOMAIN shown : k < l => First(shown[k].name) < First(shown[l].name)
=============================================================================
