----------------------------- MODULE Categories -----------------------------
(***************************************************************************)
(* The categories of repositories (category/model.rs, category/store.rs,   *)
(* category/resolver.rs) and the daemon's handling of the requests that    *)
(* change them (daemon/server/mutations/sidebar.rs, api/category.rs).      *)
(*                                                                         *)
(* A category comes from the configuration, from a dynamic category that   *)
(* the user made, or from an assignment; the order of the categories and   *)
(* of the repositories in each is kept with names that may have gone.      *)
(* Categories and repositories are numbers: their order is the order of    *)
(* their names, which is what unlisted ones are sorted by.                 *)
(***************************************************************************)
EXTENDS Naturals, Sequences, FiniteSets, SequencesExt

CONSTANTS
    CatName,       \* names a category can have
    Uncategorized, \* the system category
    Automatic,          \* no explicit assignment
    RepoKey,       \* repositories
    CatConfigs,    \* configurations: [names : configured categories, rule : RepoKey -> category,
                   \*                  rank : the order given to a category]
    MaxIntents,    \* bound: requests
    MaxSaves,      \* bound: saves that fail and mirrors that are not written
    MaxReloads     \* bound: configuration edits, restarts, and repositories that come or go

ASSUME CategoryAssumption ==
    /\ CatName \cup {Uncategorized} \cup RepoKey \subseteq Nat
    /\ Uncategorized \notin CatName /\ Automatic \notin CatName \cup {Uncategorized}
    /\ \A g \in CatConfigs : g.names \subseteq CatName /\ \A r \in RepoKey :
                                g.rule[r] \in g.names \cup {Uncategorized}
    /\ \A g \in CatConfigs : g.rank \in [CatName \cup {Uncategorized} -> Nat]

VARIABLES
    cat,      \* the daemon's CategoryState
    catFile,  \* the state on disk
    catCfg,   \* [active : the daemon's configuration, disk : the file's]
    knownCategory,    \* repositories some pane or session is in
    mirror,   \* RepoKey -> @vde_category of the repository's session
    acked,    \* ghost: RepoKey -> the assignment last acknowledged
    ahead,    \* ghost: states reported as not saved since the file was last written or read
    catSpent  \* what the bounds count

catVars == <<cat, catFile, catCfg, knownCategory, mirror, acked, ahead, catSpent>>

AllCats == CatName \cup {Uncategorized}
EmptyState ==
    [revision |-> 0, dynamic |-> {}, order |-> <<>>, overrides |-> [r \in RepoKey |-> Automatic],
     repoOrder |-> [c \in {} |-> <<>>]]

\* The stored order of a category's repositories, if there is one.
StoredOrder(c, n) == IF n \in DOMAIN c.repoOrder THEN c.repoOrder[n] ELSE <<>>
WithOrder(c, n, seq) ==
    [c EXCEPT !.repoOrder = [m \in DOMAIN @ \cup {n} |-> IF m = n THEN seq ELSE @[m]]]

InOrder(S) == SetToSortSeq(S, LAMBDA a, b : a < b)
Position(seq, x) == IF x \in Range(seq) THEN CHOOSE i \in DOMAIN seq : seq[i] = x ELSE 0
Without(seq, x) == SelectSeq(seq, LAMBDA y : y # x)

(***************************************************************************)
(* The effective model.                                                    *)
(***************************************************************************)
Names(g, c) ==
    g.names \cup c.dynamic \cup {Uncategorized} \cup ({c.overrides[r] : r \in RepoKey} \ {Automatic})

effective_category_order(g, c) ==
    LET base == SetToSortSeq(Names(g, c), LAMBDA m, n : \/ g.rank[m] < g.rank[n]
                                                        \/ g.rank[m] = g.rank[n] /\ m < n)
    IN  IF c.order = <<>> THEN base
        ELSE SelectSeq(c.order, LAMBDA n : n \in Names(g, c))
             \o SelectSeq(base, LAMBDA n : n \notin Range(c.order))

resolve_membership(g, c, r) == IF c.overrides[r] # Automatic THEN c.overrides[r] ELSE g.rule[r]

Placed(g, c, k, n) == {r \in k : resolve_membership(g, c, r) = n}

\* Unlisted repositories come before the listed ones.
ordered_repos(g, c, k, n) ==
    LET at(r) == Position(StoredOrder(c, n), r)
    IN  SetToSortSeq(Placed(g, c, k, n), LAMBDA a, b : at(a) < at(b) \/ (at(a) = at(b) /\ a < b))

Source(g, n) ==
    IF n = Uncategorized THEN "system" ELSE IF n \in g.names THEN "configured" ELSE "dynamic"

(***************************************************************************)
(* The requests.  Each gives the new state, or refuses.                    *)
(***************************************************************************)
Refused == [ok |-> FALSE, changed |-> FALSE, state |-> EmptyState]
Done(changed, state) == [ok |-> TRUE, changed |-> changed, state |-> state]

move_repo_to_category_end(c, r, previous, n) ==
    LET left == [m \in DOMAIN c.repoOrder |-> IF previous \in {Automatic, m} \/ m = n
                                              THEN Without(c.repoOrder[m], r) ELSE c.repoOrder[m]]
    IN  WithOrder([c EXCEPT !.repoOrder = left], n, Append(Without(StoredOrder(c, n), r), r))

CreateCategory(g, c, n) ==
    IF n \in Names(g, c) THEN Refused
    ELSE Done(TRUE, [c EXCEPT !.dynamic = @ \cup {n}, !.order = Append(@, n)])

WithoutOrder(c, n) == [c EXCEPT !.repoOrder = Restrict(@, DOMAIN @ \ {n})]

replace_category_name(c, old, new) ==
    LET named == [c EXCEPT !.dynamic = (@ \ {old}) \cup {new},
                           !.order = [i \in DOMAIN @ |-> IF @[i] = old THEN new ELSE @[i]],
                           !.overrides = [r \in RepoKey |-> IF @[r] = old THEN new ELSE @[r]]]
    IN  IF old \in DOMAIN c.repoOrder THEN WithOrder(WithoutOrder(named, old), new, c.repoOrder[old])
        ELSE named

RenameCategory(g, c, old, new) ==
    IF old \notin Names(g, c) \/ Source(g, old) # "dynamic" THEN Refused
    ELSE IF old = new THEN Done(FALSE, c)
    ELSE IF new \in Names(g, c) THEN Refused
    ELSE Done(TRUE, replace_category_name(c, old, new))

\* Its repositories go to the replacement, or back to the rules.
delete_category(g, c, k, n, target) ==
    LET affected == InOrder({r \in RepoKey : c.overrides[r] = n})
        cleared  == WithoutOrder([c EXCEPT !.dynamic = @ \ {n}, !.order = Without(@, n)], n)
        move(d, r) ==
            IF target # Automatic
            THEN move_repo_to_category_end([d EXCEPT !.overrides[r] = target], r, Automatic, target)
            ELSE IF r \in k
                 THEN move_repo_to_category_end([d EXCEPT !.overrides[r] = Automatic], r, Automatic, g.rule[r])
                 ELSE [d EXCEPT !.overrides[r] = Automatic]
    IN  FoldLeft(move, cleared, affected)

DeleteCategory(g, c, k, n, target) ==
    IF n \notin Names(g, c) \/ Source(g, n) # "dynamic" \/ target = n
       \/ target \notin Names(g, c) \cup {Automatic}
    THEN Refused ELSE Done(TRUE, delete_category(g, c, k, n, target))

AssignRepo(g, c, r, n) ==
    IF n \notin Names(g, c) THEN Refused
    ELSE Done(c.overrides[r] # n,
              move_repo_to_category_end([c EXCEPT !.overrides[r] = n], r, c.overrides[r], n))

SetRepoAutomatic(c, r) ==
    LET previous == c.overrides[r]
    IN  IF previous = Automatic THEN Done(FALSE, c)
        ELSE Done(TRUE, [c EXCEPT !.overrides[r] = Automatic,
                                  !.repoOrder = [n \in DOMAIN @ |-> IF n = previous THEN Without(@[n], r)
                                                                    ELSE @[n]]])

\* The two must be adjacent, in the asked direction.
move_relative(seq, x, y, up) ==
    LET i == Position(seq, x)
        j == Position(seq, y)
    IN  IF x # y /\ i # 0 /\ j # 0 /\ j = (IF up THEN i - 1 ELSE i + 1)
        THEN <<[seq EXCEPT ![i] = y, ![j] = x]>> ELSE <<>>

materialize_category_order(g, c) ==
    LET now == effective_category_order(g, c)
    IN  now \o SelectSeq(c.order, LAMBDA n : n \notin Range(now))

MoveCategory(g, c, n, m, up) ==
    LET moved == move_relative(materialize_category_order(g, c), n, m, up)
    IN  IF moved = <<>> THEN Refused ELSE Done(TRUE, [c EXCEPT !.order = moved[1]])

materialize_repo_order(g, c, k, n) ==
    LET stored == StoredOrder(c, n)
    IN  stored \o SelectSeq(InOrder(Placed(g, c, k, n)), LAMBDA r : r \notin Range(stored))

MoveRepo(g, c, k, r, s, n, up) ==
    LET moved == move_relative(materialize_repo_order(g, c, k, n), r, s, up)
    IN  IF {r, s} \subseteq Placed(g, c, k, n) /\ moved # <<>>
        THEN Done(TRUE, WithOrder(c, n, moved[1])) ELSE Refused

validate(c) == IsInjective(c.order) /\ \A n \in DOMAIN c.repoOrder : IsInjective(c.repoOrder[n])

Intent ==
    [op : {"create"}, name : CatName]
    \cup [op : {"rename"}, name : CatName, to : CatName]
    \cup [op : {"delete"}, name : CatName, to : AllCats \cup {Automatic}]
    \cup [op : {"assign"}, repo : RepoKey, to : AllCats]
    \cup [op : {"automatic"}, repo : RepoKey]
    \cup [op : {"category"}, name : AllCats, by : AllCats, up : BOOLEAN]
    \cup [op : {"repo"}, repo : RepoKey, by : RepoKey, name : AllCats, up : BOOLEAN]

\* What is not valid is refused; what changes something is a new revision.
Revised(a, c) ==
    IF ~a.ok \/ ~validate(a.state) THEN Refused
    ELSE [a EXCEPT !.state.revision = IF a.changed THEN c.revision + 1 ELSE @]

apply_category(g, c, k, q) ==
    Revised(CASE q.op = "create"    -> CreateCategory(g, c, q.name)
              [] q.op = "rename"    -> RenameCategory(g, c, q.name, q.to)
              [] q.op = "delete"    -> DeleteCategory(g, c, k, q.name, q.to)
              [] q.op = "assign"    -> AssignRepo(g, c, q.repo, q.to)
              [] q.op = "automatic" -> SetRepoAutomatic(c, q.repo)
              [] q.op = "category"  -> MoveCategory(g, c, q.name, q.by, q.up)
              [] q.op = "repo"      -> MoveRepo(g, c, k, q.repo, q.by, q.name, q.up), c)

(***************************************************************************)
(* Init and the actions.                                                   *)
(***************************************************************************)
CatInit ==
    \E g \in CatConfigs :
        /\ cat = EmptyState /\ catFile = EmptyState
        /\ catCfg = [active |-> g, disk |-> g]
        /\ knownCategory = RepoKey
        /\ mirror = [r \in RepoKey |-> g.rule[r]]
        /\ acked = [r \in RepoKey |-> Automatic] /\ ahead = {}
        /\ catSpent = [intents |-> 0, saves |-> 0, reloads |-> 0]

CatSpend(kind, bound) == catSpent[kind] < bound /\ catSpent' = [catSpent EXCEPT ![kind] = @ + 1]

\* What the reply of an applied request tells its sender, for the ghost.
AfterReply(q, c) ==
    CASE q.op = "assign"    -> [acked EXCEPT ![q.repo] = q.to]
      [] q.op = "automatic" -> [acked EXCEPT ![q.repo] = Automatic]
      [] q.op = "rename" /\ q.name # q.to ->
            [r \in RepoKey |-> IF acked[r] = q.name THEN q.to ELSE acked[r]]
      [] q.op = "delete"    -> [r \in RepoKey |-> IF acked[r] = q.name THEN q.to ELSE acked[r]]
      [] OTHER -> acked

\* A request that changes nothing is answered without a save; one that is
\* refused or whose save fails leaves everything as it was.  Every request of
\* the program bears an event id of its own, so none is a repetition.
apply_category_intent(q) ==
    /\ CatSpend("intents", MaxIntents)
    /\ \E a \in {apply_category(catCfg.active, cat, knownCategory, q)} :
          /\ a.ok
          /\ cat' = IF a.changed THEN a.state ELSE cat
          /\ catFile' = IF a.changed THEN a.state ELSE catFile
          /\ mirror' = IF ~a.changed THEN mirror
                       ELSE [r \in RepoKey |-> IF r \in knownCategory
                                               THEN resolve_membership(catCfg.active, a.state, r)
                                               ELSE mirror[r]]
          /\ acked' = AfterReply(q, a.state)
          /\ ahead' = IF a.changed THEN {} ELSE ahead
    /\ UNCHANGED <<catCfg, knownCategory>>

\* The requests of the command line also need the file's configuration to be
\* the daemon's.
category_mutation(q) ==
    /\ q.op \in {"assign", "automatic"} /\ catCfg.active = catCfg.disk
    /\ apply_category_intent(q)

\* Mutant: the daemon shows the new state before it is saved.
SaveFailsShown(q) ==
    /\ CatSpend("saves", MaxSaves)
    /\ \E a \in {apply_category(catCfg.active, cat, knownCategory, q)} :
          /\ a.ok /\ a.changed /\ cat' = a.state
          /\ catFile' \in {catFile, a.state} /\ ahead' = ahead \cup {a.state}
    /\ UNCHANGED <<catCfg, knownCategory, mirror, acked>>

\* The save fails before or after it replaced the file.
SaveFails(q) ==
    /\ CatSpend("saves", MaxSaves)
    /\ \E a \in {apply_category(catCfg.active, cat, knownCategory, q)} :
          /\ a.ok /\ a.changed
          /\ catFile' \in {catFile, a.state} /\ ahead' = ahead \cup {a.state}
    /\ UNCHANGED <<cat, catCfg, knownCategory, mirror, acked>>

EditConfig ==
    /\ CatSpend("reloads", MaxReloads)
    /\ \E g \in CatConfigs : catCfg' = [catCfg EXCEPT !.disk = g]
    /\ UNCHANGED <<cat, catFile, knownCategory, mirror, acked, ahead>>

\* A request that was reported as failed may turn out to be saved.
load_state ==
    /\ CatSpend("reloads", MaxReloads)
    /\ cat' = catFile
    /\ catCfg' = [catCfg EXCEPT !.active = catCfg.disk]
    /\ acked' = IF catFile \in ahead THEN catFile.overrides ELSE acked
    /\ ahead' = {}
    /\ UNCHANGED <<catFile, knownCategory, mirror>>

\* A repository's last session and pane go, or its first one comes.
Visit ==
    /\ CatSpend("reloads", MaxReloads)
    /\ \E r \in RepoKey : knownCategory' = IF r \in knownCategory THEN knownCategory \ {r} ELSE knownCategory \cup {r}
    /\ UNCHANGED <<cat, catFile, catCfg, mirror, acked, ahead>>

CatNext ==
    \/ \E q \in Intent : apply_category_intent(q) \/ category_mutation(q) \/ SaveFails(q)
    \/ EditConfig \/ load_state \/ Visit

CatSpec == CatInit /\ [][CatNext]_catVars

-----------------------------------------------------------------------------
(***************************************************************************)
(* Properties.                                                             *)
(***************************************************************************)
\* README.md:413: an acknowledged assignment holds across restarts, configuration changes, failed
\* saves and the repository's sessions going, until it is taken back; only a restart after a save
\* that failed can bring in the assignments of the request that was reported as failed.
AssignmentHolds == cat.overrides = acked

\* The state on disk can be loaded, and is what the daemon shows or a state whose request was
\* reported as failed since; the next request that is saved ends the difference.
FileLoads == validate(catFile) /\ validate(cat) /\ catFile \in {cat} \cup ahead

\* What is shown, what is stored and what was answered do not part.
CategoriesKept == AssignmentHolds /\ FileLoads

\* Every category is listed once and every repository is shown in exactly one listed category.
PartitionOfRepos ==
    LET g == catCfg.active
        order == effective_category_order(g, cat)
    IN  /\ IsInjective(order) /\ Range(order) = Names(g, cat)
        /\ \A r \in knownCategory : \E n \in Range(order) :
              /\ r \in Range(ordered_repos(g, cat, knownCategory, n))
              /\ \A m \in Range(order) \ {n} : r \notin Range(ordered_repos(g, cat, knownCategory, m))
        /\ \A n \in Range(order) : IsInjective(ordered_repos(g, cat, knownCategory, n))

\* A request moves only what it names, also one whose failed save comes back with a restart: another
\* repository keeps its category unless its own category is renamed or deleted, and moving a category
\* exchanges it with one neighbour in the list.
Swapped(s, t) ==
    s = t \/ \E i \in 1..Len(s) - 1 : t = [s EXCEPT ![i] = s[i + 1], ![i + 1] = s[i]]
OnlyWhatIsNamed ==
    [][(cat' # cat /\ catCfg' = catCfg) =>
        LET g == catCfg.active
            before(r) == resolve_membership(g, cat, r)
            after(r) == resolve_membership(g, cat', r)
            order == effective_category_order(g, cat)
            order2 == effective_category_order(g, cat')
        IN  /\ \/ cat'.overrides = cat.overrides
               \/ \E r \in RepoKey : \A s \in RepoKey \ {r} : before(s) = after(s)
               \/ \E n \in CatName : /\ n \notin Range(order2)
                                     /\ \A s \in RepoKey : before(s) # n => before(s) = after(s)
            /\ (cat'.dynamic = cat.dynamic /\ cat'.overrides = cat.overrides) => Swapped(order, order2)
      ]_catVars

\* README.md:310: "`J` / `K` | Change manual ordering": two repositories that are next to each other
\* in a category can be exchanged.
NeighboursCanMove ==
    LET g == catCfg.active IN
    \A n \in Names(g, cat) :
        LET shown == ordered_repos(g, cat, knownCategory, n) IN
        \A i \in 2..Len(shown) :
            LET a == apply_category(g, cat, knownCategory, [op |-> "repo", repo |-> shown[i],
                                       by |-> shown[i - 1], name |-> n, up |-> TRUE])
            IN  a.ok /\ ordered_repos(g, a.state, knownCategory, n)
                            = [shown EXCEPT ![i] = shown[i - 1], ![i - 1] = shown[i]]
=============================================================================
