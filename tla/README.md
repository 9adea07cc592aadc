# OmegaConf in TLA+

OmegaConf is a library of hierarchical configurations: trees of dicts, lists and
typed values that are merged from several sources, refer to each other by
interpolations, and are protected by flags and by types. It runs in one thread and
keeps everything in memory. What makes it hard is not concurrency. It is that state is
spread over nodes that are cached, copied, moved and re-typed; that nearly every
operation can raise in the middle; and that users' code (resolvers) runs inside it.

This directory models the part of the library that keeps state or recurses over it:
TLC checks the models on small instances, and TLAPS proves the most important results
for every instance. Paths below are relative to the repository, with `omegaconf/`
left out where it is clear.

## 1. Inventory

State lives in nodes (`base.py: Node`): `_parent`, `_metadata` (types, key, flags,
resolver cache), `_flags_cache` and `_content` or `_val`. The registry of resolvers
(`BaseContainer._resolvers`) is the only global state.

| Component | State | Operations | Hard about it | Correct if | Modules |
|---|---|---|---|---|---|
| Nodes, flags, flag cache (`base.py`) | flags, flags root, cache, parents, contents | set and get a flag, set flags root, assign with or without a copy, delete, deepcopy, replace content, re-parent | the cache is filled on the way up and cleared on the way down, and clearing stops early; nodes move with their caches | a flag that is read is the one the inheritance rule gives | `FlagTree` |
| ListConfig (`listconfig.py`) | list of nodes with their index as key | those of `list`, assignment of the whole | placeholders, edits of copies, an iterator that raises | it behaves as a list; keys are positions; nothing refused gets in | `PyList`, `ListOps` |
| DictConfig (`dictconfig.py`) | ordered dict of typed nodes, object type, flags | those of `MutableMapping`, attribute access, assignment of the whole | three sources of "closed", mixin methods that go entry by entry, rollback of part of the state | it behaves as a dict; closed and readonly ones stay so | `PyDict`, `DictOps` |
| Setting values (`basecontainer.py: _set_item_impl`) | the node at a key | assign a value, a node, a container | whether the old node stays decides which type remains | types hold | in the two above and in `Merge` |
| Interpolations (`base.py`, `grammar_visitor.py`) | memo of nodes being resolved, cache of results | access, conversion of a whole config | recursion through paths; cycle detection; a cache shared across calls | the answer is the one the text denotes; cycles raise | `Interpolation` |
| Resolvers (`omegaconf.py: register_resolver`) | registry, a cache in each root | register, replace, clear, read, set/copy/clear cache | user code between lookup and store; annotations that change under a cache | cached reads repeat; annotations hold | `ResolverMemo`, `Resolvers` |
| Merging (`basecontainer.py`) | the target tree | `merge`, `merge_with`, `unsafe_merge` | key by key, in place, raising half way, expanding, dereferencing, relaxing readonly | the source overlays the target; types, struct and readonly survive | `Merge` |
| Flag scopes (`omegaconf.py: flag_override`) | flags read on entry | `flag_override`, `read_write`, `open_dict` | what happens inside a scope: settings, copies, moves, other scopes, exceptions | flags are as before | `FlagScopes` |
| Path access (`OmegaConf.select`, `update`, `_utils.py: split_key`) | none of its own | walk, create on the way, set or merge | replaces on the way before it validates; follows interpolations by code of its own; two readers of key paths | it writes where `select` reads, and loses nothing else | `KeyPath`, `ConfigTree`, `PathUpdate` |
| Walks and equality (`to_container`, `resolve`, `missing_keys`, `masked_copy`, `==`) | none of their own | traverse | resolve replaces while it walks; containers that refer to each other | they end and agree with each other | `ConfigTree`, `Walks` |
| Value nodes, UnionNode, TupleConfig (`nodes.py`, `base.py`, `tupleconfig.py`) | content of one of several types | assign, set an item, read an interpolation | which member of a union a value becomes depends on the active one; items are set one by one | what is stored has the declared type; refused values leave no trace | `TypedValues` |
| YAML loading (`_yaml.py`) | the graph of a document, the objects constructed | reject cycles, count nodes, flatten merge keys, construct | memoised, truncated counts; aliases share the nodes that are flattened in place | exact at the limit; loaded as written | `YamlAliases` |

Who calls whom: `merge` and the containers store through `_set_item_impl`, which copies
nodes, sets parents and clears flag caches (`FlagTree`) and asks `_get_flag` for readonly
and struct; reading a value goes through interpolation resolution, which may call
resolvers, which call back into reading. Containers override flags of the nodes they
fill (`flag_override`) and roll back `_content` when filling raises.

`PROJECT.json` lists all components, those that are not modelled too, with the reason,
and under `hazards` the places where all this can go wrong.

## 2. Modules

    Reach ---------- FlagTree ------- MCFlagTree          PyList <-- ListOps -- MCListOps
      |                |                                            \---- ListOpsProofs
      |             FlagScopes ------ FlagProofs          PyDict <-- DictOps -- MCDictOps
      |                \------------- MCFlagScopes                  \---- DictOpsProofs
      \---- Interpolation -- MCInterpolation              ResolverMemo <-- Resolvers -- MCResolvers
                    \------ InterpolationProofs                              \---- ResolversProofs
    KeyPath -----\
    ConfigTree --- PathUpdate -- MCPathUpdate             Merge -- MCMerge
           \------ Walks ------- MCWalks                     \--- MergeProofs
                                                          TypedValues -- MCTypedValues
    LoopLemmas --- ListOpsProofs, DictOpsProofs,                   \---- TypedValuesProofs
                   InterpolationProofs, MergeProofs,      YamlAliases
                   TypedValuesProofs
    ( -- : is extended by,  <-- : is implemented by )

All parameters are CONSTANTS with named assumptions; every MC module only gives
them values. Variables carry the attribute they stand for in a comment. Definitions
whose comment says "Mutant of ..." are wrong versions of the definition they name; each
makes the property it is listed with fail, and none is part of a specification.

**FlagTree.** A node graph without keys: `children[n]` is the set of nodes in
`_content`, `parent[n]` is `_parent`, which may point to a container that no longer
holds the node. Every operation that moves, copies, adds or drops nodes is an action as
far as it touches parents, contents, flags and caches. The recursive walks
(`_invalidate_flags_cache`, `_get_root`, `_get_flag`, `_re_parent`) are least sets closed
under a successor function (`Reach`), which proofs can use where recursion could not be.
`GetFlag` is the whole recursion up with the cache entries it leaves. `CopyingSpec` leaves
out the moves of nodes without a copy (flag `no_deepcopy_set_nodes`), which the proofs and
`FlagScopes` include; `SpecWithFailures` adds replacements of a content that raise half way.

**ListOps.** One list of nodes with the key each carries. Values are classes: one any
type takes, a container (which typed lists refuse), an interpolation, `"???"`, an
interpolation without a target. The steps the code is made of (`_set_item_impl`,
`append`, `insert`, deletion, the iterator, the edited copy of a slice assignment) are
operators that give a content and whether they raised; actions put them together as the
methods do. `PyList` is the abstract list: a call takes effect as a whole or raises and
changes nothing. `ListOps` implements it.

**DictOps.** One dict, either a structured config or a field `Dict[K, T]` with enum keys
(an enum member and its name are one key). `PyDict` is the abstract mapping, with
results. Each entry knows whether its node has the declared type, `Any` or one the caller
brought along.

**Interpolation.** The recursion of `_select_impl` and
`_resolve_interpolation_from_parse_tree` as a stack of frames, one step per turn, with
`memo` and `resolved_node_cache` as in the code. The reference is a recursive function
over the nesting depth (`Reference`) that knows neither.

**Resolvers.** Registry, caches as objects that configs refer to (so that sharing and
replacing a dict can be told apart), and the stack of running resolver calls. A resolver
returns any value, raises, reads what `Reads` allows, registers, and, with
`ClearsCaches`, replaces caches. `ResolverMemo` is the promise of `use_cache`.

**Merge.** A config is a dict of leaves, lists and dicts of leaves, each with type,
optionality, content and flags. `_merge_with`, `_map_merge`, `_list_merge` and the parts
of `_set_item_impl` they reach are operators that give the node they leave and how they
end; the loop over the keys is a fold that stops where the code raises. The two levels
are written out (`MergeLeaves` below, `MapMerge` on top) instead of recursively; the dicts
in the config hold leaves that are no interpolations (`IsEntry`). The order of
a source is a sequence for each set of keys a dict in it has. An interpolation at the top
level may lead to the next (`Hops`): it is replaced by the container at the end of the chain
(`basecontainer.py:467`) if there is one that is not missing and the typed leaves on
the way take it, which they do only if it is None (`base.py:651`).

**FlagScopes.** Composes scopes with `FlagTree`: a body is any step of `FlagTree`. `open`
is what the generators on the stack remember (`prev_states`); the history variable `own`
is the setting each flag would have without scopes. A scope is left when no later one is
over a flag of its node, as with blocks are.

**KeyPath, ConfigTree.** Key paths as sequences of characters, with both implementations
of `split_key` (the regular expressions and the one for escapes), `_find_eq` of dotlists
and the rendering of full keys; and a config as a function from paths to nodes, with
children, inherited flags and what an interpolation refers to. `MaxDepth` bounds chains
of references in place of Python's stack.

**PathUpdate.** `update` is one action: the walk down the path, with the empty dicts it
puts on the way and the dicts `force_add` opens and closes, is a fold that carries
the config it has changed so far, so that an error leaves what the code leaves.

**Walks.** `resolve` is a stack machine with one step per item of a container, in any
order of the keys, so that every intermediate config is a state; the readers are
recursive functions over the tree. A caller may assign to a node between two calls.

**TypedValues.** One field with a hint. Converters per node class, `_item_type` of tuples,
and the choice of a union member (`find_matches`, `narrow_by_metadata`, `select_structured_config_union_member`) are operators
that give a content or `Refused`; assigning, setting an item of what the field holds, and
reading an interpolation are the actions. Scalars are pairs of a Python type and a text; what
`int()`, `float()` and the enum lookups make of a text is a table. No member of a union is
`Any` or has items of `Any`: from Python 3.11 on `typing.Any` is a class, so that the strict
check of a member refuses plain values for it and takes nodes unchecked.

**YamlAliases.** A document is composed node by node, as PyYAML does, and then loaded by
the actions of `construct_document`: the check for recursion, the counts, and the queue of
generators that construct mappings and flatten their merge keys in the shared nodes.

## 3. Runs

All bounds are in the `.cfg` files and MC modules. Deadlock is checked except for
`Interpolation`, which stops when an access has been answered or a conversion has ended.

| Run | Asks | Bounds, and why they do |
|---|---|---|
| `flags` | is any cached flag wrong? | 4 containers, one flag: enough for a chain of three below a root, for copying a subtree of two, and for a node removed from a cached ancestor; flags do not interact; moves without a copy are in `flag_scopes` |
| `flags_failures` (violation) | and if a replacement raises? | as `flags` |
| `flag_scopes` | do scopes give flags back, and caches stay right, whatever happens inside? | 2 containers and a value node, 2 scopes open at a time, nodes moved without a copy, flags roots; two values and none of one flag: nothing compares True with False |
| `path_update` | does `update` write where `select` reads, and only there; what does a failure leave? | trees of at most 5 nodes with dicts, a list, links in and out of each other, a None dict and a missing value; paths of 1 to 3 keys in both notations; paths of up to 3 keys from 9 spellings for the readers |
| `walks` | does `resolve` end, keep all values and give what `to_container` gives; do the readers agree? | 290 configs of two containers and a leaf that refer to each other, each in every order of its keys, repaired and resolved again; 5 containers may be walked at a time, more than are nested without a cycle |
| `typed_values` | is what a typed field holds of its type, and taken back? | 18 fields, one of each value node, tuples of both kinds, unions of scalars, containers, classes and tuples; scalars of each Python type whose texts read as several types; containers of 0 to 2 items with and without a type |
| `yaml_aliases` | are exactly the documents refused that should be, and the others loaded as written? | every graph of 4 nodes with up to 2 items: an alias of an alias, a mapping merged twice, shared and nested; limits 9 and none, and thresholds 6 and 1 for the ratio, which all occur with 4 nodes |
| `list_ops` | is it a list; are keys right, types and readonly kept? | lists of 3, arguments of 2, all index signs, slices of step 1, -1 and 2: every branch of slice assignment with fewer, as many and more items than it replaces |
| `dict_ops` | is it a dict; are keys, types and readonly kept? | 2 fields and a third key; 2 enum members with an alias and a wrong name; 2 entries per call: a call of two entries fails after its first |
| `interpolations` | does every access and every conversion give what the text denotes, and end? | trees of 6 nodes: paths of length 1 and 2, relative to 3 levels up, strings of 2 pieces, aliases of containers, all request orders; stack of 24 frames, several times the longest acyclic chain |
| `resolvers` | do cached reads repeat, and annotations hold? | 2 configs, an interpolation that reads another, 2 values of which one is admitted, 2 running calls, all registrations |
| `merge` | does a merge overlay; do types, struct, flags and readonly survive, and failures leave a prefix? | untyped and structured configs, each with up to some 30 sources in all key orders, repeated without bound, and a config in which an interpolation leads by way of a typed field to a dict: some 6400 configs are reached |

What the properties say; the invariants or action properties of a module include its
type invariant:

* `FlagsInherited`: for a node whose chain of parents holds it, a cached flag is the one
  the rule of `docs/source/usage.rst:605` gives. `CacheSupported` is the reason: a cached
  answer that is inherited is cached by the parent as well, so clearing may stop at the
  first node without a cache. `FlagsGivenBack`: outside all scopes over it, a flag has the
  setting it would have had without any.
* `PathsReadBack`: a path is read as it was written, by both readers, in dotlists and from
  full keys. `SelectsWhatWasSet`, `OthersKept`: an update that returns has written what
  `select` finds with the same text, also through interpolations, and has changed one place.
  `FailureKeepsContainers`: one that raises has lost no container, entry or item.
  `FlagsRespected`: whatever it does on the way, flags are as before and were obeyed, and
  `force_add` is stopped by nothing but readonly and what is no container.
* `ResolveKeepsValues`: after each single replacement every node still reads as before.
  `ResolveIsToContainer`: resolve in place and conversion agree, in the error cases too, and
  only containers that refer to each other exhaust the stack. `ReadersAgree`:
  `missing_keys`, `==` and `structural_equality` agree with the conversion.
* `ItemsTyped`: what a typed field holds is of its type at every depth, whatever was
  assigned, set below it or read through it. `Reassignable`: a field takes back what it holds
  unchanged, so no assignment leaves a value that two members of a union claim.
  `AssignmentsKeep`: refused values leave the field as it was, unions do not convert, and
  a mapping leaves the active class active.
* `AliasesCharged`: recursion, limit and ratio are decided exactly although counts are
  truncated and remembered. `LoadsAsWritten`: each mapping is what its own text and the texts
  it merges say, however often shared nodes were flattened before.
* `ImplementsList`, `ImplementsDict`: refinement of the abstract containers, with
  results. `KeysRenewed`, `ItemsAccepted`, `NodesAccept`, `KeysFixed`, `ReadonlyHolds`:
  what a list or dict promises besides.
* `AnswersDenote`, `CacheDenotes`: answers and cached results equal the reference.
  `MemoIsStack`: memo is exactly the walks in progress, so it is empty when a call
  returned or raised. `LastKeyCyclesDetected`: cycles through last keys never exhaust the
  stack.
* `Memoizes`: refinement of the memo table. `ComputedOnce`: no cached interpolation is
  computed while it is being computed. `StrictHolds`: no read returns a value the
  annotation refuses, whoever filled the cache.
* `MergesOverlay`: what a merge that returns leaves at each key, but for a leaf that a missing
  container is merged over (section 5). `FailsInOrder`: a merge
  that raises has merged the keys before the one it raised at, none behind it, and at the
  key itself has lost nothing. `TypesStay`, `FlagsObeyed`, `FlagsKept`: what no sequence of
  merges, raised or not, takes away.

Two properties are liveness: `ResolveEnds` (a call of `resolve` ends) and `CallsEnd` (each
access and each conversion ends). Both assume weak fairness of the step inside the call
(`Step` of `Walks`, `Continue` of `Interpolation`): the library runs in the caller's thread,
and a call that has begun is executed. Beginning a call is not fair: the program is free
to stop. Python's recursion limit is part of both models and ends the cycles nothing else
ends.

## 4. Proofs

**FlagProofs** proves, of `FlagTree`, `TypeCorrect`, `CacheSupport` and `FlagsAreInherited` for every
set of nodes and flags and every sequence of operations of `Spec`. `FlagsInherited` is
not inductive: after a read on a grandchild and a change at the root it depends on the
caches in between. The strengthening is `TypeOK /\ CacheSupported`:
`SupportInductive` shows, one step per action, that support survives. The cases with
content are invalidation (`InvalidationKeepsSupport`: the cleared set is closed under
children of nodes with a cache, so a kept answer has a kept parent), reading (the path
gets one answer throughout) and copying (a copied node inside the copy has the parent of
its original, copied). `SupportImpliesInherited` walks the chain once, by the leastness of
`ReachFrom`. Assumed: `NoNode` is no node and leaves are nodes (`NodeAssumption`,
`SettableAssumption`); trees that are deep-copied are intact (`Intact`, a guard of the
model: `unsafe_merge` documents that its inputs must not be used again).

Of `FlagScopes` it proves `ScopesGiveBack` and `FlagsAreInheritedInScopes` for every set of
nodes, flags and overrides and any number of open scopes. `FlagsGivenBack` says nothing of
flags under an open scope, so it is not inductive; the missing part is `FirstHoldsOwn`: the
first of the open scopes over a flag holds the setting to be given back. Entering puts a scope behind
the others, and leaving takes one out of the middle of the sequence (`Removed`), which is
either the last over a flag, or not over it. A step of a body needs no analysis here: it keeps types
and support by the lemmas about `FlagTree`. Assumed: overrides map flags to settings
(`OverrideAssumption`).

**ResolversProofs** proves `TypeCorrect` and `AnnotationsHold` without further
assumptions, and `EntriesAwaitTheirCall` and `ImplementsMemo` for resolvers that do not
reach the interpolation they compute (`Acyclic`: a ranking of the interpolations that
falls along `Reads`) and leave caches alone (`~ClearsCaches`). Both are needed; section 5
says what happens without. The invariant `MemoInv` has five parts: types; no two configs
share a cache object (`Unshared`); a running call will store into the cache its config
still has (`Current`); ranks fall from outer to inner calls (`Descending`), so that no
two running calls compute the same interpolation; and `ComputedOnce`. With it each
action maps to a step of `ResolverMemo` or a stutter: a hit recalls, a return stores into
an empty entry, a call and a registration change nothing that is visible.

**LoopLemmas** is what the other five share: most operations of lists, dicts and merges
are folds over arguments or keys. The induction theorems of the library take an operator
as a parameter, which the provers cannot instantiate, so `InductionTo` is stated for
membership in a set, and follows from the order of the numbers being well founded.
`FoldRounds` says what a fold computes, round by round, and `RecursionTo` the same of a function
that is defined by recursion on numbers.

**ListOpsProofs** proves `ItemsAlwaysAccepted`, `KeysAreRenewed` and `ReadonlyAlwaysHolds` for lists
and arguments of every length, slices of every step, and any values and bounds.
`ItemsAccepted` is inductive by itself; the work is in the steps, which store a placeholder
before they validate the value (`AppendImpl`, `InsertImpl`) and must take it out again, and in slice
assignment: `TurnedIs` and `AddedIs` follow its two loops over the
edited copy, whose cursor and whose count of removed items keep the length within the
bound and every node accepted. `StepKeeps` states what one operation does to a list;
the two action properties follow from it. Assumed: `ValAssumption` (every class of values
consists of values, the placeholder is none, bounds are numbers).

`ListIsImplemented` is the refinement of `PyList`: a content is mapped to its `Values`, with one
lemma per action (`SetItemMaps` ... `SetSliceMaps`). Slice assignment is matched item by item.
`Patched` says that a list has some new items from the start of the slice on in the place of some
old ones; each round of the two loops is a deletion (`PatchDelete`), an insertion (`PatchInsert`)
or both, and the last leaves all new items in the place of all old ones (`SplicedRun`). For steps
other than 1, `RangeIs` says that the range visits the positions of `PyList`, and `SplicedEach` that each
gets its item. `RefilledIs` says that an edited copy whose items read as
themselves (`AllSame`) is what refills the list; deletion goes by `NthButOne` and `DelIs`. The theorem has the
hypothesis `~SlicesAny`, under which its run is made too; section 5 says what happens without.

**DictOpsProofs** proves `NodesAlwaysAccept`, `KeysAreFixed`, `ReadonlyAlwaysHolds` and the
refinement `DictIsImplemented`, for any fields, enum members, values and bounds. The
invariant is `NodesAccept`, of which it is a part that no key has two nodes. For the refinement, a content is mapped to its
keys and values (`Plain`), and each operator the actions are made of to one of `PyDict`:
storing (`PlainPut`), deletion, the loops of `update` and of filling an instance
(`StoredAllIs`: what the loop has stored before it raises is what the abstract dict has), with one lemma per
action (`SetMaps` ... `AssignMaps`). Results and raised errors are part of it. Assumed: `DictAssumption`.

**InterpolationProofs** proves `MemoIsAlwaysStack` for every tree, every set of interpolations
and every depth of the stack. `MemoIsStack` is not inductive: that a node leaves memo
when its walk returns depends on the frames under it. The invariant `IInv` adds that every
frame is well formed (`Sound`), that the frames below the top wait for an answer, and
that each memoed node is on the stack exactly once (`Stacked`). `LastKeyCyclesAreDetected` needs more:
in configs whose paths lead through no interpolation but at their last key (`Clear`, the
condition of the property), calls of `deref` and `select` alternate, and each second one adds a node
to memo, so the stack is no deeper than twice the memo and five (`Shallow`); as memo has no more nodes
than the tree, a cycle is met before the stack ends. Assumed: the tree is finite and `MaxDepth` has room
for that many frames (hypotheses of the theorem: on a lower stack Python's limit may come first);
`TreeAssumption` and `ConfigAssumption` (a name is that of one child, and what is there is in a container).

`AnswersAlwaysDenote` and `CachesAlwaysDenote` are about every tree of finitely many nodes, every
configuration of it and every order of requests. First the reference: `Reference` is a fixed point of
`Above` (`ReferenceIs`: levels only add results, and a level that adds none is the last, so as
many levels as nodes are enough), and a node with a result has a `Height`, the last level without
it, that is greater than the heights of all interpolations met on the way to its result
(`NodeGrounded`). The invariant is `IInv /\ Good`. `Agree`, its first part, says what each frame
stands for: a call for a node has put together what its first pieces denote, a walk has got to
what the first keys of its path denote, a frame below another one waits for just that
frame's node or path, what was returned is what the frame on top waits for, or an error, and the cache
holds results of `Reference`. That is enough for the cache and for every answer but an error. That
an error is right too needs the second part, `Falls`: if the node asked for has a result, heights
fall from each call to the next, so no node is met on the way to itself (`NotMet`: memo never
strikes), and the k-th frame of the stack is one for which `Height` leaves room (`Fits`). One lemma per
step (`VisitPieceGood` ... `ConvertResolvedGood`) over four about the stack (`Pops`,
`Turns`, `Pushes`, `Calls`). Assumed: `ResultAssumption` (errors are no results), a finite tree, and for
the answers `MaxDepth >= 2 * Cardinality(Node)`: on a lower stack Python's limit makes an error of a
deep interpolation that denotes something.

**MergeProofs** proves `NodesAlwaysConform`, `TypesAlwaysStay`, `FlagsAlwaysObeyed`,
`FlagsAlwaysKept`, `MergesAlwaysOverlay` and `MergesFailInOrder`, all that the run of `Merge`
checks, for every set of keys, classes, values and configs, all untyped sources and all orders of
their keys. The invariant is `TypeOK`: that the types survive a merge needs that of every
node its type admits what it holds, down to the leaves of nested dicts. What a merge
may do is stated as a relation between a node before and after, level by level, as the code
recurses: a leaf (`LeafRound`), the loop over the leaves of a dict (`LeafRoundsAre`,
`LeavesAll`, by `InductionTo`), a container in the config with its flags opened and restored
(`BoxMerged`), a node at a key after it was expanded or replaced by the container it refers to
(`NodeKept`), the loop over those, and the whole config (`RootMerged`); `unsafe_merge` and the
flags set around it come last (`MergeStep`). `TypesStay`, `FlagsObeyed` and `FlagsKept` are read off
that relation.

What a merge leaves, and in which order, is proved beside it. `BoxMerged` says that a
container that was merged is `LaidOver` and one whose merge raised `PartlyOver`. A round of the loop
over the config begins with a node that is as good as what the property calls its `Base`, or is the
container that was None, with content (`Ready`, `PrepareLaid`), and what the rest of the round makes of it
(`MergeValueAt`, `ChildAt`) it makes of the base (`FromReady`), so `MergeKeyLaid`: a round that returns
has laid the source over the base, and one that raises has left it as it was or in part merged. A
key depends on those merged before it, as its interpolation may lead there. The invariant
of the loop (`LoopLaid`) therefore speaks of each key in the config that has the new
nodes at the keys before it and the old ones elsewhere (`Mix`), which later rounds do not change
(`LaidStep`); at the end this is the property's `Halfway` (`AtKey`).
Assumed: `MergeAssumption` (keys are finitely many, int fields have int defaults) and `ConfigAssumption`
(configs and sources are well formed, sources are untyped).

The attempt at Merge found two places where the model or a property was wrong, and TLC now checks
them: an interpolation was taken for one of a container only if it led there in one hop
(above), and a property said that a dict without entries, merged over an
interpolation of a dict that is None, gives an empty dict: it gives None
(`MergedAt`).

**TypedValuesProofs** proves `ItemsAlwaysTyped`, `FieldsAreReassignable` and
`AssignmentsAlwaysKeep` for any fields, inputs, classes, literals and tables of conversions, and every
order of assignments. `ItemsTyped` is not inductive: an item set in a list, or an interpolation
read, has to know more of what the field holds than its type. The invariant, `FieldFixed`, is that
what a field holds is *fixed*: setting it once more refuses nothing and changes nothing at any
depth, and for a member of a union that is a class, that the member selected for the object is
the one it was stored as. TLC checked it before it was proved. It holds because conversions settle
(`ConvertSettles`: what a converter made it takes as it is, in strict mode too), which is carried
up through items (`SetItemsSettles`), lists, dicts and objects (`SetContainerSettles`,
`SetObjectSettles`), tuples, whose items are set one by one (`TupleItemsSettle`), and the members
of a union (`SetMemberSettles`), with one lemma for each way `UnionImpl` takes (`UnionTakesScalar`,
`UnionTakesSequence`, `UnionTakesObject`, `UnionTakesMapping`). From there one side shows that what
is fixed is of its type (`ConformsIfFixed`), the other that it is taken back
(`FixedIsReassignable`): of all members that take a value back, the hint it carries
leaves one (`FixedUnionIsSet`). `UnionSettles` says what an assignment that
returns may have changed, which is what the action property asks for. Assumed: `TypedAssumption`
(fields and inputs are well formed; a class is the first of its own mro; what `int()` or `float()` made
of a text they read as itself).

Only model-checked: everything about paths, walks and YAML. Out of the prover's reach: the two liveness properties (fairness and ENABLED), and what the RECURSIVE operators of
`YamlAliases` compute.

## 5. Where code and documents disagree

One disagreement is a run that TLC refutes: `flags_failures`, in which a refused
assignment leaves children whose cached flags no later change reaches
(`dictconfig.py:667`, `listconfig.py:620`; see `findings` in `PROJECT.json`).

More were met while modelling. The models do what the code does, and the properties
above are stated so that they hold of it.

Flags:

* A deepcopy keeps its parent pointer and its cached flags and is not in the parent's
  content, so it may answer with flags its parent no longer has (`base.py:847` against
  `usage.rst:605`). `FlagsInherited` speaks of nodes that are held.
* Two scopes over one flag of one node that are left in the order they were entered
  leave the first override in force (`omegaconf.py:1782`). `Leave` asks for the order of
  with blocks.

Lists and dicts:

* Slice assignment is announced as atomic (`listconfig.py:265`) and loses items when the
  refill raises (`:282`), as it does at an interpolation it cannot read. `ImplementsList`
  holds with `SlicesAny = FALSE`: slices are assigned with items, in lists of items, that
  read as themselves.
* A refused assignment of an object turns a structured config into a dict that takes any
  key (`dictconfig.py:693` against `structured_config.rst:112`).
* `sort` does not renew keys (`listconfig.py:501` against
  `tests/test_basic_ops_list.py:514`); an assignment to a negative index stores that index
  as the key. `KeysRenewed` exempts both.
* Assigning a ListConfig or DictConfig resets the flags of the node, also when it is
  refused (`listconfig.py:660` against the comment at `:662`).
* A typed node assigned to a field replaces the declared type
  (`basecontainer.py:826` against `structured_config.rst:30`), and one that holds `"???"`
  or an interpolation gets into a typed dict unchecked (`:1106` against
  `structured_config.rst:384`). `NodesAccept` speaks of the node's own type.
* `{"a": "${zzz}"} == {"a": None}` is true: an interpolation without a target compares as
  None (`basecontainer.py:917`). Comparing containers that refer to each other takes
  exponential time before the stack ends it (`:922`).

Interpolations and resolvers:

* A cycle through nodes on the way of a path ends only with Python's stack (`base.py:514`
  against `tests/interpolation/test_interpolation.py:483`). `LastKeyCyclesDetected` speaks of
  the others.
* Containers that refer to each other are a cycle on which every access succeeds
  (`base.py:698` against `NEWS.md:181`); `resolve`, `to_container`, `missing_keys` and `==` end
  with a RecursionError, and `resolve` leaves what it had replaced before.
* `resolve` leaves interpolations that a resolver returns inside a dict
  (`_impl.py:33` against `usage.rst:800`).
* A cached resolver that reaches the interpolation it computes replaces the value the
  inner read returned, and one that clears the cache of its config loses its own result
  (`omegaconf.py:845` and `:852` against `docs/source/custom_resolvers.rst:164` and `:186`).

Merging and updating:

* `merge_with` gives content to a None field of a readonly config
  (`basecontainer.py:460` and `:647` against `usage.rst:616`). `FlagsObeyed` speaks of leaves.
* Merging an empty list empties the list of a readonly config (`basecontainer.py:647`
  against `usage.rst:616`); a readonly target keeps its setting over a source's explicit
  one (`:747` against the comment at `:575`); a list merged over `ListConfig(None)` meets
  an assertion (`:402`).
* A missing value in a source is documented to leave the target alone
  (`usage.rst:530`); a missing container overwrites a leaf (`basecontainer.py:543`), an
  interpolation of a container is replaced by a copy (`:469`), and a readonly source with a
  missing value is refused (`:553`). `MergesOverlay` and `FailsInOrder` leave the first open
  (`MissingOverLeaf`: the leaf may stay or be missing), ask of the second only that the copy reads as
  its target did, and speak of the third as of any merge that raises.
* `update("a.b", v)` on a struct whose `a` is a leaf raises and leaves `a` an empty dict
  (`omegaconf.py:1414`). `FailureKeepsContainers` allows that, and no other loss.
* The two implementations of `split_key` differ on malformed paths such as `a[b.c`
  (`_utils.py:1448`), and full keys do not escape special characters
  (`basecontainer.py:997`). `PathsReadBack` speaks of paths written as documented, and of
  full keys that need no escape.
* `cfg.extend(cfg)` does not end (`listconfig.py:347`).

Typed values:

* Items that are configs are never checked: a `Tuple[int, int]` takes `([1], 2)`, and a
  `List[int]` and a `Dict[str, int]` take a ListConfig item, also as members of a union
  (`tupleconfig.py:512` against `structured_config.rst:355`). `ItemsTyped` exempts them.
* A `ValueNode` assigned to a union field of a class replaces the UnionNode, and the union with it
  (`basecontainer.py:826`).
* `Union[List[Any], ...]` accepts nothing on Python 3.11 and later (`nodes.py:52`).

YAML:

* A mapping that merges one key from two sources (`<<: [*a, *b]`) and is itself merged
  elsewhere is refused for a duplicate key when it is flattened again (`_yaml.py:191`
  against `test_yaml_merge_override_existing_key_with_reused_anchor` of
  `tests/test_create.py`). `LoadsAsWritten` speaks of documents that load.
* Duplicate keys that are no strings (`{1: a, 1: b}`) load silently (`NEWS.md:238`).

## 6. Plan

Done: flags with their cache and scopes, lists, dicts, interpolations, resolvers, merging,
paths and `update`, walks and equality, typed values with unions and tuples, YAML loading.
What is left, in order of importance:

1. Typed sources in `Merge` (`_update_types`, `_create_structured_with_missing_fields`), dicts
   and lists of typed elements, `list_merge_mode`.
2. The composition of `Interpolation` with `Resolvers`: nested interpolations whose inner
   reads are cached, with typed fields around the results.

Each run asks a question of its own, and a new one has to earn its place against these.

## 7. Not modelled, and why

Class introspection (`_utils.py: get_structured_config_data` and its relatives) and the
grammar (`grammar_visitor.py` outside of interpolation nodes, `grammar_parser.py`) are
functions of data without state: the models start from their results. Typed sources in
a merge would multiply the configs of `Merge` by classes and element types; the merge of
their fields is the one modelled, and the change of types is left to the plan. Scanning
YAML, the tags of its scalars and the reading of the limits from the environment are
parsing; `YamlAliases` starts from the composed graph. Serialization (pickle), YAML
dumping, command line input and error messages are formatting or I/O. Built-in
resolvers are covered by what `Resolvers` lets any resolver do. The ANTLR runtime is
third-party code; `build_helpers`, `benchmark` and `subprojects` are tools around the library.
