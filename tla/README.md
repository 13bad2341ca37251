# OSCATS in TLA+

OSCATS is a library for computerized adaptive testing: a test object asks a set
of algorithms, connected to it as signal handlers, which item to give an
examinee next, whether the item is acceptable, how it is answered and when to
stop. The library is `src/src/liboscats`, C with GObject; language bindings,
examples and documentation surround it.

The program is single-threaded. What makes it hard is not threads but *handlers*
and *state that must agree*. One loop hands control to code it does not know at
nine points per item; that code changes state the loop shares with it (the
eligibility hint, the examinee's record and estimate), and several algorithms keep
counters, sums and scratch points that must stay in step with a loop they see only
through signals. Around the loop there are data structures whose correctness is a
matter of long sequences of legal calls (bit arrays, tables of names, banks frozen
along several paths, properties set in any order, references given and taken), and
numerical code whose derivatives are written out by hand, with index arithmetic
that only shows in a second dimension.

## Inventory

| Component (source) | State | Operations | Talks to | Must be true of it |
|---|---|---|---|---|
| Bit array (`bitarray.c`) | `bit_len`, bytes, `num_set`, iterator | resize, extend, copy, set/clear/flip, range, reset, equal, compare, iterate | everything | is a set of positions below its length; the cached count is its size; an iteration returns its members |
| Administration loop (`test.c`) | `hint`; locals `eligible`, `seen_items`, `iter_select`, `iter_items`, `item_index` | `administer`, `set_hint` | handlers of nine signals | no item twice; bounds on tries and items; always ends with `::finalize` |
| Examinee (`examinee.c`) | items and responses, points by name, default names and the cached default points, covariates | prep, add_item, get/set/init theta, set default names | loop, algorithms | the record holds what the administrator recorded; the cached points are the defaults |
| Classification rates (`class_rates.c`) | counters, tree of patterns | handler of `::finalize`, queries | examinee, bit array | counters and table are those of the examinees tested |
| Stratification (`stratify.c`) | strata, iterator | stratify, reset, next | Astrat | strata partition the bank, blocks are balanced |
| a-stratified selection (`astrat.c`) | settings, `cur`, `rem`, `flag`, a stratification | handlers of `::initialize`, `::administered`; restratify | loop (hint), examinee's record | items come from the stratum whose turn it is |
| Exposure counter (`exposure_counter.c`) | number of examinees, a count per item | handlers of `::initialize`, `::administered` | loop | rates are at most 1 |
| Random pick, fixed length, simulation (`pick_rand.c`, `fixed_length.c`, `simulate.c`) | parameters | handlers of `::select`, `::stopcrit`, `::administer` | loop, examinee | the length asked for |
| Closest-item chooser (`chooser.c`) | `num`, bank, criterion, list being built | choose | Fisher, KL and difficulty selection | the choice is among the `num` closest eligible items |
| Items, banks, freezing (`item.c`, `itembank.c`, `administrand.c`) | contents, `freeze_count`, models, default name and model | add/remove item, set_model, set_default_model, freeze/unfreeze | tests | what is in a test does not change; the cached default is the default |
| Characteristics (`administrand.c`) | table in both directions, a bit array per object | register, reset, set, clear, has, iterate | bit array | an object has exactly what it was given |
| Ability estimation (`estimate.c`) | settings, prior, a scratch point `x`, the workspaces | handler of `::administered`: Newton's iteration, integrals, search of the discrete patterns | examinee's point, models | the estimate is the likeliest of what was evaluated; a failed iteration is not taken for a result |
| Information and divergence selection (`max_fisher.c`, `max_kl.c`, `closest_diff.c`) | information summed so far and its count, scratch point, prior | handlers of `::initialize`, `::select`; resize | examinee's record and point, chooser, models | the sum is that of the items recorded; each pattern is summed with its own weight |
| Latent space and points (`space.c`, `point.c`) | numbers of dimensions, maxima, names in an array and a hash table; coordinates | construct, name dimensions, compare; copy, set | models, estimators | a name leads to the dimension that has it |
| Covariates (`covariates.c`) | an array of values that grows, a tree of pointers into it | set, get, list | examinees, models | what was set is what is read |
| Item response models (`model.c`, `models/*.c`) | dimensions, covariates, parameters and their names | construct, get/set parameters, `P`, `distance`, `logLik_dtheta`, `logLik_dparam`, `fisher_inf` | points, covariates | every parameter has a place and a name; derivatives written by hand are derivatives |
| Objects: properties, references, registration (`algorithm.c`, the `set_property`, `get_property`, `dispose` and `register` of every class) | property fields, reference counts, connections | create, set, get, register, keep, drop, dispose | GObject, the test | a property reads as it was set; every reference is dropped once |
| Random numbers, integration, GSL wrappers (`random.c`, `integrate.c`, `gsl.c`) | the generator, workspaces | draws, Gauss-Hermite sums, optimisation | models, estimation | numerical; not modelled |
| Marshallers, bindings, examples, documentation, build | | | | not part of the model |

**Hard behaviours.** Handlers that run between two steps of the loop (hint changed,
item rejected or left unrecorded, nothing selected); two algorithms on one signal
in either order; state kept across examinees, tests in other spaces and
restratification; an iteration that fails half-way through a search, with a point
already overwritten; values cached and read later (`num_set`, `defaultmodel`,
`simTheta`, the summed information); properties whose setters depend on each other
and are called in the caller's order; references that connections, fields and
arrays hold, dropped in any order; limits (tries, items, quotas, ranges within and
across bytes, integer division, arrays that grow); index formulas over dimensions,
categories and covariates. There is no concurrency, no persistence and no
communication, so nothing is said about crashes, messages or timeouts.
`PROJECT.json` lists the hazards at their lines, each with the properties that
would catch it or why none does.

## Modules

    GBitArray <- BitArrays --------+           BitArrays  implements BitSet
        ^                          |
        +------ Characteristics ---+
        |       Naming ------------+-> MCTables        MCTables <- Tables_proofs
        |
        +------ ClassRates <- ClassRates_proofs
    Examinee <---+
    OscatsTest <- OscatsTest_proofs            OscatsTest implements Administration
        ^
    Stratify <- StratifyCalls --+
        ^       Chooser --------+-> MCSorting        MCSorting <- Sorting_proofs
        |
    Astrat, ExposureCounter, OscatsTest  --->  CatTest <- MCCatTest, CatTest_proofs
                                               CatTest    implements OscatsTest
    Points <- Estimate, Selection <- Adaptive <- MCAdaptive
                                     Adaptive <- Adaptive_proofs

    Arithmetic <- ItemModel <- LogisticModels, PolytomousModels, DiagnosticModels
                                      <- Models <- MCModels

    GObject <- AlgorithmClasses <- DataClasses <- Objects <- MCObjects
                                                  Objects <- Objects_proofs
    Administrands <- MCAdministrands        Administrands, Models <- Administrands_proofs

### Bit arrays: `GBitArray`, `BitArrays`, `BitSet`

`GBitArray` has each function of `bitarray.c` as an operator on a record: `data`
is the set of the positions of the 1 bits *of the allocated bytes*, so that the
padding bits past `bit_len`, which a reset to TRUE sets and a whole-byte copy or
comparison sees, are in the model; `num_set` is the cached count and is updated
as the code updates it (incrementally, or recounted over `bit_len` bits when a
range spans bytes). `byte_pos` and `bit_pos` are one number. The guards
(`g_return_if_fail` on positions) are conjuncts of the actions of `BitArrays`,
one per function; a call the guard refuses changes nothing and is no step.

`BitSet` is what users rely on: sets, sizes, iteration in increasing order, and, as
`bitarray.c:353-380` documents them, equality of values and the order of the base-2
numbers that the bits spell (`Number`). The other modules (except `Characteristics`,
which uses the detailed arrays) take a bit array as a set. What justifies that is
`RefinesBitSet`, under the usages the library has: eligibility vectors and strata
(fixed length, filled and copied), attributes of points (fixed length, copied and
compared, never filled) and characteristics (resized and extended, never filled). An
iteration may be interleaved with any other call on the array.

`RefinesBitSet` has `equal` among its calls for arrays of one bit only (the points of
a space with one attribute), where the length and the count decide. For longer
arrays `equal` does not keep its documentation: the run `bits_doc_equal` shows it
(`DocumentedEqual`). `Comparable` is the condition on a usage: no `equal` of more than
one bit, and no `serial_compare` after a fill, whose padding it would see.

### The administration loop: `OscatsTest`, `Administration`

`pc` is the signal the loop emits next (`propose`, the head of the inner loop, is
the only other value). Each emission is one action whose parameter is what the
handlers answer:

| Action | Code in `oscats_test_administer` |
|---|---|
| `Administer` | up to the first signal: a missing hint becomes all items, `oscats_examinee_prep` |
| `EmitInitialize` | `::initialize`; the item loop begins |
| `Propose` | the try counter, `goto bail` at its limit, `eligible` := hint less `seen_items` |
| `EmitFilter`, `EmitSelect`, `EmitApprove` | the three signals, the validation of the index, the end of the inner loop, `goto bail` without an item |
| `EmitAdminister`, `EmitAdministered` | the two signals and the append to `seen_items` between them |
| `EmitStopcrit` | `::stopcrit`, the condition of the outer loop and the warning after it |
| `EmitFinalize` | `::finalize` |
| `SetHint` | `oscats_test_set_hint`, at any moment |

Handlers answer anything the documentation of their signal allows: a filter
leaves any set without items already seen, a selection is an eligible item or
none, `::approve` rejects a missing item, the administrator records or not. Whether
anybody is connected to `::approve` may change from one emission to the next.
`given` is a history variable: the items `::administer` was emitted for.

`Administration` is the promise: one item at a time, none twice, at most a limit,
each administration begun is finalized once. `OscatsTest` implements it with
`phase` read off `pc`.

### The adaptive test: `CatTest` with `Stratify`, `Astrat`, `ExposureCounter`

`CatTest` assembles the loop as `examples/ex04.py` does. It is an INSTANCE of
`OscatsTest` and of the two algorithms that keep state. After the loop emits
`::initialize` or `::administered`, `pending` holds the algorithms whose handlers
have still to run; they run one by one in any order, since GObject calls them in
the order of registration and the program registers as it likes. The handlers of
`PickRand`, `FixedLength` and `Simulate` compute an answer and are part of the
step that emits. `Restratify` changes Astrat's properties and stratifies again.

`Stratify` translates the algorithm: block and stratum boundaries by repeated
integer division (`Cut`), sorted insertion (`Place`: an item goes before those
equal to it, so equal items come out in reverse order of insertion), the union over
blocks, and the iterator, which `stratify` itself leaves alone. `StratifyCalls`
is a program that does nothing but stratify.

### `Chooser`

The sorted list of at most `num` items built while visiting the eligible items
(`Kept`, the last of the lists `KeptBelow`, each of which is the one before with
one more item `Inserted`), and the random index into it. The criterion is any function to an
ordered set: Fisher information, Kullback-Leibler divergence and distance of
difficulty are instances. `MCSorting` puts `StratifyCalls` and `Chooser` beside
each other for one run; its variable `use` says which of the two, which do not
interact, an instance is about.

### Tests that adapt: `Points`, `Estimate`, `Selection`, `Adaptive`

`Points` has the space as a geometry (numbers of continuous and binary dimensions,
maxima of the natural ones) and points whose continuous coordinates are only an
origin: `start`, `zero`, `ml` (an iteration that converged), `far` (one that did
not), `eap`. It also has the nested loops over natural and binary values (`Steps`)
that estimation and Kullback-Leibler selection both write out.

`Estimate` is the handler of `::administered` in `estimate.c`: which method
(`administered`), the method begun (`BeginMLE`, `BeginMAP`), and one step per
pattern of the search (`NextPattern`, `Compare`). Whether Newton's iteration
converges and how likely a pattern is are chosen at each step. The natural
coordinate of the loop goes to `theta` and not to the point `x` that is evaluated,
as in the code. `Selection` has what `max_fisher.c` and `max_kl.c` keep between
selections; an information matrix is the sequence of what was added to it.
`Adaptive` is a program that gives the examinee a point of any space, runs tests
with one of the three selectors, rejects selections, leaves items unrecorded and
resizes workspaces when the library allows it.

### Item response models: `Arithmetic`, `ItemModel`, `LogisticModels`, `PolytomousModels`, `DiagnosticModels`, `Models`

What can go wrong in these files is not rounding but indices, signs and missing
terms. `Arithmetic` therefore replaces doubles by the integers modulo a prime and the
exponential by powers of a primitive root: the four operations are exact, an
identity between formulas holds there as well, and a formula that differs is told
apart unless the difference happens to vanish modulo the prime. Its jets are numbers
with gradient and Hessian. Each probability is written once, over jets; evaluated
over the latent dimensions or over the parameters it yields the exact derivatives
against which the formulas of the C code, translated separately, are compared.

`ItemModel` has the common part (`model.c`): which of the requested dimensions a
model keeps, its type, the layout of parameters and their names, the position at
which an entry of a gradient lands. The three modules of models have the nine
classes: 1PL, 2PL, 3PL; nominal, partial credit, generalized partial credit, graded
response; DINA, NIDA. `Models` is a caller that constructs a model, sets every
parameter through its name, and lets derivatives and information add up over
several calls, as the estimators do. `junk` is what `Pc` and `Gpc` read past the
end of their arrays.

### Names: `Naming` with `Characteristics`

`Naming` has the names of dimensions (`space.c`), an array and a hash table, where
the array is not cleared before its first use; and covariates (`covariates.c`),
whose tree holds pointers into an array that grows and may move (`block` stands for
where it is). `MCTables` runs it beside `Characteristics` and `BitArrays`.

### Objects: `GObject`, `AlgorithmClasses`, `DataClasses`, `Objects`

`GObject` is what the library uses of GObject: properties with a range, a default
and a moment at which they may be set, and references. An object is a record of
its fields, its count, whether that is floating, its connections, and the counts of
the other objects. A class is a function from property names to declarations;
`AlgorithmClasses` and `DataClasses` declare 22 classes and have the setters,
getters, `register` and `dispose` that do more than store and drop. `Objects` is
the life of one object of any class:

| Action | Code |
|---|---|
| `GiveAtCreation`, `Created` | `g_object_new` with properties in any order, `constructed` |
| `SetProperty` | `set_property` |
| `Register` | `oscats_algorithm_register` and the class's `register` |
| `Keep`, `Release`, `DropTest`, `Drop` | references of the program taken and dropped, the test disposed, and with the last reference `dispose` |
| `ReadCovariates`, `SetTheta`, `Prep`, `Record`, `SetModel`, `AddItem`, `RemoveItem`, `Resize` | the calls that hand objects over |

`asked` is a history variable, what each property was last set to. A setter that
dereferences NULL ends in `phase` `crash`.

### `Administrands`

Banks hold items and banks of lower number, the same one more than once if the
program adds it twice. Freezing walks through a bank and what is inside;
`Visits` counts how often the walk reaches each administrand. Tests are
constructed (freeze) and disposed (unfreeze) in any order, banks are edited and
models set at any moment the freeze counts allow.

### `Characteristics`

The table of registered characteristics, the arrays of all existing objects
(each a `GBitArray`), and every operation on them. `having` is a history
variable: what the program gave each object. `RegisterAgain` says whether the
program registers a characteristic that is registered already.

### `Examinee`, `ClassRates`

`Examinee` has the functions of `examinee.c` on points as operators on a record. The
points are addresses, so that `simTheta` and `estTheta` are pointers beside the
table, as in the code, and a pointer to a freed point shows. `ClassRates` is a
program that prepares an examinee (points of any space, default names, bits, copies
of points) and the `::finalize` handler of the algorithm: the choice between the
algorithm's own names and the defaults, the two checks that leave an examinee out,
the counters, and the tree. The tree is a set of nodes found by `serial_compare`;
`tested` is a history variable. `by-pattern` is TRUE; without it only the tree is
missing. A query with a point of another space, and a space without binary
dimensions, are outside the model.

## Runs

| Run | Bounds | Shows |
|---|---|---|
| `test_loop` | 3 items, 2 tries, 3 items per test | no repetition, bounds, refinement, termination |
| `cat` | 5 items, 3 settings, 2 examinees, length 3 of at most 4 items, 2 tries | strata, quotas, hint, record and counts in step |
| `adaptive` | 5 spaces, 3 selectors, 2 items per test, 2 tests, two levels of likelihood and impossible | the estimate is the likeliest pattern evaluated, information is that of the items recorded, sums over patterns stay with their weights |
| `sorting` | stratify: 5 items, two values per criterion, up to 3 strata and 3 blocks, every sequence of calls; choose: 4 items, 3 distances, `num` 1 to 3 | strata partition the bank and are balanced within blocks; the choice is among the closest, ties by index |
| `frozen_banks` | 2 items, 3 banks, 2 tests, 2 names, 1 model, each administrand once per bank | freeze counts exact, no change in a test, cached default |
| `tables` | 2 bits per byte; 2 arrays up to 3 bits (filled, or compared), 2 of one bit (also tested for equality), or one up to 5 (growing); 3 dimensions and names; 3 covariates, 2 moves of the array; 2 objects, 3 characteristics, 3 registrations between resets | count exact, arrays implement sets; names found, values read back, membership and iteration exact |
| `class_rates` | 2 names, 3 addresses, spaces of 1 and 2 attributes, 2 examinees, every combination of default and own names | cached points, counters and pattern table exact |
| `models` | 9 models, 8 requests for dimensions, 3 lists of covariates, 3 situations, 2 calls | parameters have places and names, probabilities sum to one, derivatives are exact |
| `objects` | 22 classes, two objects of each kind an object refers to, 3 values other than the defaults, arrays of 2 | properties read as set, references exact, quotas fit strata |
| `bits_doc_equal`, `objects_doc_mu`, `models_doc_gradient` | two arrays of 2 bits; as `objects` (two classes); as `models` (one call) | violations, see Findings |

**Why the bounds are enough.** A byte of 2 bits has all the cases of 8: a range within
a byte, ending at its end, spanning two, spanning a whole byte in between (5 bits
is three bytes), a last byte with and without padding. Three items with limit 3
let a test end by its criterion, its maximum, its tries and a missing item; two
tries are a first and a last one. Five items do not divide by 2 or 3, so each
division has a remainder, also nested; 2 strata with 2 blocks and 3 with 2 are
both there, and quotas of 1 and 2 make the last item of a quota differ from the
first. Two examinees are one before and one after. Three banks give a chain, a
diamond (3 holds 1 and 2, 2 holds 1) and a bank on its own; two tests overlap or
not. Two names that may each be any default, or both at once, give every case of the
four pointers of `Examinee`; two examinees are the one the counters take their
length from and one that fits or does not, has the same pattern or another.

The five spaces of `adaptive` have continuous dimensions alone, with one attribute
and with two, one attribute with a natural dimension, and two natural dimensions:
each of the two nested loops is faked, has one round and has several. Two items
are one that makes the method a posteriori (`Nposterior` is 1) and one that does
not; two tests are enough for state left over from another space. Two positive
likelihoods have a larger, an equal and a smaller one.

The requests of `models` are none, two dimensions out of order, one listed twice, an
invalid one among others, only an invalid one, binary ones, and types that differ.
Three situations have positive and negative coordinates, attributes that are all,
partly and not mastered, and a covariate of 0. Two categories besides the first are a
first and a last boundary (and the fewest there may be), and two calls show that derivatives add up. The prime is
251: a difference of two formulas vanishes by accident about once in 250, and each
is evaluated at up to three points for every model.

Three values in `objects` let three properties be set out of their usual order, or
one be set three times; two objects of a kind let one be replaced by the other, or
by itself. Matrices have two sizes. `frozen_banks` has symmetry: its actions and
invariants do not distinguish items or tests.

`tables` has four components that do not interact: the bit arrays, the dimensions,
the covariates and the characteristics. One is explored while the others are as they
were created: a program that uses arrays of its own leaves the tables alone (the
tables change when its usage is `Unused`), and the constraint `OneAtATime` lets one of
the three tables change. A state of a component is cut off only together with another
component that has moved, and no property relates the two, so that nothing is lost.

Bounds that are not parameters of the code: `MaxLen` and `longest` (array length),
`MaxParts` (strata), `MaxExaminees`, `MaxCopies`, `MaxRegistered`, `MaxMoves`,
`MaxCalls`, `MaxItems` and `MaxTests` of `Adaptive`, `MaxGiven` and `MaxListed`, the
addresses, and the sizes of the sets. Deadlock is checked except in `models`, whose
caller stops after `MaxCalls`, and `objects`, where an object that is gone with
everything it was given, or a program that crashed, does nothing more.

**Fairness.** `FairSpec` of `OscatsTest` is weak fairness of `Step`, the loop's own
steps taken together. The loop is straight-line synchronous code and continues as
soon as a handler returns; handlers returning is the contract of a signal. Calls of
the program (`Administer`, `SetHint`) are not fair. Hint changes may come between
any two steps but cannot disable the loop, so weak fairness is what the code has.
`EveryTestEnds` would fail if a rejection did not use up a try. The other modules
have no liveness: their calls are loops over finite arrays and return.

**What the properties say.** They relate state kept in different places.

- `ItemsFromTheirStratum` derives the stratum an item must come from out of the
  record alone, and compares it with what Astrat's counters, iterator and hint led
  to; `QuotasInStep` is the invariant behind it; `StratumSuffices` says a stratum
  as large as its quota never leaves a selection without an item.
- `FreezeExact` recomputes every freeze count from the tests that exist, and
  `Counted` every reference count from the fields, arrays and connections.
- `StratifiedWithinBlocks` is a declarative definition of a stratification that the
  algorithm has to meet.
- `EstimateIsLikeliest` holds across a maximum likelihood search that was given up
  half-way; natural dimensions are excepted, see Findings. `InformationExact` holds
  across rejected selections, items left unrecorded, other spaces and resizing.
  `EveryPatternSummedOnce` says what of it holds for which spaces.
- `ThetaDerivativesExact`, `ParamDerivativesExact` and
  `InformationIsVarianceOfScore` compare two derivations, the jets' and the code's.
  The formulas known to be wrong are named in `RightDparam` and excepted there only.
- `ReadsAsSet` says in `Promised` what reading a property back yields, with the
  defaults the constructors provide. Two properties have no working reader and are
  outside (`Readable`). `Counted` excepts the vectors of prior probabilities, to
  which the setters take no reference.

Every property of a passing run has a mutant, a "Broken" operator beside the real
one, that makes it fail.

## Proofs

Eight modules hold theorems, about `OscatsTest`, `CatTest`, `MCSorting`
(stratification and choice), `ClassRates`, `MCTables`, `Objects`,
`Adaptive`, and `Administrands` with `Models`.

`OscatsTest_proofs` proves for every bank size, every `ItermaxSelect` and
`ItermaxItems` greater than 0 and every `Approving`:

| Theorem | Statement |
|---|---|
| `TypeCorrect` | `Spec => []TypeOK`, so the NULL item is never administered |
| `NoRepetition` | `Spec => []NoItemTwice` |
| `BoundedLength` | `Spec => []ItemsCounted` |
| `BoundedTries` | `Spec => []TriesCounted` |
| `Refinement` | `Spec => RefinesAdministration` |

The assumptions are those of the module: `NumItems`, `ItermaxSelect` and
`ItermaxItems` are positive (the ranges of the GObject properties and the check at
the head of the function), `Approving` is a set of Booleans.

`NoItemTwice` is not inductive. An item is taken out of the eligible ones at
`Propose`, and enters `seen_items` four signals later; in between handlers replace
the hint and rewrite the eligible items. `IInv` adds what carries the fact across:
`EligibleUnseen` (eligible items, then the item proposed, then the item to be
administered have not been seen), `SeenIsGiven` (the array of the code is the
history), `HintReady` (the loop never runs without a hint) and `WarnedAtEnd` (a
warning is logged only on the way out, which `ItemsCounted` and `TriesCounted`
need at the loop's exits). Each part has its own step lemma with one case per
action; `Step` of the loop lets a filter return any set without items seen, which
is the weakest contract under which the invariant is inductive. The refinement
maps `EmitAdminister` to `Give`, the ways out to `End`, `EmitFinalize` to
`Finalize` and the rest to stutters, using the invariant for the guards of `Give`.

`Sorting_proofs` proves, for every bank, all criteria over integers and all numbers
of strata and blocks:

| Theorem | Statement |
|---|---|
| `StrataPartitionAlways` | `Spec => []StrataPartition` |
| `StratifiedWithinBlocksAlways` | `Spec => []StratifiedWithinBlocks` |
| `AmongClosestAlways` | `SortingSpec => []AmongClosest` |
| `EarlierOfEqualAlways` | `SortingSpec => []EarlierOfEqual` |

The assumptions are that the bank has an item and that the values of the criteria
are integers, which stand for the order of the doubles. Almost everything is about
operators. `Cut`, the repeated integer division that places the boundaries, is a
recursive function: `CutExists` builds it by induction, `CutEquation` takes the
recursion from there, and the lemmas `CutInside`, `CutSteps`, `CutMonotone`,
`CutCovers`, `CutSeparates` and `CutEven` say that the cuts begin at 0, end at the
size, never go back, put each position in one part, and make parts whose sizes
differ by at most one. The induction is a lemma about sets of natural numbers,
which follows from the well-foundedness of `<`. `Place`, the position of an item in
the sorted sequence, is a cardinality: `PlaceInjective`, `PlaceSorts` and
`PlaceCounts` say that it is a bijection that respects the criterion. With these
blocks partition the bank, shares partition a block, strata are unions of one share
of each block, and sizes and order follow (`BlocksEven`, `SharesEven`,
`BlocksInOrder`, `SharesInOrder`). The invariant `SortedInv` only adds that the
strata are those of some number of strata and the blocks recorded, whatever was
stratified before.

For the choice the work is in one statement about the list when the items below `n`
have been visited (`Nearest`): it has at most `num` items, all of them visited; it
is sorted, closer items first and of equals the one visited first (`Precedes`); and
a visited item that is not in it comes after all of a list that is full.
`InsertedIsNearest` carries it from `n` to `n + 1`, in the three cases that an item
is inserted, appended, or pushes the last one out, and `KeptIsNearest` to all items
by induction, since `KeptBelow` is a recursive function with existence and equation
like `Cut`. What precedes an item of the list is then in the list in front of it
(`FewAhead`), so that it is fewer than `num`, which is both properties; that the
list is full when there are `num` eligible items is `KeptIsFull`. The assumption
on the program is that the criterion is a number for every item and `num` is
positive, as its property has it.

`CatTest_proofs` is about the loop together with its algorithms, for every bank,
every set of settings, lengths, numbers of examinees and answers of the handlers:

| Theorem | Statement |
|---|---|
| `TestIsATest` | `Spec => RefinesTest` |
| `PromisesKept` | `Spec => [](NoItemTwice /\ ItemsCounted /\ TriesCounted)` of the loop |
| `ExposureRates` | `Spec => []RateAtMostOne` |
| `LengthAsAsked` | `Spec => []FixedLengthHeld` |
| `QuotasStayInStep` | `Spec => []QuotasInStep`, if `RestratifyAt \subseteq {"idle"}` |
| `ItemsFromTheirStrata` | `Spec => []ItemsFromTheirStratum`, if the same |
| `NoStratumStarves` | `Spec => []StratumSuffices`, if the same |

`LoopAssumption` and `SettingsAssumption` of `CatTest` are what they rest on: the
ranges of the GObject properties, at least one quota and each of them positive
(`astrat.c` declares its quotas from 1), parameters for every item. The last three theorems have the
hypothesis that the program restratifies between tests. It is needed: a
restratification within a test leaves the iterator where it was (see Findings), and
nothing in the library prevents one. The run `cat` has the same restriction.

The argument has four layers.

- `Base` is the invariant of the loop, taken over from `OscatsTest_proofs` as an
  instance, and `AstratOK`, that the strata are those of a setting and that the hint
  is inside the bank. Under it each step of `CatTest` is a step or a stutter of the
  loop (`Simulation`): a handler of Astrat that runs after the emission is a call of
  `set_hint`. In turn the loop's invariant is preserved because each step is one of
  the loop.
- `RateInv` says for every item how often it may have been counted: once for each
  examinee before, and once more when it is in the record of this one and the
  counter has run. While the counter's handler of `::initialize` is pending, the
  number of examinees is one behind. `LengthInv` bounds the record by the length at
  each signal.
- `QuotaInv` has `InStep`: after the handlers have run, the stratum, what
  remains of its quota, the iterator and the hint are those of the number of items
  recorded, by the partial sums of the quotas (`Upto`); while Astrat's handler is
  pending they are those of the number before. One lemma for each of the handlers, whose
  cases are a quota used up, the last stratum, and neither. `Upto` is a recursive
  function too, with existence and equation as above.
- `StratumInv` carries this to the items: eligible items are of the hint
  (`FromHint`), the items recorded are counted along the history
  (`PlacesCounted`), and every item given was in a stratum whose turn it was
  (`FromTurn`). `NoStratumStarves` then counts: the items given that lie in the
  stratum of the turn are fewer than its quota, since strata are disjoint, which is
  a lemma of `Sorting_proofs`.

The operators of `Stratify` are reached along two paths, as the algorithm's and as
those of the lemmas, and lemmas such as `SameStrata` say that they are the same. The
instance of `Sorting_proofs` gives dummy values to the parameters and variables of
the program in `MCSorting`, which its lemmas about operators do not mention.

`ClassRates_proofs` proves, for any names, spaces, numbers of points and of
examinees:

| Theorem | Statement |
|---|---|
| `DefaultPoints` | `Spec => []ThetaCached` |
| `RatesExactAlways` | `Spec => []RatesExact` |
| `PatternsCountedAlways` | `Spec => []PatternsCounted` |

The assumptions used are that both default names are names, that the quark 0 is
not, that the algorithm is given names that exist or none, that a space has a
dimension and a byte a bit. The invariant of the points (`IInv`) says which fields
an examinee has, that the points that exist are those under a name (`PointsOwned`),
and that each cache is the entry of its key (`DefaultsFollow`); the second is
what turns an entry of the table into a point that has not been freed. `BinType`
adds that no point has a padding bit set, without which two equal patterns would be
two nodes of the tree. `CountersInv` states the counters by the history: `CountOf`
is the number of the tests of `n` attributes with an outcome in a set, each counter
is `CountOf` of one set of outcomes (`Rates`), each node of the tree of two, and a pattern
that no node has is one that no examinee had (`Tree`). One test more adds one to
`CountOf` or nothing (`CountMore`); that the handler adds one to exactly these
counters is `RatesMore` and `TreeMore`. The first test is a case of its own,
since the counters are allocated for its number of attributes (`AllocatedFacts`).

`Tables_proofs` proves, for every number of dimensions and all sets of names,
covariates, values, objects, characteristics, arrays and lengths:

| Theorem | Statement |
|---|---|
| `NamesAgreeAlways` | `Spec => []NamesAgree` |
| `ReadBackAlways` | `Spec => []ReadBack` |
| `HasWhatWasSetAlways` | `Chars!Spec => []HasWhatWasSet`, if `RegisterAgain = FALSE` |
| `IterationCompleteAlways` | `Chars!Spec => IterationComplete`, if the same |
| `NumSetExactAlways` | `Lib!Spec => []NumSetExact` (`Lib` is `BitArrays`) |
| `ArraysAreSets` | `Lib!Spec => RefinesBitSet`, if every usage is `Comparable` |

The invariant of the space (`SpaceInv`) says that each entry of the table leads to a
named dimension that has its name, and that without a clash each named dimension
has its entry. The step that matters is `NameDim`, which removes whatever was under
the old name, also what it finds in memory that was not cleared; both loops and
the single call use one lemma about it. The invariant of the covariates (`CovInv`)
adds that no pointer lies further than the length of the array and that they
differ, so that writing through one leaves the others' values, and that an addition overwrites one
position, that of the covariate `kept` loses. The assumption used is that the
constructor has a name for every dimension.

For the characteristics the hypothesis is that none is registered twice, which is
needed: registering one again moves it (see Findings), and the run `tables` has the
same restriction. The invariant (`CharsInv`) has two parts: the hash table and the
array of quarks are inverse to each other, with the quark 0 at place 0
(`TableInv`), and each administrand's bit array has the length of the table and the
bits at the places of what it was given (`ArraysInv`), padding and place 0 clear.
The calls of an iteration are a recursive function (`Steps`) with existence and
equation as above; after `k` calls that found something, everything up to some
position not below `k - 1` has been returned (`Going`, `GoingOn`), so that the
iteration ends within the length of the array and one call, and has then returned
everything.

For the bit arrays the assumption `Unmixed` says that a program that extends arrays
neither fills nor copies any, and that one that copies does not resize them. It is
needed: filling and copying go by bytes and leave bits past the length, which
`extend` shows as members, and `copy` between arrays of different lengths keeps
that of its target (see Findings). It is an assumption of `MCTables` on the
constant `Usages`, which TLC evaluates for the usages the library has, as it does
`Comparable`. The latter is a hypothesis of `ArraysAreSets` and not of the theorem
about the count, since comparisons change nothing. The invariant (`BitsInv`) says that
each array is `Sound` (its bits lie within its bytes, the cached count is the number
of those below its length), that there is no padding (`Tight`) in a usage that does
not fill, that all lengths are equal in one that copies, and that an iteration under
way is inside its array. That the sign of `serial_compare` is the order of the numbers
(`ComparesNumbers`) follows from `NumberOrder`: two sets that agree above a position
that only one of them has are ordered by it, since what a set spells below a position
is less than what that position is worth. `SetRangeLeaves`, `ResizeLeaves` and their like say what each
function does to data and count, however a range lies across bytes; one step
lemma for each call then gives the invariant and the step of `BitSet` it
implements.

`Objects_proofs` proves, for all objects, values and bounds:

| Theorem | Statement |
|---|---|
| `QuotasFitStrataAlways` | `Spec => []QuotasFitStrata` |
| `CountedAlways` | `Spec => []Counted` |
| `ReadsAsSetAlways` | `Spec => []ReadsAsSet` |

The three properties of the first are set by three setters in any order. The invariant (`AstratInv`) adds that `equal` is set once, at
creation, and that quotas are not set before creation is over (`Creating`), so that
the number of strata given at creation cannot come after them. Every other action
has to leave the fields alone, which lemmas say of registration (`RegisterSame`)
and of disposal (`DroppedSame`).

`Counted` is about every class at once: what each of its setters, methods,
registration and destructor takes and drops. The invariant (`CountInv`) has, besides
the equations of the property (`Accounted`):

- `Sound`: an object has exactly the fields of its class, of which those for objects
  hold one of the right kind or NULL, and the references to each other object are
  the fields and places in arrays that hold it (`Referrers`), plus those from outside
  (`Owned`: the program's, and the test's to its bank);
- the factor of `Sigma` in `max_kl` and `estimate` is computed from a matrix, and is
  not an object (`HasFactor`);
- an algorithm that no test has registered has no bank, and a test no bank before
  it is given one at creation. Registration and the setter of the bank store over
  the field without dropping what was there, so that the counts are right only if
  they run once.

There is one lemma for each of the setters, for registration (`Registers`) and for
the destructors (`Disposes`), over primitives of GObject of which each moves the
field and the count together (`FieldMoves`, `ListMoves`). A count that is decremented
stops at 0 in the model; that it is positive whenever the code decrements it
(`ReferredIsThere`) is part of the proof. `ValuesAssumption` says that a property
that is no object is given no object, that a value a method makes (a copy, a
factor) is none of those that exist, and that lengths are natural numbers. Vectors
of prior probabilities are excepted, as in the property.

`ReadsAsSet` relates a getter to the last call of a setter, however long ago it was.
The invariant (`ReadInv`) says what the fields keep of each value asked for (`Kept`):
the value itself, a quark or an identifier; one less for `Ncat`; a copy; a Cholesky
factor, unless it was decomposed twice. Four properties depend on others and are why
it is not inductive property by property:

- `Nstrata` is kept only without quotas, and once quotas were asked for there are
  some, of as many strata;
- `Nitems` is refused for equal strata, which `equal` decides at creation: that the
  field `equal` still is what was asked is part of the invariant, and so is `numNat`
  for `max`;
- `dims` is as asked until the object is constructed, and the first dimension from
  then on if none was asked for; what `SpaceConstructed` writes to `max` and
  `ExamineeReadCovariates` to the covariates are values that nobody asked for;
- the setter of a model's covariates does nothing for NULL, and so relies on a field
  that is still zero, which `ReadInv` says of all that is left to be set.

`Takes` describes each setter by what it leaves, one lemma per class; the lemmas after
it show that this is what is kept of the property (`TakesKept`) and disturbs no other
(`OthersKept`). Registration, references and arrays move fields that no property has
(`RegisterReads`, `ReadFrame`), and a destructor runs only when the object is gone
(`DroppedReads`). `UnsetAssumption` says that the mark for "never set" and the NULL
pointer are none of the values.

`Adaptive_proofs` proves, for any spaces, likelihoods, numbers of posterior
iterations and bounds:

| Theorem | Statement |
|---|---|
| `InformationExactAlways` | `Spec => []InformationExact` |
| `EstimateIsLikeliestAlways` | `Spec => []EstimateIsLikeliest` |
| `EveryPatternSummedOnceAlways` | `Spec => []EveryPatternSummedOnce` |

The first is about three objects that share only the signals: the estimator moves
the examinee's point, and the two selection algorithms sum, at the estimates they
find there, the information of the items recorded since they last looked. The
property speaks of one moment, before an item is administered. The invariant has two
parts:

- `ThetaInv` says where the point may be between signals: only a search in progress,
  or an iteration that failed (`lost`), leaves coordinates that no iteration settled
  on; a search that finds nothing possible has given up, and then `lost` holds.
- `MatrixInv` says what the matrices hold between selections: each allocated matrix
  the first items, in order and without a gap (`FirstItems`, `Summed`), of which all
  are there once an item is selected; the algorithm that does not select has
  none; and once a criterion was evaluated the workspaces fit the space
  of the point, so that they are not allocated again, and the sum lost, mid-test.

It uses of the assumptions only `Nposteriors \subseteq Nat`, and the pattern that a
search moves to next is opaque to it.

`EstimateIsLikeliest` speaks of the end of a search that takes many steps, may be
given up and begun again by another method, and works on two points of which only
one is the examinee's. Its invariant (`EstimateInv`) adds to the above what a search
has found at every step (`Found`):

- the largest likelihood met is that of something visited, and where there are no
  natural dimensions the examinee's point is where it was met (`Maximal`); with one
  attribute the first step has met one of its values and the second the other
  (`InTurn`);
- once something possible was met, the examinee's continuous coordinates are from an
  iteration that converged or an integral; so are those of the scratch point when
  they were estimated once and for all, before the search (`Settled`);
- a point has no coordinates its space has no dimension for, the scratch point of an
  earlier test included (`Clean`), so that what a step evaluates is a pattern of the
  space.

A search that fails half-way starts the second one with nothing visited, and has to
leave both points so that these hold again (`BeginMAPFinds`). That likelihoods and
numbers of dimensions are natural numbers, and that a space has some dimension, is
assumed. `StepsAre` says what the nested loops go through when there is no natural
dimension.

`EveryPatternSummedOnce` is about a scratch point that no sum puts back. Its invariant
(`KlInv`) adds that the point is always one of the space that was allocated, whatever
its coordinates (`ScratchFits`): a criterion leaves it where its sum ended, and that is
a point of the space because the sum evaluates at least one (`KlCriterionFits`). The
rest is about what the loops compute:

- `FlatElements` and `FlatRows` say what a sequence of sequences is when flattened, and
  with them `StepsAll` that the steps are all pairs of a natural and a binary value;
- `SummedIs` says that the points evaluated are a trail of those steps, each moved from
  the one before, and `StepSetsAll` that with at most one dimension of each kind the
  step alone decides the coordinates, so that it is irrelevant where the trail began;
- `StepsFit` compares the number of steps, which is the sum of the natural
  dimensions' values times twice the number of binary ones, with the length of the
  prior, which is a product. `WeightsExist` gives sums that do not depend on the order
  they are taken in, `ProductsBound` that a product of numbers above 1 is no less than
  their sum, and `PowerOfTwo` that twice a number is no more than its power of two,
  counted as the subsets of a set. The numbers are above 1 because the least maximum
  of a natural dimension is 1 (`SpacesAssumption`, `space.c:155`).

`Administrands_proofs` proves, for any items, banks, names and models and any finite
set of tests:

| Theorem | Statement |
|---|---|
| `DefaultCachedAlways` | `Spec => []DefaultCached` |
| `FreezeExactAlways` | `Spec => []FreezeExact` |
| `NothingChangesInTestAlways` | `Spec => NothingChangesInTest` |
| `EveryParameterNamedAlways` | `IrtSpec => []EveryParameterNamed` (`Models`) |
| `ProbabilitiesSumToOneAlways` | `IrtSpec => []ProbabilitiesSumToOne` (`Models`) |
| `DistanceIsLogOddsAlways` | `IrtSpec => []DistanceIsLogOdds` (`Models`) |

The last three are about the models of the items, for any space, dimensions,
covariates, categories and parameters. For the first the invariant adds that an item's default name is a name, for which
the assumption on `DefaultName` is needed. The others are about the walk over nested
banks. `Visits`, how often a bank reaches each administrand, is a recursive function
over the banks, and the freeze counts are sums over the tests: `SumExists` to
`SumSame` say what a sum over a finite set is, and `VisitsExist` to `VisitsSame`
that the walk has its equation and depends only on the banks it reaches. The
invariant (`FreezeInv`) says that banks hold administrands in natural numbers, that
a test has a bank or none, and `FreezeExact`. It is inductive because an edit needs
a count of 0: a bank with that count is reached by no test, so that the edit leaves
what every test reaches (`FrozenSame`); and disposal subtracts what creation added,
so that the code's test for a positive count before it subtracts never refuses. Then a bank or an
item a test uses has a count above 0 (`InTestFrozen`), every edit is refused for
it, and a change of the default model, which walks over the items that are not
frozen, leaves it out (`UnfrozenFacts`).

For the parameters of the item response models the assumption (`CallerAssumption`)
is that dimensions and covariates are arrays and that there are two categories or
more above the first (`pc.c:83`). The layouts are loops that write names one after the
other: `NamesFollow` says that `n` names written from index `m` on complete the names
of the first `m` parameters, and each constructor is a chain of such steps, for the
discriminations of the nominal model an induction over its dimensions
(`NominalUptoNamed`). That the number of dimensions is one is a fact about the loop
that deletes the invalid ones (`KeptDimsAre`). The invariant (`NamesInv`) is kept by
calibration because it goes through the names, in whatever order (`SettingKeeps`), and
`set_param` writes values only.

The probabilities and distances are numbers modulo `Prime`. Assumed of it is that it
is above 1, that every number other than 0 has an inverse and is a power of the root
(`PrimeAssumption`, `Inverses`, `PrimitiveRoot`), and that the exponential turns a
sum into a product (`Exponential`), which is all that is used of `exp`.
Otherwise it is assumed that the dimensions of a type are numbered from 0
(`SpaceAssumption`, `space.c`), and that coordinates, covariates, parameters and
what is read past an array's end are numbers (`SituationsAssumption`). The invariant
(`NumbersInv`) adds to `NamesInv` that a model with dimensions is usable (`Usable`):
it has as many parameters as its kind reads (`SizeOf`), all of them numbers, and a
coordinate for each dimension it kept; and that only such a model is calibrated.
Without it a formula could read past its parameters, and nothing could be said of its
value. `PointNumeric` draws from it what is read at a point.

- `Remainder` to `SamePlain` are the arithmetic: being the same modulo the prime is an
  equivalence that sums and products respect, derived from division with remainder.
- `ReciprocalIs`, `ExpIs`, `LogisticHalves` and `LogisticOdds` say what the logistic
  function is: at `z` and `-z` it adds up to 1, and its odds are `exp(z)`.
- `SumTakes` to `SumTelescopes` are about sums over the categories: a common factor
  (the denominator of the models with a softmax, `SoftmaxSum`), and differences of
  consecutive terms (the graded response model, `GrSum`). The product of `NidaSum`
  has its equation by induction over the dimensions (`ProductExists`).
- `PointSum` has one case for each of the nine kinds, and `LogisticDistance` and
  `GuessingDistance` are the two forms of the distance.

A point where a probability, or the 3PL's function before guessing, vanishes modulo
the prime is not among `Points`: there a denominator of the formulas may be 0, which
doubles avoid since an exponential is positive.

Only model-checked: `EveryTestEnds` (liveness is out of the prover's reach) and three
properties of `Models`: `ThetaDerivativesExact`, `ParamDerivativesExact` and
`InformationIsVarianceOfScore`. They equate, entry by entry, gradients and Hessians
of jets that went through sums and quotients of as many terms as there are
categories with the sums of products the code writes out by hand, some of them
quadratic in the number of terms; for each of the nine kinds that is an induction
over terms of its own, in arithmetic that is not linear.

## Findings

Three violation runs show where the code does something else than its documentation
says:

- `bits_doc_equal`: two arrays of the same length with equally many bits set are equal,
  whichever they are, since `g_bit_array_equal` compares the bytes of `lhs` with
  themselves (`bitarray.c:368`; the documentation, line 359, has "the same value").
  `oscats_point_equal` inherits it (`point.c:210`). In the trace, {0} equals {1}.
- `objects_doc_mu`: the mean of the prior cannot be set. When `mu` is NULL, as it is
  at first, the setter reads `self->mu->size` (`estimate.c:253`; so does
  `max_kl.c:345`).
- `models_doc_gradient`: the derivatives in the parameters are not those of the
  log-likelihood for graded response (`gr.c:425`, also 413, 429 and 430: a category
  is compared with the number of covariates), partial credit (`pc.c:348`,
  `gpc.c:418`: stored at the index of the dimension) and, for responses attributed
  to guessing, DINA and NIDA (`dina.c:142`, `nida.c:146`).

Seen while modelling, and modelled as the code has it or kept out of the usages of a
module:

- *Bit arrays.* After a fill,
  `extend` shows padding bits as new bits (`bitarray.c:118`) and `serial_compare`
  tells equal arrays apart by them (`bitarray.c:388`); `copy` keeps the length of its
  target when both have as many bytes (`bitarray.c:154`).
- *Selection.* `oscats_alg_chooser_choose` never returns the farthest of the `num`
  closest items (`chooser.c:266`). `oscats_alg_astrat_restratify` does not rewind the
  iterator (`astrat.c:521`), which within a test puts the strata out of step. The
  message about `Nstrata` names the wrong value of `equal`.
- *Characteristics.* Registering one again moves it to a new position and takes it
  from every object that has it (`administrand.c:285`). The comparison of
  administrands by address is truncated to `int` (`administrand.c:41`).
- *Estimation.* The natural coordinate of the search is written to `theta` and not to
  the point evaluated (`estimate.c:471`, `estimate.c:590`), so that natural dimensions
  are never estimated. Clearing and setting one bit after the other visits 2K of the
  2^K patterns of K binary dimensions. An iteration that fails, or a search in which
  every pattern is impossible, leaves the point where the iteration got to. The sum
  over patterns in `max_kl.c:499` has the same loop, begins where the last one
  ended, and so weighs other patterns than its documentation says when there are
  several discrete dimensions; `alloc_workspace` alone does not restart the count
  of items summed.
- *Objects.* `Dprior` is stored without a reference and dropped with one
  (`estimate.c:279`, `max_kl.c:371`); disposal of an estimator with `Sigma` drops a
  GSL vector as if it were a `GObject`; a `Sigma` of another size is refused, but the
  old matrix decomposed again; the getter of `Nitems` copies to a value that is not
  initialised (`astrat.c:333`); `independent` is declared with default TRUE and
  starts as FALSE; registering an algorithm twice leaks its bank; a test's identifier
  is never freed.
- *Spaces and covariates.* Exchanging the names of two dimensions loses one
  (`space.c:384`), and the constructor looks up names in uncleared memory. A
  covariate's pointer is one past the value just appended (`covariates.c:141`), so
  that the first value read is whatever is there. Lowering `max` leaves points above
  it.
- *Models.* Partial credit models sum covariates up to the number of parameters
  (`pc.c:199`, `gpc.c:210`); the distance of the nominal model keeps the maximum in a
  variable named for the minimum; a model takes its type from the first dimension
  asked for, even if that is not valid (`model.c:267`).
- *Elsewhere.* The constructor of the heterogeneous graded response model writes to
  `names[(guint)0-1]` (`hlgr.c:116`); sampling without replacement has its guard
  inverted (`random.c`); the integration grid without a covariance scales by `c`
  instead of its root (`integrate.c`); an array of no bits cannot be iterated
  (`bitarray.c:427`), and a space without binary dimensions has no histogram
  (`class_rates.c:193`).

## Not modelled

- The heterogeneous graded response model (`hlgr.c`): its constructor writes far
  outside of its array, so that no state after it is one to reason about.
- Random numbers, integration, optimisation, the GSL wrappers: numerical code.
  Estimation and selection take their results as parameters; the responses
  themselves are drawn nowhere in the models.
- Rounding, and points where a probability is zero.
- Changing Astrat's `Nitems` between registration and restratification, which the
  documentation asks for; lowering `max` of a space; registering an algorithm twice.
- Queries that change nothing (`check_*`, rates as quotients, comparison and vector
  view of points).
- The Java binding keeps objects alive by references of its own that a finalizer
  exchanges from strong to weak. Reading it shows that its hand-written constructor
  does not sink a floating reference, that nothing runs the idle handlers that drop
  the first references, and that the notification of a finalizer may arrive after
  that of a new reference. It is the one concurrent part; it is not modelled since
  what the virtual machine does is outside this code.
- The generators of the Perl, PHP and Python bindings, marshallers, examples,
  documentation and build files.

## Plan

Done: bit arrays, the loop, the adaptive test, choice and stratification, banks and
freezing, names, characteristics, examinee and class rates, estimation and
selection, item response models, objects; eight modules of theorems. Next, in this
order:

1. `Adaptive` as an implementation of `OscatsTest`, with `CatTest` and the estimator
   in one test.
2. The references of the Java binding, with the collector as an environment.
