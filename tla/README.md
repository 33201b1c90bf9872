# TLA+ verification of OctoCore

This directory holds a TLA+ model of OctoCore (`src/OctoCore/`), a C++ library for
command-sourced application state with undo and redo. It contains:

- TLC configurations that model-check the model on small instances;
- TLAPS proofs of the results that hold for every instance;
- `PROJECT.json`, the machine-readable index: components, runs, mutants, the map
  from definitions to source lines, findings, hazards and theorems.

## 1. The system

| Part | Source | State | Operations |
|---|---|---|---|
| State | `State.h`, `src/State.cpp` | the domain model (subclass members), `m_session_id`, `m_next_object_id`, the deques `m_undo` and `m_redo` of `CommandRecord {command_id, args, result}` | constructor, `getNextObjectId`, `runCommand`/`_runCommand`, `undo`, `redo`, `canUndo`, `canRedo` |
| CommandRegistry | `Command.h` 233-307 | `m_entries`: command id ↦ (forward, backward) function pointers | `registerCommand` (throws on a duplicate id), `getCommand` (nullptr if absent), `Registration::forward/backward` |
| CommandBase / Command | `Command.h` 14-230 | `m_command_id`, `m_args` (shared map, copy-on-write) | `args()`, `argsMutable()`, ArgField accessors, `acceptStatePtr` (a `dynamic_cast`) |
| ResultBase | `Command.h` 94-109 | `m_data` (shared map), `m_is_mutable` | `setResultField` (throws CommandResultMisuse if read-only) |
| FieldHash | `FieldHash.h` | none (a loop over the literal's chars) | `operator"" _octo_field_name_hash`: FNV-1a of a field name at compile time |
| Exceptions | `Exception.h` | none | StateException, InapplicableCommandException, CommandWillNotApplyException, CommandResultMisuseException |
| DataTypes | `DataTypes.h` | none | `wrap`/`unwrap` between C++ values and the protobuf `GenericValue` |
| Test and benchmark states | `src/State_test.cpp`, `src/State_benchmark.cpp` | FoodOrders, BasicState (employees), DataTypesState (key-value store), the plant hierarchy, InventoryState | the commands registered for each |

How the parts interact:

- `runCommand(cmd, allowUndo)` looks up `cmd.commandId()` in the State's registry. It raises
  InapplicableCommand if the id is absent.
- Otherwise it calls the entry's `forward` with the command's shared args, a fresh result map
  and `mutableResult = true`.
- `Registration::forward` `dynamic_cast`s the State to the command's State type. It raises
  InapplicableCommand if the cast fails. Otherwise it re-creates the command over the same
  args and runs its `forward(state, result)`.
- Only when that call returns, and only when `allowUndo` is true, the record is pushed on
  `m_undo` and `m_redo` is cleared.
- `undo()` pops the last record of `m_undo` first, then calls `backward`. Only if that
  returns is the record pushed on `m_redo`.
- `redo()` pops the last record of `m_redo` first, then calls `forward` with the recorded
  result and `mutableResult = false`. Only if that returns is the record pushed on `m_undo`.
- Commands that mint object ids call `getNextObjectId()` from inside `forward`. Replay must
  find the id in the recorded result instead of minting a new one.
- Nothing rolls back. An exception leaves the domain model as the command left it.

What makes this code hard to test:

- **Steps in an unexpected order.** Many behaviours appear only after a particular sequence
  of calls: a record that fails on replay, redo after a non-undoable run, id exhaustion
  midway through a batch.
- **Pop before call.** undo and redo remove the record before calling the command, so an
  exception loses the record.
- **A counter shared across threads.** It is atomic except in the EMSCRIPTEN build.
- **Bit arithmetic on the 64-bit id.** It involves the session shift, the sign bit, the
  exhaustion check and the constructor's range check.

## 2. Modules

| Module | Models | Kind |
|---|---|---|
| `OctoState` | State dispatch, undo/redo, Registration wrappers, the exception taxonomy | core component, parameterised by the commands |
| `LinearHistory` | a single linear timeline with a cursor: do truncates and appends, undo and redo move the cursor | abstract specification |
| `MCInventory` | InventoryState, FundCompany (17), Purchase (37), Bake (19), OtherCommandN | instance of OctoState |
| `MCDataTypes` | DataTypesState and SetValueCommand (bool and int32 fields) | instance of OctoState |
| `MCEmployees` | BasicState and InsertEmployeesCommand | instance of OctoState |
| `MCPlants` | PlantState, TreeState, CedarState, PotatoState; Edible, Tree and Plant commands | instance of OctoState |
| `ObjectIds` | constructor session check, the initial counter, `getNextObjectId` for the atomic and the EMSCRIPTEN builds, several States and threads | component |
| `IdCounter` | `next_object_id` as spec.md 4.5 states it: one atomic step per call, the n-th call on session K returning (K << 48) \| n, throwing once n does not fit | abstract specification |
| `MCObjectIds` | ObjectIds with two model-value threads | MC module |
| `CommandArgs` | CommandBase `m_args`, `args()`, `argsMutable()` copy-on-write, ArgField `operator=` and the references `operator*`/`->`/`[]` return, handles and the heap of maps | component |
| `ArgsValue` | the arguments as a value: setters change one field, `operator[]` inserts the default, `args()` hands out the current value, a handle keeps it | abstract specification |
| `MCCommandArgs` | CommandArgs with two fields, two values, two handles and one reference | MC module |
| `FieldHash` | the hash loop of `FieldHash.h` on 16-bit limbs, with `char` signedness a constant, and a reference FNV-1a over bytes | component + reference |
| `MCFieldHash` | FieldHash over the 25 names of `FieldHash_test.cpp` and all names of up to two bytes of a six-byte alphabet | MC module |
| `OctoStateProofs` | TLAPS proofs about OctoState: typing, the refinement of LinearHistory, and that a failed call leaves the domain alone | proofs |
| `ObjectIdsProofs` | TLAPS proofs of the three ObjectIds properties and of the refinement of IdCounter, for the atomic build and for the EMSCRIPTEN build with one thread | proofs |
| `FieldHashProofs` | TLAPS proof that the limb multiplication is the product by FNV_prime_32 modulo 2^32 | proofs |
| `CommandArgsProofs` | TLAPS proofs of the two CommandArgs properties and of the refinement of ArgsValue | proofs |

### OctoState

OctoState is generic: the commands are constants.

- `Commands` are values `[cid, args]`.
- `CommandIdOf`, `Registered` and `Accepts` stand for `commandId()`, the registry's keys and
  the `dynamic_cast`.
- `CmdForward(c, d, r, m, n)` and `CmdBackward(c, d, r)` are the command's own methods.
  - Their inputs are the domain `d`, the result map `r`, the mutable flag `m` and the counter `n`.
  - They return `[err, dom, res, nid]` (backward returns `[err, dom]`).
  - `err` is the exception raised ("none" if the call returned).
  - The domain returned is the one left behind, whether or not the call raised.

Each MC module translates the forward and backward of its commands from the source. Its
`.cfg` substitutes them for these constants.

The variables:

| Variable | Code |
|---|---|
| `dom` | the subclass's domain members |
| `nextId` | the per-session low part of `m_next_object_id` |
| `undo`, `redo` | `m_undo`, `m_redo` as sequences of `[cmd, res]`, oldest first |
| `raised` | the exception the last call propagated to its caller |

The actions:

| Action | Code | What it models |
|---|---|---|
| `RunUnregistered` | `_runCommand` | the nullptr branch |
| `RunCommand` | `_runCommand` | the rest of it |
| `Undo` | `undo()` | `canUndo()` true |
| `UndoNothing` | `undo()` | `canUndo()` false |
| `Redo` | `redo()` | `canRedo()` true |
| `RedoNothing` | `redo()` | `canRedo()` false |

`Forward` and `Backward` are `Registration::forward/backward`, the cast included.
`GetNextObjectId` is the fetch-and-increment with the exhaustion check. The counter moves on
even when the check fails.

The object-id layout is abstracted here to its low part: `IdLimit` stands for 2^48. The full
layout is module ObjectIds.

### ObjectIds

The 64-bit layout is scaled down with its proportions kept:

- `SessionBits` and `CounterBits` stand for 14 and 48.
- An id is a signed integer of `2 + SessionBits + CounterBits` bits. It wraps as `int64_t`
  does (`ToSigned`).
- `>> 48` is a flooring division, which is what an arithmetic shift of a negative value does.
- A SessionId is unsigned of `SessionBits + 2` bits, as `uint16_t` is.

`SessionCheckFails` is the constructor's test `m_session_id & 4<<14`, i.e. bit
`SessionBits + 2`. `States` are the sessions whose constructor returned.

How `getNextObjectId` is modelled depends on the build:

- **Atomic build:** `MintAtomic` is one step, the fetch-and-add, check and return.
- **EMSCRIPTEN build:** the counter is a plain `int64_t` and `++` is a load (`MintLoad`)
  and a store, check and return (`MintStore`). Steps of other threads may run between the two.

`minted[s]` records the outcomes in the order they were returned.

### FieldHash

The state is the loop's: `name` (the literal, as UTF-8 byte values), `pos` (`chars`), `len`
and `hash`. `Step` is one iteration of `while (len-- > 0)`. A `uint32_t` is two 16-bit limbs
because TLC's integers are 32-bit.

- `CharValue` reads a byte as `char`. Where `char` is signed (x86) a byte of 128 or more is
  negative.
- `XorChar` converts that int to `uint32_t`, so a negative char sets the 24 high bits, and
  then XORs.
- `Multiply` is the product modulo 2^32 on limbs.

The reference `Fnv1a` is FNV-1a over the bytes as spec.md 4.1 states it. It works on four
bytes with a schoolbook multiplication, so it shares no arithmetic with the limb code.

### CommandArgs

The argument maps live at addresses of a heap `mem`. `cur` is the command's `m_args`;
`held[h]` is a `shared_ptr<const Map>` that `args()` handed out (to a caller, or to the
`CommandRecord` that `_runCommand` pushes, State.cpp 40), with `snap[h]` what it read then.
`UseCount(a)` is `m_args.use_count()`: the command's pointer plus the handles. A map whose
count is 0 is freed; `make_shared` takes a fresh address (`next`), so a freed map is never
reused and a write into it is recognisable.

| Action | Code |
|---|---|
| `Assign(f, v)` | `ArgField::operator=`: `argsMutable()` (copy if `use_count() > 1`), then the field set |
| `TakeRef(r, f)` | `operator*`, `operator->`, `operator[]`: `argsMutable()`, `map[field]` (inserting a default), a reference kept by the caller |
| `WriteRef(r, v)` | the caller writes through the reference; into a freed map it sets `fault` |
| `DropRef(r)` | the reference goes out of scope |
| `Capture(h)` | `args()`; unless `HoldAcrossArgs`, no reference is held at that moment |
| `Release(h)` | a handle (a caller's copy, or a record leaving the deques) is destroyed |

`HoldAcrossArgs` is the one question: may a caller keep a reference across an `args()` call?
The code does not prevent it; the pass run assumes it does not happen, the violation run
lets it happen (with `HoldAcrossArgs = TRUE`, TLC also finds CapturedImmutable broken in
three steps: reference, `args()`, write).

## 3. Runs

| Run | Module / cfg | Expect | Checks | Shows |
|---|---|---|---|---|
| inventory_history | MCInventory / MCInventory.cfg | pass | TypeOK, HistoryReplay, RefinesLinearHistory, FailedCallLeavesDomain | the core with id-minting commands, an unregistered id and id exhaustion is consistent |
| datatypes_replay | MCDataTypes / MCDataTypes.cfg | violation | HistoryReplay | SetValueCommand cannot be redone once a key it sets existed |
| employees_undo_fails | MCEmployees / MCEmployees.cfg | violation | RefinesLinearHistory | a raising backward loses the record |
| employees_exhausted | MCEmployees / MCEmployeesExhausted.cfg | violation | FailedCallLeavesDomain | InsertEmployees half-applies on id exhaustion |
| plants_polymorphic | MCPlants / MCPlants.cfg | pass | HistoryReplay, RefinesLinearHistory | the dynamic_cast dispatch refuses inapplicable commands without recording them |
| ids_atomic | MCObjectIds / MCObjectIds.cfg | pass | IdsUnique, IdLayout, MintOrder, RefinesIdCounter | the atomic allocator is correct through and past exhaustion, and is the one-step counter |
| ids_emscripten_race | MCObjectIds / MCObjectIdsRace.cfg | violation | IdsUnique | two threads on the EMSCRIPTEN counter get the same id |
| ids_emscripten_race_layout | MCObjectIds / MCObjectIdsRaceLayout.cfg | pass | IdLayout | the race duplicates ids but never gives a thread an id outside its session's layout, through and past exhaustion |
| ids_wide_session | MCObjectIds / MCObjectIdsWideSession.cfg | violation | IdLayout | the constructor accepts sessions of 2^SessionBits and more: their ids carry the wrong session, and from 2^(SessionBits+1) every mint throws |
| fieldhash_vectors | MCFieldHash / MCFieldHash.cfg | pass | AsciiIsFnv1a, MatchesTestVectors | the hash loop is FNV-1a on ASCII names and gives every value the test expects, with `char` signed |
| args_cow | MCCommandArgs / MCCommandArgs.cfg | pass | CapturedImmutable, NoWriteAfterFree, RefinesArgsValue | copy-on-write keeps every captured `args()` unchanged and implements value semantics when no reference is held across `args()` |
| args_dangling | MCCommandArgs / MCCommandArgsDangling.cfg | violation | NoWriteAfterFree | reference, `args()`, setter (copy), release, write: a use-after-free |

### The properties

**HistoryReplay** (spec.md 4.5, 5, 6, 8). Replay the records of `m_undo` in order on a fresh
replica, each with its recorded result and `mutableResult = false`. Then:

- nothing raises, and the result is the live domain;
- the undone records of `m_redo` also replay after them without raising.

**RefinesLinearHistory** holds when the history is an implementation of `LinearHistory`
under the mapping:

- timeline = `undo ∘ reverse(redo)`;
- cursor = `Len(undo)`.

So no record is ever dropped or duplicated, and a new run truncates the redo branch.

**FailedCallLeavesDomain** (spec.md 4.5, 7) is an action property. A call that raises leaves
the domain as it found it.

**IdsUnique, IdLayout and MintOrder** (spec.md 3, 8) state:

- no id is returned twice, within a State or across States;
- every id has zero top bits, its session in the session field and a non-zero counter part;
- the first mint of every State succeeds. A session the constructor accepts but whose
  initial counter is negative (2^(SessionBits+1) and more) fails this;
- within a session the ids increase, and once minting has thrown it never succeeds again.

On the EMSCRIPTEN counter with two threads (ids_emscripten_race_layout), IdLayout is the
question of how far the race's damage goes. A store of a stale loaded value plus one sets
the counter back, so ids repeat (ids_emscripten_race). Every id a thread is given
still has zero top bits, its own session and a non-zero counter part. A store
that masked the increment to the counter bits (`MintStoreMasked`) would wrap into counter
part 0 and break it.

**RefinesIdCounter** (spec.md 4.5) says the allocator implements `IdCounter` with the
mapping issued = `minted`. Each call takes effect in one step (the EMSCRIPTEN load is a
stutter), and the n-th outcome on session K is (K << 48) | n, refused exactly when n no
longer fits. It adds to the three invariants that no step returns two outcomes or takes one
back. It is broken by a pre-increment (`++m_next_object_id`) and by the two-thread race
(the counter of ids_emscripten_race).

**AsciiIsFnv1a** (spec.md 4.1, 8): after every iteration, the hash of an ASCII name is
FNV-1a of the bytes consumed so far. **MatchesTestVectors** (FieldHash_test.cpp): when the
loop ends on one of the test's names, the hash is the value the test expects. One of those
names is UTF-8 ("theta is Θ or Ө or θ"). Its expected value, 20395768, is the result with a
signed `char`, not FNV-1a of its bytes (2589910776). So on a platform where `char` is
unsigned (ARM Linux) the test fails, and the spec's "FNV-1a of the UTF-8 bytes" holds there
and nowhere else.

**CapturedImmutable** (Command.h 44-46, spec.md 8, 220): every live `args()` handle reads
what it read when taken. **NoWriteAfterFree**: no write goes through a reference into a map
whose last owner is gone. The use-after-free takes five steps: reference, `args()`, a
setter's copy, release of the handle, write. **RefinesArgsValue** says copy-on-write
implements `ArgsValue`, with the mapping:

- args = `mem[cur]`;
- handle = the map each live handle points to.

Besides what CapturedImmutable says of the handles, it says the command's own map changes
exactly as its setters and `operator[]` say. So a copy in `argsMutable()` that lost
entries (`make_shared<Map>()` in place of `make_shared<Map>(*old_args)`) breaks it. That
bug leaves CapturedImmutable and NoWriteAfterFree true, and its mutant shows it. With
`HoldAcrossArgs = TRUE` TLC finds the refinement broken too.

Every property of a passing run has a mutant in `PROJECT.json`. A mutant is a plausible bug
in a mapped definition, and TLC finds the property violated when the mutant replaces it.
Examples are a dropped registry check, redo not cleared, a redo that mints afresh, a mint
after the first mutation, a dropped `| 1` and a counter masked to its bits.

### Bounds and why they are enough

- **MCInventory:** `IdLimit = 3` with `FirstId = 1`, so the third id-minting command finds
  the counter exhausted. `MaxHistory = 3` records allows run, run, undo, redo, run.
  `Other(99)` is unregistered, and `Other(1)` is an empty command. Two purchases of
  different items and a bake exercise the inventory; a funding exercises the ledger.
- **MCEmployees:** the exhausted run has only one free id for a two-name batch.
- **MCDataTypes:** two commands set the same key, which is all the replay failure needs.
- **MCPlants:** a PotatoState is the class that accepts some commands and refuses one.
- **ObjectIds:** 2 session bits and 2 counter bits give 3 ids per session. Six calls per
  State exhaust it and go on past the exhaustion.
  - Sessions 0, 1 and 3 are the two ends of the valid range plus the neighbour of 0, whose
    range would be hit first by a counter that leaves its session.
  - Two threads give the interleaving of the load and the store. With one thread the
    EMSCRIPTEN build is the atomic one step for step, so no run asks about it: the
    theorems cover it.
  - The race-layout run takes sessions 0 and 3, the two ends of the valid range. Its
    interleavings of two threads over three sessions would take TLC about nine minutes
    (27 million states); with two sessions there are 152 593.

- **CommandArgs:** two fields (one to hold a reference into, one for the setter that
  copies), two values, two handles (so a map is shared twice and a copy can still be shared),
  one reference and three maps (the original, one copy, and a copy of the copy). The
  violations need two maps. Handles are symmetric.
- **FieldHash:** the 25 names of the test, and every name of up to two bytes drawn from
  {97, 122, 127, 128, 206, 255}. These are the ASCII ends, the sign boundary 127/128, a UTF-8
  lead byte and 255, so every carry and sign case of one step and of two chained steps occurs.

The bound `InModelBounds` (OctoState) stops new commands once `MaxHistory` records are held
or the counter has passed the limit. Undo and redo stay enabled, so no state is a deadlock.
In ObjectIds, the program stops minting after `MaxCalls` calls per State. The hash loop
returns when the name is consumed. Those runs say `CHECK_DEADLOCK FALSE` for that reason.

### Fairness and liveness

The core is single-threaded and synchronous (spec.md 5): no operation waits for another, and
every call runs to completion. The only progress question is whether a call terminates, and
the model's calls are single steps. No fairness is assumed and no liveness property is
checked.

## 4. What is proved

`OctoStateProofs.tla`, theorem **TypeCorrect**: `ASSUME CommandsTyped PROVE Spec => []TypeOK`.

- **The hypothesis** `CommandsTyped` says the instance's own forward and backward return
  outcomes of the right shape on inputs of the right shape. It also puts `Dom0` in `Domains`
  and `EmptyResult` in `Results`.
- **Why it is a hypothesis:** it quantifies over domains that TLC cannot enumerate, so it is
  not an ASSUME of the module.
- **What it establishes:** for every instance, the deques only ever hold records of
  registered commands. That is the fact `undo()` and `redo()` rely on when they dereference
  `getCommand(r.command_id)` without a null check.
- **The argument:** TypeOK is inductive as it stands. The step case has one branch per
  action. Each branch uses these lemmas:
  - `ForwardTyped` and `BackwardTyped`: the wrappers' outcomes are well typed, whether or
    not the cast succeeds;
  - `PopTyped`: popping the last element of a sequence of `S` leaves a sequence of `S` and
    yields an element of `S`;
  - `AppendProperties` and `EmptySeq` from SequenceTheorems.

`OctoStateProofs.tla`, theorem **RefinesLinearHistoryHolds**:
`ASSUME CommandsTyped, ReplaySucceeds PROVE Spec => RefinesLinearHistory`.

- **The hypothesis** `ReplaySucceeds` says two things of a command the State accepts:
  - its backward returns without raising;
  - its forward, replayed with a recorded result and `mutableResult = false`, returns too.

  `undo()` and `redo()` pop the record before that call, so a raise loses the record. The
  run `employees_undo_fails` shows the refinement broken without the hypothesis. The
  hypothesis is about every domain, so it is stronger than what a run needs (only reachable
  domains).
- **The inductive invariant** `RInv` is TypeOK plus "every recorded command is one the State
  accepts". The hypothesis is about accepted commands only. A command the `dynamic_cast`
  refuses raises InapplicableCommand, so `_runCommand` never records one
  (`ReturnedImpliesAccepted`). TLC checked `RInv` on the states of `inventory_history` and
  `plants_polymorphic` before it was proved.
- **The argument:** `StepRefines` maps each action to a step of LinearHistory:
  - a recorded run is `Do`, by `TimelinePrefix`: the first `Len(undo)` records of the
    timeline are `undo`;
  - `Undo` and `Redo` leave the timeline as it is (`UndoKeepsTimeline`,
    `RedoKeepsTimeline`) and move the cursor;
  - the other actions, and a run that raised or was not undoable, change neither.

  The initial state maps to the empty timeline. The QED combines the two invariant steps
  and the step mapping with PTL.
- `TypeCorrect` and `RInvStep` share `TypeOKStep`. `PopTyped` states once what popping the
  last element returns, its length included.

`ObjectIdsProofs.tla`, theorems **MintOrderHolds**, **IdsUniqueHolds** and
**IdLayoutHolds**: `ASSUME PowersOfTwo, ValidSessions, CallsBound, Atomic \/ OneThread
PROVE Spec => []Prop` for the three ObjectIds properties. These hold for every `SessionBits`
and `CounterBits` and any `MaxCalls`, within the hypotheses:

- `PowersOfTwo`: `P = 2^CounterBits >= 2`, `Q = 2^SessionBits`, and the sign bit
  `2^(Width-1)` is `2 * Q * P`. These are facts of arithmetic that the backends cannot
  derive.
- `ValidSessions`: the sessions fit the field. The run `ids_wide_session` shows what happens
  to the others.
- `CallsBound`: at most `Q * P` calls per State, so `++` never reaches the sign bit.
- `Atomic \/ OneThread`: the `std::atomic` build with any set of threads, or the
  EMSCRIPTEN build (`++` a load and a store) with a single thread. With two threads the
  EMSCRIPTEN build loses an increment: that is the run `ids_emscripten_race`.

**The inductive invariant** is `BuildInv`: `AInv` in the atomic build, `SInv` in the
EMSCRIPTEN one. Both imply `OInv`: the `i`-th outcome of the State of session `s` is that of
the counter value `s * P + i`. The three properties follow from `OInv`.

- `AInv` says that no thread is between a load and a store. On the State of session `s`
  the counter is also `s * P + 1 + calls[s]`.
- `SInv` says that the counter of each State is `s * P + 1` plus its number of outcomes.
  A State no thread is minting from has had as many calls as outcomes. A thread between
  its load and its store has loaded the current counter of its State and has made the one
  call whose outcome is missing. With one thread, the load finds no other thread
  mid-increment (`MintLoadSInv`), and the store writes the loaded value plus one, which
  does not wrap (`MintStoreSInv`). TLC checked `SInv` on the 1765 states of the
  single-threaded EMSCRIPTEN instance (MCObjectIds with `Threads = {t1}`) before it was
  proved.

The three properties are not inductive by themselves. They speak only of the ids returned,
not of the counter that the next call reads, so the counter has to be in the invariant.

**The argument:**
- `ToSignedInRange` and `CounterInRange`: the int64 wrap does nothing on the values the
  counter takes.
- `SessionOfCounter`: `(s * P + k) >> CounterBits = s` exactly when `k < P`. It rests on
  `DivUnique`.
- `OutcomesOf` turns OInv into "the `i`-th outcome is an id exactly when `i < P`".

From there:
- MintOrder and IdsUnique follow in a few steps.
- IdLayout also uses `ModUnique` for the non-zero counter part.

`ObjectIdsProofs.tla`, theorem **RefinesIdCounterHolds**: under the same four hypotheses,
`Spec => RefinesIdCounter`.

- **What it adds to the invariants:** the allocator is the one-step counter of spec.md
  4.5. No step returns two outcomes or removes one, and the n-th outcome on session K is
  (K << 48) | n, refused exactly when n does not fit.
- **The argument:** no new invariant is needed. `OInv` holds before and after every step
  (`OInvHolds`). `AppendIsCall` shows that a step appending one outcome to a State, between
  two `OInv` states, is IdCounter's call on that session: the appended outcome is the
  `Len + 1`-th, `OInv` after the step fixes its value, and `SessionOfCounter` turns the
  session check into `n < P`. `StepIsCall` has one case per action:
  - `MintAtomic` is such an append;
  - `MintLoad` leaves `minted` alone;
  - `MintStore` is an append when its target is a State, and changes nothing otherwise.

  The QED combines `[]OInv`, the initial states and the step with PTL.

`OctoStateProofs.tla`, theorem **FailedCallLeavesDomainHolds**:
`ASSUME CommandsTyped, AtomicApply PROVE Spec => FailedCallLeavesDomain`.

- **The hypothesis** `AtomicApply` is the atomic-apply convention of spec.md 4.5, stated
  of the commands: a forward or backward that raises returns the domain it was given.
  PurchaseCommand and FundCompanyCommand keep it because they mint their ledger id before
  they mutate. BakeCommand never raises. InsertEmployeesCommand breaks it: the run
  `employees_exhausted` shows that. TLC checked the hypothesis, at every reachable domain
  and counter, on `inventory_history` and `plants_polymorphic`.
- **What it establishes:** the core adds no partial mutation of its own. This covers the
  unregistered id, the failed `dynamic_cast` in `Registration::forward`/`backward`, and
  `undo()`/`redo()` on empty deques.
- **The argument:** `FailedStepKeepsDomain` has one case per action, from `TypeOK`. The
  `ForwardAtomic` and `BackwardAtomic` lemmas lift the hypothesis through the wrappers.
  The QED combines it with `TypeCorrect` by PTL.

`FieldHashProofs.tla`, theorem **MultiplyIsProduct**: `ASSUME LimbPositive, NEW h \in Uint32
PROVE Multiply(h) \in Uint32 /\ Value(Multiply(h)) = (Value(h) * (256 * Limb + 403)) %
(Limb * Limb)`.

- For `Limb = 2^16` this says that the limb code computes `(uint32_t)(hash *
  FNV_prime_32)`: `0x01000193` is `256 * 2^16 + 403`.
- The identity holds for every limb base, so the proof keeps `Limb` symbolic. It needs
  only `LimbPositive` (`Limb` is a positive natural), because the backends know nothing of
  `^`.
- **The argument:** the product is split into a multiple of `Limb * Limb`, which
  `ModAddMultiple` drops, and `X * Limb + b`. Here `b` is the low limb of `lo * 403` and `X`
  is the high limb's sum with the carry. `ModOfLimbs` then reduces `(X * L + b) % (L * L)`
  to `(X % L) * L + b`. The mutant `MultiplyNoCarry` breaks exactly this step.

`CommandArgsProofs.tla`, theorems **CapturedImmutableHolds** and **NoWriteAfterFreeHolds**:
`ASSUME ~HoldAcrossArgs PROVE Spec => []CapturedImmutable` (and the same for
`NoWriteAfterFree`), for every set of fields, values, handles and references and every
`MaxMaps`. `ArgsAssumption` adds that `Handles` is finite, so that use counts are numbers.

- **The hypothesis** is the discipline the code leaves to its callers: no ArgField
  reference is kept across a call of `args()`. The run `args_dangling` shows what happens
  without it.
- **The inductive invariant** `IInv` adds three facts to the two properties:
  - the command's map and every handle's map lie below `next`, so a fresh copy is shared
    with nobody;
  - a held reference points into the command's current map;
  - no handle shares that map.

  The last two are what make the properties inductive. Without them a setter could find
  the map shared while a reference into it is held, copy away from under the reference, and
  leave the reference pointing into a map a handle still reads. TLC checked `IInv` on the
  140 268 states of `args_cow` before it was proved.
- **The argument:** there is one lemma per action. `UseCountFacts` (from FiniteSetTheorems)
  turns `use_count() <= 1` into "no handle shares the map". `ArgsMutableFacts` states once
  what `argsMutable()` returns in both branches, and `AssignIInv` and `TakeRefIInv` rest on
  it.

`CommandArgsProofs.tla`, theorem **RefinesArgsValueHolds**: `ASSUME ~HoldAcrossArgs PROVE
Spec => RefinesArgsValue`, for every value of the constants.

- **The argument:** the same `IInv` carries the refinement. `Live` and `HandleMap` name
  the refinement mapping of the handles. There is one lemma per action, and each gives the
  abstract step:
  - `WriteRefRefines`: a write through a reference is `Set` of its field. The reference
    points into the command's map, and no live handle shares that map.
  - `AssignRefines` and `TakeRefRefines`: the setter is `Set` and `operator[]` is `Touch`.
    Both use `ArgsMutableFacts`: the map `argsMutable()` returns has the command's entries,
    copied or not, and is none of the live handles' maps.
  - `CaptureRefines` and `ReleaseRefines`: `args()` and the destruction of a handle add or
    remove one live handle.

  Dropping a reference changes neither the command's map nor the live handles, so it is a
  stutter. `NextRefines` collects the cases. The QED uses `InitIInv` and `NextIInv` with PTL.

## 5. Only model-checked, and why

The prover cannot reach the following, so they stay with TLC:

- **Liveness and ENABLED.** There are none in this project (section 3).
- **HistoryReplay.** It is defined by a recursive function over the history. A proof needs
  induction over the sequence, and the installed provers cannot instantiate the library's
  induction theorems (their operator parameter). Even `NatInduction` applied to a trivial
  predicate hidden behind a local definition is not proved by SMT or Zenon. Without
  induction, the backends cannot show that the `CHOOSE` behind a recursive function
  satisfies its defining equation, so no property of `ReplayOf` is provable here.
- **Refinement of LinearHistory without `ReplaySucceeds`.** The proof covers instances
  whose commands satisfy the hypothesis. Whether the repository's own commands do is checked
  by TLC on the MC instances, over the domains they reach.
- **FailedCallLeavesDomain without `AtomicApply`.** Whether the repository's commands keep
  the convention is checked by TLC on the MC instances. InsertEmployeesCommand does not.
- **AsciiIsFnv1a and MatchesTestVectors.** `BitXor` and the reference `Fnv1a` are recursive
  functions. Proving what they compute for every input needs induction over data, as for
  HistoryReplay. Only the multiplication, which is not recursive, is proved.
- **RefinesIdCounter on the EMSCRIPTEN build with two threads.** It is false there (a
  duplicated id is not a counter step). Swapping the invariant of ids_emscripten_race for
  this property makes TLC find it broken in four steps, but the project's run for that
  question checks IdsUnique.
- **The ObjectIds properties for sessions wider than the field, or past 2^(SessionBits +
  CounterBits) calls.** In these cases the counter reaches the sign bit and wraps.
- **Facts about `x^n`.** The backends know nothing of exponentiation, so `PowersOfTwo` is a
  hypothesis and not a lemma. TLC checked it, with the invariant, on `ids_atomic`.

## 6. Not modelled

- **Map contents in CommandArgs** are one abstract value per field: a reference into a
  container (`operator[]` on a list) is a reference to the field.
- **`argsReadOnly()` and the const getters** change no state.
- **`runCommand(cmd, false)`.** `allowUndo = false` is documented as an option (spec.md 4.5
  step 4). A command run that way leaves no record, so the history no longer replays to
  the live domain, which the same section states as an invariant. With
  `AllowUndo = {TRUE, FALSE}` in MCInventory.cfg, TLC finds HistoryReplay broken in one
  step (a FundCompany that adds a ledger entry). The runs use `allowUndo = true`, the mode
  in which spec.md 6 promises replay. The gap has no run of its own because of the limit
  of 12 runs.
- **FieldHash with `char` unsigned.** There is no run for it (the project keeps one run per
  question). Setting `CharSigned = FALSE` in MCFieldHash.cfg makes MatchesTestVectors fail on
  the UTF-8 name. The mutant `CharValueUnsigned` does the same.
- **`registerCommand`'s duplicate check.** It runs in static initialisation, before any
  State exists.
- **DataTypes.** `wrap`/`unwrap` are conversions with no state; the MC modules use the
  C++ values directly.
- **Floating point.** The inventory uses doubles, and the model uses the small integers that
  doubles represent exactly.
- **The gtest and benchmark drivers.**

## 7. Plan

The modules in order, with what each adds. All six exist.

1. `OctoState` + `LinearHistory` (abstract) + MC modules for the repository's own State
   subclasses: done.
2. `ObjectIds`: done; it is separate from OctoState because its questions are about bits
   and threads, not about the history. A composition is not needed: OctoState's
   `GetNextObjectId` is ObjectIds' `MintAtomic` on one State, seen through the low part.
3. `OctoStateProofs`: TypeCorrect and the refinement done. Then:
   - the proof that OctoState refines LinearHistory under the mapping above, with a
     hypothesis that backward and replay never raise: done (`RefinesLinearHistoryHolds`);
   - `FailedCallLeavesDomain` from the atomic-apply hypothesis: done
     (`FailedCallLeavesDomainHolds`).
4. `ObjectIdsProofs`: done. IdsUnique, MintOrder and IdLayout are proved for every width,
   for the atomic build from AInv and for the single-threaded EMSCRIPTEN build from SInv.
   The refinement of the abstract counter `IdCounter` is proved from the same invariant.
5. `CommandArgs`, `ArgsValue` and `CommandArgsProofs` (done; both properties and the
   refinement of the value semantics proved): the command's `m_args` handle, the records' handles and a heap of maps
   with use counts; `args()`, `argsMutable()` copy-on-write, ArgField assignment and the
   references `operator*`/`->`/`[]` return. Property: a map captured by `args()` (and so
   by a record) never changes. Expected violation: a reference taken before an `args()`
   call and written through after it.
6. `FieldHash`: done. It is FNV-1a on 16-bit limbs, with `char` signedness as a constant
   and the spec's vectors as checks. The hash is checked by TLC only: what a recursive
   function computes for every name is induction over data. `FieldHashProofs` proves the
   limb multiplication.
