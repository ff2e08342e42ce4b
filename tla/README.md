# TLA+ models of zephyr-lang-rust: static kernel objects and the dining philosophers

This directory holds the TLA+ verification project for two source files:

- `src/zephyr/src/object.rs`: static kernel objects. It has `StaticKernelObject<T>` with its
  one-shot `init_once`, the `Wrapped` trait, and the `kobj_define!` macros that declare the
  statics.
- `src/samples/philosophers/src/lib.rs`: the dining philosophers sample. It has `rust_main`,
  `phil_thread`, the `ForkSync` trait and `get_random_delay`.

## 1. Inventory

### Components, their state and operations

| Component | State | Operations | Module |
|---|---|---|---|
| Initialization state machine (`object.rs` 107-190) | per static: the `AtomicUsize` state word `init` (0 UNINITIALIZED, 1 INITING, 2 INITIALIZED) and the `UnsafeCell` kernel object `value` | `new` (zero-filled, state 0); `init_once`: CAS 0→1 (on failure return `None`), `get_wrapped(args)`, store 2 with Release, return `Some` | `KObject` |
| Wrapping protocol (`Wrapped`, 131-142) | none of its own; it writes the cell | `get_wrapped`: kind-specific construction. The implementations live outside `src/` | `KObject` (`GetWrapped`) |
| Declaration macros (`kobj_define!`, 192-318) | compile time only | emit zero-filled statics in linker sections. Stacks get a separate proxy | `KObject` (`ZEROED`, `Init`) |
| ForkSync (`lib.rs` 48-55) + semsync | one semaphore per fork, count 0..1, and its wait queue | `take(i)` takes a unit or parks on the queue; `release(i)` hands the unit to the first waiter, or raises the count up to 1 | `Philosophers` (`SemTake`, `SemGive`), `SemQueue` (`TakeNow`, `TakePend`, `TakeResume`, `Give`); spec-modelled |
| Philosopher thread (`phil_thread`, 95-130) | its place in the loop; which forks it holds | take `forks.0`, take `forks.1`, eat (sleep), release `forks.1`, release `forks.0`, think (sleep), repeat | `Philosophers` |
| Main thread (`rust_main`, 58-88) | where main is in its calls, and which statics are initialised | `get_syncer`; `init_once(...).unwrap()` for 6 stacks and 6 threads; spawn thread `i` for `i = 0..5` in order; then sleep forever | `Philosophers` (spawn loop); `Dining` (all of it, composed with `KObject`) |
| `get_random_delay` (132-139) | none (a pure function of uptime) | mask the uptime to usize, `tick/100*(id+1) & 0x1f`, `(delay+1)*period` | `Delay` |
| Kernel services | threads, timers, console | consumed only | not modelled |

### How they interact

`rust_main` calls `init_once` on the stack and thread statics. It also calls `get_syncer`,
which calls `semaphore_sync`, and that calls `init_once` on the semaphore statics. Then it
spawns one thread per philosopher. Each thread gets an `Arc<dyn ForkSync>`, which all six
threads share. The only shared mutable state at run time is:

- the semaphore counts, which change through `take` and `release`;
- the state word of each static, which `init_once` uses.

### What is hard

- **Concurrent first touch** of a static. The CAS is the only gate, and the winner must
  publish the state word only after it has built the cell.
- **Completion.** A winner that never reached the store would leave the static INITING
  forever, and every later caller would get `None`. `get_wrapped` cannot return early, and a
  panic in this `no_std` build does not unwind, so only a slip in `init_once` itself (a return
  before the store) could do it. `InitCompletes` is there to catch that slip.
- **Circular wait.** Six threads each take two forks, one call at a time. The reversed pair
  of the last thread is what keeps the wait-for graph acyclic.
- **Mutual exclusion and the semaphore limit.** `k_sem_give` saturates at 1. The counts must
  stay in step with who holds each fork.
- **Starvation.** The policy does not order the threads that wait for a fork. Only the
  kernel semaphore's FIFO wait queue, and its hand-off of the unit on a give, do.
- **Lost wakeups are not a hazard here.** The kernel checks the count and parks the thread
  under one lock, so `TakePend` is one atomic step. The shape of the wait queues
  (`WaitQueueSound`) then follows from the guards of the kernel actions. It is used only as a
  conjunct of the inductive invariant, not as a property of a run.
- **Start-up.** The early threads run while `rust_main` is still spawning. Every `unwrap` must
  see `Some`, so every static must be touched exactly once, in the hand-unrolled array.
- **Numeric edges.** `get_random_delay` uses usize arithmetic and a 5-bit mask. A bucket of
  0 must still give a non-zero sleep. A debug build panics on overflow.

### Correctness properties per component

- init_once:
  - *exactly once*: at most one `Some` per static, and the cell is built at most once;
  - *publication*: INITIALIZED implies the cell is built;
  - *completion*: INITING is always followed by INITIALIZED;
  - *forward only*: no step moves the state word backwards, and a published static's cell and
    handle never change again.
- Forks: *exclusion*. A fork has at most one holder, and its count is 1 exactly when no
  thread holds it.
- Policy:
  - *no circular wait*;
  - *deadlock freedom*: someone eats infinitely often;
  - *starvation freedom* of each philosopher, given the semaphore wait queue.
- Delay: the result is in `[period, 32*period]`, and the scaled product never overflows.
- Main: every `unwrap` of `init_once` succeeds, and
  start-up completes.

## 2. Modules

### `KObject.tla`: init_once

- **Constants:** `Slots` and `Callers` are sets of model values. `NoSlot` is a model value
  not in `Slots`.
- **Variables:**
  - `init[s]`: the state word;
  - `value[s]`: how many times the cell has been built (`ZEROED = 0` is the `mem::zeroed()`
    memory the macros emit);
  - `pc[c]` and `cur[c]`: where caller `c` is, and on which slot;
  - `ret[c]`: the return of `c`'s last call;
  - `minted[s]`: the callers that got `Some` for `s`.
- **Actions:** one per atomic step of `init_once`:
  - `CompareExchangeOk`: the CAS wins;
  - `CompareExchangeErr`: the CAS fails and the call returns `None` (lines 178-185);
  - `GetWrapped`: line 186;
  - `StoreInitialized`: lines 187-188.
- **Callers** may call any slot any number of times. That is the spec's "k concurrent callers"
  and covers the second-call case that the doc comment mentions.
- **Memory model:** the atomics use AcqRel, Acquire and Release. A loser never reads the cell,
  so each atomic is modelled as one sequentially consistent step.

### `Philosophers.tla`: the sample

- **Constant:** `NUM_PHIL`, with `NumPhilAssumption == NUM_PHIL >= 2`.
- **Variables:** `pc[n]`, `sem[f]` and `spawned`.
- **Fork assignment:** `forks(n)` is lines 99-104.
- **Actions:**
  - `Spawn` is one iteration of the spawn loop (77-81);
  - `TakeLeft`, `TakeRight`, `ReleaseRight`, `ReleaseLeft` and `Think` are the loop body of
    `phil_thread`. Each one covers a call and the sleep or prints up to the next call.
- **Semaphores:** `SemTake` and `SemGive` are the semsync calls. semsync.rs is not among the
  sources, so they are modelled from spec §4.3: `k_sem_take(Forever)` and `k_sem_give` with
  limit 1, starting at count 1.
- **Initial state:** the code starts the loop with "hungry" and not "thinking" as spec §4.4
  says. The model follows the code.

### `Delay.tla`: get_random_delay

- **Arithmetic:** usize arithmetic is taken modulo `USIZE_MOD = 2^USIZE_BITS`.
  - `tick` is the mask `uptime & (usize::MAX as i64)`. For a non-negative uptime that is
    `uptime % USIZE_MOD` on 32-bit and on 64-bit targets.
  - `& 0x1f` is `% 32`.
- **Out of scope:** `Duration::millis_at_least` is outside the repository.

### `SemQueue.tla`: the semaphores as they block and wake

- **Variables:** those of `Philosophers`, plus:
  - `waitq[f]`: the threads parked in `k_sem_take` on fork `f`, in FIFO order;
  - `woken`: the threads a give has handed a unit to, which have not resumed yet.
- **Actions:**
  - `TakeNow`: a take on a positive count;
  - `TakePend`: a take on a 0 count appends the thread to the queue;
  - `TakeResume`: a woken thread returns from its take;
  - `ReleaseRight` and `ReleaseLeft` call `Give`, which wakes the head of the queue (the count
    stays 0) or, with nobody waiting, raises the count;
  - `Spawn` and `Think` are those of `Philosophers`.
- **Source:** the loop is `lib.rs`'s. The queue is the kernel's documented semantics of
  `k_sem_take(Forever)` and `k_sem_give` (semsync is not under `src/`).
- **Refinement:** the module refines `Philosophers` through `Abs == INSTANCE Philosophers WITH
  sem <- AbsSem`. `AbsSem` counts a unit handed to a woken thread as still on the semaphore. A
  `TakePend` step is a stutter of the abstraction. `TakeNow` and `TakeResume` are its
  `TakeLeft` or `TakeRight`.

### `Dining.tla`: the whole sample

- **Composition:** `KO == INSTANCE KObject WITH Slots <- Statics, Callers <- {Main}, ...`
  composes `init_once` with `rust_main`. The statics are the 6 fork semaphores, and the 6 stacks
  and 6 threads of `kobj_define!` (`lib.rs` 141-155).
- **Calls:** `Calls` lists main's 18 `init_once` calls in program order: `get_syncer`'s
  semaphores (`SyncerCalls`), then the threads array (`ArrayCalls`), with `PHIL_STACK_i` before
  `PHIL_THREAD_i` (the stack is the argument).
  - `ArrayCalls` states the unrolled array as a function of `NUM_PHIL`. For `NUM_PHIL = 6` it
    is exactly the source's twelve lines. For any other value it is the array the source
    would have to be extended to.
  - `NUM_PHIL >= 2` is a named assumption (`NumPhilAssumption`) of `Dining` itself, so the
    proofs can use it.
- **Main's actions:**
  - `MainInitOnce`: the CAS;
  - `MainFinish`: `get_wrapped` and the store;
  - `MainUnwrap`: a `None` sets `mpc` to `"panicked"`;
  - `Spawn`: the spawn loop, only once the array is built.
- **Philosophers:** they run `Philosophers`' loop meanwhile.

### Proof modules

`KObjectProofs.tla`, `PhilosophersProofs.tla`, `SemQueueProofs.tla` and `DiningProofs.tla` each
`EXTENDS` their component and `TLAPS`.
The theorems of `Delay` are in `Delay.tla` itself.

### MC modules

- `MCKObject` uses 2 slots (`SEM_0`, `SEM_1`) and 3 callers (`main`, `t1`, `t2`).
- `MCPhilosophers`, `MCSemQueue` and `MCDining` use `NUM_PHIL = 6`, the sample's own value.

## 3. Runs

| Run | Checks | Size | What it shows |
|---|---|---|---|
| `kobject_init_race` (`MCKObject.cfg`) | `TypeOK`, `ExactlyOnce`, `Publication`, `StateForward`, `InitCompletes` | 601 states | In every interleaving of three threads over two statics, including repeated calls and calls during INITING, one call per static wins, the cell is built once, INITIALIZED is never seen over an unbuilt cell, no call (a losing one included) moves a state word back or touches a published cell, and INITING always completes. |
| `philosophers_six` (`MCPhilosophers.cfg`) | `TypeOK`, `ForkExclusion`, `NoCircularWait`, `SomeoneEats` | 8,838 states | With the real 6 threads, including the start-up phase while they are spawned one by one: forks are exclusive and agree with the counts, the wait-for graph never closes a cycle, and someone always eats again. |
| `semqueue_six` (`MCSemQueue.cfg`) | `TypeOK`, `AbsSpec`, `StarvationFree` | 77,407 states | With wait queues and hand-off: every behaviour is one of `Philosophers` with its fairness (`Abs!FairSpec`), and *every* philosopher eats again and again. |
| `dining_six` (`MCDining.cfg`) | `TypeOK`, `NoUnwrapPanic`, `StartupCompletes` | 8,910 states | `rust_main`'s 18 `init_once` calls: no unwrap panics (the hand-unrolled array names every static once), and all six threads get spawned. |

**Why the bounds are enough.**

- Three callers and two slots are enough to have two losers during INITING of one slot while
  another slot is being built.
- Six philosophers is the program itself, and TLC covers its whole reachable state space.

**The mutants.** Each property is shown to catch a plausible bug:

- the CAS refusing only INITIALIZED;
- the CAS installing INITIALIZED at once;
- the winner returning before the store;
- a failed call bumping the state word (fetch_add style);
- a failed call swapping INITING over the word before checking the old value;
- the spawn loop running over `0..=NUM_PHIL`;
- the first release naming `forks.0` instead of `forks.1`;
- no reversal of the last pair;
- a forgotten release;
- a copy-paste slip in the unrolled array (`PHIL_STACK_1` twice);
- the spawn loop skipping philosopher 0.

The philosophers share no state with start-up. Their interleaving with `rust_main` therefore
adds nothing to `NoUnwrapPanic` or `StartupCompletes`.

**Fairness.**

- *KObject*: weak fairness on the steps of a caller that has won the CAS. Nothing can block
  it between the CAS and the store.
- *Philosophers*: weak fairness per thread and for the main thread. The preemptive scheduler
  eventually runs a thread that stays ready. A thread whose semaphore stays positive is ready,
  and a sleeping thread wakes up.
- No strong fairness is assumed. That is why `Philosophers` claims only that *someone* eats.
- *SemQueue*: the same weak fairness per thread. A parked thread is not ready, and its actions
  are disabled. A woken thread is ready. With the hand-off, weak fairness is enough for
  *every* philosopher to eat (`StarvationFree`). A variant without the hand-off lets a woken
  thread race for the count. It was tried while modelling and starves a thread, so the
  hand-off is what the property rests on.
- *Dining*: weak fairness on main's steps. `init_once` never blocks, and neither does the
  spawn loop.

## 4. What is proved (TLAPS)

**`KObjectProofs`** proves `TypeCorrect`, `ExactlyOnceHolds` and `PublicationHolds` for all
sets of slots and callers. `ExactlyOnce` is not inductive on its own. The strengthening
`IInv` states, per slot:

- a caller is inside `init_once` on it only while it is INITING, and there is at most one
  such caller;
- `value` is 1 exactly when the slot is INITIALIZED or its caller has passed `get_wrapped`;
- handles exist only for INITIALIZED slots, an INITIALIZED slot has one, and there is at
  most one.

TLC checked `IInv` as an invariant of the run before the proof. The proof has the usual
layout: `Init => IInv`, then one step per action for `IInv /\ [Next]_vars => IInv'`, then
`IInv` implies the properties.

`KObjectProofs` also proves the action property `StateForwardHolds`. Its lemma `NextForward`
derives `[ForwardStep]_vars` from `IInv` and one step, with one case per action. Two facts of
`IInv` do the work: a caller past the CAS is on a slot that is INITING, so `get_wrapped` and the
store never touch an INITIALIZED slot; and a failed CAS writes nothing. `PTL` then lifts the
step fact to `[][ForwardStep]_vars`.

**`PhilosophersProofs`** proves `ForkExclusionHolds` and `PhilTypeCorrect` for every
`NUM_PHIL >= 2`. The inductive invariant is `TypeOK /\ SpawnedPrefix /\ ForkExclusion`.
`SpawnedPrefix` says that threads `>= spawned` are unspawned, so a spawn never resets a
running thread. The proof cites `ForksLemma`: a philosopher's two forks are distinct and
increasing. For each take and release it proves how `Holds` changes (one pair added or
removed) and then argues one fork at a time.

**`Delay`** proves two theorems for every usize width, uptime and index:

- `DelayBounded`: the result is in `[period, 32*period]` when `32*period` fits in a usize;
- `NoScaledOverflow`: there is no overflow for `id < 99`.

`PhilosophersProofs` also proves `NoCircularWaitHolds`. It first shows that along a
wait-for edge the wanted fork strictly increases (`WaitsForIncreases`). A non-empty set in
which everyone waits for a member then has no member of greatest wanted fork. The proof takes
that member from `WFMin` on `NUM_PHIL - Wanted`, using `NatLessThanWellFounded`.

**`SemQueueProofs`** proves two theorems for every `NUM_PHIL >= 2`:

- `SemQueueTypeCorrect`;
- `SemQueueRefines`: `Spec => Abs!Spec`, the safety part of the refinement.

The inductive invariant `QInv` has five conjuncts:

- `TypeOK`;
- `SpawnedPrefix`;
- `WaitQueueSound`: a parked thread is in a take of that fork, once, not woken, and only while
  the count is 0;
- `WokenSound`: woken threads are still in a take, and no two were handed the same fork;
- `Abs!ForkExclusion`: exclusion read through `AbsSem`.

Exclusion is what makes a give map to an abstract give. The giver holds the fork, so
`AbsSem` is 0 there, nobody is woken on it, and the count is 0. Without it, a give could map
to a saturated give that does nothing. TLC checked `QInv` before the proof. There is one lemma
per action. Each proves `QInv'` and names the abstract step the action is (`NextAbs`). The two
releases share `GiveQInv`.

**`DiningProofs`** proves `DiningTypeCorrect` and `NoUnwrapPanicHolds` for every `NUM_PHIL >= 2`, with `Calls` as the unrolled array for
that `NUM_PHIL`. The argument rests on two lemmas about `Calls`:

- `CallsAt` gives its length `3 * NUM_PHIL` and its entries: semaphore `k - 1` first, then
  stack `n` at `NUM_PHIL + 2n + 1` and thread `n` at `NUM_PHIL + 2n + 2`. The proof goes through
  `ConcatProperties` of `SequenceTheorems`.
- `CallsInjective`: no static is named twice.

The inductive invariant `DInv` ties each static's state word to main's position `next` in
`Calls`:

- the calls before `next` are INITIALIZED;
- the current one is INITING while main is inside `init_once`;
- the later ones are still UNINITIALIZED.

It also records three facts about main:

- after a finished call, main holds `Some`;
- main never panics;
- before the spawn loop, no thread is spawned.

Injectivity makes each CAS of main meet UNINITIALIZED, and so win. The call of `Calls[next]`
also touches no other entry. `NoUnwrapPanic` is a conjunct of `DInv`. TLC checked `DInv`
as an invariant of `dining_six` before the proof. There is one lemma per action, and `NextDInv`
combines them.

**What stays with TLC.** The liveness properties stay with TLC: `InitCompletes`,
`SomeoneEats`, `StarvationFree`, `StartupCompletes`, and the fairness half of `AbsSpec`. Their
proofs need `ENABLED` and fairness reasoning, and the installed backends cannot carry these
out. They are only model-checked.

## 5. Not modelled

- The kind-specific `get_wrapped` implementations and `KStaticThreadStack`, which are not in
  `src/`.
- Linker placement.
- The kernel scheduler, beyond fairness.
- The console.
- The conversion of milliseconds to ticks.

## 6. Plan

1. Done: the `KObject`, `Philosophers`, `SemQueue`, `Dining` and `Delay` modules, each with its
   proofs or its runs.
2. Done: `StateForward` for `KObject`, and the `Dining` invariants as theorems.
3. Next: carry `NoCircularWait` and `ForkExclusion` over to `SemQueue` through the refinement,
   as theorems about the blocking model.
