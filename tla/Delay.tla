------------------------------- MODULE Delay -------------------------------
(***************************************************************************)
(* get_random_delay of the philosophers sample (lib.rs): the eating and    *)
(* thinking pause of philosopher `id`, derived from the uptime clock.      *)
(*                                                                         *)
(*   let tick = (uptime_get() & (usize::MAX as i64)) as usize;             *)
(*   let delay = (tick / 100 * (id + 1)) & 0x1f;                           *)
(*   Duration::millis_at_least(((delay + 1) * period) as Tick)             *)
(*                                                                         *)
(* usize arithmetic is taken modulo USIZE_MOD = 2^USIZE_BITS, the way a    *)
(* release build wraps.  The mask keeps the low USIZE_BITS bits of the     *)
(* non-negative uptime (on a 64-bit target usize::MAX as i64 is -1 and the *)
(* mask keeps all of it), so it is the remainder modulo USIZE_MOD; & 0x1f  *)
(* on a non-negative value is the remainder modulo 32.  The conversion to  *)
(* kernel ticks in millis_at_least is outside this repository.             *)
(***************************************************************************)
EXTENDS Naturals, TLAPS

CONSTANT USIZE_BITS

USIZE_MOD == 2 ^ USIZE_BITS

\* (uptime_get() & (usize::MAX as i64)) as usize
tick(uptime) == uptime % USIZE_MOD

\* tick / 100 * (id + 1), before the wrap of a release build.
Scaled(id, uptime) == (tick(uptime) \div 100) * (id + 1)

\* (tick / 100 * (id + 1)) & 0x1f
delay(id, uptime) == (Scaled(id, uptime) % USIZE_MOD) % 32

\* The milliseconds passed to Duration::millis_at_least.
get_random_delay(id, period, uptime) ==
    ((delay(id, uptime) + 1) * period) % USIZE_MOD

-----------------------------------------------------------------------------

\* The masked product is one of the 32 buckets 0 .. 31.
LEMMA DelayRange ==
    ASSUME NEW id \in Nat, NEW uptime \in Nat, USIZE_MOD \in Nat \ {0}
    PROVE  delay(id, uptime) \in 0 .. 31
<1>1. tick(uptime) \in Nat
    BY DEF tick
<1>2. Scaled(id, uptime) \in Nat
    BY <1>1 DEF Scaled
<1>3. Scaled(id, uptime) % USIZE_MOD \in Nat
    BY <1>2
<1>. QED
    BY <1>3 DEF delay

\* Delay boundedness (spec 8): for any uptime and any philosopher, the pause
\* get_random_delay asks for is never zero: it lies in [period, 32 * period]
\* whenever 32 * period fits in a usize.
THEOREM DelayBounded ==
    ASSUME NEW id \in Nat, NEW period \in Nat, NEW uptime \in Nat,
           USIZE_MOD \in Nat \ {0},
           32 * period < USIZE_MOD
    PROVE  get_random_delay(id, period, uptime) \in period .. 32 * period
<1>1. delay(id, uptime) \in 0 .. 31
    BY DelayRange
<1> DEFINE d == delay(id, uptime)
<1>2. (d + 1) * period \in period .. 32 * period
    BY <1>1
<1>3. ((d + 1) * period) % USIZE_MOD = (d + 1) * period
    BY <1>2
<1>. QED
    BY <1>2, <1>3 DEF get_random_delay

\* In a debug build usize overflow panics.  The product tick / 100 * (id + 1)
\* never overflows for a philosopher index below 99 (NUM_PHIL is 6), so
\* get_random_delay cannot panic in any build.
THEOREM NoScaledOverflow ==
    ASSUME NEW id \in 0 .. 98, NEW uptime \in Nat, USIZE_MOD \in Nat \ {0}
    PROVE  Scaled(id, uptime) < USIZE_MOD
<1>1. tick(uptime) \in 0 .. USIZE_MOD - 1
    BY DEF tick
<1> DEFINE q == tick(uptime) \div 100
<1>2. q \in Nat /\ q * 100 <= tick(uptime)
    BY <1>1
<1>3. q * (id + 1) <= q * 100
    BY <1>2
<1>. QED
    BY <1>1, <1>2, <1>3 DEF Scaled

=============================================================================
