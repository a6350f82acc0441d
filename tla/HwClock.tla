------------------------------- MODULE HwClock -------------------------------
(***************************************************************************)
(* The hardware clock (arch/i686/drivers/timer.c): the interval timer is   *)
(* programmed with a divisor in two bytes, every period raises IRQ 0, and  *)
(* the handler adds the length of a period to current_clock.  The timer    *)
(* chip (external) counts on its own; handler and calls run with           *)
(* interrupts disabled.                                                    *)
(***************************************************************************)
EXTENDS Integers, Sequences

CONSTANTS
    PIT_FREQ,           \* counts per second of the chip
    NSEC_PER_TICK,      \* PIT_NSEC_PER_TICK, the length of a count
    SECOND,             \* 1000000000
    BYTE,               \* values of a byte (256)
    Frequencies,        \* what ktime_init may ask for
    Times,              \* contents of a caller's timespec_t
    MaxSeconds,         \* bound on the seconds of the clock
    MaxLost             \* bound on the counts lost

ASSUME ClockAssumption ==
    /\ SECOND \in Nat \ {0} /\ BYTE \in Nat \ {0} /\ PIT_FREQ \in Nat
    /\ NSEC_PER_TICK \in Nat /\ MaxSeconds \in Nat /\ MaxLost \in Nat
    /\ Frequencies \subseteq Nat \ {0}
    /\ Times \subseteq [sec : Nat, nsec : 0 .. SECOND - 1]

\* The divisor of every frequency fits two bytes, and its period a second.
ASSUME FrequencyAssumption ==
    \A f \in Frequencies :
        /\ PIT_FREQ \div f \in 1 .. BYTE * BYTE - 1
        /\ (PIT_FREQ \div f) * NSEC_PER_TICK <= SECOND

VARIABLES
    current_clock,      \* [sec, nsec]
    current_ctr_val,    \* the divisor the handler counts with
    pit,                \* [mode, reload, count] of channel 0
    irq,                \* IRQ 0 is pending
    tv,                 \* the timespec_t of the last caller
    base, counted,      \* history: time last set, counts of full periods since
    lost                \* history: counts of them that ended with IRQ 0 pending

clockVars == <<current_clock, current_ctr_val, pit, irq, tv, base, counted, lost>>

Total(t) == t.sec * SECOND + t.nsec

ClockInit ==
    /\ current_clock = [sec |-> 0, nsec |-> 0]
    /\ current_ctr_val = 0
    /\ pit = [mode |-> "off", reload |-> 0, count |-> 0]
    /\ irq = FALSE
    /\ tv \in Times
    /\ base = 0
    /\ counted = 0
    /\ lost = 0

Divisor_LowByte(d) == d % BYTE

\* What the chip makes of the two bytes written to it; 0 stands for BYTE^2.
Divisor(d) ==
    LET written == (d % BYTE) + BYTE * ((d \div BYTE) % BYTE)
    IN IF written = 0 THEN BYTE * BYTE ELSE written

\* hwclock_init, called once by ktime_init.
hwclock_init(frequency) ==
    /\ pit.mode = "off"
    /\ LET d == PIT_FREQ \div frequency
       IN /\ current_ctr_val' = d
          /\ pit' = [mode |-> "counting", reload |-> Divisor(d), count |-> Divisor(d)]
    /\ UNCHANGED <<current_clock, irq, tv, base, counted, lost>>

\* The chip counts down; at the end of a period it raises IRQ 0.  If that is
\* still pending the period is lost: the handler will run once.
pit_count ==
    /\ pit.mode = "counting" /\ current_clock.sec < MaxSeconds
    /\ IF pit.count > 1
       THEN /\ pit' = [pit EXCEPT !.count = @ - 1]
            /\ UNCHANGED <<irq, counted, lost>>
       ELSE /\ lost <= MaxLost
            /\ pit' = [pit EXCEPT !.count = pit.reload]
            /\ irq' = TRUE
            /\ counted' = counted + pit.reload
            /\ lost' = IF irq THEN lost + pit.reload ELSE lost
    /\ UNCHANGED <<current_clock, current_ctr_val, tv, base>>

\* The addition with one carry that handler and hwclock_get_time share.
Advance(t, nsec) ==
    LET sum == t.nsec + nsec
    IN IF sum > SECOND THEN [sec |-> t.sec + 1, nsec |-> sum - SECOND]
       ELSE [sec |-> t.sec, nsec |-> sum]

\* The handler of IRQ 0; the scheduler's callback is in SchedRR.
hwclock_irq_handler ==
    /\ irq
    /\ irq' = FALSE
    /\ current_clock' = Advance(current_clock, current_ctr_val * NSEC_PER_TICK)
    /\ UNCHANGED <<current_ctr_val, pit, tv, base, counted, lost>>

\* hwclock_set_time(&time).  A period that has ended and is not yet handled
\* will still be added.
hwclock_set_time(time) ==
    /\ current_clock' = time
    /\ tv' = time
    /\ base' = Total(time)
    /\ counted' = IF irq THEN pit.reload ELSE 0
    /\ lost' = 0
    /\ UNCHANGED <<current_ctr_val, pit, irq>>

\* hwclock_get_time: the clock and what the counter holds.  The mode command
\* that precedes the reading makes the chip wait for a new divisor.
hwclock_get_time ==
    /\ tv' = Advance(current_clock, pit.count * NSEC_PER_TICK)
    /\ pit' = [pit EXCEPT !.mode = "waiting"]
    /\ UNCHANGED <<current_clock, current_ctr_val, irq, base, counted, lost>>

\* The members of hwclock_t, and the initialiser of hwclock, in order: each of
\* the last two members calls the function of the other.
hwclock_t == <<"register_callback", "init", "set_time", "get_time">>
hwclock == <<"register_callback", "init", "get_time", "set_time">>

\* A call of hwclock.hwclock_set_time or hwclock.hwclock_get_time with a
\* pointer to `time'.
call_hwclock(member, time) ==
    /\ pit.mode # "off"
    /\ \E i \in DOMAIN hwclock_t :
        /\ hwclock_t[i] = member
        /\ \/ hwclock[i] = "set_time" /\ hwclock_set_time(time)
           \/ hwclock[i] = "get_time" /\ hwclock_get_time

ClockNext ==
    \/ \E f \in Frequencies : hwclock_init(f)
    \/ pit_count
    \/ hwclock_irq_handler
    \/ \E member \in {"set_time", "get_time"}, time \in Times : call_hwclock(member, time)

ClockSpec == ClockInit /\ [][ClockNext]_clockVars

-----------------------------------------------------------------------------
(* Properties *)

\* Type invariant; a full second of nanoseconds stays uncarried.
ClockTypeOK ==
    /\ current_clock.sec \in Nat /\ current_clock.nsec \in 0 .. SECOND
    /\ current_ctr_val \in Nat
    /\ pit.mode \in {"off", "counting", "waiting"}
    /\ pit.count \in 0 .. pit.reload /\ pit.reload \in 0 .. BYTE * BYTE
    /\ irq \in BOOLEAN /\ lost \in Nat

\* current_clock keeps pace with the chip: the handler's arithmetic, the carry
\* and the divisor as the chip got it agree, so that at any moment the clock
\* and the period not yet handled make up the time since it was last set, less
\* the periods that ended before the handler had run for the one before.
ClockKeepsPace ==
    Total(current_clock) + (IF irq THEN pit.reload * NSEC_PER_TICK ELSE 0)
        = base + (counted - lost) * NSEC_PER_TICK

=============================================================================
