-------------------------------- MODULE Rtc --------------------------------
(***************************************************************************)
(* The real-time clock (rtc.c): its interrupt, rtc_read, which waits for   *)
(* one, and rtc_write, which sets the rate.                                *)
(*                                                                         *)
(* rtc_read runs with interrupts on and all readers share one flag, so     *)
(* setting it and seeing it cleared are separate steps, between which the  *)
(* clock, the PIT and another reader may come.                             *)
(***************************************************************************)
EXTENDS Integers

CONSTANTS NT,      \* number of terminals, one process each (3 in the code)
          Freqs    \* frequencies a program may ask for

ASSUME RtcAssumption == NT \in Nat \ {0} /\ Freqs \subseteq Int

Terminals == 0 .. NT - 1

VARIABLES
  rtc_interrupt_flag,
  rate,       \* the low four bits of register A
  hz,         \* history: the frequency rtc_init or rtc_write last agreed to
  waits,      \* where the process of terminal t is in rtc_read
  ticked      \* history: an interrupt came since that process set the flag

rtcVars == <<rtc_interrupt_flag, rate, hz, waits, ticked>>

RtcTypeOK ==
  /\ rtc_interrupt_flag \in BOOLEAN
  /\ rate \in 0 .. 15
  /\ hz \in Int
  /\ waits \in [Terminals -> {"no", "set", "wait"}]
  /\ ticked \in [Terminals -> BOOLEAN]

\* rtc_init has set 2 Hz.
RtcInit ==
  /\ rtc_interrupt_flag = FALSE
  /\ rate = 15
  /\ hz = 2
  /\ waits = [t \in Terminals |-> "no"]
  /\ ticked = [t \in Terminals |-> FALSE]

\* Mutant: the table begins one rate too low.
RatesOffByOne ==
  {<<2, 14>>, <<4, 13>>, <<8, 12>>, <<16, 11>>, <<32, 10>>,
   <<64, 9>>, <<128, 8>>, <<256, 7>>, <<512, 6>>, <<1024, 5>>}

\* The switch of rtc_write: frequency and rate.  Frequencies that are not in it
\* are refused, those that are no power of two or out of range by earlier tests.
Rates ==
  {<<2, 15>>, <<4, 14>>, <<8, 13>>, <<16, 12>>, <<32, 11>>,
   <<64, 10>>, <<128, 9>>, <<256, 8>>, <<512, 7>>, <<1024, 6>>}

\* rtc_write, with interrupts off while it writes register A.
RtcWrite(f) ==
  /\ IF \E r \in Rates : r[1] = f
     THEN /\ rate' = (CHOOSE r \in Rates : r[1] = f)[2]
          /\ hz' = f
     ELSE UNCHANGED <<rate, hz>>
  /\ UNCHANGED <<rtc_interrupt_flag, waits, ticked>>

\* rtc_read is called by the process of terminal t.
RtcReadCall(t) ==
  /\ waits' = [waits EXCEPT ![t] = "set"]
  /\ UNCHANGED <<rtc_interrupt_flag, rate, hz, ticked>>

\* Mutant: the flag is left as the last reader or interrupt left it.
RtcSetNot(t) ==
  /\ waits[t] = "set"
  /\ waits' = [waits EXCEPT ![t] = "wait"]
  /\ ticked' = [ticked EXCEPT ![t] = FALSE]
  /\ UNCHANGED <<rtc_interrupt_flag, rate, hz>>

\* It sets the flag.
RtcSet(t) ==
  /\ waits[t] = "set"
  /\ rtc_interrupt_flag' = TRUE
  /\ waits' = [waits EXCEPT ![t] = "wait"]
  /\ ticked' = [ticked EXCEPT ![t] = FALSE]
  /\ UNCHANGED <<rate, hz>>

\* Its loop finds the flag cleared.
RtcReturn(t) ==
  /\ waits[t] = "wait"
  /\ ~rtc_interrupt_flag
  /\ waits' = [waits EXCEPT ![t] = "no"]
  /\ ticked' = [ticked EXCEPT ![t] = FALSE]
  /\ UNCHANGED <<rtc_interrupt_flag, rate, hz>>

\* Mutant: the handler forgets the flag.
RtcInterruptNoFlag ==
  /\ ticked' = [t \in Terminals |-> waits[t] = "wait"]
  /\ UNCHANGED <<rtc_interrupt_flag, rate, hz, waits>>

\* rtc_handle_interrupt.
RtcInterrupt ==
  /\ rtc_interrupt_flag' = FALSE
  /\ ticked' = [t \in Terminals |-> waits[t] = "wait"]
  /\ UNCHANGED <<rate, hz, waits>>

-----------------------------------------------------------------------------
(* Properties *)

\* rtc_read does not return before an interrupt that came after it was called,
\* although another reader or an interrupt may touch the flag at any moment.
RtcWaitsForTick ==
  \A t \in Terminals : waits[t] = "wait" /\ ~rtc_interrupt_flag => ticked[t]

\* The clock divides 32768 Hz by 2^(rate - 1): it runs at the frequency the last
\* successful rtc_write was given, and would for every entry of the table.
RateMatches ==
  LET Frequency(r) == 32768 \div 2^(r - 1)
  IN /\ Frequency(rate) = hz
     /\ \A e \in Rates : Frequency(e[2]) = e[1]
=============================================================================
