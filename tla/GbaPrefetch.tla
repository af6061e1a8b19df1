---------------------------- MODULE GbaPrefetch -----------------------------
(***************************************************************************)
(* The wait cycles of the Game Pak bus (core/gba_bus.cpp): first and       *)
(* following accesses by WAITCNT, the stream of instruction fetches with   *)
(* its prefetch buffer of eight halfwords, and the stream of data.  An     *)
(* instruction is a step: fetches and data accesses, then its own cycles.  *)
(***************************************************************************)
EXTENDS Integers

CONSTANTS Waitcnts,  \* values of WAITCNT: [first, next: waitstate region to setting, prefetch]
          CodeAt,    \* addresses that the program runs at
          DataAt,    \* addresses of its data
          OwnCycles, \* cycles of an instruction
          MaxAccesses

ASSUME BusAssumption ==
  /\ Waitcnts \subseteq [first : [1..3 -> 0..3], next : [1..3 -> 0..1], prefetch : BOOLEAN, sram : 0..3]
  /\ CodeAt \subseteq Int /\ DataAt \subseteq Int /\ OwnCycles \subseteq Nat

VARIABLES waitcnt,
          fetching,  \* [active, expected, queued]: the fetch stream and prefetch_halfwords_
          data,      \* [active, expected]: the data stream
          pending,   \* pending_timing_cycles_
          running,   \* timing_active_
          flow,      \* where an unbroken run of fetches goes on, or 0
          credit,    \* cycles of the CPU since the run began, less what its fetches have saved
          accesses

busVars == <<waitcnt, fetching, data, pending, running, flow, credit, accesses>>

RomStart == 134217728 \* 0x08000000
RomEnd == 234881023   \* 0x0DFFFFFF
SramStart == 234881024
SramSize == 65536
InGamePak(a) == a \in RomStart..RomEnd
Region(a) == IF a < 167772160 THEN 0 ELSE IF a < 201326592 THEN 1 ELSE 2

(* gamepak_wait_cycles_halfword, gamepak_wait_cycles, sram_wait_cycles      *)
NseqWait == <<4, 3, 2, 8>>
SeqWait == <<<<2, 1>>, <<4, 1>>, <<8, 1>>>>
HalfwordWait(a, sequential) ==
  LET r == Region(a) + 1
  IN  IF ~InGamePak(a) THEN 0
      ELSE IF sequential THEN SeqWait[r][waitcnt.next[r] + 1] ELSE NseqWait[waitcnt.first[r] + 1]
WaitCycles(a, halfwords, sequential) == \* of an access, which has two halfwords at most
  IF ~InGamePak(a) \/ halfwords = 0 THEN 0
  ELSE HalfwordWait(a, sequential) + (IF halfwords = 2 THEN HalfwordWait(a + 2, TRUE) ELSE 0)

NoFetch == [active |-> FALSE, expected |-> 0, queued |-> 0]
NoData == [active |-> FALSE, expected |-> 0]

BusInit ==
  /\ waitcnt \in Waitcnts /\ fetching = NoFetch /\ data = NoData
  /\ pending = 0 /\ running = FALSE /\ flow = 0 /\ credit = 0 /\ accesses = 0
Turn == accesses < MaxAccesses /\ accesses' = accesses + 1

(* begin_cpu_step and the first fetch; a step of ARM code fetches 4 bytes,  *)
(* of THUMB code 2 (account_fetch_timing)                                   *)
Fetched(f, a, bytes) ==
  LET flows == f.active /\ a = f.expected
      queue == IF flows THEN f.queued ELSE 0
      used == IF ~waitcnt.prefetch THEN 0 ELSE IF queue < bytes \div 2 THEN queue ELSE bytes \div 2
  IN  [stream |-> [active |-> TRUE, expected |-> a + bytes,
                   queued |-> IF waitcnt.prefetch THEN queue - used ELSE 0],
       wait |-> WaitCycles(a + 2 * used, bytes \div 2 - used, flows)]
BeginStep(a, bytes) ==
  LET f == IF waitcnt.prefetch THEN fetching ELSE [fetching EXCEPT !.queued = 0]
      got == Fetched(f, a, bytes)
      whole == WaitCycles(a, bytes \div 2, a = flow)
  IN  /\ Turn /\ ~running /\ running' = TRUE
      /\ data' = NoData
      /\ fetching' = IF InGamePak(a) THEN got.stream ELSE NoFetch
      /\ pending' = IF InGamePak(a) THEN got.wait ELSE 0
      /\ flow' = IF InGamePak(a) THEN a + bytes ELSE 0
      /\ credit' = (IF a = flow THEN credit ELSE 0) - (whole - pending')
      /\ UNCHANGED waitcnt

(* account_data_access_timing: an access to the Game Pak ends the fetches'  *)
(* stream                                                                   *)
AccessData(a, bytes) ==
  LET at == 2 * (a \div 2)
      halfwords == (bytes + 1) \div 2
      more == IF InGamePak(a) THEN WaitCycles(at, halfwords, data.active /\ at = data.expected)
              ELSE IF a \in SramStart..(SramStart + SramSize - 1)
                   THEN NseqWait[waitcnt.sram + 1] * bytes ELSE 0
  IN  /\ Turn /\ running
      /\ pending' = pending + more
      /\ IF InGamePak(a)
         THEN /\ fetching' = NoFetch /\ data' = [active |-> TRUE, expected |-> at + 2 * halfwords]
              /\ flow' = 0 /\ credit' = 0
         ELSE data' = NoData /\ UNCHANGED <<fetching, flow, credit>>
      /\ UNCHANGED <<waitcnt, running>>

(* A store to WAITCNT, and a DMA: invalidate_prefetch_stream                *)
Invalidate(w) ==
  /\ Turn /\ (running \/ w = waitcnt) /\ waitcnt' = w
  /\ fetching' = NoFetch /\ data' = NoData /\ flow' = 0 /\ credit' = 0
  /\ UNCHANGED <<pending, running>>

(* finish_cpu_step: refill_prefetch with the instruction's own cycles       *)
Fill(m) == \* one turn of the loop
  LET f == m.stream
      next == f.expected + 2 * f.queued
      cost == HalfwordWait(next, TRUE)
  IN  IF f.queued >= 8 \/ m.budget =< 0 THEN m
      ELSE IF ~InGamePak(next) THEN [stream |-> [f EXCEPT !.active = FALSE, !.queued = 0], budget |-> 0]
      ELSE IF m.budget < cost THEN m
      ELSE [stream |-> [f EXCEPT !.queued = @ + 1], budget |-> m.budget - cost]
Refilled(f, cycles) ==
  LET filled[k \in 0..8] == IF k = 0 THEN [stream |-> f, budget |-> cycles] ELSE Fill(filled[k - 1])
  IN  filled[8].stream
FinishStep_FillsUp(own) ==
  /\ Turn /\ running /\ running' = FALSE /\ pending' = 0
  /\ fetching' = (IF waitcnt.prefetch /\ fetching.active THEN [fetching EXCEPT !.queued = 8]
                  ELSE [fetching EXCEPT !.queued = 0])
  /\ credit' = credit + own
  /\ UNCHANGED <<waitcnt, data, flow>>
FinishStep(own) ==
  /\ Turn /\ running /\ running' = FALSE /\ pending' = 0
  /\ fetching' = (IF waitcnt.prefetch /\ fetching.active THEN Refilled(fetching, own)
                  ELSE [fetching EXCEPT !.queued = 0])
  /\ credit' = credit + own
  /\ UNCHANGED <<waitcnt, data, flow>>

BusNext ==
  \/ \E a \in CodeAt \union {flow}, bytes \in {2, 4} : BeginStep(a, bytes)
  \/ \E a \in DataAt, bytes \in {1, 2, 4} : AccessData(a, bytes)
  \/ \E w \in Waitcnts : Invalidate(w)
  \/ \E own \in OwnCycles : FinishStep(own)
BusSpec == BusInit /\ [][BusNext]_busVars

(* The prefetch buffer gives nothing away: what the fetches of an unbroken  *)
(* run have saved is never more than the cycles the CPU has spent in its    *)
(* instructions since the run began.  A jump, an access to data in the Game *)
(* Pak, a DMA and a change of WAITCNT start the run again, at full cost.    *)
PrefetchPaid == credit >= 0 /\ pending >= 0 /\ fetching.queued \in 0..8
=============================================================================
