---------------------------- MODULE CacheReplay ----------------------------
(***************************************************************************)
(* CacheSim on a given trace, and what main prints at its end.  The trace  *)
(* is the one of tests_filtered/tests/test284.in, whose expected output is *)
(* test284.out.  Its command line sets blocks of 8 bytes, a first level of *)
(* 4 blocks in 2 sets, a second of 16 blocks in 2 sets, write allocate,    *)
(* and access times of 41, 59 and 97 cycles.                               *)
(***************************************************************************)
EXTENDS CacheSim

R(addr) == [op |-> "r", blk |-> addr \div 8]
W(addr) == [op |-> "w", blk |-> addr \div 8]

Trace == <<
  W(\h78FFC), W(\h7904C), R(\h7903C), W(\h79030), R(\h79068), R(\h79068),
  R(\h78FE0), W(\h79074), W(\h79034), R(\h79008), W(\h79068), W(\h79010),
  W(\h79040), W(\h79060), R(\h79070), W(\h78FF4), W(\h79048), R(\h78FF8),
  W(\h79040), R(\h78FF8), R(\h7902C), R(\h7904C), W(\h79014), R(\h7902C),
  R(\h78FF4), R(\h7905C), W(\h79030), R(\h7902C), W(\h79004), R(\h79024),
  R(\h78FF4), R(\h79054), W(\h7901C), W(\h79068), R(\h79014), R(\h79014),
  W(\h79074), R(\h79030), R(\h79064), W(\h79034), W(\h78FF0) >>

TraceBlocks == {Trace[i].blk : i \in DOMAIN Trace}

TwoSetsTwoWays == [sets |-> 2, ways |-> 2]
TwoSetsEightWays == [sets |-> 2, ways |-> 8]

ReplayInit == Init /\ wrAlloc = TRUE

\* The next line of the trace.
Replay ==
  /\ counter < Len(Trace)
  /\ LET line == Trace[counter + 1]
     IN  IF line.op = "r" THEN Read(line.blk) ELSE Write(line.blk)

ReplaySpec == ReplayInit /\ [][Replay]_vars

-----------------------------------------------------------------------------
\* n / d in thousandths, as printf rounds it to three decimals.
Thousandths(n, d) == (2000 * n + d) \div (2 * d)

MissRate(c) == Thousandths(c.misses, c.hits + c.misses)

(***************************************************************************)
(* test284.out: "L1miss=0.829 L2miss=0.559 AccTimeAvg=134.878".            *)
(***************************************************************************)
PrintsExpectedOutput ==
  counter = Len(Trace) =>
    /\ MissRate(l1) = 829
    /\ MissRate(l2) = 559
    /\ Thousandths(sumCycles, counter) = 134878
=============================================================================
