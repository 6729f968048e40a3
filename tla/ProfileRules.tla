----------------------------- MODULE ProfileRules -----------------------------
(***************************************************************************)
(* The profile-driven rules (profile_rules.cpp).  A file's hotness for an  *)
(* event is a function from its lines to [self, total]; the code compares  *)
(* self / total with fractions, which are percentages here.                *)
(***************************************************************************)
EXTENDS Integers

Share(h, percent) == h.self * 100 >= percent * h.total

CycleFraction     == 5      \* CACHE_MISS_HOTSPOT_CYCLE_FRACTION
MissFraction      == 10     \* CACHE_MISS_EVENT_FRACTION
BranchFraction    == 10     \* BRANCH_MISS_FRACTION
BranchCycles      == 3      \* BRANCH_CYCLE_FRACTION
BandwidthFraction == 15     \* BANDWIDTH_LLCMISS_FRACTION
LowIpcCycles      == 5      \* LOW_IPC_CYCLE_FRACTION

CacheMissHotspot(cycles, misses) ==
  {n \in DOMAIN cycles \cap DOMAIN misses :
     Share(cycles[n], CycleFraction) /\ Share(misses[n], MissFraction)}

BranchMispredict(cycles, branches) ==
  {n \in DOMAIN cycles \cap DOMAIN branches :
     Share(branches[n], BranchFraction) /\ Share(cycles[n], BranchCycles)}

MemoryBandwidthBound(cycles, llc) ==
  {n \in DOMAIN cycles \cap DOMAIN llc :
     Share(cycles[n], CycleFraction) /\ Share(llc[n], BandwidthFraction)}

\* Mutant: the miss fraction is compared with twice the threshold, not half.
LowIpc_Doubled(cycles, misses) ==
  {n \in DOMAIN cycles :
     /\ Share(cycles[n], 2 * LowIpcCycles)
     /\ n \in DOMAIN misses => ~Share(misses[n], 2 * MissFraction)}

\* Twice the cycles, and less than half the misses, of a cache-miss hotspot.
LowIpc(cycles, misses) ==
  {n \in DOMAIN cycles :
     /\ Share(cycles[n], 2 * LowIpcCycles)
     /\ n \in DOMAIN misses => ~Share(misses[n], MissFraction \div 2)}
===============================================================================
