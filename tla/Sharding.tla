------------------------------ MODULE Sharding ------------------------------
(***************************************************************************)
(* core/solana/sharding.ts: which wallet a job's rent comes from and goes  *)
(* back to.                                                                *)
(*                                                                         *)
(* `state` is the part of AcpState these functions read: the wallets and   *)
(* the counts of live ones, the first wallet included.                     *)
(***************************************************************************)
EXTENDS Integers, Sequences

NoPin == "unpinned"

Least(a, b) == IF a < b THEN a ELSE b
Most(a, b) == IF a < b THEN b ELSE a

(* Mutant: the address is not reduced.                                     *)
ShardIndexRaw(key, count) == IF count <= 1 THEN 0 ELSE key

\* A job's address, read as a number, modulo the number of shards.
ShardIndex(key, count) == IF count <= 1 THEN 0 ELSE key % count

\* The scalar wallet first, then as many of the others as the count admits.
LiveShards(scalar, shards, count) ==
  <<scalar>> \o SubSeq(shards, 1, Least(Most(count, 1), Len(shards) + 1) - 1)

AllSponsors(state) == LiveShards(state.sponsor, state.sponsorShards, state.sponsorShardCount)

\* The wallet derived from the job's address: right only when no job exists.
SponsorFor(state, key) ==
  AllSponsors(state)[ShardIndex(key, Len(AllSponsors(state))) + 1]

\* The wallet at the index the job recorded; the scalar once the set has
\* shrunk past it.
SponsorForRecorded(state, index) ==
  LET live == AllSponsors(state)
  IN IF index < Len(live) THEN live[index + 1] ELSE state.sponsor

PinIfSharded(state, resolved) == IF state.sponsorShardCount > 1 THEN resolved ELSE NoPin

=============================================================================
