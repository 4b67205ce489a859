----------------------------- MODULE MCAeadTcp -----------------------------
(* Model-checking instance of AeadTcp: the constants the .cfg files give.  *)
EXTENDS AeadTcp

CONSTANTS r1, r2

\* One byte, two bytes, a full chunk, and one byte more than a chunk holds.
MCSendLens     == {1, 2, CHUNK_SIZE_MASK, CHUNK_SIZE_MASK + 1}
\* A short and a full chunk.
MCReplayLens   == {1, CHUNK_SIZE_MASK}
\* Lengths whose uint16_t value passes assert(plen <= CHUNK_SIZE_MASK).
MCWrapLens     == {UINT16, UINT16 + 1}
MCOneReceiver  == {r1}
MCTwoReceivers == {r1, r2}
=============================================================================
