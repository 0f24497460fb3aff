---------------------------- MODULE MC_StreamHub ----------------------------
(* StreamHub for TLC: two connections with distinct ids (their own        *)
(* ids, as X-ConnID would give), a few datagrams, a one-frame cache and    *)
(* one-frame client channels, so that the cache evicts and a channel fills *)
(* up, and a resync pulse on every second drop so that the drop path and   *)
(* its resync both happen.  The .cfg files give the bounds.                *)
EXTENDS StreamHub, TLC

CONSTANTS c1, c2

MCConns == {c1, c2}
MCIdOf == [c \in MCConns |-> c]
MCSymmetry == Permutations(MCConns)

\* Two requests carrying the same X-ConnID header: both connections map to
\* one id.
MCSharedIds == {c1}
MCSharedIdOf == [c \in MCConns |-> c1]

=============================================================================
