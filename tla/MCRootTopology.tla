---------------------------- MODULE MCRootTopology ----------------------------
(***************************************************************************)
(* Values of -n and -b for checking initTC's root tree.                    *)
(***************************************************************************)
EXTENDS RootTopology

\* -n up to 8, the number of DSCP class selectors cs0..cs7.
MCPriorityCounts == 1..8

\* The smallest -b with a nonzero minRate, an odd one, the default
\* (1 Gbps) and the largest an int holds.
MCMaxRates == {100, 12345, 125000000, 2147483647}

=============================================================================
