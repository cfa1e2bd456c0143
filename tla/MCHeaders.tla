----------------------------- MODULE MCHeaders -----------------------------
(* The download of a chain of six headers with a branch from below MinWork *)
(* and one from above.                                                     *)
EXTENDS HeadersDownload

CONSTANTS g, a1, a2, a3, a4, a5, a6, b3, b4, b5, b6, c6, c7

MCParent ==
    [h \in Header \ {g} |->
        CASE h = a1 -> g [] h = a2 -> a1 [] h = a3 -> a2 [] h = a4 -> a3 [] h = a5 -> a4 [] h = a6 -> a5
          [] h = b3 -> a2 [] h = b4 -> b3 [] h = b5 -> b4 [] h = b6 -> b5
          [] h = c6 -> a5 [] h = c7 -> c6]

\* The bits of the branches a and b differ, or agree up to height 4, the last
\* that is compared: from height 5 on the work suffices.
MCSalts == {{b3, b4, b5, b6}, {b5, b6}}
=============================================================================
